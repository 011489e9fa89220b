------------------------------ MODULE WebPages ------------------------------
(***************************************************************************)
(* A page of the web client (apps/web) and the list it shows: useApi, the  *)
(* hook through which every page fetches, the filter of the reservation    *)
(* history, and the bulk decisions of the faculty approvals page.          *)
(*                                                                         *)
(* The tab sends requests; the server answers each from the table of the   *)
(* moment it gets to it; answers arrive in any order, or never.  A render  *)
(* is one step, and the effect that follows it another: in between, the    *)
(* page has what it was told to show last.                                 *)
(***************************************************************************)
EXTENDS Naturals, FiniteSets

CONSTANTS
  Rids,      \* the reservations the lists are about
  Filters,   \* the statuses the page can be asked for
  MaxCalls,  \* how many lists a tab asks for
  MaxBatches,  \* how many decisions it sends
  None       \* nothing

ASSUME NoneAssumption == None \notin BOOLEAN

VARIABLES
  row,       \* the server's table: the status of each reservation
  filter,    \* the page's dependency: which status it is asked for
  effect,    \* the hook's effect has run for what was rendered last
  live,      \* the request whose answer the hook waits for
  calls,     \* the requests on their way
  sent,      \* how many requests were sent
  shown,     \* the hook's data: the filter it is of, and the reservations
  loading, error,  \* the hook's
  selected,  \* the approvals page: the boxes that are ticked
  dialog,    \* the decision that is being confirmed, and what its dialog has sent
  batches,   \* the bulk requests on their way
  decided,   \* how many were sent
  mine       \* history: what the tab knows it has decided

hook == <<effect, live, calls, sent, shown, loading, error>>
approvals == <<selected, dialog, batches, decided>>
vars == <<row, filter, hook, approvals, mine>>

Statuses == {"PENDING", "APPROVED", "REJECTED", "CANCELLED", "ACTIVE", "COMPLETED"}
Decisions == {"APPROVED", "REJECTED"}

-----------------------------------------------------------------------------
(* The server *)

Listed(of) == [of |-> of, rows |-> {r \in Rids : row[r] = of}]

Moves == {<<"PENDING", "APPROVED">>, <<"PENDING", "REJECTED">>, <<"PENDING", "CANCELLED">>,
          <<"APPROVED", "CANCELLED">>, <<"APPROVED", "ACTIVE">>, <<"ACTIVE", "COMPLETED">>}

\* Others decide and cancel, and time passes.
OthersMove(r, to) ==
  /\ <<row[r], to>> \in Moves
  /\ row' = [row EXCEPT ![r] = to]
  /\ UNCHANGED <<filter, hook, approvals, mine>>

Serve(c) ==
  /\ c.got = None
  /\ calls' = (calls \ {c}) \cup {[c EXCEPT !.got = Listed(c.of)]}
  /\ UNCHANGED <<row, filter, effect, live, sent, shown, loading, error, approvals, mine>>

-----------------------------------------------------------------------------
(* useApi *)

Change(f) ==
  /\ effect
  /\ f # filter
  /\ filter' = f
  /\ effect' = FALSE
  /\ UNCHANGED <<row, live, calls, sent, shown, loading, error, approvals, mine>>

\* The effect cancels the last request, that is, stops waiting for it.
Effect ==
  /\ ~effect
  /\ sent < MaxCalls
  /\ sent' = sent + 1
  /\ live' = sent + 1
  /\ calls' = calls \cup {[n |-> sent + 1, of |-> filter, got |-> None]}
  /\ effect' = TRUE
  /\ loading' = TRUE
  /\ error' = FALSE
  /\ UNCHANGED <<row, filter, shown, approvals, mine>>

Waiting(c) == c.n = live

Arrive(c) ==
  /\ c.got # None
  /\ calls' = calls \ {c}
  /\ IF Waiting(c)
     THEN shown' = c.got /\ loading' = FALSE
     ELSE UNCHANGED <<shown, loading>>
  /\ UNCHANGED <<row, filter, effect, live, sent, error, approvals, mine>>

Failed(c) ==
  IF Waiting(c) THEN error' = TRUE /\ loading' = FALSE ELSE UNCHANGED <<error, loading>>
Fail(c) ==
  /\ calls' = calls \ {c}
  /\ Failed(c)
  /\ UNCHANGED <<row, filter, effect, live, sent, shown, approvals, mine>>

\* AsyncSection: the list is rendered when nothing else is.
Rendered == ~loading /\ ~error
Rows == IF shown = None THEN {} ELSE shown.rows

Retry ==
  /\ effect /\ ~loading /\ error
  /\ effect' = FALSE
  /\ UNCHANGED <<row, filter, live, calls, sent, shown, loading, error, approvals, mine>>

-----------------------------------------------------------------------------
(* FacultyApprovalsPage *)

\* The approvals page asks for what is PENDING only. Effects run before anything
\* the user does.
UserMay == Filters = {"PENDING"} /\ effect /\ Rendered
Unsent == <<row, filter, hook, mine>>

Toggle(r) ==
  /\ UserMay /\ dialog = None
  /\ r \in Rows
  /\ selected' = IF r \in selected THEN selected \ {r} ELSE selected \cup {r}
  /\ UNCHANGED <<Unsent, dialog, batches, decided>>

ToggleAll ==
  /\ UserMay /\ dialog = None
  /\ Rows # {}
  /\ selected' = IF Rows \subseteq selected THEN {} ELSE Rows
  /\ UNCHANGED <<Unsent, dialog, batches, decided>>

Confirm(to) ==
  /\ UserMay /\ dialog = None
  /\ selected # {}
  /\ dialog' = [to |-> to, sent |-> 0]
  /\ UNCHANGED <<Unsent, selected, batches, decided>>

\* The dialog closes by Escape or by a click beside it also while its request
\* is on the way.
Close ==
  /\ effect
  /\ dialog # None
  /\ dialog' = None
  /\ UNCHANGED <<Unsent, selected, batches, decided>>

\* A dialog sends one request at a time; one that is opened anew does not know
\* of its predecessor's.
Submit ==
  /\ effect
  /\ dialog # None
  /\ dialog.sent = 0
  /\ decided < MaxBatches
  /\ decided' = decided + 1
  /\ dialog' = [dialog EXCEPT !.sent = decided + 1]
  /\ batches' = batches \cup
       {[n |-> decided + 1, to |-> dialog.to, ids |-> selected \cap Rows, done |-> None]}
  /\ UNCHANGED <<Unsent, selected>>

\* All or nothing, as FacultyBulk shows.
ServeBatch(b) ==
  LET ok == b.ids # {} /\ \A r \in b.ids : row[r] = "PENDING" IN
  /\ b.done = None
  /\ row' = IF ok THEN [r \in Rids |-> IF r \in b.ids THEN b.to ELSE row[r]] ELSE row
  /\ batches' = (batches \ {b}) \cup {[b EXCEPT !.done = ok]}
  /\ UNCHANGED <<filter, hook, selected, dialog, decided, mine>>

HandleDone_KeepsList ==  \* mutant
  selected' = {} /\ dialog' = None /\ UNCHANGED effect
HandleDone == selected' = {} /\ dialog' = None /\ effect' = FALSE

BatchDone(b) ==
  /\ b.done = TRUE
  /\ HandleDone
  /\ mine' = mine \cup b.ids
  /\ batches' = batches \ {b}
  /\ UNCHANGED <<row, filter, live, calls, sent, shown, loading, error, decided>>

\* Refused, or its answer lost: the dialog says so, and stays.
BatchFailed(b) ==
  /\ batches' = batches \ {b}
  /\ dialog' = IF dialog # None /\ dialog.sent = b.n THEN [dialog EXCEPT !.sent = 0] ELSE dialog
  /\ UNCHANGED <<Unsent, selected, decided>>

-----------------------------------------------------------------------------
Init ==
  /\ row \in [Rids -> {"PENDING", "APPROVED"}]
  /\ filter \in Filters
  /\ effect = FALSE
  /\ live = 0
  /\ calls = {}
  /\ sent = 0
  /\ shown = None
  /\ loading = TRUE
  /\ error = FALSE
  /\ selected = {}
  /\ dialog = None
  /\ batches = {}
  /\ decided = 0
  /\ mine = {}

Ends(n) == \E c \in calls : c.n = n /\ (Serve(c) \/ Arrive(c) \/ Fail(c))
Answers == \E n \in 1 .. MaxCalls : Ends(n)

Next ==
  \/ \E r \in Rids, to \in Statuses : OthersMove(r, to)
  \/ \E f \in Filters : Change(f)
  \/ Effect
  \/ Answers
  \/ Retry
  \/ \E r \in Rids : Toggle(r)
  \/ ToggleAll
  \/ \E to \in Decisions : Confirm(to)
  \/ Close \/ Submit
  \/ \E b \in batches : ServeBatch(b) \/ BatchDone(b) \/ BatchFailed(b)

\* React runs effects, and requests end in one way or another.
Spec ==
  /\ Init /\ [][Next]_vars
  /\ WF_vars(Effect)
  /\ \A n \in 1 .. MaxCalls : WF_vars(Ends(n))

-----------------------------------------------------------------------------
(* Properties *)

\* What is rendered as the answer is one to what the page is asked for, in
\* whatever order the answers to the filters before it arrive.
ShownIsAsked ==
  Rendered /\ effect /\ live # 0 => shown # None /\ shown.of = filter

\* Who has decided about reservations does not find them pending on the list
\* that replaces the one they were on.
OwnDecisionsShown ==
  Filters = {"PENDING"} /\ Rendered /\ effect => Rows \cap mine = {}

\* Every box that is ticked is on the page, so that a batch contains all that
\* the page counts as selected.
SelectionIsListed == Rendered => selected \subseteq Rows
=============================================================================

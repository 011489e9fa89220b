------------------------ MODULE ReservationLifecycle ------------------------
(***************************************************************************)
(* What the booking engine promises, with every operation one step: a      *)
(* reservation takes a free slot of a node, a faculty member or its owner  *)
(* decides about it, and time starts and ends its use, which one session   *)
(* accounts for.  ReservationService implements this module when requests  *)
(* and sweep passes do not overlap.                                        *)
(***************************************************************************)
EXTENDS Integers, Sequences

CONSTANTS
  Nodes,        \* the GPU nodes
  Rids,         \* reservation ids
  Times,        \* the moments a window may begin or end at
  Maintenance,  \* blocking maintenance windows, [node, start, end]
  None          \* no node

VARIABLES
  now,      \* wall-clock time
  booking,  \* the reservations
  used      \* the sessions accounting for each reservation's use

vars == <<now, booking, used>>

Claims == {"PENDING", "APPROVED", "ACTIVE"}

NoBooking == [status |-> "NONE", node |-> None, start |-> 0, end |-> 0]

Init ==
  /\ now = 0
  /\ booking = [r \in Rids |-> NoBooking]
  /\ used = [r \in Rids |-> <<>>]

\* Two windows share a moment.
Meet(v, w) == v.start < w.end /\ v.end > w.start

\* The window w of node w.node is neither claimed nor under maintenance.
Free(w) ==
  /\ \A r \in Rids : booking[r].status \in Claims /\ booking[r].node = w.node
                       => ~Meet(booking[r], w)
  /\ \A m \in Maintenance : m.node = w.node => ~Meet(m, w)

Book(r, n, start, end) ==
  LET b == [status |-> "PENDING", node |-> n, start |-> start, end |-> end]
  IN  /\ booking[r] = NoBooking
      /\ start < end
      /\ Free(b)
      /\ booking' = [booking EXCEPT ![r] = b]
      /\ UNCHANGED <<now, used>>

Decide(r, from, to) ==
  /\ booking[r].status = from
  /\ booking' = [booking EXCEPT ![r].status = to]
  /\ UNCHANGED <<now, used>>

Approve(r) == Decide(r, "PENDING", "APPROVED")
Reject(r) == Decide(r, "PENDING", "REJECTED")
Cancel(r) == \E from \in {"PENDING", "APPROVED"} : Decide(r, from, "CANCELLED")

\* Use starts within the window, at a moment that has come.
Activate(r, at) ==
  /\ booking[r].status = "APPROVED"
  /\ booking[r].start <= at
  /\ at < booking[r].end
  /\ at <= now
  /\ booking' = [booking EXCEPT ![r].status = "ACTIVE"]
  /\ used' = [used EXCEPT ![r] =
                <<[status |-> "RUNNING", startedAt |-> at, endedAt |-> 0]>>]
  /\ UNCHANGED now

\* Use ends at the window's end.  It began when it was activated or, if it
\* never was, at the window's start.
Complete(r) ==
  LET began == IF used[r] = <<>> THEN booking[r].start ELSE used[r][1].startedAt
  IN  /\ booking[r].status \in {"APPROVED", "ACTIVE"}
      /\ booking[r].end <= now
      /\ booking' = [booking EXCEPT ![r].status = "COMPLETED"]
      /\ used' = [used EXCEPT ![r] =
           <<[status |-> "COMPLETED", startedAt |-> began, endedAt |-> booking[r].end]>>]
      /\ UNCHANGED now

Tick ==
  /\ now + 1 \in Times
  /\ now' = now + 1
  /\ UNCHANGED <<booking, used>>

Next ==
  \/ \E r \in Rids, n \in Nodes, start, end \in Times : Book(r, n, start, end)
  \/ \E r \in Rids : Approve(r) \/ Reject(r) \/ Cancel(r)
  \/ \E r \in Rids, at \in Times : Activate(r, at)
  \/ \E r \in Rids : Complete(r)
  \/ Tick

Spec == Init /\ [][Next]_vars

-----------------------------------------------------------------------------
\* Conflict-free scheduling: no two reservations claim one node at one moment.
NoDoubleBooking ==
  \A q, r \in Rids :
    /\ q # r
    /\ booking[q].status \in Claims
    /\ booking[r].status \in Claims
    /\ booking[q].node = booking[r].node
    => ~Meet(booking[q], booking[r])
=============================================================================

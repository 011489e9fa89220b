------------------------------ MODULE MCLegacy ------------------------------
(* Small instances of LegacyAllocation for TLC: decisions that race and that *)
(* fail half-way ("races"), decisions one at a time next to administrators   *)
(* of GPUs ("serial"), and every status a caller may be answered             *)
(* ("answers").                                                              *)
EXTENDS LegacyAllocation, TLC

CONSTANTS sam, fay, ada
VARIABLE part

MCRoleOf == (sam :> "STUDENT") @@ (fay :> "FACULTY") @@ (ada :> "ADMIN")

\* Two windows that overlap, one after both, and one that ends before it starts.
MCDetails == {[start |-> 0, end |-> 2, vram |-> 1], [start |-> 1, end |-> 3, vram |-> 2],
              [start |-> 3, end |-> 4, vram |-> 0], [start |-> 2, end |-> 1, vram |-> 1]}
\* The administrator patches the status, the VRAM, what is left of it; VRAM of 0 is not valid.
MCBodies == {[status |-> "Maintenance"], [status |-> "Available"], [vram |-> 1],
             [availableVRAM |-> 0, status |-> "Available"], [vram |-> 0]}
\* No page, and a page with a limit above the largest.
MCQueries == {[page |-> None, limit |-> None], [page |-> 2, limit |-> 500]}

-----------------------------------------------------------------------------
(* What each part keeps to. *)

Decisions == {"createGpuRequest", "approveRequest", "rejectRequest", "completeGpuRequest"}
Administration == {"updateGpuResource", "deleteGpuResource"}
Creation == {"createGpuResource"}

Operations ==
  [races |-> Decisions,
   serial |-> Decisions \union Administration,
   answers |-> (Decisions \ {"rejectRequest"}) \union Administration \union Creation
              \union Listings \union Overviews]

Starts == [races |-> 4, serial |-> 6, answers |-> 6]

\* Outside "races", each request is answered before the next one arrives: one
\* slot is used.
Usable == {h \in Handlers : part = "races" \/ \A g \in Handlers \ {h} : frames[g] = Idle}

\* Requests that are refused before they read anything are left to "answers".
TurnedAway(h) == frames[h].pc = "answered" /\ frames[h].r = None /\ frames[h].status >= 400

Within ==
  /\ started <= Starts[part]
  /\ \A h \in Handlers : frames[h].op \in Operations[part] \union {None}
  /\ part # "serial" => \A r \in Requests : requests[r] # None => requests[r].vram > 0
  /\ part # "races" => faults = 0
  /\ part # "answers" => \A h \in Handlers : ~TurnedAway(h)

\* What the limiter answers is looked at while there are no requests of students.
Untouched == \A r \in Requests : requests[r] = None

PartsInit == Init /\ part \in DOMAIN Operations /\ \A g \in Gpus : gpus[g] = None <=> part = "answers"
PartsNext ==
  /\ \/ \E h \in Usable :
          \/ part = "answers" /\ (Limited(hits) => Untouched) /\ Arrive(h)
          \/ part # "answers" /\ Vacant(h) /\ (updateGpuResource(h) \/ deleteGpuResource(h) \/ Request(h))
          \/ Proceed(h)
     \/ Crash
     \/ part = "serial" /\ Limited(hits) /\ WindowEnds
  /\ UNCHANGED part
  /\ Within'
PartsSpec == PartsInit /\ [][PartsNext]_<<vars, part>>

Interchangeable == Permutations(Requests) \union Permutations(Gpus) \union Permutations(Handlers)

-----------------------------------------------------------------------------
\* One decision at a time: no GPU is promised twice, and what is held of it is
\* asked for by somebody.
DecisionsAddUp == part = "serial" => NoOverlap /\ HeldIsBacked

\* However decisions interleave and wherever one fails, what is told of a
\* request was so, and the VRAM left of a GPU is between nothing and all of it.
RacesTellTheTruth == part = "races" => Truthful /\ VramInRange

\* Every status is one that docs/openapi.js lists for the operation.
EveryAnswerDocumented == part = "answers" => AnswersDocumented
=============================================================================

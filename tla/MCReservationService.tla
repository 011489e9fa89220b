------------------------ MODULE MCReservationService ------------------------
(* Small instances of ReservationService for TLC. *)
EXTENDS ReservationService, TLC

CONSTANTS n1, n2, lab

MCLabOf == [n \in Nodes |-> lab]
MCGpuCount == [n \in Nodes |-> IF n = n1 THEN 2 ELSE 4]
MCMemoryGB == [n \in Nodes |-> IF n = n1 THEN 80 ELSE 160]
AnyNode == {[gpus |-> 1, memGB |-> 0]}
SmallOrLarge == {[gpus |-> 1, memGB |-> 0], [gpus |-> 4, memGB |-> 100]}
NoMaintenance == {}
MaintenanceMidway == {[node |-> n1, start |-> 1, end |-> 2]}

Interchangeable == Permutations(Rids) \cup Permutations(Bookers)
                     \cup Permutations(Deciders) \cup Permutations(Sweepers)
=============================================================================

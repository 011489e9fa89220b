------------------------- MODULE MCReservationRaces -------------------------
(* ReservationService with everything overlapping, over two bounds: two      *)
(* reservations and one sweep pass at a time, none of which dies, over three *)
(* moments; and one reservation of one node and all the passes, one of which *)
(* may die, over four.                                                       *)
EXTENDS MCReservationService

VARIABLE bound

OnePass == Cardinality({s \in Sweepers : sweeper[s] # IdleSweeper}) <= 1
OneReservation == Cardinality({r \in Rids : res[r] # NoRow}) <= 1
OneNode == \A b \in Bookers : booker[b].todo \cup booker[b].eligible \subseteq {n1}
Until(time) == clock <= time /\ \A b \in Bookers : booker[b].end <= time

Within ==
  \/ bound = "reservations" /\ OnePass /\ aborts = 0 /\ Until(2)
  \/ bound = "passes" /\ OneReservation /\ OneNode

RacesInit == Init /\ bound \in {"reservations", "passes"}
RacesNext == Next /\ UNCHANGED bound /\ Within'
RacesSpec == RacesInit /\ [][RacesNext]_<<vars, bound>>
=============================================================================

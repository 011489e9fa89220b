---------------------- MODULE ReservationServiceProofs ----------------------
(***************************************************************************)
(* Theorems about ReservationService, for every value of its constants:    *)
(* its types and the safety properties that hold however requests, sweep   *)
(* passes and crashes overlap; that it never double-books a node and, as   *)
(* long as no pass dies half-way, accounts for every reservation's use by  *)
(* exactly one session, when requests and passes run one at a time; and    *)
(* that it then implements ReservationLifecycle: every step of a request   *)
(* or a pass is a step of the lifecycle or leaves it alone.  The last      *)
(* section proves of the lifecycle itself, for any moments, that what it   *)
(* promises never conflicts.                                               *)
(***************************************************************************)
EXTENDS ReservationService, SequenceTheorems, TLAPS

\* The initial values are well typed.
LEMMA IdleTypes ==
  /\ NoRow \in Row
  /\ IdleBooker \in Booker
  /\ IdleDecider \in Decider
  /\ IdleSweeper \in Sweeper
BY ConstantsAssumption
   DEF NoRow, IdleBooker, IdleDecider, IdleSweeper, Row, Booker, Decider, Sweeper

\* A pass is at a row exactly while it writes it.
AtRow(w) == w.pc \in {"open", "find", "close"} <=> w.cur # None

SweeperTypes(sw) ==
  /\ sw \in [Sweepers -> Sweeper]
  /\ \A s \in Sweepers : AtRow(sw[s])

\* A step that gives s a well-typed local state keeps the type of sweeper.
LEMMA SweeperUpdate ==
  ASSUME TypeOK, NEW s \in Sweepers, NEW w \in Sweeper, AtRow(w),
         sweeper' = [sweeper EXCEPT ![s] = w]
  PROVE  SweeperTypes(sweeper')
BY DEF TypeOK, SweeperTypes, AtRow

\* Changing a row's status keeps the table's type.
LEMMA StatusUpdate ==
  ASSUME res \in [Rids -> Row], NEW r, NEW st \in Statuses
  PROVE  [res EXCEPT ![r].status = st] \in [Rids -> Row]
<1>1. CASE r \in Rids
  BY <1>1 DEF Row
<1>2. CASE r \notin Rids
  BY <1>2
<1> QED
  BY <1>1, <1>2

\* Adding a session keeps the table's type.
LEMMA SessionAdded ==
  ASSUME sess \in [Rids -> Seq(Session)], NEW r, NEW v \in Session
  PROVE  [sess EXCEPT ![r] = Append(@, v)] \in [Rids -> Seq(Session)]
<1>1. CASE r \in Rids
  BY <1>1
<1>2. CASE r \notin Rids
  BY <1>2
<1> QED
  BY <1>1, <1>2

\* Replacing a session keeps the table's type.
LEMMA SessionReplaced ==
  ASSUME sess \in [Rids -> Seq(Session)], NEW r, NEW i, NEW v,
         r \in Rids /\ i \in DOMAIN sess[r] => v \in Session
  PROVE  [sess EXCEPT ![r] = [@ EXCEPT ![i] = v]] \in [Rids -> Seq(Session)]
<1>1. CASE r \in Rids
  <2>1. [sess[r] EXCEPT ![i] = v] \in Seq(Session)
    <3>1. CASE i \in DOMAIN sess[r]
      BY <1>1, <3>1, ExceptSeq
    <3>2. CASE i \notin DOMAIN sess[r]
      <4>1. [sess[r] EXCEPT ![i] = v] = sess[r]
        BY <1>1, <3>2
      <4> QED
        BY <4>1, <1>1
    <3> QED
      BY <3>1, <3>2
  <2> QED
    BY <2>1, <1>1
<1>2. CASE r \notin Rids
  BY <1>2
<1> QED
  BY <1>1, <1>2

\* Every step of a booking request keeps the types.
LEMMA BookingTypes ==
  ASSUME TypeOK, NEW b \in Bookers, BookingStep(b)
  PROVE  TypeOK'
<1>1. ASSUME NEW start \in 0..MaxTime, NEW end \in 0..MaxTime, NEW candidates \in SUBSET Nodes,
             StartBooking(b, start, end, candidates)
      PROVE  booker' \in [Bookers -> Booker]
  BY <1>1, ConstantsAssumption DEF StartBooking, TypeOK, Booker
<1>2. ASSUME NEW start \in 0..MaxTime, NEW end \in 0..MaxTime, NEW n \in Nodes,
             BookNode(b, n, start, end)
      PROVE  TypeOK'
  <2>1. booker' \in [Bookers -> Booker]
    BY <1>1, <1>2 DEF BookNode
  <2> QED
    BY <1>2, <2>1 DEF BookNode, TypeOK
<1>3. ASSUME NEW start \in 0..MaxTime, NEW end \in 0..MaxTime, NEW lab \in Labs,
             NEW demand \in Demands, BookLab(b, lab, demand, start, end)
      PROVE  TypeOK'
  <2>1. booker' \in [Bookers -> Booker]
    BY <1>1, <1>3 DEF BookLab
  <2> QED
    BY <1>3, <2>1 DEF BookLab, TypeOK
<1>4. ASSUME NEW n \in Nodes, NEW online \in BOOLEAN, CheckNode(b, n, online)
      PROVE  TypeOK'
  <2>1. PICK S \in SUBSET Nodes :
          booker' = [booker EXCEPT ![b] =
                       [@ EXCEPT !.todo = booker[b].todo \ {n}, !.eligible = S]]
    BY <1>4 DEF CheckNode, TypeOK, Booker
  <2>2. booker[b] \in Booker
    BY DEF TypeOK
  <2>3. [booker[b] EXCEPT !.todo = booker[b].todo \ {n}, !.eligible = S] \in Booker
    BY <2>2 DEF Booker
  <2>4. booker' \in [Bookers -> Booker]
    BY <2>1, <2>3 DEF TypeOK
  <2> QED
    BY <1>4, <2>4 DEF CheckNode, TypeOK
<1>5. ASSUME NEW n \in Nodes, NEW r \in Rids, CreateReservation(b, n, r)
      PROVE  TypeOK'
  <2>1. booker' \in [Bookers -> Booker]
    BY <1>5, IdleTypes DEF CreateReservation, TypeOK
  <2>2. res' \in [Rids -> Row]
    BY <1>5 DEF CreateReservation, TypeOK, Row, Booker, Statuses
  <2> QED
    BY <1>5, <2>1, <2>2 DEF CreateReservation, TypeOK
<1>6. CASE RefuseBooking(b)
  BY <1>6, IdleTypes DEF RefuseBooking, TypeOK
<1> QED
  BY <1>2, <1>3, <1>4, <1>5, <1>6 DEF BookingStep

\* Every step of an approve, reject or cancel request keeps the types.
LEMMA DecisionTypes ==
  ASSUME TypeOK, NEW d \in Deciders, DecisionStep(d)
  PROVE  TypeOK'
<1>1. ASSUME NEW r \in Rids, Approve(d, r) \/ Reject(d, r) \/ Cancel(d, r)
      PROVE  TypeOK'
  <2>1. PICK allowed \in SUBSET Statuses, to \in {"APPROVED", "REJECTED", "CANCELLED"} :
          ReadAndValidate(d, r, allowed, to)
    BY <1>1, Zenon
       DEF Approve, Reject, Cancel, DecidableStatuses, CancellableStatuses, Statuses
  <2>2. decider' \in [Deciders -> Decider]
    BY <2>1 DEF ReadAndValidate, TypeOK, Decider
  <2>3. \A e \in Deciders : decider'[e].to = "NONE" <=> decider'[e].rid = None
    BY <2>1, ConstantsAssumption DEF ReadAndValidate, TypeOK
  <2> QED
    BY <2>1, <2>2, <2>3 DEF ReadAndValidate, TypeOK
<1>2. CASE WriteDecision(d)
  <2>1. decider[d].to \in Statuses
    BY <1>2 DEF WriteDecision, TypeOK, Decider, Statuses
  <2>2. res' \in [Rids -> Row]
    BY <1>2, <2>1, StatusUpdate DEF WriteDecision, TypeOK
  <2>3. approved' \subseteq Rids
    <3>1. decider[d].rid \in Rids
      BY <1>2 DEF WriteDecision, TypeOK, Decider
    <3> QED
      BY <1>2, <3>1 DEF WriteDecision, TypeOK
  <2> QED
    BY <1>2, <2>2, <2>3, IdleTypes DEF WriteDecision, TypeOK, IdleDecider
<1> QED
  BY <1>1, <1>2 DEF DecisionStep

\* Every step of a sweep pass keeps the types.
LEMMA SweepTypes ==
  ASSUME TypeOK, NEW s \in Sweepers, SweepStep(s)
  PROVE  TypeOK'
<1> DEFINE w == sweeper[s]
<1>w. w \in Sweeper /\ AtRow(w)
  BY DEF TypeOK, AtRow
<1>1. CASE SweepBegin(s)
  <2>1. [IdleSweeper EXCEPT !.pc = "list", !.now = clock] \in Sweeper
    BY IdleTypes DEF TypeOK, Sweeper
  <2>2. AtRow([IdleSweeper EXCEPT !.pc = "list", !.now = clock])
    BY DEF AtRow, IdleSweeper
  <2>3. SweeperTypes(sweeper')
    BY <1>1, <2>1, <2>2, SweeperUpdate DEF SweepBegin
  <2> QED
    BY <1>1, <2>3 DEF SweepBegin, TypeOK, SweeperTypes, AtRow, requests
<1>2. CASE SweepList(s)
  <2>1. PICK S \in SUBSET Rids :
          sweeper' = [sweeper EXCEPT ![s] = [w EXCEPT !.pc = "row", !.todo = S]]
    BY <1>2 DEF SweepList, ToActivate, ToComplete
  <2>2. [w EXCEPT !.pc = "row", !.todo = S] \in Sweeper
    BY <1>w DEF Sweeper
  <2>3. AtRow([w EXCEPT !.pc = "row", !.todo = S])
    BY <1>w, <1>2 DEF AtRow, Sweeper, SweepList
  <2>4. SweeperTypes(sweeper')
    BY <2>1, <2>2, <2>3, SweeperUpdate
  <2> QED
    BY <1>2, <2>4 DEF SweepList, TypeOK, SweeperTypes, AtRow, requests
<1>3. ASSUME NEW r \in Rids, SweepActivate(s, r) PROVE TypeOK'
  <2> DEFINE v == [w EXCEPT !.pc = "open", !.cur = r, !.todo = w.todo \ {r}]
  <2>1. v \in Sweeper /\ AtRow(v)
    BY <1>w, ConstantsAssumption DEF Sweeper, AtRow
  <2>2. SweeperTypes(sweeper')
    BY <1>3, <2>1, SweeperUpdate DEF SweepActivate
  <2>3. res' \in [Rids -> Row]
    BY <1>3, StatusUpdate DEF SweepActivate, TypeOK, Statuses
  <2> QED
    BY <1>3, <2>2, <2>3 DEF SweepActivate, TypeOK, SweeperTypes, AtRow, requests
<1>4. ASSUME NEW r \in Rids, SweepComplete(s, r) PROVE TypeOK'
  <2> DEFINE v == [w EXCEPT !.pc = "find", !.cur = r, !.todo = w.todo \ {r}]
  <2>1. v \in Sweeper /\ AtRow(v)
    BY <1>w, ConstantsAssumption DEF Sweeper, AtRow
  <2>2. SweeperTypes(sweeper')
    BY <1>4, <2>1, SweeperUpdate DEF SweepComplete
  <2>3. res' \in [Rids -> Row]
    BY <1>4, StatusUpdate DEF SweepComplete, TypeOK, Statuses
  <2> QED
    BY <1>4, <2>2, <2>3 DEF SweepComplete, TypeOK, SweeperTypes, AtRow, requests
<1>5. CASE SweepOpenSession(s)
  <2> DEFINE v == [w EXCEPT !.pc = "row", !.cur = None]
  <2>1. v \in Sweeper /\ AtRow(v)
    BY <1>w DEF Sweeper, AtRow
  <2>2. SweeperTypes(sweeper')
    BY <1>5, <2>1, SweeperUpdate DEF SweepOpenSession
  <2>3. OpenSession(w.now) \in Session
    BY <1>w DEF OpenSession, Session, Sweeper
  <2>4. sess' \in [Rids -> Seq(Session)]
    BY <1>5, <2>3, SessionAdded DEF SweepOpenSession, TypeOK
  <2> QED
    BY <1>5, <2>2, <2>4 DEF SweepOpenSession, TypeOK, SweeperTypes, AtRow, requests
<1>6. CASE SweepFindSession(s)
  <2>1. w.cur \in Rids
    BY <1>w, <1>6 DEF AtRow, Sweeper, SweepFindSession
  <2>2. LatestRunning(w.cur) \subseteq Nat
    BY <2>1 DEF LatestRunning, TypeOK
  <2>3. PICK i \in Nat :
          sweeper' = [sweeper EXCEPT ![s] = [w EXCEPT !.pc = "close", !.ses = i]]
    BY <1>6, <2>2 DEF SweepFindSession
  <2> DEFINE v == [w EXCEPT !.pc = "close", !.ses = i]
  <2>4. v \in Sweeper /\ AtRow(v)
    BY <1>w, <1>6 DEF Sweeper, AtRow, SweepFindSession
  <2>5. SweeperTypes(sweeper')
    BY <2>3, <2>4, SweeperUpdate
  <2> QED
    BY <1>6, <2>5 DEF SweepFindSession, TypeOK, SweeperTypes, AtRow, requests
<1>7. CASE SweepCloseSession(s)
  <2> DEFINE v == [w EXCEPT !.pc = "row", !.cur = None, !.ses = 0]
  <2>1. v \in Sweeper /\ AtRow(v)
    BY <1>w DEF Sweeper, AtRow
  <2>2. SweeperTypes(sweeper')
    BY <1>7, <2>1, SweeperUpdate DEF SweepCloseSession
  <2>3. w.cur \in Rids
    BY <1>w, <1>7 DEF AtRow, Sweeper, SweepCloseSession
  <2>4. ASSUME NEW at \in Nat PROVE ClosedSession(at, res[w.cur].end) \in Session
    BY <2>3, <2>4 DEF ClosedSession, Session, TypeOK, Row
  <2>5. ASSUME w.ses = 0 PROVE sess' \in [Rids -> Seq(Session)]
    <3>1. res[w.cur].start \in Nat
      BY <2>3 DEF TypeOK, Row
    <3>2. sess' = [sess EXCEPT ![w.cur] =
                     Append(@, ClosedSession(res[w.cur].start, res[w.cur].end))]
      BY <1>7, <2>5 DEF SweepCloseSession
    <3> QED
      BY <2>4, <3>1, <3>2, SessionAdded DEF TypeOK
  <2>6. ASSUME w.ses # 0 PROVE sess' \in [Rids -> Seq(Session)]
    <3>1. ASSUME w.ses \in DOMAIN sess[w.cur] PROVE sess[w.cur][w.ses].startedAt \in Nat
      <4>1. sess[w.cur] \in Seq(Session)
        BY <2>3 DEF TypeOK
      <4>2. sess[w.cur][w.ses] \in Session
        BY <4>1, <3>1
      <4> QED
        BY <4>2 DEF Session
    <3>2. sess' = [sess EXCEPT ![w.cur] =
                     [@ EXCEPT ![w.ses] =
                        ClosedSession(sess[w.cur][w.ses].startedAt, res[w.cur].end)]]
      BY <1>7, <2>6 DEF SweepCloseSession
    <3> QED
      BY <2>4, <3>1, <3>2, SessionReplaced DEF TypeOK
  <2>7. sess' \in [Rids -> Seq(Session)]
    BY <2>5, <2>6
  <2> QED
    BY <1>7, <2>2, <2>7 DEF SweepCloseSession, TypeOK, SweeperTypes, AtRow, requests
<1>8. CASE SweepListDone(s)
  <2>1. [w EXCEPT !.pc = "list", !.phase = "complete"] \in Sweeper
    BY <1>w DEF Sweeper
  <2>2. AtRow([w EXCEPT !.pc = "list", !.phase = "complete"])
    BY <1>w, <1>8 DEF AtRow, SweepListDone, Sweeper
  <2>3. IdleSweeper \in Sweeper /\ AtRow(IdleSweeper)
    BY IdleTypes DEF AtRow, IdleSweeper
  <2>4. SweeperTypes(sweeper')
    BY <1>8, <2>1, <2>2, <2>3, SweeperUpdate DEF SweepListDone
  <2> QED
    BY <1>8, <2>4 DEF SweepListDone, TypeOK, SweeperTypes, AtRow, requests
<1> QED
  BY <1>1, <1>2, <1>3, <1>4, <1>5, <1>6, <1>7, <1>8 DEF SweepStep

\* Every step keeps the types.
LEMMA TypeStep == TypeOK /\ [Next]_vars => TypeOK'
<1> SUFFICES ASSUME TypeOK, [Next]_vars PROVE TypeOK'
  OBVIOUS
<1>1. CASE RequestAbort
  <2>1. ASSUME NEW b \in Bookers, booker' = [booker EXCEPT ![b] = IdleBooker]
        PROVE  booker' \in [Bookers -> Booker]
    BY <2>1, IdleTypes DEF TypeOK
  <2>2. ASSUME NEW d \in Deciders, decider' = [decider EXCEPT ![d] = IdleDecider]
        PROVE  /\ decider' \in [Deciders -> Decider]
               /\ \A e \in Deciders : decider'[e].to = "NONE" <=> decider'[e].rid = None
    BY <2>2, IdleTypes DEF TypeOK, IdleDecider
  <2> QED
    BY <1>1, <2>1, <2>2 DEF RequestAbort, TypeOK
<1>2. ASSUME NEW s \in Sweepers, SweepAbort(s) PROVE TypeOK'
  BY <1>2, IdleTypes DEF SweepAbort, TypeOK, IdleSweeper, requests
<1>3. CASE Tick
  BY <1>3 DEF Tick, TypeOK, requests
<1>4. CASE UNCHANGED vars
  BY <1>4 DEF vars, TypeOK
<1> QED
  BY <1>1, <1>2, <1>3, <1>4, BookingTypes, DecisionTypes, SweepTypes DEF Next

\* Type correctness: the tables and every request's and pass's local state keep
\* their types.
THEOREM TypeCorrect == Spec => []TypeOK
<1>1. Init => TypeOK
  BY IdleTypes DEF Init, TypeOK, IdleSweeper, IdleDecider
<1> QED
  BY <1>1, TypeStep, PTL DEF Spec
-----------------------------------------------------------------------------
(* The inductive invariant of the overlapping system: what a booking, a    *)
(* decision or a pass has read stays true enough of the tables until it    *)
(* writes, because rows are never removed, their window never changes,     *)
(* approvals are never forgotten and the clock never goes back.            *)

\* r exists, was approved, and its window has begun by t.
Begun(r, t) == Exists(r) /\ r \in approved /\ res[r].start <= t

RowInv ==
  \A r \in Rids : Exists(r) => /\ res[r].start < res[r].end
                               /\ ~HasMaintenanceConflict(res[r].node, res[r].start, res[r].end)

StatusInv ==
  \A r \in Rids :
    /\ res[r].status \in {"APPROVED", "ACTIVE", "COMPLETED"} => r \in approved
    /\ res[r].status \in {"ACTIVE", "COMPLETED"} => res[r].start <= clock
    /\ res[r].status = "COMPLETED" => res[r].end <= clock

SessionOK(r, x) ==
  /\ Begun(r, x.startedAt)
  /\ x.startedAt < res[r].end
  /\ x.startedAt <= clock
  /\ x.status = "COMPLETED" => x.endedAt = res[r].end /\ res[r].end <= clock

SessionInv == \A r \in Rids : \A i \in DOMAIN sess[r] : SessionOK(r, sess[r][i])

BookerOK(w) ==
  w.busy => /\ w.start < w.end
            /\ \A n \in w.eligible : ~HasMaintenanceConflict(n, w.start, w.end)

BookerInv == \A b \in Bookers : BookerOK(booker[b])

DeciderOK(w) == w.to # "NONE" => w.rid \in Rids /\ Exists(w.rid)

DeciderInv == \A d \in Deciders : DeciderOK(decider[d])

SweeperOK(w) ==
  w.pc # "idle" =>
    /\ w.now <= clock
    /\ \A r \in w.todo : Begun(r, w.now) /\ (w.phase = "complete" => res[r].end <= w.now)
    /\ w.pc = "open" => Begun(w.cur, w.now) /\ w.now < res[w.cur].end
    /\ w.pc \in {"find", "close"} => Begun(w.cur, w.now) /\ res[w.cur].end <= w.now
    /\ w.pc = "close" => w.ses \in 0..Len(sess[w.cur])

SweeperInv == \A s \in Sweepers : SweeperOK(sweeper[s])

Inv == /\ TypeOK
       /\ RowInv
       /\ StatusInv
       /\ SessionInv
       /\ BookerInv
       /\ DeciderInv
       /\ SweeperInv

\* The invariant holds initially.
LEMMA InitInv == Init => Inv
<1> SUFFICES ASSUME Init PROVE Inv
  OBVIOUS
<1>1. TypeOK
  BY IdleTypes DEF Init, TypeOK, IdleSweeper, IdleDecider
<1> QED
  BY <1>1 DEF Inv, Init, RowInv, StatusInv, SessionInv, BookerInv, BookerOK, DeciderInv,
              DeciderOK, SweeperInv, SweeperOK, NoRow, Exists, IdleBooker, IdleDecider,
              IdleSweeper

\* What no step ever takes back.
Persist ==
  /\ \A r \in Rids : Exists(r) => /\ Exists(r)'
                                  /\ res'[r].node = res[r].node
                                  /\ res'[r].start = res[r].start
                                  /\ res'[r].end = res[r].end
  /\ approved \subseteq approved'
  /\ clock <= clock'
  /\ \A r \in Rids : Len(sess[r]) <= Len(sess'[r])

\* Nothing but the clock, requests and passes changed.
LEMMA PersistTables ==
  ASSUME TypeOK, UNCHANGED <<res, sess, approved>>, clock <= clock'
  PROVE  Persist
BY DEF Persist, TypeOK, Exists

\* A status update leaves the rest of the row and every other row alone.
LEMMA PersistStatus ==
  ASSUME TypeOK, NEW r \in Rids, NEW st \in Statuses, res' = [res EXCEPT ![r].status = st],
         approved \subseteq approved', UNCHANGED <<clock, sess>>
  PROVE  /\ Persist
         /\ res'[r].status = st
         /\ res'[r].start = res[r].start /\ res'[r].end = res[r].end
         /\ res'[r].node = res[r].node
         /\ \A q \in Rids : q # r => res'[q] = res[q]
<1>1. res[r] \in Row
  BY DEF TypeOK
<1>2. res'[r] = [res[r] EXCEPT !.status = st]
  BY DEF TypeOK
<1>3. /\ res'[r].status = st
      /\ res'[r].start = res[r].start /\ res'[r].end = res[r].end
      /\ res'[r].node = res[r].node
  BY <1>1, <1>2 DEF Row
<1>4. \A q \in Rids : q # r => res'[q] = res[q]
  BY DEF TypeOK
<1>5. st # "NONE"
  BY DEF Statuses
<1> QED
  BY <1>3, <1>4, <1>5 DEF Persist, Exists, TypeOK

\* What a pass knows stays true while it does nothing.
LEMMA SweeperKept ==
  ASSUME TypeOK, Persist, SweeperInv, NEW s \in Sweepers, sweeper'[s] = sweeper[s],
         clock' \in Nat, sess' \in [Rids -> Seq(Session)]
  PROVE  SweeperOK(sweeper[s])'
<1> DEFINE w == sweeper[s]
<1>1. /\ w \in Sweeper
      /\ w.pc \in {"open", "find", "close"} => w.cur \in Rids
  BY DEF TypeOK, Sweeper
<1>2. SweeperOK(w)
  BY DEF SweeperInv
<1>3. /\ clock \in Nat /\ w.now \in Nat /\ w.todo \subseteq Rids /\ w.ses \in Nat
  BY <1>1 DEF TypeOK, Sweeper
<1>4. ASSUME NEW r \in Rids, NEW t, Begun(r, t)
      PROVE  /\ Exists(r)' /\ r \in approved' /\ res'[r].start <= t
             /\ res'[r].end = res[r].end
  BY <1>4 DEF Begun, Persist
<1>5. ASSUME w.pc = "close" PROVE w.ses \in 0..Len(sess'[w.cur])
  <2>1. w.cur \in Rids
    BY <1>1, <1>5
  <2>2. Len(sess[w.cur]) \in Nat /\ Len(sess'[w.cur]) \in Nat
    BY <2>1 DEF TypeOK
  <2> QED
    BY <1>2, <1>3, <1>5, <2>1, <2>2 DEF SweeperOK, Persist
<1>6. ASSUME w.pc # "idle" PROVE w.now <= clock'
  BY <1>2, <1>3, <1>6 DEF SweeperOK, Persist
<1>7. ASSUME w.pc # "idle", NEW r \in w.todo
      PROVE  Begun(r, w.now)' /\ (w.phase = "complete" => res'[r].end <= w.now)
  BY <1>2, <1>3, <1>4, <1>7 DEF SweeperOK, Begun
<1>8. ASSUME w.pc \in {"open", "find", "close"}
      PROVE  Exists(w.cur)' /\ w.cur \in approved' /\ res'[w.cur].start <= w.now
               /\ res'[w.cur].end = res[w.cur].end
  BY <1>1, <1>2, <1>4, <1>8 DEF SweeperOK
<1> QED
  BY <1>2, <1>5, <1>6, <1>7, <1>8 DEF SweeperOK, Begun

\* The tables satisfy their invariants whatever only the clock, requests or
\* passes do.
LEMMA TablesKept ==
  ASSUME TypeOK, RowInv, StatusInv, SessionInv, UNCHANGED <<res, sess>>,
         approved \subseteq approved', clock <= clock', clock' \in Nat
  PROVE  RowInv' /\ StatusInv' /\ SessionInv'
<1>1. RowInv'
  BY DEF RowInv, Exists, HasMaintenanceConflict, Overlaps
<1>2. StatusInv'
  BY DEF StatusInv, TypeOK, Row
<1>3. SessionInv'
  <2> SUFFICES ASSUME NEW r \in Rids, NEW i \in DOMAIN sess[r]
               PROVE  SessionOK(r, sess[r][i])'
    BY DEF SessionInv
  <2>1. SessionOK(r, sess[r][i])
    BY DEF SessionInv
  <2>2. sess[r] \in Seq(Session) /\ res[r] \in Row
    BY DEF TypeOK
  <2>3. sess[r][i] \in Session
    BY <2>2
  <2>4. sess[r][i].startedAt \in Nat /\ res[r].end \in Nat
    BY <2>2, <2>3 DEF Session, Row
  <2> QED
    BY <2>1, <2>4 DEF SessionOK, Begun, Exists, TypeOK
<1> QED
  BY <1>1, <1>2, <1>3

\* The sessions of an untouched reservation stay right.
LEMMA SessionKept ==
  ASSUME TypeOK, TypeOK', Persist, SessionInv, NEW r \in Rids, sess'[r] = sess[r],
         NEW i \in DOMAIN sess[r]
  PROVE  SessionOK(r, sess[r][i])'
<1>1. SessionOK(r, sess[r][i])
  BY DEF SessionInv
<1>2. sess[r] \in Seq(Session) /\ res[r] \in Row
  BY DEF TypeOK
<1>3. sess[r][i] \in Session
  BY <1>2
<1>4. sess[r][i].startedAt \in Nat /\ res[r].end \in Nat
  BY <1>2, <1>3 DEF Session, Row
<1> QED
  BY <1>1, <1>4 DEF SessionOK, Begun, Persist, TypeOK

\* What requests and passes know stays true while they do nothing.
LEMMA LocalsKept ==
  ASSUME TypeOK, TypeOK', Persist
  PROVE  /\ BookerInv /\ booker' = booker => BookerInv'
         /\ DeciderInv /\ decider' = decider => DeciderInv'
         /\ SweeperInv /\ sweeper' = sweeper => SweeperInv'
<1>1. BookerInv /\ booker' = booker => BookerInv'
  BY DEF BookerInv, BookerOK, HasMaintenanceConflict, Overlaps
<1>2. DeciderInv /\ decider' = decider => DeciderInv'
  BY DEF DeciderInv, DeciderOK, Persist
<1>3. SweeperInv /\ sweeper' = sweeper => SweeperInv'
  <2> SUFFICES ASSUME SweeperInv, sweeper' = sweeper, NEW s \in Sweepers
               PROVE  SweeperOK(sweeper[s])'
    BY DEF SweeperInv
  <2>1. clock' \in Nat /\ sess' \in [Rids -> Seq(Session)]
    BY DEF TypeOK
  <2> QED
    BY <2>1, SweeperKept
<1> QED
  BY <1>1, <1>2, <1>3

\* What the other passes know stays true while one pass moves.
LEMMA SweeperMoved ==
  ASSUME TypeOK, TypeOK', Persist, SweeperInv, NEW s \in Sweepers,
         \A q \in Sweepers : q # s => sweeper'[q] = sweeper[q],
         SweeperOK(sweeper[s])'
  PROVE  SweeperInv'
<1> SUFFICES ASSUME NEW q \in Sweepers PROVE SweeperOK(sweeper[q])'
  BY DEF SweeperInv
<1>1. CASE q = s
  BY <1>1
<1>2. CASE q # s
  <2>1. clock' \in Nat /\ sess' \in [Rids -> Seq(Session)]
    BY DEF TypeOK
  <2> QED
    BY <1>2, <2>1, SweeperKept
<1> QED
  BY <1>1, <1>2

\* Writing the status of an existing row.
LEMMA StatusWritten ==
  ASSUME Inv, TypeOK', NEW r \in Rids, Exists(r), NEW st \in Statuses,
         res' = [res EXCEPT ![r].status = st], approved \subseteq approved',
         UNCHANGED <<clock, sess>>,
         st \in {"APPROVED", "ACTIVE", "COMPLETED"} => r \in approved',
         st \in {"ACTIVE", "COMPLETED"} => res[r].start <= clock,
         st = "COMPLETED" => res[r].end <= clock
  PROVE  Persist /\ RowInv' /\ StatusInv' /\ SessionInv'
<1>1. /\ Persist
      /\ res'[r].status = st
      /\ res'[r].start = res[r].start /\ res'[r].end = res[r].end
      /\ res'[r].node = res[r].node
      /\ \A q \in Rids : q # r => res'[q] = res[q]
  BY PersistStatus DEF Inv
<1>2. RowInv'
  BY <1>1 DEF Inv, RowInv, Exists, HasMaintenanceConflict, Overlaps
<1>3. StatusInv'
  BY <1>1 DEF Inv, StatusInv
<1>4. SessionInv'
  BY <1>1, SessionKept DEF Inv, SessionInv
<1> QED
  BY <1>1, <1>2, <1>3, <1>4

\* Every step of a booking request keeps the invariant.
LEMMA BookingInv ==
  ASSUME Inv, TypeOK', NEW b \in Bookers, BookingStep(b)
  PROVE  Inv'
<1>0. ASSUME BookerInv', UNCHANGED <<clock, res, sess, decider, sweeper, approved>>
      PROVE  Inv'
  <2>1. Persist
    BY <1>0, PersistTables DEF Inv, TypeOK
  <2>2. RowInv' /\ StatusInv' /\ SessionInv'
    BY <1>0, TablesKept DEF Inv, TypeOK
  <2> QED
    BY <1>0, <2>1, <2>2, LocalsKept DEF Inv
<1>1. ASSUME NEW start \in 0..MaxTime, NEW end \in 0..MaxTime, NEW S, start < end,
             StartBooking(b, start, end, S)
      PROVE  BookerInv'
  BY <1>1 DEF Inv, TypeOK, BookerInv, BookerOK, StartBooking, HasMaintenanceConflict, Overlaps
<1>2. ASSUME NEW start \in 0..MaxTime, NEW end \in 0..MaxTime, NEW n \in Nodes,
             BookNode(b, n, start, end)
      PROVE  Inv'
  BY <1>0, <1>1, <1>2 DEF BookNode, NewRequest
<1>3. ASSUME NEW start \in 0..MaxTime, NEW end \in 0..MaxTime, NEW lab \in Labs,
             NEW demand \in Demands, BookLab(b, lab, demand, start, end)
      PROVE  Inv'
  BY <1>0, <1>1, <1>3 DEF BookLab, NewRequest
<1>4. ASSUME NEW n \in Nodes, NEW online \in BOOLEAN, CheckNode(b, n, online)
      PROVE  Inv'
  <2> DEFINE w == booker[b]
             S == IF online /\ IsConflictFree(n, w.start, w.end)
                    THEN w.eligible \cup {n} ELSE w.eligible
  <2>1. w \in Booker /\ BookerOK(w)
    BY DEF Inv, TypeOK, BookerInv
  <2>2. booker' = [booker EXCEPT ![b] = [w EXCEPT !.todo = w.todo \ {n}, !.eligible = S]]
    BY <1>4 DEF CheckNode
  <2>3. booker'[b] = [w EXCEPT !.todo = w.todo \ {n}, !.eligible = S]
    BY <2>2 DEF Inv, TypeOK
  <2> HIDE DEF S
  <2>4. /\ booker'[b].busy = w.busy
        /\ booker'[b].start = w.start /\ booker'[b].end = w.end
        /\ booker'[b].eligible = S
    BY <2>1, <2>3 DEF Booker
  <2>5. \A m \in S : w.busy => ~HasMaintenanceConflict(m, w.start, w.end)
    BY <2>1 DEF S, BookerOK, IsConflictFree
  <2>6. BookerOK(booker[b])'
    BY <2>1, <2>4, <2>5 DEF BookerOK, HasMaintenanceConflict, Overlaps
  <2>7. BookerInv'
    BY <2>2, <2>6 DEF Inv, TypeOK, BookerInv, BookerOK, HasMaintenanceConflict, Overlaps
  <2> QED
    BY <1>0, <1>4, <2>7 DEF CheckNode
<1>5. ASSUME NEW n \in Nodes, NEW r \in Rids, CreateReservation(b, n, r)
      PROVE  Inv'
  <2> DEFINE w == booker[b]
  <2>1. w \in Booker /\ BookerOK(w) /\ n \in w.eligible /\ w.busy
    BY <1>5 DEF Inv, TypeOK, BookerInv, CreateReservation, BestFit
  <2>2. /\ res'[r] = [status |-> "PENDING", node |-> n, start |-> w.start, end |-> w.end]
        /\ \A q \in Rids : q # r => res'[q] = res[q]
    BY <1>5 DEF CreateReservation, Inv, TypeOK
  <2>3. Persist
    BY <1>5, <2>2 DEF CreateReservation, Persist, Exists, Inv, TypeOK
  <2>4. RowInv'
    BY <2>1, <2>2 DEF RowInv, BookerOK, Inv, Exists, HasMaintenanceConflict, Overlaps
  <2>5. StatusInv'
    BY <1>5, <2>2 DEF CreateReservation, StatusInv, Inv
  <2>6. SessionInv'
    BY <1>5, <2>3, SessionKept DEF CreateReservation, SessionInv, Inv
  <2>7. BookerInv'
    BY <1>5 DEF CreateReservation, BookerInv, BookerOK, Inv, TypeOK, IdleBooker,
                HasMaintenanceConflict, Overlaps
  <2> QED
    BY <1>5, <2>3, <2>4, <2>5, <2>6, <2>7, LocalsKept DEF CreateReservation, Inv
<1>6. CASE RefuseBooking(b)
  <2>1. BookerInv'
    BY <1>6 DEF RefuseBooking, BookerInv, BookerOK, Inv, TypeOK, IdleBooker,
                HasMaintenanceConflict, Overlaps
  <2> QED
    BY <1>0, <1>6, <2>1 DEF RefuseBooking
<1> QED
  BY <1>2, <1>3, <1>4, <1>5, <1>6 DEF BookingStep

\* Every step of an approve, reject or cancel request keeps the invariant.
LEMMA DecisionInv ==
  ASSUME Inv, TypeOK', NEW d \in Deciders, DecisionStep(d)
  PROVE  Inv'
<1>1. ASSUME NEW r \in Rids, Approve(d, r) \/ Reject(d, r) \/ Cancel(d, r)
      PROVE  Inv'
  <2>1. Exists(r)
    BY <1>1 DEF Approve, Reject, Cancel, ReadAndValidate, DecidableStatuses,
                CancellableStatuses, Exists
  <2>2. PICK to : /\ decider' = [decider EXCEPT ![d] = [rid |-> r, to |-> to]]
                  /\ UNCHANGED <<clock, res, sess, booker, sweeper, approved>>
    BY <1>1, Zenon DEF Approve, Reject, Cancel, ReadAndValidate
  <2>3. DeciderInv'
    BY <2>1, <2>2 DEF DeciderInv, DeciderOK, Inv, TypeOK, Exists
  <2>4. Persist
    BY <2>2, PersistTables DEF Inv, TypeOK
  <2>5. RowInv' /\ StatusInv' /\ SessionInv'
    BY <2>2, TablesKept DEF Inv, TypeOK
  <2> QED
    BY <2>2, <2>3, <2>4, <2>5, LocalsKept DEF Inv
<1>2. CASE WriteDecision(d)
  <2> DEFINE r == decider[d].rid
             st == decider[d].to
  <2>1. r \in Rids /\ Exists(r) /\ st \in {"APPROVED", "REJECTED", "CANCELLED"}
    BY <1>2 DEF WriteDecision, Inv, DeciderInv, DeciderOK, TypeOK, Decider
  <2>2. /\ res' = [res EXCEPT ![r].status = st]
        /\ approved \subseteq approved'
        /\ st = "APPROVED" => r \in approved'
        /\ UNCHANGED <<clock, sess, booker, sweeper>>
    BY <1>2 DEF WriteDecision
  <2>3. DeciderInv' /\ Persist /\ RowInv' /\ StatusInv' /\ SessionInv'
    <3>1. Persist /\ RowInv' /\ StatusInv' /\ SessionInv'
      BY <2>1, <2>2, StatusWritten DEF Statuses
    <3>2. DeciderInv'
      BY <1>2, <3>1 DEF WriteDecision, DeciderInv, DeciderOK, Inv, TypeOK, Persist, IdleDecider
    <3> QED
      BY <3>1, <3>2
  <2> QED
    BY <2>2, <2>3, LocalsKept DEF Inv
<1> QED
  BY <1>1, <1>2 DEF DecisionStep

\* Writing one session of an existing reservation.
LEMMA SessionWritten ==
  ASSUME Inv, TypeOK', NEW s \in Sweepers, NEW r \in Rids, NEW x, NEW i \in Nat,
         SessionOK(r, x),
         \/ sess' = [sess EXCEPT ![r] = Append(@, x)]
         \/ i \in DOMAIN sess[r] /\ sess' = [sess EXCEPT ![r] = [@ EXCEPT ![i] = x]],
         sweeper[s].pc # "idle",
         NEW v \in Sweeper, v.pc = "row", v.todo = sweeper[s].todo,
         v.now = sweeper[s].now, v.phase = sweeper[s].phase,
         sweeper' = [sweeper EXCEPT ![s] = v],
         UNCHANGED <<clock, res, requests, approved>>
  PROVE  Inv'
<1>1. /\ \A j \in DOMAIN sess'[r] : \/ sess'[r][j] = x
                                    \/ j \in DOMAIN sess[r] /\ sess'[r][j] = sess[r][j]
      /\ Len(sess[r]) <= Len(sess'[r])
      /\ \A q \in Rids : q # r => sess'[q] = sess[q]
  <2>1. sess[r] \in Seq(Session) /\ sess \in [Rids -> Seq(Session)]
    BY DEF Inv, TypeOK
  <2>2. CASE sess' = [sess EXCEPT ![r] = Append(@, x)]
    <3>1. sess'[r] = Append(sess[r], x)
      BY <2>1, <2>2
    <3>2. Len(sess'[r]) = Len(sess[r]) + 1 /\ Len(sess[r]) \in Nat
      BY <2>1, <3>1
    <3>3. DOMAIN sess[r] = 1..Len(sess[r]) /\ DOMAIN sess'[r] = 1..(Len(sess[r]) + 1)
      BY <2>1, <3>1
    <3>4. \A j \in DOMAIN sess'[r] : \/ sess'[r][j] = x
                                     \/ j \in DOMAIN sess[r] /\ sess'[r][j] = sess[r][j]
      BY <2>1, <3>1, <3>2, <3>3
    <3> QED
      BY <2>1, <2>2, <3>2, <3>4
  <2>3. CASE i \in DOMAIN sess[r] /\ sess' = [sess EXCEPT ![r] = [@ EXCEPT ![i] = x]]
    <3>1. sess'[r] = [sess[r] EXCEPT ![i] = x]
      BY <2>1, <2>3
    <3>2. DOMAIN sess'[r] = DOMAIN sess[r]
      BY <3>1
    <3>3. sess'[r] \in Seq(Session)
      BY DEF TypeOK
    <3>4. Len(sess'[r]) = Len(sess[r]) /\ Len(sess[r]) \in Nat
      BY <2>1, <3>2, <3>3
    <3>5. \A j \in DOMAIN sess'[r] : \/ sess'[r][j] = x
                                     \/ j \in DOMAIN sess[r] /\ sess'[r][j] = sess[r][j]
      BY <2>3, <3>1, <3>2
    <3> QED
      BY <2>1, <2>3, <3>4, <3>5
  <2> QED
    BY <2>2, <2>3
<1>2. Persist
  <2>1. \A q \in Rids : Len(sess[q]) <= Len(sess'[q])
    <3>1. \A q \in Rids : Len(sess[q]) \in Nat
      BY DEF Inv, TypeOK
    <3> QED
      BY <1>1, <3>1
  <2>2. clock \in Nat
    BY DEF Inv, TypeOK
  <2> QED
    BY <2>1, <2>2 DEF Persist, Exists
<1>3. RowInv' /\ StatusInv'
  BY DEF Inv, RowInv, StatusInv, Exists, HasMaintenanceConflict, Overlaps
<1>4. SessionInv'
  <2> SUFFICES ASSUME NEW q \in Rids, NEW j \in DOMAIN sess'[q]
               PROVE  SessionOK(q, sess[q][j])'
    BY DEF SessionInv
  <2>1. CASE q = r /\ sess'[q][j] = x
    BY <2>1 DEF SessionOK, Begun, Exists
  <2>2. CASE j \in DOMAIN sess[q] /\ sess'[q][j] = sess[q][j]
    <3>1. SessionOK(q, sess[q][j])
      BY <2>2 DEF Inv, SessionInv
    <3> QED
      BY <2>2, <3>1 DEF SessionOK, Begun, Exists
  <2> QED
    BY <1>1, <2>1, <2>2
<1>5. SweeperInv'
  <2>1. sweeper'[s] = v /\ SweeperOK(sweeper[s])
    BY DEF Inv, TypeOK, SweeperInv
  <2>2. SweeperOK(sweeper[s])'
    BY <2>1 DEF SweeperOK, Begun, Exists
  <2> QED
    BY <1>2, <2>2, SweeperMoved DEF Inv, TypeOK
<1> QED
  BY <1>2, <1>3, <1>4, <1>5, LocalsKept DEF Inv, requests

\* Every step of a sweep pass keeps the invariant.
LEMMA SweepInv ==
  ASSUME Inv, TypeOK', NEW s \in Sweepers, SweepStep(s)
  PROVE  Inv'
<1> DEFINE w == sweeper[s]
           r == w.cur
<1>w. /\ w \in Sweeper
      /\ SweeperOK(w)
      /\ w.pc \in {"open", "find", "close"} => r \in Rids
  BY DEF Inv, TypeOK, SweeperInv, Sweeper
<1>n. clock \in Nat /\ w.now \in Nat /\ w.todo \subseteq Rids
  BY <1>w DEF Inv, TypeOK, Sweeper
<1>r. ASSUME NEW q \in Rids
      PROVE  res[q].start \in Nat /\ res[q].end \in Nat /\ sess[q] \in Seq(Session)
  BY DEF Inv, TypeOK, Row
\* Steps that touch no table.
<1>0. ASSUME NEW v \in Sweeper, sweeper' = [sweeper EXCEPT ![s] = v],
             UNCHANGED <<clock, res, sess, requests, approved>>,
             SweeperOK(v)
      PROVE  Inv'
  <2>1. Persist
    BY <1>0, PersistTables DEF Inv, TypeOK
  <2>2. RowInv' /\ StatusInv' /\ SessionInv'
    BY <1>0, TablesKept DEF Inv, TypeOK
  <2>3. SweeperOK(sweeper[s])'
    <3>1. sweeper'[s] = v
      BY <1>0 DEF Inv, TypeOK
    <3> QED
      BY <1>0, <3>1 DEF SweeperOK, Begun, Exists
  <2>4. SweeperInv'
    BY <1>0, <2>1, <2>3, SweeperMoved DEF Inv, TypeOK
  <2> QED
    BY <1>0, <2>1, <2>2, <2>4, LocalsKept DEF Inv, requests
<1>1. CASE SweepBegin(s)
  <2> DEFINE v == [IdleSweeper EXCEPT !.pc = "list", !.now = clock]
  <2>1. v \in Sweeper
    BY <1>n, IdleTypes DEF Sweeper
  <2>2. SweeperOK(v)
    BY <1>n DEF SweeperOK, IdleSweeper
  <2> QED
    BY <1>0, <1>1, <2>1, <2>2 DEF SweepBegin
<1>2. CASE SweepList(s)
  <2> DEFINE S == IF w.phase = "activate" THEN ToActivate(w.now) ELSE ToComplete(w.now)
             v == [w EXCEPT !.pc = "row", !.todo = S]
  <2>1. S \subseteq Rids
    BY DEF ToActivate, ToComplete
  <2>2. \A q \in S : Begun(q, w.now) /\ (w.phase = "complete" => res[q].end <= w.now)
    BY <1>n, <1>r DEF ToActivate, ToComplete, Begun, Exists, Inv, StatusInv, RowInv
  <2>3. sweeper' = [sweeper EXCEPT ![s] = v]
    BY <1>2 DEF SweepList
  <2> HIDE DEF S
  <2>4. v \in Sweeper /\ v.pc = "row" /\ v.todo = S /\ v.now = w.now /\ v.phase = w.phase
    BY <1>w, <2>1 DEF Sweeper
  <2>5. SweeperOK(v)
    BY <1>2, <1>w, <2>2, <2>4 DEF SweeperOK, SweepList
  <2> QED
    BY <1>0, <1>2, <2>3, <2>4, <2>5 DEF SweepList
<1>3. ASSUME NEW q \in Rids, SweepActivate(s, q) PROVE Inv'
  <2> DEFINE v == [w EXCEPT !.pc = "open", !.cur = q, !.todo = w.todo \ {q}]
  <2>1. Begun(q, w.now) /\ w.now < res[q].end /\ w.now <= clock
    BY <1>3, <1>w, <1>n, <1>r DEF SweepActivate, SweeperOK, WindowElapsed
  <2>2. Persist /\ RowInv' /\ StatusInv' /\ SessionInv'
    <3>1. Exists(q) /\ q \in approved /\ res[q].start <= clock
      BY <1>n, <1>r, <2>1 DEF Begun
    <3>2. /\ res' = [res EXCEPT ![q].status = "ACTIVE"]
          /\ UNCHANGED <<clock, sess, approved>>
      BY <1>3 DEF SweepActivate
    <3> QED
      BY <3>1, <3>2, StatusWritten DEF Statuses
  <2>3. v \in Sweeper /\ v.pc = "open" /\ v.cur = q /\ v.todo = w.todo \ {q}
          /\ v.now = w.now /\ v.phase = w.phase
    BY <1>w DEF Sweeper
  <2>4. sweeper' = [sweeper EXCEPT ![s] = v]
    BY <1>3 DEF SweepActivate
  <2> HIDE DEF v
  <2>5. sweeper'[s] = v
    BY <2>4 DEF Inv, TypeOK
  <2>6. SweeperOK(sweeper[s])'
    BY <1>3, <1>w, <1>n, <2>1, <2>2, <2>3, <2>5
       DEF SweeperOK, SweepActivate, Begun, Persist
  <2>7. SweeperInv'
    BY <2>2, <2>4, <2>6, SweeperMoved DEF Inv, TypeOK
  <2> QED
    BY <1>3, <2>2, <2>7, LocalsKept DEF SweepActivate, requests, Inv
<1>4. ASSUME NEW q \in Rids, SweepComplete(s, q) PROVE Inv'
  <2> DEFINE v == [w EXCEPT !.pc = "find", !.cur = q, !.todo = w.todo \ {q}]
  <2>1. Begun(q, w.now) /\ res[q].end <= w.now /\ w.now <= clock
    BY <1>4, <1>w, <1>n, <1>r DEF SweepComplete, SweeperOK, WindowElapsed
  <2>2. Persist /\ RowInv' /\ StatusInv' /\ SessionInv'
    <3>1. Exists(q) /\ q \in approved /\ res[q].start <= clock /\ res[q].end <= clock
      BY <1>n, <1>r, <2>1 DEF Begun
    <3>2. /\ res' = [res EXCEPT ![q].status = "COMPLETED"]
          /\ UNCHANGED <<clock, sess, approved>>
      BY <1>4 DEF SweepComplete
    <3> QED
      BY <3>1, <3>2, StatusWritten DEF Statuses
  <2>3. v \in Sweeper /\ v.pc = "find" /\ v.cur = q /\ v.todo = w.todo \ {q}
          /\ v.now = w.now /\ v.phase = w.phase
    BY <1>w DEF Sweeper
  <2>4. sweeper' = [sweeper EXCEPT ![s] = v]
    BY <1>4 DEF SweepComplete
  <2> HIDE DEF v
  <2>5. sweeper'[s] = v
    BY <2>4 DEF Inv, TypeOK
  <2>6. SweeperOK(sweeper[s])'
    BY <1>4, <1>w, <1>n, <2>1, <2>2, <2>3, <2>5
       DEF SweeperOK, SweepComplete, Begun, Persist
  <2>7. SweeperInv'
    BY <2>2, <2>4, <2>6, SweeperMoved DEF Inv, TypeOK
  <2> QED
    BY <1>4, <2>2, <2>7, LocalsKept DEF SweepComplete, requests, Inv
<1>5. CASE SweepOpenSession(s)
  <2> DEFINE x == OpenSession(w.now)
             v == [w EXCEPT !.pc = "row", !.cur = None]
  <2>1. r \in Rids /\ w.pc = "open"
    BY <1>5, <1>w DEF SweepOpenSession
  <2>2. SessionOK(r, x)
    BY <2>1, <1>w DEF SweeperOK, SessionOK, Begun, Exists, OpenSession
  <2>3. v \in Sweeper /\ v.pc = "row" /\ v.todo = w.todo /\ v.now = w.now /\ v.phase = w.phase
    BY <1>w DEF Sweeper
  <2>4. sweeper' = [sweeper EXCEPT ![s] = v] /\ sess' = [sess EXCEPT ![r] = Append(@, x)]
    BY <1>5 DEF SweepOpenSession
  <2>5. UNCHANGED <<clock, res, requests, approved>>
    BY <1>5 DEF SweepOpenSession
  <2> HIDE DEF v, x
  <2> QED
    BY SessionWritten, <2>1, <2>2, <2>3, <2>4, <2>5
<1>6. CASE SweepFindSession(s)
  <2>1. r \in Rids /\ w.pc = "find"
    BY <1>6, <1>w DEF SweepFindSession
  <2>2. PICK i \in 0..Len(sess[r]) :
          sweeper' = [sweeper EXCEPT ![s] = [w EXCEPT !.pc = "close", !.ses = i]]
    <3>1. LatestRunning(r) \subseteq 1..Len(sess[r])
      BY <1>r, <2>1 DEF LatestRunning
    <3>2. Len(sess[r]) \in Nat
      BY <1>r, <2>1
    <3>3. PICK i \in IF LatestRunning(r) = {} THEN {0} ELSE LatestRunning(r) :
            sweeper' = [sweeper EXCEPT ![s] = [w EXCEPT !.pc = "close", !.ses = i]]
      BY <1>6 DEF SweepFindSession
    <3>4. i \in 0..Len(sess[r])
      BY <3>1, <3>2, <3>3
    <3> QED
      BY <3>3, <3>4
  <2> DEFINE v == [w EXCEPT !.pc = "close", !.ses = i]
  <2>3. v \in Sweeper /\ v.pc = "close" /\ v.todo = w.todo /\ v.now = w.now
          /\ v.phase = w.phase /\ v.cur = r /\ v.ses = i
    <3>1. i \in Nat
      BY <1>r, <2>1, <2>2
    <3> QED
      BY <1>w, <3>1 DEF Sweeper
  <2>4. UNCHANGED <<clock, res, sess, requests, approved>>
    BY <1>6 DEF SweepFindSession
  <2>5. sweeper' = [sweeper EXCEPT ![s] = v]
    BY <2>2
  <2> HIDE DEF v
  <2>6. SweeperOK(v)
    BY <1>w, <2>1, <2>2, <2>3 DEF SweeperOK
  <2> QED
    BY <1>0, <2>3, <2>4, <2>5, <2>6
<1>7. CASE SweepCloseSession(s)
  <2> DEFINE v == [w EXCEPT !.pc = "row", !.cur = None, !.ses = 0]
  <2>1. /\ r \in Rids /\ w.pc = "close"
        /\ Begun(r, w.now) /\ res[r].end <= w.now /\ w.now <= clock
        /\ w.ses \in 0..Len(sess[r])
    BY <1>7, <1>w DEF SweepCloseSession, SweeperOK
  <2>2. v \in Sweeper /\ v.pc = "row" /\ v.todo = w.todo /\ v.now = w.now /\ v.phase = w.phase
    BY <1>w DEF Sweeper
  <2>3. sweeper' = [sweeper EXCEPT ![s] = v] /\ UNCHANGED <<clock, res, requests, approved>>
    BY <1>7 DEF SweepCloseSession
  <2> HIDE DEF v
  <2>4. res[r].start < res[r].end /\ res[r].end <= clock
    BY <1>n, <1>r, <2>1 DEF Inv, RowInv, Begun
  <2>5. CASE /\ w.ses # 0
             /\ sess' = [sess EXCEPT ![r] =
                  [@ EXCEPT ![w.ses] = ClosedSession(sess[r][w.ses].startedAt, res[r].end)]]
    <3> DEFINE x == ClosedSession(sess[r][w.ses].startedAt, res[r].end)
    <3>1. w.ses \in DOMAIN sess[r] /\ w.ses \in Nat
      BY <1>r, <2>1, <2>5
    <3>2. SessionOK(r, sess[r][w.ses])
      BY <2>1, <3>1 DEF Inv, SessionInv
    <3>3. SessionOK(r, x)
      BY <2>4, <3>2 DEF SessionOK, ClosedSession
    <3>4. sess' = [sess EXCEPT ![r] = [@ EXCEPT ![w.ses] = x]]
      BY <2>5
    <3> HIDE DEF x
    <3> QED
      BY SessionWritten, <2>1, <2>2, <2>3, <3>1, <3>3, <3>4
  <2>6. CASE sess' = [sess EXCEPT ![r] = Append(@, ClosedSession(res[r].start, res[r].end))]
    <3> DEFINE x == ClosedSession(res[r].start, res[r].end)
    <3>1. SessionOK(r, x)
      BY <1>n, <1>r, <2>1, <2>4 DEF SessionOK, ClosedSession, Begun
    <3>2. sess' = [sess EXCEPT ![r] = Append(@, x)] /\ 0 \in Nat
      BY <2>6
    <3> HIDE DEF x
    <3> QED
      BY SessionWritten, <2>1, <2>2, <2>3, <3>1, <3>2
  <2> QED
    BY <1>7, <2>5, <2>6 DEF SweepCloseSession
<1>8. CASE SweepListDone(s)
  <2>1. w.pc = "row" /\ UNCHANGED <<clock, res, sess, requests, approved>>
    BY <1>8 DEF SweepListDone
  <2>2. CASE w.phase = "activate"
    <3> DEFINE v == [w EXCEPT !.pc = "list", !.phase = "complete"]
    <3>1. v \in Sweeper /\ v.pc = "list" /\ v.now = w.now /\ v.todo = {}
      BY <1>8, <1>w DEF Sweeper, SweepListDone
    <3>2. sweeper' = [sweeper EXCEPT ![s] = v]
      BY <1>8, <2>2 DEF SweepListDone
    <3> HIDE DEF v
    <3>3. SweeperOK(v)
      BY <1>w, <2>1, <3>1 DEF SweeperOK
    <3> QED
      BY <1>0, <2>1, <3>1, <3>2, <3>3
  <2>3. CASE w.phase # "activate"
    <3>1. sweeper' = [sweeper EXCEPT ![s] = IdleSweeper]
      BY <1>8, <2>3 DEF SweepListDone
    <3>2. IdleSweeper \in Sweeper /\ SweeperOK(IdleSweeper)
      BY IdleTypes DEF SweeperOK, IdleSweeper
    <3> QED
      BY <1>0, <2>1, <3>1, <3>2
  <2> QED
    BY <2>2, <2>3
<1> QED
  BY <1>1, <1>2, <1>3, <1>4, <1>5, <1>6, <1>7, <1>8 DEF SweepStep

\* Every step keeps the invariant.
LEMMA InvStep == Inv /\ [Next]_vars => Inv'
<1> SUFFICES ASSUME Inv, [Next]_vars PROVE Inv'
  OBVIOUS
<1>t. TypeOK' /\ clock \in Nat /\ clock' \in Nat
  BY TypeStep DEF Inv, TypeOK
<1>0. ASSUME UNCHANGED <<res, sess, approved>>, clock <= clock',
             BookerInv', DeciderInv', Persist => SweeperInv'
      PROVE  Inv'
  <2>1. Persist
    BY <1>0, PersistTables DEF Inv
  <2>2. RowInv' /\ StatusInv' /\ SessionInv'
    BY <1>t, <1>0, TablesKept DEF Inv
  <2> QED
    BY <1>t, <1>0, <2>1, <2>2 DEF Inv
<1>b. UNCHANGED booker => BookerInv'
  BY DEF Inv, BookerInv, BookerOK, HasMaintenanceConflict, Overlaps
<1>d. UNCHANGED <<decider, res>> => DeciderInv'
  BY DEF Inv, DeciderInv, DeciderOK, Exists
<1>1. CASE RequestAbort
  <2>1. BookerInv'
    <3>1. ASSUME NEW b \in Bookers, booker' = [booker EXCEPT ![b] = IdleBooker]
          PROVE  BookerInv'
      <4>1. \A c \in Bookers : booker'[c] = IdleBooker \/ booker'[c] = booker[c]
        BY <3>1 DEF Inv, TypeOK
      <4>2. ~IdleBooker.busy
        BY DEF IdleBooker
      <4> QED
        BY <4>1, <4>2 DEF Inv, BookerInv, BookerOK, HasMaintenanceConflict, Overlaps
    <3> QED
      BY <1>1, <1>b, <3>1 DEF RequestAbort
  <2>2. DeciderInv'
    <3>1. ASSUME NEW d \in Deciders, decider' = [decider EXCEPT ![d] = IdleDecider],
                 UNCHANGED res
          PROVE  DeciderInv'
      <4>1. \A c \in Deciders : decider'[c] = IdleDecider \/ decider'[c] = decider[c]
        BY <3>1 DEF Inv, TypeOK
      <4>2. IdleDecider.to = "NONE"
        BY DEF IdleDecider
      <4> QED
        BY <3>1, <4>1, <4>2 DEF Inv, DeciderInv, DeciderOK, Exists
    <3> QED
      BY <1>1, <1>d, <3>1 DEF RequestAbort
  <2>3. UNCHANGED <<clock, res, sess, sweeper, approved>>
    BY <1>1 DEF RequestAbort
  <2>4. Persist => SweeperInv'
    BY <1>t, <2>3, LocalsKept DEF Inv
  <2> QED
    BY <1>t, <1>0, <2>1, <2>2, <2>3, <2>4
<1>2. ASSUME NEW s \in Sweepers, SweepAbort(s) PROVE Inv'
  <2>1. UNCHANGED <<clock, res, sess, requests, approved>>
    BY <1>2 DEF SweepAbort
  <2>2. \A q \in Sweepers : q # s => sweeper'[q] = sweeper[q]
    BY <1>2 DEF SweepAbort, Inv, TypeOK
  <2>3. sweeper'[s].pc = "idle"
    BY <1>2 DEF SweepAbort, Inv, TypeOK, IdleSweeper
  <2>4. SweeperOK(sweeper[s])'
    BY <2>3 DEF SweeperOK
  <2>5. Persist => SweeperInv'
    BY <1>t, <2>2, <2>4, SweeperMoved DEF Inv
  <2> QED
    BY <1>t, <1>0, <1>b, <1>d, <2>1, <2>5 DEF requests
<1>3. CASE Tick
  <2>1. UNCHANGED <<res, sess, requests, sweeper, approved>> /\ clock <= clock'
    BY <1>t, <1>3 DEF Tick
  <2>2. Persist => SweeperInv'
    BY <1>t, <2>1, LocalsKept DEF Inv
  <2> QED
    BY <1>0, <1>b, <1>d, <2>1, <2>2 DEF requests
<1>4. CASE UNCHANGED vars
  <2>1. UNCHANGED <<clock, res, sess, booker, decider, sweeper, approved>>
    BY <1>4 DEF vars
  <2>2. Persist => SweeperInv'
    BY <1>t, <2>1, LocalsKept DEF Inv
  <2> QED
    BY <1>t, <1>0, <1>b, <1>d, <2>1, <2>2
<1> QED
  BY <1>t, <1>1, <1>2, <1>3, <1>4, BookingInv, DecisionInv, SweepInv DEF Next

\* The inductive invariant holds in every reachable state, however requests and
\* passes overlap.
THEOREM InvCorrect == Spec => []Inv
<1>1. Init => Inv
  BY InitInv
<1>2. Inv /\ [Next]_vars => Inv'
  BY InvStep
<1> QED
  BY <1>1, <1>2, PTL DEF Spec

\* checkConflicts never lets a reservation into a maintenance window.
THEOREM NoMaintenanceOverlapCorrect == Spec => []NoMaintenanceOverlap
<1>1. Inv => NoMaintenanceOverlap
  BY DEF Inv, RowInv, NoMaintenanceOverlap
<1> QED
  BY <1>1, InvCorrect, PTL

\* No sweep bills a moment outside the booked window.
THEOREM SessionWithinWindowCorrect == Spec => []SessionWithinWindow
<1>1. Inv => SessionWithinWindow
  BY DEF Inv, SessionInv, SessionOK, Begun, SessionWithinWindow
<1> QED
  BY <1>1, InvCorrect, PTL

\* No reservation is used that a faculty member did not approve.
THEOREM UseOnlyAfterApprovalCorrect == Spec => []UseOnlyAfterApproval
<1>1. Inv => UseOnlyAfterApproval
  <2> SUFFICES ASSUME Inv, NEW r \in Rids,
                      res[r].status \in {"ACTIVE", "COMPLETED"} \/ sess[r] # <<>>
               PROVE  r \in approved
    BY DEF UseOnlyAfterApproval
  <2>1. CASE res[r].status \in {"ACTIVE", "COMPLETED"}
    BY <2>1 DEF Inv, StatusInv
  <2>2. CASE sess[r] # <<>>
    <3>1. sess[r] \in Seq(Session)
      BY DEF Inv, TypeOK
    <3>2. 1 \in DOMAIN sess[r]
      BY <2>2, <3>1
    <3>3. SessionOK(r, sess[r][1])
      BY <3>2 DEF Inv, SessionInv
    <3> QED
      BY <3>3 DEF SessionOK, Begun
  <2> QED
    BY <2>1, <2>2
<1> QED
  BY <1>1, InvCorrect, PTL

\* No reservation is used, completed or billed before its time.
THEOREM NeverEarlyCorrect == Spec => []NeverEarly
<1>1. Inv => NeverEarly
  BY DEF Inv, StatusInv, SessionInv, SessionOK, NeverEarly
<1> QED
  BY <1>1, InvCorrect, PTL

-----------------------------------------------------------------------------
(* Requests and passes one at a time: at most one process is in flight. *)

\* Nothing is in flight but the processes of B, D and S.
OnlyBusy(B, D, S) ==
  /\ \A b \in Bookers \ B : booker[b] = IdleBooker
  /\ \A d \in Deciders \ D : decider[d] = IdleDecider
  /\ \A s \in Sweepers \ S : sweeper[s] = IdleSweeper

OneAtATime ==
  /\ \A b \in Bookers : booker[b] # IdleBooker => OnlyBusy({b}, {}, {})
  /\ \A d \in Deciders : decider[d] # IdleDecider => OnlyBusy({}, {d}, {})
  /\ \A s \in Sweepers : sweeper[s] # IdleSweeper => OnlyBusy({}, {}, {s})

\* A process that has something to do is not idle.
LEMMA BusyIsNotIdle ==
  /\ \A w : w.busy => w # IdleBooker
  /\ \A w : w.to # "NONE" => w # IdleDecider
  /\ \A w : w.pc # "idle" => w # IdleSweeper
BY DEF IdleBooker, IdleDecider, IdleSweeper

\* A step that starts no process keeps at most one of them in flight.
LEMMA NoneStarted ==
  ASSUME OneAtATime,
         \A b \in Bookers : booker[b] = IdleBooker => booker'[b] = IdleBooker,
         \A d \in Deciders : decider[d] = IdleDecider => decider'[d] = IdleDecider,
         \A s \in Sweepers : sweeper[s] = IdleSweeper => sweeper'[s] = IdleSweeper
  PROVE  OneAtATime'
BY DEF OneAtATime, OnlyBusy

\* A booking that makes a step is the only process in flight, before and after:
\* MayStart let it begin only when no other was.
LEMMA BookingAlone ==
  ASSUME Serialized, TypeOK, OneAtATime, NEW b \in Bookers, BookingStep(b)
  PROVE  OnlyBusy({b}, {}, {}) /\ OnlyBusy({b}, {}, {})'
<1>1. UNCHANGED <<decider, sweeper>> /\ \A c \in Bookers \ {b} : booker'[c] = booker[c]
  BY DEF BookingStep, BookNode, BookLab, StartBooking, CheckNode, CreateReservation,
         RefuseBooking, TypeOK
<1>2. AllIdle \/ booker[b].busy
  BY DEF BookingStep, BookNode, BookLab, NewRequest, MayStart, CheckNode,
         CreateReservation, RefuseBooking
<1>3. OnlyBusy({b}, {}, {})
  BY <1>2, BusyIsNotIdle DEF AllIdle, OneAtATime, OnlyBusy
<1> QED
  BY <1>1, <1>3 DEF OnlyBusy

\* So is a decision that makes a step.
LEMMA DecisionAlone ==
  ASSUME Serialized, TypeOK, OneAtATime, NEW d \in Deciders, DecisionStep(d)
  PROVE  OnlyBusy({}, {d}, {}) /\ OnlyBusy({}, {d}, {})'
<1>1. UNCHANGED <<booker, sweeper>> /\ \A e \in Deciders \ {d} : decider'[e] = decider[e]
  BY DEF DecisionStep, Approve, Reject, Cancel, ReadAndValidate, WriteDecision, TypeOK
<1>2. AllIdle \/ decider[d].to # "NONE"
  BY DEF DecisionStep, Approve, Reject, Cancel, ReadAndValidate, MayStart, WriteDecision
<1>3. OnlyBusy({}, {d}, {})
  BY <1>2, BusyIsNotIdle DEF AllIdle, OneAtATime, OnlyBusy
<1> QED
  BY <1>1, <1>3 DEF OnlyBusy

\* So is a pass that makes a step.
LEMMA SweepAlone ==
  ASSUME Serialized, TypeOK, OneAtATime, NEW s \in Sweepers, SweepStep(s)
  PROVE  OnlyBusy({}, {}, {s}) /\ OnlyBusy({}, {}, {s})'
<1>1. UNCHANGED requests /\ \A t \in Sweepers \ {s} : sweeper'[t] = sweeper[t]
  BY DEF SweepStep, SweepBegin, SweepList, SweepActivate, SweepComplete,
         SweepOpenSession, SweepFindSession, SweepCloseSession, SweepListDone, TypeOK
<1>2. AllIdle \/ sweeper[s].pc # "idle"
  BY DEF SweepStep, SweepBegin, MayStart, SweepList, SweepActivate, SweepComplete,
         SweepOpenSession, SweepFindSession, SweepCloseSession, SweepListDone
<1>3. OnlyBusy({}, {}, {s})
  BY <1>2, BusyIsNotIdle DEF AllIdle, OneAtATime, OnlyBusy
<1> QED
  BY <1>1, <1>3 DEF OnlyBusy, requests

\* Where one process may be in flight, at most one is.
LEMMA AloneIsOneAtATime ==
  /\ \A b \in Bookers : OnlyBusy({b}, {}, {}) => OneAtATime
  /\ \A d \in Deciders : OnlyBusy({}, {d}, {}) => OneAtATime
  /\ \A s \in Sweepers : OnlyBusy({}, {}, {s}) => OneAtATime
BY DEF OnlyBusy, OneAtATime

-----------------------------------------------------------------------------
(* What the one process in flight has read is still so. *)

\* The nodes a booking found eligible have no conflict.
CheckedBy(w) ==
  w.busy => \A n \in w.eligible : ~HasReservationConflict(n, w.start, w.end)

Checked == \A b \in Bookers : CheckedBy(booker[b])

\* The statuses from which a request may change a reservation's status to `to`.
AllowedFrom(to) == IF to = "CANCELLED" THEN CancellableStatuses ELSE DecidableStatuses

\* The reservation a decision is about still has a status that allows it.
Decidable ==
  \A d \in Deciders : decider[d].to # "NONE" =>
    res[decider[d].rid].status \in AllowedFrom(decider[d].to)

\* Each reservation on a pass's list still has the status it was listed for.
Listed ==
  \A s \in Sweepers : \A r \in sweeper[s].todo :
    res[r].status = IF sweeper[s].phase = "activate" THEN "APPROVED" ELSE "ACTIVE"

SerialInv == TypeOK /\ OneAtATime /\ Checked /\ Decidable /\ Listed /\ NoDoubleBooking

\* No row claims more than it did.
NoNewClaim ==
  \A r \in Rids : res'[r].status \in HoldingStatuses =>
    /\ res[r].status \in HoldingStatuses
    /\ res'[r].node = res[r].node
    /\ res'[r].start = res[r].start
    /\ res'[r].end = res[r].end

\* Without new claims no conflict comes up.
LEMMA ClaimsKept == NoDoubleBooking /\ NoNewClaim => NoDoubleBooking'
BY DEF NoDoubleBooking, NoNewClaim, Overlaps

\* A step that leaves the reservations alone makes no claim.
LEMMA TableKept == UNCHANGED res => NoNewClaim
BY DEF NoNewClaim

\* With nothing but the processes of B, D and S in flight, what the others have
\* read is true for want of them.
LEMMA OthersKnowNothing ==
  ASSUME TypeOK', NEW B, NEW D, NEW S, OnlyBusy(B, D, S)'
  PROVE  /\ B = {} => Checked'
         /\ D = {} => Decidable'
         /\ S = {} => Listed'
BY DEF OnlyBusy, Checked, CheckedBy, Decidable, Listed, IdleBooker, IdleDecider,
       IdleSweeper

\* A booking creates a reservation only where it has found no conflict, and none
\* has come up since.
LEMMA BookingSerial ==
  ASSUME Serialized, SerialInv, NEW b \in Bookers, BookingStep(b)
  PROVE  SerialInv'
<1>t. TypeOK /\ OneAtATime /\ Checked /\ NoDoubleBooking
  BY DEF SerialInv
<1>p. TypeOK'
  BY <1>t, BookingTypes
<1>a. OnlyBusy({b}, {}, {})'
  BY <1>t, BookingAlone
<1>o. OneAtATime'
  BY <1>a, AloneIsOneAtATime DEF OnlyBusy, OneAtATime
<1>k. Decidable' /\ Listed'
  BY <1>a, <1>p, OthersKnowNothing
<1>c. ASSUME CheckedBy(booker[b])' PROVE Checked'
  BY <1>a, <1>c DEF OnlyBusy, Checked, CheckedBy, IdleBooker
<1>1. ASSUME NEW start \in 0..MaxTime, NEW end \in 0..MaxTime, NEW candidates,
             StartBooking(b, start, end, candidates), UNCHANGED res
      PROVE  Checked' /\ NoDoubleBooking'
  <2>1. booker'[b].eligible = {}
    BY <1>1, <1>t DEF StartBooking, TypeOK
  <2> QED
    BY <1>1, <1>t, <1>c, <2>1, TableKept, ClaimsKept DEF CheckedBy
<1>2. ASSUME NEW n \in Nodes, NEW online \in BOOLEAN, CheckNode(b, n, online)
      PROVE  Checked' /\ NoDoubleBooking'
  <2>1. booker[b] \in Booker
    BY <1>t DEF TypeOK
  <2>2. /\ booker'[b].start = booker[b].start /\ booker'[b].end = booker[b].end
        /\ booker'[b].eligible \subseteq booker[b].eligible \cup
             {m \in {n} : IsConflictFree(m, booker[b].start, booker[b].end)}
    BY <1>2, <2>1, <1>t DEF CheckNode, TypeOK, Booker
  <2>3. \A m \in booker'[b].eligible :
          ~HasReservationConflict(m, booker[b].start, booker[b].end)
    BY <1>2, <1>t, <2>2 DEF Checked, CheckedBy, CheckNode, IsConflictFree
  <2>4. UNCHANGED res
    BY <1>2 DEF CheckNode
  <2> QED
    <3>1. CheckedBy(booker[b])'
      BY <2>2, <2>3, <2>4 DEF CheckedBy, HasReservationConflict, Overlaps
    <3> QED
      BY <1>t, <1>c, <2>4, <3>1, TableKept, ClaimsKept
<1>3. ASSUME NEW n \in Nodes, NEW r \in Rids, CreateReservation(b, n, r)
      PROVE  Checked' /\ NoDoubleBooking'
  <2> DEFINE w == booker[b]
  <2>1. ~booker'[b].busy
    BY <1>3, <1>t DEF CreateReservation, TypeOK, IdleBooker
  <2>2. /\ res'[r].node = n /\ res'[r].start = w.start /\ res'[r].end = w.end
        /\ \A q \in Rids \ {r} : res'[q] = res[q]
    BY <1>3, <1>t DEF CreateReservation, TypeOK
  <2>3. ~HasReservationConflict(n, w.start, w.end)
    BY <1>3, <1>t DEF Checked, CheckedBy, CreateReservation, BestFit
  <2>4. ASSUME NEW q \in Rids \ {r}, res'[q].status \in HoldingStatuses, res'[q].node = n
        PROVE  /\ ~Overlaps(res'[q], w.start, w.end)
               /\ ~(w.start < res'[q].end /\ w.end > res'[q].start)
    <3>1. ~Overlaps(res[q], w.start, w.end)
      BY <2>2, <2>3, <2>4 DEF HasReservationConflict
    <3>2. w.start \in Nat /\ w.end \in Nat /\ res[q].start \in Nat /\ res[q].end \in Nat
      BY <1>t DEF TypeOK, Booker, Row
    <3> QED
      BY <2>2, <3>1, <3>2 DEF Overlaps
  <2>5. NoDoubleBooking'
    <3> SUFFICES ASSUME NEW p \in Rids, NEW q \in Rids, p # q,
                        res'[p].status \in HoldingStatuses, res'[q].status \in HoldingStatuses,
                        res'[p].node = res'[q].node
                 PROVE  ~Overlaps(res'[p], res'[q].start, res'[q].end)
      BY DEF NoDoubleBooking, Overlaps
    <3>1. CASE p # r /\ q # r
      BY <1>t, <2>2, <3>1 DEF NoDoubleBooking
    <3>2. CASE q = r
      BY <2>2, <2>4, <3>2
    <3>3. CASE p = r
      BY <2>2, <2>4, <3>3 DEF Overlaps
    <3> QED
      BY <3>1, <3>2, <3>3
  <2> QED
    BY <1>c, <2>1, <2>5 DEF CheckedBy
<1>4. ASSUME RefuseBooking(b)
      PROVE  Checked' /\ NoDoubleBooking'
  <2>1. ~booker'[b].busy /\ UNCHANGED res
    BY <1>4, <1>t DEF RefuseBooking, TypeOK, IdleBooker
  <2> QED
    BY <1>t, <1>c, <2>1, TableKept, ClaimsKept DEF CheckedBy
<1>5. Checked' /\ NoDoubleBooking'
  <2>1. ASSUME NEW start \in 0..MaxTime, NEW end \in 0..MaxTime, NEW n \in Nodes,
               BookNode(b, n, start, end)
        PROVE  Checked' /\ NoDoubleBooking'
    BY <1>1, <2>1 DEF BookNode
  <2>2. ASSUME NEW start \in 0..MaxTime, NEW end \in 0..MaxTime, NEW lab \in Labs,
               NEW demand \in Demands, BookLab(b, lab, demand, start, end)
        PROVE  Checked' /\ NoDoubleBooking'
    BY <1>1, <2>2 DEF BookLab
  <2> QED
    BY <1>2, <1>3, <1>4, <2>1, <2>2 DEF BookingStep
<1> QED
  BY <1>p, <1>o, <1>k, <1>5 DEF SerialInv

\* A decision finds the row it writes as it left it.
LEMMA DecisionSerial ==
  ASSUME Serialized, SerialInv, NEW d \in Deciders, DecisionStep(d)
  PROVE  SerialInv'
<1>t. TypeOK /\ OneAtATime /\ Decidable /\ NoDoubleBooking
  BY DEF SerialInv
<1>p. TypeOK'
  BY <1>t, DecisionTypes
<1>a. OnlyBusy({}, {d}, {})'
  BY <1>t, DecisionAlone
<1>o. OneAtATime'
  BY <1>a, AloneIsOneAtATime DEF OnlyBusy, OneAtATime
<1>k. Checked' /\ Listed'
  BY <1>a, <1>p, OthersKnowNothing
<1>c. ASSUME decider'[d].to # "NONE" =>
                res'[decider'[d].rid].status \in AllowedFrom(decider'[d].to)
      PROVE  Decidable'
  BY <1>a, <1>c DEF OnlyBusy, Decidable, IdleDecider
<1>1. ASSUME NEW r \in Rids, NEW to, ReadAndValidate(d, r, AllowedFrom(to), to)
      PROVE  Decidable' /\ NoDoubleBooking'
  <2>1. /\ decider'[d] = [rid |-> r, to |-> to]
        /\ res'[r].status \in AllowedFrom(to)
        /\ UNCHANGED res
    BY <1>1, <1>t DEF ReadAndValidate, TypeOK
  <2> QED
    BY <1>t, <1>c, <2>1, TableKept, ClaimsKept
<1>2. ASSUME NEW r \in Rids, Approve(d, r) \/ Reject(d, r) \/ Cancel(d, r)
      PROVE  Decidable' /\ NoDoubleBooking'
  BY <1>1, <1>2 DEF Approve, Reject, Cancel, AllowedFrom
<1>3. ASSUME WriteDecision(d) PROVE Decidable' /\ NoDoubleBooking'
  <2> DEFINE r == decider[d].rid
  <2>1. r \in Rids /\ res[r] \in Row /\ res[r].status \in HoldingStatuses
    BY <1>3, <1>t DEF WriteDecision, TypeOK, Decider, Decidable, AllowedFrom,
                      DecidableStatuses, CancellableStatuses, HoldingStatuses
  <2>2. NoNewClaim
    BY <1>3, <1>t, <2>1 DEF WriteDecision, NoNewClaim, TypeOK, Row
  <2>3. decider'[d].to = "NONE"
    BY <1>3, <1>t DEF WriteDecision, TypeOK, IdleDecider
  <2> QED
    BY <1>t, <1>c, <2>2, <2>3, ClaimsKept
<1>4. Decidable' /\ NoDoubleBooking'
  BY <1>2, <1>3 DEF DecisionStep
<1> QED
  BY <1>p, <1>o, <1>k, <1>4 DEF SerialInv

\* A pass finds every row of its list as it listed it.
LEMMA SweepSerial ==
  ASSUME Serialized, SerialInv, NEW s \in Sweepers, SweepStep(s)
  PROVE  SerialInv'
<1> DEFINE w == sweeper[s]
           Status(phase) == IF phase = "activate" THEN "APPROVED" ELSE "ACTIVE"
<1>t. TypeOK /\ OneAtATime /\ Listed /\ NoDoubleBooking
  BY DEF SerialInv
<1>w. w \in Sweeper
  BY <1>t DEF TypeOK
<1>p. TypeOK'
  BY <1>t, SweepTypes
<1>a. OnlyBusy({}, {}, {s})'
  BY <1>t, SweepAlone
<1>o. OneAtATime'
  BY <1>a, AloneIsOneAtATime DEF OnlyBusy, OneAtATime
<1>k. Checked' /\ Decidable'
  BY <1>a, <1>p, OthersKnowNothing
<1>c. ASSUME \A r \in sweeper'[s].todo : res'[r].status = Status(sweeper'[s].phase)
      PROVE  Listed'
  BY <1>a, <1>c DEF OnlyBusy, Listed, IdleSweeper
<1>l. \A r \in w.todo : r \in Rids /\ res[r] \in Row /\ res[r].status = Status(w.phase)
  BY <1>t, <1>w DEF Listed, TypeOK, Sweeper
<1>1. ASSUME UNCHANGED res,
             \/ sweeper'[s].todo = {}
             \/ sweeper'[s].todo = w.todo /\ sweeper'[s].phase = w.phase
      PROVE  Listed' /\ NoDoubleBooking'
  BY <1>1, <1>t, <1>c, <1>l, TableKept, ClaimsKept
<1>2. ASSUME SweepList(s) PROVE Listed' /\ NoDoubleBooking'
  <2>1. /\ sweeper'[s].phase = w.phase
        /\ sweeper'[s].todo = IF w.phase = "activate" THEN ToActivate(w.now)
                                                       ELSE ToComplete(w.now)
        /\ UNCHANGED res
    BY <1>2, <1>t, <1>w DEF SweepList, TypeOK, Sweeper
  <2> QED
    BY <1>t, <1>c, <2>1, TableKept, ClaimsKept DEF ToActivate, ToComplete
<1>3. ASSUME NEW r \in w.todo, NEW st \in {"ACTIVE", "COMPLETED"},
             res' = [res EXCEPT ![r].status = st],
             sweeper'[s].todo = w.todo \ {r}, sweeper'[s].phase = w.phase
      PROVE  Listed' /\ NoDoubleBooking'
  <2>1. NoNewClaim
    BY <1>3, <1>t, <1>l DEF NoNewClaim, TypeOK, Row, HoldingStatuses
  <2>2. \A q \in w.todo \ {r} : res'[q] = res[q]
    BY <1>3, <1>t, <1>l DEF TypeOK
  <2> QED
    BY <1>3, <1>t, <1>c, <1>l, <2>1, <2>2, ClaimsKept
<1>4. ASSUME NEW r \in Rids, SweepActivate(s, r) \/ SweepComplete(s, r)
      PROVE  Listed' /\ NoDoubleBooking'
  <2>1. sweeper'[s].todo = w.todo \ {r} /\ sweeper'[s].phase = w.phase
    <3>1. CASE SweepActivate(s, r)
      BY <3>1, <1>t, <1>w DEF SweepActivate, TypeOK, Sweeper
    <3>2. CASE SweepComplete(s, r)
      BY <3>2, <1>t, <1>w DEF SweepComplete, TypeOK, Sweeper
    <3> QED
      BY <1>4, <3>1, <3>2
  <2> QED
    BY <1>3, <1>4, <2>1 DEF SweepActivate, SweepComplete
<1>5. ASSUME \/ SweepBegin(s)
             \/ SweepOpenSession(s)
             \/ SweepFindSession(s)
             \/ SweepCloseSession(s)
             \/ SweepListDone(s)
      PROVE  Listed' /\ NoDoubleBooking'
  <2>1. UNCHANGED res
    BY <1>5 DEF SweepBegin, SweepOpenSession, SweepFindSession, SweepCloseSession,
                SweepListDone
  <2>2. CASE SweepBegin(s) \/ SweepListDone(s)
    <3>1. sweeper'[s].todo = {}
      <4>1. CASE SweepBegin(s)
        BY <4>1, <1>t DEF SweepBegin, TypeOK, IdleSweeper
      <4>2. CASE SweepListDone(s)
        <5>1. /\ w.todo = {}
              /\ sweeper'[s] = IF w.phase = "activate"
                                 THEN [w EXCEPT !.pc = "list", !.phase = "complete"]
                                 ELSE IdleSweeper
          BY <4>2, <1>t DEF SweepListDone, TypeOK
        <5> QED
          BY <5>1, <1>w DEF Sweeper, IdleSweeper
      <4> QED
        BY <2>2, <4>1, <4>2
    <3> QED
      BY <1>1, <2>1, <3>1
  <2>3. CASE SweepOpenSession(s) \/ SweepFindSession(s) \/ SweepCloseSession(s)
    <3>1. sweeper'[s].todo = w.todo /\ sweeper'[s].phase = w.phase
      <4>1. CASE SweepOpenSession(s)
        BY <4>1, <1>t, <1>w DEF SweepOpenSession, TypeOK, Sweeper
      <4>2. CASE SweepFindSession(s)
        <5>1. PICK i : sweeper' = [sweeper EXCEPT ![s] = [w EXCEPT !.pc = "close", !.ses = i]]
          BY <4>2 DEF SweepFindSession
        <5> QED
          BY <5>1, <1>t, <1>w DEF TypeOK, Sweeper
      <4>3. CASE SweepCloseSession(s)
        <5>1. sweeper' = [sweeper EXCEPT ![s] =
                            [w EXCEPT !.pc = "row", !.cur = None, !.ses = 0]]
          BY <4>3 DEF SweepCloseSession
        <5> QED
          BY <5>1, <1>t, <1>w DEF TypeOK, Sweeper
      <4> QED
        BY <2>3, <4>1, <4>2, <4>3
    <3> QED
      BY <1>1, <2>1, <3>1
  <2> QED
    BY <1>5, <2>2, <2>3
<1>6. Listed' /\ NoDoubleBooking'
  BY <1>2, <1>4, <1>5 DEF SweepStep
<1> QED
  BY <1>p, <1>o, <1>k, <1>6 DEF SerialInv

\* Every step keeps the invariant of the serialized system.
LEMMA SerialStep ==
  ASSUME Serialized, SerialInv, [Next]_vars
  PROVE  SerialInv'
<1>t. TypeOK /\ OneAtATime /\ Checked /\ Decidable /\ Listed /\ NoDoubleBooking
  BY DEF SerialInv
<1>p. TypeOK'
  BY <1>t, TypeStep
<1>0. ASSUME UNCHANGED res,
             \A b \in Bookers : booker'[b] \in {booker[b], IdleBooker},
             \A d \in Deciders : decider'[d] \in {decider[d], IdleDecider},
             \A s \in Sweepers : sweeper'[s] \in {sweeper[s], IdleSweeper}
      PROVE  SerialInv'
  <2>1. OneAtATime'
    BY <1>t, <1>0 DEF OneAtATime, OnlyBusy
  <2>2. Checked'
    BY <1>t, <1>0 DEF Checked, CheckedBy, HasReservationConflict, Overlaps, IdleBooker
  <2>3. Decidable'
    BY <1>t, <1>0 DEF Decidable, IdleDecider
  <2>4. Listed'
    BY <1>t, <1>0 DEF Listed, IdleSweeper
  <2> QED
    BY <1>t, <1>p, <1>0, <2>1, <2>2, <2>3, <2>4, TableKept, ClaimsKept DEF SerialInv
<1>1. CASE RequestAbort
  BY <1>1, <1>0, <1>t DEF RequestAbort, TypeOK
<1>2. ASSUME NEW s \in Sweepers, SweepAbort(s) PROVE SerialInv'
  BY <1>2, <1>0, <1>t DEF SweepAbort, TypeOK, requests
<1>3. CASE Tick
  BY <1>3, <1>0 DEF Tick, requests
<1>4. CASE UNCHANGED vars
  BY <1>4, <1>0 DEF vars
<1> QED
  BY <1>1, <1>2, <1>3, <1>4, BookingSerial, DecisionSerial, SweepSerial DEF Next

\* The invariant holds initially.
LEMMA SerialInit == Init => SerialInv
<1> SUFFICES ASSUME Init PROVE SerialInv
  OBVIOUS
<1>1. TypeOK
  BY InitInv DEF Inv
<1> QED
  BY <1>1 DEF Init, SerialInv, OneAtATime, Checked, CheckedBy, Decidable, Listed,
              NoDoubleBooking, IdleBooker, IdleDecider, IdleSweeper, NoRow, HoldingStatuses

\* Requests and passes that run one at a time never let two reservations hold one
\* node at one moment, even if some of them die half-way.
THEOREM NoDoubleBookingCorrect ==
  ASSUME Serialized
  PROVE  Spec => []NoDoubleBooking
<1>1. Init => SerialInv
  BY SerialInit
<1>2. SerialInv /\ [Next]_vars => SerialInv'
  BY SerialStep
<1>3. SerialInv => NoDoubleBooking
  BY DEF SerialInv
<1> QED
  BY <1>1, <1>2, <1>3, PTL DEF Spec

-----------------------------------------------------------------------------
(* No pass dies half-way: each reservation's use is accounted for exactly. *)

\* One session, running.
InUse(r) == Len(sess[r]) = 1 /\ sess[r][1].status = "RUNNING"

Accounted(r) ==
  CASE res[r].status = "ACTIVE" -> InUse(r)
    [] res[r].status = "COMPLETED" -> Len(sess[r]) = 1 /\ sess[r][1].status = "COMPLETED"
    [] OTHER -> sess[r] = <<>>

\* What a pass has yet to write: it has changed the status of a reservation
\* whose use is still accounted for as before.
WritingOK(w) ==
  /\ w.pc = "open" => /\ w.phase = "activate"
                      /\ res[w.cur].status = "ACTIVE"
                      /\ sess[w.cur] = <<>>
  /\ w.pc \in {"find", "close"} =>
       /\ res[w.cur].status = "COMPLETED"
       /\ IF w.phase = "activate" THEN sess[w.cur] = <<>> ELSE InUse(w.cur)
  /\ w.pc = "close" => w.ses = IF w.phase = "activate" THEN 0 ELSE 1

Writing == \A s \in Sweepers : WritingOK(sweeper[s])

ExactInv == SerialInv /\ ExactAccounting /\ Writing

\* Where at most the pass s is in flight, before a step and after it, all but
\* the reservation it writes are accounted for.
LEMMA ExactByPass ==
  ASSUME NEW s \in Sweepers, OnlyBusy({}, {}, {s}), OnlyBusy({}, {}, {s})'
  PROVE  /\ ExactAccounting <=> \A r \in Rids : sweeper[s].cur # r => Accounted(r)
         /\ (\A r \in Rids : sweeper'[s].cur # r => Accounted(r)') => ExactAccounting'
         /\ Writing <=> WritingOK(sweeper[s])
         /\ WritingOK(sweeper[s])' => Writing'
<1>1. \A r \in Rids : Handled(r) <=> sweeper[s].cur = r
  BY ConstantsAssumption DEF Handled, OnlyBusy, IdleSweeper
<1>2. ExactAccounting <=> \A r \in Rids : sweeper[s].cur # r => Accounted(r)
  BY <1>1 DEF ExactAccounting, Accounted, InUse
<1>3. \A r \in Rids : Handled(r)' <=> sweeper'[s].cur = r
  BY ConstantsAssumption DEF Handled, OnlyBusy, IdleSweeper
<1>4. (\A r \in Rids : sweeper'[s].cur # r => Accounted(r)') => ExactAccounting'
  BY <1>3 DEF ExactAccounting, Accounted, InUse
<1>5. Writing <=> WritingOK(sweeper[s])
  BY DEF Writing, OnlyBusy, WritingOK, IdleSweeper
<1>6. WritingOK(sweeper[s])' => Writing'
  BY DEF Writing, OnlyBusy, WritingOK, IdleSweeper
<1> QED
  BY <1>2, <1>4, <1>5, <1>6

\* Where no pass is in flight, before a step and after it, all reservations are
\* accounted for.
LEMMA ExactWithoutPass ==
  ASSUME \A s \in Sweepers : sweeper[s] = IdleSweeper /\ sweeper'[s] = IdleSweeper
  PROVE  /\ ExactAccounting <=> \A r \in Rids : Accounted(r)
         /\ (\A r \in Rids : Accounted(r)') => ExactAccounting' /\ Writing'
<1>1. \A r \in Rids : ~Handled(r) /\ ~Handled(r)'
  BY ConstantsAssumption DEF Handled, IdleSweeper
<1>2. ExactAccounting <=> \A r \in Rids : Accounted(r)
  BY <1>1 DEF ExactAccounting, Accounted, InUse
<1>3. (\A r \in Rids : Accounted(r)') => ExactAccounting'
  BY <1>1 DEF ExactAccounting, Accounted, InUse
<1>4. Writing'
  BY DEF Writing, WritingOK, IdleSweeper
<1> QED
  BY <1>2, <1>3, <1>4

\* The only session of a reservation.
LEMMA OneSession ==
  ASSUME NEW x
  PROVE  Len(<<x>>) = 1 /\ <<x>>[1] = x /\ Append(<<>>, x) = <<x>>
OBVIOUS

\* A reservation not made yet, or just made, has no session.
LEMMA BookingExact ==
  ASSUME Serialized, ExactInv, NEW b \in Bookers, BookingStep(b)
  PROVE  ExactInv'
<1>t. SerialInv /\ TypeOK /\ OneAtATime /\ ExactAccounting
  BY DEF ExactInv, SerialInv
<1>i. SerialInv'
  BY <1>t, BookingSerial
<1>a. \A s \in Sweepers : sweeper[s] = IdleSweeper /\ sweeper'[s] = IdleSweeper
  BY <1>t, BookingAlone DEF OnlyBusy
<1>e. \A r \in Rids : Accounted(r)
  BY <1>t, <1>a, ExactWithoutPass
<1>1. UNCHANGED sess
  BY DEF BookingStep, BookNode, BookLab, CheckNode, CreateReservation, RefuseBooking
<1>2. \A r \in Rids : \/ res'[r] = res[r]
                      \/ /\ res[r].status = "NONE"
                         /\ res'[r].status = "PENDING"
  <2>1. \/ UNCHANGED res
        \/ \E n \in Nodes, r \in Rids : CreateReservation(b, n, r)
    BY DEF BookingStep, BookNode, BookLab, CheckNode, RefuseBooking
  <2>2. CASE \E n \in Nodes, r \in Rids : CreateReservation(b, n, r)
    <3>1. PICK n \in Nodes, r \in Rids : CreateReservation(b, n, r)
      BY <2>2
    <3>2. /\ res[r].status = "NONE" /\ res'[r].status = "PENDING"
          /\ \A q \in Rids : q # r => res'[q] = res[q]
      BY <1>t, <3>1 DEF CreateReservation, Exists, TypeOK
    <3> QED
      BY <3>2
  <2> QED
    BY <2>1, <2>2
<1>3. \A r \in Rids : Accounted(r)'
  BY <1>e, <1>1, <1>2 DEF Accounted, InUse
<1>4. ExactAccounting' /\ Writing'
  BY <1>a, <1>3, ExactWithoutPass
<1> QED
  BY <1>i, <1>4 DEF ExactInv

\* A reservation that can be decided about, or just was, has no session.
LEMMA DecisionExact ==
  ASSUME Serialized, ExactInv, NEW d \in Deciders, DecisionStep(d)
  PROVE  ExactInv'
<1>t. SerialInv /\ TypeOK /\ OneAtATime /\ Decidable /\ ExactAccounting
  BY DEF ExactInv, SerialInv
<1>i. SerialInv'
  BY <1>t, DecisionSerial
<1>a. \A s \in Sweepers : sweeper[s] = IdleSweeper /\ sweeper'[s] = IdleSweeper
  BY <1>t, DecisionAlone DEF OnlyBusy
<1>e. \A r \in Rids : Accounted(r)
  BY <1>t, <1>a, ExactWithoutPass
<1>1. UNCHANGED sess
  BY DEF DecisionStep, Approve, Reject, Cancel, ReadAndValidate, WriteDecision
<1>2. \A r \in Rids :
        \/ res'[r] = res[r]
        \/ /\ res[r].status \in CancellableStatuses
           /\ res'[r].status \in {"APPROVED", "REJECTED", "CANCELLED"}
  <2>1. ASSUME NEW r \in Rids, Approve(d, r) \/ Reject(d, r) \/ Cancel(d, r)
        PROVE  UNCHANGED res
    BY <2>1 DEF Approve, Reject, Cancel, ReadAndValidate
  <2>2. CASE WriteDecision(d)
    <3>1. /\ decider[d].to \in {"APPROVED", "REJECTED", "CANCELLED"}
          /\ res[decider[d].rid].status \in CancellableStatuses
      BY <1>t, <2>2 DEF WriteDecision, TypeOK, Decider, Decidable, AllowedFrom,
                        DecidableStatuses, CancellableStatuses
    <3> QED
      BY <1>t, <2>2, <3>1 DEF WriteDecision, TypeOK, Row
  <2> QED
    BY <2>1, <2>2 DEF DecisionStep
<1>3. \A r \in Rids : Accounted(r)'
  BY <1>e, <1>1, <1>2 DEF Accounted, InUse, CancellableStatuses
<1>4. ExactAccounting' /\ Writing'
  BY <1>a, <1>3, ExactWithoutPass
<1> QED
  BY <1>i, <1>4 DEF ExactInv

\* A pass writes the session of a reservation before it turns to the next one.
LEMMA SweepExact ==
  ASSUME Serialized, ExactInv, NEW s \in Sweepers, SweepStep(s)
  PROVE  ExactInv'
<1> DEFINE w == sweeper[s]
           Others == \A q \in Rids : sweeper'[s].cur # q => Accounted(q)'
<1>t. SerialInv /\ TypeOK /\ OneAtATime /\ Listed /\ ExactAccounting /\ Writing
  BY DEF ExactInv, SerialInv
<1>i. SerialInv' /\ TypeOK'
  BY <1>t, SweepSerial DEF SerialInv
<1>w. w \in Sweeper /\ AtRow(w)
  BY <1>t DEF TypeOK, AtRow
<1>a. OnlyBusy({}, {}, {s}) /\ OnlyBusy({}, {}, {s})'
  BY <1>t, SweepAlone
<1>e. (\A q \in Rids : w.cur # q => Accounted(q)) /\ WritingOK(w)
  BY <1>t, <1>a, ExactByPass
<1>g. ASSUME Others, WritingOK(sweeper[s])' PROVE ExactInv'
  BY <1>i, <1>a, <1>g, ExactByPass DEF ExactInv
<1>1. ASSUME UNCHANGED <<res, sess>>, w.cur = None,
             sweeper'[s].cur = None, sweeper'[s].pc \notin {"open", "find", "close"}
      PROVE  ExactInv'
  <2>1. Others
    BY <1>e, <1>1, ConstantsAssumption DEF Accounted, InUse
  <2> QED
    BY <1>g, <1>1, <2>1 DEF WritingOK
<1>2. CASE SweepBegin(s)
  BY <1>1, <1>2, <1>t DEF SweepBegin, TypeOK, IdleSweeper
<1>3. CASE SweepList(s)
  <2>1. /\ sweeper'[s].pc = "row" /\ sweeper'[s].cur = w.cur
        /\ UNCHANGED <<res, sess>> /\ w.pc = "list"
    BY <1>3, <1>t, <1>w DEF SweepList, TypeOK, Sweeper
  <2> QED
    BY <1>1, <1>w, <2>1 DEF AtRow
<1>4. ASSUME NEW r \in Rids, SweepActivate(s, r) PROVE ExactInv'
  <2>1. /\ r \in w.todo /\ w.phase = "activate" /\ w.pc = "row"
        /\ res' = [res EXCEPT ![r].status = "ACTIVE"] /\ UNCHANGED sess
    BY <1>4 DEF SweepActivate
  <2>2. /\ sweeper'[s].pc = "open" /\ sweeper'[s].cur = r
        /\ sweeper'[s].phase = "activate"
    BY <1>4, <1>t, <1>w DEF SweepActivate, TypeOK, Sweeper
  <2>3. /\ res'[r].status = "ACTIVE" /\ res[r].status = "APPROVED"
        /\ \A q \in Rids : q # r => res'[q] = res[q]
    BY <1>t, <2>1 DEF TypeOK, Row, Listed
  <2>4. (\A q \in Rids : Accounted(q)) /\ sess[r] = <<>>
    BY <1>e, <1>w, <2>1, <2>3, ConstantsAssumption DEF AtRow, Accounted
  <2>5. Others
    BY <2>1, <2>2, <2>3, <2>4 DEF Accounted, InUse
  <2> QED
    BY <1>g, <2>1, <2>2, <2>3, <2>4, <2>5 DEF WritingOK
<1>5. ASSUME NEW r \in Rids, SweepComplete(s, r) PROVE ExactInv'
  <2>1. /\ r \in w.todo /\ w.pc = "row"
        /\ res' = [res EXCEPT ![r].status = "COMPLETED"] /\ UNCHANGED sess
    BY <1>5 DEF SweepComplete
  <2>2. /\ sweeper'[s].pc = "find" /\ sweeper'[s].cur = r
        /\ sweeper'[s].phase = w.phase
    BY <1>5, <1>t, <1>w DEF SweepComplete, TypeOK, Sweeper
  <2>3. /\ res'[r].status = "COMPLETED"
        /\ res[r].status = IF w.phase = "activate" THEN "APPROVED" ELSE "ACTIVE"
        /\ \A q \in Rids : q # r => res'[q] = res[q]
    BY <1>t, <2>1 DEF TypeOK, Row, Listed
  <2>4. /\ \A q \in Rids : Accounted(q)
        /\ IF w.phase = "activate" THEN sess[r] = <<>> ELSE InUse(r)
    BY <1>e, <1>w, <2>1, <2>3, ConstantsAssumption DEF AtRow, Accounted
  <2>5. Others
    BY <2>1, <2>2, <2>3, <2>4 DEF Accounted, InUse
  <2> QED
    BY <1>g, <2>1, <2>2, <2>3, <2>4, <2>5 DEF WritingOK, InUse
<1>6. CASE SweepOpenSession(s)
  <2>1. PICK r \in Rids : r = w.cur
    BY <1>6, <1>w DEF SweepOpenSession, AtRow, Sweeper
  <2> DEFINE x == OpenSession(w.now)
  <2>2. w.pc = "open" /\ sess' = [sess EXCEPT ![r] = Append(@, x)] /\ UNCHANGED res
    BY <1>6, <2>1 DEF SweepOpenSession
  <2>3. sweeper'[s].pc = "row" /\ sweeper'[s].cur = None
    BY <1>6, <1>t, <1>w DEF SweepOpenSession, TypeOK, Sweeper
  <2>4. x.status = "RUNNING"
    BY DEF OpenSession
  <2>5. sess[r] = <<>> /\ res'[r].status = "ACTIVE"
    BY <1>e, <2>1, <2>2 DEF WritingOK
  <2> HIDE DEF x
  <2>6. sess'[r] = <<x>> /\ \A q \in Rids : q # r => sess'[q] = sess[q]
    BY <1>t, <2>2, <2>5, OneSession DEF TypeOK
  <2>7. Others
    <3>1. Accounted(r)'
      BY <2>4, <2>5, <2>6, OneSession DEF Accounted, InUse
    <3>2. ASSUME NEW q \in Rids, q # r PROVE Accounted(q)'
      <4>1. Accounted(q) /\ res'[q] = res[q] /\ sess'[q] = sess[q]
        BY <1>e, <2>1, <2>2, <2>6, <3>2
      <4> QED
        BY <4>1 DEF Accounted, InUse
    <3> QED
      BY <3>1, <3>2
  <2> QED
    BY <1>g, <2>3, <2>7 DEF WritingOK
<1>7. CASE SweepFindSession(s)
  <2>1. w.pc = "find" /\ w.cur \in Rids /\ UNCHANGED <<res, sess>>
    BY <1>7, <1>w DEF SweepFindSession, AtRow, Sweeper
  <2>2. LatestRunning(w.cur) = IF w.phase = "activate" THEN {} ELSE {1}
    <3>1. sess[w.cur] \in Seq(Session)
      BY <1>t, <2>1 DEF TypeOK
    <3>2. CASE w.phase = "activate"
      BY <1>e, <2>1, <3>2 DEF WritingOK, LatestRunning
    <3>3. CASE w.phase # "activate"
      <4>1. DOMAIN sess[w.cur] = {1} /\ sess[w.cur][1].status = "RUNNING"
        BY <1>e, <2>1, <3>1, <3>3 DEF WritingOK, InUse
      <4>2. sess[w.cur][1].startedAt \in Nat
        <5>1. sess[w.cur][1] \in Session
          BY <3>1, <4>1
        <5> QED
          BY <5>1 DEF Session
      <4> QED
        BY <3>3, <4>1, <4>2 DEF LatestRunning
    <3> QED
      BY <3>2, <3>3
  <2>3. PICK i : /\ sweeper' = [sweeper EXCEPT ![s] = [w EXCEPT !.pc = "close", !.ses = i]]
                 /\ i = IF w.phase = "activate" THEN 0 ELSE 1
    BY <1>7, <2>2 DEF SweepFindSession
  <2>4. /\ sweeper'[s].pc = "close" /\ sweeper'[s].cur = w.cur
        /\ sweeper'[s].phase = w.phase /\ sweeper'[s].ses = i
    BY <1>t, <1>w, <2>3 DEF TypeOK, Sweeper
  <2>5. Others
    BY <1>e, <2>1, <2>4 DEF Accounted, InUse
  <2> QED
    BY <1>e, <1>g, <2>1, <2>3, <2>4, <2>5 DEF WritingOK, InUse
<1>8. CASE SweepCloseSession(s)
  <2>0. PICK r \in Rids : r = w.cur
    BY <1>8, <1>w DEF SweepCloseSession, AtRow, Sweeper
  <2>1. w.pc = "close" /\ r \in Rids /\ r = w.cur /\ UNCHANGED res
    BY <1>8, <2>0 DEF SweepCloseSession
  <2>2. sweeper'[s].pc = "row" /\ sweeper'[s].cur = None
    <3>1. sweeper' = [sweeper EXCEPT ![s] = [w EXCEPT !.pc = "row", !.cur = None, !.ses = 0]]
      BY <1>8 DEF SweepCloseSession
    <3> QED
      BY <1>t, <1>w, <3>1 DEF TypeOK, Sweeper
  <2>3. \E x : sess'[r] = <<x>> /\ x.status = "COMPLETED"
    <3>1. CASE w.phase = "activate"
      <4>1. w.ses = 0 /\ sess[r] = <<>>
        BY <1>e, <2>1, <3>1 DEF WritingOK
      <4> DEFINE x == ClosedSession(res[r].start, res[r].end)
      <4>2. sess' = [sess EXCEPT ![r] = Append(@, x)]
        BY <1>8, <2>1, <4>1 DEF SweepCloseSession
      <4>3. sess'[r] = <<x>>
        BY <1>t, <2>1, <4>1, <4>2 DEF TypeOK
      <4> QED
        BY <4>3 DEF ClosedSession
    <3>2. CASE w.phase # "activate"
      <4>1. w.ses = 1 /\ Len(sess[r]) = 1 /\ sess[r] \in Seq(Session)
        BY <1>e, <1>t, <2>1, <3>2 DEF WritingOK, InUse, TypeOK
      <4> DEFINE x == ClosedSession(sess[r][1].startedAt, res[r].end)
      <4>2. sess' = [sess EXCEPT ![r] = [@ EXCEPT ![1] = x]]
        BY <1>8, <2>1, <4>1 DEF SweepCloseSession
      <4>3. sess'[r] = [sess[r] EXCEPT ![1] = x]
        BY <1>t, <2>1, <4>2 DEF TypeOK
      <4>4. sess'[r] = <<x>>
        BY <4>1, <4>3
      <4> QED
        BY <4>4 DEF ClosedSession
    <3> QED
      BY <3>1, <3>2
  <2>4. \A q \in Rids : q # r => sess'[q] = sess[q]
    BY <1>8, <1>t, <2>1 DEF SweepCloseSession, TypeOK
  <2>5. Others
    <3>1. Accounted(r)'
      <4>1. PICK x : sess'[r] = <<x>> /\ x.status = "COMPLETED"
        BY <2>3
      <4>2. res'[r].status = "COMPLETED"
        BY <1>e, <2>1 DEF WritingOK
      <4> QED
        BY <4>1, <4>2, OneSession DEF Accounted
    <3>2. ASSUME NEW q \in Rids, q # r PROVE Accounted(q)'
      <4>1. Accounted(q) /\ res'[q] = res[q] /\ sess'[q] = sess[q]
        BY <1>e, <2>1, <2>4, <3>2
      <4> QED
        BY <4>1 DEF Accounted, InUse
    <3> QED
      BY <3>1, <3>2
  <2> QED
    BY <1>g, <2>2, <2>5 DEF WritingOK
<1>9. CASE SweepListDone(s)
  <2>1. /\ w.pc = "row" /\ UNCHANGED <<res, sess>>
        /\ sweeper'[s] = IF w.phase = "activate"
                           THEN [w EXCEPT !.pc = "list", !.phase = "complete"]
                           ELSE IdleSweeper
    BY <1>9, <1>t DEF SweepListDone, TypeOK
  <2>2. /\ w.cur = None
        /\ sweeper'[s].cur = None /\ sweeper'[s].pc \notin {"open", "find", "close"}
    BY <1>w, <2>1 DEF AtRow, Sweeper, IdleSweeper
  <2> QED
    BY <1>1, <2>1, <2>2
<1> QED
  BY <1>2, <1>3, <1>4, <1>5, <1>6, <1>7, <1>8, <1>9 DEF SweepStep

\* Every step of the serialized system in which no pass dies keeps the accounts.
LEMMA ExactStep ==
  ASSUME Serialized, MaxAborts = 0, ExactInv, [Next]_vars
  PROVE  ExactInv'
<1>t. SerialInv /\ TypeOK /\ ExactAccounting /\ Writing
  BY DEF ExactInv, SerialInv
<1>i. SerialInv'
  BY <1>t, SerialStep
<1>1. ASSUME UNCHANGED <<res, sess, sweeper>> PROVE ExactInv'
  <2>1. ExactAccounting'
    BY <1>t, <1>1 DEF ExactAccounting, Handled
  <2>2. Writing'
    BY <1>t, <1>1 DEF Writing, WritingOK, InUse
  <2> QED
    BY <1>i, <2>1, <2>2 DEF ExactInv
<1>2. CASE RequestAbort
  BY <1>1, <1>2 DEF RequestAbort
<1>3. CASE Tick
  BY <1>1, <1>3 DEF Tick
<1>4. CASE UNCHANGED vars
  BY <1>1, <1>4 DEF vars
<1>5. ASSUME NEW s \in Sweepers, SweepAbort(s) PROVE FALSE
  BY <1>5, <1>t DEF SweepAbort, TypeOK
<1> QED
  BY <1>2, <1>3, <1>4, <1>5, BookingExact, DecisionExact, SweepExact DEF Next

\* Nothing is accounted for initially.
LEMMA ExactInit == Init => ExactInv
<1> SUFFICES ASSUME Init PROVE ExactInv
  OBVIOUS
<1>1. \A s \in Sweepers : sweeper[s] = IdleSweeper
  BY DEF Init
<1>2. \A r \in Rids : Accounted(r)
  BY DEF Init, Accounted, NoRow
<1> QED
  BY <1>1, <1>2, SerialInit
     DEF ExactInv, ExactAccounting, Accounted, InUse, Writing, WritingOK, IdleSweeper

\* Requests and passes that run one at a time, no pass dying half-way, account
\* for every reservation's use by exactly one session.
THEOREM ExactAccountingCorrect ==
  ASSUME Serialized, MaxAborts = 0
  PROVE  Spec => []ExactAccounting
<1>1. Init => ExactInv
  BY ExactInit
<1>2. ExactInv /\ [Next]_vars => ExactInv'
  BY ExactStep
<1>3. ExactInv => ExactAccounting
  BY DEF ExactInv
<1> QED
  BY <1>1, <1>2, <1>3, PTL DEF Spec

-----------------------------------------------------------------------------
(* The lifecycle *)

\* The clock and the windows asked for stay within the bound on time, and the
\* rows of reservations not made yet are blank.
BoundInv ==
  /\ clock \in 0..MaxTime
  /\ \A b \in Bookers : booker[b].start \in 0..MaxTime /\ booker[b].end \in 0..MaxTime
  /\ \A r \in Rids : ~Exists(r) => res[r] = NoRow

\* The bounds hold initially.
LEMMA BoundInit == Init => BoundInv
BY ConstantsAssumption DEF Init, BoundInv, IdleBooker

\* Every step keeps the bounds.
LEMMA BoundStep ==
  ASSUME Inv, BoundInv, [Next]_vars
  PROVE  BoundInv'
<1>t. TypeOK /\ MaxTime \in Nat
  BY ConstantsAssumption DEF Inv
<1>s. UNCHANGED clock \/ Tick
  BY DEF Next, vars, BookingStep, BookNode, BookLab, CheckNode, CreateReservation,
         RefuseBooking, DecisionStep, Approve, Reject, Cancel, ReadAndValidate,
         WriteDecision, RequestAbort, SweepStep, SweepBegin, SweepList, SweepActivate,
         SweepComplete, SweepOpenSession, SweepFindSession, SweepCloseSession,
         SweepListDone, SweepAbort
<1>1. clock' \in 0..MaxTime
  BY <1>t, <1>s DEF BoundInv, Tick
<1>0. ASSUME \A r \in Rids : \/ res'[r] = res[r]
                             \/ Exists(r) /\ res'[r].status = res[r].status
                             \/ res'[r].status \in Statuses,
             \A b \in Bookers : \/ booker'[b] = booker[b]
                                \/ booker'[b] = IdleBooker
                                \/ /\ booker'[b].start \in 0..MaxTime
                                   /\ booker'[b].end \in 0..MaxTime
      PROVE  BoundInv'
  BY <1>0, <1>1, <1>t DEF BoundInv, Exists, Statuses, IdleBooker
<1>2. ASSUME NEW b \in Bookers, BookingStep(b) PROVE BoundInv'
  <2>1. \A c \in Bookers \ {b} : booker'[c] = booker[c]
    BY <1>2, <1>t DEF BookingStep, BookNode, BookLab, StartBooking, CheckNode,
                      CreateReservation, RefuseBooking, TypeOK
  <2>2. ASSUME NEW start \in 0..MaxTime, NEW end \in 0..MaxTime, NEW candidates,
               StartBooking(b, start, end, candidates)
        PROVE  booker'[b].start \in 0..MaxTime /\ booker'[b].end \in 0..MaxTime
    BY <2>2, <1>t DEF StartBooking, TypeOK
  <2>3. ASSUME NEW n \in Nodes, NEW online \in BOOLEAN, CheckNode(b, n, online)
        PROVE  booker'[b].start = booker[b].start /\ booker'[b].end = booker[b].end
    <3>1. booker[b] \in Booker
      BY <1>t DEF TypeOK
    <3> QED
      BY <2>3, <3>1, <1>t DEF CheckNode, TypeOK, Booker
  <2>4. ASSUME NEW n \in Nodes, NEW r \in Rids, CreateReservation(b, n, r)
        PROVE  BoundInv'
    BY <2>4, <1>0, <1>t DEF CreateReservation, TypeOK, Statuses
  <2>5. CASE RefuseBooking(b)
    BY <2>5, <1>0, <1>t DEF RefuseBooking, TypeOK
  <2>6. ASSUME NEW start \in 0..MaxTime, NEW end \in 0..MaxTime, NEW n \in Nodes,
               BookNode(b, n, start, end)
        PROVE  BoundInv'
    BY <2>1, <2>2, <2>6, <1>0 DEF BookNode
  <2>7. ASSUME NEW start \in 0..MaxTime, NEW end \in 0..MaxTime, NEW lab \in Labs,
               NEW demand \in Demands, BookLab(b, lab, demand, start, end)
        PROVE  BoundInv'
    BY <2>1, <2>2, <2>7, <1>0 DEF BookLab
  <2>8. ASSUME NEW n \in Nodes, NEW online \in BOOLEAN, CheckNode(b, n, online)
        PROVE  BoundInv'
    <3>1. UNCHANGED res
      BY <2>8 DEF CheckNode
    <3>2. booker'[b].start \in 0..MaxTime /\ booker'[b].end \in 0..MaxTime
      BY <2>3, <2>8 DEF BoundInv
    <3> QED
      BY <2>1, <3>1, <3>2, <1>0
  <2> QED
    BY <1>2, <2>4, <2>5, <2>6, <2>7, <2>8 DEF BookingStep
<1>3. ASSUME NEW d \in Deciders, DecisionStep(d) PROVE BoundInv'
  <2>1. UNCHANGED booker
    BY <1>3 DEF DecisionStep, Approve, Reject, Cancel, ReadAndValidate, WriteDecision
  <2>2. ASSUME NEW r \in Rids, Approve(d, r) \/ Reject(d, r) \/ Cancel(d, r)
        PROVE  UNCHANGED res
    BY <2>2 DEF Approve, Reject, Cancel, ReadAndValidate
  <2>3. CASE WriteDecision(d)
    <3>1. decider[d].to \in Statuses
      BY <2>3, <1>t DEF WriteDecision, TypeOK, Decider, Statuses
    <3>2. \A r \in Rids : res'[r] = res[r] \/ res'[r].status \in Statuses
      BY <2>3, <3>1, <1>t DEF WriteDecision, TypeOK, Row
    <3> QED
      BY <2>1, <3>2, <1>0
  <2> QED
    BY <1>0, <1>3, <2>1, <2>2, <2>3 DEF DecisionStep
<1>4. ASSUME NEW s \in Sweepers, SweepStep(s) PROVE BoundInv'
  <2>1. UNCHANGED booker
    BY <1>4 DEF SweepStep, SweepBegin, SweepList, SweepActivate, SweepComplete,
                SweepOpenSession, SweepFindSession, SweepCloseSession, SweepListDone, requests
  <2>2. \/ UNCHANGED res
        \/ \E r \in Rids : SweepActivate(s, r) \/ SweepComplete(s, r)
    BY <1>4 DEF SweepStep, SweepBegin, SweepList, SweepOpenSession, SweepFindSession,
                SweepCloseSession, SweepListDone
  <2>3. ASSUME NEW r \in Rids, SweepActivate(s, r) \/ SweepComplete(s, r)
        PROVE  \A q \in Rids : res'[q] = res[q] \/ res'[q].status \in Statuses
    BY <2>3, <1>t DEF SweepActivate, SweepComplete, TypeOK, Row, Statuses
  <2> QED
    BY <1>0, <2>1, <2>2, <2>3
<1>5. CASE RequestAbort
  BY <1>0, <1>5, <1>t DEF RequestAbort, TypeOK
<1>6. ASSUME NEW s \in Sweepers, SweepAbort(s) PROVE BoundInv'
  BY <1>0, <1>6 DEF SweepAbort, requests
<1>7. CASE Tick
  BY <1>0, <1>7 DEF Tick, requests
<1>8. CASE UNCHANGED vars
  BY <1>0, <1>8 DEF vars
<1> QED
  BY <1>2, <1>3, <1>4, <1>5, <1>6, <1>7, <1>8 DEF Next

-----------------------------------------------------------------------------
(* What a step looks like from outside *)

\* A step of the lifecycle, or none.
LifecycleStep == [Lifecycle!Next]_(Lifecycle!vars)

\* A step that changes nothing that is seen from outside is a stutter.
LEMMA Unseen ==
  ASSUME UNCHANGED <<clock, SeenFromOutside, sess>>
  PROVE  LifecycleStep
BY DEF LifecycleStep, Lifecycle!vars

\* The status a reservation has, seen from outside, while the pass w writes it.
PassShows(w) == IF w.phase = "activate" THEN "APPROVED" ELSE "ACTIVE"

\* Where at most the pass s is in flight, all reservations but the one it writes
\* are seen as they are.
LEMMA SeenByPass ==
  ASSUME TypeOK, TypeOK', NEW s \in Sweepers,
         OnlyBusy({}, {}, {s}), OnlyBusy({}, {}, {s})'
  PROVE  /\ SeenFromOutside =
              [r \in Rids |-> IF sweeper[s].cur = r
                                THEN [res[r] EXCEPT !.status = PassShows(sweeper[s])]
                                ELSE res[r]]
         /\ SeenFromOutside' =
              [r \in Rids |-> IF sweeper'[s].cur = r
                                THEN [res'[r] EXCEPT !.status = PassShows(sweeper'[s])]
                                ELSE res'[r]]
<1>1. \A r \in Rids : Handled(r) <=> sweeper[s].cur = r
  BY ConstantsAssumption DEF Handled, OnlyBusy, IdleSweeper
<1>2. \A r \in Rids : sweeper[s].cur = r => StatusBefore(r) = PassShows(sweeper[s])
  BY ConstantsAssumption DEF StatusBefore, PassShows, OnlyBusy, IdleSweeper
<1>3. \A r \in Rids : Handled(r)' <=> sweeper'[s].cur = r
  BY ConstantsAssumption DEF Handled, OnlyBusy, IdleSweeper
<1>4. \A r \in Rids : sweeper'[s].cur = r => StatusBefore(r)' = PassShows(sweeper'[s])
  BY ConstantsAssumption DEF StatusBefore, PassShows, OnlyBusy, IdleSweeper
<1>5. SeenFromOutside =
        [r \in Rids |-> IF sweeper[s].cur = r
                          THEN [res[r] EXCEPT !.status = PassShows(sweeper[s])] ELSE res[r]]
  BY <1>1, <1>2 DEF SeenFromOutside
<1>6. SeenFromOutside' =
        [r \in Rids |-> IF sweeper'[s].cur = r
                          THEN [res'[r] EXCEPT !.status = PassShows(sweeper'[s])] ELSE res'[r]]
  BY <1>3, <1>4 DEF SeenFromOutside
<1> QED
  BY <1>5, <1>6

\* Where no pass is in flight, all reservations are seen as they are.
LEMMA SeenWithoutPass ==
  ASSUME TypeOK, TypeOK',
         \A s \in Sweepers : sweeper[s] = IdleSweeper /\ sweeper'[s] = IdleSweeper
  PROVE  SeenFromOutside = res /\ SeenFromOutside' = res'
<1>1. \A r \in Rids : ~Handled(r) /\ ~Handled(r)'
  BY ConstantsAssumption DEF Handled, IdleSweeper
<1>2. SeenFromOutside = [r \in Rids |-> res[r]]
  BY <1>1 DEF SeenFromOutside
<1>3. SeenFromOutside' = [r \in Rids |-> res'[r]]
  BY <1>1 DEF SeenFromOutside
<1> QED
  BY <1>2, <1>3 DEF TypeOK

\* Everything known of the serialized system in which no pass dies.
FullInv == Inv /\ ExactInv /\ BoundInv

\* The windows a booking has found free are free in the lifecycle.
LEMMA FreeWhereChecked ==
  ASSUME TypeOK, SeenFromOutside = res, NEW n, NEW start, NEW end,
         ~HasReservationConflict(n, start, end), ~HasMaintenanceConflict(n, start, end)
  PROVE  Lifecycle!Free([status |-> "PENDING", node |-> n, start |-> start, end |-> end])
BY DEF Lifecycle!Free, Lifecycle!Meet, Lifecycle!Claims, HasReservationConflict,
       HasMaintenanceConflict, Overlaps, HoldingStatuses

\* A booking is seen when it creates its reservation.
LEMMA BookingRefines ==
  ASSUME Serialized, FullInv, NEW b \in Bookers, BookingStep(b)
  PROVE  LifecycleStep
<1>t. TypeOK /\ OneAtATime /\ Checked /\ BookerInv /\ BoundInv
  BY DEF FullInv, Inv, ExactInv, SerialInv
<1>p. TypeOK'
  BY <1>t, BookingTypes
<1>a. \A s \in Sweepers : sweeper[s] = IdleSweeper /\ sweeper'[s] = IdleSweeper
  BY <1>t, BookingAlone DEF OnlyBusy
<1>m. SeenFromOutside = res /\ SeenFromOutside' = res'
  BY <1>t, <1>p, <1>a, SeenWithoutPass
<1>1. UNCHANGED <<clock, sess>>
  BY DEF BookingStep, BookNode, BookLab, CheckNode, CreateReservation, RefuseBooking
<1>2. \/ UNCHANGED res
      \/ \E n \in Nodes, r \in Rids : CreateReservation(b, n, r)
  BY DEF BookingStep, BookNode, BookLab, CheckNode, RefuseBooking
<1>3. ASSUME NEW n \in Nodes, NEW r \in Rids, CreateReservation(b, n, r)
      PROVE  LifecycleStep
  <2> DEFINE w == booker[b]
             row == [status |-> "PENDING", node |-> n, start |-> w.start, end |-> w.end]
  <2>1. w.busy /\ n \in w.eligible /\ res[r] = NoRow /\ res' = [res EXCEPT ![r] = row]
    BY <1>3, <1>t DEF CreateReservation, BestFit, BoundInv
  <2>2. w.start \in 0..MaxTime /\ w.end \in 0..MaxTime
    BY <1>t DEF BoundInv
  <2>3. /\ w.start < w.end
        /\ ~HasReservationConflict(n, w.start, w.end)
        /\ ~HasMaintenanceConflict(n, w.start, w.end)
    BY <1>t, <2>1 DEF Checked, CheckedBy, BookerInv, BookerOK
  <2>4. Lifecycle!Free(row)
    BY <1>t, <1>m, <2>3, FreeWhereChecked
  <2>5. Lifecycle!Book(r, n, w.start, w.end)
    BY <1>m, <1>1, <2>1, <2>3, <2>4 DEF Lifecycle!Book, Lifecycle!NoBooking, NoRow
  <2> QED
    BY <2>2, <2>5 DEF LifecycleStep, Lifecycle!Next
<1> QED
  BY <1>m, <1>1, <1>2, <1>3, Unseen

\* A decision is seen when it writes.
LEMMA DecisionRefines ==
  ASSUME Serialized, FullInv, NEW d \in Deciders, DecisionStep(d)
  PROVE  LifecycleStep
<1>t. TypeOK /\ OneAtATime /\ Decidable
  BY DEF FullInv, Inv, ExactInv, SerialInv
<1>p. TypeOK'
  BY <1>t, DecisionTypes
<1>a. \A s \in Sweepers : sweeper[s] = IdleSweeper /\ sweeper'[s] = IdleSweeper
  BY <1>t, DecisionAlone DEF OnlyBusy
<1>m. SeenFromOutside = res /\ SeenFromOutside' = res'
  BY <1>t, <1>p, <1>a, SeenWithoutPass
<1>1. UNCHANGED <<clock, sess>>
  BY DEF DecisionStep, Approve, Reject, Cancel, ReadAndValidate, WriteDecision
<1>2. ASSUME NEW r \in Rids, Approve(d, r) \/ Reject(d, r) \/ Cancel(d, r)
      PROVE  LifecycleStep
  <2>1. UNCHANGED res
    BY <1>2 DEF Approve, Reject, Cancel, ReadAndValidate
  <2> QED
    BY <1>m, <1>1, <2>1, Unseen
<1>3. CASE WriteDecision(d)
  <2>1. PICK r \in Rids : r = decider[d].rid
    BY <1>3, <1>t DEF WriteDecision, TypeOK, Decider
  <2>2. PICK to \in {"APPROVED", "REJECTED", "CANCELLED"} : to = decider[d].to
    BY <1>3, <1>t DEF WriteDecision, TypeOK, Decider
  <2>3. res' = [res EXCEPT ![r].status = to] /\ res[r].status \in AllowedFrom(to)
    BY <1>3, <1>t, <2>1, <2>2 DEF WriteDecision, Decidable
  <2>4. \A from : res[r].status = from => Lifecycle!Decide(r, from, to)
    BY <1>m, <1>1, <2>3 DEF Lifecycle!Decide
  <2>5. Lifecycle!Approve(r) \/ Lifecycle!Reject(r) \/ Lifecycle!Cancel(r)
    BY <2>2, <2>3, <2>4 DEF Lifecycle!Approve, Lifecycle!Reject, Lifecycle!Cancel,
                            AllowedFrom, DecidableStatuses, CancellableStatuses
  <2> QED
    BY <2>5 DEF LifecycleStep, Lifecycle!Next
<1> QED
  BY <1>2, <1>3 DEF DecisionStep

\* A pass is seen when it has written a reservation's session.
LEMMA SweepRefines ==
  ASSUME Serialized, FullInv, NEW s \in Sweepers, SweepStep(s)
  PROVE  LifecycleStep
<1> DEFINE w == sweeper[s]
           Shown(v, tab) == [q \in Rids |-> IF v.cur = q
                                              THEN [tab[q] EXCEPT !.status = PassShows(v)]
                                              ELSE tab[q]]
<1>t. TypeOK /\ OneAtATime /\ Listed /\ Writing /\ SweeperInv /\ BoundInv /\ StatusInv
  BY DEF FullInv, Inv, ExactInv, SerialInv
<1>p. TypeOK'
  BY <1>t, SweepTypes
<1>w. w \in Sweeper /\ AtRow(w) /\ WritingOK(w) /\ SweeperOK(w)
  BY <1>t DEF TypeOK, AtRow, Writing, SweeperInv
<1>a. OnlyBusy({}, {}, {s}) /\ OnlyBusy({}, {}, {s})'
  BY <1>t, SweepAlone
<1>m. SeenFromOutside = Shown(w, res) /\ SeenFromOutside' = Shown(sweeper'[s], res')
  BY <1>t, <1>p, <1>a, SeenByPass
<1>c. UNCHANGED clock
  BY DEF SweepStep, SweepBegin, SweepList, SweepActivate, SweepComplete, SweepOpenSession,
         SweepFindSession, SweepCloseSession, SweepListDone
<1>1. ASSUME UNCHANGED <<res, sess>>, sweeper'[s].cur = w.cur,
             w.cur = None \/ sweeper'[s].phase = w.phase
      PROVE  LifecycleStep
  <2>1. Shown(w, res) = Shown(sweeper'[s], res')
    BY <1>1, ConstantsAssumption DEF PassShows
  <2> QED
    BY <1>1, <1>c, <1>m, <2>1, Unseen
<1>2. CASE SweepBegin(s)
  BY <1>1, <1>2, <1>t DEF SweepBegin, TypeOK, IdleSweeper
<1>3. CASE SweepList(s)
  <2>1. /\ sweeper'[s].cur = w.cur /\ sweeper'[s].phase = w.phase
        /\ UNCHANGED <<res, sess>>
    BY <1>3, <1>t, <1>w DEF SweepList, TypeOK, Sweeper
  <2> QED
    BY <1>1, <2>1
<1>4. ASSUME NEW r \in Rids, NEW st \in {"ACTIVE", "COMPLETED"},
             r \in w.todo, w.pc = "row", UNCHANGED sess,
             res' = [res EXCEPT ![r].status = st],
             sweeper'[s].cur = r, sweeper'[s].phase = w.phase
      PROVE  LifecycleStep
  <2>1. w.cur = None /\ res[r].status = PassShows(w)
    BY <1>4, <1>t, <1>w DEF AtRow, Listed, PassShows
  <2>2. [res'[r] EXCEPT !.status = PassShows(w)] = res[r]
    BY <1>4, <1>t, <2>1 DEF TypeOK, Row
  <2>3. \A q \in Rids : q # r => res'[q] = res[q]
    BY <1>4, <1>t DEF TypeOK
  <2>4. PassShows(sweeper'[s]) = PassShows(w)
    BY <1>4 DEF PassShows
  <2>5. Shown(w, res) = Shown(sweeper'[s], res')
    BY <1>4, <2>1, <2>2, <2>3, <2>4, ConstantsAssumption
  <2> QED
    BY <1>4, <1>c, <1>m, <2>5, Unseen
<1>5. ASSUME NEW r \in Rids, SweepActivate(s, r) PROVE LifecycleStep
  <2>1. sweeper'[s].cur = r /\ sweeper'[s].phase = w.phase
    BY <1>5, <1>t, <1>w DEF SweepActivate, TypeOK, Sweeper
  <2> QED
    BY <1>4, <1>5, <2>1 DEF SweepActivate
<1>6. ASSUME NEW r \in Rids, SweepComplete(s, r) PROVE LifecycleStep
  <2>1. sweeper'[s].cur = r /\ sweeper'[s].phase = w.phase
    BY <1>6, <1>t, <1>w DEF SweepComplete, TypeOK, Sweeper
  <2> QED
    BY <1>4, <1>6, <2>1 DEF SweepComplete
<1>7. CASE SweepFindSession(s)
  <2>1. PICK i : sweeper' = [sweeper EXCEPT ![s] = [w EXCEPT !.pc = "close", !.ses = i]]
    BY <1>7 DEF SweepFindSession
  <2>2. sweeper'[s].cur = w.cur /\ sweeper'[s].phase = w.phase
    BY <1>t, <1>w, <2>1 DEF TypeOK, Sweeper
  <2> QED
    BY <1>1, <1>7, <2>2 DEF SweepFindSession
<1>8. CASE SweepListDone(s)
  <2>1. /\ w.pc = "row" /\ UNCHANGED <<res, sess>>
        /\ sweeper'[s] = IF w.phase = "activate"
                           THEN [w EXCEPT !.pc = "list", !.phase = "complete"]
                           ELSE IdleSweeper
    BY <1>8, <1>t DEF SweepListDone, TypeOK
  <2>2. w.cur = None /\ sweeper'[s].cur = None
    BY <1>w, <2>1 DEF AtRow, Sweeper, IdleSweeper
  <2> QED
    BY <1>1, <2>1, <2>2
<1>9. ASSUME NEW r \in Rids, r = w.cur, UNCHANGED res, sweeper'[s].cur = None,
             NEW st \in {"ACTIVE", "COMPLETED"}, res[r].status = st
      PROVE  /\ SeenFromOutside[r] = [res[r] EXCEPT !.status = PassShows(w)]
             /\ SeenFromOutside[r].start = res[r].start
             /\ SeenFromOutside[r].end = res[r].end
             /\ SeenFromOutside[r].status = PassShows(w)
             /\ SeenFromOutside' = [SeenFromOutside EXCEPT ![r].status = st]
  <2>1. res[r] \in Row
    BY <1>t DEF TypeOK
  <2>2. SeenFromOutside[r] = [res[r] EXCEPT !.status = PassShows(w)]
    BY <1>9, <1>m
  <2>3. [SeenFromOutside[r] EXCEPT !.status = st] = res[r]
    BY <1>9, <2>1, <2>2 DEF Row
  <2>4. SeenFromOutside' = res
    BY <1>9, <1>m, <1>t, ConstantsAssumption DEF TypeOK
  <2>5. \A q \in Rids : q # r => SeenFromOutside[q] = res[q]
    BY <1>9, <1>m
  <2>6. /\ SeenFromOutside \in [Rids -> {SeenFromOutside[q] : q \in Rids}]
        /\ res \in [Rids -> Row]
    BY <1>m, <1>t DEF TypeOK
  <2>7. SeenFromOutside' = [SeenFromOutside EXCEPT ![r].status = st]
    BY <2>3, <2>4, <2>5, <2>6
  <2> QED
    BY <2>1, <2>2, <2>7 DEF Row
<1>10. CASE SweepOpenSession(s)
  <2>1. PICK r \in Rids : r = w.cur
    BY <1>10, <1>w DEF SweepOpenSession, AtRow, Sweeper
  <2> DEFINE x == OpenSession(w.now)
  <2>2. w.pc = "open" /\ sess' = [sess EXCEPT ![r] = Append(@, x)] /\ UNCHANGED res
    BY <1>10, <2>1 DEF SweepOpenSession
  <2>3. sweeper'[s].cur = None
    BY <1>10, <1>t, <1>w DEF SweepOpenSession, TypeOK, Sweeper
  <2>4. /\ res[r].status = "ACTIVE" /\ PassShows(w) = "APPROVED"
        /\ sess[r] = <<>>
        /\ res[r].start <= w.now /\ w.now < res[r].end /\ w.now <= clock
    BY <1>w, <2>1, <2>2 DEF WritingOK, PassShows, SweeperOK, Begun
  <2>5. sess' = [sess EXCEPT ![r] = <<x>>]
    BY <1>t, <2>2, <2>4, OneSession DEF TypeOK
  <2>6. w.now \in 0..MaxTime
    BY <1>t, <1>w, <2>4, ConstantsAssumption DEF BoundInv, Sweeper
  <2>7. Lifecycle!Activate(r, w.now)
    BY <1>9, <1>c, <2>1, <2>2, <2>3, <2>4, <2>5 DEF Lifecycle!Activate, OpenSession
  <2> QED
    BY <2>6, <2>7 DEF LifecycleStep, Lifecycle!Next
<1>11. CASE SweepCloseSession(s)
  <2>1. PICK r \in Rids : r = w.cur
    BY <1>11, <1>w DEF SweepCloseSession, AtRow, Sweeper
  <2>2. w.pc = "close" /\ UNCHANGED res
    BY <1>11 DEF SweepCloseSession
  <2>3. sweeper'[s].cur = None
    <3>1. sweeper' = [sweeper EXCEPT ![s] = [w EXCEPT !.pc = "row", !.cur = None, !.ses = 0]]
      BY <1>11 DEF SweepCloseSession
    <3> QED
      BY <1>t, <1>w, <3>1 DEF TypeOK, Sweeper
  <2>4. /\ res[r].status = "COMPLETED"
        /\ res[r].end <= clock
    BY <1>t, <1>w, <2>1, <2>2 DEF WritingOK, StatusInv
  <2> DEFINE began == IF sess[r] = <<>> THEN res[r].start ELSE sess[r][1].startedAt
             x == ClosedSession(began, res[r].end)
  <2>5. sess' = [sess EXCEPT ![r] = <<x>>]
    <3>1. CASE w.phase = "activate"
      <4>1. w.ses = 0 /\ sess[r] = <<>>
        BY <1>w, <2>1, <2>2, <3>1 DEF WritingOK
      <4>2. sess' = [sess EXCEPT ![r] = Append(@, x)]
        BY <1>11, <2>1, <4>1 DEF SweepCloseSession
      <4> HIDE DEF x
      <4> QED
        BY <1>t, <4>1, <4>2, OneSession DEF TypeOK
    <3>2. CASE w.phase # "activate"
      <4>1. w.ses = 1 /\ Len(sess[r]) = 1 /\ sess[r] \in Seq(Session)
        BY <1>t, <1>w, <2>1, <2>2, <3>2 DEF WritingOK, InUse, TypeOK
      <4>2. sess[r] # <<>>
        <5> SUFFICES ASSUME sess[r] = <<>> PROVE FALSE
          OBVIOUS
        <5>1. Len(<<>>) = 0
          OBVIOUS
        <5>2. Len(<<>>) = Len(sess[r])
          BY Zenon
        <5> QED
          BY <4>1, <5>1, <5>2
      <4>3. sess' = [sess EXCEPT ![r] = [@ EXCEPT ![1] = x]]
        BY <1>11, <2>1, <4>1, <4>2 DEF SweepCloseSession
      <4> HIDE DEF x
      <4>4. sess'[r] = [sess[r] EXCEPT ![1] = x]
        BY <1>t, <4>3 DEF TypeOK
      <4>5. sess'[r] = <<x>>
        BY <4>1, <4>4
      <4> QED
        BY <1>t, <4>3, <4>5 DEF TypeOK
    <3> QED
      BY <3>1, <3>2
  <2>6. Lifecycle!Complete(r)
    BY <1>9, <1>c, <2>1, <2>2, <2>3, <2>4, <2>5
       DEF Lifecycle!Complete, ClosedSession, PassShows
  <2> QED
    BY <2>6 DEF LifecycleStep, Lifecycle!Next
<1> QED
  BY <1>2, <1>3, <1>5, <1>6, <1>7, <1>8, <1>10, <1>11 DEF SweepStep

\* Every step of the serialized system in which no pass dies is a step of the
\* lifecycle, or is not seen.
LEMMA StepRefines ==
  ASSUME Serialized, MaxAborts = 0, FullInv, [Next]_vars
  PROVE  LifecycleStep
<1>t. TypeOK
  BY DEF FullInv, Inv
<1>1. ASSUME UNCHANGED <<res, sweeper>> PROVE UNCHANGED SeenFromOutside
  BY <1>1 DEF SeenFromOutside, Handled, StatusBefore
<1>2. CASE RequestAbort
  BY <1>1, <1>2, Unseen DEF RequestAbort
<1>3. CASE Tick
  <2>1. UNCHANGED <<SeenFromOutside, sess>>
    BY <1>1, <1>3 DEF Tick
  <2>2. clock' = clock + 1 /\ clock + 1 \in 0..MaxTime
    BY <1>3, <1>t, ConstantsAssumption DEF Tick, TypeOK
  <2>3. Lifecycle!Tick
    BY <2>1, <2>2 DEF Lifecycle!Tick
  <2> QED
    BY <2>3 DEF LifecycleStep, Lifecycle!Next
<1>4. CASE UNCHANGED vars
  BY <1>1, <1>4, Unseen DEF vars
<1>5. ASSUME NEW s \in Sweepers, SweepAbort(s) PROVE FALSE
  BY <1>5, <1>t DEF SweepAbort, TypeOK
<1> QED
  BY <1>2, <1>3, <1>4, <1>5, BookingRefines, DecisionRefines, SweepRefines DEF Next

\* The initial tables are the lifecycle's.
LEMMA InitRefines == Init => Lifecycle!Init
<1> SUFFICES ASSUME Init PROVE Lifecycle!Init
  OBVIOUS
<1>1. \A r \in Rids : ~Handled(r)
  BY ConstantsAssumption DEF Init, Handled, IdleSweeper
<1>2. SeenFromOutside = [r \in Rids |-> NoRow]
  BY <1>1 DEF Init, SeenFromOutside
<1> QED
  BY <1>2 DEF Init, Lifecycle!Init, Lifecycle!NoBooking, NoRow

\* Requests and passes that run one at a time, no pass dying half-way, are the
\* promised lifecycle: seen from outside, each takes effect in one step of it.
THEOREM ImplementsLifecycleCorrect ==
  ASSUME Serialized, MaxAborts = 0
  PROVE  Spec => ImplementsLifecycle
<1>1. Init => FullInv /\ Lifecycle!Init
  BY InitInv, ExactInit, BoundInit, InitRefines DEF FullInv
<1>2. FullInv /\ [Next]_vars => FullInv'
  BY InvStep, ExactStep, BoundStep DEF FullInv
<1>3. FullInv /\ [Next]_vars => [Lifecycle!Next]_(Lifecycle!vars)
  BY StepRefines DEF LifecycleStep
<1> QED
  BY <1>1, <1>2, <1>3, PTL DEF Spec, ImplementsLifecycle, Lifecycle!Spec

-----------------------------------------------------------------------------
(* The lifecycle that is promised, for any moments and whoever keeps the     *)
(* promise: it schedules without conflicts.                                  *)

CONSTANT Moments
VARIABLES moment, promised, accounted

Promise == INSTANCE ReservationLifecycle WITH
  Times <- Moments, now <- moment, booking <- promised, used <- accounted

PromisedTimes == Moments \cup {0}
PromisedRow == [status : Statuses \cup {"NONE"}, node : Nodes \cup {None},
                start : PromisedTimes, end : PromisedTimes]

PromiseInv == promised \in [Rids -> PromisedRow] /\ Promise!NoDoubleBooking

\* Two windows meet or not whichever is looked at first.
LEMMA MeetSymmetric == \A v, w : Promise!Meet(v, w) <=> Promise!Meet(w, v)
BY DEF Promise!Meet

\* A status that makes no new claim keeps the invariant.
LEMMA Settling ==
  ASSUME PromiseInv, NEW r \in Rids, NEW st \in Statuses,
         st \in Promise!Claims => promised[r].status \in Promise!Claims,
         promised' = [promised EXCEPT ![r].status = st]
  PROVE  PromiseInv'
<1>1. promised[r] \in PromisedRow
  BY DEF PromiseInv
<1>2. promised' \in [Rids -> PromisedRow]
  BY <1>1 DEF PromiseInv, PromisedRow
<1>3. \A q \in Rids : /\ promised'[q].node = promised[q].node
                      /\ promised'[q].start = promised[q].start
                      /\ promised'[q].end = promised[q].end
                      /\ promised'[q].status \in Promise!Claims => promised[q].status \in Promise!Claims
  BY <1>1 DEF PromiseInv, PromisedRow
<1> QED
  BY <1>2, <1>3 DEF PromiseInv, Promise!NoDoubleBooking, Promise!Meet

\* A booking that finds its window free keeps the invariant.
LEMMA Booked ==
  ASSUME PromiseInv, NEW r \in Rids, NEW n \in Nodes, NEW start \in Moments, NEW end \in Moments,
         Promise!Book(r, n, start, end)
  PROVE  PromiseInv'
<1> DEFINE b == [status |-> "PENDING", node |-> n, start |-> start, end |-> end]
<1>1. b \in PromisedRow
  BY DEF PromisedRow, Statuses, PromisedTimes
<1>2. Promise!Free(b) /\ promised' = [promised EXCEPT ![r] = b]
  BY DEF Promise!Book
<1> HIDE DEF b
<1>3. promised' \in [Rids -> PromisedRow]
  BY <1>1, <1>2 DEF PromiseInv
<1>4. Promise!NoDoubleBooking'
  <2> SUFFICES ASSUME NEW p \in Rids, NEW q \in Rids, p # q,
                      promised'[p].status \in Promise!Claims, promised'[q].status \in Promise!Claims,
                      promised'[p].node = promised'[q].node
               PROVE  ~Promise!Meet(promised'[p], promised'[q])
    BY DEF Promise!NoDoubleBooking, Promise!Meet
  <2>1. \A m \in Rids : promised'[m] = IF m = r THEN b ELSE promised[m]
    BY <1>2 DEF PromiseInv
  <2>2. CASE p = r
    BY <1>2, <2>1, <2>2, MeetSymmetric DEF Promise!Free
  <2>3. CASE q = r
    BY <1>2, <2>1, <2>3 DEF Promise!Free
  <2>4. CASE p # r /\ q # r
    BY <2>1, <2>4 DEF PromiseInv, Promise!NoDoubleBooking
  <2> QED
    BY <2>2, <2>3, <2>4
<1> QED
  BY <1>3, <1>4 DEF PromiseInv

\* Conflict-free scheduling follows from the promised lifecycle alone: for any
\* nodes, reservations, moments and maintenance windows.
THEOREM LifecycleSchedulesWithoutConflict == Promise!Spec => []Promise!NoDoubleBooking
<1>1. Promise!Init => PromiseInv
  BY DEF Promise!Init, PromiseInv, Promise!NoBooking, PromisedRow, PromisedTimes, Promise!Claims,
         Promise!NoDoubleBooking
<1>2. PromiseInv /\ [Promise!Next]_(Promise!vars) => PromiseInv'
  <2> SUFFICES ASSUME PromiseInv, [Promise!Next]_(Promise!vars) PROVE PromiseInv'
    OBVIOUS
  <2>1. ASSUME NEW r \in Rids, Promise!Approve(r) \/ Promise!Reject(r) \/ Promise!Cancel(r)
        PROVE  PromiseInv'
    BY <2>1, Settling DEF Promise!Approve, Promise!Reject, Promise!Cancel, Promise!Decide,
                          Statuses, Promise!Claims
  <2>2. ASSUME NEW r \in Rids, NEW at \in Moments, Promise!Activate(r, at) PROVE PromiseInv'
    BY <2>2, Settling DEF Promise!Activate, Statuses, Promise!Claims
  <2>3. ASSUME NEW r \in Rids, Promise!Complete(r) PROVE PromiseInv'
    BY <2>3, Settling DEF Promise!Complete, Statuses, Promise!Claims
  <2>4. CASE Promise!Tick
    BY <2>4 DEF Promise!Tick, PromiseInv, Promise!NoDoubleBooking, Promise!Meet
  <2>5. CASE UNCHANGED Promise!vars
    BY <2>5 DEF Promise!vars, PromiseInv, Promise!NoDoubleBooking, Promise!Meet
  <2> QED
    BY <2>1, <2>2, <2>3, <2>4, <2>5, Booked DEF Promise!Next
<1>3. PromiseInv => Promise!NoDoubleBooking
  BY DEF PromiseInv
<1> QED
  BY <1>1, <1>2, <1>3, PTL DEF Promise!Spec
=============================================================================

--------------------------- MODULE TelemetryProofs ---------------------------
(***************************************************************************)
(* Proofs about Telemetry: what was acknowledged is seen, maintenance is   *)
(* no incident, and the three statements of a report agree, for any nodes, *)
(* thresholds, reports and requests in flight.                             *)
(***************************************************************************)
EXTENDS MCTelemetry, TLAPS

-----------------------------------------------------------------------------
(* Ages *)

Age == -Skew .. (SoonOffline + 1)
MaybeAge == Age \cup {None}

LEMMA Constants ==
  /\ Skew \in Nat /\ SoonOffline \in Nat /\ SoonDegraded \in Nat /\ SoonDegraded <= SoonOffline
  /\ None \notin Int /\ None \notin Nodes /\ None \notin LiveNodes
  /\ Live!Old = SoonOffline + 1 /\ Whole!Old = SoonOffline + 1
  /\ Live!Ages = Age /\ Whole!Ages = Age
  BY ConstantsAssumption, InstancesAssumption
  DEF Live!Old, Live!Ages, Whole!Old, Whole!Ages, Age

\* Time passes for all timestamps alike.
LEMMA OlderAge ==
  /\ Live!Older(None) = None
  /\ \A a \in Age : Live!Older(a) \in Age /\ Live!Older(a) # None
  /\ \A a, b \in Age : a <= b => Live!Older(a) <= Live!Older(b)
  /\ \A a \in Age : Live!Older(a) - 1 <= a
  BY Constants DEF Live!Older, Age

-----------------------------------------------------------------------------
(* The requests that look at a node while reports of it fail and succeed *)

WindowRow == [status : {"none", "SCHEDULED", "IN_PROGRESS"}, opens : Int, closes : Int]
LiveReport == [pc : {"idle", "snapshot", "metric", "node", "reply"}, node : LiveNodes \cup {None}, age : Age]
LiveView ==
  [pc : {"idle", "reading", "answered"}, of : SUBSET LiveNodes, behind : {0, 1},
   own : [LiveNodes -> MaybeAge], snap : [LiveNodes -> Int \cup {None}] \cup {None},
   maint : (SUBSET LiveNodes) \cup {None}, seen : [LiveNodes -> MaybeAge], covered : SUBSET LiveNodes]

LiveTypes ==
  /\ present \subseteq LiveNodes
  /\ beat \in [LiveNodes -> MaybeAge] /\ snapshot \in [LiveNodes -> MaybeAge]
  /\ acked \in [LiveNodes -> MaybeAge] /\ metrics \in [LiveNodes -> SUBSET Age]
  /\ window \in [LiveNodes -> WindowRow]
  /\ report \in [LiveAgents -> LiveReport]
  /\ view \in [LiveViews -> LiveView]

\* The reports of a node come one by one; a slot without a node is free.
OneByOne ==
  /\ \A a \in LiveAgents : report[a].pc = "idle" <=> report[a].node = None
  /\ \A a, b \in LiveAgents : report[a].node = report[b].node /\ report[a].node # None => a = b

\* The tables are no older than what was acknowledged.
Fresh(n) ==
  /\ n \notin present => snapshot[n] = None
  /\ n \in present /\ acked[n] # None =>
       /\ acked[n] \in metrics[n]
       /\ beat[n] # None /\ beat[n] <= acked[n]
       /\ snapshot[n] # None /\ snapshot[n] <= acked[n]

\* A report in flight is the freshest of its node, and has written what it has
\* written.
Underway(r) ==
  r.node \in present =>
    /\ \A b \in metrics[r.node] : r.age <= b
    /\ r.pc \in {"metric", "node", "reply"} => snapshot[r.node] = r.age
    /\ r.pc \in {"node", "reply"} => r.age \in metrics[r.node]
    /\ r.pc = "reply" => beat[r.node] # None /\ beat[r.node] <= r.age

\* What a request has read is no older than what was acknowledged before it.
Reading(w) ==
  \A n \in w.of : w.seen[n] # None =>
    /\ w.own[n] # None /\ w.own[n] <= w.seen[n]
    /\ w.pc = "reading" => acked[n] # None /\ acked[n] - w.behind <= w.seen[n]
    /\ w.snap # None /\ w.snap[n] # None => w.snap[n] <= w.seen[n]

Covered(w) ==
  \A n \in w.covered :
    /\ w.pc = "reading" => Live!Active(window[n], w.behind)
    /\ w.maint # None => n \in w.maint

ViewsOK ==
  \A v \in LiveViews :
    /\ view[v].pc = "answered" => view[v].snap # None /\ view[v].maint # None
    /\ Reading(view[v]) /\ Covered(view[v])

LiveInv ==
  /\ LiveTypes /\ OneByOne
  /\ \A n \in LiveNodes : Fresh(n)
  /\ \A a \in LiveAgents : Underway(report[a])
  /\ ViewsOK

LEMMA LiveInit ==
  ASSUME Live!Init
  PROVE  LiveInv
  <1>. USE Constants
  <1>1. LiveTypes
    <2>1. /\ beat \in [LiveNodes -> MaybeAge] /\ snapshot \in [LiveNodes -> MaybeAge]
          /\ acked \in [LiveNodes -> MaybeAge] /\ metrics \in [LiveNodes -> SUBSET Age]
      BY DEF Live!Init, MaybeAge
    <2>2. window \in [LiveNodes -> WindowRow] /\ report \in [LiveAgents -> LiveReport]
      BY DEF Live!Init, Live!NoWindow, WindowRow, Live!IdleReport, LiveReport, Age
    <2>3. Live!IdleView \in LiveView
      BY DEF Live!IdleView, LiveView, MaybeAge
    <2>4. view \in [LiveViews -> LiveView]
      BY <2>3 DEF Live!Init
    <2>. QED BY <2>1, <2>2, <2>4 DEF LiveTypes, Live!Init
  <1>2. OneByOne
    BY DEF Live!Init, OneByOne, Live!IdleReport
  <1>3. \A n \in LiveNodes : Fresh(n)
    BY DEF Live!Init, Fresh
  <1>4. \A a \in LiveAgents : Underway(report[a])
    BY DEF Live!Init, Underway, Live!IdleReport
  <1>5. ViewsOK
    BY DEF Live!Init, ViewsOK, Reading, Covered, Live!IdleView
  <1>. QED BY <1>1, <1>2, <1>3, <1>4, <1>5 DEF LiveInv

\* So an answer is true.
LEMMA LiveAnswers ==
  ASSUME LiveInv
  PROVE  Live!AcknowledgedIsSeen /\ Live!MaintenanceIsNotAnIncident
  <1>1. Live!AcknowledgedIsSeen
    BY DEF LiveInv, ViewsOK, Reading, Live!AcknowledgedIsSeen, Live!Answered, Live!ShownHeartbeat
  <1>2. Live!MaintenanceIsNotAnIncident
    BY DEF LiveInv, ViewsOK, Covered, Live!MaintenanceIsNotAnIncident, Live!Answered, Live!Status
  <1>. QED BY <1>1, <1>2

\* The views stay true while windows stay and acknowledgements get fresher.
LEMMA ViewsKept ==
  ASSUME LiveInv, UNCHANGED <<view, window>>,
         \A n \in LiveNodes : /\ acked'[n] \in MaybeAge
                              /\ acked[n] # None => acked'[n] # None /\ acked'[n] <= acked[n]
  PROVE  ViewsOK'
  <1>. USE Constants
  <1>1. ASSUME NEW v \in LiveViews
        PROVE  Reading(view[v])'
    <2>1. view[v] \in LiveView /\ Reading(view[v])
      BY DEF LiveInv, LiveTypes, ViewsOK
    <2>2. ASSUME NEW n \in view[v].of, view[v].seen[n] # None, view[v].pc = "reading"
          PROVE  acked'[n] # None /\ acked'[n] - view[v].behind <= view[v].seen[n]
      <3>1. n \in LiveNodes /\ view[v].behind \in Int /\ view[v].seen[n] \in Int
        BY <2>1, <2>2 DEF LiveView, MaybeAge, Age
      <3>2. acked[n] \in Int /\ acked[n] - view[v].behind <= view[v].seen[n]
        BY <2>1, <2>2, <3>1 DEF Reading, LiveInv, LiveTypes, MaybeAge, Age
      <3>. QED BY <3>1, <3>2 DEF MaybeAge, Age
    <2>. QED BY <2>1, <2>2 DEF Reading
  <1>. QED BY <1>1 DEF LiveInv, ViewsOK, Covered

\* A report of a node in flight is the only one.
LEMMA InFlight ==
  ASSUME LiveInv, NEW a \in LiveAgents, report[a].pc # "idle"
  PROVE  /\ report[a] \in LiveReport /\ report[a].node \in LiveNodes /\ report[a].age \in Age
         /\ \A b \in LiveAgents : b # a => report[b].node # report[a].node
         /\ Underway(report[a]) /\ Fresh(report[a].node)
  <1>1. report[a] \in LiveReport /\ report[a].node # None
    BY DEF LiveInv, LiveTypes, OneByOne
  <1>2. report[a].node \in LiveNodes /\ report[a].age \in Age
    BY <1>1 DEF LiveReport
  <1>3. \A b \in LiveAgents : b # a => report[b].node # report[a].node
    BY <1>1 DEF LiveInv, OneByOne
  <1>. QED BY <1>1, <1>2, <1>3 DEF LiveInv

LEMMA LiveReportStep ==
  ASSUME LiveInv, NEW a \in LiveAgents, NEW n \in LiveNodes, NEW age \in Live!Ages,
         Live!Report(a, n, age)
  PROVE  LiveInv'
  <1>. USE Constants
  <1>. DEFINE r == [pc |-> "snapshot", node |-> n, age |-> age]
  <1>1. /\ n \in present /\ report' = [report EXCEPT ![a] = r]
        /\ UNCHANGED <<present, beat, snapshot, metrics, window, view, acked>>
        /\ \A b \in LiveAgents : report[b].node # n
        /\ \A b \in metrics[n] : age <= b
    BY DEF Live!Report, Live!InTurn, Live!tables
  <1>2. r \in LiveReport /\ r.node = n /\ r.pc = "snapshot" /\ r.age = age
    BY DEF LiveReport
  <1>. HIDE DEF r
  <1>3. LiveTypes'
    BY <1>1, <1>2 DEF LiveInv, LiveTypes
  <1>4. \A b \in LiveAgents : report'[b] = IF b = a THEN r ELSE report[b]
    BY <1>1 DEF LiveInv, LiveTypes
  <1>5. OneByOne'
    BY <1>1, <1>2, <1>4 DEF LiveInv, OneByOne
  <1>6. \A m \in LiveNodes : Fresh(m)'
    BY <1>1 DEF LiveInv, Fresh
  <1>7. \A b \in LiveAgents : Underway(report[b])'
    BY <1>1, <1>2, <1>4 DEF LiveInv, Underway
  <1>8. ViewsOK'
    BY <1>1, ViewsKept DEF LiveInv, LiveTypes, MaybeAge, Age
  <1>. QED BY <1>3, <1>5, <1>6, <1>7, <1>8 DEF LiveInv

LEMMA LiveUpsertStep ==
  ASSUME LiveInv, NEW a \in LiveAgents, Live!UpsertHealthSnapshot(a)
  PROVE  LiveInv'
  <1>. USE Constants
  <1>. DEFINE n == report[a].node
  <1>1. /\ n \in present /\ report[a].pc = "snapshot"
        /\ report' = [report EXCEPT ![a].pc = "metric"]
        /\ snapshot' = [snapshot EXCEPT ![n] = report[a].age]
        /\ UNCHANGED <<present, beat, metrics, window, view, acked>>
    BY DEF Live!UpsertHealthSnapshot, Live!Goto
  <1>2. /\ report[a] \in LiveReport /\ n \in LiveNodes /\ report[a].age \in Age
        /\ \A b \in LiveAgents : b # a => report[b].node # n
        /\ Underway(report[a]) /\ Fresh(n)
    BY <1>1, InFlight
  <1>. DEFINE r == [report[a] EXCEPT !.pc = "metric"]
  <1>3. r \in LiveReport /\ r.node = n /\ r.pc = "metric" /\ r.age = report[a].age
    BY <1>2 DEF LiveReport
  <1>4. \A b \in LiveAgents : report'[b] = IF b = a THEN r ELSE report[b]
    BY <1>1 DEF LiveInv, LiveTypes
  <1>5. \A m \in LiveNodes : snapshot'[m] = IF m = n THEN report[a].age ELSE snapshot[m]
    BY <1>1 DEF LiveInv, LiveTypes
  <1>. HIDE DEF r, n
  <1>6. LiveTypes'
    <2>1. report' \in [LiveAgents -> LiveReport]
      BY <1>1, <1>3, <1>4 DEF LiveInv, LiveTypes
    <2>2. snapshot' \in [LiveNodes -> MaybeAge]
      BY <1>1, <1>2, <1>5 DEF LiveInv, LiveTypes, MaybeAge
    <2>. QED BY <1>1, <2>1, <2>2 DEF LiveInv, LiveTypes
  <1>7. OneByOne'
    BY <1>1, <1>2, <1>3, <1>4 DEF LiveInv, OneByOne, n
  <1>8. \A m \in LiveNodes : Fresh(m)'
    <2>. SUFFICES ASSUME NEW m \in LiveNodes
                  PROVE  Fresh(m)'
      OBVIOUS
    <2>1. CASE m = n
      BY <1>1, <1>2, <1>5, <2>1 DEF Fresh, Underway, Age, n
    <2>2. CASE m # n
      BY <1>1, <1>5, <2>2 DEF LiveInv, Fresh
    <2>. QED BY <2>1, <2>2
  <1>9. \A b \in LiveAgents : Underway(report[b])'
    <2>. SUFFICES ASSUME NEW b \in LiveAgents
                  PROVE  Underway(report[b])'
      OBVIOUS
    <2>1. CASE b = a
      BY <1>1, <1>2, <1>3, <1>4, <1>5, <2>1 DEF Underway, n
    <2>2. CASE b # a
      <3>1. report'[b] = report[b] /\ report[b].node # n /\ Underway(report[b])
        BY <1>2, <1>4, <2>2 DEF LiveInv
      <3>2. report[b].node \in present => snapshot'[report[b].node] = snapshot[report[b].node]
        BY <1>5, <3>1 DEF LiveInv, LiveTypes
      <3>3. metrics' = metrics /\ beat' = beat /\ present' = present
        BY <1>1
      <3>. QED BY <3>1, <3>2, <3>3 DEF Underway
    <2>. QED BY <2>1, <2>2
  <1>10. ViewsOK'
    BY <1>1, ViewsKept DEF LiveInv, LiveTypes, MaybeAge, Age
  <1>. QED BY <1>6, <1>7, <1>8, <1>9, <1>10 DEF LiveInv

\* What a report does to its node is nothing to the reports of other nodes.
LEMMA OthersUnderway ==
  ASSUME LiveInv, NEW n \in LiveNodes, NEW b \in LiveAgents, report[b].node # n,
         report'[b] = report[b], UNCHANGED present,
         \A m \in LiveNodes \ {n} :
           snapshot'[m] = snapshot[m] /\ metrics'[m] = metrics[m] /\ beat'[m] = beat[m]
  PROVE  Underway(report[b])'
  <1>. DEFINE m == report[b].node
  <1>1. Underway(report[b]) /\ present \subseteq LiveNodes
    BY DEF LiveInv, LiveTypes
  <1>2. m \in present =>
          snapshot'[m] = snapshot[m] /\ metrics'[m] = metrics[m] /\ beat'[m] = beat[m]
    BY <1>1
  <1>3. present' = present
    OBVIOUS
  <1>4. report'[b] = report[b]
    OBVIOUS
  <1>. QED BY <1>1, <1>2, <1>3, <1>4 DEF Underway

LEMMA LiveCreateMetricStep ==
  ASSUME LiveInv, NEW a \in LiveAgents, Live!CreateMetric(a)
  PROVE  LiveInv'
  <1>. USE Constants
  <1>. DEFINE n == report[a].node
  <1>1. /\ n \in present /\ report[a].pc = "metric"
        /\ report' = [report EXCEPT ![a].pc = "node"]
        /\ metrics' = [metrics EXCEPT ![n] = metrics[n] \cup {report[a].age}]
        /\ UNCHANGED <<present, beat, snapshot, window, view, acked>>
    BY DEF Live!CreateMetric, Live!Goto
  <1>2. /\ report[a] \in LiveReport /\ n \in LiveNodes /\ report[a].age \in Age
        /\ \A b \in LiveAgents : b # a => report[b].node # n
        /\ Underway(report[a]) /\ Fresh(n)
    BY <1>1, InFlight
  <1>. DEFINE r == [report[a] EXCEPT !.pc = "node"]
  <1>3. r \in LiveReport /\ r.node = n /\ r.pc = "node" /\ r.age = report[a].age
    BY <1>2 DEF LiveReport
  <1>4. \A b \in LiveAgents : report'[b] = IF b = a THEN r ELSE report[b]
    BY <1>1 DEF LiveInv, LiveTypes
  <1>5. \A m \in LiveNodes : metrics'[m] = IF m = n THEN metrics[n] \cup {report[a].age} ELSE metrics[m]
    BY <1>1 DEF LiveInv, LiveTypes
  <1>6. LiveTypes'
    <2>. HIDE DEF r, n
    <2>1. report' \in [LiveAgents -> LiveReport]
      BY <1>1, <1>3, <1>4 DEF LiveInv, LiveTypes
    <2>2. metrics' \in [LiveNodes -> SUBSET Age]
      BY <1>1, <1>2, <1>5 DEF LiveInv, LiveTypes
    <2>. QED BY <1>1, <2>1, <2>2 DEF LiveInv, LiveTypes
  <1>7. OneByOne'
    BY <1>1, <1>2, <1>3, <1>4 DEF LiveInv, OneByOne
  <1>8. \A m \in LiveNodes : Fresh(m)'
    BY <1>1, <1>5 DEF LiveInv, Fresh
  <1>9. \A b \in LiveAgents : Underway(report[b])'
    <2>. SUFFICES ASSUME NEW b \in LiveAgents
                  PROVE  Underway(report[b])'
      OBVIOUS
    <2>1. CASE b = a
      <3>1. \A c \in metrics'[n] : r.age <= c
        BY <1>1, <1>2, <1>3, <1>5 DEF Underway, Age
      <3>2. snapshot'[n] = r.age /\ r.age \in metrics'[n]
        BY <1>1, <1>2, <1>3, <1>5 DEF Underway
      <3>3. report'[b] = r
        BY <1>4, <2>1
      <3>. HIDE DEF r, n
      <3>. QED BY <1>3, <3>1, <3>2, <3>3 DEF Underway
    <2>2. CASE b # a
      BY <1>1, <1>2, <1>4, <1>5, <2>2, OthersUnderway
    <2>. QED BY <2>1, <2>2
  <1>10. ViewsOK'
    BY <1>1, ViewsKept DEF LiveInv, LiveTypes, MaybeAge, Age
  <1>. QED BY <1>6, <1>7, <1>8, <1>9, <1>10 DEF LiveInv

LEMMA LiveUpdateStep ==
  ASSUME LiveInv, NEW a \in LiveAgents, Live!UpdateLastHeartbeat(a)
  PROVE  LiveInv'
  <1>. USE Constants
  <1>. DEFINE n == report[a].node
  <1>1. /\ n \in present /\ report[a].pc = "node"
        /\ report' = [report EXCEPT ![a].pc = "reply"]
        /\ beat' = [beat EXCEPT ![n] = report[a].age]
        /\ UNCHANGED <<present, snapshot, metrics, window, view, acked>>
    BY DEF Live!UpdateLastHeartbeat, Live!Goto
  <1>2. /\ report[a] \in LiveReport /\ n \in LiveNodes /\ report[a].age \in Age
        /\ \A b \in LiveAgents : b # a => report[b].node # n
        /\ Underway(report[a]) /\ Fresh(n)
    BY <1>1, InFlight
  <1>. DEFINE r == [report[a] EXCEPT !.pc = "reply"]
  <1>3. r \in LiveReport /\ r.node = n /\ r.pc = "reply" /\ r.age = report[a].age
    BY <1>2 DEF LiveReport
  <1>4. \A b \in LiveAgents : report'[b] = IF b = a THEN r ELSE report[b]
    BY <1>1 DEF LiveInv, LiveTypes
  <1>5. \A m \in LiveNodes : beat'[m] = IF m = n THEN report[a].age ELSE beat[m]
    BY <1>1 DEF LiveInv, LiveTypes
  <1>6. LiveTypes'
    <2>. HIDE DEF r, n
    <2>1. report' \in [LiveAgents -> LiveReport]
      BY <1>1, <1>3, <1>4 DEF LiveInv, LiveTypes
    <2>2. beat' \in [LiveNodes -> MaybeAge]
      BY <1>1, <1>2, <1>5 DEF LiveInv, LiveTypes, MaybeAge
    <2>. QED BY <1>1, <2>1, <2>2 DEF LiveInv, LiveTypes
  <1>7. OneByOne'
    BY <1>1, <1>2, <1>3, <1>4 DEF LiveInv, OneByOne
  <1>8. \A m \in LiveNodes : Fresh(m)'
    <2>. SUFFICES ASSUME NEW m \in LiveNodes
                  PROVE  Fresh(m)'
      OBVIOUS
    <2>1. CASE m = n
      BY <1>1, <1>2, <1>5, <2>1 DEF Fresh, Underway, Age
    <2>2. CASE m # n
      BY <1>1, <1>5, <2>2 DEF LiveInv, Fresh
    <2>. QED BY <2>1, <2>2
  <1>9. \A b \in LiveAgents : Underway(report[b])'
    <2>. SUFFICES ASSUME NEW b \in LiveAgents
                  PROVE  Underway(report[b])'
      OBVIOUS
    <2>1. CASE b = a
      <3>1. /\ \A c \in metrics'[n] : r.age <= c
            /\ snapshot'[n] = r.age /\ r.age \in metrics'[n]
        BY <1>1, <1>2, <1>3 DEF Underway
      <3>2. beat'[n] = r.age /\ r.age \in Age
        BY <1>2, <1>3, <1>5
      <3>3. report'[b] = r
        BY <1>4, <2>1
      <3>. HIDE DEF r, n
      <3>. QED BY <1>3, <3>1, <3>2, <3>3 DEF Underway, Age
    <2>2. CASE b # a
      BY <1>1, <1>2, <1>4, <1>5, <2>2, OthersUnderway
    <2>. QED BY <2>1, <2>2
  <1>10. ViewsOK'
    BY <1>1, ViewsKept DEF LiveInv, LiveTypes, MaybeAge, Age
  <1>. QED BY <1>6, <1>7, <1>8, <1>9, <1>10 DEF LiveInv

\* A report ends, with success or without.
LEMMA LiveEndStep ==
  ASSUME LiveInv, NEW a \in LiveAgents, Live!Acknowledge(a) \/ Live!Fail(a)
  PROVE  LiveInv'
  <1>. USE Constants
  <1>. DEFINE n == report[a].node
  <1>1. /\ report[a].pc # "idle" /\ report' = [report EXCEPT ![a] = Live!IdleReport]
        /\ UNCHANGED <<present, beat, snapshot, metrics, window, view>>
        /\ \/ report[a].pc = "reply" /\ acked' = [acked EXCEPT ![n] = Live!Newer(acked[n], report[a].age)]
           \/ acked' = acked
    BY DEF Live!Acknowledge, Live!Fail, Live!EndReport, Live!tables
  <1>2. /\ report[a] \in LiveReport /\ n \in LiveNodes /\ report[a].age \in Age
        /\ \A b \in LiveAgents : b # a => report[b].node # n
        /\ Underway(report[a]) /\ Fresh(n)
    BY <1>1, InFlight
  <1>3. /\ Live!IdleReport \in LiveReport /\ Live!IdleReport.node = None
        /\ Live!IdleReport.pc = "idle"
    BY DEF LiveReport, Live!IdleReport, Age
  <1>4. \A b \in LiveAgents : report'[b] = IF b = a THEN Live!IdleReport ELSE report[b]
    BY <1>1 DEF LiveInv, LiveTypes
  <1>5. \A m \in LiveNodes : m # n => acked'[m] = acked[m]
    BY <1>1 DEF LiveInv, LiveTypes
  <1>6. /\ acked'[n] \in MaybeAge
        /\ acked[n] # None => acked'[n] # None /\ acked'[n] <= acked[n]
        /\ acked'[n] = acked[n] \/ (report[a].pc = "reply" /\ acked'[n] = report[a].age)
    <2>1. CASE acked' = acked
      BY <1>2, <2>1 DEF LiveInv, LiveTypes, MaybeAge, Age
    <2>2. CASE report[a].pc = "reply" /\ acked' = [acked EXCEPT ![n] = Live!Newer(acked[n], report[a].age)]
      <3>1. acked'[n] = Live!Newer(acked[n], report[a].age) /\ acked[n] \in MaybeAge
        BY <1>2, <2>2 DEF LiveInv, LiveTypes
      <3>. QED BY <1>2, <2>2, <3>1 DEF Live!Newer, MaybeAge, Age
    <2>. QED BY <1>1, <2>1, <2>2
  <1>7. acked' \in [LiveNodes -> MaybeAge]
    BY <1>1, <1>2, <1>5, <1>6 DEF LiveInv, LiveTypes
  <1>8. LiveTypes'
    <2>1. report' \in [LiveAgents -> LiveReport]
      BY <1>1, <1>3, <1>4 DEF LiveInv, LiveTypes
    <2>. QED BY <1>1, <1>7, <2>1 DEF LiveInv, LiveTypes
  <1>9. OneByOne'
    BY <1>1, <1>2, <1>3, <1>4 DEF LiveInv, OneByOne
  <1>10. \A m \in LiveNodes : Fresh(m)'
    <2>. SUFFICES ASSUME NEW m \in LiveNodes
                  PROVE  Fresh(m)'
      OBVIOUS
    <2>1. CASE m # n \/ acked'[n] = acked[n]
      BY <1>1, <1>5, <2>1 DEF LiveInv, Fresh
    <2>2. CASE m = n /\ report[a].pc = "reply" /\ acked'[n] = report[a].age
      <3>1. n \in present =>
              /\ report[a].age \in metrics[n]
              /\ beat[n] # None /\ beat[n] <= report[a].age
              /\ snapshot[n] = report[a].age
        BY <1>2, <2>2 DEF Underway
      <3>2. present' = present /\ metrics' = metrics /\ beat' = beat /\ snapshot' = snapshot
        BY <1>1
      <3>. QED BY <1>2, <2>2, <3>1, <3>2 DEF Fresh, Age
    <2>. QED BY <1>6, <2>1, <2>2
  <1>11. \A b \in LiveAgents : Underway(report[b])'
    <2>. SUFFICES ASSUME NEW b \in LiveAgents
                  PROVE  Underway(report[b])'
      OBVIOUS
    <2>1. CASE b = a
      BY <1>1, <1>3, <1>4, <2>1 DEF Underway, LiveInv, LiveTypes
    <2>2. CASE b # a
      BY <1>1, <1>2, <1>4, <2>2, OthersUnderway
    <2>. QED BY <2>1, <2>2
  <1>12. ViewsOK'
    <2>1. \A m \in LiveNodes : /\ acked'[m] \in MaybeAge
                               /\ acked[m] # None => acked'[m] # None /\ acked'[m] <= acked[m]
      BY <1>5, <1>6, <1>7 DEF LiveInv, LiveTypes, MaybeAge, Age
    <2>. QED BY <1>1, <2>1, ViewsKept
  <1>. QED BY <1>8, <1>9, <1>10, <1>11, <1>12 DEF LiveInv

\* A step of one request that reads.
LEMMA OneView ==
  ASSUME LiveInv, NEW v \in LiveViews, NEW w \in LiveView, view' = [view EXCEPT ![v] = w],
         UNCHANGED <<present, beat, snapshot, metrics, window, report, acked>>,
         w.pc = "answered" => w.snap # None /\ w.maint # None,
         Reading(w), Covered(w)
  PROVE  LiveInv'
  <1>1. \A u \in LiveViews : view'[u] = IF u = v THEN w ELSE view[u]
    BY DEF LiveInv, LiveTypes
  <1>2. LiveTypes'
    BY <1>1 DEF LiveInv, LiveTypes
  <1>3. OneByOne' /\ \A n \in LiveNodes : Fresh(n)'
    BY DEF LiveInv, OneByOne, Fresh
  <1>4. \A a \in LiveAgents : Underway(report[a])'
    BY DEF LiveInv, Underway
  <1>5. acked' = acked /\ window' = window
    OBVIOUS
  <1>6. \A u \in LiveViews : Reading(view'[u]) /\ Covered(view'[u])
    BY <1>1 DEF LiveInv, ViewsOK
  <1>7. \A u \in LiveViews : Reading(view[u])' /\ Covered(view[u])'
    BY <1>5, <1>6 DEF Reading, Covered
  <1>8. ViewsOK'
    BY <1>1, <1>7 DEF LiveInv, ViewsOK
  <1>. QED BY <1>2, <1>3, <1>4, <1>8 DEF LiveInv

LEMMA LiveReadNodesStep ==
  ASSUME LiveInv, NEW v \in LiveViews, NEW of \in SUBSET present, Live!ReadNodes(v, of)
  PROVE  LiveInv'
  <1>. USE Constants
  <1>. DEFINE w == [Live!IdleView EXCEPT !.pc = "reading", !.of = of, !.own = beat, !.seen = acked,
                                         !.covered = {n \in of : Live!Active(window[n], 0)}]
  <1>1. /\ view' = [view EXCEPT ![v] = w]
        /\ UNCHANGED <<present, beat, snapshot, metrics, window, report, acked>>
    BY DEF Live!ReadNodes, Live!tables
  <1>2. /\ w.pc = "reading" /\ w.of = of /\ w.own = beat /\ w.seen = acked /\ w.behind = 0
        /\ w.snap = None /\ w.maint = None /\ w.covered = {n \in of : Live!Active(window[n], 0)}
    BY DEF Live!IdleView
  <1>3. w \in LiveView
    BY DEF Live!IdleView, LiveView, LiveInv, LiveTypes
  <1>. HIDE DEF w
  <1>4. Reading(w)
    BY <1>2 DEF Reading, LiveInv, LiveTypes, Fresh, MaybeAge, Age
  <1>5. Covered(w)
    BY <1>2 DEF Covered
  <1>. QED BY <1>1, <1>2, <1>3, <1>4, <1>5, OneView

LEMMA LiveReadSnapshotsStep ==
  ASSUME LiveInv, NEW v \in LiveViews, Live!ReadSnapshots(v)
  PROVE  LiveInv'
  <1>. USE Constants
  <1>. DEFINE k == view[v].behind
              s == [n \in LiveNodes |-> Live!Behind(snapshot[n], k)]
              w == [view[v] EXCEPT !.snap = s]
  <1>1. /\ view' = [view EXCEPT ![v] = w] /\ view[v].pc = "reading"
        /\ UNCHANGED <<present, beat, snapshot, metrics, window, report, acked>>
    BY DEF Live!ReadSnapshots, Live!tables, LiveInv, LiveTypes
  <1>2. view[v] \in LiveView /\ k \in {0, 1} /\ Reading(view[v]) /\ Covered(view[v])
    BY DEF LiveInv, LiveTypes, LiveView, ViewsOK
  <1>3. s \in [LiveNodes -> Int \cup {None}]
    BY <1>2 DEF Live!Behind, LiveInv, LiveTypes, MaybeAge, Age
  <1>4. /\ w \in LiveView /\ w.pc = "reading" /\ w.of = view[v].of /\ w.own = view[v].own
        /\ w.seen = view[v].seen /\ w.behind = k /\ w.snap = s /\ w.maint = view[v].maint
        /\ w.covered = view[v].covered
    BY <1>1, <1>2, <1>3 DEF LiveView
  <1>5. Reading(w)
    <2>. SUFFICES ASSUME NEW n \in view[v].of, view[v].seen[n] # None, s[n] # None
                  PROVE  s[n] <= view[v].seen[n]
      BY <1>1, <1>2, <1>4 DEF Reading
    <2>1. n \in LiveNodes /\ view[v].seen[n] \in Int
      BY <1>2 DEF LiveView, MaybeAge, Age
    <2>2. acked[n] # None /\ acked[n] - k <= view[v].seen[n]
      BY <1>1, <1>2 DEF Reading
    <2>3. snapshot[n] # None /\ s[n] = snapshot[n] - k
      BY <2>1 DEF Live!Behind
    <2>4. snapshot[n] <= acked[n]
      BY <2>1, <2>2, <2>3 DEF LiveInv, Fresh
    <2>5. snapshot[n] \in Int /\ acked[n] \in Int
      BY <2>1, <2>2, <2>3 DEF LiveInv, LiveTypes, MaybeAge, Age
    <2>. QED BY <1>2, <2>1, <2>2, <2>3, <2>4, <2>5
  <1>6. Covered(w)
    BY <1>1, <1>2, <1>4 DEF Covered
  <1>. HIDE DEF w
  <1>. QED BY <1>1, <1>4, <1>5, <1>6, OneView

LEMMA LiveReadMaintenanceStep ==
  ASSUME LiveInv, NEW v \in LiveViews, Live!ReadMaintenance(v)
  PROVE  LiveInv'
  <1>. USE Constants
  <1>. DEFINE k == view[v].behind
              m == {n \in LiveNodes : Live!UnderMaintenance(n, k)}
              w == [view[v] EXCEPT !.maint = m]
  <1>1. /\ view' = [view EXCEPT ![v] = w] /\ view[v].pc = "reading"
        /\ UNCHANGED <<present, beat, snapshot, metrics, window, report, acked>>
    BY DEF Live!ReadMaintenance, Live!tables, LiveInv, LiveTypes
  <1>2. view[v] \in LiveView /\ Reading(view[v]) /\ Covered(view[v])
    BY DEF LiveInv, LiveTypes, ViewsOK
  <1>3. /\ w \in LiveView /\ w.pc = "reading" /\ w.of = view[v].of /\ w.own = view[v].own
        /\ w.seen = view[v].seen /\ w.behind = k /\ w.snap = view[v].snap /\ w.maint = m
        /\ w.covered = view[v].covered
    BY <1>1, <1>2 DEF LiveView
  <1>4. Reading(w)
    BY <1>1, <1>2, <1>3 DEF Reading
  <1>5. Covered(w)
    BY <1>1, <1>2, <1>3 DEF Covered, Live!UnderMaintenance, LiveView
  <1>. HIDE DEF w
  <1>. QED BY <1>1, <1>3, <1>4, <1>5, OneView

LEMMA LiveAnswerStep ==
  ASSUME LiveInv, NEW v \in LiveViews, Live!Answer(v) \/ Live!EndView(v)
  PROVE  LiveInv'
  <1>. USE Constants
  <1>1. UNCHANGED <<present, beat, snapshot, metrics, window, report, acked>>
    BY DEF Live!Answer, Live!EndView, Live!tables
  <1>2. view[v] \in LiveView /\ Reading(view[v]) /\ Covered(view[v])
    BY DEF LiveInv, LiveTypes, ViewsOK
  <1>3. CASE Live!Answer(v)
    <2>. DEFINE w == [view[v] EXCEPT !.pc = "answered"]
    <2>1. /\ view' = [view EXCEPT ![v] = w]
          /\ view[v].pc = "reading" /\ view[v].snap # None /\ view[v].maint # None
      BY <1>3 DEF Live!Answer, LiveInv, LiveTypes
    <2>2. /\ w \in LiveView /\ w.pc = "answered" /\ w.of = view[v].of /\ w.own = view[v].own
          /\ w.seen = view[v].seen /\ w.snap = view[v].snap /\ w.maint = view[v].maint
          /\ w.covered = view[v].covered
      BY <1>2 DEF LiveView
    <2>3. Reading(w) /\ Covered(w)
      BY <1>2, <2>1, <2>2 DEF Reading, Covered
    <2>. HIDE DEF w
    <2>. QED BY <1>1, <2>1, <2>2, <2>3, OneView
  <1>4. CASE Live!EndView(v)
    <2>1. view' = [view EXCEPT ![v] = Live!IdleView]
      BY <1>4 DEF Live!EndView
    <2>2. Live!IdleView \in LiveView /\ Live!IdleView.pc = "idle"
      BY DEF Live!IdleView, LiveView, MaybeAge
    <2>3. Reading(Live!IdleView) /\ Covered(Live!IdleView)
      BY DEF Live!IdleView, Reading, Covered
    <2>. QED BY <1>1, <2>1, <2>2, <2>3, OneView
  <1>. QED BY <1>3, <1>4

\* An override is "now": it is no older than what was acknowledged when no agent's
\* clock is ahead.
LEMMA LiveOverrideStep ==
  ASSUME LiveInv, Skew = 0, NEW n \in LiveNodes, Live!UpdateGpuNodeHeartbeat(n)
  PROVE  LiveInv'
  <1>. USE Constants
  <1>1. /\ beat' = [beat EXCEPT ![n] = 0]
        /\ UNCHANGED <<present, snapshot, metrics, window, report, view, acked>>
    BY DEF Live!UpdateGpuNodeHeartbeat
  <1>2. \A m \in LiveNodes : beat'[m] = IF m = n THEN 0 ELSE beat[m]
    BY <1>1 DEF LiveInv, LiveTypes
  <1>3. 0 \in Age /\ 0 # None /\ \A a \in Age : 0 <= a
    BY DEF Age
  <1>4. LiveTypes'
    <2>1. beat' \in [LiveNodes -> MaybeAge]
      BY <1>1, <1>3 DEF LiveInv, LiveTypes, MaybeAge
    <2>. QED BY <1>1, <2>1 DEF LiveInv, LiveTypes
  <1>5. OneByOne'
    BY <1>1 DEF LiveInv, OneByOne
  <1>6. \A m \in LiveNodes : Fresh(m)'
    BY <1>1, <1>2, <1>3 DEF LiveInv, LiveTypes, Fresh, MaybeAge
  <1>7. \A b \in LiveAgents : Underway(report[b])'
    <2>. SUFFICES ASSUME NEW b \in LiveAgents
                  PROVE  Underway(report[b])'
      OBVIOUS
    <2>1. Underway(report[b]) /\ report[b].age \in Age /\ present \subseteq LiveNodes
      BY DEF LiveInv, LiveTypes, LiveReport
    <2>2. report' = report /\ present' = present /\ snapshot' = snapshot /\ metrics' = metrics
      BY <1>1
    <2>3. report[b].node \in present => beat'[report[b].node] \in {0, beat[report[b].node]}
      BY <1>2, <2>1
    <2>. QED BY <1>3, <2>1, <2>2, <2>3 DEF Underway
  <1>8. ViewsOK'
    BY <1>1, ViewsKept DEF LiveInv, LiveTypes, MaybeAge, Age
  <1>. QED BY <1>4, <1>5, <1>6, <1>7, <1>8 DEF LiveInv

\* A view that no longer counts a node as covered is still true.
LEMMA ViewsUncovered ==
  ASSUME LiveInv, NEW n \in LiveNodes, UNCHANGED acked,
         \A m \in LiveNodes \ {n} : window'[m] = window[m],
         view' \in [LiveViews -> LiveView],
         \A v \in LiveViews :
           \/ /\ view'[v] = view[v]
              /\ Live!Active(window'[n], view[v].behind) \/ n \notin view[v].covered
           \/ view'[v] = [view[v] EXCEPT !.covered = @ \ {n}]
  PROVE  ViewsOK'
  <1>. SUFFICES ASSUME NEW v \in LiveViews
                PROVE  /\ view'[v].pc = "answered" => view'[v].snap # None /\ view'[v].maint # None
                       /\ Reading(view[v])' /\ Covered(view[v])'
    BY DEF ViewsOK
  <1>1. /\ view[v] \in LiveView /\ Reading(view[v]) /\ Covered(view[v])
        /\ view[v].pc = "answered" => view[v].snap # None /\ view[v].maint # None
    BY DEF LiveInv, LiveTypes, ViewsOK
  <1>2. CASE /\ view'[v] = view[v]
             /\ Live!Active(window'[n], view[v].behind) \/ n \notin view[v].covered
    <2>1. Reading(view[v])'
      BY <1>1, <1>2 DEF Reading
    <2>2. Covered(view[v])'
      BY <1>1, <1>2 DEF Covered, LiveView
    <2>. QED BY <1>1, <1>2, <2>1, <2>2
  <1>3. CASE view'[v] = [view[v] EXCEPT !.covered = @ \ {n}]
    <2>1. /\ view'[v].pc = view[v].pc /\ view'[v].of = view[v].of /\ view'[v].own = view[v].own
          /\ view'[v].seen = view[v].seen /\ view'[v].snap = view[v].snap
          /\ view'[v].maint = view[v].maint /\ view'[v].behind = view[v].behind
          /\ view'[v].covered = view[v].covered \ {n}
      BY <1>1, <1>3 DEF LiveView
    <2>2. Reading(view[v])'
      BY <1>1, <2>1 DEF Reading
    <2>3. Covered(view[v])'
      BY <1>1, <2>1 DEF Covered, LiveView
    <2>. QED BY <1>1, <2>1, <2>2, <2>3
  <1>. QED BY <1>2, <1>3

LEMMA UncoveredType ==
  ASSUME NEW w \in LiveView, NEW n
  PROVE  [w EXCEPT !.covered = @ \ {n}] \in LiveView
  BY DEF LiveView

LEMMA LiveDeleteStep ==
  ASSUME LiveInv, NEW n \in LiveNodes, Live!DeleteGpuNode(n)
  PROVE  LiveInv'
  <1>. USE Constants
  <1>1. /\ present' = present \ {n}
        /\ beat' = [beat EXCEPT ![n] = None] /\ snapshot' = [snapshot EXCEPT ![n] = None]
        /\ metrics' = [metrics EXCEPT ![n] = {}] /\ window' = [window EXCEPT ![n] = Live!NoWindow]
        /\ view' = [v \in LiveViews |-> [view[v] EXCEPT !.covered = @ \ {n}]]
        /\ UNCHANGED <<report, acked>>
    BY DEF Live!DeleteGpuNode
  <1>2. \A m \in LiveNodes \ {n} : /\ snapshot'[m] = snapshot[m] /\ metrics'[m] = metrics[m]
                                   /\ beat'[m] = beat[m] /\ window'[m] = window[m]
    BY <1>1 DEF LiveInv, LiveTypes
  <1>3. view' \in [LiveViews -> LiveView]
    BY <1>1, UncoveredType DEF LiveInv, LiveTypes
  <1>4. LiveTypes'
    <2>1. window' \in [LiveNodes -> WindowRow]
      BY <1>1 DEF LiveInv, LiveTypes, Live!NoWindow, WindowRow
    <2>2. /\ present' \subseteq LiveNodes
          /\ beat' \in [LiveNodes -> MaybeAge] /\ snapshot' \in [LiveNodes -> MaybeAge]
          /\ metrics' \in [LiveNodes -> SUBSET Age]
      BY <1>1 DEF LiveInv, LiveTypes, MaybeAge
    <2>. QED BY <1>1, <1>3, <2>1, <2>2 DEF LiveInv, LiveTypes
  <1>5. OneByOne'
    BY <1>1 DEF LiveInv, OneByOne
  <1>6. \A m \in LiveNodes : Fresh(m)'
    <2>1. snapshot'[n] = None
      BY <1>1 DEF LiveInv, LiveTypes
    <2>. QED BY <1>1, <1>2, <2>1 DEF LiveInv, Fresh
  <1>7. \A b \in LiveAgents : Underway(report[b])'
    <2>. SUFFICES ASSUME NEW b \in LiveAgents
                  PROVE  Underway(report[b])'
      OBVIOUS
    <2>. DEFINE m == report[b].node
    <2>1. Underway(report[b]) /\ report' = report /\ present \subseteq LiveNodes
      BY <1>1 DEF LiveInv, LiveTypes
    <2>2. m \in present' =>
            /\ m \in present
            /\ snapshot'[m] = snapshot[m] /\ metrics'[m] = metrics[m] /\ beat'[m] = beat[m]
      BY <1>1, <1>2, <2>1
    <2>. QED BY <2>1, <2>2 DEF Underway
  <1>8. ViewsOK'
    <2>1. \A v \in LiveViews : view'[v] = [view[v] EXCEPT !.covered = @ \ {n}]
      BY <1>1
    <2>. QED BY <1>1, <1>2, <1>3, <2>1, ViewsUncovered
  <1>. QED BY <1>4, <1>5, <1>6, <1>7, <1>8 DEF LiveInv

LEMMA LiveSetWindowStep ==
  ASSUME LiveInv, NEW n \in LiveNodes, NEW w \in Live!Windows, Live!SetWindow(n, w)
  PROVE  LiveInv'
  <1>. USE Constants
  <1>1. /\ window' = [window EXCEPT ![n] = w]
        /\ view' = [v \in LiveViews |->
             IF Live!Active(w, view[v].behind) THEN view[v] ELSE [view[v] EXCEPT !.covered = @ \ {n}]]
        /\ UNCHANGED <<present, beat, snapshot, metrics, report, acked>>
    BY DEF Live!SetWindow
  <1>2. w \in WindowRow
    BY DEF Live!Windows, Live!NoWindow, WindowRow
  <1>3. view' \in [LiveViews -> LiveView]
    BY <1>1, UncoveredType DEF LiveInv, LiveTypes
  <1>4. LiveTypes'
    <2>1. window' \in [LiveNodes -> WindowRow]
      BY <1>1, <1>2 DEF LiveInv, LiveTypes
    <2>. QED BY <1>1, <1>3, <2>1 DEF LiveInv, LiveTypes
  <1>5. OneByOne' /\ \A m \in LiveNodes : Fresh(m)'
    BY <1>1 DEF LiveInv, OneByOne, Fresh
  <1>6. \A b \in LiveAgents : Underway(report[b])'
    BY <1>1 DEF LiveInv, Underway
  <1>7. ViewsOK'
    <2>1. window'[n] = w /\ \A m \in LiveNodes \ {n} : window'[m] = window[m]
      BY <1>1 DEF LiveInv, LiveTypes
    <2>2. \A v \in LiveViews :
            \/ view'[v] = view[v] /\ Live!Active(window'[n], view[v].behind)
            \/ view'[v] = [view[v] EXCEPT !.covered = @ \ {n}]
      BY <1>1, <2>1
    <2>. QED BY <1>1, <1>3, <2>1, <2>2, ViewsUncovered
  <1>. QED BY <1>4, <1>5, <1>6, <1>7 DEF LiveInv

LEMMA LiveTickStep ==
  ASSUME LiveInv, Live!Tick
  PROVE  LiveInv'
  <1>. USE Constants
  <1>. DEFINE Aged(a) == Live!Older(a)
  <1>1. /\ beat' = [n \in LiveNodes |-> Aged(beat[n])]
        /\ snapshot' = [n \in LiveNodes |-> Aged(snapshot[n])]
        /\ metrics' = [n \in LiveNodes |-> {Aged(a) : a \in metrics[n]}]
        /\ acked' = [n \in LiveNodes |-> Aged(acked[n])]
        /\ present' = present
    BY DEF Live!Tick
  <1>2. /\ Aged(None) = None
        /\ \A a \in Age : Aged(a) \in Age /\ Aged(a) # None /\ Aged(a) - 1 <= a
        /\ \A a, b \in Age : a <= b => Aged(a) <= Aged(b)
    BY OlderAge
  <1>. HIDE DEF Aged
  <1>3. \A a \in MaybeAge : Aged(a) \in MaybeAge /\ (Aged(a) = None <=> a = None)
    BY <1>2 DEF MaybeAge, Age
  <1>4. \A n \in LiveNodes : /\ beat[n] \in MaybeAge /\ snapshot[n] \in MaybeAge /\ acked[n] \in MaybeAge
                             /\ metrics[n] \subseteq Age /\ window[n] \in WindowRow
    BY DEF LiveInv, LiveTypes
  <1>5. \A a \in LiveAgents : /\ report'[a] \in LiveReport
                              /\ report'[a].pc = report[a].pc /\ report'[a].node = report[a].node
                              /\ report[a].node # None => report'[a].age = Aged(report[a].age)
    <2>. SUFFICES ASSUME NEW a \in LiveAgents
                  PROVE  /\ report'[a] \in LiveReport
                         /\ report'[a].pc = report[a].pc /\ report'[a].node = report[a].node
                         /\ report[a].node # None => report'[a].age = Aged(report[a].age)
      OBVIOUS
    <2>1. report[a] \in LiveReport
      BY DEF LiveInv, LiveTypes
    <2>2. report'[a] = IF report[a] = Live!IdleReport THEN Live!IdleReport
                       ELSE [report[a] EXCEPT !.age = Aged(report[a].age)]
      BY DEF Live!Tick, Aged
    <2>3. CASE report[a] = Live!IdleReport
      BY <2>1, <2>2, <2>3 DEF Live!IdleReport
    <2>4. CASE report[a] # Live!IdleReport
      BY <1>2, <2>1, <2>2, <2>4 DEF LiveReport
    <2>. QED BY <2>3, <2>4
  <1>6. \A v \in LiveViews :
          /\ view[v].pc # "answered" /\ view[v].behind = 0
          /\ view'[v] = IF view[v].pc = "reading" THEN [view[v] EXCEPT !.behind = 1] ELSE view[v]
    BY DEF Live!Tick
  <1>7. \A n \in LiveNodes :
          /\ window'[n] \in WindowRow
          /\ Live!Active(window[n], 0) => Live!Active(window'[n], 1)
    <2>. SUFFICES ASSUME NEW n \in LiveNodes
                  PROVE  /\ window'[n] \in WindowRow
                         /\ Live!Active(window[n], 0) => Live!Active(window'[n], 1)
      OBVIOUS
    <2>. DEFINE w == window[n]
    <2>1. window'[n] = IF w.status # "SCHEDULED" THEN w
                       ELSE IF w.closes = 1 THEN Live!NoWindow
                       ELSE [w EXCEPT !.opens = @ + 1, !.closes = @ + 1]
      BY DEF Live!Tick
    <2>2. w \in WindowRow
      BY <1>4
    <2>. HIDE DEF w
    <2>3. CASE w.status # "SCHEDULED"
      BY <2>1, <2>2, <2>3 DEF Live!Active, w
    <2>4. CASE w.status = "SCHEDULED" /\ w.closes = 1
      BY <2>1, <2>2, <2>4 DEF Live!Active, WindowRow, Live!NoWindow, w
    <2>5. CASE w.status = "SCHEDULED" /\ w.closes # 1
      <3>1. w.opens + 1 \in Int /\ w.closes + 1 \in Int
        BY <2>2 DEF WindowRow
      <3>2. window'[n] = [w EXCEPT !.opens = w.opens + 1, !.closes = w.closes + 1]
        BY <2>1, <2>5
      <3>3. /\ window'[n] \in WindowRow /\ window'[n].status = "SCHEDULED"
            /\ window'[n].opens = w.opens + 1 /\ window'[n].closes = w.closes + 1
        BY <2>2, <2>5, <3>1, <3>2 DEF WindowRow
      <3>. QED BY <2>2, <2>5, <3>3 DEF Live!Active, WindowRow, w
    <2>. QED BY <2>3, <2>4, <2>5
  <1>8. LiveTypes'
    <2>1. /\ beat' \in [LiveNodes -> MaybeAge] /\ snapshot' \in [LiveNodes -> MaybeAge]
          /\ acked' \in [LiveNodes -> MaybeAge]
      BY <1>1, <1>3, <1>4
    <2>2. metrics' \in [LiveNodes -> SUBSET Age]
      BY <1>1, <1>2, <1>4
    <2>3. window' \in [LiveNodes -> WindowRow]
      BY <1>7 DEF Live!Tick
    <2>4. report' \in [LiveAgents -> LiveReport]
      BY <1>5 DEF Live!Tick
    <2>5. view' \in [LiveViews -> LiveView]
      <3>1. \A v \in LiveViews : view[v] \in LiveView
        BY DEF LiveInv, LiveTypes
      <3>2. \A w \in LiveView : [w EXCEPT !.behind = 1] \in LiveView
        BY DEF LiveView
      <3>3. \A v \in LiveViews : view'[v] \in LiveView
        BY <1>6, <3>1, <3>2
      <3>. QED BY <3>3 DEF Live!Tick
    <2>. QED BY <1>1, <2>1, <2>2, <2>3, <2>4, <2>5 DEF LiveInv, LiveTypes
  <1>9. OneByOne'
    BY <1>5 DEF LiveInv, OneByOne
  <1>10. \A n \in LiveNodes : Fresh(n)'
    <2>. SUFFICES ASSUME NEW n \in LiveNodes
                  PROVE  Fresh(n)'
      OBVIOUS
    <2>1. Fresh(n)
      BY DEF LiveInv
    <2>2. /\ beat'[n] = Aged(beat[n]) /\ snapshot'[n] = Aged(snapshot[n]) /\ acked'[n] = Aged(acked[n])
          /\ metrics'[n] = {Aged(a) : a \in metrics[n]}
      BY <1>1
    <2>3. n \notin present' => snapshot'[n] = None
      BY <1>1, <1>2, <2>1, <2>2 DEF Fresh
    <2>4. ASSUME n \in present', acked'[n] # None
          PROVE  /\ acked'[n] \in metrics'[n]
                 /\ beat'[n] # None /\ beat'[n] <= acked'[n]
                 /\ snapshot'[n] # None /\ snapshot'[n] <= acked'[n]
      <3>1. n \in present /\ acked[n] # None
        BY <1>1, <1>2, <2>2, <2>4
      <3>2. /\ acked[n] \in metrics[n]
            /\ beat[n] # None /\ beat[n] <= acked[n]
            /\ snapshot[n] # None /\ snapshot[n] <= acked[n]
        BY <2>1, <3>1 DEF Fresh
      <3>3. acked[n] \in Age /\ beat[n] \in Age /\ snapshot[n] \in Age
        BY <1>4, <3>1, <3>2 DEF MaybeAge
      <3>. QED BY <1>2, <2>2, <3>2, <3>3
    <2>. QED BY <2>3, <2>4 DEF Fresh
  <1>11. \A a \in LiveAgents : Underway(report[a])'
    <2>. SUFFICES ASSUME NEW a \in LiveAgents, report'[a].node \in present'
                  PROVE  Underway(report[a])'
      BY DEF Underway
    <2>. DEFINE n == report[a].node  r == report'[a]
    <2>1. /\ Underway(report[a]) /\ n \in present /\ n \in LiveNodes /\ report[a].age \in Age
          /\ r.node = n /\ r.pc = report[a].pc /\ r.age = Aged(report[a].age)
      BY <1>1, <1>5 DEF LiveInv, LiveTypes, LiveReport
    <2>2. /\ beat'[n] = Aged(beat[n]) /\ snapshot'[n] = Aged(snapshot[n])
          /\ metrics'[n] = {Aged(c) : c \in metrics[n]}
      BY <1>1, <2>1
    <2>3. \A b \in metrics'[n] : r.age <= b
      <3>1. \A c \in metrics[n] : c \in Age /\ report[a].age <= c
        BY <1>4, <2>1 DEF Underway
      <3>. QED BY <1>2, <2>1, <2>2, <3>1
    <2>4. /\ r.pc \in {"metric", "node", "reply"} => snapshot'[n] = r.age
          /\ r.pc \in {"node", "reply"} => r.age \in metrics'[n]
      BY <2>1, <2>2 DEF Underway
    <2>5. r.pc = "reply" => beat'[n] # None /\ beat'[n] <= r.age
      <3>1. ASSUME r.pc = "reply"
            PROVE  beat[n] \in Age /\ beat[n] <= report[a].age
        BY <1>4, <2>1, <3>1 DEF Underway, MaybeAge
      <3>. QED BY <1>2, <2>1, <2>2, <3>1
    <2>. QED BY <1>1, <2>1, <2>3, <2>4, <2>5 DEF Underway
  <1>12. ViewsOK'
    <2>. SUFFICES ASSUME NEW v \in LiveViews
                  PROVE  /\ view'[v].pc = "answered" => view'[v].snap # None /\ view'[v].maint # None
                         /\ Reading(view[v])' /\ Covered(view[v])'
      BY DEF ViewsOK
    <2>1. view[v] \in LiveView /\ Reading(view[v]) /\ Covered(view[v])
      BY DEF LiveInv, LiveTypes, ViewsOK
    <2>2. /\ view'[v].pc = view[v].pc /\ view'[v].of = view[v].of /\ view'[v].own = view[v].own
          /\ view'[v].seen = view[v].seen /\ view'[v].snap = view[v].snap
          /\ view'[v].maint = view[v].maint /\ view'[v].covered = view[v].covered
          /\ view[v].pc = "reading" => view'[v].behind = 1
      BY <1>6, <2>1 DEF LiveView
    <2>3. Reading(view[v])'
      <3>1. ASSUME NEW n \in view[v].of, view[v].seen[n] # None, view[v].pc = "reading"
            PROVE  acked'[n] # None /\ acked'[n] - 1 <= view[v].seen[n]
        <4>1. n \in LiveNodes /\ view[v].seen[n] \in Age
          BY <2>1, <3>1 DEF LiveView, MaybeAge
        <4>2. acked[n] # None /\ acked[n] - 0 <= view[v].seen[n]
          BY <1>6, <2>1, <3>1 DEF Reading
        <4>3. acked[n] \in Age /\ acked'[n] = Aged(acked[n])
          BY <1>1, <1>4, <4>1, <4>2 DEF MaybeAge
        <4>4. acked'[n] \in Age /\ acked'[n] - 1 <= acked[n] /\ acked'[n] # None
          BY <1>2, <4>3
        <4>. QED BY <4>1, <4>2, <4>3, <4>4 DEF Age
      <3>. QED BY <2>1, <2>2, <3>1 DEF Reading
    <2>4. Covered(view[v])'
      <3>1. view[v].pc = "reading" => \A n \in view[v].covered : Live!Active(window'[n], 1)
        BY <1>6, <1>7, <2>1 DEF Covered, LiveView
      <3>. QED BY <2>1, <2>2, <3>1 DEF Covered
    <2>. QED BY <1>6, <2>2, <2>3, <2>4
  <1>. QED BY <1>8, <1>9, <1>10, <1>11, <1>12 DEF LiveInv

\* Which nodes have been overridden is known of all of them.
Overridable == overridden = [n \in LiveNodes |-> overridden[n]]

LEMMA OverridableStep ==
  ASSUME Overridable, [Live!Next]_vars
  PROVE  Overridable'
  <1>1. CASE \E n \in LiveNodes, x \in {0, None} : overridden' = [overridden EXCEPT ![n] = x]
    BY <1>1 DEF Overridable
  <1>2. CASE overridden' = overridden
    BY <1>2 DEF Overridable
  <1>3. CASE overridden' = [n \in LiveNodes |-> Live!Older(overridden[n])]
    BY <1>3 DEF Overridable
  <1>4. ASSUME NEW a \in LiveAgents, Live!UpsertHealthSnapshot(a)
        PROVE  overridden' = [overridden EXCEPT ![report[a].node] = None]
    BY <1>4 DEF Live!UpsertHealthSnapshot
  <1>5. ASSUME NEW a \in LiveAgents, overridden' = [overridden EXCEPT ![report[a].node] = None]
        PROVE  Overridable'
    BY <1>5 DEF Overridable
  <1>. QED
    BY <1>1, <1>2, <1>3, <1>4, <1>5
    DEF Live!Next, vars, Live!ReportStep, Live!CreateMetric, Live!UpdateLastHeartbeat, Live!Acknowledge,
        Live!Fail, Live!Report, Live!ViewStep, Live!ReadNodes, Live!ReadSnapshots, Live!ReadMaintenance,
        Live!Answer, Live!EndView, Live!UpdateGpuNodeHeartbeat, Live!DeleteGpuNode, Live!SetWindow,
        Live!Tick

\* Overrides by hand are left out, or no clock is ahead.
LEMMA LiveStep ==
  ASSUME LiveInv, Overridable, [Live!Next]_vars, Skew = 0 \/ \A n \in LiveNodes : overridden'[n] = None
  PROVE  LiveInv'
  <1>1. ASSUME NEW a \in LiveAgents, Live!ReportStep(a)
        PROVE  LiveInv'
    BY <1>1, LiveUpsertStep, LiveCreateMetricStep, LiveUpdateStep, LiveEndStep DEF Live!ReportStep
  <1>2. ASSUME NEW v \in LiveViews, Live!ViewStep(v)
        PROVE  LiveInv'
    <2>1. ASSUME NEW n \in present
          PROVE  {n} \in SUBSET present
      OBVIOUS
    <2>. QED BY <1>2, <2>1, LiveReadNodesStep, LiveReadSnapshotsStep, LiveReadMaintenanceStep, LiveAnswerStep
             DEF Live!ViewStep
  <1>3. ASSUME NEW n \in LiveNodes, Live!UpdateGpuNodeHeartbeat(n)
        PROVE  LiveInv'
    <2>1. CASE Skew = 0
      BY <1>3, <2>1, LiveOverrideStep
    <2>2. CASE \A m \in LiveNodes : overridden'[m] = None
      <3>1. overridden' = [overridden EXCEPT ![n] = 0]
        BY <1>3 DEF Live!UpdateGpuNodeHeartbeat
      <3>2. overridden'[n] = 0
        BY <3>1 DEF Overridable
      <3>. QED BY <2>2, <3>2, Constants
    <2>. QED BY <2>1, <2>2
  <1>4. ASSUME NEW n \in LiveNodes, Live!DeleteGpuNode(n) \/ \E w \in Live!Windows : Live!SetWindow(n, w)
        PROVE  LiveInv'
    BY <1>4, LiveDeleteStep, LiveSetWindowStep
  <1>5. CASE UNCHANGED vars
    BY <1>5 DEF vars, tables, LiveInv, LiveTypes, OneByOne, Fresh, Underway, ViewsOK, Reading, Covered
  <1>. QED BY <1>1, <1>2, <1>3, <1>4, <1>5, LiveReportStep, LiveTickStep DEF Live!Next

\* What was acknowledged is seen, and maintenance is not an incident, for any
\* nodes, thresholds, agents and requests, although reports fail between their
\* statements, nodes are deleted between the reads of a request and heartbeats
\* are overridden by hand: if the clocks of agents are not ahead of the server.
THEOREM LiveCorrect ==
  ASSUME Skew = 0
  PROVE  Live!Spec => [](Live!AcknowledgedIsSeen /\ Live!MaintenanceIsNotAnIncident)
  <1>1. Live!Init => LiveInv /\ Overridable
    BY LiveInit DEF Live!Init, Overridable
  <1>2. LiveInv /\ Overridable /\ [Live!Next]_vars => LiveInv' /\ Overridable'
    BY LiveStep, OverridableStep
  <1>3. LiveInv => Live!AcknowledgedIsSeen /\ Live!MaintenanceIsNotAnIncident
    BY LiveAnswers
  <1>. QED BY <1>1, <1>2, <1>3, PTL DEF Live!Spec, Live!vars, Live!tables, vars, tables

\* The answers of the checked part are true, however far an agent's clock may be
\* ahead: no heartbeat is overridden in it.
THEOREM LiveIsTrueCorrect == PartsSpec => []LiveIsTrue
  <1>. DEFINE Inv == part = "live" => LiveInv /\ Overridable
  <1>1. PartsInit => Inv
    BY LiveInit DEF PartsInit, Live!Init, Overridable
  <1>2. Inv /\ [PartsNext]_<<allVars, part>> => Inv'
    <2>. SUFFICES ASSUME Inv, [PartsNext]_<<allVars, part>>, part' = "live"
                  PROVE  LiveInv' /\ Overridable'
      OBVIOUS
    <2>1. part = "live" /\ LiveInv /\ Overridable
      BY DEF PartsNext
    <2>2. CASE PartsNext
      <3>1. Live!Next /\ \A n \in LiveNodes : overridden'[n] = None
        BY <2>1, <2>2 DEF PartsNext, Within
      <3>. QED BY <2>1, <3>1, LiveStep, OverridableStep
    <2>3. CASE UNCHANGED <<allVars, part>>
      <3>1. UNCHANGED vars
        BY <2>3 DEF allVars
      <3>2. LiveInv'
        BY <2>1, <3>1
        DEF vars, tables, LiveInv, LiveTypes, OneByOne, Fresh, Underway, ViewsOK, Reading, Covered
      <3>. QED BY <2>1, <3>1, <3>2, OverridableStep
    <2>. QED BY <2>2, <2>3
  <1>3. Inv => LiveIsTrue
    BY LiveAnswers DEF LiveIsTrue
  <1>. QED BY <1>1, <1>2, <1>3, PTL DEF PartsSpec

-----------------------------------------------------------------------------
(* Reports of several nodes, none of which fails half-way *)

WholeReport == [pc : {"idle", "snapshot", "metric", "node", "reply"}, node : Nodes \cup {None}, age : Age]

WholeTypes ==
  /\ present \subseteq Nodes
  /\ beat \in [Nodes -> MaybeAge] /\ snapshot \in [Nodes -> MaybeAge]
  /\ overridden \in [Nodes -> MaybeAge] /\ metrics \in [Nodes -> SUBSET Age]
  /\ report \in [WholeAgents -> WholeReport]

InTurns ==
  /\ \A a \in WholeAgents : report[a].pc = "idle" <=> report[a].node = None
  /\ \A a, b \in WholeAgents : report[a].node = report[b].node /\ report[a].node # None => a = b

\* The tables agree about a node while no report has begun to write; one that
\* has begun has written what it has written, unless overridden since.
Agrees(n) ==
  n \in present =>
    /\ (\A a \in WholeAgents : report[a].node = n => report[a].pc = "snapshot") =>
         /\ snapshot[n] # None => snapshot[n] \in metrics[n]
         /\ overridden[n] = None => beat[n] = snapshot[n]
    /\ \A a \in WholeAgents : report[a].node = n =>
         /\ report[a].pc \in {"metric", "node", "reply"} => snapshot[n] = report[a].age
         /\ report[a].pc \in {"node", "reply"} => report[a].age \in metrics[n]
         /\ report[a].pc = "reply" /\ overridden[n] = None => beat[n] = report[a].age

WholeInv == WholeTypes /\ InTurns /\ \A n \in Nodes : Agrees(n)

LEMMA WholeInit ==
  ASSUME Whole!Init
  PROVE  WholeInv
  <1>. USE Constants
  <1>1. WholeTypes
    BY DEF Whole!Init, WholeTypes, MaybeAge, Age, Whole!IdleReport, WholeReport
  <1>. QED BY <1>1 DEF Whole!Init, WholeInv, InTurns, Agrees, Whole!IdleReport

\* What a report does to its node is nothing to the other nodes.
LEMMA AgreesElsewhere ==
  ASSUME WholeInv, NEW n \in Nodes, NEW a \in WholeAgents, NEW r \in WholeReport,
         r.node \in {n, None}, report[a].node \in {n, None},
         report' = [report EXCEPT ![a] = r], UNCHANGED present,
         \A m \in Nodes \ {n} :
           /\ snapshot'[m] = snapshot[m] /\ metrics'[m] = metrics[m]
           /\ beat'[m] = beat[m] /\ overridden'[m] = overridden[m],
         \A b \in WholeAgents : report[b].node = n => b = a,
         r.node = None <=> r.pc = "idle"
  PROVE  /\ InTurns' /\ \A m \in Nodes \ {n} : Agrees(m)'
         /\ report' \in [WholeAgents -> WholeReport]
         /\ \A b \in WholeAgents : report'[b] = IF b = a THEN r ELSE report[b]
  <1>. USE Constants
  <1>1. \A b \in WholeAgents : report'[b] = IF b = a THEN r ELSE report[b]
    BY DEF WholeInv, WholeTypes
  <1>2. report' \in [WholeAgents -> WholeReport]
    BY DEF WholeInv, WholeTypes
  <1>3. InTurns'
    BY <1>1 DEF WholeInv, InTurns
  <1>4. ASSUME NEW m \in Nodes \ {n}
        PROVE  Agrees(m)'
    <2>1. \A b \in WholeAgents : /\ report'[b].node = m <=> report[b].node = m
                                 /\ report[b].node = m => report'[b] = report[b]
      BY <1>1
    <2>2. Agrees(m) /\ present' = present
      BY DEF WholeInv
    <2>. QED BY <2>1, <2>2 DEF Agrees
  <1>. QED BY <1>1, <1>2, <1>3, <1>4

\* A report in flight is the only one of its node.
LEMMA WholeInFlight ==
  ASSUME WholeInv, NEW a \in WholeAgents, report[a].pc # "idle"
  PROVE  /\ report[a] \in WholeReport /\ report[a].node \in Nodes /\ report[a].age \in Age
         /\ \A b \in WholeAgents : report[b].node = report[a].node => b = a
         /\ Agrees(report[a].node)
  <1>1. report[a] \in WholeReport /\ report[a].node # None
    BY DEF WholeInv, WholeTypes, InTurns
  <1>2. report[a].node \in Nodes /\ report[a].age \in Age
    BY <1>1 DEF WholeReport
  <1>. QED BY <1>1, <1>2 DEF WholeInv, InTurns

LEMMA WholeReportStep ==
  ASSUME WholeInv, NEW a \in WholeAgents, NEW n \in Nodes, NEW age \in Whole!Ages,
         Whole!Report(a, n, age)
  PROVE  WholeInv'
  <1>. USE Constants
  <1>. DEFINE r == [pc |-> "snapshot", node |-> n, age |-> age]
  <1>1. /\ report[a].node = None /\ report' = [report EXCEPT ![a] = r]
        /\ UNCHANGED <<present, beat, snapshot, metrics, overridden>>
        /\ \A b \in WholeAgents : report[b].node # n
    BY DEF Whole!Report, Whole!InTurn, Whole!IdleReport, Whole!tables
  <1>2. r \in WholeReport /\ r.node = n /\ r.pc = "snapshot"
    BY DEF WholeReport
  <1>. HIDE DEF r
  <1>3. /\ InTurns' /\ \A m \in Nodes \ {n} : Agrees(m)'
        /\ report' \in [WholeAgents -> WholeReport]
        /\ \A b \in WholeAgents : report'[b] = IF b = a THEN r ELSE report[b]
    BY <1>1, <1>2, AgreesElsewhere
  <1>4. Agrees(n)'
    <2>1. Agrees(n)
      BY DEF WholeInv
    <2>. QED BY <1>1, <1>2, <1>3, <2>1 DEF Agrees
  <1>5. WholeTypes'
    BY <1>1, <1>3 DEF WholeInv, WholeTypes
  <1>. QED BY <1>3, <1>4, <1>5 DEF WholeInv

LEMMA WholeUpsertStep ==
  ASSUME WholeInv, NEW a \in WholeAgents, Whole!UpsertHealthSnapshot(a)
  PROVE  WholeInv'
  <1>. USE Constants
  <1>. PICK n : n = report[a].node
    OBVIOUS
  <1>. DEFINE r == [report[a] EXCEPT !.pc = "metric"]
  <1>1. /\ n \in present /\ report[a].pc = "snapshot" /\ report' = [report EXCEPT ![a].pc = "metric"]
        /\ snapshot' = [snapshot EXCEPT ![n] = report[a].age]
        /\ overridden' = [overridden EXCEPT ![n] = None]
        /\ UNCHANGED <<present, beat, metrics>>
    BY DEF Whole!UpsertHealthSnapshot, Whole!Goto
  <1>2. /\ report[a] \in WholeReport /\ n \in Nodes /\ report[a].age \in Age
        /\ \A b \in WholeAgents : report[b].node = n => b = a
    BY <1>1, WholeInFlight
  <1>3. r \in WholeReport /\ r.node = n /\ r.pc = "metric" /\ r.age = report[a].age
    BY <1>2 DEF WholeReport
  <1>4. \A m \in Nodes : /\ snapshot'[m] = IF m = n THEN report[a].age ELSE snapshot[m]
                         /\ overridden'[m] = IF m = n THEN None ELSE overridden[m]
    BY <1>1 DEF WholeInv, WholeTypes
  <1>5. report' = [report EXCEPT ![a] = r]
    BY <1>1
  <1>. HIDE DEF r
  <1>6. \A m \in Nodes \ {n} :
           /\ snapshot'[m] = snapshot[m] /\ metrics'[m] = metrics[m]
           /\ beat'[m] = beat[m] /\ overridden'[m] = overridden[m]
    BY <1>1, <1>2, <1>4
  <1>7. r.node \in {n, None} /\ report[a].node \in {n, None} /\ (r.node = None <=> r.pc = "idle")
    BY <1>2, <1>3
  <1>8. /\ InTurns' /\ \A m \in Nodes \ {n} : Agrees(m)'
        /\ report' \in [WholeAgents -> WholeReport]
        /\ \A b \in WholeAgents : report'[b] = IF b = a THEN r ELSE report[b]
    <2>1. UNCHANGED present /\ n \in Nodes /\ \A b \in WholeAgents : report[b].node = n => b = a
      BY <1>1, <1>2
    <2>. QED BY <1>3, <1>5, <1>6, <1>7, <2>1, AgreesElsewhere
  <1>9. Agrees(n)'
    BY <1>2, <1>3, <1>4, <1>8 DEF Agrees
  <1>10. snapshot' \in [Nodes -> MaybeAge] /\ overridden' \in [Nodes -> MaybeAge]
    BY <1>1, <1>2 DEF WholeInv, WholeTypes, MaybeAge
  <1>11. WholeTypes'
    BY <1>1, <1>8, <1>10 DEF WholeInv, WholeTypes
  <1>. QED BY <1>8, <1>9, <1>11 DEF WholeInv

LEMMA WholeCreateMetricStep ==
  ASSUME WholeInv, NEW a \in WholeAgents, Whole!CreateMetric(a)
  PROVE  WholeInv'
  <1>. USE Constants
  <1>. PICK n : n = report[a].node
    OBVIOUS
  <1>. DEFINE r == [report[a] EXCEPT !.pc = "node"]
  <1>1. /\ n \in present /\ report[a].pc = "metric" /\ report' = [report EXCEPT ![a].pc = "node"]
        /\ metrics' = [metrics EXCEPT ![n] = @ \cup {report[a].age}]
        /\ UNCHANGED <<present, beat, snapshot, overridden>>
    BY DEF Whole!CreateMetric, Whole!Goto
  <1>2. /\ report[a] \in WholeReport /\ n \in Nodes /\ report[a].age \in Age
        /\ \A b \in WholeAgents : report[b].node = n => b = a
        /\ Agrees(n)
    BY <1>1, WholeInFlight
  <1>3. r \in WholeReport /\ r.node = n /\ r.pc = "node" /\ r.age = report[a].age
    BY <1>2 DEF WholeReport
  <1>4. \A m \in Nodes : metrics'[m] = IF m = n THEN metrics[n] \cup {report[a].age} ELSE metrics[m]
    BY <1>1 DEF WholeInv, WholeTypes
  <1>5. report' = [report EXCEPT ![a] = r]
    BY <1>1
  <1>. HIDE DEF r
  <1>6. \A m \in Nodes \ {n} :
           /\ snapshot'[m] = snapshot[m] /\ metrics'[m] = metrics[m]
           /\ beat'[m] = beat[m] /\ overridden'[m] = overridden[m]
    BY <1>1, <1>2, <1>4
  <1>7. r.node \in {n, None} /\ report[a].node \in {n, None} /\ (r.node = None <=> r.pc = "idle")
    BY <1>2, <1>3
  <1>8. /\ InTurns' /\ \A m \in Nodes \ {n} : Agrees(m)'
        /\ report' \in [WholeAgents -> WholeReport]
        /\ \A b \in WholeAgents : report'[b] = IF b = a THEN r ELSE report[b]
    <2>1. UNCHANGED present /\ n \in Nodes /\ \A b \in WholeAgents : report[b].node = n => b = a
      BY <1>1, <1>2
    <2>. QED BY <1>3, <1>5, <1>6, <1>7, <2>1, AgreesElsewhere
  <1>9. Agrees(n)'
    <2>1. snapshot[n] = report[a].age /\ snapshot' = snapshot
      BY <1>1, <1>2 DEF Agrees
    <2>. QED BY <1>2, <1>3, <1>4, <1>8, <2>1 DEF Agrees
  <1>10. metrics' \in [Nodes -> SUBSET Age]
    BY <1>1, <1>2, <1>4 DEF WholeInv, WholeTypes
  <1>11. WholeTypes'
    BY <1>1, <1>8, <1>10 DEF WholeInv, WholeTypes
  <1>. QED BY <1>8, <1>9, <1>11 DEF WholeInv

LEMMA WholeUpdateStep ==
  ASSUME WholeInv, NEW a \in WholeAgents, Whole!UpdateLastHeartbeat(a)
  PROVE  WholeInv'
  <1>. USE Constants
  <1>. PICK n : n = report[a].node
    OBVIOUS
  <1>. DEFINE r == [report[a] EXCEPT !.pc = "reply"]
  <1>1. /\ n \in present /\ report[a].pc = "node" /\ report' = [report EXCEPT ![a].pc = "reply"]
        /\ beat' = [beat EXCEPT ![n] = report[a].age]
        /\ UNCHANGED <<present, snapshot, metrics, overridden>>
    BY DEF Whole!UpdateLastHeartbeat, Whole!Goto
  <1>2. /\ report[a] \in WholeReport /\ n \in Nodes /\ report[a].age \in Age
        /\ \A b \in WholeAgents : report[b].node = n => b = a
        /\ Agrees(n)
    BY <1>1, WholeInFlight
  <1>3. r \in WholeReport /\ r.node = n /\ r.pc = "reply" /\ r.age = report[a].age
    BY <1>2 DEF WholeReport
  <1>4. \A m \in Nodes : beat'[m] = IF m = n THEN report[a].age ELSE beat[m]
    BY <1>1 DEF WholeInv, WholeTypes
  <1>5. report' = [report EXCEPT ![a] = r]
    BY <1>1
  <1>. HIDE DEF r
  <1>6. \A m \in Nodes \ {n} :
           /\ snapshot'[m] = snapshot[m] /\ metrics'[m] = metrics[m]
           /\ beat'[m] = beat[m] /\ overridden'[m] = overridden[m]
    BY <1>1, <1>2, <1>4
  <1>7. r.node \in {n, None} /\ report[a].node \in {n, None} /\ (r.node = None <=> r.pc = "idle")
    BY <1>2, <1>3
  <1>8. /\ InTurns' /\ \A m \in Nodes \ {n} : Agrees(m)'
        /\ report' \in [WholeAgents -> WholeReport]
        /\ \A b \in WholeAgents : report'[b] = IF b = a THEN r ELSE report[b]
    <2>1. UNCHANGED present /\ n \in Nodes /\ \A b \in WholeAgents : report[b].node = n => b = a
      BY <1>1, <1>2
    <2>. QED BY <1>3, <1>5, <1>6, <1>7, <2>1, AgreesElsewhere
  <1>9. Agrees(n)'
    <2>1. /\ snapshot[n] = report[a].age /\ report[a].age \in metrics[n]
          /\ snapshot' = snapshot /\ metrics' = metrics
      BY <1>1, <1>2 DEF Agrees
    <2>. QED BY <1>2, <1>3, <1>4, <1>8, <2>1 DEF Agrees
  <1>10. beat' \in [Nodes -> MaybeAge]
    BY <1>1, <1>2, <1>4 DEF WholeInv, WholeTypes, MaybeAge
  <1>11. WholeTypes'
    BY <1>1, <1>8, <1>10 DEF WholeInv, WholeTypes
  <1>. QED BY <1>8, <1>9, <1>11 DEF WholeInv

\* A report ends when it has written everything, or when its node is gone.
LEMMA WholeEndStep ==
  ASSUME WholeInv, NEW a \in WholeAgents, Whole!Acknowledge(a) \/ Whole!Fail(a)
  PROVE  WholeInv'
  <1>. USE Constants
  <1>. PICK n : n = report[a].node
    OBVIOUS
  <1>. DEFINE r == Whole!IdleReport
  <1>1. /\ report' = [report EXCEPT ![a] = r]
        /\ UNCHANGED <<present, beat, snapshot, metrics, overridden>>
        /\ report[a].pc # "idle"
        /\ report[a].pc = "reply" \/ n \notin present
    BY DEF Whole!Acknowledge, Whole!Fail, Whole!EndReport, Whole!tables
  <1>2. /\ report[a] \in WholeReport /\ n \in Nodes /\ report[a].age \in Age
        /\ \A b \in WholeAgents : report[b].node = n => b = a
        /\ Agrees(n)
    BY <1>1, WholeInFlight
  <1>3. r \in WholeReport /\ r.node = None /\ r.pc = "idle"
    BY DEF WholeReport, Whole!IdleReport, Age
  <1>. HIDE DEF r
  <1>4. \A m \in Nodes \ {n} :
           /\ snapshot'[m] = snapshot[m] /\ metrics'[m] = metrics[m]
           /\ beat'[m] = beat[m] /\ overridden'[m] = overridden[m]
    BY <1>1
  <1>5. r.node \in {n, None} /\ report[a].node \in {n, None} /\ (r.node = None <=> r.pc = "idle")
    BY <1>2, <1>3
  <1>6. /\ InTurns' /\ \A m \in Nodes \ {n} : Agrees(m)'
        /\ report' \in [WholeAgents -> WholeReport]
        /\ \A b \in WholeAgents : report'[b] = IF b = a THEN r ELSE report[b]
    BY <1>1, <1>2, <1>3, <1>4, <1>5, AgreesElsewhere
  <1>7. Agrees(n)'
    <2>1. CASE n \notin present
      BY <1>1, <2>1 DEF Agrees
    <2>2. CASE report[a].pc = "reply" /\ n \in present
      <3>1. /\ snapshot[n] = report[a].age /\ report[a].age \in metrics[n]
            /\ overridden[n] = None => beat[n] = report[a].age
        BY <1>2, <2>2 DEF Agrees
      <3>2. \A b \in WholeAgents : report'[b].node # n
        BY <1>2, <1>3, <1>6
      <3>3. snapshot' = snapshot /\ metrics' = metrics /\ beat' = beat /\ overridden' = overridden
        BY <1>1
      <3>. QED BY <3>1, <3>2, <3>3 DEF Agrees
    <2>. QED BY <1>1, <2>1, <2>2
  <1>8. WholeTypes'
    BY <1>1, <1>6 DEF WholeInv, WholeTypes
  <1>. QED BY <1>6, <1>7, <1>8 DEF WholeInv

LEMMA WholeOverrideStep ==
  ASSUME WholeInv, NEW n \in Nodes, Whole!UpdateGpuNodeHeartbeat(n)
  PROVE  WholeInv'
  <1>. USE Constants
  <1>1. /\ beat' = [beat EXCEPT ![n] = 0] /\ overridden' = [overridden EXCEPT ![n] = 0]
        /\ UNCHANGED <<present, snapshot, metrics, report>>
    BY DEF Whole!UpdateGpuNodeHeartbeat
  <1>2. \A m \in Nodes : /\ beat'[m] = IF m = n THEN 0 ELSE beat[m]
                         /\ overridden'[m] = IF m = n THEN 0 ELSE overridden[m]
    BY <1>1 DEF WholeInv, WholeTypes
  <1>3. WholeTypes'
    <2>1. 0 \in MaybeAge
      BY DEF MaybeAge, Age
    <2>. QED BY <1>1, <2>1 DEF WholeInv, WholeTypes
  <1>4. InTurns'
    BY <1>1 DEF WholeInv, InTurns
  <1>5. ASSUME NEW m \in Nodes
        PROVE  Agrees(m)'
    <2>1. Agrees(m) /\ 0 # None
      BY DEF WholeInv
    <2>. QED BY <1>1, <1>2, <2>1 DEF Agrees
  <1>. QED BY <1>3, <1>4, <1>5 DEF WholeInv

LEMMA WholeDeleteStep ==
  ASSUME WholeInv, NEW n \in Nodes, Whole!DeleteGpuNode(n)
  PROVE  WholeInv'
  <1>1. /\ present' = present \ {n} /\ beat' = [beat EXCEPT ![n] = None]
        /\ snapshot' = [snapshot EXCEPT ![n] = None] /\ metrics' = [metrics EXCEPT ![n] = {}]
        /\ UNCHANGED <<report, overridden>>
    BY DEF Whole!DeleteGpuNode
  <1>2. WholeTypes'
    BY <1>1 DEF WholeInv, WholeTypes, MaybeAge
  <1>3. InTurns'
    BY <1>1 DEF WholeInv, InTurns
  <1>4. ASSUME NEW m \in Nodes
        PROVE  Agrees(m)'
    <2>1. CASE m = n
      BY <1>1, <2>1 DEF Agrees
    <2>2. CASE m # n
      <3>1. beat'[m] = beat[m] /\ snapshot'[m] = snapshot[m] /\ metrics'[m] = metrics[m]
        BY <1>1, <2>2 DEF WholeInv, WholeTypes
      <3>. QED BY <1>1, <2>2, <3>1 DEF WholeInv, Agrees
    <2>. QED BY <2>1, <2>2
  <1>. QED BY <1>2, <1>3, <1>4 DEF WholeInv

LEMMA WholeTickStep ==
  ASSUME WholeInv, Whole!Tick
  PROVE  WholeInv'
  <1>. USE Constants
  <1>. DEFINE Aged(x) == Whole!Older(x)
  <1>1. /\ beat' = [n \in Nodes |-> Aged(beat[n])]
        /\ snapshot' = [n \in Nodes |-> Aged(snapshot[n])]
        /\ metrics' = [n \in Nodes |-> {Aged(x) : x \in metrics[n]}]
        /\ overridden' = [n \in Nodes |-> Aged(overridden[n])]
        /\ present' = present
    BY DEF Whole!Tick
  <1>2. Aged(None) = None /\ \A x \in Age : Aged(x) \in Age
    BY DEF Whole!Older, Age
  <1>3. \A a \in WholeAgents :
          report'[a] = IF report[a] = Whole!IdleReport THEN Whole!IdleReport
                       ELSE [report[a] EXCEPT !.age = Aged(report[a].age)]
    BY DEF Whole!Tick
  <1>. HIDE DEF Aged
  <1>4. \A x \in MaybeAge : Aged(x) \in MaybeAge /\ (Aged(x) = None <=> x = None)
    BY <1>2 DEF MaybeAge, Age
  <1>5. \A a \in WholeAgents : /\ report'[a] \in WholeReport
                               /\ report'[a].pc = report[a].pc /\ report'[a].node = report[a].node
                               /\ report[a].node # None => report'[a].age = Aged(report[a].age)
    <2>. SUFFICES ASSUME NEW a \in WholeAgents
                  PROVE  /\ report'[a] \in WholeReport
                         /\ report'[a].pc = report[a].pc /\ report'[a].node = report[a].node
                         /\ report[a].node # None => report'[a].age = Aged(report[a].age)
      OBVIOUS
    <2>1. report[a] \in WholeReport
      BY DEF WholeInv, WholeTypes
    <2>2. CASE report[a] = Whole!IdleReport
      <3>1. report[a].node = None
        BY <2>2 DEF Whole!IdleReport
      <3>2. report'[a] = report[a]
        BY <1>3, <2>2
      <3>. QED BY <2>1, <3>1, <3>2
    <2>3. CASE report[a] # Whole!IdleReport
      BY <1>2, <1>3, <2>1, <2>3 DEF WholeReport
    <2>. QED BY <2>2, <2>3
  <1>6. WholeTypes'
    <2>1. /\ beat' \in [Nodes -> MaybeAge] /\ snapshot' \in [Nodes -> MaybeAge]
          /\ overridden' \in [Nodes -> MaybeAge]
      BY <1>1, <1>4 DEF WholeInv, WholeTypes
    <2>2. metrics' \in [Nodes -> SUBSET Age]
      BY <1>1, <1>2 DEF WholeInv, WholeTypes
    <2>3. report' \in [WholeAgents -> WholeReport]
      BY <1>5 DEF Whole!Tick
    <2>. QED BY <1>1, <2>1, <2>2, <2>3 DEF WholeInv, WholeTypes
  <1>7. InTurns'
    BY <1>5 DEF WholeInv, InTurns
  <1>8. ASSUME NEW n \in Nodes
        PROVE  Agrees(n)'
    <2>1. /\ beat'[n] = Aged(beat[n]) /\ snapshot'[n] = Aged(snapshot[n])
          /\ metrics'[n] = {Aged(x) : x \in metrics[n]} /\ overridden'[n] = Aged(overridden[n])
          /\ beat[n] \in MaybeAge /\ snapshot[n] \in MaybeAge /\ overridden[n] \in MaybeAge
          /\ present' = present /\ Agrees(n)
      BY <1>1 DEF WholeInv, WholeTypes
    <2>2. \A x : x \in metrics[n] => Aged(x) \in metrics'[n]
      BY <2>1
    <2>3. /\ snapshot'[n] = None <=> snapshot[n] = None
          /\ overridden'[n] = None <=> overridden[n] = None
      BY <1>4, <2>1
    <2>4. ASSUME n \in present, \A a \in WholeAgents : report'[a].node = n => report'[a].pc = "snapshot"
          PROVE  /\ snapshot'[n] # None => snapshot'[n] \in metrics'[n]
                 /\ overridden'[n] = None => beat'[n] = snapshot'[n]
      <3>1. \A a \in WholeAgents : report[a].node = n => report[a].pc = "snapshot"
        BY <1>5, <2>4
      <3>2. /\ snapshot[n] # None => snapshot[n] \in metrics[n]
            /\ overridden[n] = None => beat[n] = snapshot[n]
        BY <2>1, <2>4, <3>1 DEF Agrees
      <3>. QED BY <2>1, <2>2, <2>3, <3>2
    <2>5. ASSUME n \in present, NEW a \in WholeAgents, report'[a].node = n
          PROVE  /\ report'[a].pc \in {"metric", "node", "reply"} => snapshot'[n] = report'[a].age
                 /\ report'[a].pc \in {"node", "reply"} => report'[a].age \in metrics'[n]
                 /\ report'[a].pc = "reply" /\ overridden'[n] = None => beat'[n] = report'[a].age
      <3>1. report[a].node = n /\ report'[a].pc = report[a].pc /\ report'[a].age = Aged(report[a].age)
        BY <1>5, <2>5
      <3>2. /\ report[a].pc \in {"metric", "node", "reply"} => snapshot[n] = report[a].age
            /\ report[a].pc \in {"node", "reply"} => report[a].age \in metrics[n]
            /\ report[a].pc = "reply" /\ overridden[n] = None => beat[n] = report[a].age
        BY <2>1, <2>5, <3>1 DEF Agrees
      <3>. QED BY <2>1, <2>2, <2>3, <3>1, <3>2
    <2>. QED BY <2>1, <2>4, <2>5 DEF Agrees
  <1>. QED BY <1>6, <1>7, <1>8 DEF WholeInv

LEMMA WholeStutter ==
  ASSUME WholeInv, UNCHANGED <<present, beat, snapshot, metrics, report, overridden>>
  PROVE  WholeInv'
  BY DEF WholeInv, WholeTypes, InTurns, Agrees

LEMMA WholeStep ==
  ASSUME WholeInv, [Whole!Next]_vars
  PROVE  WholeInv'
  <1>1. ASSUME NEW a \in WholeAgents, Whole!ReportStep(a)
        PROVE  WholeInv'
    BY <1>1, WholeUpsertStep, WholeCreateMetricStep, WholeUpdateStep, WholeEndStep DEF Whole!ReportStep
  <1>2. ASSUME NEW v \in Views, Whole!ViewStep(v)
        PROVE  WholeInv'
    <2>1. UNCHANGED <<present, beat, snapshot, metrics, report, overridden>>
      BY <1>2 DEF Whole!ViewStep, Whole!ReadNodes, Whole!ReadSnapshots, Whole!ReadMaintenance,
                  Whole!Answer, Whole!EndView, Whole!tables
    <2>. QED BY <2>1, WholeStutter
  <1>3. ASSUME NEW n \in Nodes, NEW w \in Whole!Windows, Whole!SetWindow(n, w)
        PROVE  WholeInv'
    BY <1>3, WholeStutter DEF Whole!SetWindow
  <1>4. CASE UNCHANGED vars
    BY <1>4, WholeStutter DEF vars, tables
  <1>. QED
    BY <1>1, <1>2, <1>3, <1>4, WholeReportStep, WholeOverrideStep, WholeDeleteStep, WholeTickStep
    DEF Whole!Next

\* When nothing of a node is in flight, its tables agree.
LEMMA WholeQuiet ==
  ASSUME WholeInv
  PROVE  Whole!SnapshotIsRecorded /\ Whole!NodeFollowsSnapshot
  BY DEF WholeInv, Agrees, Whole!SnapshotIsRecorded, Whole!NodeFollowsSnapshot, Whole!Quiet

\* Whenever no report of a node is in flight, the reading of its snapshot is in
\* the history, and its own lastHeartbeat is the snapshot's unless overridden by
\* hand: for any number of nodes and agents, with nodes deleted in between.
THEOREM WholeCorrect == Whole!Spec => [](Whole!SnapshotIsRecorded /\ Whole!NodeFollowsSnapshot)
  <1>1. Whole!Init => WholeInv
    BY WholeInit
  <1>2. WholeInv /\ [Whole!Next]_vars => WholeInv'
    BY WholeStep
  <1>3. WholeInv => Whole!SnapshotIsRecorded /\ Whole!NodeFollowsSnapshot
    BY WholeQuiet
  <1>. QED BY <1>1, <1>2, <1>3, PTL DEF Whole!Spec, Whole!vars, Whole!tables, vars, tables

\* The same of the checked part: the three statements of a report agree.
THEOREM StatementsAgreeCorrect == PartsSpec => []StatementsAgree
  <1>. DEFINE Inv == part = "whole" => WholeInv
  <1>1. PartsInit => Inv
    BY WholeInit DEF PartsInit
  <1>2. Inv /\ [PartsNext]_<<allVars, part>> => Inv'
    <2>. SUFFICES ASSUME Inv, [PartsNext]_<<allVars, part>>, part' = "whole"
                  PROVE  WholeInv'
      OBVIOUS
    <2>1. part = "whole" /\ WholeInv
      BY DEF PartsNext
    <2>2. [Whole!Next]_vars
      BY <2>1 DEF PartsNext, allVars
    <2>. QED BY <2>1, <2>2, WholeStep
  <1>3. Inv => StatementsAgree
    BY WholeQuiet DEF StatementsAgree
  <1>. QED BY <1>1, <1>2, <1>3, PTL DEF PartsSpec
-----------------------------------------------------------------------------
(* The simulator, when its requests take no time and its timer is on time     *)

SimAge == 0 .. Old
MaybeSimAge == SimAge \cup {None}

SimTypes ==
  /\ present \subseteq Nodes
  /\ snapshot \in [Nodes -> MaybeSimAge] /\ metrics \in [Nodes -> SUBSET SimAge]
  /\ report \in [Nodes -> [pc : {"idle", "snapshot", "metric", "node", "reply"},
                           node : Nodes \cup {None}, age : {0}]]
  /\ loop \in {"sending", "sleeping", "stopped"} /\ slept \in 0 .. Interval
  /\ unsent \subseteq Nodes /\ delivered \subseteq Nodes /\ failed \subseteq Nodes
  /\ file \in MaybeSimAge

\* A request is under way only in a round that has begun it; it is about the
\* slot's own node, and as far as it has got.
InRound ==
  \A h \in Nodes : report[h] # IdleReport =>
    /\ loop = "sending" /\ h \notin unsent /\ report[h].node = h
    /\ h \in present /\ report[h].pc \in {"metric", "node", "reply"} => snapshot[h] = 0
    /\ h \in present /\ report[h].pc \in {"node", "reply"} => 0 \in metrics[h]

\* What a round has delivered is recorded, and no time has passed since.
RoundRecorded ==
  loop = "sending" =>
    /\ \A h \in delivered \cap present : 0 \in metrics[h]
    /\ \A h \in present \ (failed \cup unsent) : report[h] = IdleReport => snapshot[h] = 0

\* A node whose last request succeeded was seen in the last round.
SeenLastRound ==
  \A h \in present \ failed :
    /\ loop = "sending" => snapshot[h] # None /\ snapshot[h] <= Interval
    /\ loop = "sleeping" => snapshot[h] # None /\ snapshot[h] <= slept

\* Some reading is no older than the health file.
FileBacked ==
  file # None /\ present = Nodes => \E h \in Nodes : \E m \in metrics[h] : m <= file

SimInv == SimTypes /\ InRound /\ RoundRecorded /\ SeenLastRound /\ FileBacked

LEMMA SimConstants ==
  /\ Agents = Nodes /\ Old \in Nat /\ Interval \in Nat \ {0} /\ Interval < Online /\ Interval < Old
  /\ Online \in Nat /\ Degraded \in Nat /\ MaxAge \in Nat /\ None \notin Int /\ None \notin Nodes
  BY ConstantsAssumption, SimulatorAssumption DEF Old

LEMMA SimOlder ==
  /\ Older(None) = None
  /\ \A a \in SimAge : Older(a) \in SimAge /\ Older(a) # None /\ (a < Old => Older(a) = a + 1)
  /\ \A a, b \in SimAge : a <= b => Older(a) <= Older(b)
  BY SimConstants DEF Older, SimAge

LEMMA SimStarts == SimulatorInit => SimInv
  BY SimConstants
  DEF SimulatorInit, Init, SimInv, SimTypes, InRound, RoundRecorded, SeenLastRound, FileBacked, MaybeSimAge,
      SimAge, IdleReport

\* What the properties need of it.
LEMMA SimHolds ==
  ASSUME SimInv
  PROVE  NoFlapping /\ HealthyMeansDelivered
  <1>. USE SimConstants
  <1>1. ASSUME NEW n \in present \ failed, loop # "stopped"
        PROVE  Shown(n) = "ONLINE"
    <2>1. snapshot[n] \in SimAge /\ snapshot[n] <= Interval /\ snapshot[n] # None
      BY <1>1 DEF SimInv, SimTypes, SeenLastRound, MaybeSimAge, SimAge
    <2>. QED BY <2>1 DEF Shown, ConnectivityStatus, SimAge
  <1>2. ASSUME file # None, file <= MaxAge, present = Nodes
        PROVE  \E n \in Nodes : \E m \in metrics[n] : m <= MaxAge
    <2>1. PICK h \in Nodes : \E m \in metrics[h] : m <= file
      BY <1>2 DEF SimInv, FileBacked
    <2>2. PICK m \in metrics[h] : m <= file
      BY <2>1
    <2>3. m \in Int /\ file \in Int
      BY <1>2 DEF SimInv, SimTypes, MaybeSimAge, SimAge
    <2>. QED BY <1>2, <2>2, <2>3
  <1>. QED BY <1>1, <1>2 DEF NoFlapping, HealthyMeansDelivered

LEMMA SimSendStep ==
  ASSUME Prompt, SimInv, NEW h \in Nodes, Send(h)
  PROVE  SimInv'
  <1>. USE SimConstants
  <1>1. /\ report' = [report EXCEPT ![h] = [pc |-> "snapshot", node |-> h, age |-> 0]]
        /\ UNCHANGED <<present, snapshot, metrics, loop, slept, delivered, failed, file>>
        /\ unsent' = unsent \ {h} /\ loop = "sending" /\ h \in unsent
    BY DEF Send, Report, tables
  <1>. QED
    BY <1>1
    DEF SimInv, SimTypes, InRound, RoundRecorded, SeenLastRound, FileBacked, IdleReport

LEMMA SimSendFailsStep ==
  ASSUME SimInv, NEW h \in Nodes, SendFails(h)
  PROVE  SimInv'
  BY SimConstants
  DEF SendFails, vars, tables, SimInv, SimTypes, InRound, RoundRecorded, SeenLastRound, FileBacked

LEMMA SimUpsertStep ==
  ASSUME SimInv, NEW h \in Nodes, UpsertHealthSnapshot(h), UNCHANGED simulator
  PROVE  SimInv'
  <1>. USE SimConstants
  <1>1. report[h] # IdleReport /\ report[h].pc = "snapshot" /\ report[h].age = 0
    BY DEF UpsertHealthSnapshot, IdleReport, SimInv, SimTypes
  <1>2. report[h].node = h /\ h \in present /\ loop = "sending"
    BY <1>1 DEF UpsertHealthSnapshot, SimInv, InRound
  <1>3. /\ snapshot' = [snapshot EXCEPT ![h] = 0]
        /\ report' = [report EXCEPT ![h].pc = "metric"]
        /\ UNCHANGED <<present, metrics, loop, slept, unsent, delivered, failed, file>>
    BY <1>1, <1>2 DEF UpsertHealthSnapshot, Goto, simulator
  <1>. QED
    BY <1>1, <1>2, <1>3
    DEF SimInv, SimTypes, InRound, RoundRecorded, SeenLastRound, FileBacked, IdleReport, MaybeSimAge, SimAge

LEMMA SimMetricStep ==
  ASSUME SimInv, NEW h \in Nodes, CreateMetric(h), UNCHANGED simulator
  PROVE  SimInv'
  <1>. USE SimConstants
  <1>1. report[h] # IdleReport /\ report[h].pc = "metric" /\ report[h].age = 0
    BY DEF CreateMetric, IdleReport, SimInv, SimTypes
  <1>2. report[h].node = h /\ h \in present /\ loop = "sending"
    BY <1>1 DEF CreateMetric, SimInv, InRound
  <1>3. /\ metrics' = [metrics EXCEPT ![h] = @ \cup {0}]
        /\ report' = [report EXCEPT ![h].pc = "node"]
        /\ UNCHANGED <<present, snapshot, loop, slept, unsent, delivered, failed, file>>
    BY <1>1, <1>2 DEF CreateMetric, Goto, simulator
  <1>. QED
    BY <1>1, <1>2, <1>3
    DEF SimInv, SimTypes, InRound, RoundRecorded, SeenLastRound, FileBacked, IdleReport, SimAge

LEMMA SimUpdateStep ==
  ASSUME SimInv, NEW h \in Nodes, UpdateLastHeartbeat(h), UNCHANGED simulator
  PROVE  SimInv'
  <1>. USE SimConstants
  <1>1. /\ report[h].pc = "node" /\ report' = [report EXCEPT ![h].pc = "reply"]
        /\ UNCHANGED <<present, snapshot, metrics, loop, slept, unsent, delivered, failed, file>>
    BY DEF UpdateLastHeartbeat, Goto, simulator
  <1>. QED
    BY <1>1
    DEF SimInv, SimTypes, InRound, RoundRecorded, SeenLastRound, FileBacked, IdleReport

LEMMA SimDeliveredStep ==
  ASSUME SimInv, NEW h \in Nodes, Delivered(h)
  PROVE  SimInv'
  <1>. USE SimConstants
  <1>1. /\ report[h] # IdleReport /\ report[h].pc = "reply"
        /\ report' = [report EXCEPT ![h] = IdleReport]
        /\ delivered' = delivered \cup {h} /\ failed' = failed \ {h}
        /\ UNCHANGED <<present, snapshot, metrics, loop, slept, unsent, file>>
    BY DEF Delivered, Acknowledge, EndReport, IdleReport, tables
  <1>2. /\ loop = "sending" /\ h \notin unsent
        /\ h \in present => snapshot[h] = 0 /\ 0 \in metrics[h]
    BY <1>1 DEF SimInv, InRound
  <1>. QED
    BY <1>1, <1>2
    DEF SimInv, SimTypes, InRound, RoundRecorded, SeenLastRound, FileBacked, IdleReport

LEMMA SimRefusedStep ==
  ASSUME SimInv, NEW h \in Nodes, Refused(h)
  PROVE  SimInv'
  <1>. USE SimConstants
  <1>1. /\ report' = [report EXCEPT ![h] = IdleReport]
        /\ failed' = failed \cup {h}
        /\ UNCHANGED <<present, snapshot, metrics, loop, slept, unsent, delivered, file>>
    BY DEF Refused, Fail, EndReport, tables
  <1>. QED
    BY <1>1
    DEF SimInv, SimTypes, InRound, RoundRecorded, SeenLastRound, FileBacked, IdleReport

LEMMA SimRemoveStep ==
  ASSUME SimInv, NEW h \in Nodes, Remove(h)
  PROVE  SimInv'
  <1>. USE SimConstants
  <1>1. /\ h \in present /\ present' = present \ {h}
        /\ snapshot' = [snapshot EXCEPT ![h] = None] /\ metrics' = [metrics EXCEPT ![h] = {}]
        /\ UNCHANGED <<report, loop, slept, unsent, delivered, failed, file>>
    BY DEF Remove, DeleteGpuNode, simulator
  <1>2. present' # Nodes
    BY <1>1
  <1>. QED
    BY <1>1, <1>2
    DEF SimInv, SimTypes, InRound, RoundRecorded, SeenLastRound, FileBacked, MaybeSimAge, SimAge

LEMMA SimEndRoundStep ==
  ASSUME SimInv, EndRound
  PROVE  SimInv'
  <1>. USE SimConstants
  <1>1. /\ loop = "sending" /\ unsent = {} /\ \A h \in Nodes : report[h] = IdleReport
        /\ loop' \in {"sleeping", "stopped"} /\ slept' = 0
        /\ file' = IF delivered # {} THEN 0 ELSE file
        /\ UNCHANGED <<present, snapshot, metrics, report, unsent, delivered, failed>>
    BY DEF EndRound, AllAnswered, vars, tables
  <1>2. SimTypes'
    BY <1>1 DEF SimInv, SimTypes, MaybeSimAge, SimAge
  <1>3. FileBacked'
    <2>1. CASE delivered = {}
      BY <1>1, <2>1 DEF SimInv, FileBacked
    <2>2. ASSUME delivered # {}, present = Nodes
          PROVE  \E h \in Nodes : 0 \in metrics[h]
      BY <1>1, <2>2 DEF SimInv, SimTypes, RoundRecorded
    <2>3. CASE delivered # {}
      BY <1>1, <2>2, <2>3 DEF FileBacked
    <2>. QED BY <2>1, <2>3
  <1>4. SeenLastRound' /\ InRound' /\ RoundRecorded'
    BY <1>1 DEF SimInv, SimTypes, SeenLastRound, InRound, RoundRecorded
  <1>. QED BY <1>2, <1>3, <1>4 DEF SimInv

LEMMA SimWakeStep ==
  ASSUME SimInv, Wake
  PROVE  SimInv'
  <1>. USE SimConstants
  <1>1. /\ loop = "sleeping" /\ slept = Interval /\ delivered' = {}
        /\ \/ loop' = "stopped" /\ unsent' = unsent
           \/ loop' = "sending" /\ unsent' = Nodes
        /\ UNCHANGED <<present, snapshot, metrics, report, slept, failed, file>>
    BY DEF Wake, vars, tables
  <1>. QED
    BY <1>1
    DEF SimInv, SimTypes, InRound, RoundRecorded, SeenLastRound, FileBacked

LEMMA SimElapseStep ==
  ASSUME Prompt, SimInv, Elapse
  PROVE  SimInv'
  <1>. USE SimConstants
  <1>1. /\ loop = "stopped" \/ (loop = "sleeping" /\ slept < Interval)
        /\ slept' = IF loop = "sleeping" /\ slept < Interval THEN slept + 1 ELSE slept
        /\ file' = Older(file)
        /\ snapshot' = [n \in Nodes |-> Older(snapshot[n])]
        /\ metrics' = [n \in Nodes |-> {Older(a) : a \in metrics[n]}]
        /\ UNCHANGED <<present, loop, unsent, delivered, failed>>
    BY DEF Elapse, Tick
  <1>2. \A h \in Nodes : report[h] = IdleReport
    BY <1>1 DEF SimInv, InRound
  <1>3. report' = report
    BY <1>2 DEF Elapse, Tick, SimInv, SimTypes
  <1>4. SimTypes'
    <2>1. \A a \in MaybeSimAge : Older(a) \in MaybeSimAge
      BY SimOlder DEF MaybeSimAge
    <2>2. slept' \in 0 .. Interval
      BY <1>1 DEF SimInv, SimTypes
    <2>3. snapshot' \in [Nodes -> MaybeSimAge] /\ file' \in MaybeSimAge
      BY <1>1, <2>1 DEF SimInv, SimTypes
    <2>4. metrics' \in [Nodes -> SUBSET SimAge]
      BY <1>1, SimOlder DEF SimInv, SimTypes
    <2>. QED BY <1>1, <1>3, <2>2, <2>3, <2>4 DEF SimInv, SimTypes
  <1>5. SeenLastRound'
    <2>. SUFFICES ASSUME NEW h \in present \ failed, loop = "sleeping"
                  PROVE  snapshot'[h] # None /\ snapshot'[h] <= slept'
      BY <1>1 DEF SeenLastRound
    <2>1. snapshot[h] \in SimAge /\ snapshot[h] <= slept /\ slept \in 0 .. Interval /\ h \in Nodes
      BY DEF SimInv, SimTypes, SeenLastRound, MaybeSimAge
    <2>2. snapshot[h] < Old
      BY <2>1 DEF SimAge
    <2>3. snapshot'[h] = snapshot[h] + 1
      BY <1>1, <2>1, <2>2, SimOlder
    <2>. QED BY <1>1, <2>1, <2>3 DEF SimAge
  <1>6. FileBacked'
    <2>. SUFFICES ASSUME file' # None, present = Nodes
                  PROVE  \E h \in Nodes : \E m \in metrics'[h] : m <= file'
      BY <1>1 DEF FileBacked
    <2>1. file \in SimAge
      BY <1>1, SimOlder DEF SimInv, SimTypes, MaybeSimAge
    <2>2. PICK h \in Nodes : \E m \in metrics[h] : m <= file
      BY <2>1 DEF SimInv, FileBacked, SimAge
    <2>3. PICK m \in metrics[h] : m <= file
      BY <2>2
    <2>4. Older(m) \in metrics'[h] /\ m \in SimAge
      BY <1>1, <2>3 DEF SimInv, SimTypes
    <2>. QED BY <1>1, <2>1, <2>3, <2>4, SimOlder
  <1>. QED BY <1>1, <1>2, <1>3, <1>4, <1>5, <1>6 DEF SimInv, InRound, RoundRecorded

LEMMA SimStep ==
  ASSUME Prompt, SimInv, [SimulatorNext]_allVars
  PROVE  SimInv'
  <1>1. ASSUME NEW h \in Nodes, Progress(h) \/ SendFails(h) \/ Remove(h)
        PROVE  SimInv'
    BY <1>1, SimSendStep, SimSendFailsStep, SimUpsertStep, SimMetricStep, SimUpdateStep,
       SimDeliveredStep, SimRefusedStep, SimRemoveStep
    DEF Progress, Serve
  <1>2. CASE Shutdown \/ UNCHANGED allVars
    BY <1>2
    DEF Shutdown, allVars, vars, tables, simulator, SimInv, SimTypes, InRound, RoundRecorded,
        SeenLastRound, FileBacked
  <1>. QED BY <1>1, <1>2, SimEndRoundStep, SimWakeStep, SimElapseStep DEF SimulatorNext

\* While its requests take no time, the simulator keeps a node ONLINE from its
\* first success to its next failure, and its container is healthy only when
\* something was delivered lately: for any number of nodes, of which some may be
\* deleted and any requests fail, and for any interval below the ONLINE threshold.
THEOREM SimulatorCorrect ==
  ASSUME Prompt
  PROVE  SimulatorSpec => [](NoFlapping /\ HealthyMeansDelivered)
  <1>1. SimInv /\ [SimulatorNext]_allVars => SimInv'
    BY SimStep
  <1>. QED BY <1>1, SimStarts, SimHolds, PTL DEF SimulatorSpec

\* The same of the checked part whose requests take no time.
THEOREM SteadyAndHonestCorrect ==
  ASSUME Prompt
  PROVE  PartsSpec => []SteadyAndHonest
  <1>. DEFINE Inv == part = "simulator" => SimInv
  <1>1. PartsInit => Inv
    BY SimStarts DEF PartsInit
  <1>2. Inv /\ [PartsNext]_<<allVars, part>> => Inv'
    <2>. SUFFICES ASSUME Inv, [PartsNext]_<<allVars, part>>, part' = "simulator"
                  PROVE  SimInv'
      OBVIOUS
    <2>1. part = "simulator" /\ [SimulatorNext]_allVars
      BY DEF PartsNext
    <2>. QED BY <2>1, SimStep
  <1>3. Inv => SteadyAndHonest
    BY SimHolds DEF SteadyAndHonest
  <1>. QED BY <1>1, <1>2, <1>3, PTL DEF PartsSpec
=============================================================================

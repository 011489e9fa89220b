------------------------- MODULE TelemetrySimulator -------------------------
(***************************************************************************)
(* apps/demo-telemetry-simulator: one process that reports for every       *)
(* seeded node, composed with the ingestion of apps/api (Telemetry).       *)
(*                                                                         *)
(* A round sends one report for each hostname, all with the time the round *)
(* began, waits for every answer, and sleeps.  A fetch has no timeout, so  *)
(* one request that hangs holds up the rounds of all the nodes.  The       *)
(* container's health check looks at a file that a round touches.          *)
(***************************************************************************)
EXTENDS Telemetry

CONSTANTS
  Interval,    \* DEMO_SIMULATOR_HEARTBEAT_INTERVAL_MS
  MaxAge,      \* maxAgeMs of the health check
  Prompt       \* TRUE: requests take no time, and the timer is on time

ASSUME SimulatorAssumption ==
  /\ Agents = Nodes            \* one request in flight for each hostname
  /\ Interval \in Nat \ {0} /\ Interval < Online
  /\ MaxAge \in Nat /\ 3 * Interval <= MaxAge /\ MaxAge < Old
  /\ Prompt \in BOOLEAN

VARIABLES
  loop,      \* where the loop is: "sending", "sleeping", "stopped"
  unsent,    \* the hostnames of the round whose request has not begun
  delivered, \* the hostnames of the round that were answered with success
  slept,     \* how long the loop has been asleep
  stopping,  \* shuttingDown
  file,      \* age of the health file, None when there is none
  failed     \* history: the hostnames whose last request failed, or that had none

simulator == <<loop, unsent, delivered, slept, stopping, file, failed>>
allVars == <<vars, simulator>>

SimulatorInit ==
  /\ Init
  /\ loop = "sending" /\ unsent = Nodes /\ delivered = {}
  /\ slept = 0 /\ stopping = FALSE /\ file = None /\ failed = Nodes

-----------------------------------------------------------------------------
\* sendTelemetry: the request reaches the API, with the time of the round ...
Send(h) ==
  /\ loop = "sending" /\ h \in unsent
  /\ \E age \in 0 .. Old : (Prompt => age = 0) /\ Report(h, h, age)
  /\ unsent' = unsent \ {h}
  /\ UNCHANGED <<loop, delivered, slept, stopping, file, failed>>

\* ... or it does not, or it is refused: the node may have been deleted.
SendFails(h) ==
  /\ loop = "sending" /\ h \in unsent
  /\ unsent' = unsent \ {h}
  /\ failed' = failed \cup {h}
  /\ UNCHANGED <<vars, loop, delivered, slept, stopping, file>>

\* The API works on the request, and answers.
Serve(h) ==
  /\ UpsertHealthSnapshot(h) \/ CreateMetric(h) \/ UpdateLastHeartbeat(h)
  /\ UNCHANGED simulator

Delivered(h) ==
  /\ Acknowledge(h)
  /\ delivered' = delivered \cup {h}
  /\ failed' = failed \ {h}
  /\ UNCHANGED <<loop, unsent, slept, stopping, file>>

Refused(h) ==
  /\ Fail(h)
  /\ failed' = failed \cup {h}
  /\ UNCHANGED <<loop, unsent, delivered, slept, stopping, file>>

\* while (!shuttingDown), checked before and after the sleep.
LoopEnds_Never == FALSE  \* mutant
LoopEnds == stopping

AllAnswered == unsent = {} /\ \A h \in Nodes : report[h] = IdleReport

\* Promise.all has settled: one success is enough to touch the file.
EndRound_AlwaysAlive ==  \* mutant
  /\ loop = "sending" /\ AllAnswered
  /\ file' = 0
  /\ loop' = IF LoopEnds THEN "stopped" ELSE "sleeping"
  /\ slept' = 0
  /\ UNCHANGED <<vars, unsent, delivered, stopping, failed>>
EndRound ==
  /\ loop = "sending" /\ AllAnswered
  /\ file' = IF delivered # {} THEN 0 ELSE file
  /\ loop' = IF LoopEnds THEN "stopped" ELSE "sleeping"
  /\ slept' = 0
  /\ UNCHANGED <<vars, unsent, delivered, stopping, failed>>

Wake ==
  /\ loop = "sleeping" /\ slept = Interval
  /\ loop' = IF LoopEnds THEN "stopped" ELSE "sending"
  /\ unsent' = IF LoopEnds THEN unsent ELSE Nodes
  /\ delivered' = {}
  /\ UNCHANGED <<vars, slept, stopping, file, failed>>

Shutdown ==
  /\ ~stopping
  /\ stopping' = TRUE
  /\ UNCHANGED <<vars, loop, unsent, delivered, slept, file, failed>>

\* When things are prompt, time passes only while the loop sleeps, and not past
\* its timer.
Elapse ==
  /\ Prompt => (loop = "stopped" \/ (loop = "sleeping" /\ slept < Interval))
  /\ Tick
  /\ slept' = IF loop = "sleeping" /\ slept < Interval THEN slept + 1 ELSE slept
  /\ file' = Older(file)
  /\ UNCHANGED <<loop, unsent, delivered, stopping, failed>>

Remove(h) == DeleteGpuNode(h) /\ UNCHANGED simulator

Progress(h) == Send(h) \/ Serve(h) \/ Delivered(h) \/ Refused(h)

SimulatorNext ==
  \/ \E h \in Nodes : Progress(h) \/ SendFails(h) \/ Remove(h)
  \/ EndRound \/ Wake \/ Shutdown \/ Elapse

\* A request is answered in the end, the loop goes on, and time passes.
SimulatorSpec ==
  /\ SimulatorInit /\ [][SimulatorNext]_allVars
  /\ \A h \in Nodes : WF_allVars(Progress(h) \/ SendFails(h))
  /\ WF_allVars(EndRound) /\ WF_allVars(Wake) /\ WF_allVars(Elapse)

-----------------------------------------------------------------------------
Shown(n) == ConnectivityStatus(IF snapshot[n] # None THEN snapshot[n] ELSE beat[n])

\* No flapping: with a heartbeat interval below the ONLINE threshold, a node
\* whose last report succeeded never leaves ONLINE while the simulator runs.
\* (Prompt.)
NoFlapping ==
  \A n \in present \ failed : loop # "stopped" => Shown(n) = "ONLINE"

\* Every node has been found OFFLINE, by the expiry of its heartbeat.
AllOffline == \A n \in Nodes : Shown(n) = "OFFLINE"

\* A healthy container has delivered something lately: a node has a reading in
\* its history that is no older than the health check allows.  (Prompt.)
HealthyMeansDelivered ==
  file # None /\ file <= MaxAge /\ present = Nodes
    => \E n \in Nodes : \E m \in metrics[n] : m <= MaxAge
=============================================================================

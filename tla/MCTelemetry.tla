---------------------------- MODULE MCTelemetry ----------------------------
(* Small instances of Telemetry for TLC: reports that may fail half-way and  *)
(* requests that look at the node ("live"), reports of two nodes ("whole"),  *)
(* and the simulator that sends them, whose requests take no time            *)
(* ("simulator") or any time ("slow").                                       *)
EXTENDS TelemetrySimulator

CONSTANTS
  n1,                               \* the node of "slow"
  LiveNodes, LiveAgents, LiveViews, \* the instance of "live"
  WholeAgents,                      \* that of "whole", for all nodes
  SoonDegraded, SoonOffline         \* the thresholds of both
VARIABLE part

Live == INSTANCE Telemetry WITH
  Nodes <- LiveNodes, Agents <- LiveAgents, Views <- LiveViews, Online <- SoonDegraded, Degraded <- SoonOffline,
  InOrder <- TRUE, Failures <- TRUE
Whole == INSTANCE Telemetry WITH
  Agents <- WholeAgents, Online <- SoonDegraded, Degraded <- SoonOffline, InOrder <- TRUE, Failures <- FALSE

Slow == INSTANCE TelemetrySimulator WITH Nodes <- {n1}, Agents <- {n1}, Prompt <- FALSE

\* What ConstantsAssumption says of an instance.
ASSUME InstancesAssumption ==
  /\ SoonDegraded \in Nat \ {0} /\ SoonOffline \in Nat /\ SoonDegraded <= SoonOffline
  /\ None \notin LiveNodes

NoSimulator ==
  /\ loop = "stopped" /\ unsent = {} /\ delivered = {} /\ slept = 0
  /\ stopping = FALSE /\ file = None /\ failed = {}

PartsInit ==
  \/ part = "live" /\ Live!Init /\ NoSimulator
  \/ part = "whole" /\ Whole!Init /\ NoSimulator
  \/ part = "simulator" /\ SimulatorInit
  \/ part = "slow" /\ Slow!SimulatorInit

\* Heartbeats are overridden by hand in "whole" only.
Within == part = "live" => \A n \in LiveNodes : overridden[n] = None

PartsNext ==
  /\ \/ part = "live" /\ Live!Next /\ UNCHANGED simulator
     \/ part = "whole" /\ Whole!Next /\ UNCHANGED simulator
     \/ part = "simulator" /\ SimulatorNext
     \/ part = "slow" /\ Slow!SimulatorNext
  /\ UNCHANGED part
  /\ Within'

\* A step of the simulator, in either of its parts.
Either(A, B) == (part = "simulator" /\ A) \/ (part = "slow" /\ B)

PartsSpec ==
  /\ PartsInit /\ [][PartsNext]_<<allVars, part>>
  /\ \A h \in Nodes : WF_allVars(Either(Progress(h) \/ SendFails(h),
                                      h = n1 /\ (Slow!Progress(h) \/ Slow!SendFails(h))))
  /\ WF_allVars(Either(EndRound, Slow!EndRound)) /\ WF_allVars(Either(Wake, Slow!Wake))
  /\ WF_allVars(Either(Elapse, Slow!Elapse))

-----------------------------------------------------------------------------
\* What has been acknowledged is seen by every later request, and planned
\* maintenance is not an incident.
LiveIsTrue == part = "live" => Live!AcknowledgedIsSeen /\ Live!MaintenanceIsNotAnIncident

\* The three statements of a report agree about the node.
StatementsAgree == part = "whole" => Whole!SnapshotIsRecorded /\ Whole!NodeFollowsSnapshot

\* The simulator keeps its nodes ONLINE while its reports succeed, and its
\* container is healthy only when something was delivered.
SteadyAndHonest == part = "simulator" => NoFlapping /\ HealthyMeansDelivered

\* After a shutdown the nodes go OFFLINE by expiry alone, and stay so, although
\* the signal may come in the middle of a round or of a sleep.
ShutdownGoesOffline == Either(stopping, stopping) ~> []Either(AllOffline, Slow!AllOffline)
=============================================================================

---------------------------- MODULE MCCollector ----------------------------
(***************************************************************************)
(* The collector and its device, part by part: the tasks that share the    *)
(* device's state, and the deadlines COV and the poller share.  A          *)
(* behaviour runs one part and leaves the other as it starts, so the state *)
(* spaces add up.                                                          *)
(***************************************************************************)
EXTENDS Collector, Cov

VARIABLE part

MCInit ==
  /\ part \in {"tasks", "cov"}
  /\ CollectorInit /\ Init
  /\ part /= "tasks" => left = CHOOSE b \in Budgets : TRUE
  /\ part /= "cov" => \A p \in Points : due[p] = 0

Collecting == part = "tasks" /\ UNCHANGED <<part, vars>>
Polling == part = "cov" /\ UNCHANGED <<part, collectorVars>>

MCNext ==
  \/ Collecting /\ CollectorNext
  \/ Polling /\ Next

(* The fairness of each part where it runs, see the modules. *)
MCSpec ==
  /\ MCInit /\ [][MCNext]_<<part, collectorVars, vars>>
  /\ WF_collectorVars(Collecting /\ PollerSteps) /\ WF_collectorVars(Collecting /\ DiscoverySteps)
  /\ WF_collectorVars(Collecting /\ SyncSteps) /\ WF_collectorVars(Collecting /\ LastSeenAges)
  /\ WF_vars(Polling /\ (PollAnswered \/ PollLost))
  /\ WF_vars(Polling /\ \E p \in Points : Request(p))
  /\ WF_vars(Polling /\ Answers) /\ WF_vars(Polling /\ Rediscover)
  /\ WF_vars(Polling /\ Tick)

MCDevicePoints == 1..2

(* A device that comes and goes; the same while discoveries are asked for  *)
(* and values come by COV; failed calls and restarts; settings saved       *)
(* around discoveries.                                                     *)
MCBudgets ==
  { [flips |-> 3, changes |-> 0, requests |-> 0, notices |-> 0, faults |-> 0],
    [flips |-> 2, changes |-> 0, requests |-> 1, notices |-> 1, faults |-> 0],
    [flips |-> 1, changes |-> 0, requests |-> 0, notices |-> 0, faults |-> 1],
    [flips |-> 0, changes |-> 2, requests |-> 1, notices |-> 0, faults |-> 1] }

(* The collector ends by holding the device as it is, see Collector. *)
StatusSettles == <>[](part = "tasks" => StatusRight)
(* Subscribers are told the last change of a device, see Collector. *)
HeardSettles == <>[](part = "tasks" => HeardRight)
(* A saved setting reaches the registry, see Collector. *)
SettingSettles == <>[](part = "tasks" => SettingRight)
(* The points of a device that is gone end in comm_lost, see Collector. *)
PointsLost == <>[](part = "tasks" => PointsRight)
(* A device that stays is subscribed again, see Cov. *)
Resubscribed == <>[](part = "cov" => AllSubscribed)
=============================================================================

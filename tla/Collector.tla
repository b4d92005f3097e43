------------------------------ MODULE Collector ------------------------------
(***************************************************************************)
(* The collector and one device (backend/app/collector: poller.py,         *)
(* registry.py, discovery.py, discovery_trigger.py, config_sync.py,        *)
(* main.py, with the driver's and the store's calls): the poll cycle,      *)
(* discovery and the reload of settings run as tasks of one event loop and *)
(* interleave at every await.                                              *)
(*                                                                         *)
(* Registry.replace puts a new DeviceState in the place of the old one; a  *)
(* task that fetched the old one keeps working on it.  Settings of a point *)
(* are version numbers.                                                    *)
(***************************************************************************)
EXTENDS Integers

CONSTANTS
  DevicePoints,       \* 1..n, polled in this order, one by batch; 1 is the probe
  OfflineAfterCycles, \* offline_after_cycles
  Budgets             \* bounds: [flips |-> losses and returns of the device,
                      \*  changes |-> settings saved, requests |-> discoveries
                      \*  asked by hand, notices |-> readings by COV or after a
                      \*  write, faults |-> failed calls and restarts]

ASSUME CollectorAssumption ==
  /\ DevicePoints \subseteq Nat \ {0} /\ 1 \in DevicePoints /\ OfflineAfterCycles \in Nat
  /\ Budgets \subseteq [flips : Nat, changes : Nat, requests : Nat, notices : Nat, faults : Nat]

VARIABLES
  answers,   \* does the device answer?
  dev,       \* DeviceState in the registry: [known, online, failures, setting]
  cycle,     \* the poll cycle: [phase, todo, detached, online, failures]
  disc,      \* the discovery: [phase, online, setting]
  reload,    \* the reload of a setting: [phase, detached, setting]
  notices,   \* config.point messages not yet read
  db,        \* row of the device and of its points: [online, setting]
  heard,     \* the last device.status that was published
  shown,     \* status of the last reading of each point
  stale,     \* was last_seen written long ago?
  calm,      \* has a whole cycle ended since the last discovery?
  left,      \* what is left of the budget
  (* history *)
  streak,    \* cycles without answer since the last answer
  torn,      \* has a cycle ended on an object that was replaced?
  revived,   \* was a reading recorded of a device held offline?
  failed     \* has a call failed, or the service restarted?

collectorVars ==
  <<answers, dev, cycle, disc, reload, notices, db, heard, shown, stale, calm, left,
    streak, torn, revived, failed>>

NoDevice == [known |-> FALSE, online |-> FALSE, failures |-> 0, setting |-> 0]
NoCycle == [phase |-> "idle", todo |-> {}, detached |-> FALSE,
            online |-> FALSE, failures |-> 0]
NoDiscovery == [phase |-> "idle", online |-> FALSE, setting |-> 0]
NoReload == [phase |-> "idle", detached |-> FALSE, setting |-> 0]
Probe == {1}

(* The service starts on a device that was imported and online. *)
CollectorInit ==
  /\ answers = TRUE
  /\ dev = NoDevice
  /\ cycle = NoCycle
  /\ disc = [NoDiscovery EXCEPT !.phase = "who_is"]
  /\ reload = NoReload
  /\ notices = 0
  /\ db = [online |-> TRUE, setting |-> 0]
  /\ heard = TRUE
  /\ shown = [p \in DevicePoints |-> "read"]
  /\ stale = FALSE
  /\ calm = FALSE
  /\ left \in Budgets
  /\ streak = 0 /\ torn = FALSE /\ revived = FALSE /\ failed = FALSE

Tasks == <<dev, cycle, disc, reload, notices>>
History == <<streak, torn, revived>>
World == <<answers, left, failed>>

Spend(what) == left[what] > 0 /\ left' = [left EXCEPT ![what] = @ - 1]

(* One of the calls the code expects to fail does. *)
Fault == Spend("faults") /\ failed' = TRUE

-----------------------------------------------------------------------------
(* The device is lost, or answers again. *)
ComeOrGo ==
  /\ Spend("flips")
  /\ answers' = ~answers
  /\ UNCHANGED <<Tasks, db, heard, shown, stale, calm, failed, History>>

-----------------------------------------------------------------------------
(* The DeviceState the cycle holds: the registry's, unless it was replaced. *)
Online == IF cycle.detached THEN cycle.online ELSE dev.online
Failures == IF cycle.detached THEN cycle.failures ELSE dev.failures

Hold(next, online, failures) ==
  IF cycle.detached
  THEN /\ cycle' = [cycle EXCEPT !.phase = next, !.online = online, !.failures = failures]
       /\ UNCHANGED dev
  ELSE /\ cycle' = [cycle EXCEPT !.phase = next]
       /\ dev' = [dev EXCEPT !.online = online, !.failures = failures]

(* The cycle goes on; back to idle it holds nothing. *)
Phase(next) == cycle' = IF next = "idle" THEN NoCycle ELSE [cycle EXCEPT !.phase = next]

(* _due_points: the points whose time has come, or one probe when the      *)
(* device is offline.                                                      *)
Due == IF dev.online THEN SUBSET DevicePoints \ {{}} ELSE {Probe}

(* _device_loop fetches the device and starts a cycle. *)
StartCycle ==
  /\ dev.known /\ cycle.phase = "idle"
  /\ \E points \in Due : cycle' = [NoCycle EXCEPT !.phase = "reading", !.todo = points]
  /\ UNCHANGED <<World, dev, disc, reload, notices, db, heard, shown, stale, calm, History>>

(* _read_many: ReadPropertyMultiple, or one ReadProperty for each point    *)
(* when the device refuses it, is answered.                                *)
Answered == cycle.phase = "reading" /\ answers

(* Driver.read of a batch: values, or fault for each point when the device *)
(* refuses (DriverError).                                                  *)
ReadBatch ==
  /\ Answered
  /\ LET p == CHOOSE p \in cycle.todo : \A q \in cycle.todo : p <= q
     IN /\ shown' = [shown EXCEPT ![p] = "read"]
        /\ cycle' = [cycle EXCEPT !.todo = @ \ {p},
                                  !.phase = IF cycle.todo = {p} THEN "answered" ELSE @]
  /\ UNCHANGED <<World, dev, disc, reload, notices, db, heard, stale, calm, History>>

(* Mutant of FailuresAfterSuccess: the count is not reset. *)
FailuresKept == Failures

FailuresAfterSuccess == 0

(* _on_success: back online, or last_seen now and then. *)
OnSuccess ==
  /\ cycle.phase = "answered"
  /\ IF Online /\ ~stale
     THEN /\ dev' = IF cycle.detached THEN dev ELSE [dev EXCEPT !.failures = FailuresAfterSuccess]
          /\ Phase("idle")
     ELSE Hold(IF Online THEN "touch" ELSE "up_db", TRUE, FailuresAfterSuccess)
  /\ streak' = 0
  /\ torn' = (torn \/ cycle.detached)
  /\ calm' = (calm \/ ~cycle.detached)
  /\ UNCHANGED <<World, disc, reload, notices, db, heard, shown, stale, revived>>

(* DeviceUnreachable, then _on_failure: a failure more, offline after      *)
(* OfflineAfterCycles of them.                                             *)
OnFailure ==
  /\ cycle.phase = "reading" /\ ~answers
  /\ LET n == IF Failures < OfflineAfterCycles THEN Failures + 1 ELSE Failures
         down == Online /\ n >= OfflineAfterCycles
     IN Hold(IF down THEN "down_db" ELSE "lose_rest", Online /\ ~down, n)
  /\ streak' = IF streak < OfflineAfterCycles THEN streak + 1 ELSE streak
  /\ torn' = (torn \/ cycle.detached)
  /\ calm' = (calm \/ ~cycle.detached)
  /\ UNCHANGED <<World, disc, reload, notices, db, heard, shown, stale, revived>>

(* _publish_status: the row, then the message; a failure ends it, logged.  *)
AfterPublish == IF cycle.phase \in {"up_db", "up_bus"} THEN "idle" ELSE "lose_all"

PublishDb ==
  /\ cycle.phase \in {"up_db", "down_db"}
  /\ db' = [db EXCEPT !.online = cycle.phase = "up_db"]
  /\ stale' = (stale /\ cycle.detached)
  /\ Phase(IF cycle.phase = "up_db" THEN "up_bus" ELSE "down_bus")
  /\ UNCHANGED <<World, dev, disc, reload, notices, heard, shown, calm, History>>

(* Mutant of Status: only losses are announced. *)
StatusLost == FALSE

Status == cycle.phase = "up_bus"

PublishBus ==
  /\ cycle.phase \in {"up_bus", "down_bus"}
  /\ heard' = Status
  /\ Phase(AfterPublish)
  /\ UNCHANGED <<World, dev, disc, reload, notices, db, shown, stale, calm, History>>

PublishFails ==
  /\ cycle.phase \in {"up_db", "down_db", "up_bus", "down_bus"}
  /\ Fault
  /\ stale' = (stale /\ cycle.detached)
  /\ Phase(AfterPublish)
  /\ UNCHANGED <<answers, dev, disc, reload, notices, db, heard, shown, calm, History>>

(* Mutant of LostPoints: a device that goes offline loses the points that  *)
(* were not read.                                                          *)
LostRest == cycle.todo

(* The points that pass to comm_lost: all of them when the device goes     *)
(* offline, those the cycle did not read otherwise.                        *)
LostPoints == IF cycle.phase = "lose_all" THEN DevicePoints ELSE cycle.todo

Lose ==
  /\ cycle.phase \in {"lose_all", "lose_rest"}
  /\ shown' = [p \in DevicePoints |-> IF p \in LostPoints THEN "comm_lost" ELSE shown[p]]
  /\ Phase("idle")
  /\ UNCHANGED <<World, dev, disc, reload, notices, db, heard, stale, calm, History>>

(* _touch_last_seen, LAST_SEEN_PERIOD_S after the last one; it may fail. *)
Touch ==
  /\ cycle.phase = "touch"
  /\ stale' = (stale /\ cycle.detached)
  /\ \/ db' = [db EXCEPT !.online = TRUE] /\ UNCHANGED <<left, failed>>
     \/ Fault /\ UNCHANGED db
  /\ Phase("idle")
  /\ UNCHANGED <<answers, dev, disc, reload, notices, heard, shown, calm, History>>

LastSeenAges ==
  /\ ~stale
  /\ stale' = TRUE
  /\ UNCHANGED <<World, Tasks, db, heard, shown, calm, History>>

(* A COV notification, or the value read again after a write. *)
OtherReading(p) ==
  /\ answers /\ dev.known /\ Spend("notices")
  /\ shown' = [shown EXCEPT ![p] = "read"]
  /\ revived' = (revived \/ ~dev.online)
  /\ UNCHANGED <<answers, failed, Tasks, db, heard, stale, calm, streak, torn>>

-----------------------------------------------------------------------------
(* rediscover: at its interval (an hour: polling goes on in between), or   *)
(* asked by POST /discovery/run (DiscoveryTrigger) at any time.            *)
StartDiscovery ==
  /\ dev.known /\ disc.phase = "idle"
  /\ disc' = [disc EXCEPT !.phase = "who_is"]
  /\ calm' = FALSE
  /\ \/ calm /\ UNCHANGED left
     \/ Spend("requests")
  /\ UNCHANGED <<answers, failed, dev, cycle, reload, notices, db, heard, shown, stale, History>>

(* Who-Is, then the inventory of a device that answers; one that stops     *)
(* answering is left out (import_device).                                  *)
Describe ==
  /\ disc.phase = "who_is"
  /\ disc' = [disc EXCEPT !.phase = IF answers THEN "described" ELSE "load"]
  /\ UNCHANGED <<World, dev, cycle, reload, notices, db, heard, shown, stale, calm, History>>

(* upsert_device, upsert_points. *)
Upsert ==
  /\ disc.phase = "described"
  /\ db' = [db EXCEPT !.online = TRUE]
  /\ disc' = [disc EXCEPT !.phase = "load_described"]
  /\ UNCHANGED <<World, dev, cycle, reload, notices, heard, shown, stale, calm, History>>

(* load_devices: a snapshot of the rows. *)
LoadDevices ==
  /\ disc.phase \in {"load", "load_described"}
  /\ disc' = [phase |-> IF disc.phase = "load" THEN "loaded" ELSE "loaded_described",
              online |-> db.online, setting |-> db.setting]
  /\ UNCHANGED <<World, dev, cycle, reload, notices, db, heard, shown, stale, calm, History>>

(* Mutant of Kept: the new object forgets the count of the old one. *)
KeptOnline == [online |-> dev.online, failures |-> 0]

(* Mutant of Loaded: the setting of the old object is kept as well. *)
LoadedKept == IF dev.known THEN dev.setting ELSE disc.setting

(* The setting of the new object is the one of the snapshot. *)
Loaded == disc.setting

(* What Registry.replace keeps of a device it knows. *)
Kept == IF dev.known THEN [online |-> dev.online, failures |-> dev.failures]
        ELSE [online |-> disc.online, failures |-> 0]

Replace ==
  /\ disc.phase \in {"loaded", "loaded_described"}
  /\ dev' = [known |-> TRUE, online |-> Kept.online, failures |-> Kept.failures,
             setting |-> Loaded]
  /\ cycle' = IF cycle.phase \in {"idle", "lose_rest", "lose_all"} \/ cycle.detached THEN cycle
              ELSE [cycle EXCEPT !.detached = TRUE, !.online = dev.online,
                                 !.failures = dev.failures]
  /\ reload' = IF reload.phase = "idle" THEN reload ELSE [reload EXCEPT !.detached = TRUE]
  /\ disc' = IF disc.phase = "loaded" THEN NoDiscovery ELSE [NoDiscovery EXCEPT !.phase = "record"]
  /\ calm' = FALSE
  /\ UNCHANGED <<World, notices, db, heard, shown, stale, History>>

(* discover() of main.py records the first values of the inventory. *)
RecordInventory ==
  /\ disc.phase = "record"
  /\ shown' = [p \in DevicePoints |-> "read"]
  /\ revived' = (revived \/ ~dev.online)
  /\ disc' = NoDiscovery
  /\ UNCHANGED <<World, dev, cycle, reload, notices, db, heard, stale, calm, streak, torn>>

(* A query fails: logged, until the next discovery. *)
DiscoveryFails ==
  /\ disc.phase \in {"described", "load", "load_described"} /\ dev.known
  /\ Fault
  /\ disc' = NoDiscovery
  /\ UNCHANGED <<answers, dev, cycle, reload, notices, db, heard, shown, stale, calm, History>>

(* A crash, a stop, or a first discovery that fails: the service restarts  *)
(* with an empty registry.                                                 *)
Restart ==
  /\ Fault
  /\ dev' = NoDevice
  /\ cycle' = NoCycle
  /\ disc' = [NoDiscovery EXCEPT !.phase = "who_is"]
  /\ reload' = NoReload
  /\ notices' = 0
  /\ UNCHANGED <<answers, db, heard, shown, stale, calm, History>>

-----------------------------------------------------------------------------
(* update_point of the API: the row, then the message, which may be lost. *)
ChangeSetting ==
  /\ db' = [db EXCEPT !.setting = @ + 1]
  /\ \/ Spend("changes") /\ notices' = notices + 1 /\ UNCHANGED failed
     \/ /\ left.changes > 0 /\ left.faults > 0
        /\ left' = [left EXCEPT !.changes = @ - 1, !.faults = @ - 1]
        /\ failed' = TRUE /\ UNCHANGED notices
  /\ UNCHANGED <<answers, dev, cycle, disc, reload, heard, shown, stale, calm, History>>

(* PointConfigSync.reload: the object, the row, then the assignment. *)
StartReload ==
  /\ notices > 0 /\ reload.phase = "idle"
  /\ notices' = notices - 1
  /\ reload' = IF dev.known THEN [NoReload EXCEPT !.phase = "reading"] ELSE reload
  /\ UNCHANGED <<World, dev, cycle, disc, db, heard, shown, stale, calm, History>>

ReadSetting ==
  /\ reload.phase = "reading"
  /\ \/ /\ reload' = [reload EXCEPT !.phase = "read", !.setting = db.setting]
        /\ UNCHANGED <<left, failed>>
     \/ Fault /\ reload' = NoReload
  /\ UNCHANGED <<answers, dev, cycle, disc, notices, db, heard, shown, stale, calm, History>>

ApplySetting ==
  /\ reload.phase = "read"
  /\ dev' = IF reload.detached THEN dev ELSE [dev EXCEPT !.setting = reload.setting]
  /\ reload' = NoReload
  /\ UNCHANGED <<World, cycle, disc, notices, db, heard, shown, stale, calm, History>>

-----------------------------------------------------------------------------
PollerSteps ==
  \/ StartCycle \/ ReadBatch \/ OnSuccess \/ OnFailure
  \/ PublishDb \/ PublishBus \/ Lose \/ Touch

DiscoverySteps ==
  \/ StartDiscovery \/ Describe \/ Upsert \/ LoadDevices \/ Replace \/ RecordInventory

SyncSteps == StartReload \/ ReadSetting \/ ApplySetting

CollectorNext ==
  \/ PollerSteps \/ DiscoverySteps \/ SyncSteps
  \/ PublishFails \/ DiscoveryFails
  \/ \E p \in DevicePoints : OtherReading(p)
  \/ LastSeenAges \/ ComeOrGo \/ Restart \/ ChangeSetting

CollectorSpec == CollectorInit /\ [][CollectorNext]_collectorVars

(* Every task goes on; a cycle in progress ends however often discovery    *)
(* runs.                                                                   *)
CollectorFairness ==
  /\ WF_collectorVars(PollerSteps) /\ WF_collectorVars(DiscoverySteps)
  /\ WF_collectorVars(SyncSteps) /\ WF_collectorVars(LastSeenAges)

FairCollectorSpec == CollectorSpec /\ CollectorFairness

-----------------------------------------------------------------------------
(* "3 cycles consecutifs sans reponse": a device goes offline only after   *)
(* OfflineAfterCycles cycles in a row without an answer (_on_failure),     *)
(* whatever settings change, calls fail or restarts happen in between, as  *)
(* long as no cycle ended on an object that discovery had replaced.        *)
OfflineDeserved ==
  cycle.phase = "reading" /\ cycle'.phase = "down_db" => torn' \/ streak' >= OfflineAfterCycles

OfflineDeservedUntorn == [][OfflineDeserved]_collectorVars

(* What FairCollectorSpec ends by, in the words of the code.               *)
(*                                                                         *)
(* However polling and discovery interleave, fail and restart, the         *)
(* collector ends by holding the device as it is, and the database shows   *)
(* a device that answers as online (_on_success, _touch_last_seen).        *)
StatusRight == dev.online = answers /\ (answers => db.online)

(* Subscribers of device.status are told the last change, unless a cycle   *)
(* ended on a replaced object, or a call failed (_publish_status).         *)
HeardRight == torn \/ failed \/ heard = dev.online

(* "le collecteur relira le reglage a la prochaine decouverte": a setting  *)
(* saved by the API reaches the registry, though the message may be lost   *)
(* and the object reloaded may have been replaced.                         *)
SettingRight == dev.setting = db.setting

(* "tous ses points en comm_lost": the points of a device that is gone end *)
(* in comm_lost, unless a value was recorded while it was held offline     *)
(* (only one point is probed then), or a step was lost (_on_failure).      *)
PointsRight ==
  answers \/ revived \/ torn \/ failed \/ \A p \in DevicePoints : shown[p] = "comm_lost"
=============================================================================

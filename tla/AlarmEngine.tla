----------------------------- MODULE AlarmEngine -----------------------------
(***************************************************************************)
(* The alarm service (backend/app/alarms): the engine that evaluates the   *)
(* rules under one asyncio lock, its runtimes in memory, the alarm_event   *)
(* rows in PostgreSQL, and what surrounds it: the sources it observes over *)
(* Redis pub/sub, the API that edits rules, failures and restarts.         *)
(*                                                                         *)
(* One rule watches one source.  An engine operation fills `todo`          *)
(* (runtimes still to update) and holds the lock until it is empty; each   *)
(* transition to record is a `job` with two steps, as _persist awaits      *)
(* twice: the database commit, then the publication.                       *)
(***************************************************************************)
EXTENDS AlarmMachine, Sequences

CONSTANTS
  Rules,       \* alarm_rule ids
  EventIds,    \* alarm_event ids (bounds the number of alarms)
  NoRule, NoEvent,
  Kind,        \* [Rules -> Kinds]
  Delay,       \* [Rules -> Nat], delay_s
  Notify,      \* the rules that have notification channels
  Faults,      \* the faults that may happen
  MaxFaults,   \* bound on their number
  MaxOps,      \* bound on source changes and rule edits
  QueueLen     \* bound on undelivered pub/sub messages

Kinds == {"value", "stale", "comm_lost", "bacnet_event"}
FaultKinds == {"db", "commit_lost", "publish", "close_orphan", "crash"}

ASSUME EngineAssumption ==
  /\ NoRule \notin Rules
  /\ NoEvent \notin EventIds
  /\ Kind \in [Rules -> Kinds]
  /\ Delay \in [Rules -> Nat]
  /\ Notify \subseteq Rules
  /\ Faults \subseteq FaultKinds
  /\ MaxFaults \in Nat /\ MaxOps \in Nat /\ QueueLen \in Nat

VARIABLES
  (* database *)
  rule,      \* alarm_rule: "new" (not created), "disabled", "enabled", "deleted"
  owner,     \* alarm_event.rule_id
  row,       \* alarm_event.state, "free" before the insert, "gone" after a cascade
  (* environment *)
  world,     \* is the source of the rule abnormal (point_latest, device.online)
  deleting,  \* rules whose deletion passed its check and is not committed
  ops, faults,
  (* memory of the service *)
  phase,     \* "down", "starting" (not subscribed yet), "running"
  inbox,     \* messages of the Redis subscription, in order
  loaded,    \* keys of self._rules
  machine,   \* RuleRuntime.machine.state
  waited,    \* RuleRuntime.machine.pending_since
  condition, \* RuleRuntime.condition
  event,     \* RuleRuntime.event_id
  overdue,   \* stale rules whose last_valid is older than their threshold
  todo,      \* runtimes the running operation still has to update
  job,       \* the transition _persist is recording
  (* history *)
  noted      \* state of each alarm at its last notification, sent or lost in a crash

database == <<rule, owner, row>>
environment == <<world, deleting, ops>>
runtime == <<machine, waited, condition, event>>
service == <<phase, inbox, loaded, runtime, overdue, todo, job>>
vars == <<database, environment, faults, service, noted>>

NoJob == [step |-> "none"]
Job(r, from, to) == [step |-> "commit", rule |-> r, from |-> from, to |-> to]
Jobs == [step : {"commit", "announce"}, rule : Rules, from : States, to : RowStates]

Enabled == {r \in Rules : rule[r] = "enabled"}
OpenRows == {e \in EventIds : row[e] \in OpenStates}
OpenOf(r) == {e \in OpenRows : owner[e] = r}

(* asyncio.Lock is free. *)
Idle == todo = {} /\ job = NoJob
Alive == phase # "down"

Fault(kind) ==
  /\ kind \in Faults
  /\ faults < MaxFaults
  /\ faults' = faults + 1

Init ==
  /\ rule \in [Rules -> {"new", "enabled"}]
  /\ owner = [e \in EventIds |-> NoRule]
  /\ row = [e \in EventIds |-> "free"]
  /\ world = [r \in Rules |-> FALSE]
  /\ deleting = {}
  /\ ops = 0 /\ faults = 0
  /\ phase = "down"
  /\ inbox = <<>>
  /\ loaded = {}
  /\ machine = [r \in Rules |-> Normal]
  /\ waited = [r \in Rules |-> Unset]
  /\ condition = [r \in Rules |-> FALSE]
  /\ event = [r \in Rules |-> NoEvent]
  /\ overdue = {}
  /\ todo = {}
  /\ job = NoJob
  /\ noted = [e \in EventIds |-> "none"]

-----------------------------------------------------------------------------
(* Loading and restarting *)

(* _restore: the open row of the rule, if any, gives the state back. *)
RestoredEvent(r) ==
  IF OpenOf(r) = {} THEN NoEvent ELSE CHOOSE e \in OpenOf(r) : TRUE

(* Mutants of RestoredState: the rule starts again from NORMAL; every open *)
(* alarm comes back unacknowledged.                                        *)
RestoredAsNormal(r) == Normal
RestoredAsUnacked(r) == IF OpenOf(r) = {} THEN Normal ELSE Unacked

RestoredState(r) == IF OpenOf(r) = {} THEN Normal ELSE row[RestoredEvent(r)]

(* _initial_evaluation: the latest value of a value rule (known holds the  *)
(* points that have one), an offline device for comm_lost; nothing for a   *)
(* device that is online, nor for bacnet_event.                            *)
InitialEvaluation(fresh, known) ==
  {<<r, world[r]>> : r \in {r \in fresh \cap known : Kind[r] = "value"}}
    \cup {<<r, TRUE>> : r \in {r \in fresh : Kind[r] = "comm_lost" /\ world[r]}}

Orphans == {e \in OpenRows : owner[e] \notin Enabled}

(* AlarmEngine.load, at startup, on alarm.rules and every minute. *)
Load ==
  /\ Idle
  /\ LET fresh == Enabled \ loaded
         keep(r) == r \in Enabled \cap loaded
     IN /\ row' = [e \in EventIds |-> IF e \in Orphans THEN Normal ELSE row[e]]
        /\ loaded' = Enabled
        /\ machine' = [r \in Rules |-> IF keep(r) THEN machine[r]
                                       ELSE IF r \in fresh THEN RestoredState(r)
                                       ELSE Normal]
        /\ waited' = [r \in Rules |-> IF keep(r) THEN waited[r] ELSE Unset]
        /\ event' = [r \in Rules |-> IF keep(r) THEN event[r]
                                     ELSE IF r \in fresh THEN RestoredEvent(r)
                                     ELSE NoEvent]
        /\ condition' = [r \in Rules |-> IF keep(r) THEN condition[r]
                                         ELSE r \in fresh /\ RestoredState(r) \in ActiveStates]
        /\ overdue' = (overdue \cap loaded')
                        \cup {r \in fresh : Kind[r] = "stale" /\ world[r]}
        /\ \E known \in SUBSET {r \in fresh : Kind[r] = "value"} :
             todo' = InitialEvaluation(fresh, known)
  /\ phase' = IF phase = "down" THEN "starting" ELSE phase
  /\ UNCHANGED <<rule, owner, environment, faults, inbox, job, noted>>

(* _close_orphan raises: the orphans before it are closed, load() is       *)
(* abandoned before self._rules is replaced.  At startup the service stops.*)
LoadFails ==
  /\ Idle
  /\ Orphans # {}
  /\ Fault("close_orphan")
  /\ \E closed \in SUBSET Orphans :
       row' = [e \in EventIds |-> IF e \in closed THEN Normal ELSE row[e]]
  /\ UNCHANGED <<rule, owner, environment, service, noted>>

(* EngineRunner.run subscribes after the load of main.run. *)
Subscribe ==
  /\ phase = "starting"
  /\ Idle
  /\ phase' = "running"
  /\ UNCHANGED <<database, environment, faults, inbox, loaded, runtime, overdue,
                 todo, job, noted>>

(* The commit of e's last transition is done, its notification is not. *)
Unannounced(e) == job # NoJob /\ job.step = "announce" /\ event[job.rule] = e

(* A task of main.run ends or the container stops: memory is lost, and     *)
(* with it the notification that was about to leave.                       *)
Crash ==
  /\ Alive
  /\ Fault("crash")
  /\ phase' = "down"
  /\ inbox' = <<>>
  /\ loaded' = {}
  /\ machine' = [r \in Rules |-> Normal]
  /\ waited' = [r \in Rules |-> Unset]
  /\ condition' = [r \in Rules |-> FALSE]
  /\ event' = [r \in Rules |-> NoEvent]
  /\ overdue' = {}
  /\ todo' = {}
  /\ job' = NoJob
  /\ noted' = [e \in EventIds |-> IF Unannounced(e) THEN job.to ELSE noted[e]]
  /\ UNCHANGED <<database, environment>>

-----------------------------------------------------------------------------
(* Operations of the engine *)

(* EngineRunner.dispatch: on_value, on_device_status or on_bacnet_event.   *)
OnMessage ==
  /\ phase = "running"
  /\ Idle
  /\ inbox # <<>>
  /\ LET r == Head(inbox)[1]
         c == Head(inbox)[2]
     IN /\ todo' = IF r \in loaded THEN {<<r, c>>} ELSE {}
        /\ overdue' = overdue \ {r}
  /\ inbox' = Tail(inbox)
  /\ UNCHANGED <<database, environment, faults, phase, loaded, runtime, job, noted>>

(* AlarmEngine.tick, every second. *)
TickWork ==
  {<<r, r \in overdue>> : r \in {r \in loaded : Kind[r] = "stale"}}
    \cup {<<r, condition[r]>> :
            r \in {r \in loaded : Kind[r] # "stale" /\ machine[r] = Pending}}

Tick ==
  /\ Alive
  /\ Idle
  /\ TickWork # {}
  /\ todo' = TickWork
  /\ UNCHANGED <<database, environment, faults, phase, inbox, loaded, runtime,
                 overdue, job, noted>>

(* AlarmEngine.acknowledge for the rule whose runtime holds the alarm; a   *)
(* command for any other alarm, or in any other state, changes nothing.    *)
Acknowledge(r) ==
  /\ Alive
  /\ Idle
  /\ r \in loaded
  /\ event[r] # NoEvent
  /\ AckState(machine[r]) # machine[r]
  /\ machine' = [machine EXCEPT ![r] = AckState(machine[r])]
  /\ job' = Job(r, machine[r], AckState(machine[r]))
  /\ UNCHANGED <<database, environment, faults, phase, inbox, loaded, waited,
                 condition, event, overdue, todo, noted>>

(* _update of one runtime. *)
Update ==
  /\ job = NoJob
  /\ \E w \in todo :
       LET r == w[1]
           c == w[2]
           to == UpdateState(machine[r], waited[r], c, Delay[r])
       IN /\ todo' = todo \ {w}
          /\ condition' = [condition EXCEPT ![r] = c]
          /\ machine' = [machine EXCEPT ![r] = to]
          /\ waited' = [waited EXCEPT
                          ![r] = UpdateWaited(machine[r], waited[r], c, Delay[r])]
          /\ job' = IF Persistent(machine[r], to)
                    THEN Job(r, TransitionFrom(machine[r], to), to)
                    ELSE NoJob
  /\ UNCHANGED <<database, environment, faults, phase, inbox, loaded, event,
                 overdue, noted>>

-----------------------------------------------------------------------------
(* _persist *)

(* Mutant of Rollback: the machine keeps the state that was not recorded. *)
RollbackForgotten == job' = NoJob /\ UNCHANGED machine

(* except Exception in _update and acknowledge: back to from_state, and    *)
(* only the state; pending_since stays None.                               *)
Rollback ==
  /\ machine' = [machine EXCEPT ![job.rule] = job.from]
  /\ job' = NoJob

Committed ==
  /\ job' = [job EXCEPT !.step = "announce"]
  /\ UNCHANGED machine

(* create_event, a RAISED transition of a runtime without event_id: the    *)
(* foreign key refuses a deleted rule, the partial unique index a second   *)
(* open alarm, and then the open one is taken over as it is.               *)
InsertRow(e) ==
  /\ row[e] = "free"
  /\ rule[job.rule] # "deleted"
  /\ OpenOf(job.rule) = {}
  /\ owner' = [owner EXCEPT ![e] = job.rule]
  /\ row' = [row EXCEPT ![e] = Unacked]

(* Mutant of CreateEvent: a second open alarm is refused, that is all. *)
CreateEventRefused ==
  /\ job.to = Unacked
  /\ event[job.rule] = NoEvent
  /\ \/ \E e \in EventIds :
          /\ InsertRow(e)
          /\ event' = [event EXCEPT ![job.rule] = e]
          /\ Committed
     \/ /\ rule[job.rule] = "deleted" \/ OpenOf(job.rule) # {}
        /\ Rollback
        /\ UNCHANGED <<owner, row, event>>

CreateEvent ==
  /\ job.to = Unacked
  /\ event[job.rule] = NoEvent
  /\ \/ \E e \in EventIds :
          /\ InsertRow(e)
          /\ event' = [event EXCEPT ![job.rule] = e]
          /\ Committed
     \/ \E e \in OpenOf(job.rule) :
          /\ event' = [event EXCEPT ![job.rule] = e]
          /\ Committed
          /\ UNCHANGED <<owner, row>>
     \/ /\ rule[job.rule] = "deleted" /\ OpenOf(job.rule) = {}
        /\ Rollback
        /\ UNCHANGED <<owner, row, event>>

(* update_event: an UPDATE of a deleted row changes nothing and succeeds;  *)
(* the unique index also guards the reopening of a row.                    *)
IndexAllows(e) ==
  job.to \in OpenStates => OpenOf(owner[e]) \subseteq {e}

UpdateRow(e) ==
  /\ IndexAllows(e)
  /\ row' = [row EXCEPT ![e] = IF @ = "gone" THEN @ ELSE job.to]
  /\ UNCHANGED <<owner, event>>

UpdateEvent ==
  LET e == event[job.rule]
  IN /\ e # NoEvent
     /\ \/ UpdateRow(e) /\ Committed
        \/ ~IndexAllows(e) /\ Rollback /\ UNCHANGED <<owner, row, event>>

(* A transition other than RAISED needs an open alarm. *)
NothingToUpdate ==
  /\ event[job.rule] = NoEvent
  /\ job.to # Unacked
  /\ Rollback
  /\ UNCHANGED <<owner, row, event>>

PersistCommit ==
  /\ job.step = "commit"
  /\ CreateEvent \/ UpdateEvent \/ NothingToUpdate
  /\ UNCHANGED <<rule, environment, faults, phase, inbox, loaded, waited,
                 condition, overdue, todo, noted>>

(* The database cannot be reached (user_login included): nothing written.  *)
PersistFails ==
  /\ job.step = "commit"
  /\ Fault("db")
  /\ Rollback
  /\ UNCHANGED <<database, environment, phase, inbox, loaded, waited, condition,
                 event, overdue, todo, noted>>

(* The transaction is committed but its acknowledgement is lost. *)
PersistCommitLost ==
  /\ job.step = "commit"
  /\ Fault("commit_lost")
  /\ \/ /\ event[job.rule] # NoEvent
        /\ UpdateRow(event[job.rule])
     \/ /\ event[job.rule] = NoEvent /\ job.to = Unacked
        /\ \E e \in EventIds : InsertRow(e)
        /\ UNCHANGED event
  /\ Rollback
  /\ UNCHANGED <<rule, environment, phase, inbox, loaded, waited, condition,
                 overdue, todo, noted>>

(* Mutants of Announce: event_id survives the end of the alarm; only the   *)
(* raise is notified.                                                      *)
AnnounceKeepsEvent ==
  /\ job.step = "announce"
  /\ noted' = IF job.rule \in Notify
              THEN [noted EXCEPT ![event[job.rule]] = job.to] ELSE noted
  /\ job' = NoJob
  /\ UNCHANGED <<database, environment, faults, phase, inbox, loaded, runtime,
                 overdue, todo>>

AnnounceRaiseOnly ==
  /\ job.step = "announce"
  /\ LET r == job.rule
         e == event[r]
     IN /\ noted' = IF r \in Notify /\ job.to = Unacked
                    THEN [noted EXCEPT ![e] = job.to] ELSE noted
        /\ event' = IF job.to = Normal THEN [event EXCEPT ![r] = NoEvent] ELSE event
  /\ job' = NoJob
  /\ UNCHANGED <<database, environment, faults, phase, inbox, loaded, machine,
                 waited, condition, overdue, todo>>

(* The end of _persist: publish on alarm.event, notifier.submit, and the   *)
(* runtime forgets an alarm that is over.                                  *)
Announce ==
  /\ job.step = "announce"
  /\ LET r == job.rule
         e == event[r]
     IN /\ noted' = IF r \in Notify THEN [noted EXCEPT ![e] = job.to] ELSE noted
        /\ event' = IF job.to = Normal THEN [event EXCEPT ![r] = NoEvent] ELSE event
  /\ job' = NoJob
  /\ UNCHANGED <<database, environment, faults, phase, inbox, loaded, machine,
                 waited, condition, overdue, todo>>

(* Redis refuses the publication: rolled back like a database failure. *)
AnnounceFails ==
  /\ job.step = "announce"
  /\ Fault("publish")
  /\ Rollback
  /\ UNCHANGED <<database, environment, phase, inbox, loaded, waited, condition,
                 event, overdue, todo, noted>>

-----------------------------------------------------------------------------
(* The environment *)

Op == ops < MaxOps /\ ops' = ops + 1

(* Redis pub/sub: what is published while nobody is subscribed is lost. *)
Publish(r, c) ==
  IF phase = "running"
  THEN Len(inbox) < QueueLen /\ inbox' = Append(inbox, <<r, c>>)
  ELSE UNCHANGED inbox

(* A source changes and the collector reports it; the silence of a stale   *)
(* source is not reported, it makes last_valid too old.                    *)
SourceChanges(r) ==
  /\ Op
  /\ world' = [world EXCEPT ![r] = ~@]
  /\ IF Kind[r] = "stale" /\ ~world[r]
     THEN /\ overdue' = IF r \in loaded THEN overdue \cup {r} ELSE overdue
          /\ UNCHANGED inbox
     ELSE Publish(r, ~world[r]) /\ UNCHANGED overdue
  /\ UNCHANGED <<database, deleting, faults, phase, loaded, runtime, todo, job, noted>>

(* The poller reads the point again: every reading is published. *)
Repoll(r) ==
  /\ phase = "running"
  /\ Kind[r] = "value" \/ (Kind[r] = "stale" /\ ~world[r])
  /\ \A i \in DOMAIN inbox : inbox[i][1] # r
  /\ Publish(r, world[r])
  /\ UNCHANGED <<database, environment, faults, phase, loaded, runtime, overdue,
                 todo, job, noted>>

(* last_valid becomes too old again after a value that was handled late.   *)
GrowsOld(r) ==
  /\ Kind[r] = "stale" /\ world[r]
  /\ r \in loaded \ overdue
  /\ overdue' = overdue \cup {r}
  /\ UNCHANGED <<database, environment, faults, phase, inbox, loaded, runtime,
                 todo, job, noted>>

(* One unit of delay_s goes by for every temporisation that runs. *)
TimePasses ==
  /\ \E r \in Rules : waited[r] # Unset /\ waited[r] < Delay[r]
  /\ waited' = [r \in Rules |-> IF waited[r] # Unset /\ waited[r] < Delay[r]
                                THEN waited[r] + 1 ELSE waited[r]]
  /\ UNCHANGED <<database, environment, faults, phase, inbox, loaded, machine,
                 condition, event, overdue, todo, job, noted>>

(* create_rule and update_rule. *)
SetRule(r, to) ==
  /\ Op
  /\ rule[r] \in {"new", "disabled", "enabled"} \ {to}
  /\ rule' = [rule EXCEPT ![r] = to]
  /\ UNCHANGED <<owner, row, world, deleting, faults, service, noted>>

(* delete_rule counts the open alarms of the rule ... *)
DeleteCheck(r) ==
  /\ Op
  /\ rule[r] \in {"disabled", "enabled"} /\ r \notin deleting
  /\ OpenOf(r) = {}
  /\ deleting' = deleting \cup {r}
  /\ UNCHANGED <<database, world, faults, service, noted>>

(* ... and commits the deletion, which cascades to alarm_event. *)
DeleteCommit(r) ==
  /\ r \in deleting
  /\ deleting' = deleting \ {r}
  /\ rule' = [rule EXCEPT ![r] = "deleted"]
  /\ row' = [e \in EventIds |-> IF owner[e] = r THEN "gone" ELSE row[e]]
  /\ UNCHANGED <<owner, world, ops, faults, service, noted>>

-----------------------------------------------------------------------------
EngineStep ==
  \/ Load \/ Subscribe \/ OnMessage \/ Tick \/ Update \/ PersistCommit \/ Announce
  \/ \E r \in Rules : Acknowledge(r)

FaultStep ==
  LoadFails \/ Crash \/ PersistFails \/ PersistCommitLost \/ AnnounceFails

EnvironmentStep ==
  \/ TimePasses
  \/ \E r \in Rules :
       \/ SourceChanges(r) \/ Repoll(r) \/ GrowsOld(r)
       \/ \E to \in {"disabled", "enabled"} : SetRule(r, to)
       \/ DeleteCheck(r) \/ DeleteCommit(r)

Next == EngineStep \/ FaultStep \/ EnvironmentStep

Spec == Init /\ [][Next]_vars

(* The tasks of main.run keep running, Docker restarts the service, the    *)
(* poller keeps polling and time goes on.                                  *)
Fairness ==
  /\ WF_vars(phase = "down" /\ Load) /\ WF_vars(Subscribe)
  /\ SF_vars(Load /\ loaded # Enabled)
  /\ SF_vars(OnMessage) /\ SF_vars(Tick)
  /\ WF_vars(Update) /\ WF_vars(PersistCommit) /\ WF_vars(Announce)
  /\ WF_vars(TimePasses)
  /\ \A r \in Rules : SF_vars(Repoll(r)) /\ WF_vars(GrowsOld(r))

FairSpec == Spec /\ Fairness

-----------------------------------------------------------------------------
TypeOK ==
  /\ rule \in [Rules -> {"new", "disabled", "enabled", "deleted"}]
  /\ owner \in [EventIds -> Rules \cup {NoRule}]
  /\ row \in [EventIds -> RowStates \cup {"free", "gone"}]
  /\ world \in [Rules -> BOOLEAN]
  /\ deleting \subseteq Rules
  /\ ops \in 0..MaxOps /\ faults \in 0..MaxFaults
  /\ phase \in {"down", "starting", "running"}
  /\ inbox \in Seq(Rules \X BOOLEAN)
  /\ loaded \subseteq Rules
  /\ machine \in [Rules -> States]
  /\ waited \in [Rules -> Nat \cup {Unset}]
  /\ condition \in [Rules -> BOOLEAN]
  /\ event \in [Rules -> EventIds \cup {NoEvent}]
  /\ overdue \subseteq Rules
  /\ todo \subseteq Rules \X BOOLEAN
  /\ job \in {NoJob} \cup Jobs
  /\ noted \in [EventIds -> RowStates \cup {"none"}]

(* A rule never has two open alarms in alarm_event, through retries, lost  *)
(* commits, restarts and rollbacks (create_event and the unique index).    *)
OneOpenRow == \A r \in Rules : \A e, f \in OpenOf(r) : e = f

(* The state the runtime of r had before the transition being committed.   *)
SettledState(r) ==
  IF job # NoJob /\ job.step = "commit" /\ job.rule = r THEN job.from ELSE machine[r]

(* What the engine believes of a loaded rule is what alarm_event says: an  *)
(* open state is the state of the row event_id points to, and without one  *)
(* no row of the rule is open (_update, _persist, load).                   *)
MemoryMatchesRow ==
  \A r \in loaded : rule[r] # "deleted" =>
    IF SettledState(r) \in OpenStates
    THEN event[r] # NoEvent /\ row[event[r]] = SettledState(r)
    ELSE OpenOf(r) = {}

(* No notification is early or left out, whatever is retried or restored:  *)
(* the last one of an open alarm announces the state of its row, except    *)
(* between commit and publication (_persist), where only a crash loses it. *)
NotifiedMatchesRow ==
  \A e \in OpenRows : owner[e] \in Notify => noted[e] = row[e] \/ Unannounced(e)

(* The rows live the life AlarmLifecycle promises. *)
Lifecycle == INSTANCE AlarmLifecycle
LifecycleSpec == Lifecycle!LSpec

(* The faults that leave memory and rows together: the database refuses a  *)
(* write, or the service stops.                                            *)
CleanFaults == Faults \subseteq {"db", "crash"}

(* The inductive invariant behind MemoryMatchesRow and LifecycleSpec: what *)
(* a job records, which runtimes hold an alarm, whose alarm it is, and     *)
(* that the history of a deleted rule is gone (_persist, load, cascade).   *)
JobOK ==
  job # NoJob =>
    /\ job.rule \in loaded
    /\ machine[job.rule] = job.to
    /\ <<job.from, job.to>> \in Lifecycle!Arrows \cup {<<Pending, Unacked>>}
    /\ job.step = "announce" =>
         /\ event[job.rule] # NoEvent
         /\ rule[job.rule] # "deleted" => row[event[job.rule]] = job.to

HoldsAlarm ==
  \A r \in loaded :
    IF SettledState(r) \in OpenStates
    THEN event[r] # NoEvent
    ELSE event[r] = NoEvent \/ (job # NoJob /\ job.step = "announce" /\ job.rule = r)

EventOwned ==
  \A r \in Rules : event[r] # NoEvent =>
    owner[event[r]] = r /\ row[event[r]] # "free"

DeletedGone ==
  \A e \in EventIds :
    owner[e] \in Rules => (rule[owner[e]] = "deleted" => row[e] = "gone")

TodoLoaded == \A w \in todo : w[1] \in loaded

Consistent ==
  /\ OneOpenRow /\ MemoryMatchesRow
  /\ JobOK /\ HoldsAlarm /\ EventOwned /\ DeletedGone /\ TodoLoaded

EngineInv == TypeOK /\ Consistent

(* A condition that lasts on an enabled rule ends up as an active alarm,   *)
(* whatever failed meanwhile (tick retries a raise that was rolled back).  *)
LastingConditionRaises ==
  \A r \in Rules :
    <>[](world[r] /\ rule[r] = "enabled")
      => <>[](\E e \in OpenOf(r) : row[e] \in ActiveStates)

(* While a condition lasts, no alarm of its rule stays open out of the     *)
(* hands of the engine, under every fault: one inserted by a commit whose  *)
(* answer was lost is taken over by the retry that the unique index        *)
(* refuses, and where the source is observed again and again its machine   *)
(* ends up active (_update, tick, create_event).                           *)
OpenAlarmTaken ==
  \A r \in Rules :
    <>[](world[r] /\ rule[r] = "enabled") =>
      <>[](\A e \in OpenOf(r) :
             event[r] = e /\ (Kind[r] \in {"value", "stale"} => machine[r] \in ActiveStates))

(* An alarm whose condition is over for good does not stay active. *)
LastingReturnClears ==
  \A r \in Rules :
    <>[](~world[r] /\ rule[r] = "enabled")
      => <>[](\A e \in OpenOf(r) : row[e] \notin ActiveStates)
=============================================================================

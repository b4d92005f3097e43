-------------------------- MODULE AlarmEngineProofs --------------------------
(***************************************************************************)
(* Proofs about AlarmEngine for every set of rules, of kinds, of delays    *)
(* and every bound: types, one open alarm per rule under every fault, and, *)
(* when the only faults are database refusals and crashes, agreement of    *)
(* memory and rows and refinement of AlarmLifecycle.                       *)
(***************************************************************************)
EXTENDS AlarmEngine, TLAPS

USE DEF States, RowStates, OpenStates, ActiveStates, Normal, Pending, Unacked,
        Acked, Cleared, Unset,
        Lifecycle!States, Lifecycle!RowStates, Lifecycle!OpenStates, Lifecycle!Normal,
        Lifecycle!Pending, Lifecycle!Unacked, Lifecycle!Acked, Lifecycle!Cleared

(* The machine of machine.py stays among its states. *)
LEMMA MachineType ==
  ASSUME NEW s \in States, NEW w \in Nat \cup {Unset}, NEW c \in BOOLEAN, NEW d \in Nat
  PROVE  /\ UpdateState(s, w, c, d) \in States
         /\ UpdateWaited(s, w, c, d) \in Nat \cup {Unset}
         /\ AckState(s) \in States
         /\ Persistent(s, UpdateState(s, w, c, d)) =>
              /\ UpdateState(s, w, c, d) \in RowStates
              /\ TransitionFrom(s, UpdateState(s, w, c, d)) \in States
BY DEF UpdateState, UpdateWaited, AckState, Persistent, TransitionFrom, Expired, Elapsed

(* Publishing keeps the inbox a sequence of messages (Publish). *)
LEMMA AppendType ==
  ASSUME NEW S, NEW q \in Seq(S), NEW x \in S
  PROVE  Append(q, x) \in Seq(S)
OBVIOUS

(* Zenon keeps truth values apart from other values, SMT does not. *)
LEMMA PairType ==
  ASSUME NEW R, NEW r \in R, NEW c \in BOOLEAN
  PROVE  <<r, c>> \in R \X BOOLEAN
BY Zenon

(* Every variable keeps its type (all operations of the alarm service). *)
THEOREM TypeCorrect == Spec => []TypeOK
<1>1. Init => TypeOK
  BY EngineAssumption DEF Init, TypeOK
<1>2. TypeOK /\ [Next]_vars => TypeOK'
  <2> SUFFICES ASSUME TypeOK, [Next]_vars PROVE TypeOK'
    OBVIOUS
  <2> USE EngineAssumption
  <2>1. CASE Load
    <3>1. \A r \in Rules : OpenOf(r) # {} =>
            RestoredEvent(r) \in EventIds /\ row[RestoredEvent(r)] \in RowStates
      BY DEF OpenOf, OpenRows, RestoredEvent, TypeOK
    <3>2. \A r \in Rules : RestoredState(r) \in States
                           /\ RestoredEvent(r) \in EventIds \cup {NoEvent}
      BY <3>1 DEF RestoredState, RestoredEvent
    <3>3. machine' \in [Rules -> States] /\ event' \in [Rules -> EventIds \cup {NoEvent}]
      BY <2>1, <3>2 DEF Load, TypeOK
    <3>4. ASSUME NEW w \in todo' PROVE w \in Rules \X BOOLEAN
      <4>1. \A r \in Rules : world[r] \in BOOLEAN
        BY DEF TypeOK
      <4>2. PICK known : w \in InitialEvaluation(Enabled \ loaded, known)
        BY <2>1, <3>4, Zenon DEF Load
      <4>3. PICK r \in Rules : w = <<r, world[r]>> \/ w = <<r, TRUE>>
        BY <4>2, Zenon DEF InitialEvaluation, Enabled
      <4>4. <<r, world[r]>> \in Rules \X BOOLEAN /\ <<r, TRUE>> \in Rules \X BOOLEAN
        BY <4>1, PairType
      <4>5. QED
        BY <4>3, <4>4, Zenon
    <3>5. /\ row' \in [EventIds -> RowStates \cup {"free", "gone"}]
          /\ loaded' \subseteq Rules /\ overdue' \subseteq Rules
          /\ waited' \in [Rules -> Nat \cup {Unset}]
          /\ condition' \in [Rules -> BOOLEAN]
          /\ phase' \in {"down", "starting", "running"}
      BY <2>1 DEF Load, TypeOK, Enabled
    <3>6. QED
      BY <2>1, <3>3, <3>4, <3>5 DEF Load, TypeOK, environment
  <2>2. CASE LoadFails
    BY <2>2 DEF LoadFails, Fault, TypeOK, environment, service, runtime
  <2>3. CASE Subscribe
    BY <2>3 DEF Subscribe, TypeOK, database, environment, runtime
  <2>4. CASE Crash
    BY <2>4 DEF Crash, Unannounced, Fault, TypeOK, Jobs, database, environment
  <2>5. CASE OnMessage
    <3>1. /\ Head(inbox) \in Rules \X BOOLEAN
          /\ Tail(inbox) \in Seq(Rules \X BOOLEAN)
      BY <2>5 DEF OnMessage, TypeOK
    <3>2. todo' \subseteq Rules \X BOOLEAN
      BY <2>5, <3>1 DEF OnMessage
    <3>3. QED
      BY <2>5, <3>1, <3>2 DEF OnMessage, TypeOK, database, environment, runtime
  <2>6. CASE Tick
    <3>1. ASSUME NEW w \in todo' PROVE w \in Rules \X BOOLEAN
      <4>1. PICK r \in Rules : w = <<r, r \in overdue>> \/ w = <<r, condition[r]>>
        BY <2>6, <3>1 DEF Tick, TickWork, TypeOK
      <4>2. condition[r] \in BOOLEAN /\ (r \in overdue) \in BOOLEAN
        BY DEF TypeOK
      <4>3. /\ <<r, r \in overdue>> \in Rules \X BOOLEAN
            /\ <<r, condition[r]>> \in Rules \X BOOLEAN
        BY <4>2, PairType
      <4>4. QED
        BY <4>1, <4>3, Zenon
    <3>2. QED
      BY <2>6, <3>1 DEF Tick, TypeOK, database, environment, runtime
  <2>7. ASSUME NEW r \in Rules, Acknowledge(r) PROVE TypeOK'
    <3>1. machine[r] \in States /\ AckState(machine[r]) \in RowStates
      BY <2>7 DEF Acknowledge, TypeOK, AckState
    <3>2. job' \in Jobs
      BY <2>7, <3>1 DEF Acknowledge, Job, Jobs
    <3>3. QED
      BY <2>7, <3>1, <3>2 DEF Acknowledge, TypeOK, database, environment
  <2>8. CASE Update
    <3>1. PICK w \in todo : Update!2!(w)
      BY <2>8 DEF Update
    <3> DEFINE r == w[1]
               c == w[2]
               to == UpdateState(machine[r], waited[r], c, Delay[r])
    <3>2. r \in Rules /\ c \in BOOLEAN /\ machine[r] \in States
          /\ waited[r] \in Nat \cup {Unset} /\ Delay[r] \in Nat
      BY <3>1 DEF TypeOK
    <3>3. /\ to \in States
          /\ UpdateWaited(machine[r], waited[r], c, Delay[r]) \in Nat \cup {Unset}
          /\ Persistent(machine[r], to) =>
               to \in RowStates /\ TransitionFrom(machine[r], to) \in States
      BY <3>2, MachineType
    <3>4. job' \in {NoJob} \cup Jobs
      BY <3>1, <3>2, <3>3 DEF Job, Jobs
    <3>5. QED
      BY <2>8, <3>1, <3>2, <3>3, <3>4 DEF Update, TypeOK, database, environment
  <2>9. ASSUME job.step \in {"commit", "announce"},
               PersistCommit \/ PersistFails \/ PersistCommitLost \/ Announce \/ AnnounceFails
        PROVE  TypeOK'
    <3>1. job \in Jobs
      BY <2>9 DEF TypeOK, NoJob
    <3>2. job.rule \in Rules /\ job.from \in States /\ job.to \in RowStates
      BY <3>1 DEF Jobs
    <3>3. Rollback => machine' \in [Rules -> States] /\ job' \in {NoJob} \cup Jobs
      BY <3>2 DEF Rollback, TypeOK
    <3>4. Committed => machine' \in [Rules -> States] /\ job' \in {NoJob} \cup Jobs
      <4>1. [job EXCEPT !.step = "announce"] \in Jobs
        BY <3>1 DEF Jobs
      <4>2. machine \in [Rules -> States]
        BY DEF TypeOK
      <4> QED BY <4>1, <4>2 DEF Committed
    <3>5. \A e \in EventIds : InsertRow(e) =>
            /\ owner' \in [EventIds -> Rules \cup {NoRule}]
            /\ row' \in [EventIds -> RowStates \cup {"free", "gone"}]
      BY <3>2 DEF InsertRow, TypeOK
    <3>6. \A e \in EventIds : UpdateRow(e) =>
            /\ owner' \in [EventIds -> Rules \cup {NoRule}]
            /\ row' \in [EventIds -> RowStates \cup {"free", "gone"}]
            /\ event' \in [Rules -> EventIds \cup {NoEvent}]
      BY <3>2 DEF UpdateRow, TypeOK
    <3>7. CASE PersistCommit
      <4> DEFINE Typed == /\ owner' \in [EventIds -> Rules \cup {NoRule}]
                          /\ row' \in [EventIds -> RowStates \cup {"free", "gone"}]
                          /\ event' \in [Rules -> EventIds \cup {NoEvent}]
                          /\ Rollback \/ Committed
      <4>1. Typed
        <5>1. CASE CreateEvent
          <6>1. \A e \in EventIds \cup OpenOf(job.rule) :
                  [event EXCEPT ![job.rule] = e] \in [Rules -> EventIds \cup {NoEvent}]
            BY <3>2 DEF OpenOf, OpenRows, TypeOK
          <6>2. ASSUME NEW e \in EventIds, InsertRow(e), Committed,
                       event' = [event EXCEPT ![job.rule] = e]
                PROVE  Typed
            BY <6>1, <6>2, <3>5
          <6>3. ASSUME NEW e \in OpenOf(job.rule), Committed, UNCHANGED <<owner, row>>,
                       event' = [event EXCEPT ![job.rule] = e]
                PROVE  Typed
            BY <6>1, <6>3 DEF TypeOK
          <6>4. ASSUME Rollback, UNCHANGED <<owner, row, event>> PROVE Typed
            BY <6>4 DEF TypeOK
          <6>5. QED
            <7> HIDE DEF Typed
            <7> QED
              BY <5>1, <6>2, <6>3, <6>4 DEF CreateEvent
        <5>2. CASE UpdateEvent
          BY <5>2, <3>2, <3>6 DEF UpdateEvent, TypeOK
        <5>3. CASE NothingToUpdate
          BY <5>3 DEF NothingToUpdate, TypeOK
        <5>4. QED
          BY <3>7, <5>1, <5>2, <5>3 DEF PersistCommit
      <4>2. QED
        BY <3>3, <3>4, <3>7, <4>1 DEF PersistCommit, TypeOK, environment
    <3>8. CASE PersistFails
      BY <3>3, <3>8 DEF PersistFails, Fault, TypeOK, database, environment
    <3>9. CASE PersistCommitLost
      <4>1. /\ owner' \in [EventIds -> Rules \cup {NoRule}]
            /\ row' \in [EventIds -> RowStates \cup {"free", "gone"}]
            /\ event' \in [Rules -> EventIds \cup {NoEvent}]
        BY <3>2, <3>5, <3>6, <3>9 DEF PersistCommitLost, TypeOK
      <4>2. QED
        BY <3>3, <3>9, <4>1 DEF PersistCommitLost, Fault, TypeOK, environment
    <3>10. CASE Announce
      BY <3>2, <3>10 DEF Announce, TypeOK, database, environment
    <3>11. CASE AnnounceFails
      BY <3>3, <3>11 DEF AnnounceFails, Fault, TypeOK, database, environment
    <3>12. QED
      BY <2>9, <3>7, <3>8, <3>9, <3>10, <3>11
  <2>10. (PersistCommit \/ PersistFails \/ PersistCommitLost \/ Announce \/ AnnounceFails)
           => job.step \in {"commit", "announce"}
    BY DEF PersistCommit, PersistFails, PersistCommitLost, Announce, AnnounceFails
  <2>11. CASE TimePasses
    BY <2>11 DEF TimePasses, TypeOK, database, environment
  <2>12. ASSUME NEW r \in Rules, SourceChanges(r) PROVE TypeOK'
    <3>1. <<r, ~world[r]>> \in Rules \X BOOLEAN
      BY PairType
    <3>2. Append(inbox, <<r, ~world[r]>>) \in Seq(Rules \X BOOLEAN)
      BY <3>1, AppendType DEF TypeOK
    <3>3. inbox' \in Seq(Rules \X BOOLEAN)
      BY <2>12, <3>2 DEF SourceChanges, Publish, TypeOK
    <3>4. QED
      BY <2>12, <3>3 DEF SourceChanges, Op, TypeOK, database, runtime
  <2>13. ASSUME NEW r \in Rules, Repoll(r) PROVE TypeOK'
    <3>1. <<r, world[r]>> \in Rules \X BOOLEAN
      BY PairType DEF TypeOK
    <3>2. Append(inbox, <<r, world[r]>>) \in Seq(Rules \X BOOLEAN)
      BY <3>1, AppendType DEF TypeOK
    <3>3. inbox' \in Seq(Rules \X BOOLEAN)
      BY <2>13, <3>2 DEF Repoll, Publish, TypeOK
    <3>4. QED
      BY <2>13, <3>3 DEF Repoll, TypeOK, database, environment, runtime
  <2>14. ASSUME NEW r \in Rules, NEW to \in {"disabled", "enabled"}, SetRule(r, to)
         PROVE  TypeOK'
    BY <2>14 DEF SetRule, Op, TypeOK, service, runtime
  <2>15. ASSUME NEW r \in Rules, DeleteCheck(r) \/ DeleteCommit(r) PROVE TypeOK'
    BY <2>15 DEF DeleteCheck, DeleteCommit, Op, TypeOK, database, service, runtime
  <2>16. CASE UNCHANGED vars
    BY <2>16 DEF vars, TypeOK, database, environment, service, runtime
  <2>17. ASSUME NEW r \in Rules, GrowsOld(r) PROVE TypeOK'
    BY <2>17 DEF GrowsOld, TypeOK, database, environment, runtime
  <2>18. QED
    BY <2>1, <2>2, <2>3, <2>4, <2>5, <2>6, <2>7, <2>8, <2>9, <2>10, <2>11, <2>12,
       <2>13, <2>14, <2>15, <2>16, <2>17 DEF Next, EngineStep, FaultStep, EnvironmentStep
<1>3. QED
  BY <1>1, <1>2, PTL DEF Spec

-----------------------------------------------------------------------------
(* The five ways a step may write alarm_event: not at all, the insert and  *)
(* the update of _persist, the closing of orphans by load, the cascade.    *)
LEMMA RowSteps ==
  ASSUME TypeOK, [Next]_vars
  PROVE  \/ UNCHANGED <<owner, row>>
         \/ job.step = "commit" /\ \E e \in EventIds : InsertRow(e)
         \/ job.step = "commit" /\ \E e \in EventIds : UpdateRow(e)
         \/ \E S \in SUBSET EventIds :
              /\ row' = [e \in EventIds |-> IF e \in S THEN Normal ELSE row[e]]
              /\ UNCHANGED owner
         \/ \E r \in Rules :
              /\ row' = [e \in EventIds |-> IF owner[e] = r THEN "gone" ELSE row[e]]
              /\ UNCHANGED owner
<1> DEFINE Insert == job.step = "commit" /\ \E e \in EventIds : InsertRow(e)
           Modify == job.step = "commit" /\ \E e \in EventIds : UpdateRow(e)
           Close == \E S \in SUBSET EventIds :
                      /\ row' = [e \in EventIds |-> IF e \in S THEN Normal ELSE row[e]]
                      /\ UNCHANGED owner
           Cascade == \E r \in Rules :
                      /\ row' = [e \in EventIds |-> IF owner[e] = r THEN "gone" ELSE row[e]]
                      /\ UNCHANGED owner
<1>1. Load => Close
  <2>1. Orphans \in SUBSET EventIds
    BY DEF Orphans, OpenRows
  <2>2. QED
    BY <2>1 DEF Load
<1>2. LoadFails => Close
  <2>1. \A closed \in SUBSET Orphans : closed \in SUBSET EventIds
    BY DEF Orphans, OpenRows
  <2>2. QED
    BY <2>1 DEF LoadFails
<1>3. PersistCommit => Insert \/ Modify \/ UNCHANGED <<owner, row>>
  <2>1. CreateEvent => UNCHANGED <<owner, row>> \/ \E e \in EventIds : InsertRow(e)
    BY DEF CreateEvent
  <2>2. job.step = "commit" /\ UpdateEvent
          => UNCHANGED <<owner, row>> \/ \E e \in EventIds : UpdateRow(e)
    <3>1. job.step = "commit" => job.rule \in Rules
      BY DEF TypeOK, Jobs, NoJob
    <3>2. QED
      BY <3>1 DEF UpdateEvent, TypeOK
  <2>3. QED
    BY <2>1, <2>2 DEF PersistCommit, NothingToUpdate
<1>4. PersistCommitLost => Insert \/ Modify
  <2>1. job.step = "commit" => job.rule \in Rules
    BY DEF TypeOK, Jobs, NoJob
  <2>2. QED
    BY <2>1 DEF PersistCommitLost, TypeOK
<1>5. \A r \in Rules : DeleteCommit(r) => Cascade
  BY DEF DeleteCommit
<1>6. Subscribe \/ OnMessage \/ Tick \/ Update \/ Announce \/ Crash \/ PersistFails
        \/ AnnounceFails \/ TimePasses => UNCHANGED <<owner, row>>
  BY DEF Subscribe, OnMessage, Tick, Update, Announce, Crash, PersistFails, AnnounceFails,
         TimePasses, database
<1>7. \A r \in Rules :
        /\ Acknowledge(r) \/ SourceChanges(r) \/ Repoll(r) \/ GrowsOld(r) \/ DeleteCheck(r)
             => UNCHANGED <<owner, row>>
        /\ \A to \in {"disabled", "enabled"} : SetRule(r, to) => UNCHANGED <<owner, row>>
  BY DEF Acknowledge, SourceChanges, Repoll, GrowsOld, DeleteCheck, SetRule, database
<1>8. UNCHANGED vars => UNCHANGED <<owner, row>>
  BY DEF vars, database
<1> HIDE DEF Insert, Modify, Close, Cascade
<1>9. Insert \/ Modify \/ Close \/ Cascade \/ UNCHANGED <<owner, row>>
  BY <1>1, <1>2, <1>3, <1>4, <1>5, <1>6, <1>7, <1>8
     DEF Next, EngineStep, FaultStep, EnvironmentStep
<1>10. QED
  BY <1>9 DEF Insert, Modify, Close, Cascade

(* A rule never has two open alarms, whatever fails and whenever           *)
(* (create_event, update_event and uq_alarm_event_open_rule).              *)
LEMMA OneOpenRowHolds == Spec => []OneOpenRow
<1>1. Init => OneOpenRow
  BY DEF Init, OneOpenRow, OpenOf, OpenRows
<1>2. TypeOK /\ OneOpenRow /\ [Next]_vars => OneOpenRow'
  <2> SUFFICES ASSUME TypeOK, OneOpenRow, [Next]_vars,
                      NEW r \in Rules, NEW e \in OpenOf(r)', NEW f \in OpenOf(r)'
               PROVE  e = f
    BY DEF OneOpenRow
  <2> USE DEF OpenOf, OpenRows
  <2>1. CASE UNCHANGED <<owner, row>>
    BY <2>1 DEF OneOpenRow
  <2>2. ASSUME job.step = "commit", NEW g \in EventIds, InsertRow(g) PROVE e = f
    BY <2>2 DEF InsertRow, OneOpenRow, TypeOK
  <2>3. ASSUME job.step = "commit", NEW g \in EventIds, UpdateRow(g) PROVE e = f
    <3>1. job.to \in RowStates
      BY <2>3 DEF TypeOK, Jobs, NoJob
    <3>2. QED
      BY <2>3, <3>1 DEF UpdateRow, IndexAllows, OneOpenRow, TypeOK
  <2>4. ASSUME NEW S \in SUBSET EventIds, UNCHANGED owner,
               row' = [g \in EventIds |-> IF g \in S THEN Normal ELSE row[g]]
        PROVE  e = f
    BY <2>4 DEF OneOpenRow, TypeOK
  <2>5. ASSUME NEW q \in Rules, UNCHANGED owner,
               row' = [g \in EventIds |-> IF owner[g] = q THEN "gone" ELSE row[g]]
        PROVE  e = f
    BY <2>5 DEF OneOpenRow, TypeOK
  <2>6. QED
    BY <2>1, <2>2, <2>3, <2>4, <2>5, RowSteps
<1>3. QED
  BY <1>1, <1>2, TypeCorrect, PTL DEF Spec

-----------------------------------------------------------------------------
(* What the memory of the engine and alarm_event keep in common under      *)
(* every fault, lost commits and refused publications included.            *)
HoldsAlone(r) ==
  event[r] # NoEvent =>
    /\ owner[event[r]] = r /\ row[event[r]] # "free"
    /\ OpenOf(r) \subseteq {event[r]}

HeldAlone == \A r \in Rules : HoldsAlone(r)

(* Rows that end, and runtimes that forget. *)
LEMMA HeldQuiet ==
  ASSUME TypeOK, NEW r \in Rules, HoldsAlone(r), UNCHANGED owner,
         event'[r] \in {event[r], NoEvent},
         \A e \in EventIds : row'[e] \in {row[e], Normal, "gone"}
  PROVE  HoldsAlone(r)'
BY DEF HoldsAlone, OpenOf, OpenRows, TypeOK

(* An alarm that comes back from the database, when it is the only one. *)
LEMMA HeldTaken ==
  ASSUME TypeOK, OneOpenRow, NEW r \in Rules, NEW e \in OpenOf(r), UNCHANGED owner,
         event'[r] = e, \A f \in OpenOf(r)' : f \in OpenOf(r), row'[e] = row[e]
  PROVE  HoldsAlone(r)'
BY DEF HoldsAlone, OneOpenRow, OpenOf, OpenRows, TypeOK

LEMMA HeldJob ==
  ASSUME TypeOK, job.step = "commit"
  PROVE  job.rule \in Rules /\ job.to \in RowStates
BY DEF TypeOK, Jobs, NoJob

LEMMA HeldLoad ==
  ASSUME TypeOK, OneOpenRow, HeldAlone, Load
  PROVE  HeldAlone'
<1> SUFFICES ASSUME NEW r \in Rules PROVE HoldsAlone(r)'
  BY DEF HeldAlone
<1>1. /\ UNCHANGED owner /\ HoldsAlone(r)
      /\ \A e \in EventIds : row'[e] = IF e \in Orphans THEN Normal ELSE row[e]
  BY DEF Load, HeldAlone
<1>2. CASE r \in Enabled \ loaded /\ OpenOf(r) # {}
  <2>1. event'[r] = RestoredEvent(r) /\ RestoredEvent(r) \in OpenOf(r)
    BY <1>2 DEF Load, RestoredEvent
  <2>2. RestoredEvent(r) \notin Orphans /\ RestoredEvent(r) \in EventIds
    BY <1>2, <2>1 DEF Orphans, OpenOf, OpenRows
  <2>3. \A f \in OpenOf(r)' : f \in OpenOf(r)
    BY <1>1 DEF OpenOf, OpenRows
  <2> QED BY <1>1, <2>1, <2>2, <2>3, HeldTaken
<1>3. CASE ~(r \in Enabled \ loaded /\ OpenOf(r) # {})
  <2>1. event'[r] \in {event[r], NoEvent}
    BY <1>3 DEF Load, RestoredEvent
  <2>2. \A e \in EventIds : row'[e] \in {row[e], Normal, "gone"}
    BY <1>1
  <2> QED BY <1>1, <2>1, <2>2, HeldQuiet
<1> QED BY <1>2, <1>3

(* The insert of a RAISED transition, whether its answer arrives or not. *)
LEMMA HeldInsert ==
  ASSUME TypeOK, HeldAlone, job.step = "commit", event[job.rule] = NoEvent,
         NEW e \in EventIds, InsertRow(e),
         event' \in {event, [event EXCEPT ![job.rule] = e]}
  PROVE  HeldAlone'
<1> SUFFICES ASSUME NEW r \in Rules PROVE HoldsAlone(r)'
  BY DEF HeldAlone
<1>1. /\ row[e] = "free" /\ OpenOf(job.rule) = {} /\ job.rule \in Rules
      /\ owner' = [owner EXCEPT ![e] = job.rule] /\ row' = [row EXCEPT ![e] = Unacked]
  BY HeldJob DEF InsertRow
<1>2. HoldsAlone(r)
  BY DEF HeldAlone
<1>3. CASE r = job.rule
  <2>1. OpenOf(r)' \subseteq {e} /\ owner'[e] = r /\ row'[e] = Unacked
    BY <1>1, <1>3 DEF OpenOf, OpenRows, TypeOK
  <2>2. event'[r] \in {NoEvent, e}
    BY <1>1, <1>3 DEF TypeOK
  <2> QED BY <2>1, <2>2 DEF HoldsAlone
<1>4. CASE r # job.rule
  <2>1. event'[r] = event[r]
    BY <1>1, <1>4 DEF TypeOK
  <2>2. CASE event[r] # NoEvent
    <3>1. event[r] \in EventIds /\ event[r] # e /\ row[event[r]] # "free"
      BY <1>1, <1>2, <2>2 DEF HoldsAlone, TypeOK
    <3>2. OpenOf(r)' \subseteq OpenOf(r)
      BY <1>1, <1>4 DEF OpenOf, OpenRows, TypeOK
    <3>3. owner'[event[r]] = owner[event[r]] /\ row'[event[r]] = row[event[r]]
      BY <1>1, <3>1 DEF TypeOK
    <3> QED BY <1>2, <2>1, <2>2, <3>1, <3>2, <3>3 DEF HoldsAlone
  <2> QED BY <2>1, <2>2 DEF HoldsAlone
<1> QED BY <1>3, <1>4

(* An update writes the row that the rule holds. *)
LEMMA HeldUpdate ==
  ASSUME TypeOK, HeldAlone, job.step = "commit", event[job.rule] # NoEvent,
         UpdateRow(event[job.rule])
  PROVE  HeldAlone'
<1> SUFFICES ASSUME NEW r \in Rules PROVE HoldsAlone(r)'
  BY DEF HeldAlone
<1> DEFINE e == event[job.rule]
<1>1. /\ job.rule \in Rules /\ job.to \in RowStates /\ e \in EventIds
      /\ owner[e] = job.rule /\ row[e] # "free"
      /\ UNCHANGED <<owner, event>>
      /\ row' = [row EXCEPT ![e] = IF @ = "gone" THEN @ ELSE job.to]
  BY HeldJob DEF UpdateRow, HeldAlone, HoldsAlone, TypeOK
<1>2. /\ row'[e] # "free"
      /\ \A f \in EventIds \ {e} : row'[f] = row[f]
  BY <1>1 DEF TypeOK
<1>3. CASE r = job.rule
  <2>1. OpenOf(r)' \subseteq OpenOf(r) \cup {e}
    BY <1>1, <1>2 DEF OpenOf, OpenRows
  <2>2. OpenOf(r) \subseteq {e}
    BY <1>3 DEF HeldAlone, HoldsAlone
  <2> QED BY <1>1, <1>2, <1>3, <2>1, <2>2 DEF HoldsAlone
<1>4. CASE r # job.rule
  <2>1. OpenOf(r)' = OpenOf(r)
    BY <1>1, <1>2, <1>4 DEF OpenOf, OpenRows
  <2>2. event[r] # NoEvent => event[r] \in EventIds \ {e}
    BY <1>1, <1>4 DEF HeldAlone, HoldsAlone, TypeOK
  <2> QED BY <1>1, <1>2, <2>1, <2>2 DEF HeldAlone, HoldsAlone
<1> QED BY <1>3, <1>4

LEMMA HeldCommit ==
  ASSUME TypeOK, OneOpenRow, HeldAlone, PersistCommit
  PROVE  HeldAlone'
<1>1. job.step = "commit" /\ job.rule \in Rules
  BY HeldJob DEF PersistCommit
<1>2. ASSUME UNCHANGED <<owner, row, event>> PROVE HeldAlone'
  BY <1>2, HeldQuiet DEF HeldAlone
<1>3. CASE CreateEvent
  <2>1. ASSUME NEW e \in EventIds, InsertRow(e), event' = [event EXCEPT ![job.rule] = e]
        PROVE  HeldAlone'
    BY <1>1, <1>3, <2>1, HeldInsert DEF CreateEvent
  <2>2. ASSUME NEW e \in OpenOf(job.rule), UNCHANGED <<owner, row>>,
               event' = [event EXCEPT ![job.rule] = e]
        PROVE  HeldAlone'
    <3> SUFFICES ASSUME NEW r \in Rules PROVE HoldsAlone(r)'
      BY DEF HeldAlone
    <3>1. OpenOf(r)' = OpenOf(r)
      BY <2>2 DEF OpenOf, OpenRows
    <3>2. CASE r = job.rule
      <4>1. event'[r] = e
        BY <1>1, <2>2, <3>2 DEF TypeOK
      <4> QED BY <2>2, <3>1, <3>2, <4>1, HeldTaken
    <3>3. CASE r # job.rule
      <4>1. event'[r] = event[r] /\ HoldsAlone(r)
        BY <1>1, <2>2, <3>3 DEF TypeOK, HeldAlone
      <4> QED BY <2>2, <4>1, HeldQuiet
    <3> QED BY <3>2, <3>3
  <2> QED BY <1>2, <1>3, <2>1, <2>2 DEF CreateEvent
<1>4. CASE UpdateEvent
  BY <1>1, <1>2, <1>4, HeldUpdate DEF UpdateEvent
<1>5. CASE NothingToUpdate
  BY <1>2, <1>5 DEF NothingToUpdate
<1> QED BY <1>3, <1>4, <1>5 DEF PersistCommit

LEMMA HeldStep ==
  ASSUME TypeOK, OneOpenRow, HeldAlone, [Next]_vars
  PROVE  HeldAlone'
<1>1. CASE Load
  BY <1>1, HeldLoad
<1>2. CASE PersistCommit
  BY <1>2, HeldCommit
<1>3. CASE PersistCommitLost
  <2>1. job.step = "commit"
    BY <1>3 DEF PersistCommitLost
  <2> QED BY <1>3, <2>1, HeldUpdate, HeldInsert DEF PersistCommitLost
<1>4. ASSUME UNCHANGED owner,
             \A r \in Rules : event'[r] \in {event[r], NoEvent},
             \A e \in EventIds : row'[e] \in {row[e], Normal, "gone"}
      PROVE  HeldAlone'
  BY <1>4, HeldQuiet DEF HeldAlone
<1>5. CASE LoadFails \/ Crash \/ Announce \/ \E r \in Rules : DeleteCommit(r)
  <2>1. CASE LoadFails
    BY <1>4, <2>1 DEF LoadFails, service, runtime
  <2>2. CASE Crash
    BY <1>4, <2>2 DEF Crash, database
  <2>3. CASE Announce
    <3>1. \A r \in Rules : event'[r] \in {event[r], NoEvent}
      BY <2>3 DEF Announce, TypeOK
    <3> QED BY <1>4, <2>3, <3>1 DEF Announce, database
  <2>4. ASSUME NEW r \in Rules, DeleteCommit(r) PROVE HeldAlone'
    BY <1>4, <2>4 DEF DeleteCommit, service, runtime
  <2> QED BY <1>5, <2>1, <2>2, <2>3, <2>4
<1>6. Subscribe \/ OnMessage \/ Tick \/ Update \/ PersistFails \/ AnnounceFails \/ TimePasses
        \/ UNCHANGED vars => UNCHANGED <<owner, row, event>>
  BY DEF Subscribe, OnMessage, Tick, Update, PersistFails, AnnounceFails, TimePasses, vars,
         database, service, runtime
<1>7. \A r \in Rules :
        /\ Acknowledge(r) \/ SourceChanges(r) \/ Repoll(r) \/ GrowsOld(r) \/ DeleteCheck(r)
             => UNCHANGED <<owner, row, event>>
        /\ \A to \in {"disabled", "enabled"} : SetRule(r, to) => UNCHANGED <<owner, row, event>>
  BY DEF Acknowledge, SourceChanges, Repoll, GrowsOld, DeleteCheck, SetRule, database,
         service, runtime
<1>8. UNCHANGED <<owner, row, event>> => HeldAlone'
  BY <1>4
<1> QED
  BY <1>1, <1>2, <1>3, <1>5, <1>6, <1>7, <1>8 DEF Next, EngineStep, FaultStep, EnvironmentStep

(* Whatever fails, lost answers to commits and refused publications        *)
(* included, the alarm that the engine holds for a rule is an alarm of     *)
(* that rule, and no other one of it is open: an acknowledgement or a      *)
(* clearing never goes to a row while another stays open (create_event,    *)
(* _persist, load).                                                        *)
THEOREM HeldAloneHolds == Spec => []HeldAlone
<1>1. Init => HeldAlone
  BY DEF Init, HeldAlone, HoldsAlone
<1>2. TypeOK /\ OneOpenRow /\ HeldAlone /\ [Next]_vars => HeldAlone'
  BY HeldStep
<1>3. QED
  BY <1>1, <1>2, TypeCorrect, OneOpenRowHolds, PTL DEF Spec

-----------------------------------------------------------------------------
core == <<rule, owner, row, loaded, machine, event, todo, job>>

(* Consistent is about `core` only. *)
LEMMA ConsistentFrame ==
  ASSUME Consistent, UNCHANGED core
  PROVE  Consistent'
<1>1. \A r : SettledState(r)' = SettledState(r) /\ OpenOf(r)' = OpenOf(r)
  BY DEF core, SettledState, OpenOf, OpenRows
<1>2. QED
  BY <1>1 DEF Consistent, OneOpenRow, MemoryMatchesRow, JobOK, HoldsAlarm, EventOwned,
       DeletedGone, TodoLoaded, core

(* A job is typed, and its rule is one of the rules. *)
LEMMA JobType ==
  ASSUME TypeOK, job # NoJob
  PROVE  /\ job.rule \in Rules /\ job.from \in States /\ job.to \in RowStates
         /\ job.step \in {"commit", "announce"}
BY DEF TypeOK, Jobs

(* What update() and acknowledge() ask to record is an arrow of the        *)
(* diagram or the raise of a pending alarm; what they do not record leaves *)
(* an open state as it is.                                                 *)
LEMMA MachineArrows ==
  ASSUME NEW s \in States, NEW w \in Nat \cup {Unset}, NEW c \in BOOLEAN, NEW d \in Nat,
         NEW to, to = UpdateState(s, w, c, d)
  PROVE  /\ Persistent(s, to) =>
              /\ <<TransitionFrom(s, to), to>> \in
                   Lifecycle!Arrows \cup {<<Pending, Unacked>>}
              /\ s \in OpenStates => TransitionFrom(s, to) = s
              /\ s \notin OpenStates => TransitionFrom(s, to) \notin OpenStates
         /\ ~Persistent(s, to) =>
              /\ s \in OpenStates => to = s
              /\ s \notin OpenStates => to \notin OpenStates
<1>1. /\ s = Normal => to \in {Normal, Pending, Unacked}
      /\ s = Pending => to \in {Normal, Pending, Unacked}
      /\ s = Unacked => to \in {Unacked, Cleared}
      /\ s = Acked => to \in {Acked, Normal}
      /\ s = Cleared => to \in {Cleared, Unacked}
  BY DEF UpdateState
<1>2. QED
  BY <1>1 DEF TransitionFrom, Persistent, Lifecycle!Arrows

(* An accepted acknowledgement follows an arrow of the diagram             *)
(* (AlarmMachine.acknowledge).                                             *)
LEMMA AckArrows ==
  ASSUME NEW s \in States, AckState(s) # s
  PROVE  <<s, AckState(s)>> \in Lifecycle!Arrows /\ s \in OpenStates
BY DEF AckState, Lifecycle!Arrows

(* Loading keeps the runtimes in agreement with the rows: a known one is   *)
(* left alone, a fresh one takes the state of its open row.                *)
LEMMA ConsistentLoad ==
  ASSUME TypeOK, Consistent, Load, OneOpenRow'
  PROVE  Consistent'
<1> USE EngineAssumption
<1>1. job = NoJob /\ job' = NoJob /\ rule' = rule /\ owner' = owner /\ loaded' = Enabled
  BY DEF Load, Idle
<1>2. \A r : SettledState(r) = machine[r] /\ SettledState(r)' = machine'[r]
  BY <1>1 DEF SettledState
<1>3. Enabled \subseteq Rules
  BY DEF Enabled
<1>4. \A e \in EventIds : row'[e] = IF row[e] \in OpenStates /\ owner[e] \notin Enabled
                                   THEN Normal ELSE row[e]
  BY DEF Load, Orphans, OpenRows
<1>5. \A r \in Enabled : OpenOf(r)' = OpenOf(r)
  BY <1>1, <1>4 DEF OpenOf, OpenRows
<1>6. ASSUME NEW r \in Enabled, r \notin loaded
      PROVE  /\ event'[r] = RestoredEvent(r) /\ machine'[r] = RestoredState(r)
             /\ IF OpenOf(r) = {} THEN event'[r] = NoEvent /\ machine'[r] = Normal
                ELSE /\ event'[r] \in OpenOf(r)
                     /\ machine'[r] = row[event'[r]]
  BY <1>3, <1>6 DEF Load, RestoredEvent, RestoredState
<1>7. ASSUME NEW r \in Enabled, r \in loaded
      PROVE  event'[r] = event[r] /\ machine'[r] = machine[r]
  BY <1>3, <1>7 DEF Load
<1>8. \A r \in Rules \ Enabled : event'[r] = NoEvent
  BY DEF Load
<1>9. MemoryMatchesRow'
  <2> SUFFICES ASSUME NEW r \in Enabled
               PROVE  IF machine'[r] \in OpenStates
                      THEN event'[r] # NoEvent /\ row'[event'[r]] = machine'[r]
                      ELSE OpenOf(r)' = {}
    BY <1>1, <1>2 DEF MemoryMatchesRow
  <2>1. CASE r \in loaded
    <3>1. rule[r] # "deleted"
      BY DEF Enabled
    <3>2. IF machine[r] \in OpenStates
          THEN event[r] # NoEvent /\ row[event[r]] = machine[r] ELSE OpenOf(r) = {}
      BY <2>1, <3>1, <1>2 DEF Consistent, MemoryMatchesRow
    <3>3. event[r] # NoEvent => event[r] \in EventIds /\ owner[event[r]] = r
      BY <1>3 DEF Consistent, EventOwned, TypeOK
    <3>4. QED
      BY <2>1, <3>2, <3>3, <1>4, <1>5, <1>7
  <2>2. CASE r \notin loaded
    BY <2>2, <1>4, <1>5, <1>6 DEF OpenOf, OpenRows
  <2>3. QED
    BY <2>1, <2>2
<1>10. JobOK'
  BY <1>1 DEF JobOK
<1>11. HoldsAlarm'
  <2> SUFFICES ASSUME NEW r \in Enabled
               PROVE  IF machine'[r] \in OpenStates
                      THEN event'[r] # NoEvent ELSE event'[r] = NoEvent
    BY <1>1, <1>2 DEF HoldsAlarm
  <2>1. CASE r \in loaded
    BY <2>1, <1>1, <1>2, <1>7 DEF Consistent, HoldsAlarm
  <2>2. CASE r \notin loaded
    BY <2>2, <1>6 DEF OpenOf, OpenRows
  <2>3. QED
    BY <2>1, <2>2
<1>12. EventOwned'
  <2> SUFFICES ASSUME NEW r \in Rules, event'[r] # NoEvent
               PROVE  owner[event'[r]] = r /\ row'[event'[r]] # "free"
    BY <1>1 DEF EventOwned
  <2>1. CASE r \in Enabled \cap loaded
    BY <2>1, <1>4, <1>7 DEF Consistent, EventOwned, TypeOK
  <2>2. CASE r \in Enabled \ loaded
    BY <2>2, <1>4, <1>6 DEF OpenOf, OpenRows
  <2>3. QED
    BY <2>1, <2>2, <1>8
<1>13. DeletedGone'
  BY <1>1, <1>4 DEF Consistent, DeletedGone
<1>14. TodoLoaded'
  <2> SUFFICES ASSUME NEW w \in todo' PROVE w[1] \in Enabled
    BY <1>1 DEF TodoLoaded
  <2>1. PICK known : w \in InitialEvaluation(Enabled \ loaded, known)
    BY Zenon DEF Load
  <2>2. PICK r \in Enabled : w = <<r, world[r]>> \/ w = <<r, TRUE>>
    BY <2>1, Zenon DEF InitialEvaluation
  <2>3. w = <<r, world[r]>> => w[1] = r
    OBVIOUS
  <2>4. w = <<r, TRUE>> => w[1] = r
    OBVIOUS
  <2>5. QED
    BY <2>2, <2>3, <2>4, Zenon
<1>15. QED
  BY <1>9, <1>10, <1>11, <1>12, <1>13, <1>14 DEF Consistent

(* The operations that only choose what to update next. *)
LEMMA ConsistentChoose ==
  ASSUME TypeOK, Consistent, OnMessage \/ Tick
  PROVE  Consistent'
<1>1. UNCHANGED <<rule, owner, row, loaded, machine, event, job>>
  BY DEF OnMessage, Tick, database, runtime
<1>2. \A r : SettledState(r)' = SettledState(r) /\ OpenOf(r)' = OpenOf(r)
  BY <1>1 DEF SettledState, OpenOf, OpenRows
<1>3. TodoLoaded'
  <2>1. CASE OnMessage
    BY <2>1, <1>1 DEF OnMessage, TodoLoaded
  <2>2. CASE Tick
    <3> SUFFICES ASSUME NEW w \in TickWork PROVE w[1] \in loaded
      BY <2>2, <1>1 DEF Tick, TodoLoaded
    <3>1. PICK r \in loaded : w = <<r, r \in overdue>> \/ w = <<r, condition[r]>>
      BY Zenon DEF TickWork
    <3>2. w = <<r, r \in overdue>> => w[1] = r
      OBVIOUS
    <3>3. w = <<r, condition[r]>> => w[1] = r
      OBVIOUS
    <3>4. QED
      BY <3>1, <3>2, <3>3, Zenon
  <2>3. QED
    BY <2>1, <2>2
<1>4. QED
  BY <1>1, <1>2, <1>3 DEF Consistent, OneOpenRow, MemoryMatchesRow, JobOK, HoldsAlarm,
       EventOwned, DeletedGone

(* A machine that starts a transition keeps its settled state until the    *)
(* row is written.                                                         *)
LEMMA ConsistentStart ==
  ASSUME TypeOK, Consistent, job = NoJob,
         NEW r \in loaded, NEW from \in States, NEW to \in RowStates,
         machine' = [machine EXCEPT ![r] = to],
         job' = Job(r, from, to),
         <<from, to>> \in Lifecycle!Arrows \cup {<<Pending, Unacked>>},
         machine[r] \in OpenStates => from = machine[r],
         machine[r] \notin OpenStates => from \notin OpenStates,
         todo' \subseteq todo,
         UNCHANGED <<rule, owner, row, loaded, event>>
  PROVE  Consistent'
<1>1. r \in Rules /\ job' # NoJob /\ job'.step = "commit" /\ job'.rule = r
      /\ job'.from = from /\ job'.to = to
  BY DEF Job, NoJob, TypeOK
<1>2. \A q \in loaded : /\ SettledState(q) = machine[q]
                        /\ SettledState(q)' = IF q = r THEN from ELSE machine[q]
  BY <1>1 DEF SettledState, TypeOK
<1>3. \A q : OpenOf(q)' = OpenOf(q)
  BY DEF OpenOf, OpenRows
<1>4. MemoryMatchesRow'
  BY <1>2, <1>3 DEF Consistent, MemoryMatchesRow
<1>5. HoldsAlarm'
  BY <1>2 DEF Consistent, HoldsAlarm
<1>6. JobOK'
  BY <1>1 DEF JobOK, TypeOK
<1>7. QED
  BY <1>3, <1>4, <1>5, <1>6 DEF Consistent, OneOpenRow, EventOwned, DeletedGone, TodoLoaded

(* acknowledge() starts the recording of an arrow from a settled state. *)
LEMMA ConsistentAcknowledge ==
  ASSUME TypeOK, Consistent, NEW r \in Rules, Acknowledge(r)
  PROVE  Consistent'
<1>1. machine[r] \in States /\ AckState(machine[r]) # machine[r] /\ r \in loaded
  BY DEF TypeOK, Acknowledge
<1>2. <<machine[r], AckState(machine[r])>> \in Lifecycle!Arrows /\ machine[r] \in OpenStates
      /\ AckState(machine[r]) \in RowStates
  BY <1>1, AckArrows DEF AckState
<1>3. QED
  BY <1>1, <1>2, ConsistentStart DEF Acknowledge, Idle, database

(* _update() records an arrow, or leaves an open state alone. *)
LEMMA ConsistentUpdate ==
  ASSUME TypeOK, Consistent, Update
  PROVE  Consistent'
<1>1. PICK w \in todo : Update!2!(w)
  BY DEF Update
<1> DEFINE r == w[1]
           c == w[2]
           to == UpdateState(machine[r], waited[r], c, Delay[r])
           from == TransitionFrom(machine[r], to)
<1>2. r \in Rules /\ c \in BOOLEAN /\ machine[r] \in States /\ r \in loaded
      /\ waited[r] \in Nat \cup {Unset} /\ Delay[r] \in Nat
  BY <1>1, EngineAssumption DEF TypeOK, Consistent, TodoLoaded
<1>3. /\ Persistent(machine[r], to) =>
           /\ <<from, to>> \in Lifecycle!Arrows \cup {<<Pending, Unacked>>}
           /\ machine[r] \in OpenStates => from = machine[r]
           /\ machine[r] \notin OpenStates => from \notin OpenStates
      /\ ~Persistent(machine[r], to) =>
           /\ machine[r] \in OpenStates => to = machine[r]
           /\ machine[r] \notin OpenStates => to \notin OpenStates
  BY <1>2, MachineArrows
<1>4. /\ to \in States
      /\ Persistent(machine[r], to) => to \in RowStates /\ from \in States
  BY <1>2, MachineType
<1>5. /\ machine' = [machine EXCEPT ![r] = to] /\ todo' \subseteq todo /\ job = NoJob
      /\ job' = IF Persistent(machine[r], to) THEN Job(r, from, to) ELSE NoJob
      /\ UNCHANGED <<rule, owner, row, loaded, event>>
  BY <1>1 DEF Update, database
<1>6. CASE Persistent(machine[r], to)
  <2> HIDE DEF r, c, to, from
  <2>1. QED
    BY <1>2, <1>3, <1>4, <1>5, <1>6, ConsistentStart
<1>7. CASE ~Persistent(machine[r], to)
  <2> HIDE DEF r, c, to, from
  <2>1. job' = NoJob
    BY <1>5, <1>7
  <2>2. \A q \in loaded : /\ SettledState(q) = machine[q]
                          /\ SettledState(q)' = IF q = r THEN to ELSE machine[q]
    BY <1>2, <1>5, <2>1 DEF SettledState, TypeOK
  <2>3. \A q : OpenOf(q)' = OpenOf(q)
    BY <1>5 DEF OpenOf, OpenRows
  <2>4. MemoryMatchesRow'
    BY <1>2, <1>3, <1>5, <1>7, <2>2, <2>3 DEF Consistent, MemoryMatchesRow
  <2>5. HoldsAlarm'
    BY <1>2, <1>3, <1>5, <1>7, <2>1, <2>2 DEF Consistent, HoldsAlarm
  <2>6. QED
    BY <1>5, <2>1, <2>3, <2>4, <2>5
       DEF Consistent, OneOpenRow, EventOwned, DeletedGone, TodoLoaded, JobOK
<1>8. QED
  BY <1>6, <1>7

(* A transition rolled back before anything was written. *)
LEMMA ConsistentRollback ==
  ASSUME TypeOK, Consistent, job.step = "commit", Rollback,
         UNCHANGED <<rule, owner, row, loaded, event, todo>>
  PROVE  Consistent'
<1>1. job # NoJob /\ job.rule \in Rules /\ job' = NoJob
  BY JobType DEF NoJob, Rollback
<1>2. \A q \in loaded : SettledState(q)' = SettledState(q)
  BY <1>1 DEF SettledState, Rollback, TypeOK
<1>3. \A q : OpenOf(q)' = OpenOf(q)
  BY DEF OpenOf, OpenRows
<1>4. HoldsAlarm'
  BY <1>1, <1>2 DEF Consistent, HoldsAlarm
<1>5. QED
  BY <1>1, <1>2, <1>3, <1>4
     DEF Consistent, OneOpenRow, MemoryMatchesRow, EventOwned, DeletedGone, TodoLoaded, JobOK

(* The row of a job that is committed takes the state the machine is in. *)
LEMMA ConsistentCommitted ==
  ASSUME TypeOK, Consistent, OneOpenRow', job.step = "commit", Committed,
         NEW e \in EventIds, event' = [event EXCEPT ![job.rule] = e],
         owner' = [owner EXCEPT ![e] = job.rule],
         row' = [row EXCEPT ![e] = IF @ = "gone" THEN @ ELSE job.to],
         rule[job.rule] # "deleted" => row[e] # "gone",
         row[e] = "gone" => rule[job.rule] = "deleted",
         row[e] = "free" => rule[job.rule] # "deleted" /\ OpenOf(job.rule) = {},
         row[e] # "free" => owner[e] = job.rule,
         OpenOf(job.rule) \subseteq {e},
         UNCHANGED <<rule, loaded, todo>>
  PROVE  Consistent'
<1> DEFINE r == job.rule
<1>1. /\ job # NoJob /\ r \in Rules /\ job.to \in RowStates /\ r \in loaded
      /\ machine[r] = job.to /\ machine' = machine
      /\ job' # NoJob /\ job'.step = "announce" /\ job'.rule = r
      /\ job'.from = job.from /\ job'.to = job.to
  <2>1. job # NoJob /\ job \in Jobs
    BY DEF NoJob, TypeOK
  <2>2. QED
    BY <2>1 DEF Jobs, NoJob, Committed, Consistent, JobOK
<1>2. /\ SettledState(r)' = job.to
      /\ \A q \in loaded : q # r => SettledState(q)' = SettledState(q)
  BY <1>1 DEF SettledState
<1>3. /\ row'[e] = IF row[e] = "gone" THEN "gone" ELSE job.to
      /\ \A f \in EventIds : f # e => row'[f] = row[f] /\ owner'[f] = owner[f]
      /\ owner'[e] = r
      /\ event'[r] = e /\ \A q \in Rules : q # r => event'[q] = event[q]
  BY <1>1 DEF TypeOK
<1>4. \A q \in Rules : q # r => OpenOf(q)' = OpenOf(q)
  BY <1>3 DEF OpenOf, OpenRows
<1>5. \A q \in Rules : q # r /\ event[q] # NoEvent => event[q] \in EventIds /\ event[q] # e
  BY <1>1 DEF Consistent, EventOwned, TypeOK
<1>6. MemoryMatchesRow'
  <2> SUFFICES ASSUME NEW q \in loaded, rule[q] # "deleted"
               PROVE  IF SettledState(q)' \in OpenStates
                      THEN event'[q] # NoEvent /\ row'[event'[q]] = SettledState(q)'
                      ELSE OpenOf(q)' = {}
    BY DEF MemoryMatchesRow
  <2>1. CASE q = r
    <3>1. e # NoEvent
      BY EngineAssumption
    <3>2. row'[e] = job.to
      BY <2>1, <1>3
    <3>3. job.to \notin OpenStates => OpenOf(r)' = {}
      BY <1>1, <1>3, <3>2 DEF OpenOf, OpenRows
    <3>4. QED
      BY <2>1, <3>1, <3>2, <3>3, <1>1, <1>2, <1>3
  <2>2. CASE q # r
    <3>1. q \in Rules
      BY DEF TypeOK
    <3>2. QED
      BY <2>2, <3>1, <1>2, <1>3, <1>4, <1>5 DEF Consistent, MemoryMatchesRow
  <2>3. QED
    BY <2>1, <2>2
<1>7. HoldsAlarm'
  <2> SUFFICES ASSUME NEW q \in loaded
               PROVE  IF SettledState(q)' \in OpenStates THEN event'[q] # NoEvent
                      ELSE event'[q] = NoEvent \/ q = r
    BY <1>1 DEF HoldsAlarm
  <2>1. q \in Rules /\ e # NoEvent
    BY EngineAssumption DEF TypeOK
  <2>2. q # r => IF SettledState(q) \in OpenStates THEN event[q] # NoEvent
                 ELSE event[q] = NoEvent
    BY <1>1 DEF Consistent, HoldsAlarm
  <2>3. QED
    BY <2>1, <2>2, <1>2, <1>3
<1>8. EventOwned'
  BY <1>1, <1>3, <1>5 DEF Consistent, EventOwned
<1>9. DeletedGone'
  <2> SUFFICES ASSUME NEW f \in EventIds, owner'[f] \in Rules, rule[owner'[f]] = "deleted"
               PROVE  row'[f] = "gone"
    BY DEF DeletedGone
  <2>1. CASE f = e
    BY <2>1, <1>1, <1>3 DEF Consistent, DeletedGone
  <2>2. CASE f # e
    BY <2>2, <1>3 DEF Consistent, DeletedGone
  <2>3. QED
    BY <2>1, <2>2
<1>10. JobOK'
  <2>1. e # NoEvent /\ (rule[r] # "deleted" => row'[e] = job.to)
    BY <1>3, EngineAssumption
  <2>2. <<job.from, job.to>> \in Lifecycle!Arrows \cup {<<Pending, Unacked>>}
    BY <1>1 DEF Consistent, JobOK
  <2>3. QED
    BY <2>1, <2>2, <1>1, <1>3 DEF JobOK
<1>11. QED
  BY <1>6, <1>7, <1>8, <1>9, <1>10 DEF Consistent, TodoLoaded

(* Every outcome of the commit in _persist keeps the agreement. *)
LEMMA ConsistentPersist ==
  ASSUME TypeOK, Consistent, OneOpenRow', PersistCommit
  PROVE  Consistent'
<1> DEFINE r == job.rule
<1>1. /\ job # NoJob /\ r \in Rules /\ job.to \in RowStates /\ r \in loaded
      /\ job.step = "commit" /\ SettledState(r) = job.from
      /\ UNCHANGED <<rule, loaded, todo>>
  <2>1. job # NoJob /\ job.step = "commit"
    BY DEF PersistCommit, NoJob
  <2>2. QED
    BY <2>1, JobType DEF PersistCommit, Consistent, JobOK, SettledState
<1>2. IF job.from \in OpenStates THEN event[r] # NoEvent ELSE event[r] = NoEvent
  BY <1>1 DEF Consistent, HoldsAlarm
<1>3. rule[r] = "deleted" => OpenOf(r) = {}
  BY <1>1 DEF Consistent, DeletedGone, OpenOf, OpenRows
<1>4. event[r] = NoEvent => OpenOf(r) = {}
  BY <1>1, <1>2, <1>3 DEF Consistent, MemoryMatchesRow
<1>5. CASE CreateEvent
  <2>1. OpenOf(r) = {} /\ job.to = Unacked
    BY <1>4, <1>5 DEF CreateEvent
  <2>2. ASSUME NEW e \in EventIds, InsertRow(e), Committed,
               event' = [event EXCEPT ![r] = e]
        PROVE  Consistent'
    <3>1. row' = [row EXCEPT ![e] = IF @ = "gone" THEN @ ELSE job.to]
      BY <2>1, <2>2 DEF InsertRow
    <3>2. QED
      BY <1>1, <2>1, <2>2, <3>1, ConsistentCommitted DEF InsertRow
  <2>3. QED
    BY <1>1, <1>5, <2>1, <2>2, ConsistentRollback DEF CreateEvent
<1>6. CASE UpdateEvent
  <2>1. /\ event[r] \in EventIds /\ event[r] # NoEvent /\ job.from \in OpenStates
        /\ owner[event[r]] = r /\ row[event[r]] # "free"
    BY <1>1, <1>2, <1>6 DEF UpdateEvent, TypeOK, Consistent, EventOwned
  <2>2. IF rule[r] = "deleted" THEN row[event[r]] = "gone" ELSE row[event[r]] = job.from
    BY <1>1, <2>1 DEF Consistent, DeletedGone, MemoryMatchesRow
  <2>3. OpenOf(r) \subseteq {event[r]}
    BY <1>1, <1>3, <2>1, <2>2 DEF Consistent, OneOpenRow, OpenOf, OpenRows
  <2>4. CASE UpdateRow(event[r]) /\ Committed
    <3>1. /\ event' = [event EXCEPT ![r] = event[r]]
          /\ owner' = [owner EXCEPT ![event[r]] = r]
      BY <1>1, <2>1, <2>4 DEF UpdateRow, TypeOK
    <3>2. row' = [row EXCEPT ![event[r]] = IF @ = "gone" THEN @ ELSE job.to]
      BY <2>4 DEF UpdateRow
    <3>3. QED
      BY <1>1, <2>1, <2>2, <2>3, <2>4, <3>1, <3>2, ConsistentCommitted
  <2>5. QED
    BY <1>1, <1>6, <2>4, ConsistentRollback DEF UpdateEvent
<1>7. CASE NothingToUpdate
  BY <1>1, <1>7, ConsistentRollback DEF NothingToUpdate
<1>8. QED
  BY <1>5, <1>6, <1>7 DEF PersistCommit

(* The runtime forgets an alarm whose end has been announced. *)
LEMMA ConsistentAnnounce ==
  ASSUME TypeOK, Consistent, Announce
  PROVE  Consistent'
<1> DEFINE r == job.rule
<1>1. /\ job # NoJob /\ r \in Rules /\ r \in loaded /\ job.to = machine[r]
      /\ job.to \in RowStates /\ event[r] # NoEvent
      /\ UNCHANGED <<rule, owner, row, loaded, machine, todo>> /\ job' = NoJob
  <2>1. job # NoJob
    BY DEF Announce, NoJob
  <2>2. QED
    BY <2>1, JobType DEF Announce, Consistent, JobOK, database
<1>2. \A q \in loaded : SettledState(q) = machine[q] /\ SettledState(q)' = machine[q]
  BY <1>1 DEF SettledState, Announce
<1>3. \A q : OpenOf(q)' = OpenOf(q)
  BY <1>1 DEF OpenOf, OpenRows
<1>4. \A q \in Rules :
        event'[q] = IF q = r /\ machine[r] = Normal THEN NoEvent ELSE event[q]
  BY <1>1 DEF Announce, TypeOK
<1>5. MemoryMatchesRow'
  BY <1>1, <1>2, <1>3, <1>4 DEF Consistent, MemoryMatchesRow, TypeOK
<1>6. HoldsAlarm'
  BY <1>1, <1>2, <1>4 DEF Consistent, HoldsAlarm, TypeOK
<1>7. QED
  BY <1>1, <1>3, <1>4, <1>5, <1>6
     DEF Consistent, OneOpenRow, EventOwned, DeletedGone, TodoLoaded, JobOK

(* A crash leaves no runtime that could disagree. *)
LEMMA ConsistentCrash ==
  ASSUME TypeOK, Consistent, Crash
  PROVE  Consistent'
<1>1. \A q : OpenOf(q)' = OpenOf(q)
  BY DEF Crash, database, OpenOf, OpenRows
<1>2. QED
  BY <1>1 DEF Crash, database, Consistent, OneOpenRow, MemoryMatchesRow, JobOK, HoldsAlarm,
       EventOwned, DeletedGone, TodoLoaded

(* Editing a rule does not touch what agrees; deleting it removes its rows.*)
LEMMA ConsistentRules ==
  ASSUME TypeOK, Consistent, NEW r \in Rules,
         DeleteCommit(r) \/ \E to \in {"disabled", "enabled"} : SetRule(r, to)
  PROVE  Consistent'
<1>1. \A q : SettledState(q)' = SettledState(q)
  BY DEF SettledState, DeleteCommit, SetRule, service, runtime
<1>2. UNCHANGED <<owner, loaded, machine, event, todo, job>>
  BY DEF DeleteCommit, SetRule, service, runtime
<1>3. CASE DeleteCommit(r)
  <2>1. \A q \in Rules : q # r => OpenOf(q)' = OpenOf(q) /\ rule'[q] = rule[q]
    BY <1>2, <1>3 DEF DeleteCommit, OpenOf, OpenRows, TypeOK
  <2>2. OpenOf(r)' = {} /\ rule'[r] = "deleted"
    BY <1>2, <1>3 DEF DeleteCommit, OpenOf, OpenRows, TypeOK
  <2>3. \A q \in Rules : q # r /\ event[q] # NoEvent => row'[event[q]] = row[event[q]]
    BY <1>3 DEF DeleteCommit, Consistent, EventOwned, TypeOK
  <2>4. MemoryMatchesRow'
    BY <1>1, <1>2, <2>1, <2>2, <2>3 DEF Consistent, MemoryMatchesRow, TypeOK
  <2>5. JobOK'
    BY <1>2, <2>1, <2>2, <2>3, JobType DEF Consistent, JobOK
  <2>6. EventOwned' /\ DeletedGone'
    BY <1>2, <1>3, <2>1, <2>2 DEF DeleteCommit, Consistent, EventOwned, DeletedGone, TypeOK
  <2>7. OneOpenRow' /\ HoldsAlarm' /\ TodoLoaded'
    BY <1>1, <1>2, <2>1, <2>2 DEF Consistent, OneOpenRow, HoldsAlarm, TodoLoaded
  <2>8. QED
    BY <2>4, <2>5, <2>6, <2>7 DEF Consistent
<1>4. ASSUME NEW to \in {"disabled", "enabled"}, SetRule(r, to) PROVE Consistent'
  <2>1. row' = row /\ \A q \in Rules : rule'[q] = "deleted" <=> rule[q] = "deleted"
    BY <1>4 DEF SetRule, TypeOK
  <2>2. \A q : OpenOf(q)' = OpenOf(q)
    BY <1>2, <2>1 DEF OpenOf, OpenRows
  <2>3. JobOK'
    BY <1>2, <2>1, JobType DEF Consistent, JobOK
  <2>4. QED
    BY <1>1, <1>2, <2>1, <2>2, <2>3 DEF Consistent, OneOpenRow, MemoryMatchesRow, HoldsAlarm,
         EventOwned, DeletedGone, TodoLoaded, TypeOK
<1>5. QED
  BY <1>3, <1>4

(* Every step keeps the inductive invariant, one case per operation. *)
LEMMA ConsistentStep ==
  ASSUME CleanFaults, TypeOK, Consistent, OneOpenRow', [Next]_vars
  PROVE  Consistent'
<1>1. Load => Consistent'
  BY ConsistentLoad
<1>2. OnMessage \/ Tick => Consistent'
  BY ConsistentChoose
<1>3. Update => Consistent'
  BY ConsistentUpdate
<1>4. PersistCommit => Consistent'
  BY ConsistentPersist
<1>5. Announce => Consistent'
  BY ConsistentAnnounce
<1>6. Crash => Consistent'
  BY ConsistentCrash
<1>7. PersistFails => Consistent'
  BY ConsistentRollback DEF PersistFails, database
<1>8. ~(LoadFails \/ PersistCommitLost \/ AnnounceFails)
  BY DEF CleanFaults, LoadFails, PersistCommitLost, AnnounceFails, Fault
<1>9. \A r \in Rules : Acknowledge(r) => Consistent'
  BY ConsistentAcknowledge
<1>10. \A r \in Rules :
         /\ DeleteCommit(r) => Consistent'
         /\ \A to \in {"disabled", "enabled"} : SetRule(r, to) => Consistent'
  BY ConsistentRules
<1>11. Subscribe \/ TimePasses \/ UNCHANGED vars => Consistent'
  BY ConsistentFrame DEF Subscribe, TimePasses, vars, core, database, service, runtime
<1>12. \A r \in Rules :
         SourceChanges(r) \/ Repoll(r) \/ GrowsOld(r) \/ DeleteCheck(r) => Consistent'
  BY ConsistentFrame
     DEF SourceChanges, Repoll, GrowsOld, DeleteCheck, core, database, service, runtime
<1>13. QED
  BY <1>1, <1>2, <1>3, <1>4, <1>5, <1>6, <1>7, <1>8, <1>9, <1>10, <1>11, <1>12
     DEF Next, EngineStep, FaultStep, EnvironmentStep

(* Memory and rows stay together when only database refusals and crashes   *)
(* happen.                                                                 *)
LEMMA ConsistentHolds == ASSUME CleanFaults PROVE Spec => []Consistent
<1>1. Init => Consistent
  BY DEF Init, Consistent, OneOpenRow, MemoryMatchesRow, JobOK, HoldsAlarm, EventOwned,
         DeletedGone, TodoLoaded, OpenOf, OpenRows
<1>2. TypeOK /\ Consistent /\ OneOpenRow' /\ [Next]_vars => Consistent'
  BY ConsistentStep
<1>3. QED
  BY <1>1, <1>2, TypeCorrect, OneOpenRowHolds, PTL DEF Spec

(* With the types this is the inductive invariant of the engine. *)
THEOREM EngineInvHolds == ASSUME CleanFaults PROVE Spec => []EngineInv
<1>1. TypeOK /\ Consistent => EngineInv
  BY DEF EngineInv
<1>2. QED
  BY <1>1, TypeCorrect, ConsistentHolds, PTL

(* What the engine believes of an alarm is what alarm_event says, through  *)
(* refused writes, retries, crashes, reloads and rule edits.               *)
THEOREM MemoryMatchesRowHolds == ASSUME CleanFaults PROVE Spec => []MemoryMatchesRow
<1>1. Consistent => MemoryMatchesRow
  BY DEF Consistent
<1>2. QED
  BY <1>1, ConsistentHolds, PTL

-----------------------------------------------------------------------------
(* Every write to alarm_event is a step of AlarmLifecycle. *)
LEMMA LifecycleStep ==
  ASSUME CleanFaults, TypeOK, Consistent, [Next]_vars
  PROVE  [Lifecycle!LNext]_(Lifecycle!lifecycleVars)
<1> USE DEF Lifecycle!lifecycleVars
<1>1. CASE UNCHANGED <<owner, row>>
  BY <1>1
<1>2. ASSUME job.step = "commit", NEW e \in EventIds, InsertRow(e)
      PROVE  Lifecycle!LNext
  <2>1. job.rule \in Rules
    BY <1>2, JobType DEF NoJob
  <2>2. Lifecycle!Raise(e, job.rule)
    BY <1>2, <2>1 DEF Lifecycle!Raise, Lifecycle!OpenOf, InsertRow, OpenOf, OpenRows
  <2>3. QED
    BY <2>1, <2>2 DEF Lifecycle!LNext
<1>3. CASE PersistCommit /\ UpdateEvent
  <2> DEFINE r == job.rule
             e == event[r]
  <2>1. job # NoJob /\ r \in Rules /\ r \in loaded /\ SettledState(r) = job.from
        /\ job.to \in RowStates
        /\ <<job.from, job.to>> \in Lifecycle!Arrows \cup {<<Pending, Unacked>>}
    <3>1. job # NoJob /\ job.step = "commit"
      BY <1>3 DEF PersistCommit, NoJob
    <3>2. QED
      BY <3>1, JobType DEF Consistent, JobOK, SettledState
  <2>2. e \in EventIds /\ owner[e] = r /\ job.from \in OpenStates
    BY <1>3, <2>1 DEF PersistCommit, UpdateEvent, TypeOK, Consistent, EventOwned, HoldsAlarm
  <2>3. IF rule[r] = "deleted" THEN row[e] = "gone" ELSE row[e] = job.from
    BY <2>1, <2>2 DEF Consistent, DeletedGone, MemoryMatchesRow
  <2>4. CASE UpdateRow(e)
    <3>1. owner' = owner /\ row' = [row EXCEPT ![e] = IF @ = "gone" THEN @ ELSE job.to]
      BY <2>4 DEF UpdateRow
    <3>2. CASE rule[r] = "deleted"
      BY <2>2, <2>3, <3>1, <3>2 DEF TypeOK
    <3>3. CASE rule[r] # "deleted"
      <4>1. <<row[e], job.to>> \in Lifecycle!Arrows /\ row' = [row EXCEPT ![e] = job.to]
        BY <2>1, <2>2, <2>3, <3>1, <3>3 DEF Lifecycle!Arrows
      <4>2. Lifecycle!Follow(e)
        BY <2>1, <3>1, <4>1 DEF Lifecycle!Follow
      <4>3. QED
        BY <2>2, <4>2 DEF Lifecycle!LNext
    <3>4. QED
      BY <3>2, <3>3
  <2>5. QED
    BY <1>3, <2>4 DEF UpdateEvent
<1>4. CASE Load
  <2>1. Lifecycle!Abandon(Orphans) /\ Orphans \in SUBSET EventIds
    BY <1>4 DEF Load, Orphans, OpenRows, Lifecycle!Abandon
  <2>2. QED
    BY <2>1 DEF Lifecycle!LNext
<1>5. ASSUME NEW r \in Rules, DeleteCommit(r) PROVE Lifecycle!LNext
  BY <1>5 DEF DeleteCommit, Lifecycle!Remove, Lifecycle!LNext
<1>6. CASE PersistCommit /\ ~UpdateEvent
  <2>1. job.step = "commit"
    BY <1>6 DEF PersistCommit
  <2>2. UNCHANGED <<owner, row>> \/ \E e \in EventIds : InsertRow(e)
    BY <1>6 DEF PersistCommit, CreateEvent, NothingToUpdate
  <2>3. QED
    BY <2>1, <2>2, <1>1, <1>2
<1>7. ~(LoadFails \/ PersistCommitLost \/ AnnounceFails)
  BY DEF CleanFaults, LoadFails, PersistCommitLost, AnnounceFails, Fault
<1>8. Subscribe \/ OnMessage \/ Tick \/ Update \/ Announce \/ Crash \/ PersistFails
        \/ TimePasses \/ UNCHANGED vars => UNCHANGED <<owner, row>>
  BY DEF Subscribe, OnMessage, Tick, Update, Announce, Crash, PersistFails, TimePasses,
         vars, database
<1>9. \A r \in Rules :
        /\ Acknowledge(r) \/ SourceChanges(r) \/ Repoll(r) \/ GrowsOld(r) \/ DeleteCheck(r)
             => UNCHANGED <<owner, row>>
        /\ \A to \in {"disabled", "enabled"} : SetRule(r, to) => UNCHANGED <<owner, row>>
  BY DEF Acknowledge, SourceChanges, Repoll, GrowsOld, DeleteCheck, SetRule, database
<1>10. QED
  BY <1>1, <1>3, <1>4, <1>5, <1>6, <1>7, <1>8, <1>9
     DEF Next, EngineStep, FaultStep, EnvironmentStep

(* The alarm service implements the life of an alarm AlarmLifecycle        *)
(* promises, for any number of rules, alarms, refused writes and crashes.  *)
THEOREM RefinesLifecycle == ASSUME CleanFaults PROVE Spec => LifecycleSpec
<1>1. Init => Lifecycle!LInit
  BY DEF Init, Lifecycle!LInit
<1>2. TypeOK /\ Consistent /\ [Next]_vars => [Lifecycle!LNext]_(Lifecycle!lifecycleVars)
  BY LifecycleStep
<1>3. QED
  BY <1>1, <1>2, TypeCorrect, ConsistentHolds, PTL DEF Spec, LifecycleSpec, Lifecycle!LSpec

-----------------------------------------------------------------------------
(* Between commit and publication, the alarm of the job has the state the  *)
(* job is about to announce, unless its rule was deleted meanwhile.        *)
LEMMA UnannouncedState ==
  ASSUME TypeOK, Consistent, NEW e \in OpenRows, Unannounced(e)
  PROVE  /\ owner[e] = job.rule /\ job.rule \in Rules
         /\ row[e] = job.to
<1>1. job # NoJob /\ job.step = "announce" /\ event[job.rule] = e /\ job.rule \in Rules
  BY JobType DEF Unannounced
<1>2. e \in EventIds /\ e # NoEvent /\ row[e] # "gone"
  BY EngineAssumption DEF OpenRows
<1>3. owner[e] = job.rule
  BY <1>1, <1>2 DEF Consistent, EventOwned
<1>4. rule[job.rule] # "deleted"
  BY <1>1, <1>2, <1>3 DEF Consistent, DeletedGone
<1>5. QED
  BY <1>1, <1>3, <1>4 DEF Consistent, JobOK

(* No step leaves an open alarm with a notification of another state. *)
LEMMA NotifiedStep ==
  ASSUME CleanFaults, TypeOK, Consistent, NotifiedMatchesRow, [Next]_vars
  PROVE  NotifiedMatchesRow'
<1>1. CASE UNCHANGED <<owner, row, noted, job, event>>
  BY <1>1 DEF NotifiedMatchesRow, OpenRows, Unannounced
<1>2. CASE UNCHANGED <<owner, row, noted>> /\ (job = NoJob \/ job.step = "commit")
  BY <1>2 DEF NotifiedMatchesRow, OpenRows, Unannounced
<1>3. CASE Load
  <2>1. /\ owner' = owner /\ noted' = noted /\ job = NoJob
        /\ row' = [e \in EventIds |-> IF e \in Orphans THEN Normal ELSE row[e]]
    BY <1>3 DEF Load, Idle
  <2>2. QED
    BY <2>1 DEF NotifiedMatchesRow, OpenRows, Unannounced
<1>4. CASE Crash
  <2>1. /\ owner' = owner /\ row' = row
        /\ noted' = [e \in EventIds |-> IF Unannounced(e) THEN job.to ELSE noted[e]]
    BY <1>4 DEF Crash, database
  <2>2. \A e \in OpenRows : Unannounced(e) => row[e] = job.to
    BY UnannouncedState
  <2>3. QED
    BY <2>1, <2>2 DEF NotifiedMatchesRow, OpenRows
<1>5. CASE Announce
  <2> DEFINE r == job.rule
             e == event[r]
  <2>1. /\ job # NoJob /\ job.step = "announce" /\ r \in Rules /\ e \in EventIds
    BY <1>5, JobType DEF Announce, NoJob, Consistent, JobOK, TypeOK
  <2>2. /\ owner' = owner /\ row' = row
        /\ noted' = IF r \in Notify THEN [noted EXCEPT ![e] = job.to] ELSE noted
    BY <1>5 DEF Announce, database
  <2>3. ASSUME NEW f \in OpenRows, owner[f] \in Notify
        PROVE  noted'[f] = row[f]
    <3>1. CASE f = e
      <4>1. owner[f] = r /\ row[f] = job.to
        BY <2>1, <2>3, <3>1, UnannouncedState DEF Unannounced
      <4>2. QED
        BY <2>1, <2>2, <2>3, <3>1, <4>1 DEF TypeOK
    <3>2. CASE f # e
      BY <2>2, <2>3, <3>2 DEF NotifiedMatchesRow, Unannounced, TypeOK, OpenRows
    <3>3. QED
      BY <3>1, <3>2
  <2>4. QED
    BY <2>2, <2>3 DEF NotifiedMatchesRow, OpenRows
<1>6. CASE PersistCommit
  <2> DEFINE r == job.rule
  <2>1. /\ job # NoJob /\ job.step = "commit" /\ r \in Rules /\ r \in loaded /\ noted' = noted
        /\ SettledState(r) = job.from
    BY <1>6, JobType DEF PersistCommit, NoJob, Consistent, JobOK, SettledState
  <2>2. \A f \in OpenRows : owner[f] \in Notify => noted[f] = row[f]
    BY <2>1 DEF NotifiedMatchesRow, Unannounced
  <2>3. CASE UNCHANGED <<owner, row>>
    BY <2>1, <2>2, <2>3 DEF NotifiedMatchesRow, OpenRows
  <2>4. ASSUME NEW e \in EventIds, event'[r] = e, Committed,
               \A f \in EventIds \ {e} : row'[f] = row[f] /\ owner'[f] = owner[f]
        PROVE  NotifiedMatchesRow'
    <3>1. job'.step = "announce" /\ job'.rule = r /\ job' # NoJob
      <4>1. job \in Jobs
        BY <2>1 DEF TypeOK
      <4>2. QED
        BY <2>4, <4>1 DEF Committed, Jobs, NoJob
    <3>2. Unannounced(e)'
      BY <2>4, <3>1 DEF Unannounced
    <3>3. QED
      BY <2>1, <2>2, <2>4, <3>2 DEF NotifiedMatchesRow, OpenRows
  <2>5. CASE CreateEvent
    <3>1. ASSUME NEW e \in EventIds, InsertRow(e), event' = [event EXCEPT ![r] = e], Committed
          PROVE  NotifiedMatchesRow'
      <4>1. /\ event'[r] = e
            /\ \A f \in EventIds \ {e} : row'[f] = row[f] /\ owner'[f] = owner[f]
        BY <2>1, <3>1 DEF InsertRow, TypeOK
      <4>2. QED
        BY <2>4, <3>1, <4>1
    <3>2. QED
      BY <2>3, <2>5, <3>1 DEF CreateEvent
  <2>6. CASE UpdateEvent
    <3>1. event[r] \in EventIds
      BY <2>1, <2>6 DEF UpdateEvent, TypeOK
    <3>2. ASSUME UpdateRow(event[r]), Committed
          PROVE  NotifiedMatchesRow'
      <4>1. /\ event'[r] = event[r]
            /\ \A f \in EventIds \ {event[r]} : row'[f] = row[f] /\ owner'[f] = owner[f]
        BY <3>1, <3>2 DEF UpdateRow, TypeOK
      <4>2. QED
        BY <2>4, <3>1, <3>2, <4>1
    <3>3. QED
      BY <2>3, <2>6, <3>2 DEF UpdateEvent
  <2>7. QED
    BY <1>6, <2>3, <2>5, <2>6 DEF PersistCommit, NothingToUpdate
<1>7. ASSUME NEW r \in Rules, DeleteCommit(r)
      PROVE  NotifiedMatchesRow'
  <2>1. /\ UNCHANGED <<owner, noted, job, event>>
        /\ row' = [e \in EventIds |-> IF owner[e] = r THEN "gone" ELSE row[e]]
    BY <1>7 DEF DeleteCommit, service, runtime
  <2>2. QED
    BY <2>1 DEF NotifiedMatchesRow, OpenRows, Unannounced
<1>8. ~(LoadFails \/ PersistCommitLost \/ AnnounceFails)
  BY DEF CleanFaults, LoadFails, PersistCommitLost, AnnounceFails, Fault
<1>9. CASE Update \/ PersistFails \/ \E r \in Rules : Acknowledge(r)
  BY <1>2, <1>9 DEF Update, PersistFails, Acknowledge, Idle, database
<1>10. CASE Subscribe \/ OnMessage \/ Tick \/ TimePasses \/ UNCHANGED vars
  BY <1>1, <1>10 DEF Subscribe, OnMessage, Tick, TimePasses, vars, database, service, runtime
<1>11. ASSUME NEW r \in Rules,
              SourceChanges(r) \/ Repoll(r) \/ GrowsOld(r) \/ DeleteCheck(r)
                \/ \E to \in {"disabled", "enabled"} : SetRule(r, to)
       PROVE  NotifiedMatchesRow'
  BY <1>1, <1>11
     DEF SourceChanges, Repoll, GrowsOld, DeleteCheck, SetRule, database, service, runtime
<1>12. QED
  BY <1>3, <1>4, <1>5, <1>6, <1>7, <1>8, <1>9, <1>10, <1>11
     DEF Next, EngineStep, FaultStep, EnvironmentStep

(* The last notification of an open alarm announces the state of its row,  *)
(* but between commit and publication: no retry, takeover, restart or      *)
(* reload announces a state twice over or leaves one out (_persist).       *)
THEOREM NotifiedMatchesRowHolds == ASSUME CleanFaults PROVE Spec => []NotifiedMatchesRow
<1>1. Init => NotifiedMatchesRow
  BY DEF Init, NotifiedMatchesRow, OpenRows
<1>2. TypeOK /\ Consistent /\ NotifiedMatchesRow /\ [Next]_vars => NotifiedMatchesRow'
  BY NotifiedStep
<1>3. QED
  BY <1>1, <1>2, TypeCorrect, ConsistentHolds, PTL DEF Spec

=============================================================================

------------------------- MODULE WriteCommandsProofs -------------------------
(***************************************************************************)
(* Proofs about WriteCommands for any number of commands, any timeouts and *)
(* any number of faults: order, repetitions, answers and traces, that the  *)
(* Writer always has a step to take until all is handled, and that the     *)
(* path of a command implements SetPoints.                                 *)
(***************************************************************************)
EXTENDS WriteCommands, FiniteSetTheorems, WellFoundedInduction, TLAPS

(* The stream: ids are distinct and grow, what was never sent was never    *)
(* executed, pending entries were delivered, the batch is the beginning of *)
(* the pending entries, and all of them once the Writer reads new ones.    *)
StreamInv ==
  /\ \A c, d \in Commands : id[c] # 0 /\ id[c] = id[d] => c = d
  /\ \A c \in Commands : client[c] \in {"idle", "subscribed"} => id[c] = 0
  /\ \A c \in pel : id[c] # 0 /\ id[c] <= lastId
  /\ batch \subseteq pel
  /\ \A c \in batch, d \in pel : id[d] < id[c] => d \in batch
  /\ cursor = ">" => batch = pel
  /\ cursor = "down" => batch = {}
  /\ batch = {} => step = "check"

(* What was executed precedes everything that is still pending. *)
OrderInv ==
  \A c \in Commands : writes[c] > 0 =>
    /\ id[c] # 0 /\ id[c] <= lastId
    /\ \A d \in pel : id[c] <= id[d]

Done(c) == writes[c] > 0 /\ "collector" \in audit[c]

(* "ok" travels from the device to the request only with its proof. *)
AnswerInv ==
  /\ \A c \in Commands : Current(c) /\ verdict = "ok" =>
       /\ step = "audit" => writes[c] > 0
       /\ step \in {"publish", "xack"} => Done(c)
  /\ \A c \in Commands : \A i \in 1..Len(mailbox[c]) : mailbox[c][i] = "ok" => Done(c)
  /\ \A c \in Commands : client[c] = "ok" => Done(c)

(* Before the Writer has executed an entry in this life, the entry was     *)
(* executed at most once in each earlier one.                              *)
RepeatInv ==
  \A c \in Commands :
    /\ writes[c] <= 1 + crashes
    /\ c \in pel /\ ~(Current(c) /\ step \in {"audit", "publish", "xack"})
         => writes[c] <= crashes

(* The entry being processed is traced before its result is published. *)
TraceInv ==
  /\ AllTraced
  /\ \A c \in Commands : Current(c) /\ step \in {"publish", "xack"}
       => "collector" \in audit[c]

-----------------------------------------------------------------------------
(* A refusal of the API keeps the types of what it touches (refuse). *)
LEMMA RefuseType ==
  ASSUME TypeOK, NEW c \in Commands, NEW a \in ClientStates, Refuse(c, a)
  PROVE  /\ client' \in [Commands -> ClientStates]
         /\ audit' \in [Commands -> SUBSET {"api", "collector"}]
         /\ faults' \in faults..MaxFaults
<1>1. CASE UNCHANGED faults /\ client' = [client EXCEPT ![c] = a]
           /\ audit' = [audit EXCEPT ![c] = @ \cup {"api"}]
  BY <1>1 DEF TypeOK
<1>2. CASE Fault("db") /\ client' = [client EXCEPT ![c] = "failed"] /\ UNCHANGED audit
  <2>1. "failed" \in ClientStates
    BY DEF ClientStates
  <2>2. faults' \in faults..MaxFaults
    BY <1>2, WriteAssumption DEF TypeOK, Fault
  <2>3. QED
    BY <1>2, <2>1, <2>2 DEF TypeOK
<1>3. QED
  BY <1>1, <1>2 DEF Refuse

(* Every variable keeps its type (all steps of the write path). *)
THEOREM WriteTypeCorrect == Spec => []TypeOK
<1> USE WriteAssumption
<1>1. Init => TypeOK
  BY DEF Init, TypeOK, ClientStates, Steps
<1>2. TypeOK /\ [Next]_vars => TypeOK'
  <2> SUFFICES ASSUME TypeOK, [Next]_vars PROVE TypeOK'
    OBVIOUS
  <2> USE DEF TypeOK, ClientStates, Steps, environment, request, redis, collector, effects
  <2>1. ASSUME NEW c \in Commands, Reject(c) PROVE TypeOK'
    <3>1. Refuse(c, "refused")
      BY <2>1 DEF Reject
    <3>2. /\ client' \in [Commands -> ClientStates]
          /\ audit' \in [Commands -> SUBSET {"api", "collector"}]
          /\ faults' \in faults..MaxFaults
      BY <3>1, RefuseType
    <3>3. QED
      BY <2>1, <3>2 DEF Reject
  <2>2. ASSUME NEW c \in Commands, Submit(c) PROVE TypeOK'
    BY <2>2 DEF Submit
  <2>3. ASSUME NEW c \in Commands, Send(c) PROVE TypeOK'
    BY <2>3 DEF Send
  <2>4. ASSUME NEW c \in Commands, Receive(c) PROVE TypeOK'
    <3>1. Head(mailbox[c]) \in {"ok", "error"}
      BY <2>4 DEF Receive
    <3>2. QED
      BY <2>4, <3>1 DEF Receive
  <2>5. ASSUME NEW c \in Commands, GiveUp(c) PROVE TypeOK'
    <3>1. Refuse(c, "timeout")
      BY <2>5 DEF GiveUp
    <3>2. /\ client' \in [Commands -> ClientStates]
          /\ audit' \in [Commands -> SUBSET {"api", "collector"}]
          /\ faults' \in faults..MaxFaults
      BY <3>1, RefuseType
    <3>3. mailbox' \in [Commands -> Seq({"ok", "error"})]
      BY <2>5 DEF GiveUp
    <3>4. QED
      BY <2>5, <3>2, <3>3 DEF GiveUp
  <2>6. CASE Start
    BY <2>6 DEF Start
  <2>7. CASE ReadPending
    BY <2>7 DEF ReadPending, First
  <2>8. CASE ReadNew
    <3>1. batch' \subseteq Commands
      BY <2>8 DEF ReadNew, First, Undelivered, Stream
    <3>2. lastId' \in 0..topId'
      <4>1. PICK e \in batch' : lastId' = id[e]
        BY <2>8 DEF ReadNew
      <4>2. e \in Undelivered /\ topId' = topId
        BY <2>8, <4>1 DEF ReadNew, First
      <4>3. QED
        BY <4>1, <4>2 DEF Undelivered, Stream
    <3>3. QED
      BY <2>8, <3>1, <3>2 DEF ReadNew
  <2>9. ASSUME NEW c \in Commands, Check(c) PROVE TypeOK'
    BY <2>9 DEF Check
  <2>10. ASSUME NEW c \in Commands, CheckFails(c) PROVE TypeOK'
    BY <2>10 DEF CheckFails, Fault
  <2>11. ASSUME NEW c \in Commands, Write(c) PROVE TypeOK'
    BY <2>11 DEF Write
  <2>12. ASSUME NEW c \in Commands, Audit(c) PROVE TypeOK'
    BY <2>12 DEF Audit
  <2>13. ASSUME NEW c \in Commands, AuditFails(c) PROVE TypeOK'
    BY <2>13 DEF AuditFails, Fault
  <2>14. ASSUME NEW c \in Commands, Publish(c) PROVE TypeOK'
    <3>1. mailbox' \in [Commands -> Seq({"ok", "error"})]
      BY <2>14 DEF Publish
    <3>2. QED
      BY <2>14, <3>1 DEF Publish
  <2>15. ASSUME NEW c \in Commands, Xack(c) PROVE TypeOK'
    BY <2>15 DEF Xack
  <2>16. CASE Crash
    BY <2>16 DEF Crash, Fault
  <2>17. ASSUME NEW c \in Commands, Revoke(c) PROVE TypeOK'
    BY <2>17 DEF Revoke
  <2>18. CASE TimePasses
    BY <2>18 DEF TimePasses
  <2>19. CASE UNCHANGED vars
    BY <2>19 DEF vars
  <2>20. QED
    BY <2>1, <2>2, <2>3, <2>4, <2>5, <2>6, <2>7, <2>8, <2>9, <2>10, <2>11, <2>12,
       <2>13, <2>14, <2>15, <2>16, <2>17, <2>18, <2>19
       DEF Next, Request, Process, WriterStep
<1>3. QED
  BY <1>1, <1>2, PTL DEF Spec

-----------------------------------------------------------------------------
(* One XREADGROUP returns the beginning of what it reads. *)
LEMMA FirstIsPrefix ==
  ASSUME TypeOK, NEW S \in SUBSET Commands,
         NEW c \in First(S), NEW d \in S, id[d] < id[c]
  PROVE  d \in First(S)
<1> DEFINE Before(e) == {x \in S : id[x] < id[e]}
<1>1. c \in Commands /\ d \in Commands
  BY DEF First
<1>2. Before(d) \subseteq Before(c)
  <2>1. \A x \in Commands : id[x] \in Int
    BY DEF TypeOK
  <2>2. ASSUME NEW x \in S, id[x] < id[d] PROVE id[x] < id[c]
    BY <1>1, <2>1, <2>2
  <2>3. QED
    BY <2>2
<1>3. IsFiniteSet(Before(c))
  BY WriteAssumption, FS_Subset
<1>4. IsFiniteSet(Before(d)) /\ Cardinality(Before(d)) <= Cardinality(Before(c))
  BY <1>2, <1>3, FS_Subset
<1>5. Cardinality(Before(c)) \in Nat /\ Cardinality(Before(d)) \in Nat
  BY <1>3, <1>4, FS_CardinalityType
<1>6. Cardinality(Before(c)) < Count
  BY DEF First
<1>7. Cardinality(Before(d)) < Count
  BY <1>4, <1>5, <1>6, WriteAssumption
<1>8. QED
  BY <1>7 DEF First

(* Every step keeps the discipline of the stream. *)
LEMMA StreamStep == TypeOK /\ StreamInv /\ [Next]_vars => StreamInv'
<1> SUFFICES ASSUME TypeOK, StreamInv, [Next]_vars PROVE StreamInv'
  OBVIOUS
<1> USE DEF environment, request, redis, collector, effects
<1>1. ASSUME NEW c \in Commands, Reject(c) \/ GiveUp(c) PROVE StreamInv'
  <2>1. PICK a \in {"refused", "timeout", "failed"} : client' = [client EXCEPT ![c] = a]
    BY <1>1 DEF Reject, GiveUp, Refuse
  <2>2. UNCHANGED <<redis, collector>>
    BY <1>1 DEF Reject, GiveUp
  <2>3. QED
    BY <2>1, <2>2 DEF StreamInv, TypeOK
<1>2. ASSUME NEW c \in Commands, Submit(c) PROVE StreamInv'
  BY <1>2 DEF Submit, StreamInv, TypeOK
<1>3. ASSUME NEW c \in Commands, Send(c) PROVE StreamInv'
  <2>1. c \notin pel /\ id[c] = 0
    BY <1>3 DEF Send, StreamInv
  <2>2. /\ id' = [id EXCEPT ![c] = topId + 1] /\ client' = [client EXCEPT ![c] = "waiting"]
        /\ UNCHANGED <<lastId, pel, collector>>
    BY <1>3 DEF Send
  <2>3. \A d \in Commands : id'[d] = IF d = c THEN topId + 1 ELSE id[d]
    BY <2>2 DEF TypeOK
  <2>4. \A d \in Commands : id[d] \in Nat /\ id[d] <= topId /\ topId \in Nat
    BY DEF TypeOK
  <2>5. \A d, e \in Commands : id'[d] # 0 /\ id'[d] = id'[e] => d = e
    BY <2>3, <2>4 DEF StreamInv
  <2>6. \A d \in pel : id'[d] = id[d]
    BY <2>1, <2>3 DEF TypeOK
  <2>7. \A d \in Commands : client'[d] \in {"idle", "subscribed"} => id'[d] = 0
    BY <2>2, <2>3 DEF StreamInv, TypeOK
  <2>8. QED
    BY <2>2, <2>5, <2>6, <2>7 DEF StreamInv
<1>4. ASSUME NEW c \in Commands, Receive(c) PROVE StreamInv'
  <2>1. Head(mailbox[c]) \in {"ok", "error"}
    BY <1>4 DEF Receive, TypeOK
  <2>2. QED
    BY <1>4, <2>1 DEF Receive, StreamInv, TypeOK
<1>5. CASE Start
  BY <1>5 DEF Start, StreamInv
<1>6. CASE ReadPending
  <2>1. pel \in SUBSET Commands /\ batch' = First(pel) /\ batch = {}
    BY <1>6 DEF ReadPending, TypeOK
  <2>2. \A c \in batch', d \in pel : id[d] < id[c] => d \in batch'
    BY <2>1, FirstIsPrefix
  <2>3. batch' \subseteq pel /\ (pel = {} => batch' = {})
    BY <2>1 DEF First
  <2>4. QED
    BY <1>6, <2>1, <2>2, <2>3 DEF ReadPending, StreamInv
<1>7. CASE ReadNew
  <2>1. Undelivered \in SUBSET Commands /\ batch' = First(Undelivered) /\ batch = {}
    BY <1>7 DEF ReadNew, Undelivered, Stream
  <2>2. pel = {} /\ pel' = batch' /\ step' = "check" /\ cursor' = ">"
    BY <1>7, <2>1 DEF ReadNew, StreamInv
  <2>3. \A c \in batch' : id[c] # 0 /\ id[c] <= lastId'
    BY <1>7, <2>1 DEF ReadNew, First, Undelivered, Stream
  <2>4. UNCHANGED <<id, client>>
    BY <1>7 DEF ReadNew
  <2>5. QED
    BY <2>2, <2>3, <2>4 DEF StreamInv
<1>8. ASSUME NEW c \in Commands,
             Check(c) \/ CheckFails(c) \/ Write(c) \/ Audit(c) \/ AuditFails(c) \/ Publish(c)
      PROVE  StreamInv'
  <2>1. c \in batch /\ UNCHANGED <<client, redis, cursor, batch>>
    BY <1>8 DEF Check, CheckFails, Write, Audit, AuditFails, Publish, Current
  <2>2. QED
    BY <2>1 DEF StreamInv
<1>9. ASSUME NEW c \in Commands, Xack(c) PROVE StreamInv'
  <2>1. /\ Current(c) /\ pel' = pel \ {c} /\ batch' = batch \ {c} /\ step' = "check"
        /\ UNCHANGED <<id, lastId, client, cursor>>
    BY <1>9 DEF Xack
  <2>2. QED
    BY <2>1 DEF StreamInv, Current
<1>10. CASE Crash
  BY <1>10 DEF Crash, StreamInv
<1>11. ASSUME NEW c \in Commands, Revoke(c) PROVE StreamInv'
  BY <1>11 DEF Revoke, StreamInv
<1>12. CASE TimePasses
  BY <1>12 DEF TimePasses, StreamInv
<1>13. CASE UNCHANGED vars
  BY <1>13 DEF vars, StreamInv
<1>14. QED
  BY <1>1, <1>2, <1>3, <1>4, <1>5, <1>6, <1>7, <1>8, <1>9, <1>10, <1>11, <1>12, <1>13
     DEF Next, Request, Process, WriterStep

(* The discipline of the stream holds throughout (Writer.run, XREADGROUP). *)
THEOREM StreamInvHolds == Spec => []StreamInv
<1>1. Init => StreamInv
  BY DEF Init, StreamInv
<1>2. QED
  BY <1>1, StreamStep, WriteTypeCorrect, PTL DEF Spec

-----------------------------------------------------------------------------
(* The steps that change what was executed, who traced it, what is pending *)
(* or where the Writer stands; every other step leaves all of it alone.    *)
position == <<redis, batch, step, verdict, writes, audit, crashes>>

(* A step leaves `position` alone or is one of these. *)
LEMMA PositionSteps ==
  ASSUME [Next]_vars
  PROVE  \/ UNCHANGED position
         \/ \E c \in Commands : Send(c) \/ Process(c) \/ CheckFails(c) \/ AuditFails(c)
                                  \/ Reject(c) \/ GiveUp(c)
         \/ ReadPending \/ ReadNew \/ Crash
<1> USE DEF position, redis, environment, collector, effects
<1>1. ASSUME NEW c \in Commands, Submit(c) \/ Receive(c) \/ Revoke(c)
      PROVE  UNCHANGED position
  BY <1>1 DEF Submit, Receive, Revoke
<1>2. CASE Start \/ TimePasses \/ UNCHANGED vars
  BY <1>2 DEF Start, TimePasses, vars
<1>3. QED
  BY <1>1, <1>2 DEF Next, Request, WriterStep

(* The first entry of the batch is the first of all pending entries. *)
LEMMA CurrentIsFirst ==
  ASSUME TypeOK, StreamInv, NEW c \in Commands, Current(c)
  PROVE  c \in pel /\ \A d \in pel : id[c] <= id[d]
<1>1. c \in pel
  BY DEF Current, StreamInv
<1>2. ASSUME NEW d \in pel, id[d] < id[c] PROVE FALSE
  <2>1. d \in batch /\ id[c] <= id[d]
    BY <1>2 DEF Current, StreamInv
  <2>2. QED
    BY <1>1, <1>2, <2>1 DEF TypeOK
<1>3. \A d \in pel : id[d] \in Int /\ id[c] \in Int
  BY <1>1 DEF TypeOK
<1>4. QED
  BY <1>1, <1>2, <1>3

(* Only driver.write executes, and only the first pending entry. *)
LEMMA OrderStep == TypeOK /\ StreamInv /\ OrderInv /\ [Next]_vars => OrderInv'
<1> SUFFICES ASSUME TypeOK, StreamInv, OrderInv, [Next]_vars PROVE OrderInv'
  OBVIOUS
<1> USE DEF redis, effects
<1>1. CASE UNCHANGED <<redis, writes>>
  BY <1>1 DEF OrderInv
<1>2. ASSUME NEW c \in Commands, Send(c) PROVE OrderInv'
  <2>1. c \notin pel /\ id[c] = 0
    BY <1>2 DEF Send, StreamInv
  <2>2. \A d \in Commands : d # c => id'[d] = id[d]
    BY <1>2 DEF Send, TypeOK
  <2>3. UNCHANGED <<lastId, pel, writes>>
    BY <1>2 DEF Send
  <2>4. QED
    BY <2>1, <2>2, <2>3 DEF OrderInv, TypeOK
<1>3. CASE ReadNew
  <2>1. batch' \subseteq Undelivered /\ UNCHANGED <<id, writes>> /\ pel = {} /\ pel' = batch'
    BY <1>3 DEF ReadNew, First, StreamInv
  <2>2. \E e \in batch' : lastId' = id[e]
    BY <1>3 DEF ReadNew
  <2>3. lastId' > lastId /\ lastId' \in Nat /\ lastId \in Nat
    BY <2>1, <2>2 DEF Undelivered, Stream, TypeOK
  <2>4. ASSUME NEW c \in Commands, writes'[c] > 0
        PROVE  id'[c] # 0 /\ id'[c] <= lastId' /\ \A d \in pel' : id'[c] <= id'[d]
    <3>1. id'[c] = id[c] /\ id[c] # 0 /\ id[c] <= lastId /\ id[c] \in Nat
      BY <2>1, <2>4 DEF OrderInv, TypeOK
    <3>2. \A d \in pel' : id'[d] > lastId /\ id'[d] \in Nat
      BY <2>1 DEF Undelivered, Stream, TypeOK
    <3> QED BY <2>3, <3>1, <3>2
  <2>5. QED
    BY <2>4 DEF OrderInv
<1>4. ASSUME NEW c \in Commands, Write(c) PROVE OrderInv'
  <2>1. /\ \A d \in Commands : d # c => writes'[d] = writes[d]
        /\ UNCHANGED redis /\ Current(c)
    BY <1>4 DEF Write, TypeOK
  <2>2. c \in pel /\ \A d \in pel : id[c] <= id[d]
    BY <2>1, CurrentIsFirst
  <2>3. id[c] # 0 /\ id[c] <= lastId
    BY <2>2 DEF StreamInv
  <2>4. QED
    BY <2>1, <2>2, <2>3 DEF OrderInv
<1>5. ASSUME NEW c \in Commands, Xack(c) PROVE OrderInv'
  BY <1>5 DEF Xack, OrderInv
<1>6. ASSUME NEW c \in Commands,
             Check(c) \/ CheckFails(c) \/ Audit(c) \/ AuditFails(c) \/ Publish(c)
               \/ Reject(c) \/ GiveUp(c)
      PROVE  UNCHANGED <<redis, writes>>
  BY <1>6 DEF Check, CheckFails, Audit, AuditFails, Publish, Reject, GiveUp
<1>7. CASE ReadPending \/ Crash
  BY <1>7, <1>1 DEF ReadPending, Crash
<1>8. CASE UNCHANGED position
  BY <1>8, <1>1 DEF position
<1>9. QED
  BY <1>1, <1>2, <1>3, <1>4, <1>5, <1>6, <1>7, <1>8, PositionSteps DEF Process

(* What was executed precedes everything that is pending (Writer.run). *)
THEOREM OrderInvHolds == Spec => []OrderInv
<1>1. Init => OrderInv
  BY DEF Init, OrderInv
<1>2. QED
  BY <1>1, OrderStep, WriteTypeCorrect, StreamInvHolds, PTL DEF Spec

(* An older set-point never overwrites a newer one, through any number of  *)
(* crashes and restarts of the collector (Writer.run).                     *)
THEOREM WritesInStreamOrderHolds == Spec => WritesInStreamOrder
<1>1. TypeOK /\ StreamInv /\ OrderInv /\ [Next]_vars
        => [\A c \in Commands : writes'[c] # writes[c] =>
              \A d \in Stream : id[d] > id[c] => writes[d] = 0]_vars
  <2> SUFFICES ASSUME TypeOK, StreamInv, OrderInv, [Next]_vars,
                      NEW c \in Commands, writes'[c] # writes[c],
                      NEW d \in Stream, id[d] > id[c]
               PROVE  writes[d] = 0
    OBVIOUS
  <2>1. Write(c)
    <3>1. ASSUME NEW e \in Commands, Send(e) \/ Check(e) \/ Audit(e) \/ Publish(e)
                   \/ Xack(e) \/ CheckFails(e) \/ AuditFails(e) \/ Reject(e) \/ GiveUp(e)
          PROVE  UNCHANGED writes
      BY <3>1 DEF Send, Check, Audit, Publish, Xack, CheckFails, AuditFails, Reject,
                  GiveUp, effects
    <3>2. CASE UNCHANGED position \/ ReadPending \/ ReadNew \/ Crash
      BY <3>2 DEF position, ReadPending, ReadNew, Crash, effects
    <3>3. ASSUME NEW e \in Commands, Write(e) PROVE e = c
      BY <3>3 DEF Write, TypeOK
    <3>4. QED
      BY <3>1, <3>2, <3>3, PositionSteps DEF Process
  <2>2. c \in pel
    BY <2>1, CurrentIsFirst DEF Write
  <2>3. d \in Commands /\ writes[d] \in Nat /\ id[c] \in Int /\ id[d] \in Int
    BY DEF Stream, TypeOK
  <2>4. QED
    BY <2>2, <2>3 DEF OrderInv
<1>2. QED
  BY <1>1, WriteTypeCorrect, StreamInvHolds, OrderInvHolds, PTL
     DEF Spec, WritesInStreamOrder

-----------------------------------------------------------------------------
(* One entry is processed at a time. *)
LEMMA CurrentUnique ==
  ASSUME TypeOK, StreamInv, NEW c \in Commands, NEW d \in Commands, Current(c), Current(d)
  PROVE  c = d
<1>1. id[c] <= id[d] /\ id[d] <= id[c] /\ c \in pel
  BY DEF Current, StreamInv
<1>2. id[c] = id[d]
  BY <1>1 DEF TypeOK
<1>3. QED
  BY <1>1, <1>2 DEF StreamInv

(* XADD does not change which entry is processed. *)
LEMMA CurrentAfterSend ==
  ASSUME TypeOK, StreamInv, NEW c \in Commands, Send(c), NEW d \in Commands, Current(d)'
  PROVE  Current(d)
<1>1. c \notin batch /\ batch' = batch
  BY DEF Send, StreamInv, collector
<1>2. \A e \in batch : id'[e] = id[e]
  BY <1>1 DEF Send, TypeOK
<1>3. QED
  BY <1>1, <1>2 DEF Current

(* The count of executions is taken at the device and forgiven at a crash. *)
LEMMA RepeatStep ==
  TypeOK /\ StreamInv /\ OrderInv /\ RepeatInv /\ [Next]_vars => RepeatInv'
<1> SUFFICES ASSUME TypeOK, StreamInv, OrderInv, RepeatInv, [Next]_vars PROVE RepeatInv'
  OBVIOUS
<1> USE DEF redis, effects, environment, collector
<1>1. CASE UNCHANGED position
  BY <1>1 DEF position, RepeatInv, Current
<1>2. ASSUME NEW c \in Commands, Send(c) PROVE RepeatInv'
  <2>1. UNCHANGED <<pel, batch, step, writes, crashes>>
    BY <1>2 DEF Send
  <2>2. \A d \in Commands : Current(d) => Current(d)'
    <3>1. c \notin batch
      BY <1>2 DEF Send, StreamInv
    <3>2. \A e \in batch : id'[e] = id[e]
      BY <1>2, <3>1 DEF Send, TypeOK
    <3>3. QED
      BY <2>1, <3>2 DEF Current
  <2>3. QED
    BY <2>1, <2>2 DEF RepeatInv
<1>3. CASE ReadPending
  <2>1. batch = {} /\ UNCHANGED <<pel, id, step, writes, crashes>>
    BY <1>3 DEF ReadPending
  <2>2. \A d \in Commands : ~Current(d)
    BY <2>1 DEF Current
  <2>3. QED
    BY <2>1, <2>2 DEF RepeatInv
<1>4. CASE ReadNew
  <2>1. batch' \subseteq Undelivered /\ UNCHANGED <<writes, crashes>> /\ pel' = batch'
    BY <1>4 DEF ReadNew, First, StreamInv
  <2>2. \A d \in pel' : id[d] > lastId /\ d \in Commands
    BY <2>1 DEF Undelivered, Stream
  <2>3. \A d \in pel' : writes[d] = 0
    <3>1. \A d \in Commands : writes[d] \in Nat /\ id[d] \in Int /\ lastId \in Int
      BY DEF TypeOK
    <3>2. \A d \in Commands : writes[d] > 0 => id[d] <= lastId
      BY DEF OrderInv
    <3>3. QED
      BY <2>2, <3>1, <3>2
  <2>4. QED
    BY <2>1, <2>3 DEF RepeatInv, TypeOK
<1>5. ASSUME NEW c \in Commands, Write(c) PROVE RepeatInv'
  <2>1. /\ Current(c) /\ step = "write" /\ step' = "audit" /\ c \in pel
        /\ UNCHANGED <<pel, id, batch, crashes>>
    BY <1>5, CurrentIsFirst DEF Write
  <2>2. writes'[c] \in {writes[c], writes[c] + 1}
        /\ \A d \in Commands : d # c => writes'[d] = writes[d]
    BY <1>5 DEF Write, TypeOK
  <2>3. writes[c] <= crashes /\ writes[c] \in Nat /\ crashes \in Nat
    BY <2>1 DEF RepeatInv, TypeOK
  <2>4. \A d \in Commands : Current(d)' <=> Current(d)
    BY <2>1 DEF Current
  <2>5. \A d \in Commands : d # c => ~Current(d)
    BY <2>1, CurrentUnique
  <2>6. \A d \in Commands : d # c =>
          writes'[d] <= 1 + crashes /\ (d \in pel => writes'[d] <= crashes)
    BY <2>2, <2>5 DEF RepeatInv
  <2>7. writes'[c] <= 1 + crashes
    BY <2>2, <2>3
  <2>8. QED
    BY <2>1, <2>4, <2>6, <2>7 DEF RepeatInv
<1>6. ASSUME NEW c \in Commands,
             Check(c) \/ CheckFails(c) \/ Audit(c) \/ AuditFails(c) \/ Publish(c)
      PROVE  RepeatInv'
  <2>1. /\ UNCHANGED <<pel, id, batch, writes, crashes>>
        /\ step \in {"audit", "publish", "xack"} => step' \in {"audit", "publish", "xack"}
    BY <1>6 DEF Check, CheckFails, Audit, AuditFails, Publish
  <2>2. QED
    BY <2>1 DEF RepeatInv, Current
<1>7. ASSUME NEW c \in Commands, Xack(c) PROVE RepeatInv'
  <2>1. /\ Current(c) /\ pel' = pel \ {c} /\ batch' = batch \ {c}
        /\ UNCHANGED <<id, writes, crashes>>
    BY <1>7 DEF Xack
  <2>2. \A d \in Commands : d # c => ~Current(d)
    BY <2>1, CurrentUnique
  <2>3. QED
    BY <2>1, <2>2 DEF RepeatInv
<1>8. CASE Crash
  BY <1>8 DEF Crash, RepeatInv, TypeOK
<1>9. ASSUME NEW c \in Commands, Reject(c) \/ GiveUp(c) PROVE RepeatInv'
  <2>1. UNCHANGED <<redis, collector, writes, crashes>>
    BY <1>9 DEF Reject, GiveUp
  <2>2. QED
    BY <2>1 DEF RepeatInv, Current
<1>10. QED
  BY <1>1, <1>2, <1>3, <1>4, <1>5, <1>6, <1>7, <1>8, <1>9, PositionSteps DEF Process

(* The device executes a command once more than the collector crashed, at  *)
(* most (process, XACK, pending entries read again).                       *)
THEOREM ExecutedAgainOnlyAfterCrashHolds == Spec => []ExecutedAgainOnlyAfterCrash
<1>1. Init => RepeatInv
  BY DEF Init, RepeatInv
<1>2. RepeatInv => ExecutedAgainOnlyAfterCrash
  BY DEF RepeatInv, ExecutedAgainOnlyAfterCrash
<1>3. QED
  BY <1>1, <1>2, RepeatStep, WriteTypeCorrect, StreamInvHolds, OrderInvHolds, PTL DEF Spec

-----------------------------------------------------------------------------
(* "ok" is only passed on with its proof, whatever fails on the way. *)
LEMMA AnswerStep == TypeOK /\ StreamInv /\ AnswerInv /\ [Next]_vars => AnswerInv'
<1> SUFFICES ASSUME TypeOK, StreamInv, AnswerInv, [Next]_vars PROVE AnswerInv'
  OBVIOUS
<1> USE DEF redis, effects, environment, collector, request
<1>1. ASSUME UNCHANGED <<client, mailbox, writes, audit, id, batch, step, verdict>>
      PROVE  AnswerInv'
  BY <1>1 DEF AnswerInv, Current, Done
<1>2. CASE Start \/ TimePasses \/ (\E c \in Commands : Revoke(c)) \/ UNCHANGED vars
  BY <1>1, <1>2 DEF Start, TimePasses, Revoke, vars
<1>3. ASSUME NEW c \in Commands, Reject(c) \/ GiveUp(c) PROVE AnswerInv'
  <2>1. PICK a \in {"refused", "timeout", "failed"} : client' = [client EXCEPT ![c] = a]
    BY <1>3 DEF Reject, GiveUp, Refuse
  <2>2. \A d \in Commands : audit[d] \subseteq audit'[d]
    <3>1. audit' = audit \/ audit' = [audit EXCEPT ![c] = @ \cup {"api"}]
      BY <1>3 DEF Reject, GiveUp, Refuse
    <3>2. QED
      BY <3>1 DEF TypeOK
  <2>3. UNCHANGED <<redis, collector, writes>>
    BY <1>3 DEF Reject, GiveUp
  <2>4. \A d \in Commands : mailbox'[d] = mailbox[d] \/ mailbox'[d] = <<>>
    BY <1>3 DEF Reject, GiveUp, TypeOK
  <2>5. \A d \in Commands : Done(d) => Done(d)'
    BY <2>2, <2>3 DEF Done
  <2>6. \A d \in Commands : client'[d] = "ok" => client[d] = "ok"
    BY <2>1 DEF TypeOK
  <2>7. \A d \in Commands : \A i \in 1..Len(mailbox'[d]) : mailbox'[d][i] = "ok" => Done(d)'
    BY <2>4, <2>5 DEF AnswerInv
  <2>8. QED
    BY <2>3, <2>5, <2>6, <2>7 DEF AnswerInv, Current
<1>4. ASSUME NEW c \in Commands, Submit(c) PROVE AnswerInv'
  BY <1>4 DEF Submit, AnswerInv, Current, Done, TypeOK
<1>5. ASSUME NEW c \in Commands, Send(c) PROVE AnswerInv'
  <2>1. UNCHANGED <<mailbox, batch, step, verdict, writes, audit>>
    BY <1>5 DEF Send
  <2>2. \A d \in Commands : client'[d] = "ok" => client[d] = "ok"
    BY <1>5 DEF Send, TypeOK
  <2>3. \A d \in Commands : Current(d)' => Current(d)
    BY <1>5, CurrentAfterSend
  <2>4. QED
    BY <2>1, <2>2, <2>3 DEF AnswerInv, Done
<1>6. ASSUME NEW c \in Commands, Receive(c) PROVE AnswerInv'
  <2>1. /\ mailbox[c] # <<>> /\ mailbox' = [mailbox EXCEPT ![c] = <<>>]
        /\ client' = [client EXCEPT ![c] = Head(mailbox[c])]
        /\ UNCHANGED <<redis, collector, effects>>
    BY <1>6 DEF Receive
  <2>2. 1 \in 1..Len(mailbox[c]) /\ Head(mailbox[c]) = mailbox[c][1]
    BY <2>1 DEF TypeOK
  <2>3. Head(mailbox[c]) = "ok" => Done(c)
    BY <2>2 DEF AnswerInv
  <2>4. \A d \in Commands : client'[d] = "ok" => Done(d)
    BY <2>1, <2>3 DEF AnswerInv, TypeOK
  <2>5. \A d \in Commands : mailbox'[d] = mailbox[d] \/ mailbox'[d] = <<>>
    BY <2>1 DEF TypeOK
  <2>6. \A d \in Commands : \A i \in 1..Len(mailbox'[d]) : mailbox'[d][i] = "ok" => Done(d)
    BY <2>5 DEF AnswerInv
  <2>7. QED
    BY <2>1, <2>4, <2>6 DEF AnswerInv, Current, Done
<1>7. CASE ReadPending \/ ReadNew \/ Crash
  <2>1. UNCHANGED <<client, mailbox, writes, audit>> /\ step' = "check"
    BY <1>7 DEF ReadPending, ReadNew, Crash, StreamInv
  <2>2. QED
    BY <2>1 DEF AnswerInv, Done
<1>8. ASSUME NEW c \in Commands, Check(c) \/ CheckFails(c) \/ AuditFails(c) PROVE AnswerInv'
  <2>1. UNCHANGED <<client, mailbox, writes, audit>> /\ verdict' = "error"
    BY <1>8 DEF Check, CheckFails, AuditFails
  <2>2. QED
    BY <2>1 DEF AnswerInv, Done
<1>9. ASSUME NEW c \in Commands, Write(c) PROVE AnswerInv'
  <2>1. /\ Current(c) /\ step' = "audit" /\ UNCHANGED <<client, mailbox, audit, id, batch>>
        /\ \A d \in Commands : writes[d] <= writes'[d]
        /\ verdict' = "ok" => writes'[c] > 0
    BY <1>9 DEF Write, TypeOK
  <2>2. \A d \in Commands : Done(d) => Done(d)'
    <3>1. \A d \in Commands : writes[d] \in Int /\ writes'[d] \in Int
      BY <1>9 DEF Write, TypeOK
    <3>2. QED
      BY <2>1, <3>1 DEF Done
  <2>3. \A d \in Commands : Current(d)' => d = c
    BY <2>1, CurrentUnique DEF Current
  <2>4. QED
    BY <2>1, <2>2, <2>3 DEF AnswerInv
<1>10. ASSUME NEW c \in Commands, Audit(c) PROVE AnswerInv'
  <2>1. /\ Current(c) /\ step = "audit" /\ step' = "publish"
        /\ UNCHANGED <<client, mailbox, writes, id, batch, verdict>>
        /\ audit' = [audit EXCEPT ![c] = @ \cup {"collector"}]
    BY <1>10 DEF Audit
  <2>2. \A d \in Commands : Done(d) => Done(d)'
    BY <2>1 DEF Done, TypeOK
  <2>3. \A d \in Commands : Current(d)' => d = c
    BY <2>1, CurrentUnique DEF Current
  <2>4. verdict = "ok" => Done(c)'
    BY <2>1 DEF AnswerInv, Done, TypeOK
  <2>5. QED
    BY <2>1, <2>2, <2>3, <2>4 DEF AnswerInv
<1>11. ASSUME NEW c \in Commands, Publish(c) PROVE AnswerInv'
  <2>1. /\ Current(c) /\ step = "publish" /\ step' = "xack"
        /\ UNCHANGED <<client, writes, audit, id, batch, verdict>>
        /\ mailbox' = mailbox \/ mailbox' = [mailbox EXCEPT ![c] = Append(@, verdict)]
    BY <1>11 DEF Publish
  <2>2. verdict = "ok" => Done(c)
    BY <2>1 DEF AnswerInv
  <2>3. \A d \in Commands : \A i \in 1..Len(mailbox'[d]) : mailbox'[d][i] = "ok" => Done(d)
    <3>1. CASE mailbox' = mailbox
      BY <3>1 DEF AnswerInv
    <3>2. CASE mailbox' = [mailbox EXCEPT ![c] = Append(@, verdict)]
      <4>1. mailbox[c] \in Seq({"ok", "error"}) /\ mailbox'[c] = Append(mailbox[c], verdict)
        BY <3>2 DEF TypeOK
      <4>2. \A i \in 1..Len(mailbox'[c]) :
              IF i <= Len(mailbox[c]) THEN mailbox'[c][i] = mailbox[c][i]
              ELSE mailbox'[c][i] = verdict
        BY <4>1 DEF TypeOK
      <4>3. \A i \in 1..Len(mailbox'[c]) : mailbox'[c][i] = "ok" => Done(c)
        BY <2>2, <4>1, <4>2 DEF AnswerInv
      <4>4. \A d \in Commands : d # c => mailbox'[d] = mailbox[d]
        BY <3>2 DEF TypeOK
      <4>5. QED
        BY <4>3, <4>4 DEF AnswerInv
    <3>3. QED
      BY <2>1, <3>1, <3>2
  <2>4. QED
    BY <2>1, <2>3 DEF AnswerInv, Current, Done
<1>12. ASSUME NEW c \in Commands, Xack(c) PROVE AnswerInv'
  <2>1. UNCHANGED <<client, mailbox, writes, audit>> /\ step' = "check"
    BY <1>12 DEF Xack
  <2>2. QED
    BY <2>1 DEF AnswerInv, Done
<1>13. QED
  BY <1>2, <1>3, <1>4, <1>5, <1>6, <1>7, <1>8, <1>9, <1>10, <1>11, <1>12
     DEF Next, Request, Process, WriterStep

(* A 200 of write_point is true: the device executed the command and the   *)
(* collector traced it, under database failures, crashes, repetitions and  *)
(* late results.                                                           *)
THEOREM TruthfulAnswerHolds == Spec => []TruthfulAnswer
<1>1. Init => AnswerInv
  BY DEF Init, AnswerInv
<1>2. AnswerInv => TruthfulAnswer
  BY DEF AnswerInv, TruthfulAnswer, Done
<1>3. QED
  BY <1>1, <1>2, AnswerStep, WriteTypeCorrect, StreamInvHolds, PTL DEF Spec

-----------------------------------------------------------------------------
(* As long as every fault was a crash, nothing leaves the Writer untraced. *)
LEMMA TraceStep ==
  ASSUME TypeOK, StreamInv, TraceInv, [Next]_vars, faults' = crashes'
  PROVE  TraceInv'
<1> USE DEF redis, effects, environment, collector, request
<1>1. CASE UNCHANGED position
  BY <1>1 DEF position, TraceInv, AllTraced, Handled, Current
<1>2. ASSUME NEW c \in Commands, Reject(c) \/ GiveUp(c) PROVE TraceInv'
  <2>1. audit' = audit \/ audit' = [audit EXCEPT ![c] = @ \cup {"api"}]
    BY <1>2 DEF Reject, GiveUp, Refuse
  <2>2. \A d \in Commands : audit[d] \subseteq audit'[d]
    BY <2>1 DEF TypeOK
  <2>3. UNCHANGED <<redis, collector>>
    BY <1>2 DEF Reject, GiveUp
  <2>4. QED
    BY <2>2, <2>3 DEF TraceInv, AllTraced, Handled, Current
<1>3. ASSUME NEW c \in Commands, Send(c) PROVE TraceInv'
  <2>1. UNCHANGED <<lastId, pel, batch, step, audit>>
    BY <1>3 DEF Send
  <2>2. \A d \in Commands : d # c => id'[d] = id[d]
    BY <1>3 DEF Send, TypeOK
  <2>3. id'[c] > lastId
    BY <1>3 DEF Send, TypeOK
  <2>4. lastId \in Int /\ id'[c] \in Int
    BY <1>3 DEF Send, TypeOK
  <2>5. \A d \in Commands : Handled(d)' => Handled(d)
    BY <2>1, <2>2, <2>3, <2>4 DEF Handled
  <2>6. \A d \in Commands : Current(d)' => Current(d)
    BY <1>3, CurrentAfterSend
  <2>7. QED
    BY <2>1, <2>5, <2>6 DEF TraceInv, AllTraced
<1>4. CASE ReadPending \/ Crash
  <2>1. UNCHANGED <<id, lastId, pel, audit>> /\ step' = "check"
    BY <1>4 DEF ReadPending, Crash, StreamInv
  <2>2. QED
    BY <2>1 DEF TraceInv, AllTraced, Handled
<1>5. CASE ReadNew
  <2>1. /\ batch' = First(Undelivered) /\ UNCHANGED <<id, audit>> /\ pel = {}
        /\ pel' = batch' /\ step' = "check"
    BY <1>5 DEF ReadNew, StreamInv
  <2>2. PICK e \in batch' : lastId' = id[e]
    BY <1>5 DEF ReadNew
  <2>3. e \in Commands /\ Undelivered \in SUBSET Commands
    BY <2>1, <2>2 DEF First, Undelivered, Stream
  <2>4. ASSUME NEW d \in Commands, Handled(d)' PROVE Handled(d)
    <3>1. id[d] # 0 /\ id[d] <= id[e] /\ d \notin batch'
      BY <2>1, <2>2, <2>4 DEF Handled
    <3>2. d # e /\ id[d] # id[e]
      BY <2>2, <2>3, <3>1 DEF StreamInv
    <3>3. id[d] < id[e]
      BY <2>3, <3>1, <3>2 DEF TypeOK
    <3>4. d \notin Undelivered
      BY <2>1, <2>2, <2>3, <3>1, <3>3, FirstIsPrefix
    <3>5. id[d] <= lastId
      BY <3>1, <3>4 DEF Undelivered, Stream, TypeOK
    <3>6. QED
      BY <2>1, <3>1, <3>5 DEF Handled
  <2>5. QED
    BY <2>1, <2>4 DEF TraceInv, AllTraced
<1>6. ASSUME NEW c \in Commands, Check(c) \/ Write(c) PROVE TraceInv'
  <2>1. UNCHANGED <<redis, audit>> /\ step' \in {"write", "audit"}
    BY <1>6 DEF Check, Write
  <2>2. QED
    BY <2>1 DEF TraceInv, AllTraced, Handled
<1>7. ASSUME NEW c \in Commands, Audit(c) PROVE TraceInv'
  <2>1. /\ Current(c) /\ UNCHANGED <<redis, batch>>
        /\ audit' = [audit EXCEPT ![c] = @ \cup {"collector"}]
    BY <1>7 DEF Audit
  <2>2. \A d \in Commands : audit[d] \subseteq audit'[d] /\ "collector" \in audit'[c]
    BY <2>1 DEF TypeOK
  <2>3. \A d \in Commands : Current(d)' => d = c
    BY <2>1, CurrentUnique DEF Current
  <2>4. QED
    BY <2>1, <2>2, <2>3 DEF TraceInv, AllTraced, Handled
<1>8. ASSUME NEW c \in Commands, Publish(c) PROVE TraceInv'
  BY <1>8 DEF Publish, TraceInv, AllTraced, Handled, Current
<1>9. ASSUME NEW c \in Commands, Xack(c) PROVE TraceInv'
  <2>1. "collector" \in audit[c]
    BY <1>9 DEF Xack, TraceInv
  <2>2. UNCHANGED <<id, lastId, audit>> /\ pel' = pel \ {c} /\ step' = "check"
    BY <1>9 DEF Xack
  <2>3. QED
    BY <2>1, <2>2 DEF TraceInv, AllTraced, Handled
<1>10. ASSUME NEW c \in Commands, CheckFails(c) \/ AuditFails(c) PROVE FALSE
  <2>1. faults' = faults + 1 /\ crashes' = crashes
    BY <1>10 DEF CheckFails, AuditFails, Fault, environment
  <2>2. faults \in Nat /\ crashes \in Nat /\ crashes <= faults
    BY WriteAssumption DEF TypeOK
  <2>3. faults' = crashes'
    OBVIOUS
  <2>4. faults + 1 <= faults
    BY <2>1, <2>2, <2>3
  <2>5. QED
    BY <2>2, <2>4
<1>11. QED
  BY <1>1, <1>2, <1>3, <1>4, <1>5, <1>6, <1>7, <1>8, <1>9, <1>10, PositionSteps DEF Process

(* The faults that are no crash are never taken back (Fault, Crash). *)
LEMMA FaultsCounted ==
  TypeOK /\ [Next]_vars /\ faults' = crashes' => faults = crashes
<1> SUFFICES ASSUME TypeOK, [Next]_vars, faults' = crashes' PROVE faults = crashes
  OBVIOUS
<1>1. \/ UNCHANGED <<faults, crashes>>
      \/ faults' = faults + 1 /\ crashes' = crashes + 1
      \/ faults' = faults + 1 /\ crashes' = crashes
  <2> USE DEF environment, Fault
  <2>1. CASE UNCHANGED vars
    BY <2>1 DEF vars
  <2>2. CASE Start \/ ReadPending \/ ReadNew \/ Crash \/ TimePasses
    BY <2>2 DEF Start, ReadPending, ReadNew, Crash, TimePasses
  <2>3. ASSUME NEW c \in Commands, Process(c) PROVE UNCHANGED <<faults, crashes>>
    BY <2>3 DEF Process, Check, Write, Audit, Publish, Xack
  <2>4. ASSUME NEW c \in Commands, Request(c) \/ CheckFails(c) \/ AuditFails(c) \/ Revoke(c)
        PROVE  /\ UNCHANGED crashes
               /\ faults' = faults \/ faults' = faults + 1
    BY <2>4 DEF Request, Reject, Submit, Send, Receive, GiveUp, Refuse, CheckFails, AuditFails,
                Revoke
  <2>5. QED
    BY <2>1, <2>2, <2>3, <2>4 DEF Next, WriterStep
<1>2. faults \in Nat /\ crashes \in Nat /\ crashes <= faults
  BY WriteAssumption DEF TypeOK
<1>3. QED
  BY <1>1, <1>2

(* Until a database call fails, every command the Writer is done with is   *)
(* in the audit log, through crashes, expiry and refusals (execute, "tout  *)
(* refus est trace").                                                      *)
THEOREM HandledIsTracedHolds == Spec => []HandledIsTraced
<1> DEFINE Inv == faults = crashes => TraceInv
<1>1. Init => Inv
  BY DEF Init, TraceInv, AllTraced, Handled, Current
<1>2. Inv => HandledIsTraced
  BY DEF TraceInv, HandledIsTraced
<1>3. TypeOK /\ StreamInv /\ Inv /\ [Next]_vars => Inv'
  <2> SUFFICES ASSUME TypeOK, StreamInv, Inv, [Next]_vars, faults' = crashes' PROVE TraceInv'
    OBVIOUS
  <2>1. TraceInv
    BY FaultsCounted
  <2>2. QED
    BY <2>1, TraceStep
<1> HIDE DEF Inv
<1>4. QED
  BY <1>1, <1>2, <1>3, WriteTypeCorrect, StreamInvHolds, PTL DEF Spec

-----------------------------------------------------------------------------
(* What was answered had been sent, so its request had subscribed before. *)
ResultInv ==
  /\ \A c \in answered : id[c] # 0
  /\ NoResultMissed

LEMMA ResultStep == TypeOK /\ StreamInv /\ ResultInv /\ [Next]_vars => ResultInv'
<1> SUFFICES ASSUME TypeOK, StreamInv, ResultInv, [Next]_vars PROVE ResultInv'
  OBVIOUS
<1> USE DEF environment, request, redis, collector, effects
<1>1. \A c \in answered : c \in Commands /\ id[c] # 0 /\ client[c] \notin {"idle", "subscribed"}
  BY DEF TypeOK, StreamInv, ResultInv
<1>2. CASE UNCHANGED <<id, client, mailbox, answered>>
  BY <1>2 DEF ResultInv, NoResultMissed
<1>3. ASSUME NEW c \in Commands, Reject(c) \/ GiveUp(c) PROVE ResultInv'
  <2>1. PICK a \in {"refused", "timeout", "failed"} : client' = [client EXCEPT ![c] = a]
    BY <1>3 DEF Reject, GiveUp, Refuse
  <2>2. /\ id' = id /\ answered' = answered
        /\ \A d \in Commands \ {c} : mailbox'[d] = mailbox[d] /\ client'[d] = client[d]
        /\ client'[c] # "waiting"
    BY <1>3, <2>1 DEF Reject, GiveUp, TypeOK
  <2> QED BY <1>1, <2>2 DEF ResultInv, NoResultMissed
<1>4. ASSUME NEW c \in Commands, Submit(c) PROVE ResultInv'
  <2>1. /\ UNCHANGED <<id, mailbox, answered>> /\ client' = [client EXCEPT ![c] = "subscribed"]
    BY <1>4 DEF Submit
  <2> QED BY <1>1, <2>1 DEF ResultInv, NoResultMissed, TypeOK
<1>5. ASSUME NEW c \in Commands, Send(c) PROVE ResultInv'
  <2>1. c \notin answered
    BY <1>1, <1>5 DEF Send
  <2>2. /\ answered' = answered /\ mailbox' = mailbox
        /\ \A d \in Commands \ {c} : id'[d] = id[d] /\ client'[d] = client[d]
    BY <1>5 DEF Send, TypeOK
  <2> QED BY <1>1, <2>1, <2>2 DEF ResultInv, NoResultMissed
<1>6. ASSUME NEW c \in Commands, Receive(c) PROVE ResultInv'
  <2>1. Head(mailbox[c]) \in {"ok", "error"}
    BY <1>6 DEF Receive, TypeOK
  <2>2. /\ answered' = answered /\ id' = id /\ client'[c] # "waiting"
        /\ \A d \in Commands \ {c} : mailbox'[d] = mailbox[d] /\ client'[d] = client[d]
    BY <1>6, <2>1 DEF Receive, TypeOK
  <2> QED BY <1>1, <2>2 DEF ResultInv, NoResultMissed
<1>7. ASSUME NEW c \in Commands, Publish(c) PROVE ResultInv'
  <2>1. id[c] # 0
    BY <1>7 DEF Publish, Current, StreamInv
  <2>2. Append(mailbox[c], verdict) # <<>>
    <3>1. mailbox[c] \in Seq({"ok", "error"}) /\ verdict \in {"ok", "error"}
      BY DEF TypeOK
    <3>2. Len(Append(mailbox[c], verdict)) = Len(mailbox[c]) + 1 /\ Len(mailbox[c]) \in Nat
      BY <3>1
    <3>3. Len(<<>>) = 0
      OBVIOUS
    <3> QED BY <3>2, <3>3
  <2>3. client[c] = "waiting" => mailbox'[c] # <<>>
    BY <1>7, <2>2 DEF Publish, Subscribed, TypeOK
  <2>4. /\ UNCHANGED <<id, client>> /\ answered' = answered \cup {c}
        /\ \A d \in Commands \ {c} : mailbox'[d] = mailbox[d]
    BY <1>7 DEF Publish, TypeOK
  <2> QED BY <1>1, <2>1, <2>3, <2>4 DEF ResultInv, NoResultMissed
<1>8. ASSUME NEW c \in Commands, Check(c) \/ CheckFails(c) \/ Write(c) \/ Audit(c) \/ AuditFails(c)
                                   \/ Xack(c) \/ Revoke(c)
      PROVE  UNCHANGED <<id, client, mailbox, answered>>
  BY <1>8 DEF Check, CheckFails, Write, Audit, AuditFails, Xack, Revoke
<1>9. CASE Start \/ ReadPending \/ ReadNew \/ Crash \/ TimePasses \/ UNCHANGED vars
  BY <1>2, <1>9 DEF Start, ReadPending, ReadNew, Crash, TimePasses, vars
<1> QED BY <1>2, <1>3, <1>4, <1>5, <1>6, <1>7, <1>8, <1>9 DEF Next, Request, Process, WriterStep

(* A request that still waits has every result that was published for its  *)
(* command, however often the command is processed and however close to    *)
(* its sending (send_and_wait subscribes before XADD).                     *)
THEOREM ResultsNotMissed == Spec => []NoResultMissed
<1>1. Init => ResultInv
  BY DEF Init, ResultInv, NoResultMissed
<1>2. ResultInv => NoResultMissed
  BY DEF ResultInv
<1> QED BY <1>1, <1>2, ResultStep, StreamInvHolds, WriteTypeCorrect, PTL DEF Spec

-----------------------------------------------------------------------------
(* What the Writer is done with was answered, whatever failed.             *)
HandledIsAnswered == \A c \in Commands : Handled(c) => c \in answered

AckedInv ==
  /\ HandledIsAnswered
  /\ \A c \in Commands : Current(c) /\ step = "xack" => c \in answered

(* XREADGROUP jumps over no entry.                                         *)
LEMMA ReadNewHandles ==
  ASSUME TypeOK, StreamInv, ReadNew, NEW c \in Commands, Handled(c)'
  PROVE  Handled(c)
<1>1. /\ Undelivered \in SUBSET Commands /\ batch' = First(Undelivered) /\ id' = id
      /\ pel' = pel \cup batch'
  BY DEF ReadNew, Undelivered, Stream
<1>2. PICK e \in batch' : lastId' = id[e]
  BY DEF ReadNew
<1>3. c \notin pel /\ c \notin batch' /\ id[c] # 0 /\ id[c] <= id[e]
  BY <1>1, <1>2 DEF Handled
<1>4. e \in Undelivered /\ e \in Commands
  BY <1>1, <1>2 DEF First
<1>5. id[c] \in Nat /\ id[e] \in Nat /\ lastId \in Nat
  BY <1>4 DEF TypeOK
<1>6. c # e
  BY <1>2, <1>3
<1>7. id[c] < id[e]
  BY <1>3, <1>4, <1>5, <1>6 DEF StreamInv
<1>8. c \notin Undelivered
  BY <1>1, <1>2, <1>3, <1>7, FirstIsPrefix
<1> QED BY <1>3, <1>5, <1>8 DEF Undelivered, Stream, Handled

(* The other steps that make an entry handled are its own XACK. *)
LEMMA HandledSteps ==
  ASSUME TypeOK, StreamInv, [Next]_vars, NEW c \in Commands, ~Handled(c), Handled(c)'
  PROVE  Xack(c)
<1> USE DEF redis
<1>1. ASSUME NEW d \in Commands, Send(d) PROVE FALSE
  <2>1. /\ id' = [id EXCEPT ![d] = topId + 1] /\ UNCHANGED <<lastId, pel>>
    BY <1>1 DEF Send
  <2>2. c = d /\ id'[d] = topId + 1 /\ lastId <= topId /\ lastId \in Nat /\ topId \in Nat
    BY <2>1 DEF Handled, TypeOK
  <2> QED BY <2>1, <2>2 DEF Handled
<1>2. ASSUME NEW d \in Commands, Xack(d) PROVE c = d
  BY <1>2 DEF Xack, Handled
<1>3. ASSUME NEW d \in Commands,
             Check(d) \/ CheckFails(d) \/ Write(d) \/ Audit(d) \/ AuditFails(d) \/ Publish(d)
               \/ Reject(d) \/ GiveUp(d)
      PROVE  UNCHANGED redis
  BY <1>3 DEF Check, CheckFails, Write, Audit, AuditFails, Publish, Reject, GiveUp
<1>4. CASE ReadPending \/ Crash
  BY <1>4 DEF ReadPending, Crash, Handled
<1>5. CASE UNCHANGED redis
  BY <1>5 DEF Handled
<1>6. CASE UNCHANGED position
  BY <1>5, <1>6 DEF position
<1>7. ~ReadNew
  BY ReadNewHandles
<1> QED BY <1>1, <1>2, <1>3, <1>4, <1>5, <1>6, <1>7, PositionSteps DEF Process

LEMMA AckedStep == TypeOK /\ StreamInv /\ AckedInv /\ [Next]_vars => AckedInv'
<1> SUFFICES ASSUME TypeOK, StreamInv, AckedInv, [Next]_vars PROVE AckedInv'
  OBVIOUS
<1> USE DEF redis, environment, request, collector, effects
<1>1. answered \subseteq answered'
  <2>1. ASSUME NEW c \in Commands, Publish(c) PROVE answered \subseteq answered'
    BY <2>1 DEF Publish
  <2>2. ASSUME NEW c \in Commands,
               Reject(c) \/ Submit(c) \/ Send(c) \/ Receive(c) \/ GiveUp(c) \/ Revoke(c)
                 \/ Check(c) \/ CheckFails(c) \/ Write(c) \/ Audit(c) \/ AuditFails(c) \/ Xack(c)
        PROVE  answered' = answered
    BY <2>2 DEF Reject, Submit, Send, Receive, GiveUp, Revoke, Check, CheckFails, Write, Audit,
                AuditFails, Xack
  <2>3. CASE Start \/ ReadPending \/ ReadNew \/ Crash \/ TimePasses \/ UNCHANGED vars
    BY <2>3 DEF Start, ReadPending, ReadNew, Crash, TimePasses, vars
  <2> QED BY <2>1, <2>2, <2>3 DEF Next, Request, Process, WriterStep
<1>2. HandledIsAnswered'
  <2> SUFFICES ASSUME NEW c \in Commands, Handled(c)' PROVE c \in answered'
    BY DEF HandledIsAnswered
  <2>1. CASE Handled(c)
    BY <1>1, <2>1 DEF AckedInv, HandledIsAnswered
  <2>2. CASE ~Handled(c)
    <3>1. Xack(c)
      BY <2>2, HandledSteps
    <3> QED BY <1>1, <3>1 DEF Xack, AckedInv
  <2> QED BY <2>1, <2>2
<1>3. ASSUME NEW c \in Commands, Current(c)', step' = "xack" PROVE c \in answered'
  <2>1. ASSUME NEW d \in Commands, Publish(d) PROVE c = d
    <3>1. Current(d) /\ UNCHANGED <<batch, id>>
      BY <2>1 DEF Publish
    <3>2. c \in batch /\ id[c] <= id[d] /\ id[d] <= id[c]
      BY <1>3, <3>1 DEF Current
    <3>3. id[c] \in Nat /\ id[d] \in Nat /\ id[c] # 0
      BY <3>2 DEF TypeOK, StreamInv
    <3> QED BY <3>2, <3>3 DEF StreamInv
  <2>2. ASSUME NEW d \in Commands,
               Xack(d) \/ Check(d) \/ CheckFails(d) \/ Write(d) \/ Audit(d) \/ AuditFails(d)
        PROVE  step' # "xack"
    BY <2>2 DEF Xack, Check, CheckFails, Write, Audit, AuditFails
  <2>3. CASE ReadPending \/ ReadNew \/ Crash
    <3>1. step' = "check"
      BY <2>3 DEF ReadPending, ReadNew, Crash, StreamInv
    <3> QED BY <1>3, <3>1
  <2>4. ASSUME NEW d \in Commands, Send(d) PROVE c \in answered
    <3>1. /\ UNCHANGED <<batch, step>> /\ id[d] = 0 /\ batch \subseteq pel
          /\ \A e \in Commands \ {d} : id'[e] = id[e]
      BY <2>4 DEF Send, StreamInv, TypeOK
    <3>2. d \notin batch
      BY <3>1 DEF StreamInv
    <3>3. Current(c)
      <4>1. c \in batch /\ \A e \in batch : id'[c] <= id'[e]
        BY <1>3, <3>1 DEF Current
      <4>2. \A e \in batch : id'[e] = id[e]
        BY <3>1, <3>2 DEF TypeOK
      <4> QED BY <4>1, <4>2 DEF Current
    <3> QED BY <1>3, <3>1, <3>3 DEF AckedInv
  <2>5. CASE UNCHANGED <<batch, step, id>>
    <3>1. Current(c) /\ step = "xack"
      BY <1>3, <2>5 DEF Current
    <3> QED BY <1>1, <3>1 DEF AckedInv
  <2>6. ASSUME NEW d \in Commands, Reject(d) \/ GiveUp(d) PROVE UNCHANGED <<batch, step, id>>
    BY <2>6 DEF Reject, GiveUp
  <2>7. CASE UNCHANGED position
    BY <2>5, <2>7 DEF position
  <2>8. \A d \in Commands : Publish(d) => d \in answered'
    BY DEF Publish
  <2> QED BY <1>1, <1>3, <2>1, <2>2, <2>3, <2>4, <2>5, <2>6, <2>7, <2>8, PositionSteps DEF Process
<1> QED BY <1>2, <1>3 DEF AckedInv

(* The result of every command the Writer is done with was published,      *)
(* through crashes, expiry, refusals and failed database calls: process    *)
(* acknowledges an entry only after its answer.                            *)
THEOREM HandledIsAnsweredHolds == Spec => []HandledIsAnswered
<1>1. Init => AckedInv
  BY DEF Init, AckedInv, HandledIsAnswered, Handled, Current
<1>2. AckedInv => HandledIsAnswered
  BY DEF AckedInv
<1> QED BY <1>1, <1>2, AckedStep, StreamInvHolds, WriteTypeCorrect, PTL DEF Spec

(* So a request never waits in vain: for a command the Writer is done      *)
(* with, its result is in the mailbox of the request as long as it waits.  *)
NobodyWaitsInVain ==
  \A c \in Commands : Handled(c) /\ client[c] = "waiting" => mailbox[c] # <<>>

THEOREM NobodyWaitsInVainHolds == Spec => []NobodyWaitsInVain
<1>1. HandledIsAnswered /\ NoResultMissed => NobodyWaitsInVain
  BY DEF HandledIsAnswered, NoResultMissed, NobodyWaitsInVain
<1> QED BY <1>1, HandledIsAnsweredHolds, ResultsNotMissed, PTL

-----------------------------------------------------------------------------
(* What is done with is left alone by every step. *)
LEMMA HandledStays ==
  ASSUME TypeOK, StreamInv, [Next]_vars, NEW c \in Commands, Handled(c)
  PROVE  /\ Handled(c)' /\ writes'[c] = writes[c]
         /\ "collector" \in audit'[c] => "collector" \in audit[c]
         /\ mailbox'[c] \in {mailbox[c], <<>>}
<1> USE DEF redis, environment, request, collector, effects
<1>1. /\ id[c] # 0 /\ id[c] <= lastId /\ c \notin pel /\ c \notin batch
      /\ id[c] \in Nat /\ lastId \in Nat /\ topId \in Nat
  BY DEF Handled, StreamInv, TypeOK
<1>2. Handled(c)'
  <2>1. ASSUME NEW d \in Commands, Send(d) PROVE Handled(c)'
    <3>1. d # c /\ id' = [id EXCEPT ![d] = topId + 1] /\ UNCHANGED <<lastId, pel>>
      BY <1>1, <2>1 DEF Send, StreamInv
    <3>2. id'[c] = id[c]
      BY <3>1 DEF TypeOK
    <3> QED BY <1>1, <3>1, <3>2 DEF Handled
  <2>2. ASSUME NEW d \in Commands, Xack(d) PROVE Handled(c)'
    BY <1>1, <2>2 DEF Xack, Handled
  <2>3. CASE ReadNew
    <3>1. PICK e \in batch' : lastId' = id[e]
      BY <2>3 DEF ReadNew
    <3>2. batch' \subseteq Undelivered /\ id' = id /\ pel' = pel \cup batch'
      BY <2>3 DEF ReadNew, First
    <3>3. lastId' > lastId /\ lastId' \in Nat /\ c \notin batch'
      BY <1>1, <3>1, <3>2 DEF Undelivered, Stream, TypeOK
    <3> QED BY <1>1, <3>2, <3>3 DEF Handled
  <2>4. CASE UNCHANGED <<id, lastId, pel>>
    BY <1>1, <2>4 DEF Handled
  <2>5. ASSUME NEW d \in Commands,
               Check(d) \/ CheckFails(d) \/ Write(d) \/ Audit(d) \/ AuditFails(d) \/ Publish(d)
                 \/ Reject(d) \/ GiveUp(d)
        PROVE  UNCHANGED <<id, lastId, pel>>
    BY <2>5 DEF Check, CheckFails, Write, Audit, AuditFails, Publish, Reject, GiveUp
  <2>6. CASE ReadPending \/ Crash
    BY <2>4, <2>6 DEF ReadPending, Crash
  <2>7. CASE UNCHANGED position
    BY <2>4, <2>7 DEF position
  <2> QED BY <2>1, <2>2, <2>3, <2>4, <2>5, <2>6, <2>7, PositionSteps DEF Process
<1>3. ASSUME NEW d \in Commands,
             Check(d) \/ CheckFails(d) \/ Audit(d) \/ AuditFails(d) \/ Xack(d) \/ Write(d)
               \/ Publish(d)
      PROVE  d # c
  BY <1>1, <1>3
     DEF Check, CheckFails, Audit, AuditFails, Xack, Write, Publish, Current
<1>4. ASSUME NEW d \in Commands, Reject(d) \/ GiveUp(d)
      PROVE  /\ writes' = writes
             /\ "collector" \in audit'[c] => "collector" \in audit[c]
             /\ mailbox'[c] \in {mailbox[c], <<>>}
  <2>1. audit' = audit \/ audit' = [audit EXCEPT ![d] = @ \cup {"api"}]
    BY <1>4 DEF Reject, GiveUp, Refuse
  <2>2. "collector" \in audit'[c] => "collector" \in audit[c]
    <3>1. audit'[c] = audit[c] \/ audit'[c] = audit[c] \cup {"api"}
      BY <2>1 DEF TypeOK
    <3>2. "collector" \notin {"api"}
      OBVIOUS
    <3> QED BY <3>1, <3>2
  <2>3. mailbox' = mailbox \/ mailbox' = [mailbox EXCEPT ![d] = <<>>]
    BY <1>4 DEF Reject, GiveUp
  <2>4. mailbox'[c] \in {mailbox[c], <<>>}
    BY <2>3 DEF TypeOK
  <2> QED BY <1>4, <2>2, <2>4 DEF Reject, GiveUp
<1>5. ASSUME NEW d \in Commands, Submit(d) \/ Send(d) \/ Receive(d) \/ Revoke(d)
      PROVE  /\ writes' = writes /\ audit' = audit
             /\ mailbox'[c] \in {mailbox[c], <<>>}
  BY <1>5 DEF Submit, Send, Receive, Revoke, TypeOK
<1>6. ASSUME NEW d \in Commands, Process(d) \/ CheckFails(d) \/ AuditFails(d)
      PROVE  /\ writes'[c] = writes[c] /\ audit'[c] = audit[c] /\ mailbox'[c] = mailbox[c]
  <2>1. d # c
    BY <1>3, <1>6 DEF Process
  <2>2. CASE Write(d)
    BY <2>1, <2>2 DEF Write, TypeOK
  <2>3. CASE Audit(d)
    BY <2>1, <2>3 DEF Audit, TypeOK
  <2>4. CASE Publish(d)
    BY <2>1, <2>4 DEF Publish, TypeOK
  <2>5. CASE Check(d) \/ CheckFails(d) \/ AuditFails(d) \/ Xack(d)
    BY <2>5 DEF Check, CheckFails, AuditFails, Xack
  <2> QED BY <1>6, <2>2, <2>3, <2>4, <2>5 DEF Process
<1>7. ASSUME Start \/ ReadPending \/ ReadNew \/ Crash \/ TimePasses \/ UNCHANGED vars
      PROVE  UNCHANGED <<writes, audit, mailbox>>
  BY <1>7 DEF Start, ReadPending, ReadNew, Crash, TimePasses, vars
<1>8. /\ writes'[c] = writes[c]
      /\ "collector" \in audit'[c] => "collector" \in audit[c]
      /\ mailbox'[c] \in {mailbox[c], <<>>}
  BY <1>4, <1>5, <1>6, <1>7 DEF Next, Request, WriterStep
<1> QED BY <1>2, <1>8

(* An entry that is done with stays so: it is not read, executed, traced   *)
(* or answered again, whatever crashes and restarts follow (XACK, the      *)
(* pending entries read again).                                            *)
HandledForGood ==
  [][\A c \in Commands : Handled(c) =>
       /\ Handled(c)' /\ writes'[c] = writes[c]
       /\ "collector" \in audit'[c] => "collector" \in audit[c]
       /\ mailbox'[c] \in {mailbox[c], <<>>}]_vars

THEOREM HandledForGoodHolds == Spec => HandledForGood
<1>1. TypeOK /\ StreamInv /\ [Next]_vars
        => [\A c \in Commands : Handled(c) =>
              /\ Handled(c)' /\ writes'[c] = writes[c]
              /\ "collector" \in audit'[c] => "collector" \in audit[c]
              /\ mailbox'[c] \in {mailbox[c], <<>>}]_vars
  BY HandledStays
<1> QED BY <1>1, StreamInvHolds, WriteTypeCorrect, PTL DEF Spec, HandledForGood

-----------------------------------------------------------------------------
(* A set of numbers that is not empty has a least one. *)
LEMMA LeastNumber ==
  ASSUME NEW S \in SUBSET Nat, S # {}
  PROVE  \E m \in S : \A n \in S : m <= n
<1> DEFINE Less == {p \in Nat \X Nat : p[1] < p[2]}
<1>1. IsWellFoundedOn(Less, Nat)
  BY NatLessThanWellFounded, Zenon DEF OpToRel
<1>2. \A m, n \in Nat : n < m => <<n, m>> \in Less
  OBVIOUS
<1> HIDE DEF Less
<1>3. PICK m \in S : \A n \in S : ~(<<n, m>> \in Less)
  BY <1>1, WFMin
<1>4. \A n \in S : ~(n < m)
  BY <1>2, <1>3
<1> QED BY <1>4

(* Among commands of the stream one is the first, and one the last.        *)
LEMMA FirstAndLast ==
  ASSUME TypeOK, NEW T \in SUBSET Commands, T # {}
  PROVE  /\ \E c \in T : \A d \in T : id[c] <= id[d]
         /\ \E c \in T : \A d \in T : id[d] <= id[c]
<1>1. topId \in Nat /\ \A c \in T : id[c] \in 0..topId
  BY DEF TypeOK
<1>2. \E c \in T : \A d \in T : id[c] <= id[d]
  <2>1. {id[c] : c \in T} \in SUBSET Nat /\ {id[c] : c \in T} # {}
    BY <1>1
  <2>2. PICK m \in {id[c] : c \in T} : \A n \in {id[c] : c \in T} : m <= n
    BY <2>1, LeastNumber
  <2> QED BY <2>2
<1>3. \E c \in T : \A d \in T : id[d] <= id[c]
  <2>1. /\ {topId - id[c] : c \in T} \in SUBSET Nat /\ {topId - id[c] : c \in T} # {}
    BY <1>1
  <2>2. PICK m \in {topId - id[c] : c \in T} : \A n \in {topId - id[c] : c \in T} : m <= n
    BY <2>1, LeastNumber
  <2>3. PICK c \in T : m = topId - id[c]
    BY <2>2
  <2>4. \A d \in T : topId - id[c] <= topId - id[d]
    BY <2>2, <2>3
  <2> QED BY <1>1, <2>3, <2>4
<1> QED BY <1>2, <1>3

(* The guards of the steps of the Writer: start, read again, read new      *)
(* entries, process the first of the batch.                                *)
WriterCanStep ==
  \/ cursor = "down"
  \/ cursor = "0" /\ batch = {}
  \/ /\ cursor = ">" /\ batch = {} /\ Undelivered # {}
     /\ \E c \in First(Undelivered) : \A d \in First(Undelivered) : id[d] <= id[c]
  \/ \E c \in Commands : Current(c)

(* While an entry of the stream is not handled the Writer has a step: it   *)
(* never waits for a new entry, a batch or itself and leaves one behind.   *)
WriterNeverStuck == (\E c \in Stream : ~Handled(c)) => WriterCanStep

THEOREM WriterNeverStuckHolds == Spec => []WriterNeverStuck
<1>1. TypeOK /\ StreamInv => WriterNeverStuck
  <2> SUFFICES ASSUME TypeOK, StreamInv, NEW c \in Stream, ~Handled(c)
               PROVE  WriterCanStep
    BY DEF WriterNeverStuck
  <2>1. c \in Commands /\ (c \in pel \/ c \in Undelivered)
    BY DEF Stream, Handled, Undelivered, TypeOK
  <2>2. CASE batch # {}
    <3>1. batch \in SUBSET Commands
      BY DEF TypeOK
    <3> QED BY <2>2, <3>1, FirstAndLast DEF WriterCanStep, Current
  <2>3. CASE batch = {} /\ cursor # ">"
    BY <2>3 DEF WriterCanStep, TypeOK
  <2>4. CASE batch = {} /\ cursor = ">"
    <3>1. Undelivered # {} /\ Undelivered \in SUBSET Commands
      BY <2>1, <2>4 DEF StreamInv, Undelivered, Stream
    <3>2. PICK e \in Undelivered : \A d \in Undelivered : id[e] <= id[d]
      BY <3>1, FirstAndLast
    <3>3. {d \in Undelivered : id[d] < id[e]} = {}
      <4>1. \A d \in Undelivered : id[d] \in Nat
        BY <3>1 DEF TypeOK
      <4> QED BY <3>2, <4>1
    <3>4. e \in First(Undelivered)
      <4>1. Cardinality({d \in Undelivered : id[d] < id[e]}) = 0
        BY <3>3, FS_EmptySet
      <4> QED BY <4>1, WriteAssumption DEF First
    <3>5. First(Undelivered) # {} /\ First(Undelivered) \in SUBSET Commands
      BY <3>1, <3>4 DEF First
    <3>6. \E f \in First(Undelivered) : \A d \in First(Undelivered) : id[d] <= id[f]
      BY <3>5, FirstAndLast
    <3> QED BY <2>4, <3>1, <3>6 DEF WriterCanStep
  <2> QED BY <2>2, <2>3, <2>4
<1> QED BY <1>1, StreamInvHolds, WriteTypeCorrect, PTL

-----------------------------------------------------------------------------
(* The write path implements SetPoints.  Only what was published can be    *)
(* received.                                                               *)
MailInv == \A c \in Commands : mailbox[c] # <<>> \/ client[c] = "ok" => c \in answered

LEMMA MailStep == TypeOK /\ MailInv /\ [Next]_vars => MailInv'
<1> SUFFICES ASSUME TypeOK, MailInv, [Next]_vars, NEW c \in Commands,
                    mailbox'[c] # <<>> \/ client'[c] = "ok"
             PROVE  c \in answered'
  BY DEF MailInv
<1> USE DEF environment, request, redis, collector, effects
<1>1. answered \subseteq answered'
  BY DEF Next, Request, WriterStep, Process, Reject, Refuse, Submit, Send, Receive, GiveUp,
         Start, ReadPending, ReadNew, Check, CheckFails, Write, Audit, AuditFails, Publish, Xack,
         Crash, Revoke, TimePasses, vars
<1>2. CASE UNCHANGED <<client, mailbox>>
  BY <1>1, <1>2 DEF MailInv
<1>3. ASSUME NEW d \in Commands, Reject(d) \/ Submit(d) \/ Send(d) \/ GiveUp(d)
      PROVE  /\ client'[c] = "ok" => client[c] = "ok"
             /\ mailbox'[c] # <<>> => mailbox[c] # <<>>
  <2>1. CASE Reject(d) \/ GiveUp(d)
    <3>1. \/ \E a \in {"refused", "timeout", "failed"} : client' = [client EXCEPT ![d] = a]
      BY <2>1 DEF Reject, GiveUp, Refuse
    <3>2. mailbox' = mailbox \/ mailbox' = [mailbox EXCEPT ![d] = <<>>]
      BY <2>1 DEF Reject, GiveUp
    <3>3. client'[c] = "ok" => client[c] = "ok"
      BY <3>1 DEF TypeOK
    <3>4. mailbox'[c] # <<>> => mailbox[c] # <<>>
      BY <3>2 DEF TypeOK
    <3> QED BY <3>3, <3>4
  <2>2. CASE Submit(d) \/ Send(d)
    BY <2>2 DEF Submit, Send, TypeOK
  <2> QED BY <1>3, <2>1, <2>2
<1>4. ASSUME NEW d \in Commands, Receive(d) PROVE c \in answered
  <2>1. d \in answered
    BY <1>4 DEF Receive, MailInv
  <2>2. c # d => client'[c] = client[c] /\ mailbox'[c] = mailbox[c]
    BY <1>4 DEF Receive, TypeOK
  <2> QED BY <2>1, <2>2 DEF MailInv
<1>5. ASSUME NEW d \in Commands, Publish(d) PROVE c \in answered'
  <2>1. d \in answered' /\ client' = client
    BY <1>5 DEF Publish
  <2>2. c # d => mailbox'[c] = mailbox[c]
    BY <1>5 DEF Publish, TypeOK
  <2> QED BY <1>1, <2>1, <2>2 DEF MailInv
<1>6. ASSUME NEW d \in Commands,
             Check(d) \/ CheckFails(d) \/ Write(d) \/ Audit(d) \/ AuditFails(d) \/ Xack(d)
               \/ Revoke(d)
      PROVE  UNCHANGED <<client, mailbox>>
  BY <1>6 DEF Check, CheckFails, Write, Audit, AuditFails, Xack, Revoke
<1>7. CASE Start \/ ReadPending \/ ReadNew \/ Crash \/ TimePasses \/ UNCHANGED vars
  <2>1. UNCHANGED <<client, mailbox>>
    BY <1>7 DEF Start, ReadPending, ReadNew, Crash, TimePasses, vars
  <2> QED BY <1>2, <2>1
<1>8. \A d \in Commands : Reject(d) \/ Submit(d) \/ Send(d) \/ GiveUp(d) => c \in answered'
  BY <1>1, <1>3 DEF MailInv
<1> QED BY <1>1, <1>2, <1>4, <1>5, <1>6, <1>7, <1>8 DEF Next, Request, WriterStep, Process

(* The entry being processed is the first that is not done with. *)
LEMMA TurnOfCurrent ==
  ASSUME TypeOK, StreamInv, NEW c \in Commands, Current(c)
  PROVE  Promised!Turn(c)
<1>1. /\ c \in pel /\ id[c] # 0 /\ id[c] <= lastId
      /\ \A d \in pel : id[c] <= id[d]
  BY CurrentIsFirst DEF StreamInv
<1>2. c \notin Settled
  BY <1>1 DEF Settled, Handled
<1>3. ASSUME NEW d \in Commands, id[d] # 0, id[d] < id[c] PROVE d \in Settled
  <2>1. id[d] \in Nat /\ id[c] \in Nat /\ lastId \in Nat
    BY DEF TypeOK
  <2>2. d \notin pel /\ id[d] <= lastId
    BY <1>1, <1>3, <2>1
  <2> QED BY <1>3, <2>2 DEF Settled, Handled
<1> QED BY <1>1, <1>2, <1>3 DEF Promised!Turn

(* What the steps leave as it is in SetPoints. *)
LEMMA SettledFrame == ASSUME UNCHANGED redis PROVE UNCHANGED Settled
BY DEF redis, Settled, Handled

LEMMA SettledSteps ==
  ASSUME TypeOK, StreamInv, [Next]_vars, pel \subseteq pel'
  PROVE  UNCHANGED Settled
<1>1. Settled \subseteq Settled'
  BY HandledStays DEF Settled
<1>2. ASSUME NEW c \in Commands, Handled(c)', ~Handled(c) PROVE FALSE
  <2>1. Xack(c)
    BY <1>2, HandledSteps
  <2>2. c \in pel /\ c \notin pel'
    BY <2>1 DEF Xack, Current, StreamInv
  <2> QED BY <2>2
<1> QED BY <1>1, <1>2 DEF Settled

LEMMA PromiseStep ==
  ASSUME TypeOK, StreamInv, AnswerInv, AckedInv, MailInv, [Next]_vars
  PROVE  [Promised!Next]_Promised!vars
<1> USE DEF environment, request, redis, collector, effects
<1>1. CASE UNCHANGED <<id, writes, Traced, answered, Settled, Confirmed>>
  BY <1>1 DEF Promised!vars
<1>2. ASSUME NEW c \in Commands, Send(c) PROVE Promised!Enqueue(c)
  <2>1. /\ id[c] = 0 /\ id' = [id EXCEPT ![c] = topId + 1]
        /\ UNCHANGED <<writes, audit, answered, pel>>
    BY <1>2 DEF Send, StreamInv
  <2>2. id'[c] = topId + 1 /\ topId \in Nat /\ \A d \in Commands : id[d] \in 0..topId
    BY <2>1 DEF TypeOK
  <2>3. UNCHANGED Settled
    BY <2>1, SettledSteps
  <2>4. UNCHANGED Traced
    BY <2>1 DEF Traced
  <2>5. UNCHANGED Confirmed
    BY <1>2 DEF Send, Confirmed, TypeOK
  <2>6. \A d \in Commands : id[d] < id'[c]
    BY <2>2
  <2> QED BY <2>1, <2>2, <2>3, <2>4, <2>5, <2>6 DEF Promised!Enqueue
<1>3. ASSUME NEW c \in Commands, Write(c)
      PROVE  Promised!Execute(c) \/ UNCHANGED <<id, writes, Traced, answered, Settled, Confirmed>>
  <2>1. UNCHANGED <<Traced, Settled, Confirmed>>
    BY <1>3, SettledFrame DEF Write, Traced, Confirmed
  <2>2. Promised!Turn(c)
    BY <1>3, TurnOfCurrent DEF Write
  <2>3. /\ UNCHANGED <<id, answered>>
        /\ writes' = [writes EXCEPT ![c] = @ + 1] \/ writes' = writes
    BY <1>3 DEF Write
  <2> QED BY <2>1, <2>2, <2>3 DEF Promised!Execute
<1>4. ASSUME NEW c \in Commands, Audit(c) PROVE Promised!Trace(c)
  <2>1. UNCHANGED <<id, writes, answered, Settled, Confirmed>>
    BY <1>4, SettledFrame DEF Audit, Confirmed
  <2>2. Promised!Turn(c)
    BY <1>4, TurnOfCurrent DEF Audit
  <2>3. audit' = [audit EXCEPT ![c] = @ \cup {"collector"}]
    BY <1>4 DEF Audit
  <2>4. Traced' = Traced \cup {c}
    BY <2>3 DEF Traced, TypeOK
  <2> QED BY <2>1, <2>2, <2>4 DEF Promised!Trace
<1>5. ASSUME NEW c \in Commands, Publish(c) PROVE Promised!Answer(c)
  <2>1. UNCHANGED <<id, writes, Traced, Settled, Confirmed>>
    BY <1>5, SettledFrame DEF Publish, Traced, Confirmed
  <2>2. Promised!Turn(c)
    BY <1>5, TurnOfCurrent DEF Publish
  <2>3. answered' = answered \cup {c}
    BY <1>5 DEF Publish
  <2> QED BY <2>1, <2>2, <2>3 DEF Promised!Answer
<1>6. ASSUME NEW c \in Commands, Xack(c) PROVE Promised!Settle(c)
  <2>1. UNCHANGED <<id, writes, answered, Traced, Confirmed>> /\ lastId' = lastId
        /\ pel' = pel \ {c}
    BY <1>6 DEF Xack, Traced, Confirmed
  <2>2. Promised!Turn(c)
    BY <1>6, TurnOfCurrent DEF Xack
  <2>3. id[c] # 0 /\ id[c] <= lastId
    BY <1>6 DEF Xack, Current, StreamInv
  <2>4. Settled' = Settled \cup {c}
    BY <2>1, <2>3 DEF Settled, Handled
  <2>5. c \in answered
    BY <1>6 DEF Xack, AckedInv
  <2> QED BY <2>1, <2>2, <2>4, <2>5 DEF Promised!Settle
<1>7. ASSUME NEW c \in Commands, Receive(c)
      PROVE  Promised!Confirm(c) \/ UNCHANGED <<id, writes, Traced, answered, Settled, Confirmed>>
  <2>1. UNCHANGED <<id, writes, answered, Traced, Settled>>
    BY <1>7, SettledFrame DEF Receive, Traced
  <2>2. /\ client[c] = "waiting" /\ mailbox[c] # <<>> /\ mailbox[c] \in Seq({"ok", "error"})
        /\ client' = [client EXCEPT ![c] = Head(mailbox[c])]
    BY <1>7 DEF Receive, TypeOK
  <2>3. c \in answered
    BY <2>2 DEF MailInv
  <2>4. CASE Head(mailbox[c]) = "ok"
    <3>1. 1 \in 1..Len(mailbox[c]) /\ mailbox[c][1] = "ok"
      BY <2>2, <2>4
    <3>2. writes[c] > 0 /\ c \in Traced
      BY <3>1 DEF AnswerInv, Done, Traced
    <3>3. Confirmed' = Confirmed \cup {c}
      BY <2>2, <2>4 DEF Confirmed, TypeOK
    <3> QED BY <2>1, <2>3, <3>2, <3>3 DEF Promised!Confirm
  <2>5. CASE Head(mailbox[c]) # "ok"
    <3>1. UNCHANGED Confirmed
      BY <2>2, <2>5 DEF Confirmed, TypeOK
    <3> QED BY <2>1, <3>1
  <2> QED BY <2>4, <2>5
<1>8. ASSUME NEW c \in Commands, Reject(c) \/ GiveUp(c)
      PROVE  UNCHANGED <<id, writes, Traced, answered, Settled, Confirmed>>
  <2>1. UNCHANGED <<id, writes, answered, Settled>>
    BY <1>8, SettledFrame DEF Reject, GiveUp
  <2>2. audit' = audit \/ audit' = [audit EXCEPT ![c] = @ \cup {"api"}]
    BY <1>8 DEF Reject, GiveUp, Refuse
  <2>3. "collector" \notin {"api"}
    OBVIOUS
  <2>4. UNCHANGED Traced
    BY <2>2, <2>3 DEF Traced, TypeOK
  <2>5. client[c] # "ok"
        /\ \E a \in {"refused", "timeout", "failed"} : client' = [client EXCEPT ![c] = a]
    BY <1>8 DEF Reject, GiveUp, Refuse
  <2>6. UNCHANGED Confirmed
    BY <2>5 DEF Confirmed, TypeOK
  <2> QED BY <2>1, <2>4, <2>6
<1>9. ASSUME NEW c \in Commands, Submit(c)
      PROVE  UNCHANGED <<id, writes, Traced, answered, Settled, Confirmed>>
  <2>1. UNCHANGED <<id, writes, answered, Traced, Settled>>
    BY <1>9, SettledFrame DEF Submit, Traced
  <2>2. UNCHANGED Confirmed
    BY <1>9 DEF Submit, Confirmed, TypeOK
  <2> QED BY <2>1, <2>2
<1>10. ASSUME NEW c \in Commands, Check(c) \/ CheckFails(c) \/ AuditFails(c) \/ Revoke(c)
       PROVE  UNCHANGED <<redis, writes, audit, answered, client>>
  BY <1>10 DEF Check, CheckFails, AuditFails, Revoke
<1>11. ASSUME Start \/ ReadPending \/ Crash \/ TimePasses \/ UNCHANGED vars
       PROVE  UNCHANGED <<redis, writes, audit, answered, client>>
  BY <1>11 DEF Start, ReadPending, Crash, TimePasses, vars
<1>12. UNCHANGED <<redis, writes, audit, answered, client>>
         => UNCHANGED <<id, writes, Traced, answered, Settled, Confirmed>>
  BY SettledFrame DEF Traced, Confirmed
<1>13. ReadNew => UNCHANGED <<id, writes, Traced, answered, Settled, Confirmed>>
  <2> SUFFICES ASSUME ReadNew
               PROVE  UNCHANGED <<id, writes, Traced, answered, Settled, Confirmed>>
    OBVIOUS
  <2>1. pel \subseteq pel' /\ UNCHANGED <<id, writes, audit, answered, client>>
    BY DEF ReadNew
  <2>2. UNCHANGED Settled
    BY <2>1, SettledSteps
  <2> QED BY <2>1, <2>2 DEF Traced, Confirmed
<1>14. \A c \in Commands :
         \/ Promised!Enqueue(c) \/ Promised!Execute(c) \/ Promised!Trace(c) \/ Promised!Answer(c)
         \/ Promised!Settle(c) \/ Promised!Confirm(c)
         => Promised!Next
  BY DEF Promised!Next
<1>15. \A c \in Commands : Request(c) \/ Process(c) \/ CheckFails(c) \/ AuditFails(c) \/ Revoke(c)
         => Promised!Next \/ UNCHANGED <<id, writes, Traced, answered, Settled, Confirmed>>
  BY <1>2, <1>3, <1>4, <1>5, <1>6, <1>7, <1>8, <1>9, <1>10, <1>12, <1>14, Zenon
     DEF Request, Process
<1> QED BY <1>1, <1>11, <1>12, <1>13, <1>15 DEF Next, WriterStep

(* The write path keeps the promise of SetPoints, through any number of    *)
(* crashes, expiries, refusals and failed calls: commands are served in    *)
(* the order of the stream, none again once it is done with, and a 200 is  *)
(* true (write_point, send_and_wait, Writer.run and process).              *)
THEOREM WritesImplementSetPoints == Spec => ImplementsSetPoints
<1>1. Init => Promised!Init
  BY DEF Init, Promised!Init, Traced, Settled, Handled, Confirmed
<1>2. Init => AnswerInv /\ AckedInv /\ MailInv
  BY DEF Init, AnswerInv, AckedInv, MailInv, HandledIsAnswered, Handled, Current
<1>3. TypeOK /\ StreamInv /\ AnswerInv /\ AckedInv /\ MailInv /\ [Next]_vars
        => [Promised!Next]_Promised!vars
  BY PromiseStep
<1> QED BY <1>1, <1>2, <1>3, AnswerStep, AckedStep, MailStep, StreamInvHolds, WriteTypeCorrect, PTL
        DEF Spec, ImplementsSetPoints, Promised!Spec

=============================================================================

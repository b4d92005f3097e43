---------------------------- MODULE WriteCommands ----------------------------
(***************************************************************************)
(* A set-point write, from the API to the controller: the API request      *)
(* (api/routes/write.py, api/commands.py), the Redis stream cmd.write with *)
(* its consumer group, the collector's Writer (collector/writer.py), the   *)
(* device, the audit log, and the result channel back.                     *)
(*                                                                         *)
(* A command has one stream entry.  The Writer takes entries by batches    *)
(* and one at a time; it awaits between the check, the BACnet write, the   *)
(* audit, the publication and the XACK, so each is a step of its own.      *)
(***************************************************************************)
EXTENDS Integers, Sequences, FiniteSets

CONSTANTS
  Commands,      \* command ids (bounds the number of requests)
  WriteTimeout,  \* settings.write_timeout_s
  MaxAge,        \* MAX_COMMAND_AGE_S
  Count,         \* count of XREADGROUP
  MaxTime,       \* bound on the clock
  Faults,        \* the faults that may happen
  MaxFaults      \* bound on their number

FaultKinds == {"db", "crash"}

ASSUME WriteAssumption ==
  /\ WriteTimeout \in Nat /\ MaxAge \in Nat /\ Count \in Nat \ {0}
  /\ MaxTime \in Nat /\ MaxFaults \in Nat
  /\ Faults \subseteq FaultKinds
  /\ IsFiniteSet(Commands)

VARIABLES
  now, faults, crashes,
  allowed,   \* would the role, the point and the limits let the command through
  (* API *)
  client,    \* state of the HTTP request
  issued,    \* issued_at of the command
  deadline,  \* of send_and_wait
  mailbox,   \* results received by the subscription of the request
  (* Redis *)
  id,        \* stream id of the entry of each command, 0 before XADD
  topId,     \* last id XADD generated
  lastId,    \* last-delivered-id of the consumer group
  pel,       \* entries delivered and not acknowledged
  (* collector *)
  cursor,    \* "down", "0" (own pending entries), ">" (new entries)
  batch,     \* entries of the last XREADGROUP still to be processed
  step,      \* of process() on the first of them
  verdict,   \* WriteResult.ok of that entry
  (* world and history *)
  writes,    \* how often the device executed the command
  audit,     \* who traced the command in audit_log
  answered   \* commands whose result was published

environment == <<allowed, faults, crashes>>
request == <<client, issued, deadline>>
redis == <<id, topId, lastId, pel>>
collector == <<cursor, batch, step, verdict>>
effects == <<writes, audit, answered>>
vars == <<now, environment, request, mailbox, redis, collector, effects>>

ClientStates ==
  {"idle", "subscribed", "waiting", "ok", "error", "refused", "timeout", "failed"}
Steps == {"check", "write", "audit", "publish", "xack"}

Fault(kind) ==
  /\ kind \in Faults
  /\ faults < MaxFaults
  /\ faults' = faults + 1

Stream == {c \in Commands : id[c] # 0}

(* The entries of S with the smallest ids, as one XREADGROUP returns them. *)
First(S) == {c \in S : Cardinality({d \in S : id[d] < id[c]}) < Count}

(* Mutant of Current: the batch is taken from its end. *)
CurrentFromEnd(c) == c \in batch /\ \A d \in batch : id[c] >= id[d]

(* The entry being processed: the batch is taken in the order of the ids. *)
Current(c) == c \in batch /\ \A d \in batch : id[c] <= id[d]

Init ==
  /\ now = 0 /\ faults = 0 /\ crashes = 0
  /\ allowed \in [Commands -> BOOLEAN]
  /\ client = [c \in Commands |-> "idle"]
  /\ issued = [c \in Commands |-> 0]
  /\ deadline = [c \in Commands |-> 0]
  /\ mailbox = [c \in Commands |-> <<>>]
  /\ id = [c \in Commands |-> 0]
  /\ topId = 0 /\ lastId = 0
  /\ pel = {}
  /\ cursor = "down"
  /\ batch = {}
  /\ step = "check"
  /\ verdict = "error"
  /\ writes = [c \in Commands |-> 0]
  /\ audit = [c \in Commands |-> {}]
  /\ answered = {}

-----------------------------------------------------------------------------
(* The request *)

(* refuse(): the API traces its own refusals; a failed commit is a 500. *)
Refuse(c, answer) ==
  \/ /\ client' = [client EXCEPT ![c] = answer]
     /\ audit' = [audit EXCEPT ![c] = @ \cup {"api"}]
     /\ UNCHANGED faults
  \/ /\ Fault("db")
     /\ client' = [client EXCEPT ![c] = "failed"]
     /\ UNCHANGED audit

(* write_point checks the request, ... *)
Reject(c) ==
  /\ client[c] = "idle"
  /\ ~allowed[c]
  /\ Refuse(c, "refused")
  /\ UNCHANGED <<now, allowed, crashes, issued, deadline, mailbox, redis, collector,
                 writes, answered>>

(* ... builds the command and subscribes to its result channel, *)
Submit(c) ==
  /\ client[c] = "idle"
  /\ allowed[c]
  /\ client' = [client EXCEPT ![c] = "subscribed"]
  /\ issued' = [issued EXCEPT ![c] = now]
  /\ UNCHANGED <<now, environment, deadline, mailbox, redis, collector, effects>>

(* ... then appends it to the stream. *)
Send(c) ==
  /\ client[c] = "subscribed"
  /\ client' = [client EXCEPT ![c] = "waiting"]
  /\ deadline' = [deadline EXCEPT ![c] = now + WriteTimeout]
  /\ topId' = topId + 1
  /\ id' = [id EXCEPT ![c] = topId']
  /\ UNCHANGED <<now, environment, issued, mailbox, lastId, pel, collector, effects>>

Receive(c) ==
  /\ client[c] = "waiting"
  /\ mailbox[c] # <<>>
  /\ client' = [client EXCEPT ![c] = Head(mailbox[c])]
  /\ mailbox' = [mailbox EXCEPT ![c] = <<>>]
  /\ UNCHANGED <<now, environment, issued, deadline, redis, collector, effects>>

(* send_and_wait returns None: 504, and the subscription is closed. *)
GiveUp(c) ==
  /\ client[c] = "waiting"
  /\ now >= deadline[c]
  /\ Refuse(c, "timeout")
  /\ mailbox' = [mailbox EXCEPT ![c] = <<>>]
  /\ UNCHANGED <<now, allowed, crashes, issued, deadline, redis, collector,
                 writes, answered>>

-----------------------------------------------------------------------------
(* Writer.run *)

(* Mutant of Start: the Writer only reads new entries. *)
StartWithNew ==
  /\ cursor = "down"
  /\ cursor' = ">"
  /\ UNCHANGED <<now, environment, request, mailbox, redis, batch, step, verdict, effects>>

Start ==
  /\ cursor = "down"
  /\ cursor' = "0"
  /\ UNCHANGED <<now, environment, request, mailbox, redis, batch, step, verdict, effects>>

(* XREADGROUP with cursor 0: the entries delivered before the restart; none*)
(* left, the Writer goes on with the new ones.                             *)
ReadPending ==
  /\ cursor = "0"
  /\ batch = {}
  /\ batch' = First(pel)
  /\ cursor' = IF pel = {} THEN ">" ELSE "0"
  /\ UNCHANGED <<now, environment, request, mailbox, redis, step, verdict, effects>>

Undelivered == {c \in Stream : id[c] > lastId}

(* Mutant of ReadNew: the group does not advance. *)
ReadNewRepeats ==
  /\ cursor = ">" /\ batch = {} /\ Undelivered # {}
  /\ batch' = First(Undelivered)
  /\ pel' = pel \cup batch'
  /\ UNCHANGED <<now, environment, request, mailbox, id, topId, lastId, cursor, step,
                 verdict, effects>>

ReadNew ==
  /\ cursor = ">"
  /\ batch = {}
  /\ Undelivered # {}
  /\ batch' = First(Undelivered)
  /\ pel' = pel \cup batch'
  /\ \E c \in batch' : lastId' = id[c] /\ \A d \in batch' : id[d] <= id[c]
  /\ UNCHANGED <<now, environment, request, mailbox, id, topId, cursor, step, verdict, effects>>

(* Mutant of Check: a refusal is not traced. *)
CheckUntraced(c) ==
  /\ Current(c)
  /\ step = "check"
  /\ step' = IF now - issued[c] <= MaxAge /\ allowed[c] THEN "write" ELSE "publish"
  /\ verdict' = "error"
  /\ UNCHANGED <<now, environment, request, mailbox, redis, cursor, batch, effects>>

(* execute() up to the decision: an expired or refused command is not      *)
(* written.                                                                *)
Check(c) ==
  /\ Current(c)
  /\ step = "check"
  /\ step' = IF now - issued[c] <= MaxAge /\ allowed[c] THEN "write" ELSE "audit"
  /\ verdict' = "error"
  /\ UNCHANGED <<now, environment, request, mailbox, redis, cursor, batch, effects>>

(* Mutant of CheckFails: the entry is acknowledged without an answer. *)
CheckFailsUnanswered(c) ==
  /\ Current(c)
  /\ step = "check"
  /\ Fault("db")
  /\ step' = "xack"
  /\ verdict' = "error"
  /\ UNCHANGED <<now, allowed, crashes, request, mailbox, redis, cursor, batch, effects>>

(* get_write_target or get_user_role raises: "commande invalide". *)
CheckFails(c) ==
  /\ Current(c)
  /\ step = "check"
  /\ Fault("db")
  /\ step' = "publish"
  /\ verdict' = "error"
  /\ UNCHANGED <<now, allowed, crashes, request, mailbox, redis, cursor, batch, effects>>

(* driver.write: the device obeys, refuses, or its answer is lost, obeyed  *)
(* or not.                                                                 *)
Write(c) ==
  /\ Current(c)
  /\ step = "write"
  /\ \E done \in BOOLEAN, reply \in {"ok", "error"} :
       /\ reply = "ok" => done
       /\ writes' = IF done THEN [writes EXCEPT ![c] = @ + 1] ELSE writes
       /\ verdict' = reply
  /\ step' = "audit"
  /\ UNCHANGED <<now, environment, request, mailbox, redis, cursor, batch, audit, answered>>

Audit(c) ==
  /\ Current(c)
  /\ step = "audit"
  /\ audit' = [audit EXCEPT ![c] = @ \cup {"collector"}]
  /\ step' = "publish"
  /\ UNCHANGED <<now, environment, request, mailbox, redis, cursor, batch, verdict,
                 writes, answered>>

(* Mutant of AuditFails: the failure of the audit is swallowed. *)
AuditSwallowed(c) ==
  /\ Current(c)
  /\ step = "audit"
  /\ Fault("db")
  /\ step' = "publish"
  /\ UNCHANGED <<now, allowed, crashes, request, mailbox, redis, cursor, batch, verdict,
                 effects>>

(* add_audit raises: the result becomes an error, whatever was written. *)
AuditFails(c) ==
  /\ Current(c)
  /\ step = "audit"
  /\ Fault("db")
  /\ step' = "publish"
  /\ verdict' = "error"
  /\ UNCHANGED <<now, allowed, crashes, request, mailbox, redis, cursor, batch, effects>>

(* Mutant of Subscribed: the request subscribes after XADD. *)
SubscribedAfterSend(c) == client[c] = "waiting" /\ now > deadline[c] - WriteTimeout

Subscribed(c) == client[c] \in {"subscribed", "waiting"}

(* The result goes to whoever is subscribed to the channel of the command. *)
Publish(c) ==
  /\ Current(c)
  /\ step = "publish"
  /\ mailbox' = IF Subscribed(c)
                THEN [mailbox EXCEPT ![c] = Append(@, verdict)]
                ELSE mailbox
  /\ answered' = answered \cup {c}
  /\ step' = "xack"
  /\ UNCHANGED <<now, environment, request, redis, cursor, batch, verdict, writes, audit>>

Xack(c) ==
  /\ Current(c)
  /\ step = "xack"
  /\ pel' = pel \ {c}
  /\ batch' = batch \ {c}
  /\ step' = "check"
  /\ UNCHANGED <<now, environment, request, mailbox, id, topId, lastId, cursor,
                 verdict, effects>>

(* The collector stops anywhere: a task fails (Redis), or the container    *)
(* does.  Docker restarts it.                                              *)
Crash ==
  /\ cursor # "down"
  /\ Fault("crash")
  /\ crashes' = crashes + 1
  /\ cursor' = "down"
  /\ batch' = {}
  /\ step' = "check"
  /\ UNCHANGED <<now, allowed, request, mailbox, redis, verdict, effects>>

-----------------------------------------------------------------------------
(* An administrator takes a right away, or the settings of the point no    *)
(* longer allow the value.                                                 *)
Revoke(c) ==
  /\ allowed[c]
  /\ allowed' = [allowed EXCEPT ![c] = FALSE]
  /\ UNCHANGED <<now, faults, crashes, request, mailbox, redis, collector, effects>>

TimePasses ==
  /\ now < MaxTime
  /\ now' = now + 1
  /\ UNCHANGED <<environment, request, mailbox, redis, collector, effects>>

Request(c) == Reject(c) \/ Submit(c) \/ Send(c) \/ Receive(c) \/ GiveUp(c)

Process(c) == Check(c) \/ Write(c) \/ Audit(c) \/ Publish(c) \/ Xack(c)

WriterStep == Start \/ ReadPending \/ ReadNew \/ \E c \in Commands : Process(c)

Next ==
  \/ WriterStep
  \/ Crash
  \/ TimePasses
  \/ \E c \in Commands : Request(c) \/ CheckFails(c) \/ AuditFails(c) \/ Revoke(c)

Spec == Init /\ [][Next]_vars

(* The Writer's task runs whenever it can, and Docker restarts it. *)
FairSpec == Spec /\ WF_vars(WriterStep)

-----------------------------------------------------------------------------
TypeOK ==
  /\ now \in 0..MaxTime /\ faults \in 0..MaxFaults /\ crashes \in 0..faults
  /\ allowed \in [Commands -> BOOLEAN]
  /\ client \in [Commands -> ClientStates]
  /\ issued \in [Commands -> Nat] /\ deadline \in [Commands -> Nat]
  /\ mailbox \in [Commands -> Seq({"ok", "error"})]
  /\ topId \in Nat /\ lastId \in 0..topId
  /\ id \in [Commands -> 0..topId]
  /\ pel \subseteq Commands
  /\ cursor \in {"down", "0", ">"}
  /\ batch \subseteq Commands
  /\ step \in Steps
  /\ verdict \in {"ok", "error"}
  /\ writes \in [Commands -> Nat]
  /\ audit \in [Commands -> SUBSET {"api", "collector"}]
  /\ answered \subseteq Commands

(* The Writer is done with the entry. *)
Handled(c) == id[c] # 0 /\ id[c] <= lastId /\ c \notin pel

(* A request answered 200 was executed by the device and traced by the     *)
(* collector, also when the command was processed twice (write_point).     *)
TruthfulAnswer ==
  \A c \in Commands : client[c] = "ok" => writes[c] > 0 /\ "collector" \in audit[c]

(* A result that was published is never missed by a request that still     *)
(* waits (send_and_wait subscribes before it sends).                       *)
NoResultMissed ==
  \A c \in answered : client[c] = "waiting" => mailbox[c] # <<>>

(* The device executes a command again only after a crash of the collector *)
(* (process, then XACK; pending entries are read again).                   *)
ExecutedAgainOnlyAfterCrash == \A c \in Commands : writes[c] <= 1 + crashes

AllTraced == \A c \in Commands : Handled(c) => "collector" \in audit[c]

(* "Toute tentative est tracee dans audit_log": every command the Writer   *)
(* is done with is in the audit log, through crashes, expiry and refusals, *)
(* until a database call fails (process then answers an error and          *)
(* acknowledges the entry all the same).                                   *)
HandledIsTraced == faults = crashes => AllTraced

(* An older set-point never overwrites a newer one, through restarts: when *)
(* a command is executed, no later entry of the stream has been.           *)
WritesInStreamOrder ==
  [][\A c \in Commands : writes'[c] # writes[c] =>
       \A d \in Stream : id[d] > id[c] => writes[d] = 0]_vars

(* Every command in the stream is handled in the end, through crashes and  *)
(* failures (an entry stays in the stream, and what is handled stays so).  *)
EveryCommandHandled == <>[](\A c \in Stream : Handled(c))

(* Commands the collector traced, is done with, and those the API confirmed. *)
Traced == {c \in Commands : "collector" \in audit[c]}
Settled == {c \in Commands : Handled(c)}
Confirmed == {c \in Commands : client[c] = "ok"}

(* The path of a command implements the queue that SetPoints promises:     *)
(* whatever crashes, expires or fails, commands are served in the order of *)
(* the stream, none again once it is done with, and a 200 is true          *)
(* (process, run, send_and_wait).                                          *)
Promised == INSTANCE SetPoints WITH
  place <- id, executed <- writes, traced <- Traced, settled <- Settled,
  confirmed <- Confirmed

ImplementsSetPoints == Promised!Spec

(* A write the API has reported as timed out is not executed later. *)
NoLateWrite ==
  [][\A c \in Commands : writes'[c] # writes[c] => client[c] # "timeout"]_vars
=============================================================================

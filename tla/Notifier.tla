------------------------------ MODULE Notifier ------------------------------
(***************************************************************************)
(* The notification queue of the alarm service                             *)
(* (backend/app/alarms/notifier.py): up to Threshold messages per window   *)
(* and recipient leave alone, the next ones wait for one digest; a single  *)
(* worker sends everything, with retries.                                  *)
(*                                                                         *)
(* Notifications are numbered in the order of submit().  A recipient is a  *)
(* (kind, target) pair.  The loops without await are single steps.         *)
(***************************************************************************)
EXTENDS Integers, Sequences, FiniteSets

CONSTANTS
  Recipients,
  Configured,   \* recipients whose kind has a sender
  Threshold, Window, Attempts,
  MaxSubmits,   \* bound on the notifications
  MaxTime,      \* bound on the clock
  MaxFailures   \* bound on failed sends and crashes

ASSUME NotifierAssumption ==
  /\ Configured \subseteq Recipients
  /\ Threshold \in Nat /\ Window \in Nat \ {0} /\ Attempts \in Nat \ {0}
  /\ MaxSubmits \in Nat /\ MaxTime \in Nat /\ MaxFailures \in Nat

VARIABLES
  now, submitted, failures,
  recent,   \* times of the messages that left alone in the window
  digest,   \* [due, items], items empty when there is no digest
  queue,    \* jobs to send, each [to, items]
  sending,  \* the job in _deliver, as a sequence of at most one
  attempt,
  (* history *)
  asked,    \* notifications submitted for each recipient
  alone,    \* times of the messages that left alone, for ever
  reached,  \* item lists that reached each recipient, in order
  lost      \* notifications given up, for each recipient

vars == <<now, submitted, failures, recent, digest, queue, sending, attempt,
          asked, alone, reached, lost>>

NoDigest == [due |-> 0, items |-> <<>>]
Items(s) == {s[i] : i \in DOMAIN s}

Init ==
  /\ now = 0 /\ submitted = 0 /\ failures = 0
  /\ recent = [k \in Recipients |-> <<>>]
  /\ digest = [k \in Recipients |-> NoDigest]
  /\ queue = <<>>
  /\ sending = <<>>
  /\ attempt = 0
  /\ asked = [k \in Recipients |-> {}]
  /\ alone = [k \in Recipients |-> <<>>]
  /\ reached = [k \in Recipients |-> <<>>]
  /\ lost = [k \in Recipients |-> {}]

-----------------------------------------------------------------------------
(* The times of the last messages without the n first ones. *)
Without(k, n) == SubSeq(recent[k], n + 1, Len(recent[k]))

Older(k, age) == {i \in DOMAIN recent[k] : now - recent[k][i] >= age}

(* Mutant of Recently: a message leaves the window one unit too early. *)
RecentlyShort(k) == Without(k, Cardinality(Older(k, Window - 1)))

(* The popleft loop of _route: recent is in the order of time, the old     *)
(* ones come first.                                                        *)
Recently(k) == Without(k, Cardinality(Older(k, Window)))

(* Mutant of Grouped: an open digest does not hold the next message back. *)
GroupedWhenFull(k) == Len(Recently(k)) >= Threshold

(* Does _route put the next notification of k in a digest? *)
Grouped(k) == digest[k] # NoDigest \/ Len(Recently(k)) >= Threshold

DueAt(k) == Window + IF Recently(k) = <<>> THEN now ELSE Head(Recently(k))

(* Mutant of DigestWith: a new digest replaces the one that waits. *)
DigestReplaced(k, n) == [due |-> DueAt(k), items |-> <<n>>]

(* _route: the digest with the notification n; it is due when the window   *)
(* of the messages already sent closes.                                    *)
DigestWith(k, n) ==
  IF digest[k] # NoDigest
  THEN [digest[k] EXCEPT !.items = Append(@, n)]
  ELSE [due |-> DueAt(k), items |-> <<n>>]

(* submit() for the recipients that the channels of the rule give; those   *)
(* whose message leaves alone are queued in the order of the channels.     *)
Submit(to, single) ==
  /\ submitted < MaxSubmits
  /\ to # {} /\ Items(single) = {k \in to : ~Grouped(k)}
  /\ LET n == submitted + 1
     IN /\ submitted' = n
        /\ recent' = [k \in Recipients |->
                        IF k \notin to THEN recent[k]
                        ELSE IF Grouped(k) THEN Recently(k)
                        ELSE Append(Recently(k), now)]
        /\ digest' = [k \in Recipients |-> IF k \in to /\ Grouped(k)
                                           THEN DigestWith(k, n) ELSE digest[k]]
        /\ queue' = queue \o [i \in DOMAIN single |-> [to |-> single[i], items |-> <<n>>]]
        /\ alone' = [k \in Recipients |-> IF k \in Items(single)
                                          THEN Append(alone[k], now) ELSE alone[k]]
        /\ asked' = [k \in Recipients |-> IF k \in to THEN asked[k] \cup {n} ELSE asked[k]]
  /\ UNCHANGED <<now, failures, sending, attempt, reached, lost>>

(* Mutant of Due: the digest misses the second it is due. *)
DueLate(k) == digest[k] # NoDigest /\ now > digest[k].due

Due(k) == digest[k] # NoDigest /\ now >= digest[k].due

(* flush_due, every second, for one recipient whose digest is due. *)
FlushDue(k) ==
  /\ Due(k)
  /\ queue' = Append(queue, [to |-> k, items |-> digest[k].items])
  /\ digest' = [digest EXCEPT ![k] = NoDigest]
  /\ UNCHANGED <<now, submitted, failures, recent, sending, attempt, asked, alone,
                 reached, lost>>

GiveUp(job) ==
  /\ lost' = [lost EXCEPT ![job.to] = @ \cup Items(job.items)]
  /\ UNCHANGED reached

(* run() takes the next job; without a sender it is dropped at once. *)
Take ==
  /\ sending = <<>>
  /\ queue # <<>>
  /\ queue' = Tail(queue)
  /\ \/ /\ Head(queue).to \in Configured
        /\ sending' = <<Head(queue)>>
        /\ attempt' = 1
        /\ UNCHANGED <<reached, lost>>
     \/ /\ Head(queue).to \notin Configured
        /\ GiveUp(Head(queue))
        /\ UNCHANGED <<sending, attempt>>
  /\ UNCHANGED <<now, submitted, failures, recent, digest, asked, alone>>

Reach(job) == reached' = [reached EXCEPT ![job.to] = Append(@, job.items)]

Sent ==
  /\ sending # <<>>
  /\ Reach(Head(sending))
  /\ sending' = <<>>
  /\ UNCHANGED <<now, submitted, failures, recent, digest, queue, attempt, asked,
                 alone, lost>>

Fail == failures < MaxFailures /\ failures' = failures + 1

LastAttempt == attempt >= Attempts

(* send raises: the message was not received, or only its answer was lost; *)
(* after the last attempt the job is dropped.                              *)
SendFails ==
  /\ sending # <<>>
  /\ Fail
  /\ LET job == Head(sending)
     IN \/ /\ ~LastAttempt
           /\ attempt' = attempt + 1
           /\ Reach(job) \/ UNCHANGED reached
           /\ UNCHANGED <<sending, lost>>
        \/ /\ LastAttempt
           /\ sending' = <<>>
           /\ \/ GiveUp(job)
              \/ Reach(job) /\ UNCHANGED lost
           /\ UNCHANGED attempt
  /\ UNCHANGED <<now, submitted, recent, digest, queue, asked, alone>>

Waiting(k) ==
  Items(digest[k].items)
    \cup UNION {Items(j.items) : j \in {j \in Items(queue) \cup Items(sending) : j.to = k}}

(* The service stops: what waits in memory is lost. *)
Crash ==
  /\ Fail
  /\ lost' = [k \in Recipients |-> lost[k] \cup Waiting(k)]
  /\ recent' = [k \in Recipients |-> <<>>]
  /\ digest' = [k \in Recipients |-> NoDigest]
  /\ queue' = <<>>
  /\ sending' = <<>>
  /\ UNCHANGED <<now, submitted, attempt, asked, alone, reached>>

TimePasses ==
  /\ now < MaxTime
  /\ now' = now + 1
  /\ UNCHANGED <<submitted, failures, recent, digest, queue, sending, attempt, asked,
                 alone, reached, lost>>

(* The orders in which channels may name recipients, each one once. *)
Orders ==
  UNION {{s \in [1..n -> Recipients] : \A i, j \in 1..n : s[i] = s[j] => i = j} :
           n \in 0..Cardinality(Recipients)}

Work == Take \/ Sent \/ \E k \in Recipients : FlushDue(k)

Next ==
  \/ \E to \in SUBSET Recipients, single \in Orders : Submit(to, single)
  \/ Work \/ SendFails \/ Crash \/ TimePasses

Spec == Init /\ [][Next]_vars

(* The worker and _flush_loop run, and the clock goes on. *)
FairSpec ==
  Spec /\ WF_vars(Take) /\ WF_vars(Sent \/ SendFails) /\ WF_vars(TimePasses)
       /\ \A k \in Recipients : WF_vars(FlushDue(k))

-----------------------------------------------------------------------------
Numbers == 1..MaxSubmits

TypeOK ==
  /\ now \in 0..MaxTime /\ submitted \in 0..MaxSubmits /\ failures \in 0..MaxFailures
  /\ recent \in [Recipients -> Seq(0..MaxTime)]
  /\ digest \in [Recipients -> [due : 0..(MaxTime + Window), items : Seq(Numbers)]]
  /\ queue \in Seq([to : Recipients, items : Seq(Numbers)])
  /\ sending \in Seq([to : Configured, items : Seq(Numbers)]) /\ Len(sending) <= 1
  /\ attempt \in 0..Attempts
  /\ asked \in [Recipients -> SUBSET Numbers]
  /\ alone \in [Recipients -> Seq(0..MaxTime)]
  /\ reached \in [Recipients -> Seq(Seq(Numbers))]
  /\ lost \in [Recipients -> SUBSET Numbers]

(* "L'ordre est conservé": of two messages a recipient gets, the later one *)
(* repeats the same notifications or holds only later ones, through        *)
(* digests and retries (Notifier).                                         *)
OrderKept ==
  \A k \in Recipients : \A i, j \in DOMAIN reached[k] : i < j =>
    \/ reached[k][i] = reached[k][j]
    \/ \A m \in Items(reached[k][i]), n \in Items(reached[k][j]) : m < n

(* A notification is never forgotten: it waits, it reached its recipient,  *)
(* or it was given up with a log message (_route, flush_due, _deliver).    *)
NothingForgotten ==
  \A k \in Recipients :
    asked[k] = Waiting(k) \cup lost[k] \cup UNION {Items(s) : s \in Items(reached[k])}

(* At most Threshold messages leave alone for a recipient in any window of *)
(* an uninterrupted service (_route).                                      *)
NotFlooded ==
  failures = 0 => \A k \in Recipients : \A i \in DOMAIN alone[k] :
    i > Threshold => alone[k][i] - alone[k][i - Threshold] >= Window

(* Every notification leaves memory, sent or given up, and a digest does   *)
(* not wait for more than a window (flush_due, run).                       *)
EverythingLeaves ==
  \A k \in Recipients : \A n \in Numbers :
    (n \in asked[k] /\ now + Window <= MaxTime) ~> (n \notin Waiting(k))
=============================================================================

--------------------------- MODULE NotifierProofs ---------------------------
(***************************************************************************)
(* OrderKept, NothingForgotten and NotFlooded, for any number of           *)
(* recipients, notifications and failures.                                 *)
(*                                                                         *)
(* A notification on its way to a recipient is in its digest, in a job of  *)
(* the queue, in the job under way or in a message that arrived: InDigest, *)
(* InQueue, InSending and InReached.  The order of these four places is    *)
(* the invariant behind OrderKept (Ordered, SendingOrdered), and the       *)
(* window is the end of what left alone (Windowed).                        *)
(*                                                                         *)
(* Two more: without failures a message arrives once (ArrivesOnce), and    *)
(* whatever waits has its next step within a window (SomethingToDo).       *)
(***************************************************************************)
EXTENDS Notifier, FiniteSetTheorems, SequenceTheorems, TLAPS

InReached(k, i, m) == i \in DOMAIN reached[k] /\ m \in Items(reached[k][i])
InQueue(k, j, m) == j \in DOMAIN queue /\ queue[j].to = k /\ m \in Items(queue[j].items)
InSending(k, m) ==
  sending # <<>> /\ Head(sending).to = k /\ m \in Items(Head(sending).items)
InDigest(k, m) == m \in Items(digest[k].items)

(* Whatever is behind in the same line was submitted later. *)
Ordered(k) ==
  /\ \A i, j, m, n : InReached(k, i, m) /\ InQueue(k, j, n) => m < n
  /\ \A i, m, n : InReached(k, i, m) /\ InDigest(k, n) => m < n
  /\ \A j, m, n : InSending(k, m) /\ InQueue(k, j, n) => m < n
  /\ \A m, n : InSending(k, m) /\ InDigest(k, n) => m < n
  /\ \A i, j, m, n : InQueue(k, i, m) /\ InQueue(k, j, n) /\ i < j => m < n
  /\ \A j, m, n : InQueue(k, j, m) /\ InDigest(k, n) => m < n

(* The job under way repeats a message or is later than it. *)
SendingOrdered ==
  sending # <<>> =>
    \A i \in DOMAIN reached[Head(sending).to] :
      \/ reached[Head(sending).to][i] = Head(sending).items
      \/ \A m \in Items(reached[Head(sending).to][i]), n \in Items(Head(sending).items) : m < n

Numbered(k) ==
  /\ \A i, m : InReached(k, i, m) => m <= submitted
  /\ \A j, m : InQueue(k, j, m) => m <= submitted
  /\ \A m : InSending(k, m) => m <= submitted
  /\ \A m : InDigest(k, m) => m <= submitted

Kept(k) ==
  \A m : m \in asked[k] <=>
    \/ InDigest(k, m) \/ (\E j : InQueue(k, j, m)) \/ InSending(k, m)
    \/ m \in lost[k] \/ (\E i : InReached(k, i, m))

(* recent holds times in order, none after now. *)
Sorted(k) ==
  \A i, j \in DOMAIN recent[k] : i <= j => recent[k][i] <= recent[k][j] /\ recent[k][j] <= now

(* Until a failure recent is the end of alone, the rest has left the       *)
(* window.                                                                 *)
Windowed(k) ==
  failures = 0 =>
    /\ Len(recent[k]) <= Len(alone[k])
    /\ \A i \in DOMAIN recent[k] : recent[k][i] = alone[k][Len(alone[k]) - Len(recent[k]) + i]
    /\ \A i \in 1..(Len(alone[k]) - Len(recent[k])) : now - alone[k][i] >= Window

Spaced(k) ==
  failures = 0 => \A i \in DOMAIN alone[k] :
    i > Threshold => alone[k][i] - alone[k][i - Threshold] >= Window

NotifierInv ==
  /\ TypeOK /\ OrderKept /\ SendingOrdered
  /\ \A k \in Recipients :
       Ordered(k) /\ Numbered(k) /\ Kept(k) /\ Sorted(k) /\ Windowed(k) /\ Spaced(k)

-----------------------------------------------------------------------------
(* What _route keeps of the window. *)

LEMMA OlderCount ==
  ASSUME TypeOK, NEW k \in Recipients
  PROVE  /\ IsFiniteSet(Older(k, Window))
         /\ Cardinality(Older(k, Window)) \in 0..Len(recent[k])
<1>1. recent[k] \in Seq(0..MaxTime)
  BY DEF TypeOK
<1>2. Len(recent[k]) \in Nat /\ DOMAIN recent[k] = 1..Len(recent[k])
  BY <1>1
<1>3. IsFiniteSet(1..Len(recent[k])) /\ Cardinality(1..Len(recent[k])) = Len(recent[k])
  BY <1>2, FS_Interval
<1>4. Older(k, Window) \subseteq 1..Len(recent[k])
  BY <1>2 DEF Older
<1>5. /\ IsFiniteSet(Older(k, Window))
      /\ Cardinality(Older(k, Window)) <= Cardinality(1..Len(recent[k]))
  BY <1>3, <1>4, FS_Subset
<1>6. Cardinality(Older(k, Window)) \in Nat
  BY <1>5, FS_CardinalityType
<1> QED
  BY <1>2, <1>3, <1>5, <1>6

LEMMA SuffixProperties ==
  ASSUME NEW S, NEW s \in Seq(S), NEW c \in 0..Len(s)
  PROVE  /\ SubSeq(s, c + 1, Len(s)) \in Seq(S)
         /\ Len(SubSeq(s, c + 1, Len(s))) = Len(s) - c
         /\ \A i \in 1..(Len(s) - c) : SubSeq(s, c + 1, Len(s))[i] = s[c + i]
<1>1. PICK m \in Int, n \in Int : m = c + 1 /\ n = Len(s)
  OBVIOUS
<1>2. \A i \in m..n : s[i] \in S
  BY <1>1
<1>3. /\ SubSeq(s, m, n) \in Seq(S)
      /\ Len(SubSeq(s, m, n)) = IF m <= n THEN n - m + 1 ELSE 0
      /\ \A i \in 1..(n - m + 1) : SubSeq(s, m, n)[i] = s[m + i - 1]
  BY <1>2, SubSeqProperties
<1>4. (IF m <= n THEN n - m + 1 ELSE 0) = Len(s) - c /\ n - m + 1 = Len(s) - c
  BY <1>1
<1>5. \A i \in 1..(Len(s) - c) : m + i - 1 = c + i
  BY <1>1
<1> QED
  BY <1>1, <1>3, <1>4, <1>5

LEMMA RecentlyProperties ==
  ASSUME TypeOK, NEW k \in Recipients, NEW c, c = Cardinality(Older(k, Window))
  PROVE  /\ Recently(k) \in Seq(0..MaxTime)
         /\ Len(Recently(k)) = Len(recent[k]) - c
         /\ \A i \in 1..(Len(recent[k]) - c) : Recently(k)[i] = recent[k][c + i]
<1>1. c \in 0..Len(recent[k]) /\ recent[k] \in Seq(0..MaxTime) /\ Len(recent[k]) \in Nat
  BY OlderCount DEF TypeOK
<1>2. Recently(k) = SubSeq(recent[k], c + 1, Len(recent[k]))
  BY DEF Recently, Without
<1>3. /\ SubSeq(recent[k], c + 1, Len(recent[k])) \in Seq(0..MaxTime)
      /\ Len(SubSeq(recent[k], c + 1, Len(recent[k]))) = Len(recent[k]) - c
      /\ \A i \in 1..(Len(recent[k]) - c) :
           SubSeq(recent[k], c + 1, Len(recent[k]))[i] = recent[k][c + i]
  BY <1>1, SuffixProperties
<1> QED
  BY <1>2, <1>3

(* The times are in order, so those that are old are the first ones. *)
LEMMA OlderFirst ==
  ASSUME TypeOK, NEW k \in Recipients, Sorted(k), NEW c, c = Cardinality(Older(k, Window))
  PROVE  \A i \in 1..c : now - recent[k][i] >= Window
<1>1. c \in 0..Len(recent[k]) /\ IsFiniteSet(Older(k, Window))
  BY OlderCount
<1>2. recent[k] \in Seq(0..MaxTime) /\ now \in 0..MaxTime /\ Window \in Nat /\ MaxTime \in Nat
  BY NotifierAssumption DEF TypeOK
<1>3. DOMAIN recent[k] = 1..Len(recent[k]) /\ Len(recent[k]) \in Nat
  BY <1>2
<1>4. ASSUME NEW i \in Older(k, Window), NEW j \in 1..i PROVE j \in Older(k, Window)
  <2>1. i \in 1..Len(recent[k]) /\ now - recent[k][i] >= Window
    BY <1>3 DEF Older
  <2>2. j \in 1..Len(recent[k])
    BY <1>3, <2>1
  <2>3. recent[k][j] <= recent[k][i]
    BY <1>3, <2>1, <2>2 DEF Sorted
  <2>4. recent[k][i] \in 0..MaxTime /\ recent[k][j] \in 0..MaxTime
    <3>1. recent[k] \in Seq(0..MaxTime)
      BY <1>2
    <3> QED
      BY <2>1, <2>2, <3>1, ElementOfSeq
  <2>5. now - recent[k][j] >= Window
    <3>1. now \in Int /\ Window \in Int /\ recent[k][i] \in Int /\ recent[k][j] \in Int
      BY <1>2, <2>4
    <3> QED
      BY <2>1, <2>3, <3>1
  <2> QED
    BY <1>3, <2>2, <2>5 DEF Older
<1>5. ASSUME NEW i \in Older(k, Window) PROVE i \in 1..c
  <2>1. i \in Nat \ {0}
    BY <1>3 DEF Older
  <2>2. 1..i \subseteq Older(k, Window)
    BY <1>4, <1>5
  <2>3. Cardinality(1..i) = i
    BY <2>1, FS_Interval
  <2>4. i <= c
    <3>1. Cardinality(1..i) <= Cardinality(Older(k, Window))
      BY <1>1, <2>2, FS_Subset
    <3> QED
      BY <2>3, <3>1
  <2>5. c \in Int
    BY <1>1, <1>3
  <2> QED
    BY <2>1, <2>4, <2>5
<1>6. c \in Nat /\ IsFiniteSet(1..c) /\ Cardinality(1..c) = c
  BY <1>1, <1>3, FS_Interval
<1>7. Older(k, Window) = 1..c
  <2>1. Older(k, Window) \subseteq 1..c
    BY <1>5
  <2> QED
    BY <1>6, <2>1, FS_Subset
<1> QED
  BY <1>7 DEF Older

-----------------------------------------------------------------------------
(* Types. *)

Jobs == [to : Recipients, items : Seq(Numbers)]
SentJobs == [to : Configured, items : Seq(Numbers)]

LEMMA InitTypes == Init => TypeOK
BY NotifierAssumption DEF Init, TypeOK, NoDigest, Numbers

LEMMA OrdersAreSeqs ==
  ASSUME NEW single \in Orders
  PROVE  /\ single \in Seq(Recipients)
         /\ \A i, j \in DOMAIN single : single[i] = single[j] => i = j
<1>1. PICK n \in 0..Cardinality(Recipients) :
        single \in {s \in [1..n -> Recipients] : \A i, j \in 1..n : s[i] = s[j] => i = j}
  BY DEF Orders
<1>2. n \in Nat
  OBVIOUS
<1>3. single \in Seq(Recipients)
  BY <1>1, <1>2
<1> QED
  BY <1>1, <1>3

(* The queue after a submit: what it held, then the single messages. *)
LEMMA SubmitQueue ==
  ASSUME TypeOK, NEW to \in SUBSET Recipients, NEW single \in Orders, Submit(to, single)
  PROVE  /\ queue' \in Seq(Jobs)
         /\ Len(queue') = Len(queue) + Len(single)
         /\ \A j \in 1..Len(queue) : queue'[j] = queue[j]
         /\ \A i \in 1..Len(single) :
              queue'[Len(queue) + i] = [to |-> single[i], items |-> <<submitted + 1>>]
<1>1. single \in Seq(Recipients) /\ DOMAIN single = 1..Len(single) /\ Len(single) \in Nat
  BY OrdersAreSeqs
<1>2. submitted + 1 \in Numbers
  BY NotifierAssumption DEF Submit, TypeOK, Numbers
<1>3. PICK new : new = [i \in DOMAIN single |-> [to |-> single[i], items |-> <<submitted + 1>>]]
  OBVIOUS
<1>4. /\ new \in Seq(Jobs) /\ Len(new) = Len(single)
      /\ \A i \in 1..Len(single) : new[i] = [to |-> single[i], items |-> <<submitted + 1>>]
  <2>1. <<submitted + 1>> \in Seq(Numbers)
    BY <1>2
  <2>2. \A i \in 1..Len(single) : [to |-> single[i], items |-> <<submitted + 1>>] \in Jobs
    BY <1>1, <2>1 DEF Jobs
  <2>3. new \in [1..Len(single) -> Jobs]
    BY <1>1, <1>3, <2>2
  <2> QED
    BY <1>1, <1>3, <2>3
<1>5. queue \in Seq(Jobs)
  BY DEF TypeOK, Jobs
<1>6. queue' = queue \o new
  BY <1>3 DEF Submit
<1>7. /\ queue \o new \in Seq(Jobs)
      /\ Len(queue \o new) = Len(queue) + Len(new)
      /\ \A j \in 1..Len(queue) : (queue \o new)[j] = queue[j]
      /\ \A i \in 1..Len(new) : (queue \o new)[Len(queue) + i] = new[i]
  <2>1. new \in Seq(Jobs)
    BY <1>4
  <2> HIDE <1>3, <1>4
  <2> QED
    BY <2>1, <1>5
<1> QED
  BY <1>4, <1>6, <1>7

(* A recipient that leaves alone. *)
LEMMA SubmitSingles ==
  ASSUME TypeOK, NEW to \in SUBSET Recipients, NEW single \in Orders, Submit(to, single),
         NEW k \in Recipients
  PROVE  k \in Items(single) <=> k \in to /\ ~Grouped(k)
BY DEF Submit

LEMMA DigestTyped ==
  ASSUME TypeOK, NEW k \in Recipients, NEW n \in Numbers
  PROVE  DigestWith(k, n) \in [due : 0..(MaxTime + Window), items : Seq(Numbers)]
<1>1. digest[k] \in [due : 0..(MaxTime + Window), items : Seq(Numbers)]
  BY DEF TypeOK
<1>2. CASE digest[k] # NoDigest
  <2>1. DigestWith(k, n) = [digest[k] EXCEPT !.items = Append(@, n)]
    BY <1>2 DEF DigestWith
  <2>2. Append(digest[k].items, n) \in Seq(Numbers)
    BY <1>1, AppendProperties
  <2> QED
    BY <1>1, <2>1, <2>2
<1>3. CASE digest[k] = NoDigest
  <2>1. Recently(k) \in Seq(0..MaxTime)
    BY RecentlyProperties
  <2>2. Recently(k) # <<>> => Head(Recently(k)) \in 0..MaxTime
    BY <2>1, HeadTailProperties
  <2>3. DueAt(k) \in 0..(MaxTime + Window)
    BY <2>2, NotifierAssumption DEF DueAt, TypeOK
  <2>4. <<n>> \in Seq(Numbers)
    OBVIOUS
  <2> QED
    BY <1>3, <2>3, <2>4 DEF DigestWith
<1> QED
  BY <1>2, <1>3

LEMMA TypesStep ==
  ASSUME TypeOK, [Next]_vars
  PROVE  TypeOK'
<1> USE NotifierAssumption DEF TypeOK
<1>j. queue \in Seq(Jobs) /\ sending \in Seq(SentJobs) /\ SentJobs \subseteq Jobs
  BY DEF Jobs, SentJobs
<1>1. ASSUME NEW to \in SUBSET Recipients, NEW single \in Orders, Submit(to, single)
      PROVE  TypeOK'
  <2>1. submitted' \in 0..MaxSubmits /\ submitted + 1 \in Numbers
    BY <1>1 DEF Submit, Numbers
  <2>2. recent' \in [Recipients -> Seq(0..MaxTime)]
    <3>1. \A k \in Recipients : Recently(k) \in Seq(0..MaxTime)
      BY RecentlyProperties
    <3>2. \A k \in Recipients : Append(Recently(k), now) \in Seq(0..MaxTime)
      BY <3>1
    <3> QED
      BY <1>1, <3>1, <3>2 DEF Submit
  <2>3. digest' \in [Recipients -> [due : 0..(MaxTime + Window), items : Seq(Numbers)]]
    <3>1. \A k \in Recipients :
            DigestWith(k, submitted + 1) \in [due : 0..(MaxTime + Window), items : Seq(Numbers)]
      BY <2>1, DigestTyped
    <3> QED
      BY <1>1, <3>1 DEF Submit
  <2>4. queue' \in Seq([to : Recipients, items : Seq(Numbers)])
    BY <1>1, SubmitQueue DEF Jobs
  <2>5. alone' \in [Recipients -> Seq(0..MaxTime)]
    <3>1. \A k \in Recipients : Append(alone[k], now) \in Seq(0..MaxTime)
      OBVIOUS
    <3> QED
      BY <1>1, <3>1 DEF Submit
  <2>6. asked' \in [Recipients -> SUBSET Numbers]
    BY <1>1, <2>1 DEF Submit
  <2> QED
    BY <1>1, <2>1, <2>2, <2>3, <2>4, <2>5, <2>6 DEF Submit
<1>2. ASSUME NEW k \in Recipients, FlushDue(k) PROVE TypeOK'
  <2>1. [to |-> k, items |-> digest[k].items] \in Jobs
    BY DEF Jobs
  <2>2. queue' \in Seq(Jobs)
    BY <1>2, <1>j, <2>1 DEF FlushDue
  <2>3. digest' \in [Recipients -> [due : 0..(MaxTime + Window), items : Seq(Numbers)]]
    BY <1>2 DEF FlushDue, NoDigest
  <2> QED
    BY <1>2, <2>2, <2>3 DEF FlushDue, Jobs
<1>i. ASSUME NEW job \in Jobs
      PROVE  /\ GiveUp(job) => lost' \in [Recipients -> SUBSET Numbers] /\ reached' = reached
             /\ Reach(job) => reached' \in [Recipients -> Seq(Seq(Numbers))]
  <2>1. Items(job.items) \subseteq Numbers /\ job.to \in Recipients /\ job.items \in Seq(Numbers)
    BY DEF Items, Jobs
  <2>2. ASSUME GiveUp(job) PROVE lost' \in [Recipients -> SUBSET Numbers] /\ reached' = reached
    BY <2>1, <2>2 DEF GiveUp
  <2>3. ASSUME Reach(job) PROVE reached' \in [Recipients -> Seq(Seq(Numbers))]
    BY <2>1, <2>3 DEF Reach
  <2> QED
    BY <2>2, <2>3
<1>h. sending # <<>> => Head(sending) \in Jobs
  BY <1>j
<1>3. CASE Take
  <2>1. Head(queue) \in Jobs /\ Tail(queue) \in Seq(Jobs)
    BY <1>3, <1>j DEF Take
  <2>2. UNCHANGED <<now, submitted, failures, recent, digest, asked, alone>> /\ queue' = Tail(queue)
    BY <1>3 DEF Take
  <2>3. queue' \in Seq([to : Recipients, items : Seq(Numbers)])
    BY <2>1, <2>2 DEF Jobs
  <2>4. /\ sending' \in Seq([to : Configured, items : Seq(Numbers)]) /\ Len(sending') <= 1
        /\ attempt' \in 0..Attempts
        /\ reached' = reached /\ lost' \in [Recipients -> SUBSET Numbers]
    <3>1. CASE Head(queue).to \in Configured
      <4>1. sending' = <<Head(queue)>> /\ attempt' = 1 /\ UNCHANGED <<reached, lost>>
        BY <1>3, <3>1 DEF Take
      <4>2. Head(queue) \in SentJobs
        BY <2>1, <3>1 DEF Jobs, SentJobs
      <4>3. sending' \in Seq(SentJobs) /\ Len(sending') <= 1
        BY <4>1, <4>2
      <4> QED
        BY <4>1, <4>3 DEF SentJobs
    <3>2. CASE Head(queue).to \notin Configured
      <4>1. GiveUp(Head(queue)) /\ UNCHANGED <<sending, attempt>>
        BY <1>3, <3>2 DEF Take
      <4>2. lost' \in [Recipients -> SUBSET Numbers] /\ reached' = reached
        BY <1>i, <2>1, <4>1
      <4> QED
        BY <4>1, <4>2
    <3> QED
      BY <3>1, <3>2
  <2> QED
    BY <2>2, <2>3, <2>4
<1>4. CASE Sent
  <2>1. reached' \in [Recipients -> Seq(Seq(Numbers))]
    BY <1>4, <1>h, <1>i DEF Sent
  <2>2. sending' = <<>>
    BY <1>4 DEF Sent
  <2> QED
    BY <1>4, <2>1, <2>2 DEF Sent
<1>5. CASE SendFails
  <2>1. failures' \in 0..MaxFailures
    BY <1>5 DEF SendFails, Fail
  <2>2. Head(sending) \in Jobs
    BY <1>5, <1>h DEF SendFails
  <2>3. (reached' = reached \/ Reach(Head(sending))) /\ (lost' = lost \/ GiveUp(Head(sending)))
    BY <1>5 DEF SendFails, GiveUp
  <2>4. reached' \in [Recipients -> Seq(Seq(Numbers))] /\ lost' \in [Recipients -> SUBSET Numbers]
    BY <1>i, <2>2, <2>3
  <2>5. (sending' = sending \/ sending' = <<>>) /\ attempt' \in 0..Attempts
    BY <1>5 DEF SendFails, LastAttempt
  <2>6. sending' \in Seq([to : Configured, items : Seq(Numbers)]) /\ Len(sending') <= 1
    <3>1. CASE sending' = sending
      BY <3>1
    <3>2. CASE sending' = <<>>
      BY <3>2
    <3> QED
      BY <2>5, <3>1, <3>2
  <2>7. UNCHANGED <<now, submitted, recent, digest, queue, asked, alone>>
    BY <1>5 DEF SendFails
  <2> QED
    BY <2>1, <2>4, <2>5, <2>6, <2>7
<1>6. CASE Crash
  <2>1. ASSUME NEW k \in Recipients, NEW m \in Waiting(k) PROVE m \in Numbers
    <3>1. CASE m \in Items(digest[k].items)
      BY <3>1 DEF Items
    <3>2. CASE m \in UNION {Items(j.items) :
                            j \in {j \in Items(queue) \cup Items(sending) : j.to = k}}
      <4>1. PICK j \in Items(queue) \cup Items(sending) : m \in Items(j.items)
        BY <3>2
      <4>2. j \in Jobs
        BY <1>j, <4>1 DEF Items
      <4>3. j.items \in Seq(Numbers)
        BY <4>2 DEF Jobs
      <4> QED
        BY <4>1, <4>3 DEF Items
    <3> QED
      BY <2>1, <3>1, <3>2 DEF Waiting
  <2>2. failures' \in 0..MaxFailures
    BY <1>6 DEF Crash, Fail
  <2>3. lost' \in [Recipients -> SUBSET Numbers]
    BY <1>6, <2>1 DEF Crash
  <2>4. digest' \in [Recipients -> [due : 0..(MaxTime + Window), items : Seq(Numbers)]]
    BY <1>6 DEF Crash, NoDigest
  <2> QED
    BY <1>6, <2>2, <2>3, <2>4 DEF Crash
<1>7. CASE TimePasses
  BY <1>7 DEF TimePasses
<1>8. CASE UNCHANGED vars
  BY <1>8 DEF vars
<1> QED
  BY <1>1, <1>2, <1>3, <1>4, <1>5, <1>6, <1>7, <1>8 DEF Next, Work

(* The variables of the notification queue keep their types. *)
THEOREM NotifierTypeCorrect == Spec => []TypeOK
<1>1. TypeOK /\ [Next]_vars => TypeOK'
  BY TypesStep
<1> QED
  BY InitTypes, <1>1, PTL DEF Spec

-----------------------------------------------------------------------------
(* Where the notifications for k are after each action. *)

LEMMA PlacesTyped ==
  ASSUME TypeOK, NEW k \in Recipients
  PROVE  /\ \A i, m : InReached(k, i, m) => i \in 1..Len(reached[k]) /\ m \in Numbers
         /\ \A j, m : InQueue(k, j, m) => j \in 1..Len(queue) /\ m \in Numbers
         /\ \A m : InSending(k, m) => m \in Numbers
         /\ \A m : InDigest(k, m) => m \in Numbers
<1>1. /\ queue \in Seq(Jobs) /\ sending \in Seq(SentJobs) /\ SentJobs \subseteq Jobs
      /\ reached[k] \in Seq(Seq(Numbers)) /\ digest[k].items \in Seq(Numbers)
  BY NotifierAssumption DEF TypeOK, Jobs, SentJobs
<1>2. \A s \in Seq(Numbers) : Items(s) \subseteq Numbers
  BY DEF Items
<1>3. \A j \in Jobs : j.items \in Seq(Numbers)
  BY DEF Jobs
<1>4. ASSUME NEW i, NEW m, InReached(k, i, m) PROVE i \in 1..Len(reached[k]) /\ m \in Numbers
  <2>1. i \in 1..Len(reached[k]) /\ reached[k][i] \in Seq(Numbers)
    BY <1>1, <1>4 DEF InReached
  <2> QED
    BY <1>2, <1>4, <2>1 DEF InReached
<1>5. ASSUME NEW j, NEW m, InQueue(k, j, m) PROVE j \in 1..Len(queue) /\ m \in Numbers
  <2>1. j \in 1..Len(queue) /\ queue[j] \in Jobs
    BY <1>1, <1>5 DEF InQueue
  <2> QED
    BY <1>2, <1>3, <1>5, <2>1 DEF InQueue
<1>6. ASSUME NEW m, InSending(k, m) PROVE m \in Numbers
  <2>1. Head(sending) \in Jobs
    BY <1>1, <1>6 DEF InSending
  <2> QED
    BY <1>2, <1>3, <1>6, <2>1 DEF InSending
<1>7. ASSUME NEW m, InDigest(k, m) PROVE m \in Numbers
  BY <1>1, <1>2, <1>7 DEF InDigest
<1> QED
  BY <1>4, <1>5, <1>6, <1>7

LEMMA ItemsOne == Items(<<>>) = {} /\ \A n : Items(<<n>>) = {n}
BY DEF Items

LEMMA ItemsAppend ==
  ASSUME NEW S, NEW s \in Seq(S), NEW n
  PROVE  Items(Append(s, n)) = Items(s) \cup {n}
<1>1. /\ DOMAIN Append(s, n) = 1..(Len(s) + 1) /\ Append(s, n)[Len(s) + 1] = n
      /\ DOMAIN s = 1..Len(s) /\ Len(s) \in Nat
      /\ \A i \in 1..Len(s) : Append(s, n)[i] = s[i]
  OBVIOUS
<1>2. ASSUME NEW m \in Items(Append(s, n)) PROVE m \in Items(s) \cup {n}
  <2>1. PICK i \in 1..(Len(s) + 1) : m = Append(s, n)[i]
    BY <1>1, <1>2 DEF Items
  <2>2. CASE i \in 1..Len(s)
    BY <1>1, <2>1, <2>2 DEF Items
  <2>3. CASE i = Len(s) + 1
    BY <1>1, <2>1, <2>3
  <2> QED
    BY <1>1, <2>2, <2>3
<1>3. ASSUME NEW m \in Items(s) PROVE m \in Items(Append(s, n))
  <2>1. PICK i \in 1..Len(s) : m = s[i]
    BY <1>1, <1>3 DEF Items
  <2>2. i \in 1..(Len(s) + 1) /\ Append(s, n)[i] = m
    BY <1>1, <2>1
  <2> QED
    BY <1>1, <2>2 DEF Items
<1>4. n \in Items(Append(s, n))
  <2>1. Len(s) + 1 \in 1..(Len(s) + 1)
    BY <1>1
  <2> QED
    BY <1>1, <2>1 DEF Items
<1> QED
  BY <1>2, <1>3, <1>4

LEMMA SubmitReached ==
  ASSUME NEW to \in SUBSET Recipients, NEW single \in Orders, Submit(to, single), NEW k
  PROVE  /\ \A i, m : InReached(k, i, m)' <=> InReached(k, i, m)
         /\ \A m : InSending(k, m)' <=> InSending(k, m)
BY DEF Submit, InReached, InSending

LEMMA SubmitDigest ==
  ASSUME TypeOK, NEW to \in SUBSET Recipients, NEW single \in Orders, Submit(to, single),
         NEW k \in Recipients
  PROVE  /\ k \in to /\ Grouped(k) =>
              \A m : InDigest(k, m)' <=> InDigest(k, m) \/ m = submitted + 1
         /\ ~(k \in to /\ Grouped(k)) => \A m : InDigest(k, m)' <=> InDigest(k, m)
<1>1. submitted + 1 \in Numbers /\ digest[k].items \in Seq(Numbers)
  BY NotifierAssumption DEF Submit, TypeOK, Numbers
<1>2. CASE k \in to /\ Grouped(k)
  <2>1. digest'[k] = DigestWith(k, submitted + 1)
    BY <1>2 DEF Submit
  <2>2. CASE digest[k] # NoDigest
    <3>1. digest'[k].items = Append(digest[k].items, submitted + 1)
      BY <2>1, <2>2 DEF DigestWith, TypeOK
    <3>2. Items(digest'[k].items) = Items(digest[k].items) \cup {submitted + 1}
      BY <1>1, <3>1, ItemsAppend
    <3> QED
      BY <1>2, <3>2 DEF InDigest
  <2>3. CASE digest[k] = NoDigest
    <3>1. digest'[k].items = <<submitted + 1>>
      BY <2>1, <2>3 DEF DigestWith
    <3>2. digest[k].items = <<>>
      BY <2>3 DEF NoDigest
    <3>3. Items(digest'[k].items) = {submitted + 1} /\ Items(digest[k].items) = {}
      BY <3>1, <3>2, ItemsOne
    <3> QED
      BY <1>2, <3>3 DEF InDigest
  <2> QED
    BY <2>2, <2>3
<1>3. CASE ~(k \in to /\ Grouped(k))
  <2>1. digest'[k] = digest[k]
    BY <1>3 DEF Submit
  <2> QED
    BY <1>3, <2>1 DEF InDigest
<1> QED
  BY <1>2, <1>3

LEMMA SubmitQueued ==
  ASSUME TypeOK, NEW to \in SUBSET Recipients, NEW single \in Orders, Submit(to, single),
         NEW k \in Recipients
  PROVE  /\ ~(k \in to /\ ~Grouped(k)) => \A j, m : InQueue(k, j, m)' <=> InQueue(k, j, m)
         /\ k \in to /\ ~Grouped(k) =>
              /\ \A m : ~InDigest(k, m)
              /\ \E last \in Nat : last > Len(queue) /\
                   \A j, m : InQueue(k, j, m)' <=>
                               InQueue(k, j, m) \/ (j = last /\ m = submitted + 1)
<1>1. /\ queue \in Seq(Jobs) /\ single \in Seq(Recipients)
      /\ \A i, j \in DOMAIN single : single[i] = single[j] => i = j
  BY OrdersAreSeqs DEF TypeOK, Jobs
<1>2. submitted + 1 \in Numbers
  BY NotifierAssumption DEF Submit, TypeOK, Numbers
<1>3. Items(<<submitted + 1>>) = {submitted + 1}
  BY ItemsOne
<1>4. /\ Len(queue) \in Nat /\ Len(single) \in Nat
      /\ DOMAIN queue = 1..Len(queue) /\ DOMAIN queue' = 1..(Len(queue) + Len(single))
  <2>1. queue' \in Seq(Jobs) /\ Len(queue') = Len(queue) + Len(single)
    BY SubmitQueue
  <2> QED
    BY <1>1, <2>1
<1>q. \A j \in 1..Len(queue) : queue'[j] = queue[j]
  BY SubmitQueue
<1>5. ASSUME NEW j, NEW m, InQueue(k, j, m) PROVE InQueue(k, j, m)'
  BY <1>4, <1>5, <1>q DEF InQueue
<1>6. ASSUME NEW j, NEW m, InQueue(k, j, m)', ~InQueue(k, j, m)
      PROVE  /\ j - Len(queue) \in 1..Len(single) /\ single[j - Len(queue)] = k
             /\ m = submitted + 1
  <2>1. j \in 1..(Len(queue) + Len(single)) /\ queue'[j].to = k /\ m \in Items(queue'[j].items)
    BY <1>4, <1>6 DEF InQueue
  <2>2. j \notin 1..Len(queue)
    BY <1>4, <1>6, <1>q, <2>1 DEF InQueue
  <2>3. PICK i \in 1..Len(single) : j = Len(queue) + i
    <3>1. j - Len(queue) \in 1..Len(single) /\ j = Len(queue) + (j - Len(queue))
      BY <1>4, <2>1, <2>2
    <3> QED
      BY <3>1
  <2>4. queue'[j] = [to |-> single[i], items |-> <<submitted + 1>>]
    BY <2>3, SubmitQueue
  <2>5. j - Len(queue) = i
    BY <1>4, <2>3
  <2> QED
    BY <1>3, <2>1, <2>4, <2>5
<1>7. CASE ~(k \in to /\ ~Grouped(k))
  <2>1. k \notin Items(single)
    BY <1>7, SubmitSingles
  <2>2. \A i \in 1..Len(single) : single[i] # k
    BY <1>1, <2>1 DEF Items
  <2>3. ASSUME NEW j, NEW m, InQueue(k, j, m)' PROVE InQueue(k, j, m)
    BY <1>6, <2>2, <2>3
  <2> QED
    BY <1>5, <1>7, <2>3, Zenon
<1>8. CASE k \in to /\ ~Grouped(k)
  <2>1. k \in Items(single)
    BY <1>8, SubmitSingles
  <2>2. PICK i \in 1..Len(single) : single[i] = k
    BY <1>1, <2>1 DEF Items
  <2>3. \A j \in 1..Len(single) : single[j] = k => j = i
    BY <1>1, <2>2
  <2>4. PICK last \in Nat : last = Len(queue) + i
    BY <1>4
  <2>5. last > Len(queue) /\ last \in DOMAIN queue'
    BY <1>4, <2>2, <2>4
  <2>6. queue'[last] = [to |-> k, items |-> <<submitted + 1>>]
    BY <2>2, <2>4, SubmitQueue
  <2>7. ASSUME NEW m, m = submitted + 1 PROVE InQueue(k, last, m)'
    <3>1. queue'[last].to = k /\ queue'[last].items = <<m>>
      BY <2>6, <2>7
    <3>2. m \in Items(queue'[last].items)
      BY <3>1, ItemsOne
    <3> QED
      BY <2>5, <3>1, <3>2 DEF InQueue
  <2>8. ASSUME NEW j, NEW m, InQueue(k, j, m)', ~InQueue(k, j, m)
        PROVE  j = last /\ m = submitted + 1
    <3>1. j - Len(queue) = i /\ m = submitted + 1
      BY <1>6, <2>3, <2>8
    <3>2. j \in Int
      BY <1>4, <2>8 DEF InQueue
    <3> QED
      BY <1>4, <2>4, <3>1, <3>2
  <2>9. digest[k] = NoDigest
    BY <1>8 DEF Grouped
  <2>10. \A m : ~InDigest(k, m)
    BY <2>9 DEF NoDigest, InDigest, Items
  <2>11. \A j, m : InQueue(k, j, m)' <=> InQueue(k, j, m) \/ (j = last /\ m = submitted + 1)
    BY <1>5, <2>7, <2>8, Zenon
  <2> QED
    BY <1>8, <2>5, <2>10, <2>11, Zenon
<1> QED
  BY <1>7, <1>8

LEMMA FlushPlaces ==
  ASSUME TypeOK, NEW f \in Recipients, FlushDue(f), NEW k \in Recipients
  PROVE  /\ k # f => \A j, m : (InQueue(k, j, m)' <=> InQueue(k, j, m))
         /\ k # f => \A m : (InDigest(k, m)' <=> InDigest(k, m))
         /\ k = f => \A m : ~InDigest(k, m)'
         /\ k = f => \A j, m : InQueue(k, j, m)' <=>
                                 InQueue(k, j, m) \/ (j = Len(queue) + 1 /\ InDigest(k, m))
<1>1. queue \in Seq(Jobs) /\ Len(queue) \in Nat /\ DOMAIN queue = 1..Len(queue)
  BY DEF TypeOK, Jobs
<1>2. PICK job \in Jobs : job.to = f /\ job.items = digest[f].items /\ queue' = Append(queue, job)
  <2>1. [to |-> f, items |-> digest[f].items] \in Jobs
    BY DEF TypeOK, Jobs
  <2> QED
    BY <2>1 DEF FlushDue
<1>3. /\ DOMAIN queue' = 1..(Len(queue) + 1) /\ queue'[Len(queue) + 1] = job
      /\ \A j \in 1..Len(queue) : queue'[j] = queue[j]
  BY <1>1, <1>2
<1>4. ASSUME NEW j, NEW m
      PROVE  InQueue(k, j, m)' <=>
               InQueue(k, j, m) \/ (j = Len(queue) + 1 /\ k = f /\ InDigest(k, m))
  <2>1. CASE j \in 1..Len(queue)
    <3>1. j # Len(queue) + 1 /\ j \in DOMAIN queue /\ j \in DOMAIN queue' /\ queue'[j] = queue[j]
      BY <1>1, <1>3, <2>1
    <3> QED
      BY <3>1 DEF InQueue
  <2>2. CASE j = Len(queue) + 1
    <3>1. j \notin DOMAIN queue /\ j \in DOMAIN queue' /\ queue'[j] = job
      BY <1>1, <1>3, <2>2
    <3> QED
      BY <1>2, <2>2, <3>1 DEF InQueue, InDigest
  <2>3. CASE j \notin 1..(Len(queue) + 1)
    <3>1. j \notin DOMAIN queue /\ j \notin DOMAIN queue' /\ j # Len(queue) + 1
      BY <1>1, <1>3, <2>3
    <3> QED
      BY <3>1 DEF InQueue
  <2> QED
    BY <1>1, <2>1, <2>2, <2>3
<1>5. digest' = [digest EXCEPT ![f] = NoDigest]
  BY DEF FlushDue
<1>6. k # f => digest'[k] = digest[k]
  BY <1>5 DEF TypeOK
<1>7. k = f => digest'[k].items = <<>>
  BY <1>5 DEF TypeOK, NoDigest
<1>8. k = f => \A m : ~InDigest(k, m)'
  BY <1>7, ItemsOne DEF InDigest
<1>9. k # f => \A m : (InDigest(k, m)' <=> InDigest(k, m))
  BY <1>6 DEF InDigest
<1> QED
  BY <1>4, <1>8, <1>9, Zenon

LEMMA TakeQueue ==
  ASSUME TypeOK, Take, NEW k
  PROVE  /\ \A j, m : InQueue(k, j, m)' <=> j \in Nat \ {0} /\ InQueue(k, j + 1, m)
         /\ \A m : ~InSending(k, m)
<1>1. queue \in Seq(Jobs) /\ Len(queue) \in Nat /\ DOMAIN queue = 1..Len(queue)
  BY DEF TypeOK, Jobs
<1>2. queue # <<>> /\ queue' = Tail(queue)
  BY DEF Take
<1>3. /\ DOMAIN queue' = 1..(Len(queue) - 1)
      /\ \A j \in 1..(Len(queue) - 1) : queue'[j] = queue[j + 1]
  BY <1>1, <1>2
<1>4. ASSUME NEW j, NEW m PROVE InQueue(k, j, m)' <=> j \in Nat \ {0} /\ InQueue(k, j + 1, m)
  <2>1. CASE j \in 1..(Len(queue) - 1)
    <3>1. /\ j \in DOMAIN queue' /\ j + 1 \in DOMAIN queue /\ queue'[j] = queue[j + 1]
          /\ j \in Nat \ {0}
      BY <1>1, <1>3, <2>1
    <3> QED
      BY <3>1 DEF InQueue
  <2>2. CASE j \notin 1..(Len(queue) - 1)
    <3>1. j \notin DOMAIN queue' /\ (j \in Nat \ {0} => j + 1 \notin DOMAIN queue)
      BY <1>1, <1>3, <2>2
    <3> QED
      BY <3>1 DEF InQueue
  <2> QED
    BY <2>1, <2>2
<1>5. \A m : ~InSending(k, m)
  BY DEF Take, InSending
<1> QED
  BY <1>4, <1>5

(* The job that run() takes is under way, or given up without a sender. *)
LEMMA TakeHead ==
  ASSUME TypeOK, Take, NEW k \in Recipients
  PROVE  \/ /\ lost' = lost
            /\ \A m : InSending(k, m)' <=> InQueue(k, 1, m)
         \/ /\ \A m : ~InSending(k, m)'
            /\ \A m : m \in lost'[k] <=> m \in lost[k] \/ InQueue(k, 1, m)
<1>1. queue \in Seq(Jobs) /\ queue # <<>> /\ lost \in [Recipients -> SUBSET Numbers]
  BY DEF TypeOK, Jobs, Take
<1>2. 1 \in DOMAIN queue /\ Head(queue) = queue[1]
  BY <1>1
<1>3. \A m : InQueue(k, 1, m) <=> Head(queue).to = k /\ m \in Items(Head(queue).items)
  BY <1>2 DEF InQueue
<1>4. CASE Head(queue).to \in Configured
  <2>1. sending' = <<Head(queue)>> /\ lost' = lost
    BY <1>4 DEF Take
  <2>2. sending' # <<>> /\ Head(sending') = Head(queue)
    BY <2>1
  <2> QED
    BY <1>3, <2>1, <2>2 DEF InSending
<1>5. CASE Head(queue).to \notin Configured
  <2>1. sending' = <<>> /\ GiveUp(Head(queue))
    BY <1>5 DEF Take
  <2>2. \A m : ~InSending(k, m)'
    BY <2>1 DEF InSending
  <2>3. lost' = [lost EXCEPT ![Head(queue).to] = @ \cup Items(Head(queue).items)]
    BY <2>1 DEF GiveUp
  <2>4. \A m : m \in lost'[k] <=> m \in lost[k] \/ InQueue(k, 1, m)
    BY <1>1, <1>3, <2>3
  <2> QED
    BY <2>2, <2>4
<1> QED
  BY <1>4, <1>5

LEMMA ReachPlaces ==
  ASSUME TypeOK, sending # <<>>, Reach(Head(sending)), NEW k \in Recipients
  PROVE  \A i, m : InReached(k, i, m)' <=>
                     InReached(k, i, m) \/ (i = Len(reached[k]) + 1 /\ InSending(k, m))
<1>1. /\ reached \in [Recipients -> Seq(Seq(Numbers))] /\ reached[k] \in Seq(Seq(Numbers))
      /\ Len(reached[k]) \in Nat /\ DOMAIN reached[k] = 1..Len(reached[k])
  BY DEF TypeOK
<1>2. Head(sending).to \in Recipients
  <2>1. sending \in Seq(SentJobs)
    BY DEF TypeOK, SentJobs
  <2>2. Head(sending) \in SentJobs
    BY <2>1
  <2> QED
    BY <2>2, NotifierAssumption DEF SentJobs
<1>3. reached' = [reached EXCEPT ![Head(sending).to] = Append(@, Head(sending).items)]
  BY DEF Reach
<1>4. CASE Head(sending).to = k
  <2>1. reached'[k] = Append(reached[k], Head(sending).items)
    BY <1>1, <1>3, <1>4
  <2>2. /\ DOMAIN reached'[k] = 1..(Len(reached[k]) + 1)
        /\ reached'[k][Len(reached[k]) + 1] = Head(sending).items
        /\ \A i \in 1..Len(reached[k]) : reached'[k][i] = reached[k][i]
    BY <1>1, <2>1
  <2>3. ASSUME NEW i, NEW m
        PROVE  InReached(k, i, m)' <=>
                 InReached(k, i, m) \/ (i = Len(reached[k]) + 1 /\ InSending(k, m))
    <3>1. CASE i \in 1..Len(reached[k])
      <4>1. /\ i # Len(reached[k]) + 1 /\ i \in DOMAIN reached[k] /\ i \in DOMAIN reached'[k]
            /\ reached'[k][i] = reached[k][i]
        BY <1>1, <2>2, <3>1
      <4> QED
        BY <4>1 DEF InReached
    <3>2. CASE i = Len(reached[k]) + 1
      <4>1. /\ i \notin DOMAIN reached[k] /\ i \in DOMAIN reached'[k]
            /\ reached'[k][i] = Head(sending).items
        BY <1>1, <2>2, <3>2
      <4> QED
        BY <1>4, <3>2, <4>1 DEF InReached, InSending
    <3>3. CASE i \notin 1..(Len(reached[k]) + 1)
      <4>1. i \notin DOMAIN reached[k] /\ i \notin DOMAIN reached'[k] /\ i # Len(reached[k]) + 1
        BY <1>1, <2>2, <3>3
      <4> QED
        BY <4>1 DEF InReached
    <3> QED
      BY <1>1, <3>1, <3>2, <3>3
  <2> QED
    BY <2>3
<1>5. CASE Head(sending).to # k
  <2>1. reached'[k] = reached[k]
    BY <1>1, <1>3, <1>5
  <2> QED
    BY <1>5, <2>1 DEF InReached, InSending
<1> QED
  BY <1>4, <1>5

LEMMA GiveUpPlaces ==
  ASSUME TypeOK, sending # <<>>, GiveUp(Head(sending)), NEW k \in Recipients
  PROVE  \A m : m \in lost'[k] <=> m \in lost[k] \/ InSending(k, m)
<1>1. lost' = [lost EXCEPT ![Head(sending).to] = @ \cup Items(Head(sending).items)]
  BY DEF GiveUp
<1>2. lost \in [Recipients -> SUBSET Numbers]
  BY DEF TypeOK
<1> QED
  BY <1>1, <1>2 DEF InSending

(* What a failed send does: another attempt, a message that is given up,   *)
(* or the last attempt whose answer alone was lost; either of the others   *)
(* may have reached its recipient too.                                     *)
LEMMA FailCases ==
  ASSUME SendFails
  PROVE  /\ sending # <<>>
         /\ UNCHANGED <<now, submitted, recent, digest, queue, asked, alone>>
         /\ \/ sending' = sending /\ lost' = lost /\ (Reach(Head(sending)) \/ reached' = reached)
            \/ sending' = <<>> /\ GiveUp(Head(sending)) /\ reached' = reached
            \/ sending' = <<>> /\ Reach(Head(sending)) /\ lost' = lost
BY DEF SendFails, GiveUp

LEMMA WaitingPlaces ==
  ASSUME TypeOK, NEW k
  PROVE  \A m : m \in Waiting(k) <=>
                  InDigest(k, m) \/ (\E j : InQueue(k, j, m)) \/ InSending(k, m)
<1>1. sending \in Seq(SentJobs) /\ Len(sending) <= 1
  BY DEF TypeOK, SentJobs
<1>2. Items(sending) = IF sending = <<>> THEN {} ELSE {Head(sending)}
  <2>1. CASE sending = <<>>
    BY <2>1, ItemsOne
  <2>2. CASE sending # <<>>
    <3>0. Len(sending) = 1
      BY <1>1, <2>2, EmptySeq
    <3>1. DOMAIN sending = 1..1 /\ Head(sending) = sending[1]
      BY <1>1, <3>0
    <3> QED
      BY <2>2, <3>1 DEF Items
  <2> QED
    BY <2>1, <2>2
<1>3. ASSUME NEW m
      PROVE  InSending(k, m) <=> \E j \in Items(sending) : j.to = k /\ m \in Items(j.items)
  BY <1>2 DEF InSending
<1>4. ASSUME NEW m
      PROVE  (\E i : InQueue(k, i, m)) <=> \E j \in Items(queue) : j.to = k /\ m \in Items(j.items)
  <2>1. \A j : j \in Items(queue) <=> \E i \in DOMAIN queue : j = queue[i]
    BY DEF Items
  <2> QED
    BY <2>1 DEF InQueue
<1>5. ASSUME NEW m
      PROVE  m \in Waiting(k) <=>
               \/ InDigest(k, m)
               \/ \E j \in Items(queue) \cup Items(sending) : j.to = k /\ m \in Items(j.items)
  BY DEF Waiting, InDigest
<1> QED
  BY <1>3, <1>4, <1>5

LEMMA CrashPlaces ==
  ASSUME Crash, NEW k \in Recipients
  PROVE  /\ \A i, m : InReached(k, i, m)' <=> InReached(k, i, m)
         /\ \A j, m : ~InQueue(k, j, m)'
         /\ \A m : ~InSending(k, m)'
         /\ \A m : ~InDigest(k, m)'
         /\ asked'[k] = asked[k] /\ lost'[k] = lost[k] \cup Waiting(k)
<1>1. /\ reached' = reached /\ asked' = asked /\ queue' = <<>> /\ sending' = <<>>
      /\ digest'[k] = NoDigest /\ lost'[k] = lost[k] \cup Waiting(k)
  BY DEF Crash
<1>2. \A m : ~InDigest(k, m)'
  BY <1>1, ItemsOne DEF NoDigest, InDigest
<1>3. \A j, m : ~InQueue(k, j, m)'
  BY <1>1 DEF InQueue
<1>4. \A m : ~InSending(k, m)'
  BY <1>1 DEF InSending
<1>5. \A i, m : InReached(k, i, m)' <=> InReached(k, i, m)
  BY <1>1 DEF InReached
<1> QED
  BY <1>1, <1>2, <1>3, <1>4, <1>5

LEMMA SamePlaces ==
  ASSUME TimePasses \/ UNCHANGED vars, NEW k
  PROVE  /\ \A i, m : InReached(k, i, m)' <=> InReached(k, i, m)
         /\ \A j, m : InQueue(k, j, m)' <=> InQueue(k, j, m)
         /\ \A m : InSending(k, m)' <=> InSending(k, m)
         /\ \A m : InDigest(k, m)' <=> InDigest(k, m)
         /\ UNCHANGED <<submitted, asked, lost, reached, sending>>
<1>1. UNCHANGED <<submitted, asked, lost, reached, sending, queue, digest>>
  BY DEF TimePasses, vars
<1> QED
  BY <1>1 DEF InReached, InQueue, InSending, InDigest

-----------------------------------------------------------------------------
(* Every action keeps the line of a recipient in order. *)

LEMMA SubmitLine ==
  ASSUME TypeOK, NEW to \in SUBSET Recipients, NEW single \in Orders, Submit(to, single),
         NEW k \in Recipients, Ordered(k), Numbered(k), Kept(k)
  PROVE  Ordered(k)' /\ Numbered(k)' /\ Kept(k)'
<1>1. submitted' = submitted + 1 /\ submitted \in Nat /\ lost' = lost
  BY NotifierAssumption DEF Submit, TypeOK
<1>2. /\ \A i, m : InReached(k, i, m)' <=> InReached(k, i, m)
      /\ \A m : InSending(k, m)' <=> InSending(k, m)
  BY SubmitReached
<1>3. Numbers \subseteq Int /\ 1..Len(queue) \subseteq Int
  BY DEF Numbers
<1>4. asked'[k] = IF k \in to THEN asked[k] \cup {submitted + 1} ELSE asked[k]
  BY DEF Submit
<1>5. /\ \A i, m : InReached(k, i, m) => m \in Int /\ m < submitted + 1
      /\ \A j, m : InQueue(k, j, m) => m \in Int /\ m < submitted + 1 /\ j \in 1..Len(queue)
      /\ \A m : InSending(k, m) => m \in Int /\ m < submitted + 1
      /\ \A m : InDigest(k, m) => m \in Int /\ m < submitted + 1
  <2>0. \A m \in Numbers : m <= submitted => m \in Int /\ m < submitted + 1
    BY <1>1, <1>3
  <2>1. ASSUME NEW i, NEW m, InReached(k, i, m) PROVE m \in Int /\ m < submitted + 1
    BY <2>0, <2>1, PlacesTyped DEF Numbered
  <2>2. ASSUME NEW j, NEW m, InQueue(k, j, m)
        PROVE  m \in Int /\ m < submitted + 1 /\ j \in 1..Len(queue)
    BY <2>0, <2>2, PlacesTyped DEF Numbered
  <2>3. ASSUME NEW m, InSending(k, m) PROVE m \in Int /\ m < submitted + 1
    BY <2>0, <2>3, PlacesTyped DEF Numbered
  <2>4. ASSUME NEW m, InDigest(k, m) PROVE m \in Int /\ m < submitted + 1
    BY <2>0, <2>4, PlacesTyped DEF Numbered
  <2> QED
    BY <2>1, <2>2, <2>3, <2>4
<1>6. CASE k \notin to
  <2>1. /\ \A j, m : InQueue(k, j, m)' <=> InQueue(k, j, m)
        /\ \A m : InDigest(k, m)' <=> InDigest(k, m)
        /\ asked'[k] = asked[k]
    BY <1>4, <1>6, SubmitQueued, SubmitDigest
  <2>2. Ordered(k)'
    BY <1>2, <2>1 DEF Ordered
  <2>3. Numbered(k)'
    BY <1>1, <1>2, <1>5, <2>1 DEF Numbered
  <2>4. Kept(k)'
    BY <1>1, <1>2, <2>1 DEF Kept
  <2> QED
    BY <2>2, <2>3, <2>4
<1>7. CASE k \in to /\ Grouped(k)
  <2>1. /\ \A j, m : InQueue(k, j, m)' <=> InQueue(k, j, m)
        /\ \A m : InDigest(k, m)' <=> InDigest(k, m) \/ m = submitted + 1
        /\ asked'[k] = asked[k] \cup {submitted + 1}
    BY <1>4, <1>7, SubmitQueued, SubmitDigest
  <2>2. Ordered(k)'
    BY <1>2, <1>5, <2>1 DEF Ordered
  <2>3. Numbered(k)'
    BY <1>1, <1>2, <1>5, <2>1 DEF Numbered
  <2>4. Kept(k)'
    BY <1>1, <1>2, <2>1 DEF Kept
  <2> QED
    BY <2>2, <2>3, <2>4
<1>8. CASE k \in to /\ ~Grouped(k)
  <2>1. /\ \A m : ~InDigest(k, m) /\ ~InDigest(k, m)'
        /\ asked'[k] = asked[k] \cup {submitted + 1}
    BY <1>4, <1>8, SubmitQueued, SubmitDigest
  <2>2. PICK last \in Nat : last > Len(queue) /\
          \A j, m : InQueue(k, j, m)' <=> InQueue(k, j, m) \/ (j = last /\ m = submitted + 1)
    BY <1>8, SubmitQueued
  <2>3. \A j, m : InQueue(k, j, m) => j < last
    <3>1. Len(queue) \in Nat
      BY DEF TypeOK
    <3> QED
      BY <1>5, <2>2, <3>1
  <2>4. Ordered(k)'
    <3>1. \A i, j, m, n : InQueue(k, i, m)' /\ InQueue(k, j, n)' /\ i < j => m < n
      <4> SUFFICES ASSUME NEW i, NEW j, NEW m, NEW n,
                          InQueue(k, i, m)', InQueue(k, j, n)', i < j
                   PROVE  m < n
        OBVIOUS
      <4>1. CASE InQueue(k, i, m) /\ InQueue(k, j, n)
        BY <4>1 DEF Ordered
      <4>2. CASE InQueue(k, i, m) /\ n = submitted + 1
        BY <1>5, <4>2
      <4>3. CASE i = last /\ InQueue(k, j, n)
        BY <1>5, <2>2, <2>3, <4>3
      <4>4. CASE i = last /\ j = last
        BY <2>2, <4>4
      <4> QED
        BY <2>2, <4>1, <4>2, <4>3, <4>4
    <3>2. \A i, j, m, n : InReached(k, i, m)' /\ InQueue(k, j, n)' => m < n
      BY <1>2, <1>5, <2>2 DEF Ordered
    <3>3. \A j, m, n : InSending(k, m)' /\ InQueue(k, j, n)' => m < n
      BY <1>2, <1>5, <2>2 DEF Ordered
    <3> QED
      BY <2>1, <3>1, <3>2, <3>3 DEF Ordered
  <2>5. Numbered(k)'
    BY <1>1, <1>2, <1>5, <2>1, <2>2 DEF Numbered
  <2>6. Kept(k)'
    BY <1>1, <1>2, <2>1, <2>2 DEF Kept
  <2> QED
    BY <2>4, <2>5, <2>6
<1> QED
  BY <1>6, <1>7, <1>8

LEMMA FlushLine ==
  ASSUME TypeOK, NEW f \in Recipients, FlushDue(f),
         NEW k \in Recipients, Ordered(k), Numbered(k), Kept(k)
  PROVE  Ordered(k)' /\ Numbered(k)' /\ Kept(k)'
<1>1. UNCHANGED <<submitted, sending, asked, reached, lost>>
  BY DEF FlushDue
<1>2. /\ \A i, m : InReached(k, i, m)' <=> InReached(k, i, m)
      /\ \A m : InSending(k, m)' <=> InSending(k, m)
  BY <1>1 DEF InReached, InSending
<1>3. CASE k # f
  <2>1. /\ \A j, m : InQueue(k, j, m)' <=> InQueue(k, j, m)
        /\ \A m : InDigest(k, m)' <=> InDigest(k, m)
    BY <1>3, FlushPlaces
  <2>2. Ordered(k)'
    BY <1>2, <2>1 DEF Ordered
  <2>3. Numbered(k)'
    BY <1>1, <1>2, <2>1 DEF Numbered
  <2>4. Kept(k)'
    BY <1>1, <1>2, <2>1 DEF Kept
  <2> QED
    BY <2>2, <2>3, <2>4
<1>4. CASE k = f
  <2>1. /\ \A m : ~InDigest(k, m)'
        /\ \A j, m : InQueue(k, j, m)' <=>
                       InQueue(k, j, m) \/ (j = Len(queue) + 1 /\ InDigest(k, m))
    BY <1>4, FlushPlaces
  <2>2. \A j, m : InQueue(k, j, m) => ~(Len(queue) + 1 < j) /\ j \in Int
    <3>1. Len(queue) \in Nat
      BY DEF TypeOK
    <3> QED
      BY <3>1, PlacesTyped
  <2>3. Ordered(k)'
    <3>1. \A i, j, m, n : InQueue(k, i, m)' /\ InQueue(k, j, n)' /\ i < j => m < n
      <4> SUFFICES ASSUME NEW i, NEW j, NEW m, NEW n,
                          InQueue(k, i, m)', InQueue(k, j, n)', i < j
                   PROVE  m < n
        OBVIOUS
      <4>1. CASE InQueue(k, i, m) /\ InQueue(k, j, n)
        BY <4>1 DEF Ordered
      <4>2. CASE InQueue(k, i, m) /\ InDigest(k, n)
        BY <4>2 DEF Ordered
      <4>3. CASE i = Len(queue) + 1
        <5>1. Len(queue) \in Nat
          BY DEF TypeOK
        <5> QED
          BY <2>1, <2>2, <4>3, <5>1
      <4> QED
        BY <2>1, <4>1, <4>2, <4>3
    <3>2. \A i, j, m, n : InReached(k, i, m)' /\ InQueue(k, j, n)' => m < n
      BY <1>2, <2>1 DEF Ordered
    <3>3. \A j, m, n : InSending(k, m)' /\ InQueue(k, j, n)' => m < n
      BY <1>2, <2>1 DEF Ordered
    <3> QED
      BY <2>1, <3>1, <3>2, <3>3 DEF Ordered
  <2>4. Numbered(k)'
    BY <1>1, <1>2, <2>1 DEF Numbered
  <2>5. Kept(k)'
    BY <1>1, <1>2, <2>1 DEF Kept
  <2> QED
    BY <2>3, <2>4, <2>5
<1> QED
  BY <1>3, <1>4

LEMMA TakeLine ==
  ASSUME TypeOK, Take, NEW k \in Recipients, Ordered(k), Numbered(k), Kept(k)
  PROVE  Ordered(k)' /\ Numbered(k)' /\ Kept(k)'
<1>1. UNCHANGED <<submitted, asked, digest, reached>>
  BY DEF Take, GiveUp
<1>2. /\ \A i, m : InReached(k, i, m)' <=> InReached(k, i, m)
      /\ \A m : InDigest(k, m)' <=> InDigest(k, m)
  BY <1>1 DEF InReached, InDigest
<1>3. /\ \A j, m : InQueue(k, j, m)' <=> j \in Nat \ {0} /\ InQueue(k, j + 1, m)
      /\ \A m : ~InSending(k, m)
  BY TakeQueue
<1>4. \A m : InSending(k, m)' => InQueue(k, 1, m)
  BY TakeHead
<1>5. ASSUME NEW m
      PROVE  (\E j : InQueue(k, j, m)) <=> InQueue(k, 1, m) \/ \E j : InQueue(k, j, m)'
  <2>1. ASSUME NEW j, InQueue(k, j, m), j # 1 PROVE InQueue(k, j - 1, m)'
    <3>1. j \in 1..Len(queue) /\ Len(queue) \in Nat
      BY <2>1, PlacesTyped DEF TypeOK
    <3>2. j - 1 \in Nat \ {0} /\ (j - 1) + 1 = j
      BY <2>1, <3>1
    <3> QED
      BY <1>3, <2>1, <3>2
  <2> QED
    BY <1>3, <2>1
<1>6. Ordered(k)'
  <2>1. \A i, j, m, n : InQueue(k, i, m)' /\ InQueue(k, j, n)' /\ i < j => m < n
    <3> SUFFICES ASSUME NEW i, NEW j, NEW m, NEW n,
                        InQueue(k, i, m)', InQueue(k, j, n)', i < j
                 PROVE  m < n
      OBVIOUS
    <3>1. InQueue(k, i + 1, m) /\ InQueue(k, j + 1, n) /\ i + 1 < j + 1
      BY <1>3
    <3> QED
      BY <3>1 DEF Ordered
  <2>2. \A j, m, n : InSending(k, m)' /\ InQueue(k, j, n)' => m < n
    <3> SUFFICES ASSUME NEW j, NEW m, NEW n, InSending(k, m)', InQueue(k, j, n)'
                 PROVE  m < n
      OBVIOUS
    <3>1. InQueue(k, 1, m) /\ InQueue(k, j + 1, n) /\ 1 < j + 1
      BY <1>3, <1>4
    <3> QED
      BY <3>1 DEF Ordered
  <2>3. \A i, j, m, n : InReached(k, i, m)' /\ InQueue(k, j, n)' => m < n
    BY <1>2, <1>3 DEF Ordered
  <2>4. \A m, n : InSending(k, m)' /\ InDigest(k, n)' => m < n
    BY <1>2, <1>4 DEF Ordered
  <2>5. \A j, m, n : InQueue(k, j, m)' /\ InDigest(k, n)' => m < n
    BY <1>2, <1>3 DEF Ordered
  <2>6. \A i, m, n : InReached(k, i, m)' /\ InDigest(k, n)' => m < n
    BY <1>2 DEF Ordered
  <2> QED
    BY <2>1, <2>2, <2>3, <2>4, <2>5, <2>6 DEF Ordered
<1>7. Numbered(k)'
  BY <1>1, <1>2, <1>3, <1>4 DEF Numbered
<1>8. Kept(k)'
  <2>1. CASE lost' = lost /\ \A m : InSending(k, m)' <=> InQueue(k, 1, m)
    BY <1>1, <1>2, <1>3, <1>5, <2>1 DEF Kept
  <2>2. CASE /\ \A m : ~InSending(k, m)'
             /\ \A m : m \in lost'[k] <=> m \in lost[k] \/ InQueue(k, 1, m)
    BY <1>1, <1>2, <1>3, <1>5, <2>2 DEF Kept
  <2> QED
    BY <2>1, <2>2, TakeHead
<1> QED
  BY <1>6, <1>7, <1>8

LEMMA SentLine ==
  ASSUME TypeOK, sending # <<>>, Reach(Head(sending)), sending' = <<>>,
         UNCHANGED <<submitted, asked, digest, queue, lost>>,
         NEW k \in Recipients, Ordered(k), Numbered(k), Kept(k)
  PROVE  Ordered(k)' /\ Numbered(k)' /\ Kept(k)'
<1>1. /\ \A j, m : InQueue(k, j, m)' <=> InQueue(k, j, m)
      /\ \A m : InDigest(k, m)' <=> InDigest(k, m)
      /\ \A m : ~InSending(k, m)'
  BY DEF InQueue, InDigest, InSending
<1>2. \A i, m : InReached(k, i, m)' =>  InReached(k, i, m) \/ InSending(k, m)
  BY ReachPlaces
<1>3. \A m : (\E i : InReached(k, i, m)') <=> (\E i : InReached(k, i, m)) \/ InSending(k, m)
  BY ReachPlaces
<1>4. Ordered(k)'
  BY <1>1, <1>2 DEF Ordered
<1>5. Numbered(k)'
  BY <1>1, <1>2 DEF Numbered
<1>6. Kept(k)'
  BY <1>1, <1>3 DEF Kept
<1> QED
  BY <1>4, <1>5, <1>6

LEMMA SendFailsLine ==
  ASSUME TypeOK, SendFails, NEW k \in Recipients, Ordered(k), Numbered(k), Kept(k)
  PROVE  Ordered(k)' /\ Numbered(k)' /\ Kept(k)'
<1>1. sending # <<>> /\ UNCHANGED <<submitted, asked, digest, queue>>
  BY FailCases
<1>2. /\ \A j, m : InQueue(k, j, m)' <=> InQueue(k, j, m)
      /\ \A m : InDigest(k, m)' <=> InDigest(k, m)
  BY <1>1 DEF InQueue, InDigest
<1>3. CASE sending' = sending /\ lost' = lost /\ (Reach(Head(sending)) \/ reached' = reached)
  <2>1. \A m : InSending(k, m)' <=> InSending(k, m)
    BY <1>3 DEF InSending
  <2>2. \A i, m : InReached(k, i, m)' =>  InReached(k, i, m) \/ InSending(k, m)
    <3>1. CASE Reach(Head(sending))
      BY <1>1, <3>1, ReachPlaces
    <3>2. CASE reached' = reached
      BY <3>2 DEF InReached
    <3> QED
      BY <1>3, <3>1, <3>2
  <2>3. \A m : (\E i : InReached(k, i, m)') \/ InSending(k, m) <=>
                 (\E i : InReached(k, i, m)) \/ InSending(k, m)
    <3>1. CASE Reach(Head(sending))
      BY <1>1, <3>1, ReachPlaces
    <3>2. CASE reached' = reached
      BY <3>2 DEF InReached
    <3> QED
      BY <1>3, <3>1, <3>2
  <2>4. Ordered(k)'
    BY <1>2, <2>1, <2>2 DEF Ordered
  <2>5. Numbered(k)'
    BY <1>1, <1>2, <2>1, <2>2 DEF Numbered
  <2>6. Kept(k)'
    BY <1>1, <1>2, <1>3, <2>1, <2>3 DEF Kept
  <2> QED
    BY <2>4, <2>5, <2>6
<1>4. CASE sending' = <<>> /\ GiveUp(Head(sending)) /\ reached' = reached
  <2>1. /\ \A m : ~InSending(k, m)'
        /\ \A i, m : InReached(k, i, m)' <=> InReached(k, i, m)
    BY <1>4 DEF InSending, InReached
  <2>2. \A m : m \in lost'[k] <=> m \in lost[k] \/ InSending(k, m)
    BY <1>1, <1>4, GiveUpPlaces
  <2>3. Ordered(k)'
    BY <1>2, <2>1 DEF Ordered
  <2>4. Numbered(k)'
    BY <1>1, <1>2, <2>1 DEF Numbered
  <2>5. Kept(k)'
    BY <1>1, <1>2, <2>1, <2>2 DEF Kept
  <2> QED
    BY <2>3, <2>4, <2>5
<1>5. CASE sending' = <<>> /\ Reach(Head(sending)) /\ lost' = lost
  BY <1>1, <1>5, SentLine
<1> QED
  BY <1>3, <1>4, <1>5, FailCases

LEMMA CrashLine ==
  ASSUME TypeOK, Crash, NEW k \in Recipients, Ordered(k), Numbered(k), Kept(k)
  PROVE  Ordered(k)' /\ Numbered(k)' /\ Kept(k)'
<1>1. /\ \A i, m : InReached(k, i, m)' <=> InReached(k, i, m)
      /\ \A j, m : ~InQueue(k, j, m)'
      /\ \A m : ~InSending(k, m)'
      /\ \A m : ~InDigest(k, m)'
      /\ asked'[k] = asked[k] /\ submitted' = submitted
  BY CrashPlaces DEF Crash
<1>2. \A m : m \in lost'[k] <=>
               \/ m \in lost[k] \/ InDigest(k, m) \/ (\E j : InQueue(k, j, m)) \/ InSending(k, m)
  BY CrashPlaces, WaitingPlaces
<1>3. Ordered(k)'
  BY <1>1 DEF Ordered
<1>4. Numbered(k)'
  BY <1>1 DEF Numbered
<1>5. Kept(k)'
  BY <1>1, <1>2 DEF Kept
<1> QED
  BY <1>3, <1>4, <1>5

LEMMA SameLine ==
  ASSUME TimePasses \/ UNCHANGED vars, NEW k, Ordered(k), Numbered(k), Kept(k)
  PROVE  Ordered(k)' /\ Numbered(k)' /\ Kept(k)'
<1>1. Ordered(k)'
  BY SamePlaces DEF Ordered
<1>2. Numbered(k)'
  BY SamePlaces DEF Numbered
<1>3. Kept(k)'
  BY SamePlaces DEF Kept
<1> QED
  BY <1>1, <1>2, <1>3

LEMMA LineStep ==
  ASSUME TypeOK, [Next]_vars, NEW k \in Recipients, Ordered(k), Numbered(k), Kept(k)
  PROVE  Ordered(k)' /\ Numbered(k)' /\ Kept(k)'
<1>1. CASE Sent
  BY <1>1, SentLine DEF Sent
<1> QED
  BY <1>1, SubmitLine, FlushLine, TakeLine, SendFailsLine, CrashLine, SameLine DEF Next, Work

-----------------------------------------------------------------------------
(* Messages arrive in the order of the queue. *)

LEMMA ReachOrder ==
  ASSUME TypeOK, OrderKept, SendingOrdered, sending # <<>>, Reach(Head(sending)),
         sending' = sending \/ sending' = <<>>
  PROVE  OrderKept' /\ SendingOrdered'
<1>1. PICK job \in Jobs : job = Head(sending)
  <2>1. sending \in Seq(SentJobs) /\ SentJobs \subseteq Jobs
    BY NotifierAssumption DEF TypeOK, SentJobs, Jobs
  <2> QED
    BY <2>1
<1>2. PICK to \in Recipients, s \in Seq(Numbers) : to = job.to /\ s = job.items
  BY <1>1 DEF Jobs
<1>3. reached' = [reached EXCEPT ![to] = Append(@, s)]
  BY <1>1, <1>2 DEF Reach
<1>4. /\ reached \in [Recipients -> Seq(Seq(Numbers))] /\ reached[to] \in Seq(Seq(Numbers))
      /\ Len(reached[to]) \in Nat /\ DOMAIN reached[to] = 1..Len(reached[to])
  BY DEF TypeOK
<1>5. /\ reached'[to] = Append(reached[to], s)
      /\ \A k \in Recipients : k # to => reached'[k] = reached[k]
  BY <1>3, <1>4
<1>6. /\ DOMAIN reached'[to] = 1..(Len(reached[to]) + 1)
      /\ reached'[to][Len(reached[to]) + 1] = s
      /\ \A i \in 1..Len(reached[to]) : reached'[to][i] = reached[to][i]
  BY <1>4, <1>5
<1>7. ASSUME NEW i \in 1..Len(reached[to])
      PROVE  reached[to][i] = s \/ \A m \in Items(reached[to][i]), n \in Items(s) : m < n
  BY <1>1, <1>2, <1>4 DEF SendingOrdered
<1>8. OrderKept'
  <2> SUFFICES ASSUME NEW k \in Recipients, NEW i \in DOMAIN reached'[k],
                      NEW j \in DOMAIN reached'[k], i < j
               PROVE  \/ reached'[k][i] = reached'[k][j]
                      \/ \A m \in Items(reached'[k][i]), n \in Items(reached'[k][j]) : m < n
    BY DEF OrderKept, Items
  <2>1. CASE k # to
    BY <1>5, <2>1 DEF OrderKept
  <2>2. CASE k = to /\ j \in 1..Len(reached[to])
    <3>1. i \in 1..Len(reached[to])
      BY <1>4, <1>6, <2>2
    <3> QED
      BY <1>4, <1>6, <2>2, <3>1 DEF OrderKept
  <2>3. CASE k = to /\ j \notin 1..Len(reached[to])
    <3>1. j = Len(reached[to]) + 1 /\ i \in 1..Len(reached[to])
      BY <1>4, <1>6, <2>3
    <3> QED
      BY <1>6, <1>7, <2>3, <3>1
  <2> QED
    BY <2>1, <2>2, <2>3
<1>9. SendingOrdered'
  <2>1. CASE sending' = <<>>
    BY <2>1 DEF SendingOrdered
  <2>2. CASE sending' = sending
    <3>1. Head(sending').to = to /\ Head(sending').items = s
      BY <1>1, <1>2, <2>2
    <3>2. ASSUME NEW i \in DOMAIN reached'[to]
          PROVE  \/ reached'[to][i] = s
                 \/ \A m \in Items(reached'[to][i]), n \in Items(s) : m < n
      BY <1>4, <1>6, <1>7
    <3> QED
      BY <3>1, <3>2 DEF SendingOrdered, Items
  <2> QED
    BY <2>1, <2>2
<1> QED
  BY <1>8, <1>9

LEMMA StillOrder ==
  ASSUME OrderKept, SendingOrdered, reached' = reached, sending' = sending \/ sending' = <<>>
  PROVE  OrderKept' /\ SendingOrdered'
<1>1. OrderKept'
  BY DEF OrderKept, Items
<1>2. SendingOrdered'
  <2>1. CASE sending' = <<>>
    BY <2>1 DEF SendingOrdered
  <2>2. CASE sending' = sending
    BY <2>2 DEF SendingOrdered, Items
  <2> QED
    BY <2>1, <2>2
<1> QED
  BY <1>1, <1>2

LEMMA TakeOrder ==
  ASSUME TypeOK, Take, OrderKept, \A k \in Recipients : Ordered(k)
  PROVE  OrderKept' /\ SendingOrdered'
<1>1. reached' = reached /\ sending = <<>>
  BY DEF Take, GiveUp
<1>2. OrderKept'
  BY <1>1 DEF OrderKept, Items
<1>3. SendingOrdered'
  <2>1. CASE sending' = <<>>
    BY <2>1 DEF SendingOrdered
  <2>2. CASE sending' # <<>>
    <3>1. sending' = <<Head(queue)>> /\ queue \in Seq(Jobs) /\ queue # <<>>
      BY <1>1, <2>2 DEF Take, TypeOK, Jobs
    <3>2. PICK job \in Jobs : job = queue[1] /\ 1 \in DOMAIN queue /\ Head(sending') = job
      BY <3>1
    <3>3. job.to \in Recipients
      BY DEF Jobs
    <3>4. \A i, m, n : InReached(job.to, i, m) /\ InQueue(job.to, 1, n) => m < n
      BY <3>3 DEF Ordered
    <3>5. \A i \in DOMAIN reached[job.to] :
            \A m \in Items(reached[job.to][i]), n \in Items(job.items) : m < n
      BY <3>2, <3>4 DEF InReached, InQueue
    <3> QED
      BY <1>1, <3>2, <3>5 DEF SendingOrdered, Items
  <2> QED
    BY <2>1, <2>2
<1> QED
  BY <1>2, <1>3

LEMMA OrderStep ==
  ASSUME TypeOK, [Next]_vars, OrderKept, SendingOrdered, \A k \in Recipients : Ordered(k)
  PROVE  OrderKept' /\ SendingOrdered'
<1>1. ASSUME NEW to \in SUBSET Recipients, NEW single \in Orders, Submit(to, single)
      PROVE  OrderKept' /\ SendingOrdered'
  BY <1>1, StillOrder DEF Submit
<1>2. ASSUME NEW k \in Recipients, FlushDue(k) PROVE OrderKept' /\ SendingOrdered'
  BY <1>2, StillOrder DEF FlushDue
<1>3. CASE Sent
  BY <1>3, ReachOrder DEF Sent
<1>4. CASE SendFails
  <2>1. CASE Reach(Head(sending))
    BY <1>4, <2>1, FailCases, ReachOrder
  <2>2. CASE reached' = reached
    BY <1>4, <2>2, FailCases, StillOrder
  <2> QED
    BY <1>4, <2>1, <2>2, FailCases
<1>5. CASE Crash \/ TimePasses \/ UNCHANGED vars
  BY <1>5, StillOrder DEF Crash, TimePasses, vars
<1> QED
  BY <1>1, <1>2, <1>3, <1>4, <1>5, TakeOrder DEF Next, Work

-----------------------------------------------------------------------------
(* The window of a recipient. *)

(* What is left of the window after its old messages have gone. *)
LEMMA RecentlySorted ==
  ASSUME TypeOK, NEW k \in Recipients, Sorted(k)
  PROVE  \A i, j \in 1..Len(Recently(k)) :
           i <= j => Recently(k)[i] <= Recently(k)[j] /\ Recently(k)[j] <= now
<1>1. PICK c : c = Cardinality(Older(k, Window))
  OBVIOUS
<1>2. c \in 0..Len(recent[k]) /\ Len(recent[k]) \in Nat /\ DOMAIN recent[k] = 1..Len(recent[k])
  BY <1>1, OlderCount DEF TypeOK
<1>3. /\ Len(Recently(k)) = Len(recent[k]) - c
      /\ \A i \in 1..(Len(recent[k]) - c) : Recently(k)[i] = recent[k][c + i]
  BY <1>1, RecentlyProperties
<1>4. \A i, j \in 1..(Len(recent[k]) - c) :
        i <= j => /\ c + i \in DOMAIN recent[k] /\ c + j \in DOMAIN recent[k]
                  /\ c + i <= c + j
  BY <1>2
<1> QED
  BY <1>3, <1>4 DEF Sorted

LEMMA RecentlyWindowed ==
  ASSUME TypeOK, NEW k \in Recipients, Sorted(k), Windowed(k), failures = 0
  PROVE  /\ Len(Recently(k)) <= Len(alone[k])
         /\ \A i \in 1..Len(Recently(k)) :
              Recently(k)[i] = alone[k][Len(alone[k]) - Len(Recently(k)) + i]
         /\ \A i \in 1..(Len(alone[k]) - Len(Recently(k))) : now - alone[k][i] >= Window
<1>1. PICK c : c = Cardinality(Older(k, Window))
  OBVIOUS
<1>2. PICK l \in Nat, n \in Nat : l = Len(recent[k]) /\ n = Len(alone[k])
  BY DEF TypeOK
<1>3. c \in 0..l /\ DOMAIN recent[k] = 1..l
  BY <1>1, <1>2, OlderCount DEF TypeOK
<1>q. PICK q \in Nat : q = l - c
  BY <1>2, <1>3
<1>4. Len(Recently(k)) = q /\ \A i \in 1..q : Recently(k)[i] = recent[k][c + i]
  BY <1>1, <1>2, <1>q, RecentlyProperties
<1>5. /\ l <= n
      /\ \A i \in 1..l : recent[k][i] = alone[k][n - l + i]
      /\ \A i \in 1..(n - l) : now - alone[k][i] >= Window
  BY <1>2, <1>3 DEF Windowed
<1>6. \A i \in 1..c : now - recent[k][i] >= Window
  BY <1>1, OlderFirst
<1>7. ASSUME NEW i \in 1..q PROVE Recently(k)[i] = alone[k][n - q + i]
  <2>1. c + i \in 1..l /\ n - l + (c + i) = n - q + i
    BY <1>3, <1>q
  <2> QED
    BY <1>4, <1>5, <2>1
<1>8. ASSUME NEW i \in 1..(n - q) PROVE now - alone[k][i] >= Window
  <2>1. CASE i \in 1..(n - l)
    BY <1>5, <2>1
  <2>2. CASE i \notin 1..(n - l)
    <3>1. i - (n - l) \in 1..c /\ i - (n - l) \in 1..l /\ n - l + (i - (n - l)) = i
      BY <1>3, <1>5, <1>q, <2>2
    <3> QED
      BY <1>5, <1>6, <3>1
  <2> QED
    BY <2>1, <2>2
<1>9. q <= n
  BY <1>3, <1>5, <1>q
<1> QED
  BY <1>2, <1>4, <1>7, <1>8, <1>9

(* A message in a digest only lets the old ones leave the window. *)
LEMMA GroupedWindow ==
  ASSUME TypeOK, NEW k \in Recipients, Sorted(k), Windowed(k), Spaced(k),
         recent'[k] = Recently(k), UNCHANGED <<now, failures>>, alone'[k] = alone[k]
  PROVE  Sorted(k)' /\ Windowed(k)' /\ Spaced(k)'
<1>1. Recently(k) \in Seq(0..MaxTime) /\ DOMAIN recent'[k] = 1..Len(Recently(k))
  BY RecentlyProperties
<1>2. Sorted(k)'
  BY <1>1, RecentlySorted DEF Sorted
<1>3. Windowed(k)'
  BY <1>1, RecentlyWindowed DEF Windowed
<1>4. Spaced(k)'
  BY DEF Spaced
<1> QED
  BY <1>2, <1>3, <1>4

(* A message that leaves alone is the last of the window. *)
LEMMA AloneWindow ==
  ASSUME TypeOK, NEW k \in Recipients, Sorted(k), Windowed(k), Spaced(k), ~Grouped(k),
         recent'[k] = Append(Recently(k), now), UNCHANGED <<now, failures>>,
         alone'[k] = Append(alone[k], now)
  PROVE  Sorted(k)' /\ Windowed(k)' /\ Spaced(k)'
<1>1. PICK r \in Seq(0..MaxTime), a \in Seq(0..MaxTime) : r = Recently(k) /\ a = alone[k]
  BY RecentlyProperties DEF TypeOK
<1>2. PICK l \in Nat, n \in Nat : l = Len(r) /\ n = Len(a)
  OBVIOUS
<1>3. /\ DOMAIN recent'[k] = 1..(l + 1) /\ Len(recent'[k]) = l + 1 /\ recent'[k][l + 1] = now
      /\ \A i \in 1..l : recent'[k][i] = r[i]
  BY <1>1, <1>2
<1>4. /\ DOMAIN alone'[k] = 1..(n + 1) /\ Len(alone'[k]) = n + 1 /\ alone'[k][n + 1] = now
      /\ \A i \in 1..n : alone'[k][i] = a[i]
  BY <1>1, <1>2
<1>5. now \in Nat /\ Threshold \in Nat /\ Window \in Nat
  BY NotifierAssumption DEF TypeOK
<1>6. Sorted(k)'
  <2>1. \A i, j \in 1..l : i <= j => r[i] <= r[j] /\ r[j] <= now
    BY <1>1, <1>2, RecentlySorted
  <2>2. ASSUME NEW i \in 1..(l + 1), NEW j \in 1..(l + 1), i <= j
        PROVE  recent'[k][i] <= recent'[k][j] /\ recent'[k][j] <= now
    <3>1. CASE j \in 1..l
      <4>1. i \in 1..l
        BY <2>2, <3>1
      <4> QED
        BY <1>3, <2>1, <2>2, <3>1, <4>1
    <3>2. CASE j = l + 1 /\ i \in 1..l
      <4>1. r[i] <= now
        BY <1>2, <2>1, <3>2
      <4> QED
        BY <1>2, <1>3, <1>5, <3>2, <4>1
    <3>3. CASE j = l + 1 /\ i = l + 1
      BY <1>3, <1>5, <3>3
    <3>4. j \in 1..l \/ (j = l + 1 /\ i \in 1..l) \/ (j = l + 1 /\ i = l + 1)
      OBVIOUS
    <3> QED
      BY <3>1, <3>2, <3>3, <3>4, Zenon
  <2> QED
    BY <1>3, <2>2 DEF Sorted
<1>7. CASE failures # 0
  BY <1>6, <1>7 DEF Windowed, Spaced
<1>8. CASE failures = 0
  <2>1. /\ l <= n
        /\ \A i \in 1..l : r[i] = a[n - l + i]
        /\ \A i \in 1..(n - l) : now - a[i] >= Window
    BY <1>1, <1>2, <1>8, RecentlyWindowed
  <2>2. Windowed(k)'
    <3>1. ASSUME NEW i \in 1..(l + 1) PROVE recent'[k][i] = alone'[k][(n + 1) - (l + 1) + i]
      <4>1. CASE i \in 1..l
        <5>1. n - l + i \in 1..n /\ (n + 1) - (l + 1) + i = n - l + i
          BY <2>1, <4>1
        <5> QED
          BY <1>3, <1>4, <2>1, <4>1, <5>1
      <4>2. CASE i = l + 1
        <5>1. (n + 1) - (l + 1) + i = n + 1
          BY <1>2, <4>2
        <5> QED
          BY <1>3, <1>4, <4>2, <5>1
      <4>3. i \in 1..l \/ i = l + 1
        OBVIOUS
      <4> QED
        BY <4>1, <4>2, <4>3, Zenon
    <3>2. ASSUME NEW i \in 1..((n + 1) - (l + 1)) PROVE now - alone'[k][i] >= Window
      <4>1. i \in 1..(n - l) /\ i \in 1..n
        OBVIOUS
      <4> QED
        BY <1>4, <2>1, <4>1
    <3>3. l + 1 <= n + 1
      BY <2>1
    <3> QED
      BY <1>3, <1>4, <3>1, <3>2, <3>3 DEF Windowed
  <2>3. Spaced(k)'
    <3>1. l < Threshold
      BY <1>1, <1>2, <1>5 DEF Grouped
    <3>2. \A i \in 1..n : i > Threshold => a[i] - a[i - Threshold] >= Window
      BY <1>1, <1>2, <1>8 DEF Spaced
    <3>3. ASSUME NEW i \in 1..(n + 1), i > Threshold
          PROVE  alone'[k][i] - alone'[k][i - Threshold] >= Window
      <4>1. i - Threshold \in 1..n
        BY <1>5, <3>1, <3>3
      <4>2. CASE i \in 1..n
        BY <1>4, <3>2, <3>3, <4>1, <4>2
      <4>3. CASE i = n + 1
        <5>1. i - Threshold \in 1..(n - l)
          BY <1>5, <2>1, <3>1, <3>3, <4>3
        <5> QED
          BY <1>4, <2>1, <4>1, <4>3, <5>1
      <4>4. i \in 1..n \/ i = n + 1
        OBVIOUS
      <4> QED
        BY <4>2, <4>3, <4>4, Zenon
    <3> QED
      BY <1>4, <3>3 DEF Spaced
  <2> QED
    BY <1>6, <2>2, <2>3
<1> QED
  BY <1>7, <1>8

LEMMA WindowStep ==
  ASSUME TypeOK, [Next]_vars, NEW k \in Recipients, Sorted(k), Windowed(k), Spaced(k)
  PROVE  Sorted(k)' /\ Windowed(k)' /\ Spaced(k)'
<1>1. ASSUME recent'[k] = recent[k], alone'[k] = alone[k], UNCHANGED <<now, failures>>
      PROVE  Sorted(k)' /\ Windowed(k)' /\ Spaced(k)'
  BY <1>1 DEF Sorted, Windowed, Spaced
<1>2. ASSUME NEW to \in SUBSET Recipients, NEW single \in Orders, Submit(to, single)
      PROVE  Sorted(k)' /\ Windowed(k)' /\ Spaced(k)'
  <2>1. UNCHANGED <<now, failures>> /\ (k \in Items(single) <=> k \in to /\ ~Grouped(k))
    BY <1>2 DEF Submit
  <2>2. recent'[k] = IF k \notin to THEN recent[k]
                     ELSE IF Grouped(k) THEN Recently(k) ELSE Append(Recently(k), now)
    BY <1>2 DEF Submit
  <2>3. alone'[k] = IF k \in Items(single) THEN Append(alone[k], now) ELSE alone[k]
    BY <1>2 DEF Submit
  <2>4. CASE k \notin to
    BY <1>1, <2>1, <2>2, <2>3, <2>4
  <2>5. CASE k \in to /\ Grouped(k)
    BY <2>1, <2>2, <2>3, <2>5, GroupedWindow
  <2>6. CASE k \in to /\ ~Grouped(k)
    BY <2>1, <2>2, <2>3, <2>6, AloneWindow
  <2> QED
    BY <2>4, <2>5, <2>6
<1>3. CASE Work \/ UNCHANGED vars
  BY <1>1, <1>3 DEF Work, Take, Sent, FlushDue, vars
<1>4. CASE SendFails \/ Crash
  <2>1. failures' # 0 /\ now' = now
    BY <1>4 DEF SendFails, Crash, Fail, TypeOK
  <2>2. Sorted(k)'
    <3>1. CASE SendFails
      BY <3>1 DEF Sorted, SendFails
    <3>2. CASE Crash
      <4>1. recent'[k] = <<>>
        BY <3>2 DEF Crash
      <4> QED
        BY <4>1 DEF Sorted
    <3> QED
      BY <1>4, <3>1, <3>2
  <2> QED
    BY <2>1, <2>2 DEF Windowed, Spaced
<1>5. CASE TimePasses
  <2>1. UNCHANGED <<recent, alone, failures>> /\ now' = now + 1 /\ now \in Nat
    BY <1>5 DEF TimePasses, TypeOK
  <2>2. recent[k] \in Seq(0..MaxTime) /\ alone[k] \in Seq(0..MaxTime)
    BY DEF TypeOK
  <2>3. Sorted(k)'
    <3>1. \A i \in DOMAIN recent[k] : recent[k][i] \in Int
      BY <2>2, NotifierAssumption
    <3>2. \A i \in DOMAIN recent[k] : recent[k][i] <= now => recent[k][i] <= now + 1
      BY <2>1, <3>1
    <3> QED
      BY <2>1, <3>2 DEF Sorted
  <2>4. Windowed(k)'
    <3>1. Len(alone[k]) - Len(recent[k]) \in Int /\ Len(recent[k]) \in Nat /\ Len(alone[k]) \in Nat
      BY <2>2
    <3>2. \A i \in 1..Len(alone[k]) : alone[k][i] \in Int
      BY <2>2, NotifierAssumption
    <3>3. Window \in Int
      BY NotifierAssumption
    <3>4. ASSUME NEW i \in 1..(Len(alone[k]) - Len(recent[k])), now - alone[k][i] >= Window
          PROVE  (now + 1) - alone[k][i] >= Window
      <4>1. i \in 1..Len(alone[k])
        BY <3>1
      <4>2. alone[k][i] \in Int
        BY <3>2, <4>1
      <4> QED
        BY <2>1, <3>3, <3>4, <4>2
    <3> QED
      BY <2>1, <3>4 DEF Windowed
  <2>5. Spaced(k)'
    BY <2>1 DEF Spaced
  <2> QED
    BY <2>3, <2>4, <2>5
<1> QED
  BY <1>2, <1>3, <1>4, <1>5 DEF Next

-----------------------------------------------------------------------------
LEMMA InitNotifier == Init => NotifierInv
<1> SUFFICES ASSUME Init PROVE NotifierInv
  OBVIOUS
<1>1. TypeOK
  BY InitTypes
<1>2. sending = <<>> /\ queue = <<>> /\ \A k \in Recipients : reached[k] = <<>>
  BY DEF Init
<1>3. OrderKept /\ SendingOrdered
  BY <1>2 DEF OrderKept, SendingOrdered
<1>4. ASSUME NEW k \in Recipients
      PROVE  Ordered(k) /\ Numbered(k) /\ Kept(k) /\ Sorted(k) /\ Windowed(k) /\ Spaced(k)
  <2>1. /\ \A i, m : ~InReached(k, i, m)
        /\ \A j, m : ~InQueue(k, j, m)
        /\ \A m : ~InSending(k, m)
    BY <1>2 DEF InReached, InQueue, InSending
  <2>2. \A m : ~InDigest(k, m)
    BY ItemsOne DEF InDigest, Init, NoDigest
  <2>3. /\ asked[k] = {} /\ lost[k] = {}
        /\ recent[k] = <<>> /\ alone[k] = <<>>
    BY DEF Init
  <2>4. Ordered(k)
    BY <2>1, <2>2 DEF Ordered
  <2>5. Numbered(k)
    BY <2>1, <2>2 DEF Numbered
  <2>6. Kept(k)
    BY <2>1, <2>2, <2>3 DEF Kept
  <2>7. Sorted(k) /\ Spaced(k)
    BY <2>3 DEF Sorted, Spaced
  <2>8. Windowed(k)
    BY <2>3 DEF Windowed
  <2> QED
    BY <2>4, <2>5, <2>6, <2>7, <2>8
<1> QED
  BY <1>1, <1>3, <1>4 DEF NotifierInv

LEMMA NotifierStep == NotifierInv /\ [Next]_vars => NotifierInv'
<1> SUFFICES ASSUME NotifierInv, [Next]_vars PROVE NotifierInv'
  OBVIOUS
<1>1. /\ TypeOK /\ OrderKept /\ SendingOrdered
      /\ \A k \in Recipients :
           Ordered(k) /\ Numbered(k) /\ Kept(k) /\ Sorted(k) /\ Windowed(k) /\ Spaced(k)
  BY DEF NotifierInv
<1>2. TypeOK'
  BY <1>1, TypesStep
<1>3. OrderKept' /\ SendingOrdered'
  BY <1>1, OrderStep
<1>4. ASSUME NEW k \in Recipients
      PROVE  (Ordered(k) /\ Numbered(k) /\ Kept(k) /\ Sorted(k) /\ Windowed(k) /\ Spaced(k))'
  BY <1>1, LineStep, WindowStep
<1> QED
  BY <1>2, <1>3, <1>4 DEF NotifierInv

(* The places of a notification and the window of a recipient are as       *)
(* described above, whatever the senders, the clock and the crashes do.    *)
THEOREM NotifierInvHolds == Spec => []NotifierInv
  BY InitNotifier, NotifierStep, PTL DEF Spec

(* Of two messages a recipient gets, the later one repeats the first one   *)
(* or holds only later notifications (_route, flush_due, _deliver).        *)
THEOREM OrderKeptHolds == Spec => []OrderKept
<1>1. NotifierInv => OrderKept
  BY DEF NotifierInv
<1> QED
  BY NotifierInvHolds, <1>1, PTL

(* A notification waits, has arrived or was given up (_route, flush_due,   *)
(* _deliver).                                                              *)
THEOREM NothingForgottenHolds == Spec => []NothingForgotten
<1>1. NotifierInv => NothingForgotten
  <2> SUFFICES ASSUME NotifierInv, NEW k \in Recipients
               PROVE  asked[k] = Waiting(k) \cup lost[k]
                                 \cup UNION {Items(s) : s \in Items(reached[k])}
    BY DEF NothingForgotten
  <2>1. TypeOK /\ Kept(k)
    BY DEF NotifierInv
  <2>2. ASSUME NEW m
        PROVE  m \in UNION {Items(s) : s \in Items(reached[k])} <=> \E i : InReached(k, i, m)
    <3>1. \A s : s \in Items(reached[k]) <=> \E i \in DOMAIN reached[k] : s = reached[k][i]
      BY DEF Items
    <3> QED
      BY <3>1 DEF InReached
  <2>3. \A m : m \in Waiting(k) <=>
                 InDigest(k, m) \/ (\E j : InQueue(k, j, m)) \/ InSending(k, m)
    BY <2>1, WaitingPlaces
  <2>4. \A m : m \in asked[k] <=>
                 m \in Waiting(k) \cup lost[k] \cup UNION {Items(s) : s \in Items(reached[k])}
    BY <2>1, <2>2, <2>3 DEF Kept
  <2> QED
    BY <2>4
<1> QED
  BY NotifierInvHolds, <1>1, PTL

(* Without a failure at most Threshold messages leave alone in any window  *)
(* (_route): what the window has dropped is too old to count.              *)
THEOREM NotFloodedHolds == Spec => []NotFlooded
<1>1. NotifierInv => NotFlooded
  BY DEF NotifierInv, NotFlooded, Spaced
<1> QED
  BY NotifierInvHolds, <1>1, PTL

-----------------------------------------------------------------------------
(* As long as no send fails and the service does not stop, what goes to a  *)
(* recipient goes once: a message holds only notifications that are later  *)
(* than those of the messages before it (run, _deliver).                   *)
ArrivesOnce ==
  failures = 0 => \A k \in Recipients : \A i, j \in DOMAIN reached[k] : i < j =>
    \A m \in Items(reached[k][i]), n \in Items(reached[k][j]) : m < n

(* The job under way is later than what arrived: it was not sent before. *)
SendsNew ==
  failures = 0 /\ sending # <<>> =>
    \A i \in DOMAIN reached[Head(sending).to] :
      \A m \in Items(reached[Head(sending).to][i]), n \in Items(Head(sending).items) : m < n

LEMMA SentOnce ==
  ASSUME TypeOK, ArrivesOnce, SendsNew, Sent
  PROVE  ArrivesOnce' /\ SendsNew'
<1>0. sending # <<>> /\ Reach(Head(sending)) /\ sending' = <<>> /\ failures' = failures
  BY DEF Sent
<1>1. PICK job \in Jobs : job = Head(sending)
  <2>1. sending \in Seq(SentJobs) /\ SentJobs \subseteq Jobs
    BY NotifierAssumption DEF TypeOK, SentJobs, Jobs
  <2> QED
    BY <1>0, <2>1
<1>2. PICK to \in Recipients, s \in Seq(Numbers) : to = job.to /\ s = job.items
  BY <1>1 DEF Jobs
<1>3. reached' = [reached EXCEPT ![to] = Append(@, s)]
  BY <1>0, <1>1, <1>2 DEF Reach
<1>4. /\ reached \in [Recipients -> Seq(Seq(Numbers))] /\ reached[to] \in Seq(Seq(Numbers))
      /\ Len(reached[to]) \in Nat /\ DOMAIN reached[to] = 1..Len(reached[to])
  BY DEF TypeOK
<1>5. /\ reached'[to] = Append(reached[to], s)
      /\ \A k \in Recipients : k # to => reached'[k] = reached[k]
  BY <1>3, <1>4
<1>6. /\ DOMAIN reached'[to] = 1..(Len(reached[to]) + 1)
      /\ reached'[to][Len(reached[to]) + 1] = s
      /\ \A i \in 1..Len(reached[to]) : reached'[to][i] = reached[to][i]
  BY <1>4, <1>5
<1>7. ASSUME failures = 0, NEW i \in 1..Len(reached[to])
      PROVE  \A m \in Items(reached[to][i]), n \in Items(s) : m < n
  BY <1>0, <1>1, <1>2, <1>4, <1>7 DEF SendsNew
<1>8. ArrivesOnce'
  <2> SUFFICES ASSUME failures = 0, NEW k \in Recipients, NEW i \in DOMAIN reached'[k],
                      NEW j \in DOMAIN reached'[k], i < j
               PROVE  \A m \in Items(reached'[k][i]), n \in Items(reached'[k][j]) : m < n
    BY <1>0 DEF ArrivesOnce, Items
  <2>1. CASE k # to
    BY <1>5, <2>1 DEF ArrivesOnce
  <2>2. CASE k = to /\ j \in 1..Len(reached[to])
    <3>1. i \in 1..Len(reached[to])
      BY <1>4, <1>6, <2>2
    <3> QED
      BY <1>4, <1>6, <2>2, <3>1 DEF ArrivesOnce
  <2>3. CASE k = to /\ j \notin 1..Len(reached[to])
    <3>1. j = Len(reached[to]) + 1 /\ i \in 1..Len(reached[to])
      BY <1>4, <1>6, <2>3
    <3> QED
      BY <1>6, <1>7, <2>3, <3>1
  <2> QED
    BY <2>1, <2>2, <2>3
<1>9. SendsNew'
  BY <1>0 DEF SendsNew
<1> QED
  BY <1>8, <1>9

LEMMA TakeOnce ==
  ASSUME TypeOK, Take, ArrivesOnce, \A k \in Recipients : Ordered(k)
  PROVE  ArrivesOnce' /\ SendsNew'
<1>1. reached' = reached /\ sending = <<>> /\ failures' = failures
  BY DEF Take, GiveUp
<1>2. ArrivesOnce'
  BY <1>1 DEF ArrivesOnce, Items
<1>3. SendsNew'
  <2>1. CASE sending' = <<>>
    BY <2>1 DEF SendsNew
  <2>2. CASE sending' # <<>>
    <3>1. sending' = <<Head(queue)>> /\ queue \in Seq(Jobs) /\ queue # <<>>
      BY <1>1, <2>2 DEF Take, TypeOK, Jobs
    <3>2. PICK job \in Jobs : job = queue[1] /\ 1 \in DOMAIN queue /\ Head(sending') = job
      BY <3>1
    <3>3. job.to \in Recipients
      BY DEF Jobs
    <3>4. \A i, m, n : InReached(job.to, i, m) /\ InQueue(job.to, 1, n) => m < n
      BY <3>3 DEF Ordered
    <3>5. \A i \in DOMAIN reached[job.to] :
            \A m \in Items(reached[job.to][i]), n \in Items(job.items) : m < n
      BY <3>2, <3>4 DEF InReached, InQueue
    <3> SUFFICES ASSUME failures' = 0, sending' # <<>>,
                        NEW i \in DOMAIN reached'[Head(sending').to],
                        NEW m \in Items(reached'[Head(sending').to][i]),
                        NEW n \in Items(Head(sending').items)
                 PROVE  m < n
      BY DEF SendsNew, Items
    <3> QED
      BY <1>1, <3>2, <3>5
  <2> QED
    BY <2>1, <2>2
<1> QED
  BY <1>2, <1>3

LEMMA OnceStep ==
  NotifierInv /\ ArrivesOnce /\ SendsNew /\ [Next]_vars => ArrivesOnce' /\ SendsNew'
<1> SUFFICES ASSUME NotifierInv, ArrivesOnce, SendsNew, [Next]_vars
             PROVE  ArrivesOnce' /\ SendsNew'
  OBVIOUS
<1>1. TypeOK /\ \A k \in Recipients : Ordered(k)
  BY DEF NotifierInv
<1>2. CASE UNCHANGED <<failures, reached, sending>>
  <2>1. ArrivesOnce'
    BY <1>2 DEF ArrivesOnce, Items
  <2>2. SendsNew'
    <3> SUFFICES ASSUME failures' = 0, sending' # <<>>,
                        NEW i \in DOMAIN reached'[Head(sending').to],
                        NEW m \in Items(reached'[Head(sending').to][i]),
                        NEW n \in Items(Head(sending').items)
                 PROVE  m < n
      BY DEF SendsNew, Items
    <3> QED
      BY <1>2 DEF SendsNew
  <2> QED
    BY <2>1, <2>2
<1>3. CASE SendFails \/ Crash
  <2>1. failures' = failures + 1 /\ failures \in Nat
    BY <1>1, <1>3 DEF SendFails, Crash, Fail, TypeOK
  <2>2. failures' # 0
    BY <2>1
  <2> QED
    BY <2>2 DEF ArrivesOnce, SendsNew
<1>4. ASSUME NEW to \in SUBSET Recipients, NEW single \in Orders, Submit(to, single)
      PROVE  UNCHANGED <<failures, reached, sending>>
  BY <1>4 DEF Submit
<1>5. ASSUME NEW k \in Recipients, FlushDue(k) PROVE UNCHANGED <<failures, reached, sending>>
  BY <1>5 DEF FlushDue
<1>6. CASE TimePasses \/ UNCHANGED vars
  BY <1>2, <1>6 DEF TimePasses, vars
<1> QED
  BY <1>1, <1>2, <1>3, <1>4, <1>5, <1>6, SentOnce, TakeOnce DEF Next, Work

(* Without failures nothing is sent twice, whatever digests, recipients    *)
(* and channels: with NothingForgotten, every notification that leaves     *)
(* memory arrives exactly once, or has no sender (run, _deliver).          *)
THEOREM ArrivesOnceHolds == Spec => []ArrivesOnce
<1>1. Init => ArrivesOnce /\ SendsNew
  BY DEF Init, ArrivesOnce, SendsNew
<1> QED
  BY <1>1, OnceStep, NotifierInvHolds, PTL DEF Spec

-----------------------------------------------------------------------------
(* A digest is never due later than a window from now (_route, flush_due). *)
Timely(k) == digest[k] # NoDigest => digest[k].due <= now + Window

LEMMA DueAtBounds ==
  ASSUME TypeOK, NEW k \in Recipients, Sorted(k)
  PROVE  DueAt(k) <= now + Window
<1>1. now \in Nat /\ Window \in Nat
  BY NotifierAssumption DEF TypeOK
<1>2. CASE Recently(k) = <<>>
  BY <1>1, <1>2 DEF DueAt
<1>3. CASE Recently(k) # <<>>
  <2>1. Recently(k) \in Seq(0..MaxTime)
    BY RecentlyProperties
  <2>2. PICK r \in Seq(0..MaxTime) : r = Recently(k)
    BY <2>1
  <2>3. Head(r) = r[1] /\ 1 \in 1..Len(r) /\ r[1] \in 0..MaxTime
    <3>1. r # <<>>
      BY <1>3, <2>2
    <3>2. Head(r) \in 0..MaxTime
      BY <3>1, HeadTailProperties
    <3>3. Len(r) \in Nat /\ Head(r) = r[1]
      OBVIOUS
    <3>4. Len(r) # 0
      BY <3>1, EmptySeq
    <3> QED
      BY <3>2, <3>3, <3>4
  <2>4. r[1] <= now
    BY <2>2, <2>3, RecentlySorted
  <2>5. DueAt(k) = Window + r[1]
    BY <1>3, <2>2, <2>3 DEF DueAt
  <2> QED
    BY <1>1, <2>3, <2>4, <2>5
<1> QED
  BY <1>2, <1>3

LEMMA TimelyStep ==
  ASSUME TypeOK, [Next]_vars, NEW k \in Recipients, Sorted(k), Timely(k)
  PROVE  Timely(k)'
<1>0. now \in Nat /\ Window \in Nat
  BY NotifierAssumption DEF TypeOK
<1>1. CASE digest'[k] = digest[k] /\ now' = now
  BY <1>1 DEF Timely, NoDigest
<1>2. CASE digest'[k] = NoDigest
  BY <1>2 DEF Timely, NoDigest
<1>3. ASSUME NEW to \in SUBSET Recipients, NEW single \in Orders, Submit(to, single)
      PROVE  Timely(k)'
  <2>1. now' = now /\ (digest'[k] = digest[k] \/ digest'[k] = DigestWith(k, submitted + 1))
    BY <1>3 DEF Submit
  <2>2. CASE digest[k] # NoDigest
    <3>1. DigestWith(k, submitted + 1).due = digest[k].due
      BY <2>2 DEF DigestWith, TypeOK
    <3>2. digest'[k].due = digest[k].due
      BY <2>1, <3>1
    <3> QED
      BY <2>1, <2>2, <3>2 DEF Timely
  <2>3. CASE digest[k] = NoDigest
    <3>1. DigestWith(k, submitted + 1).due = DueAt(k)
      BY <2>3 DEF DigestWith
    <3>2. CASE digest'[k] = digest[k]
      BY <1>1, <2>1, <3>2
    <3>3. CASE digest'[k] = DigestWith(k, submitted + 1)
      BY <2>1, <3>1, <3>3, DueAtBounds DEF Timely
    <3> QED
      BY <2>1, <3>2, <3>3
  <2> QED
    BY <2>2, <2>3
<1>4. ASSUME NEW f \in Recipients, FlushDue(f) PROVE Timely(k)'
  <2>1. now' = now /\ (digest'[k] = digest[k] \/ digest'[k] = NoDigest)
    BY <1>4 DEF FlushDue, TypeOK
  <2> QED
    BY <1>1, <1>2, <2>1
<1>5. CASE TimePasses
  <2>1. digest' = digest /\ now' = now + 1
    BY <1>5 DEF TimePasses
  <2>2. digest[k].due \in Int
    BY NotifierAssumption DEF TypeOK
  <2>3. CASE digest[k] = NoDigest
    BY <1>2, <2>1, <2>3
  <2>4. CASE digest[k] # NoDigest
    <3>1. digest[k].due <= now' + Window
      BY <1>0, <2>1, <2>2, <2>4 DEF Timely
    <3> QED
      BY <2>1, <3>1 DEF Timely
  <2> QED
    BY <2>3, <2>4
<1>6. CASE Crash
  BY <1>2, <1>6 DEF Crash
<1>7. CASE Take \/ Sent \/ SendFails \/ UNCHANGED vars
  BY <1>1, <1>7 DEF Take, Sent, SendFails, vars
<1> QED
  BY <1>3, <1>4, <1>5, <1>6, <1>7 DEF Next, Work

(* What still waits is in the hands of the worker, or in a digest whose    *)
(* time comes within a window: neither submissions, however many, nor      *)
(* failures put a digest off (_route, flush_due, run).  This is the safety *)
(* core of EverythingLeaves.                                               *)
SomethingToDo ==
  \A k \in Recipients : Waiting(k) # {} =>
    \/ sending # <<>> \/ queue # <<>>
    \/ digest[k] # NoDigest /\ digest[k].due <= now + Window

(* Whatever waits has a step of run or of flush_due within a window.       *)
THEOREM SomethingToDoHolds == Spec => []SomethingToDo
<1> DEFINE AllTimely == \A k \in Recipients : Timely(k)
<1>1. Init => AllTimely
  BY DEF Init, Timely
<1>2. NotifierInv /\ AllTimely /\ [Next]_vars => AllTimely'
  BY TimelyStep DEF NotifierInv
<1>3. NotifierInv /\ AllTimely => SomethingToDo
  <2> SUFFICES ASSUME NotifierInv, AllTimely, NEW k \in Recipients, Waiting(k) # {},
                      sending = <<>>, queue = <<>>
               PROVE  digest[k] # NoDigest /\ digest[k].due <= now + Window
    BY DEF SomethingToDo
  <2>1. PICK m : m \in Waiting(k)
    OBVIOUS
  <2>2. \A j : ~InQueue(k, j, m)
    BY DEF InQueue
  <2>3. InDigest(k, m)
    BY <2>1, <2>2, WaitingPlaces DEF NotifierInv, InSending
  <2>4. digest[k] # NoDigest
    BY <2>3, ItemsOne DEF InDigest, NoDigest
  <2> QED
    BY <2>4 DEF Timely
<1> HIDE DEF AllTimely
<1> QED
  BY <1>1, <1>2, <1>3, NotifierInvHolds, PTL DEF Spec

=============================================================================

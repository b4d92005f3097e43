--------------------------- MODULE CollectorProofs ---------------------------
(***************************************************************************)
(* Theorems about the collector: when a device goes offline, for any       *)
(* number of points, cycles, discoveries, failed calls and restarts        *)
(* (Collector), and the deadlines of COV and of the poller, for any number *)
(* of points and mishaps and every setting that CovAssumption allows       *)
(* (Cov).                                                                  *)
(***************************************************************************)
EXTENDS Collector, Cov, TLAPS

-----------------------------------------------------------------------------
(* The deadlines.                                                          *)
(*                                                                         *)
(* The lifetime the collector counts is the one the device counts, as long *)
(* as the device stayed (Fresh).  Of a point whose safety poll was put off *)
(* the time since the last subscription is known from either deadline, and *)
(* a tick conserves both sums (Postponed): where the safety poll comes     *)
(* before the renewal, it cannot be put off twice.                         *)

CovTypes ==
  /\ reach \in BOOLEAN /\ online \in BOOLEAN /\ supports \in BOOLEAN
  /\ attempt \in 0..Interval
  /\ subs \in [Points -> Nat] /\ expires \in [Points -> Nat]
  /\ due \in [Points -> 0..Longest] /\ interval \in [Points -> 0..Longest]
  /\ retry \in [Points -> Nat] /\ active \in [Points -> BOOLEAN]
  /\ broken \in [Points -> BOOLEAN] /\ unread \in [Points -> Nat]
  /\ call \in [point : Capable \cup {0}, renewing : BOOLEAN]

(* A subscription is asked for of a device that supports it. *)
Asked == call.point /= 0 => supports /\ (~call.renewing => ~active[call.point])

(* The device still counts the lifetime of the subscription to p. *)
Fresh(p) ==
  active[p] /\ ~broken[p] =>
    /\ reach /\ supports /\ p \in Capable
    /\ subs[p] = expires[p]
    /\ online => subs[p] > 0
    /\ ~online => subs[p] + attempt >= Lifetime

CovInv == CovTypes /\ Asked /\ \A p \in Points : Fresh(p)

(* No poll has come since the last subscription to p.  *)
Postponed(p) ==
  /\ active[p]
  /\ unread[p] + due[p] <= Longest + Safety
  /\ Lifetime - expires[p] = Safety - due[p]

Waits(p) ==
  IF online THEN unread[p] + due[p] <= Longest \/ Postponed(p) ELSE unread[p] = 0

(* No time passes between a request and its answer. *)
Answerable ==
  call.point /= 0 /\ online => unread[call.point] + due[call.point] <= Longest

PollInv == CovInv /\ Answerable /\ \A p \in Points : Waits(p)

-----------------------------------------------------------------------------
(* Longest is one of the three settings it is made of and bounds them all. *)
LEMMA LongestBounds ==
  Longest \in Nat /\ Interval <= Longest /\ MaxInterval <= Longest /\ Safety <= Longest
BY CovAssumption DEF Longest, Most

LEMMA InitCov == Init => CovInv
<1> SUFFICES ASSUME Init PROVE CovInv
  OBVIOUS
<1> USE CovAssumption, LongestBounds
<1>1. CovTypes
  BY DEF Init, CovTypes, All, NoCall
<1>2. call.point = 0
  BY DEF Init, NoCall
<1>3. \A p \in Points : ~active[p]
  BY DEF Init, All
<1>4. \A p \in Points : Fresh(p)
  BY <1>3 DEF Fresh
<1> QED
  BY <1>1, <1>2, <1>4 DEF CovInv, Asked

LEMMA InitPoll == Init => PollInv
<1> SUFFICES ASSUME Init PROVE PollInv
  OBVIOUS
<1>1. CovInv /\ call.point = 0 /\ online
  BY InitCov DEF Init, NoCall
<1>2. ASSUME NEW p \in Points PROVE unread[p] + due[p] <= Longest
  <2>1. unread[p] = 0 /\ due[p] \in Int /\ due[p] <= Interval
    BY CovAssumption DEF Init, All
  <2> QED
    BY <2>1, LongestBounds, CovAssumption
<1> QED
  BY <1>1, <1>2 DEF PollInv, Answerable, Waits

(* When nothing is due, a tick takes no deadline below zero; an offline    *)
(* device has been probed within the interval.                             *)
LEMMA NothingDue ==
  ASSUME DuePoints = {}
  PROVE  /\ online => \A p \in Points : due[p] /= 0
         /\ ~online => ~(attempt >= Interval)
<1>1. ASSUME online, NEW p \in Points, due[p] = 0 PROVE FALSE
  BY <1>1 DEF DuePoints
<1>2. ASSUME ~online, attempt >= Interval PROVE FALSE
  BY <1>2 DEF DuePoints
<1> QED
  BY <1>1, <1>2

(* The two outcomes of a cycle without answer. *)
LEMMA LostCases ==
  ASSUME CovTypes, PollLost
  PROVE  /\ attempt' = 0 /\ UNCHANGED <<reach, subs, supports, interval, expires, retry, call, broken>>
         /\ ~reach
         /\ \/ /\ online /\ online' = FALSE
               /\ active' = All(FALSE) /\ due' = interval /\ unread' = All(0)
            \/ /\ online' = online /\ active' = active
               /\ due' = [p \in Points |-> IF p \in DuePoints THEN IntervalOf(p) ELSE due[p]]
               /\ unread' = [p \in Points |-> IF p \in DuePoints THEN 0 ELSE unread[p]]
<1>1. attempt' = 0 /\ UNCHANGED <<reach, subs, supports, interval, expires, retry, call, broken>> /\ ~reach
  BY DEF PollLost, device
<1>2. CASE online /\ ~(failures' < OfflineAfter)
  <2>1. online' = FALSE
    BY <1>2, Zenon DEF PollLost
  <2>2. active' = All(FALSE) /\ unread' = All(0) /\ due' = [p \in Points |-> interval[p]]
    BY <1>2, <2>1 DEF PollLost, All
  <2>3. due' = interval
    BY <2>2 DEF CovTypes
  <2> QED
    BY <1>1, <1>2, <2>1, <2>2, <2>3
<1>3. CASE ~(online /\ ~(failures' < OfflineAfter))
  <2>1. online' = online
    BY <1>3 DEF PollLost, CovTypes
  <2>2. ~(online /\ ~online')
    BY <2>1
  <2>3. active' = active
    BY <2>2 DEF PollLost
  <2>4. /\ due' = [p \in Points |-> IF p \in DuePoints THEN IntervalOf(p) ELSE due[p]]
        /\ unread' = [p \in Points |-> IF p \in DuePoints THEN 0 ELSE unread[p]]
    BY <2>2 DEF PollLost
  <2> QED
    BY <1>1, <2>1, <2>3, <2>4
<1> QED
  BY <1>2, <1>3

LEMMA IntervalBound ==
  ASSUME NEW p \in Points, CovTypes
  PROVE  IntervalOf(p) \in 0..Longest
BY CovAssumption, LongestBounds DEF IntervalOf, CovTypes

LEMMA AllTyped ==
  /\ All(FALSE) \in [Points -> BOOLEAN] /\ All(TRUE) \in [Points -> BOOLEAN]
  /\ All(0) \in [Points -> Nat]
BY DEF All

LEMMA TypesStep ==
  ASSUME CovInv, [Next]_vars
  PROVE  CovTypes'
<1> USE CovAssumption, LongestBounds DEF CovInv, CovTypes
<1>n. NoCall \in [point : Capable \cup {0}, renewing : BOOLEAN]
  BY DEF NoCall
<1>1. CASE PollAnswered
  <2>1. \A p \in Points : IntervalOf(p) \in 0..Longest
    BY IntervalBound
  <2>2. due' \in [Points -> 0..Longest]
    BY <1>1, <2>1 DEF PollAnswered, All
  <2>3. CASE online
    BY <1>1, <2>2, <2>3 DEF PollAnswered, device
  <2>4. CASE ~online
    <3>1. active' = All(FALSE) /\ retry' = All(0)
      BY <1>1, <2>4 DEF PollAnswered
    <3>2. active' \in [Points -> BOOLEAN] /\ retry' \in [Points -> Nat]
      BY <3>1, AllTyped
    <3> QED
      BY <1>1, <2>2, <3>2 DEF PollAnswered, device
  <2> QED
    BY <2>3, <2>4
<1>2. CASE PollLost
  <2>1. \A p \in Points : IntervalOf(p) \in 0..Longest
    BY IntervalBound
  <2> QED
    <3>1. online' \in BOOLEAN /\ active' \in [Points -> BOOLEAN]
      BY <1>2, LostCases, AllTyped
    <3>2. due' \in [Points -> 0..Longest] /\ unread' \in [Points -> Nat]
      <4>1. CASE due' = interval /\ unread' = All(0)
        BY <4>1 DEF All
      <4>2. CASE /\ due' = [p \in Points |-> IF p \in DuePoints THEN IntervalOf(p) ELSE due[p]]
                 /\ unread' = [p \in Points |-> IF p \in DuePoints THEN 0 ELSE unread[p]]
        BY <4>2, <2>1
      <4> QED
        BY <1>2, <4>1, <4>2, LostCases
    <3>3. /\ attempt' = 0 /\ UNCHANGED <<reach, subs, supports, interval, expires, retry, call, broken>>
      BY <1>2, LostCases
    <3> QED
      BY <3>1, <3>2, <3>3
<1>3. ASSUME NEW p \in Points, Request(p) PROVE CovTypes'
  BY <1>3 DEF Request, ToSubscribe, device, state, point
<1>4. ASSUME NEW p \in Points, Notify(p) PROVE CovTypes'
  BY <1>4 DEF Notify, device, point
<1>5. CASE Accepted
  <2>0. \A p \in Points : DueSubscribed(p) \in 0..Longest
    BY DEF DueSubscribed, Most
  <2>1. due' \in [Points -> 0..Longest]
    <3>1. call.point \in Points /\ due' = [due EXCEPT ![call.point] = DueSubscribed(call.point)]
      BY <1>5, Zenon DEF Accepted
    <3>2. DueSubscribed(call.point) \in 0..Longest
      BY <3>1, <2>0, Zenon
    <3> QED
      BY <3>1, <3>2
  <2>2. broken' \in [Points -> BOOLEAN] /\ active' \in [Points -> BOOLEAN]
    BY <1>5 DEF Accepted
  <2> QED
    BY <1>5, <1>n, <2>1, <2>2 DEF Accepted, state
<1>6. CASE Unanswered
  <2>1. subs' \in [Points -> Nat]
    BY <1>6 DEF Unanswered
  <2> QED
    BY <1>6, <1>n, <2>1 DEF Unanswered, state, point
<1>7. ASSUME NEW kind \in {"error", "reject"}, Refused(kind) PROVE CovTypes'
  <2>1. due' \in [Points -> 0..Longest] /\ retry' \in [Points -> Nat]
    BY <1>7 DEF Refused
  <2>2. broken' \in [Points -> BOOLEAN] /\ active' \in [Points -> BOOLEAN]
    BY <1>7 DEF Refused, All
  <2>3. supports' \in BOOLEAN
    BY <1>7 DEF Refused
  <2> QED
    BY <1>7, <1>n, <2>1, <2>2, <2>3 DEF Refused, device, state
<1>8. CASE Rediscover
  BY <1>8 DEF Rediscover, device, state, point
<1>9. CASE Flip
  BY <1>9 DEF Flip, All, state, point
<1>10. CASE Reboot
  BY <1>10 DEF Reboot, All, state, point
<1>11. CASE Tick
  <2>1. \A n \in Nat : Less(n) \in Nat /\ Less(n) <= n
    BY DEF Less
  <2>2. due' \in [Points -> 0..Longest]
    BY <1>11, <2>1 DEF Tick
  <2>3. expires' \in [Points -> Nat] /\ retry' \in [Points -> Nat] /\ subs' \in [Points -> Nat]
    BY <1>11, <2>1 DEF Tick
  <2>4. unread' \in [Points -> Nat] /\ attempt' \in 0..Interval
    BY <1>11 DEF Tick
  <2> QED
    BY <1>11, <2>2, <2>3, <2>4 DEF Tick
<1>12. ASSUME NEW p \in Points, Reload(p) PROVE CovTypes'
  <2>1. \A n \in 1..MaxInterval : n \in 0..Longest /\ DueReloaded(p, n) \in 0..Longest
    BY DEF DueReloaded
  <2>2. PICK n \in 1..MaxInterval : /\ interval' = [interval EXCEPT ![p] = n]
                                    /\ due' = [due EXCEPT ![p] = DueReloaded(p, n)]
    BY <1>12 DEF Reload
  <2>3. interval' \in [Points -> 0..Longest] /\ due' \in [Points -> 0..Longest]
    BY <2>1, <2>2
  <2> QED
    BY <1>12, <2>3 DEF Reload, device, state
<1>13. CASE UNCHANGED vars
  BY <1>13 DEF vars, device, state, point
<1> QED
  BY <1>1, <1>2, <1>3, <1>4, <1>5, <1>6, <1>7, <1>8, <1>9, <1>10, <1>11, <1>12, <1>13 DEF Next, Answers

LEMMA AskedStep ==
  ASSUME CovInv, [Next]_vars
  PROVE  Asked'
<1> USE CovAssumption DEF CovInv, CovTypes, Asked
<1>0. ASSUME call' = NoCall PROVE Asked'
  BY <1>0 DEF NoCall
<1>1. CASE PollAnswered
  <2>1. UNCHANGED <<supports, call>>
    BY <1>1 DEF PollAnswered
  <2>2. active' = active \/ active' = All(FALSE)
    BY <1>1 DEF PollAnswered
  <2> QED
    BY <2>1, <2>2 DEF All
<1>2. CASE PollLost
  BY <1>2, LostCases DEF All
<1>3. ASSUME NEW p \in Points, Request(p) PROVE Asked'
  BY <1>3 DEF Request, ToSubscribe, point
<1>4. ASSUME NEW p \in Points, Notify(p) \/ Reload(p) PROVE Asked'
  BY <1>4 DEF Notify, Reload, point
<1>5. CASE Accepted \/ Unanswered \/ \E kind \in {"error", "reject"} : Refused(kind)
  BY <1>0, <1>5 DEF Accepted, Unanswered, Refused
<1>6. CASE Rediscover \/ Flip \/ Reboot \/ Tick \/ UNCHANGED vars
  BY <1>6 DEF Rediscover, Flip, Reboot, Tick, vars, point
<1> QED
  BY <1>1, <1>2, <1>3, <1>4, <1>5, <1>6 DEF Next, Answers

LEMMA FreshStep ==
  ASSUME CovInv, CovTypes', [Next]_vars, NEW p \in Points
  PROVE  Fresh(p)'
<1> USE CovAssumption
<1>f. Fresh(p)
  BY DEF CovInv
<1>t. CovTypes
  BY DEF CovInv
<1>1. CASE PollAnswered
  <2>1. UNCHANGED <<reach, subs, supports, expires, broken>>
    BY <1>1 DEF PollAnswered, device
  <2>2. CASE online
    <3>1. active' = active /\ online' = TRUE
      BY <1>1, <2>2 DEF PollAnswered
    <3> QED
      BY <1>f, <2>1, <2>2, <3>1 DEF Fresh
  <2>3. CASE ~online
    <3>1. ~active'[p]
      BY <1>1, <2>3 DEF PollAnswered, All
    <3> QED
      BY <3>1 DEF Fresh
  <2> QED
    BY <2>2, <2>3
<1>2. CASE PollLost
  <2>1. ~reach /\ broken' = broken
    BY <1>2, LostCases, <1>t
  <2>2. active[p] => broken[p]
    BY <1>f, <2>1 DEF Fresh
  <2>3. active'[p] => active[p]
    BY <1>2, <1>t, LostCases DEF All
  <2> QED
    BY <2>1, <2>2, <2>3 DEF Fresh
<1>3. ASSUME NEW q \in Points, Request(q) PROVE Fresh(p)'
  BY <1>3, <1>f DEF Fresh, Request, device, state, point
<1>4. ASSUME NEW q \in Points, Notify(q) \/ Reload(q) PROVE Fresh(p)'
  BY <1>4, <1>f DEF Fresh, Notify, Reload, device, state, point
<1>5. CASE Accepted
  <2>1. UNCHANGED <<reach, online, attempt, supports>>
    BY <1>5 DEF Accepted, state
  <2>2. CASE p = call.point
    <3>1. supports /\ p \in Capable
      BY <1>t, <2>2 DEF CovInv, Asked, CovTypes
    <3>2. subs'[p] = Lifetime /\ expires'[p] = Lifetime /\ broken'[p] = ~reach
      BY <1>5, <1>t, <2>2 DEF Accepted, CovTypes
    <3>3. Lifetime > 0 /\ attempt \in Nat
      BY <1>t DEF CovTypes
    <3>4. ~broken'[p] => reach
      BY <3>2, Zenon
    <3> QED
      BY <2>1, <3>1, <3>2, <3>3, <3>4 DEF Fresh
  <2>3. CASE p /= call.point
    <3>1. /\ subs'[p] = subs[p] /\ expires'[p] = expires[p]
          /\ broken'[p] = broken[p] /\ active'[p] = active[p]
      BY <1>5, <1>t, <2>3 DEF Accepted, CovTypes
    <3> QED
      BY <1>f, <2>1, <3>1 DEF Fresh
  <2> QED
    BY <2>2, <2>3
<1>6. CASE Unanswered
  <2>1. ~reach /\ UNCHANGED <<active, broken>>
    BY <1>6 DEF Unanswered, point
  <2> QED
    BY <1>f, <2>1 DEF Fresh
<1>7. ASSUME NEW kind \in {"error", "reject"}, Refused(kind) PROVE Fresh(p)'
  <2>1. UNCHANGED <<reach, subs, online, attempt, expires>>
    BY <1>7 DEF Refused, device, state
  <2>2. active'[p] => active[p]
    BY <1>7, <1>t DEF Refused, CovTypes
  <2>3. CASE kind = "reject"
    <3>1. broken'[p]
      BY <1>7, <2>3 DEF Refused, All
    <3> QED
      BY <3>1 DEF Fresh
  <2>4. CASE kind = "error"
    <3>1. (supports => supports') /\ broken' = broken
      BY <1>7, <2>4 DEF Refused
    <3> QED
      BY <1>f, <2>1, <2>2, <3>1 DEF Fresh
  <2> QED
    BY <2>3, <2>4
<1>8. CASE Rediscover
  BY <1>8, <1>f DEF Fresh, Rediscover, device, state, point
<1>9. CASE Flip \/ Reboot
  <2>1. broken'[p]
    BY <1>9 DEF Flip, Reboot, All
  <2> QED
    BY <2>1 DEF Fresh
<1>10. CASE Tick
  <2>1. UNCHANGED <<reach, online, supports, active, broken>>
    BY <1>10 DEF Tick
  <2>2. subs'[p] = Less(subs[p]) /\ expires'[p] = Less(expires[p])
    BY <1>10 DEF Tick
  <2>3. subs[p] \in Nat /\ expires[p] \in Nat /\ attempt \in 0..Interval
    BY <1>t DEF CovTypes
  <2>4. ASSUME active[p], ~broken[p], online PROVE subs'[p] > 0
    <3>1. ~ToSubscribe(p)
      BY <1>10, <1>f, <2>4 DEF Tick, Fresh
    <3>2. ~RenewDue(p)
      BY <1>f, <2>4, <3>1 DEF ToSubscribe, Fresh
    <3>3. subs[p] = expires[p] /\ ~(expires[p] <= RenewBefore)
      BY <1>f, <2>4, <3>2 DEF RenewDue, Fresh
    <3> QED
      BY <2>2, <2>3, <3>3 DEF Less
  <2>5. ASSUME active[p], ~broken[p], ~online PROVE subs'[p] + attempt' >= Lifetime
    <3>1. attempt < Interval
      BY <1>10, <2>3, <2>5, NothingDue DEF Tick
    <3>2. attempt' = attempt + 1
      BY <1>10, <3>1 DEF Tick
    <3>3. subs[p] + attempt >= Lifetime
      BY <1>f, <2>5 DEF Fresh
    <3> QED
      BY <2>2, <2>3, <3>1, <3>2, <3>3 DEF Less
  <2>6. active[p] /\ ~broken[p] => reach /\ supports /\ p \in Capable /\ subs'[p] = expires'[p]
    BY <1>f, <2>2, Zenon DEF Fresh
  <2> QED
    BY <2>1, <2>4, <2>5, <2>6, Zenon DEF Fresh
<1>11. CASE UNCHANGED vars
  BY <1>11, <1>f DEF Fresh, vars, device, state, point
<1> QED
  BY <1>1, <1>2, <1>3, <1>4, <1>5, <1>6, <1>7, <1>8, <1>9, <1>10, <1>11 DEF Next, Answers

THEOREM CovInvHolds == Spec => []CovInv
<1>1. CovInv /\ [Next]_vars => CovInv'
  <2> SUFFICES ASSUME CovInv, [Next]_vars PROVE CovInv'
    OBVIOUS
  <2>1. CovTypes' /\ Asked'
    BY TypesStep, AskedStep
  <2>2. \A p \in Points : Fresh(p)'
    BY <2>1, FreshStep
  <2> QED
    BY <2>1, <2>2 DEF CovInv
<1> QED
  BY InitCov, <1>1, PTL DEF Spec

(* Whatever the device forgets, refuses or loses, a subscription held as   *)
(* active is alive at a device that stayed: the manager renews it before   *)
(* it expires, for any lifetime and margin, provided that an offline       *)
(* device is probed within a lifetime (CovManager.service, Poller).        *)
THEOREM RenewedInTimeHolds == ASSUME ProbeFirst PROVE Spec => []RenewedInTime
<1>1. CovInv => RenewedInTime
  <2> SUFFICES ASSUME CovInv, NEW p \in Points, active[p], ~broken[p] PROVE subs[p] > 0
    BY DEF RenewedInTime
  <2>1. Fresh(p) /\ attempt \in 0..Interval /\ subs[p] \in Nat
    BY DEF CovInv, CovTypes
  <2> QED
    BY <2>1, CovAssumption, ProbeFirst DEF Fresh, ProbeFirst
<1> QED
  BY CovInvHolds, <1>1, PTL

-----------------------------------------------------------------------------
(* A point that keeps its deadline and subscription keeps waiting, one     *)
(* that was read starts again.                                             *)
LEMMA WaitsKept ==
  ASSUME NEW p \in Points, Waits(p), online' = online,
         UNCHANGED <<due[p], active[p], unread[p]>>, active[p] => expires'[p] = expires[p]
  PROVE  Waits(p)'
BY DEF Waits, Postponed

LEMMA WaitsAgain ==
  ASSUME CovTypes', NEW p \in Points, unread'[p] = 0
  PROVE  Waits(p)'
BY LongestBounds DEF CovTypes, Waits

LEMMA IntervalAgain ==
  ASSUME CovTypes, CovTypes', NEW p \in Points, unread'[p] = 0
  PROVE  unread'[p] + due'[p] <= Longest
BY LongestBounds DEF CovTypes

(* What a cycle does to the deadline of p. *)
LEMMA CycleCases ==
  ASSUME PollInv, PollAnswered \/ PollLost, NEW p \in Points
  PROVE  /\ UNCHANGED <<expires, call>>
         /\ \/ unread'[p] = 0
            \/ online' = online /\ UNCHANGED <<due[p], active[p], unread[p]>>
<1>t. CovTypes /\ Waits(p)
  BY DEF PollInv, CovInv
<1>1. CASE PollAnswered
  <2>0. UNCHANGED <<expires, call>>
    BY <1>1 DEF PollAnswered
  <2>1. CASE online
    <3>1. active' = active /\ online' = TRUE
      BY <1>1, <2>1 DEF PollAnswered
    <3>2. CASE p \in DuePoints
      BY <1>1, <2>0, <3>2 DEF PollAnswered
    <3>3. CASE p \notin DuePoints
      <4>1. unread'[p] = unread[p] /\ due'[p] = due[p]
        BY <1>1, <2>1, <3>3 DEF PollAnswered
      <4> QED
        BY <2>0, <2>1, <3>1, <4>1
    <3> QED
      BY <3>2, <3>3
  <2>2. CASE ~online
    <3>1. unread[p] = 0
      BY <1>t, <2>2 DEF Waits
    <3>2. unread'[p] = 0
      BY <1>1, <3>1 DEF PollAnswered
    <3> QED
      BY <2>0, <3>2
  <2> QED
    BY <2>1, <2>2
<1>2. CASE PollLost
  <2>1. UNCHANGED <<expires, call>>
    BY <1>2, <1>t, LostCases
  <2>2. CASE unread' = All(0)
    BY <2>1, <2>2 DEF All
  <2>3. CASE /\ online' = online /\ active' = active
             /\ due' = [q \in Points |-> IF q \in DuePoints THEN IntervalOf(q) ELSE due[q]]
             /\ unread' = [q \in Points |-> IF q \in DuePoints THEN 0 ELSE unread[q]]
    <3>1. CASE p \in DuePoints
      BY <2>1, <2>3, <3>1
    <3>2. CASE p \notin DuePoints
      <4>1. unread'[p] = unread[p] /\ due'[p] = due[p]
        BY <2>3, <3>2
      <4> QED
        BY <2>1, <2>3, <4>1
    <3> QED
      BY <3>1, <3>2
  <2> QED
    BY <1>2, <1>t, <2>2, <2>3, LostCases
<1> QED
  BY <1>1, <1>2

(* A reload plans an earlier deadline, and only for a point without        *)
(* subscription.                                                           *)
LEMMA ReloadCases ==
  ASSUME CovTypes, NEW q \in Points, Reload(q), NEW p \in Points
  PROVE  /\ UNCHANGED <<online, active, expires, call, unread>>
         /\ due'[p] <= due[p] /\ (active[p] => due'[p] = due[p])
<1>1. UNCHANGED <<online, active, expires, call, unread>>
  BY DEF Reload, state
<1>2. PICK n \in 1..MaxInterval : due' = [due EXCEPT ![q] = DueReloaded(q, n)]
  BY DEF Reload
<1>3. due[p] \in Int /\ due[q] \in Int /\ n \in Int
  BY CovAssumption, LongestBounds DEF CovTypes
<1>4. DueReloaded(q, n) <= due[q] /\ (active[q] => DueReloaded(q, n) = due[q])
  BY <1>3 DEF DueReloaded
<1>5. CASE p = q
  <2>1. due'[p] = DueReloaded(q, n)
    BY <1>2, <1>5 DEF CovTypes
  <2> QED
    BY <1>1, <1>4, <1>5, <2>1
<1>6. CASE p /= q
  <2>1. due'[p] = due[p]
    BY <1>2, <1>6 DEF CovTypes
  <2> QED
    BY <1>1, <1>3, <2>1
<1> QED
  BY <1>5, <1>6

(* A tick takes one from the deadline of a point of an online device.      *)
LEMMA TickCases ==
  ASSUME CovTypes, Tick, online, NEW p \in Points
  PROVE  /\ UNCHANGED <<online, active>> /\ call' = NoCall
         /\ due[p] \in Nat /\ due[p] > 0 /\ due'[p] = due[p] - 1
         /\ unread'[p] <= unread[p] + 1 /\ unread'[p] \in Nat /\ unread[p] \in Nat
         /\ expires[p] \in Nat /\ (expires[p] > 0 => expires'[p] = expires[p] - 1)
<1>1. UNCHANGED <<online, active>> /\ call' = NoCall
  BY DEF Tick
<1>2. /\ due'[p] = Less(due[p]) /\ expires'[p] = Less(expires[p])
      /\ unread'[p] = IF unread[p] <= Longest + Safety THEN unread[p] + 1 ELSE unread[p]
  BY DEF Tick
<1>3. due[p] \in Nat /\ expires[p] \in Nat /\ unread[p] \in Nat
  BY LongestBounds DEF CovTypes
<1>4. due[p] > 0
  BY <1>3, NothingDue DEF Tick
<1>5. due'[p] = due[p] - 1 /\ (expires[p] > 0 => expires'[p] = expires[p] - 1)
  BY <1>2, <1>3, <1>4 DEF Less
<1>6. unread'[p] <= unread[p] + 1 /\ unread'[p] \in Nat
  <2>1. unread'[p] = unread[p] + 1 \/ unread'[p] = unread[p]
    BY <1>2
  <2> QED
    BY <1>3, <2>1
<1> QED
  BY <1>1, <1>3, <1>4, <1>5, <1>6

LEMMA AnswerableStep ==
  ASSUME SafetyFirst, PollInv, CovTypes', [Next]_vars
  PROVE  Answerable'
<1> USE CovAssumption, LongestBounds
<1>t. CovTypes /\ Answerable /\ \A p \in Points : Waits(p)
  BY DEF PollInv, CovInv
<1>0. ASSUME call' = NoCall PROVE Answerable'
  BY <1>0 DEF Answerable, NoCall
<1>c. PICK c \in Capable \cup {0} : c = call.point
  BY <1>t DEF CovTypes
<1>d. c /= 0 => c \in Points
  BY <1>c
<1>e. c /= 0 /\ online => unread[c] + due[c] <= Longest
  BY <1>t, <1>c DEF Answerable
<1>k. ASSUME call' = call, c /= 0 /\ online' => unread'[c] + due'[c] <= Longest
      PROVE  Answerable'
  BY <1>c, <1>k DEF Answerable
<1>1. CASE PollAnswered \/ PollLost
  <2>1. call' = call
    BY <1>1, <1>t DEF PollAnswered, PollLost
  <2>2. ASSUME c /= 0, online' PROVE unread'[c] + due'[c] <= Longest
    <3>1. CASE unread'[c] = 0
      BY <1>d, <1>t, <2>2, <3>1, IntervalAgain
    <3>2. CASE online' = online /\ UNCHANGED <<due[c], unread[c]>>
      BY <1>e, <2>2, <3>2
    <3> QED
      BY <1>1, <1>d, <2>2, <3>1, <3>2, CycleCases
  <2> QED
    BY <1>k, <2>1, <2>2
<1>2. ASSUME NEW p \in Points, Request(p) PROVE Answerable'
  <2>1. online /\ (active[p] => RenewDue(p))
    BY <1>2 DEF Request, ToSubscribe
  <2>2. ~Postponed(p)
    <3> SUFFICES ASSUME Postponed(p) PROVE FALSE
      OBVIOUS
    <3>1. expires[p] <= RenewBefore /\ Lifetime - expires[p] = Safety - due[p]
      BY <2>1 DEF Postponed, RenewDue
    <3>2. expires[p] \in Nat /\ due[p] \in Nat
      BY <1>t DEF CovTypes
    <3> QED
      BY <3>1, <3>2, SafetyFirst DEF SafetyFirst
  <2>3. unread[p] + due[p] <= Longest
    BY <1>t, <2>1, <2>2 DEF Waits
  <2>4. call'.point = p /\ UNCHANGED <<unread, due>>
    BY <1>2 DEF Request, point
  <2> QED
    BY <2>3, <2>4 DEF Answerable
<1>3. ASSUME NEW p \in Points, Reload(p) PROVE Answerable'
  <2>1. call' = call
    BY <1>3 DEF Reload
  <2>2. ASSUME c /= 0, online' PROVE unread'[c] + due'[c] <= Longest
    <3>1. online /\ unread'[c] = unread[c] /\ due'[c] <= due[c]
      BY <1>3, <1>d, <1>t, <2>2, ReloadCases
    <3>2. unread[c] \in Nat /\ due[c] \in Nat /\ due'[c] \in Nat
      BY <1>d, <1>t, <2>2 DEF CovTypes
    <3> QED
      BY <1>e, <2>2, <3>1, <3>2
  <2> QED
    BY <1>k, <2>1, <2>2
<1>4. ASSUME NEW p \in Points, Notify(p) PROVE Answerable'
  BY <1>4, <1>t DEF Notify, Answerable, point
<1>5. CASE Accepted \/ Unanswered \/ (\E kind \in {"error", "reject"} : Refused(kind)) \/ Tick
  BY <1>0, <1>5 DEF Accepted, Unanswered, Refused, Tick
<1>6. CASE Rediscover \/ Flip \/ Reboot \/ UNCHANGED vars
  BY <1>6, <1>t DEF Rediscover, Flip, Reboot, vars, state, point, Answerable
<1> QED
  BY <1>1, <1>2, <1>3, <1>4, <1>5, <1>6 DEF Next, Answers

LEMMA WaitsStep ==
  ASSUME SafetyFirst, PollInv, CovTypes', [Next]_vars, NEW p \in Points
  PROVE  Waits(p)'
<1> USE CovAssumption, LongestBounds
<1>t. CovTypes /\ Answerable /\ Waits(p)
  BY DEF PollInv, CovInv
<1>n. /\ unread[p] \in Nat /\ due[p] \in Nat /\ expires[p] \in Nat
      /\ unread'[p] \in Nat /\ due'[p] \in Nat
  BY <1>t DEF CovTypes
<1>1. CASE PollAnswered \/ PollLost
  BY <1>1, <1>t, CycleCases, WaitsAgain, WaitsKept
<1>2. ASSUME NEW q \in Points, Request(q) \/ Notify(q) PROVE Waits(p)'
  BY <1>2, <1>t, WaitsKept DEF Request, Notify, state, point
<1>3. ASSUME NEW q \in Points, Reload(q) PROVE Waits(p)'
  <2>1. /\ UNCHANGED <<online, active, expires, unread>>
        /\ due'[p] <= due[p] /\ (active[p] => due'[p] = due[p])
    BY <1>3, <1>t, ReloadCases
  <2>2. CASE active[p]
    BY <1>t, <2>1, <2>2, WaitsKept
  <2>3. CASE ~active[p]
    BY <1>t, <1>n, <2>1, <2>3 DEF Waits, Postponed
  <2> QED
    BY <2>2, <2>3
<1>4. CASE Accepted
  <2>1. UNCHANGED <<online, unread>>
    BY <1>4 DEF Accepted, state
  <2>2. CASE p = call.point
    <3>1. /\ active'[p] /\ expires'[p] = Lifetime
          /\ due'[p] = DueSubscribed(p)
      BY <1>4, <1>t, <2>2 DEF Accepted, CovTypes
    <3>2. ASSUME online PROVE unread[p] + due[p] <= Longest
      BY <1>t, <1>n, <2>2, <3>2 DEF Answerable
    <3>3. ASSUME online, due[p] > Safety PROVE unread'[p] + due'[p] <= Longest
      BY <1>n, <2>1, <3>1, <3>2, <3>3 DEF DueSubscribed, Most
    <3>4. ASSUME online, ~(due[p] > Safety) PROVE Postponed(p)'
      <4>1. due'[p] = Safety
        BY <3>1, <3>4 DEF DueSubscribed, Most
      <4>2. unread'[p] <= Longest
        BY <1>n, <2>1, <3>2, <3>4
      <4> QED
        BY <1>n, <3>1, <4>1, <4>2 DEF Postponed
    <3>5. ASSUME ~online PROVE unread'[p] = 0
      BY <1>t, <2>1, <3>5 DEF Waits
    <3> QED
      BY <2>1, <3>3, <3>4, <3>5 DEF Waits
  <2>3. CASE p /= call.point
    <3>1. UNCHANGED <<due[p], active[p], expires[p]>>
      BY <1>4, <1>t, <2>3 DEF Accepted, CovTypes
    <3> QED
      BY <1>t, <2>1, <3>1, WaitsKept
  <2> QED
    BY <2>2, <2>3
<1>5. CASE Unanswered
  BY <1>5, <1>t, WaitsKept DEF Unanswered, state, point
<1>6. ASSUME NEW kind \in {"error", "reject"}, Refused(kind) PROVE Waits(p)'
  <2>1. UNCHANGED <<online, unread, expires>>
    BY <1>6 DEF Refused, state
  <2>2. CASE p = call.point
    <3>1. due'[p] = 0 \/ due'[p] = due[p]
      BY <1>6, <1>t, <2>2 DEF Refused, CovTypes
    <3>2. ASSUME online' PROVE unread'[p] + due'[p] <= Longest
      <4>1. unread[p] + due[p] <= Longest
        BY <1>t, <1>n, <2>1, <2>2, <3>2 DEF Answerable
      <4> QED
        BY <1>n, <2>1, <3>1, <4>1
    <3>3. ASSUME ~online' PROVE unread'[p] = 0
      BY <1>t, <2>1, <3>3 DEF Waits
    <3> QED
      BY <3>2, <3>3 DEF Waits
  <2>3. CASE p /= call.point
    <3>1. UNCHANGED <<due[p], active[p]>>
      BY <1>6, <1>t, <2>3 DEF Refused, CovTypes
    <3> QED
      BY <1>t, <2>1, <3>1, WaitsKept
  <2> QED
    BY <2>2, <2>3
<1>7. CASE Rediscover \/ Flip \/ Reboot \/ UNCHANGED vars
  BY <1>7, <1>t, WaitsKept DEF Rediscover, Flip, Reboot, vars, state, point
<1>8. CASE Tick
  <2>1. CASE online
    <3>1. /\ UNCHANGED <<online, active>>
          /\ due[p] > 0 /\ due'[p] = due[p] - 1 /\ unread'[p] <= unread[p] + 1
          /\ (expires[p] > 0 => expires'[p] = expires[p] - 1)
      BY <1>8, <1>t, <2>1, TickCases
    <3>2. CASE unread[p] + due[p] <= Longest
      <4>1. unread'[p] + due'[p] <= Longest
        BY <1>n, <3>1, <3>2
      <4> QED
        BY <2>1, <3>1, <4>1 DEF Waits
    <3>3. CASE Postponed(p)
      <4>1. Lifetime - expires[p] = Safety - due[p] /\ unread[p] + due[p] <= Longest + Safety
        BY <3>3 DEF Postponed
      <4>2. expires[p] > 0
        BY <1>n, <3>1, <4>1, SafetyFirst DEF SafetyFirst
      <4>3. Postponed(p)'
        BY <1>n, <3>1, <3>3, <4>1, <4>2 DEF Postponed
      <4> QED
        BY <2>1, <3>1, <4>3 DEF Waits
    <3> QED
      BY <1>t, <2>1, <3>2, <3>3 DEF Waits
  <2>2. CASE ~online
    BY <1>8, <1>t, <2>2 DEF Waits, Tick
  <2> QED
    BY <2>1, <2>2
<1> QED
  BY <1>1, <1>2, <1>3, <1>4, <1>5, <1>6, <1>7, <1>8 DEF Next, Answers

(* A point of an online device is read again within its interval or        *)
(* safety_poll_s and another safety_poll_s, however subscriptions are      *)
(* renewed, refused or lost and settings reloaded, provided that the       *)
(* safety poll comes before the renewal (CovManager.service, Poller,       *)
(* PointConfigSync.reload).                                                *)
THEOREM RereadInTimeHolds == ASSUME SafetyFirst PROVE Spec => []RereadInTime
<1>1. PollInv /\ CovInv' /\ [Next]_vars => PollInv'
  <2> SUFFICES ASSUME PollInv, CovInv', [Next]_vars PROVE PollInv'
    OBVIOUS
  <2>1. CovTypes'
    BY DEF CovInv
  <2>2. Answerable' /\ \A p \in Points : Waits(p)'
    BY <2>1, SafetyFirst, AnswerableStep, WaitsStep
  <2> QED
    BY <2>2 DEF PollInv
<1>2. PollInv => RereadInTime
  <2> SUFFICES ASSUME PollInv, online, NEW p \in Points PROVE unread[p] <= Longest + Safety
    BY DEF RereadInTime
  <2>1. Waits(p) /\ unread[p] \in Nat /\ due[p] \in 0..Longest
    BY DEF PollInv, CovInv, CovTypes
  <2> QED
    BY <2>1, CovAssumption, LongestBounds DEF Waits, Postponed
<1> QED
  BY InitPoll, CovInvHolds, <1>1, <1>2, PTL DEF Spec

-----------------------------------------------------------------------------
(* The tasks of one device. *)

Count == 0..OfflineAfterCycles
CyclePhases ==
  {"idle", "reading", "answered", "touch", "up_db", "up_bus", "down_db", "down_bus",
   "lose_all", "lose_rest"}
DiscoveryPhases ==
  {"idle", "who_is", "described", "load", "load_described", "loaded", "loaded_described",
   "record"}
Devices == [known : BOOLEAN, online : BOOLEAN, failures : Count, setting : Nat]
Cycles ==
  [phase : CyclePhases, todo : SUBSET DevicePoints, detached : BOOLEAN, online : BOOLEAN,
   failures : Count]

CollectorTypes ==
  /\ answers \in BOOLEAN /\ stale \in BOOLEAN /\ calm \in BOOLEAN /\ heard \in BOOLEAN
  /\ dev \in Devices /\ cycle \in Cycles
  /\ disc \in [phase : DiscoveryPhases, online : BOOLEAN, setting : Nat]
  /\ reload \in [phase : {"idle", "reading", "read"}, detached : BOOLEAN, setting : Nat]
  /\ notices \in Nat /\ db \in [online : BOOLEAN, setting : Nat]
  /\ shown \in [DevicePoints -> {"read", "comm_lost"}]
  /\ left \in [flips : Nat, changes : Nat, requests : Nat, notices : Nat, faults : Nat]
  /\ streak \in Count
  /\ torn \in BOOLEAN /\ revived \in BOOLEAN /\ failed \in BOOLEAN

(* Until a cycle ends on an object that was replaced, the registry never   *)
(* counts more failures than there were cycles without answer.             *)
CountDeserved == torn \/ dev.failures <= streak

CollectorInv == CollectorTypes /\ CountDeserved

LEMMA CollectorStart == CollectorInit => CollectorInv
<1> SUFFICES ASSUME CollectorInit PROVE CollectorInv
  OBVIOUS
<1> USE DEF CollectorInit
<1>1. 0 \in Count /\ {} \in SUBSET DevicePoints
  BY CollectorAssumption DEF Count
<1>2. dev \in Devices /\ cycle \in Cycles
  BY <1>1 DEF Devices, Cycles, CyclePhases, NoDevice, NoCycle
<1>3. /\ disc \in [phase : DiscoveryPhases, online : BOOLEAN, setting : Nat]
      /\ reload \in [phase : {"idle", "reading", "read"}, detached : BOOLEAN, setting : Nat]
  BY DEF DiscoveryPhases, NoDiscovery, NoReload
<1>4. /\ db \in [online : BOOLEAN, setting : Nat]
      /\ shown \in [DevicePoints -> {"read", "comm_lost"}]
      /\ notices \in Nat
  OBVIOUS
<1>5. left \in [flips : Nat, changes : Nat, requests : Nat, notices : Nat, faults : Nat]
  BY CollectorAssumption
<1>6. dev.failures <= streak
  BY DEF NoDevice
<1> QED BY <1>1, <1>2, <1>3, <1>4, <1>5, <1>6, Zenon DEF CollectorInv, CollectorTypes, CountDeserved

(* What a task may do with the object it holds. *)
LEMMA Held ==
  ASSUME CollectorTypes, NEW next \in CyclePhases, NEW up \in BOOLEAN, NEW n \in Count,
         Hold(next, up, n)
  PROVE  cycle' \in Cycles /\ dev' \in Devices
<1>1. CASE cycle.detached
  <2>1. cycle' = [cycle EXCEPT !.phase = next, !.online = up, !.failures = n] /\ dev' = dev
    BY <1>1 DEF Hold
  <2>2. cycle' \in Cycles
    BY <2>1 DEF CollectorTypes, Cycles
  <2> QED BY <2>1, <2>2 DEF CollectorTypes
<1>2. CASE ~cycle.detached
  <2>1. cycle' = [cycle EXCEPT !.phase = next]
    BY <1>2 DEF Hold
  <2>2. dev' = [dev EXCEPT !.online = up, !.failures = n]
    BY <1>2 DEF Hold
  <2>3. cycle' \in Cycles
    BY <2>1 DEF CollectorTypes, Cycles
  <2>4. dev' \in Devices
    BY <2>2 DEF CollectorTypes, Devices
  <2> QED BY <2>3, <2>4
<1> QED BY <1>1, <1>2

LEMMA Phased ==
  ASSUME CollectorTypes, NEW next \in CyclePhases, Phase(next)
  PROVE  cycle' \in Cycles
<1>1. NoCycle \in Cycles
  BY CollectorAssumption DEF NoCycle, Cycles, Count, CyclePhases
<1> QED BY <1>1 DEF Phase, CollectorTypes, Cycles

LEMMA Counted ==
  ASSUME CollectorTypes
  PROVE  /\ Online \in BOOLEAN /\ Failures \in Count
         /\ (IF Failures < OfflineAfterCycles THEN Failures + 1 ELSE Failures) \in Count
         /\ (IF streak < OfflineAfterCycles THEN streak + 1 ELSE streak) \in Count
<1>1. Online \in BOOLEAN /\ Failures \in Count
  BY DEF Online, Failures, CollectorTypes, Cycles, Devices
<1> QED BY <1>1, CollectorAssumption DEF CollectorTypes, Count

LEMMA CollectorTypesStep ==
  ASSUME CollectorTypes, [CollectorNext]_collectorVars
  PROVE  CollectorTypes'
<1> DEFINE Purses == [flips : Nat, changes : Nat, requests : Nat, notices : Nat, faults : Nat]
           Discoveries == [phase : DiscoveryPhases, online : BOOLEAN, setting : Nat]
           Reloads == [phase : {"idle", "reading", "read"}, detached : BOOLEAN, setting : Nat]
<1>0. /\ NoDevice \in Devices /\ NoCycle \in Cycles /\ NoDiscovery \in Discoveries
      /\ NoReload \in Reloads /\ 0 \in Count
  BY CollectorAssumption DEF NoDevice, NoCycle, NoDiscovery, NoReload, Devices, Cycles, Count,
     CyclePhases, DiscoveryPhases
<1>a. ASSUME NEW what \in {"flips", "changes", "requests", "notices", "faults"}, Spend(what)
      PROVE  left' \in Purses
  BY <1>a DEF Spend, CollectorTypes
<1>1. ASSUME StartCycle PROVE CollectorTypes'
  <2>1. cycle' \in Cycles
    <3>1. PICK points \in Due : cycle' = [NoCycle EXCEPT !.phase = "reading", !.todo = points]
      BY <1>1 DEF StartCycle
    <3>2. points \in SUBSET DevicePoints
      BY CollectorAssumption DEF Due, Probe
    <3> QED BY <1>0, <3>1, <3>2 DEF Cycles, CyclePhases
  <2> QED BY <1>1, <2>1 DEF StartCycle, CollectorTypes, World, History
<1>2. ASSUME ReadBatch PROVE CollectorTypes'
  <2>1. cycle' \in Cycles /\ shown' \in [DevicePoints -> {"read", "comm_lost"}]
    BY <1>2 DEF ReadBatch, CollectorTypes, Cycles, CyclePhases
  <2> QED BY <1>2, <2>1 DEF ReadBatch, CollectorTypes, World, History
<1>3. ASSUME OnSuccess PROVE CollectorTypes'
  <2>1. dev' \in Devices /\ cycle' \in Cycles
    <3>1. CASE Online /\ ~stale
      BY <1>3, <1>0, <3>1, Phased
         DEF OnSuccess, FailuresAfterSuccess, CollectorTypes, Devices, CyclePhases
    <3>2. CASE ~(Online /\ ~stale)
      BY <1>3, <1>0, <3>2, Held DEF OnSuccess, FailuresAfterSuccess, CyclePhases
    <3> QED BY <3>1, <3>2
  <2> QED BY <1>3, <1>0, <2>1 DEF OnSuccess, CollectorTypes, World, History, Cycles
<1>4. ASSUME OnFailure PROVE CollectorTypes'
  <2>1. dev' \in Devices /\ cycle' \in Cycles
    BY <1>4, Counted, Held DEF OnFailure, CyclePhases
  <2>2. streak' \in Count /\ cycle.detached \in BOOLEAN
    BY <1>4, Counted DEF OnFailure, CollectorTypes, Cycles
  <2> QED BY <1>4, <2>1, <2>2 DEF OnFailure, CollectorTypes, World, History
<1>5. ASSUME PublishDb \/ PublishBus \/ PublishFails \/ Lose \/ Touch PROVE CollectorTypes'
  <2>1. cycle' \in Cycles
    BY <1>5, Phased DEF PublishDb, PublishBus, PublishFails, Lose, Touch, AfterPublish, CyclePhases
  <2>2. left' \in Purses /\ failed' \in BOOLEAN
    BY <1>5, <1>a DEF PublishDb, PublishBus, PublishFails, Lose, Touch, Fault, CollectorTypes, World
  <2>3. stale' \in BOOLEAN /\ heard' \in BOOLEAN
    BY <1>5 DEF PublishDb, PublishBus, PublishFails, Lose, Touch, CollectorTypes, Cycles, Status
  <2>4. db' \in [online : BOOLEAN, setting : Nat]
    BY <1>5 DEF PublishDb, PublishBus, PublishFails, Lose, Touch, CollectorTypes
  <2>5. shown' \in [DevicePoints -> {"read", "comm_lost"}]
    BY <1>5 DEF PublishDb, PublishBus, PublishFails, Lose, Touch, CollectorTypes
  <2>6. UNCHANGED <<answers, dev, disc, reload, notices, calm, History>>
    BY <1>5 DEF PublishDb, PublishBus, PublishFails, Lose, Touch, World
  <2> QED BY <2>1, <2>2, <2>3, <2>4, <2>5, <2>6 DEF CollectorTypes, History
<1>6. ASSUME LastSeenAges \/ ComeOrGo PROVE CollectorTypes'
  <2>1. CASE LastSeenAges
    BY <2>1 DEF LastSeenAges, CollectorTypes, World, Tasks, History
  <2>2. CASE ComeOrGo
    <3>1. left' \in Purses /\ answers' \in BOOLEAN
      BY <1>a, <2>2 DEF ComeOrGo, CollectorTypes
    <3> QED BY <2>2, <3>1 DEF ComeOrGo, CollectorTypes, Tasks, History
  <2> QED BY <1>6, <2>1, <2>2
<1>7. ASSUME NEW p \in DevicePoints, OtherReading(p) PROVE CollectorTypes'
  <2>1. left' \in Purses /\ dev.online \in BOOLEAN
    BY <1>7, <1>a DEF OtherReading, CollectorTypes, Devices
  <2>2. shown' \in [DevicePoints -> {"read", "comm_lost"}]
    BY <1>7 DEF OtherReading, CollectorTypes
  <2> QED BY <1>7, <2>1, <2>2 DEF OtherReading, CollectorTypes, Tasks
<1>8. ASSUME StartDiscovery PROVE CollectorTypes'
  <2>1. disc' \in Discoveries /\ left' \in Purses
    BY <1>8, <1>a DEF StartDiscovery, CollectorTypes, DiscoveryPhases
  <2> QED BY <1>8, <2>1 DEF StartDiscovery, CollectorTypes, History
<1>9. ASSUME Describe \/ Upsert \/ LoadDevices PROVE CollectorTypes'
  <2>1. disc' \in Discoveries
    BY <1>9 DEF Describe, Upsert, LoadDevices, CollectorTypes, DiscoveryPhases
  <2>2. db' \in [online : BOOLEAN, setting : Nat]
    BY <1>9 DEF Describe, Upsert, LoadDevices, CollectorTypes
  <2> QED
    BY <1>9, <2>1, <2>2 DEF Describe, Upsert, LoadDevices, CollectorTypes, World, History
<1>10. ASSUME Replace PROVE CollectorTypes'
  <2>1. dev' \in Devices
    BY <1>10, <1>0 DEF Replace, Kept, Loaded, CollectorTypes, Devices
  <2>2. cycle' \in Cycles
    BY <1>10 DEF Replace, CollectorTypes, Cycles, Devices
  <2>3. reload' \in Reloads /\ disc' \in Discoveries
    BY <1>10, <1>0 DEF Replace, CollectorTypes, NoDiscovery, DiscoveryPhases
  <2> QED BY <1>10, <2>1, <2>2, <2>3 DEF Replace, CollectorTypes, World, History
<1>11. ASSUME RecordInventory PROVE CollectorTypes'
  BY <1>11, <1>0 DEF RecordInventory, CollectorTypes, World, Devices
<1>12. ASSUME DiscoveryFails \/ Restart PROVE CollectorTypes'
  <2>1. left' \in Purses /\ failed' \in BOOLEAN
    BY <1>12, <1>a DEF DiscoveryFails, Restart, Fault
  <2>2. /\ dev' \in Devices /\ cycle' \in Cycles /\ disc' \in Discoveries
        /\ reload' \in Reloads /\ notices' \in Nat
    BY <1>12, <1>0 DEF DiscoveryFails, Restart, CollectorTypes, NoDiscovery, DiscoveryPhases
  <2> QED BY <1>12, <2>1, <2>2 DEF DiscoveryFails, Restart, CollectorTypes, History
<1>13. ASSUME ChangeSetting PROVE CollectorTypes'
  <2>1. left' \in Purses /\ failed' \in BOOLEAN /\ notices' \in Nat
    <3>1. CASE Spend("changes") /\ notices' = notices + 1 /\ UNCHANGED failed
      BY <1>a, <3>1 DEF CollectorTypes
    <3>2. CASE /\ left.changes > 0 /\ left.faults > 0 /\ failed' = TRUE /\ notices' = notices
               /\ left' = [left EXCEPT !.changes = @ - 1, !.faults = @ - 1]
      <4>1. left.changes - 1 \in Nat /\ left.faults - 1 \in Nat
        BY <3>2 DEF CollectorTypes
      <4> QED BY <3>2, <4>1 DEF CollectorTypes
    <3> QED BY <1>13, <3>1, <3>2 DEF ChangeSetting
  <2>2. db' \in [online : BOOLEAN, setting : Nat]
    BY <1>13 DEF ChangeSetting, CollectorTypes
  <2> QED BY <1>13, <2>1, <2>2 DEF ChangeSetting, CollectorTypes, History
<1>14. ASSUME SyncSteps PROVE CollectorTypes'
  <2>1. reload' \in Reloads /\ notices' \in Nat
    <3>1. [NoReload EXCEPT !.phase = "reading"] \in Reloads
      BY DEF NoReload
    <3>2. StartReload => reload' \in Reloads /\ notices' \in Nat
      BY <3>1 DEF StartReload, CollectorTypes
    <3>3. ReadSetting => reload' \in Reloads /\ notices' \in Nat
      BY <1>0 DEF ReadSetting, CollectorTypes
    <3>4. ApplySetting => reload' \in Reloads /\ notices' \in Nat
      BY <1>0 DEF ApplySetting, CollectorTypes
    <3> QED BY <1>14, <3>2, <3>3, <3>4 DEF SyncSteps
  <2>2. dev' \in Devices
    BY <1>14 DEF SyncSteps, StartReload, ReadSetting, ApplySetting, CollectorTypes, Devices
  <2>3. left' \in Purses /\ failed' \in BOOLEAN
    BY <1>14, <1>a
       DEF SyncSteps, StartReload, ReadSetting, ApplySetting, Fault, World, CollectorTypes
  <2> QED
    BY <1>14, <2>1, <2>2, <2>3
    DEF SyncSteps, StartReload, ReadSetting, ApplySetting, CollectorTypes, World, History
<1>15. CASE UNCHANGED collectorVars
  BY <1>15 DEF collectorVars, CollectorTypes
<1>16. CASE CollectorNext
  BY <1>1, <1>2, <1>3, <1>4, <1>5, <1>6, <1>7, <1>8, <1>9, <1>10, <1>11, <1>12, <1>13, <1>14,
     <1>16, Zenon
     DEF CollectorNext, PollerSteps, DiscoverySteps
<1> QED BY <1>15, <1>16

LEMMA CountDeservedStep ==
  ASSUME CollectorInv, [CollectorNext]_collectorVars
  PROVE  CountDeserved'
<1>0. CollectorTypes
  BY DEF CollectorInv
<1>1. dev.failures \in Nat /\ streak \in Nat /\ OfflineAfterCycles \in Nat
  BY <1>0, CollectorAssumption DEF CollectorTypes, Devices, Count
(* Who leaves the count, the streak and the rest of the past alone. *)
<1>a. ASSUME dev'.failures \in {dev.failures, 0}, streak' = streak, torn' = torn
      PROVE  CountDeserved'
  BY <1>1, <1>a DEF CollectorInv, CountDeserved
<1>2. ASSUME OnSuccess PROVE CountDeserved'
  <2>1. CASE cycle.detached
    BY <1>2, <2>1 DEF OnSuccess, CountDeserved
  <2>2. CASE ~cycle.detached
    <3>1. dev'.failures = 0 /\ streak' = 0
      BY <1>0, <1>2, <2>2 DEF OnSuccess, Hold, FailuresAfterSuccess, CollectorTypes, Devices
    <3> QED BY <3>1 DEF CountDeserved
  <2> QED BY <2>1, <2>2
<1>3. ASSUME OnFailure PROVE CountDeserved'
  <2>1. CASE torn \/ cycle.detached
    BY <1>3, <2>1 DEF OnFailure, CountDeserved
  <2>2. CASE ~torn /\ ~cycle.detached
    <3>1. dev'.failures =
            IF dev.failures < OfflineAfterCycles THEN dev.failures + 1 ELSE dev.failures
      BY <1>0, <1>3, <2>2 DEF OnFailure, Hold, Failures, CollectorTypes, Devices
    <3>2. streak' = IF streak < OfflineAfterCycles THEN streak + 1 ELSE streak
      BY <1>3 DEF OnFailure
    <3>3. dev.failures <= streak
      BY <2>2 DEF CollectorInv, CountDeserved
    <3> QED BY <1>1, <3>1, <3>2, <3>3 DEF CountDeserved
  <2> QED BY <2>1, <2>2
<1>4. CASE StartCycle \/ ReadBatch \/ PublishDb \/ PublishBus \/ PublishFails \/ Lose \/ Touch
  BY <1>4, <1>a
     DEF StartCycle, ReadBatch, PublishDb, PublishBus, PublishFails, Lose, Touch, History
<1>5. CASE StartDiscovery \/ Describe \/ Upsert \/ LoadDevices \/ RecordInventory \/ DiscoveryFails
  BY <1>5, <1>a
     DEF StartDiscovery, Describe, Upsert, LoadDevices, RecordInventory, DiscoveryFails, History
<1>6. CASE Replace \/ Restart
  BY <1>6, <1>a DEF Replace, Restart, Kept, NoDevice, History
<1>7. CASE SyncSteps
  BY <1>0, <1>7, <1>a
     DEF SyncSteps, StartReload, ReadSetting, ApplySetting, CollectorTypes, Devices, History
<1>8. CASE LastSeenAges \/ ComeOrGo \/ ChangeSetting \/ \E p \in DevicePoints : OtherReading(p)
  BY <1>8, <1>a DEF LastSeenAges, ComeOrGo, ChangeSetting, OtherReading, Tasks, History
<1>9. CASE UNCHANGED collectorVars
  BY <1>9, <1>a DEF collectorVars
<1>10. CASE CollectorNext
  BY <1>2, <1>3, <1>4, <1>5, <1>6, <1>7, <1>8, <1>10, Zenon
     DEF CollectorNext, PollerSteps, DiscoverySteps
<1> QED BY <1>9, <1>10

(* What the collector holds of its device, its discovery and its settings  *)
(* keeps its type, and the count of failures stays within the streak.      *)
THEOREM CollectorInvHolds == CollectorSpec => []CollectorInv
<1>1. CollectorInv /\ [CollectorNext]_collectorVars => CollectorInv'
  BY CollectorTypesStep, CountDeservedStep DEF CollectorInv
<1> QED BY <1>1, CollectorStart, PTL DEF CollectorSpec

(* "3 cycles consecutifs sans reponse" (_on_failure): whatever polling,    *)
(* discoveries, reloads, failures and restarts interleave, a device goes   *)
(* offline only after as many cycles in a row without an answer as         *)
(* offline_after_cycles, until a cycle ends on an object that discovery    *)
(* had replaced.                                                           *)
THEOREM OfflineDeservedHolds == CollectorSpec => OfflineDeservedUntorn
<1>1. CollectorInv /\ [CollectorNext]_collectorVars => [OfflineDeserved]_collectorVars
  <2> SUFFICES ASSUME CollectorInv, CollectorNext,
                      cycle.phase = "reading", cycle'.phase = "down_db", ~torn'
               PROVE  streak' >= OfflineAfterCycles
    BY DEF OfflineDeserved
  <2>0. CollectorTypes
    BY DEF CollectorInv
  <2>1. OnFailure
    <3>1. ~(StartCycle \/ ReadBatch \/ OnSuccess \/ PublishDb \/ PublishBus \/ PublishFails
            \/ Lose \/ Touch)
      BY <2>0 DEF StartCycle, ReadBatch, OnSuccess, PublishDb, PublishBus, PublishFails, Lose,
         Touch, CollectorTypes, Cycles
    <3>2. ~(DiscoverySteps \/ DiscoveryFails \/ Restart)
      <4>1. ~Replace
        BY <2>0 DEF Replace, CollectorTypes, Cycles
      <4>2. ~Restart
        BY DEF Restart, NoCycle
      <4> QED
        BY <4>1, <4>2 DEF DiscoverySteps, StartDiscovery, Describe, Upsert, LoadDevices,
           RecordInventory, DiscoveryFails
    <3>3. ~(SyncSteps \/ LastSeenAges \/ ComeOrGo \/ ChangeSetting
            \/ \E p \in DevicePoints : OtherReading(p))
      BY <2>0 DEF SyncSteps, StartReload, ReadSetting, ApplySetting, LastSeenAges, ComeOrGo,
         ChangeSetting, OtherReading, Tasks
    <3> QED BY <3>1, <3>2, <3>3, Zenon DEF CollectorNext, PollerSteps
  <2>2. ~torn /\ ~cycle.detached
    BY <2>1 DEF OnFailure
  <2>3. PICK f : f = dev.failures
    OBVIOUS
  <2>4. f <= streak /\ f \in Nat /\ streak \in Nat /\ OfflineAfterCycles \in Nat
    BY <2>0, <2>2, <2>3, CollectorAssumption
       DEF CollectorInv, CountDeserved, CollectorTypes, Devices, Count
  <2>5. (IF f < OfflineAfterCycles THEN f + 1 ELSE f) >= OfflineAfterCycles
    BY <2>0, <2>1, <2>2, <2>3 DEF OnFailure, Hold, Failures, Online, CollectorTypes, Cycles
  <2>6. streak' = IF streak < OfflineAfterCycles THEN streak + 1 ELSE streak
    BY <2>1 DEF OnFailure
  <2> QED BY <2>4, <2>5, <2>6
<1> QED BY <1>1, CollectorInvHolds, PTL DEF CollectorSpec, OfflineDeservedUntorn

==============================================================================

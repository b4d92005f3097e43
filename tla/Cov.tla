--------------------------------- MODULE Cov ---------------------------------
(***************************************************************************)
(* COV subscriptions and the safety poll (backend/app/collector/cov.py,    *)
(* the timing of poller.py, BacnetDriver.subscribe_cov): the manager and   *)
(* the poller move the same deadlines of a point.                          *)
(*                                                                         *)
(* Time advances by ticks longer than an exchange with the device; what is *)
(* due is done before the next tick.  Deadlines are the ticks left.  The   *)
(* subscription the device itself keeps may die without a word: it expires *)
(* or the device reboots.                                                  *)
(***************************************************************************)
EXTENDS Integers

CONSTANTS
  Points,        \* 1..n, 1 is the probe
  Capable,       \* the points that are cov_capable
  Interval,      \* default_interval_s, of a point without a setting too
  MaxInterval,   \* largest poll_interval_s a point may be given
  Safety,        \* safety_poll_s
  Lifetime,      \* lifetime_s
  RenewBefore,   \* renew_before_s
  Retry,         \* retry_s
  OfflineAfter,  \* offline_after_cycles
  MaxMishaps     \* bound on losses, returns, reboots, refusals and reloads

(* By default 30 s, 86400 s, 300 s, 3600 s, 300 s, 300 s and 3 cycles.  A   *)
(* renewal is not due again as soon as it is made.                         *)
ASSUME CovAssumption ==
  /\ Points \subseteq Nat \ {0} /\ Capable \subseteq Points
  /\ Interval \in Nat /\ MaxInterval \in Nat /\ Safety \in Nat /\ Lifetime \in Nat
  /\ RenewBefore \in Nat \ {0} /\ Retry \in Nat \ {0} /\ OfflineAfter \in Nat
  /\ RenewBefore < Lifetime

(* What the defaults meet and nothing validates: the safety poll comes     *)
(* before the renewal, the probe of an offline device before the end of a  *)
(* subscription.                                                           *)
SafetyFirst == Safety + RenewBefore < Lifetime
ProbeFirst == Interval < Lifetime

VARIABLES
  reach,      \* does the device answer?
  subs,       \* device: lifetime left of its subscription to each point
  online, failures, attempt, quiet,  \* DeviceState: ticks since last_attempt, since any contact
  supports,   \* DeviceState.supports_cov
  interval, due, active, expires, retry,  \* PointState, by point
  call,       \* the subscribe_cov under way: [point, renewing], point 0 if none
  mishaps,
  (* history *)
  unread,     \* ticks online since the last poll of each point
  broken      \* did the device go away, reboot or reject COV since then?

device == <<reach, subs>>
state == <<online, failures, attempt, quiet>>
point == <<interval, due, active, expires, retry>>
vars == <<device, state, supports, point, call, mishaps, unread, broken>>

NoCall == [point |-> 0, renewing |-> FALSE]
All(value) == [p \in Points |-> value]
Less(n) == IF n > 0 THEN n - 1 ELSE 0
Most(m, n) == IF m > n THEN m ELSE n

Longest == Most(Most(Interval, MaxInterval), Safety)

Init ==
  /\ reach = TRUE /\ subs = All(0)
  /\ online = TRUE /\ failures = 0 /\ attempt = 0 /\ quiet = 0
  /\ supports = TRUE
  /\ interval = All(Interval)
  /\ due \in [Points -> 0..Interval]
  /\ active = All(FALSE) /\ expires = All(0) /\ retry = All(0)
  /\ call = NoCall
  /\ mishaps = 0
  /\ unread = All(0) /\ broken = All(FALSE)

Mishap == mishaps < MaxMishaps /\ mishaps' = mishaps + 1

-----------------------------------------------------------------------------
(* Poller._interval *)
IntervalOf(p) == IF active[p] THEN Safety ELSE interval[p]

(* _due_points; with nothing to read for an interval, a sign of life. *)
DuePoints ==
  LET ready == {p \in Points : due[p] = 0}
      next == CHOOSE p \in Points : \A q \in Points : due[p] <= due[q]
  IN IF ~online THEN (IF attempt >= Interval THEN {1} ELSE {})
     ELSE IF ready = {} /\ quiet >= Interval THEN {next}
     ELSE ready

(* A cycle that the device answers, with _on_success. *)
PollAnswered ==
  /\ DuePoints /= {} /\ reach
  /\ failures' = 0 /\ attempt' = 0 /\ quiet' = 0
  /\ online' = TRUE
  /\ IF online
     THEN /\ due' = [p \in Points |-> IF p \in DuePoints THEN IntervalOf(p) ELSE due[p]]
          /\ UNCHANGED <<active, retry>>
     ELSE due' = All(0) /\ active' = All(FALSE) /\ retry' = All(0)
  /\ unread' = [p \in Points |-> IF p \in DuePoints THEN 0 ELSE unread[p]]
  /\ UNCHANGED <<device, supports, interval, expires, call, mishaps, broken>>

(* A cycle without answer, with _on_failure: the points read as comm_lost. *)
PollLost ==
  /\ DuePoints /= {} /\ ~reach
  /\ failures' = IF failures < OfflineAfter THEN failures + 1 ELSE failures
  /\ attempt' = 0 /\ quiet' = 0
  /\ online' = (online /\ failures' < OfflineAfter)
  /\ LET down == online /\ ~online'
         lost == IF down THEN Points ELSE DuePoints
     IN /\ active' = IF down THEN All(FALSE) ELSE active
        /\ due' = [p \in Points |->
                     IF p \notin lost THEN due[p] ELSE IF down THEN interval[p] ELSE IntervalOf(p)]
        /\ unread' = [p \in Points |-> IF p \in lost THEN 0 ELSE unread[p]]
  /\ UNCHANGED <<device, supports, interval, expires, retry, call, mishaps, broken>>

DueReloaded(p, n) == IF active[p] \/ due[p] < n THEN due[p] ELSE n

(* PointConfigSync.reload: a shorter interval applies at once. *)
Reload(p) ==
  /\ Mishap
  /\ \E n \in 1..MaxInterval :
       /\ interval' = [interval EXCEPT ![p] = n]
       /\ due' = [due EXCEPT ![p] = DueReloaded(p, n)]
  /\ UNCHANGED <<device, state, supports, active, expires, retry, call, unread, broken>>

-----------------------------------------------------------------------------
(* Mutant of RenewDue: the renewal has to be made at its very tick. *)
RenewDueOnce(p) == expires[p] = RenewBefore

(* Mutant of RenewDue: the margin is forgotten. *)
RenewDueLate(p) == expires[p] = 0

RenewDue(p) == expires[p] <= RenewBefore

(* service, up to the request: points to subscribe or to renew. *)
ToSubscribe(p) ==
  /\ online /\ supports /\ p \in Capable
  /\ IF active[p] THEN RenewDue(p) ELSE retry[p] = 0

Request(p) ==
  /\ call = NoCall
  /\ reach            \* DeviceUnreachable ends the service, nothing is changed
  /\ ToSubscribe(p)
  /\ call' = [point |-> p, renewing |-> active[p]]
  /\ UNCHANGED <<device, state, supports, point, mishaps, unread, broken>>

(* Mutant of DueSubscribed: the safety poll starts after the deadline. *)
DueSubscribedAdded(p) == due[p] + Safety

DueSubscribed(p) == Most(due[p], Safety)

Accepted ==
  LET p == call.point IN
  /\ p \in Points
  /\ subs' = [subs EXCEPT ![p] = Lifetime]
  /\ active' = [active EXCEPT ![p] = TRUE]
  /\ expires' = [expires EXCEPT ![p] = Lifetime]
  /\ due' = [due EXCEPT ![p] = DueSubscribed(p)]
  /\ call' = NoCall
  /\ broken' = [broken EXCEPT ![p] = ~reach]
  /\ UNCHANGED <<reach, state, supports, interval, retry, mishaps, unread>>

(* DriverError: back to polling; a "reject" says COV is not supported. *)
Refused(kind) ==
  LET p == call.point IN
  /\ p \in Points
  /\ Mishap
  /\ active' = [active EXCEPT ![p] = FALSE]
  /\ retry' = [retry EXCEPT ![p] = Retry]
  /\ due' = IF call.renewing THEN [due EXCEPT ![p] = 0] ELSE due
  /\ supports' = (supports /\ kind /= "reject")
  /\ call' = NoCall
  /\ broken' = IF kind = "reject" THEN All(TRUE) ELSE broken
  /\ UNCHANGED <<device, state, interval, expires, unread>>

(* The answer is lost: DeviceUnreachable, but the device may have          *)
(* subscribed.                                                             *)
Unanswered ==
  LET p == call.point IN
  /\ p \in Points /\ ~reach
  /\ subs' \in {subs, [subs EXCEPT ![p] = Lifetime]}
  /\ call' = NoCall
  /\ UNCHANGED <<reach, state, supports, point, mishaps, unread, broken>>

(* A discovery loads supports_cov again (run_discovery, load_devices). *)
Rediscover ==
  /\ ~supports
  /\ supports' = TRUE
  /\ UNCHANGED <<device, state, point, call, mishaps, unread, broken>>

(* A notification: _on_cov gives it to Recorder.handle, a contact. *)
Notify(p) ==
  /\ reach /\ subs[p] > 0
  /\ quiet' = 0
  /\ UNCHANGED <<device, online, failures, attempt, supports, point, call, mishaps, unread, broken>>

-----------------------------------------------------------------------------
(* The device is lost, returns, or reboots and forgets its subscribers. *)
Flip ==
  /\ Mishap
  /\ reach' = ~reach
  /\ broken' = All(TRUE)
  /\ UNCHANGED <<subs, state, supports, point, call, unread>>

Reboot ==
  /\ Mishap
  /\ subs' = All(0)
  /\ broken' = All(TRUE)
  /\ UNCHANGED <<reach, state, supports, point, call, unread>>

Tick ==
  /\ DuePoints = {} /\ call = NoCall
  /\ reach => \A p \in Points : ~ToSubscribe(p)
  /\ attempt' = IF attempt < Interval THEN attempt + 1 ELSE attempt
  /\ quiet' = IF quiet < Interval THEN quiet + 1 ELSE quiet
  /\ due' = [p \in Points |-> Less(due[p])]
  /\ expires' = [p \in Points |-> Less(expires[p])]
  /\ retry' = [p \in Points |-> Less(retry[p])]
  /\ subs' = [p \in Points |-> Less(subs[p])]
  /\ unread' = [p \in Points |->
                  IF online /\ unread[p] <= Longest + Safety THEN unread[p] + 1 ELSE unread[p]]
  /\ UNCHANGED <<reach, online, failures, supports, interval, active, call, mishaps, broken>>

Answers == Accepted \/ Unanswered \/ \E kind \in {"error", "reject"} : Refused(kind)

Next ==
  \/ PollAnswered \/ PollLost
  \/ \E p \in Points : Request(p) \/ Notify(p) \/ Reload(p)
  \/ Answers \/ Rediscover
  \/ Flip \/ Reboot \/ Tick

Spec == Init /\ [][Next]_vars

(* Both loops turn and time passes; an exchange ends (_call's deadline). *)
Fairness ==
  /\ WF_vars(PollAnswered \/ PollLost) /\ WF_vars(\E p \in Points : Request(p))
  /\ WF_vars(Answers) /\ WF_vars(Rediscover) /\ WF_vars(Tick)

FairSpec == Spec /\ Fairness

-----------------------------------------------------------------------------
(* "un polling de securite toutes les 5 min": a point of an online device  *)
(* is read again within its interval or safety_poll_s, whichever is        *)
(* longer, and another safety_poll_s, whatever is refused, lost, rebooted  *)
(* or reloaded in between; the second because each subscription puts the   *)
(* safety poll off (service's max(next_due, now + safety_poll_s)).         *)
RereadInTime == online => \A p \in Points : unread[p] <= Longest + Safety

(* A subscription held as active is alive at the device, unless it went    *)
(* away, rebooted or rejected COV meanwhile: it is renewed before it       *)
(* expires (service).                                                      *)
RenewedInTime == \A p \in Points : active[p] /\ ~broken[p] => subs[p] > 0

(* A device that stays is subscribed again, though it forgot silently, was *)
(* offline or refused for a time (CovManager.service, Poller._on_success). *)
AllSubscribed == reach => \A p \in Capable : active[p] /\ subs[p] > 0
=============================================================================

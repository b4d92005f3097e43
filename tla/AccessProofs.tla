---------------------------- MODULE AccessProofs ----------------------------
(***************************************************************************)
(* Theorems about who may come in: sessions and the lock of a login, for   *)
(* any number of attempts at once (LoginGuard), and the last administrator *)
(* for any number of requests, accounts and uses of the command line tool  *)
(* (Accounts).                                                             *)
(***************************************************************************)
EXTENDS LoginGuard, Accounts, FiniteSetTheorems, TLAPS

-----------------------------------------------------------------------------
(* Logins. *)

Labels ==
  {"new", "locked", "checked", "valid", "invalid", "expire", "lock", "forget", "refused",
   "accepted", "error"}

GuardTypes ==
  /\ password \in Nat
  /\ fail \in [count : Nat, ttl : 1..Window \cup {Never}]
  /\ step \in [Attempts -> Labels]
  /\ given \in [Attempts -> Nat]
  /\ stamp \in [Attempts -> Nat]
  /\ tokens \in SUBSET [stamp : Nat, proved : Nat]
  /\ age \in [Attempts -> 0..Window]
  /\ faults \in Nat

(* The hash a login read is the one of the password it was given, and so   *)
(* is the stamp of every session.                                          *)
Proved ==
  /\ \A a \in Attempts : step[a] = "valid" => stamp[a] = given[a]
  /\ \A t \in tokens : t.proved = t.stamp

(* An attempt that has not failed yet has no age, one that has just        *)
(* created the key is fresh.                                               *)
Aged ==
  \A a \in Attempts :
    /\ step[a] \in {"new", "checked", "invalid"} => age[a] = Window
    /\ step[a] = "expire" => age[a] = 0

(* The key is about to get its expiry, or has one. *)
Expiring == \E a \in Attempts : step[a] = "expire"
Timed ==
  /\ fail.count = 0 => fail.ttl = Never
  /\ faults = 0 /\ fail.count # 0 /\ fail.ttl = Never => Expiring

(* As long as Redis answers, the count is that of failures of the window,  *)
(* none older than the key.                                                *)
Behind(S) ==
  /\ Cardinality(S) = fail.count
  /\ \A b \in S :
       /\ age[b] < Window
       /\ Expiring => age[b] = 0
       /\ fail.ttl # Never => age[b] <= Window - fail.ttl
Counted == faults = 0 => \E S \in SUBSET Attempts : Behind(S)

GuardInv == GuardTypes /\ Proved /\ Aged /\ Timed /\ Counted

-----------------------------------------------------------------------------
(* The two steps that say nothing of the failures counted: one that leaves *)
(* the key alone, and one that deletes it.                                 *)
LEMMA KeyAlone ==
  ASSUME Timed, Counted, fail' = fail, age' = age, faults' = 0 => faults = 0,
         faults' = 0 => (Expiring' <=> Expiring)
  PROVE  Timed' /\ Counted'
<1>1. Timed'
  BY DEF Timed
<1>2. Counted'
  <2> SUFFICES ASSUME faults' = 0
               PROVE  \E S \in SUBSET Attempts : Behind(S)'
    BY DEF Counted
  <2>1. PICK S \in SUBSET Attempts : Behind(S)
    BY DEF Counted
  <2>2. Behind(S)'
    BY <2>1 DEF Behind
  <2> QED BY <2>2
<1> QED BY <1>1, <1>2

LEMMA KeyDeleted ==
  ASSUME fail' = NoKey
  PROVE  Timed' /\ Counted'
<1>1. Cardinality({}) = 0
  BY FS_EmptySet
<1>2. Behind({})'
  BY <1>1 DEF Behind, NoKey
<1>3. Timed'
  BY DEF Timed, NoKey
<1> QED BY <1>2, <1>3 DEF Counted

(* A step of one attempt that touches neither the key nor the ages. *)
LEMMA AttemptStep ==
  ASSUME GuardInv, NEW a \in Attempts, NEW l \in Labels, Enter(a, l), GuardTypes', Proved',
         fail' = fail, age' = age, faults' = 0 => faults = 0 /\ step[a] # "expire",
         l \notin {"new", "expire"}, l \in {"checked", "invalid"} => age[a] = Window
  PROVE  GuardInv'
<1>1. step'[a] = l /\ \A b \in Attempts \ {a} : step'[b] = step[b]
  BY DEF GuardInv, GuardTypes, Enter
<1>2. Aged'
  BY <1>1 DEF GuardInv, Aged
<1>3. faults' = 0 => (Expiring' <=> Expiring)
  BY <1>1 DEF Expiring
<1> QED BY <1>2, <1>3, KeyAlone DEF GuardInv

LEMMA GuardInit == LoginInit => GuardInv
<1> SUFFICES ASSUME LoginInit PROVE GuardInv
  OBVIOUS
<1> USE LoginAssumption DEF LoginInit
<1>1. GuardTypes
  BY DEF GuardTypes, NoKey, Labels
<1>2. Proved /\ Aged /\ Timed
  BY DEF Proved, Aged, Timed, NoKey
<1>3. Behind({})
  BY FS_EmptySet DEF Behind, NoKey
<1> QED BY <1>1, <1>2, <1>3 DEF GuardInv, Counted

LEMMA BeginStep ==
  ASSUME GuardInv, NEW a \in Attempts, Begin(a)
  PROVE  GuardInv'
<1>1. GuardTypes /\ Proved /\ Aged /\ step[a] = "new"
  BY DEF GuardInv, Begin, Starts
<1>2. UNCHANGED <<password, active, fail, lock, stamp, tokens, faults, age>>
  BY DEF Begin, Account, Keys
<1>3. PICK l \in {"locked", "checked"}, g \in [Attempts -> Nat] :
        Enter(a, l) /\ given' = g /\ \A b \in Attempts \ {a} : g[b] = given[b]
  <2>1. CASE lock > 0
    BY <1>1, <2>1 DEF Begin, GuardTypes
  <2>2. CASE ~(lock > 0)
    <3>1. PICK p \in 0..password : given' = [given EXCEPT ![a] = p]
      BY <2>2 DEF Begin
    <3> QED BY <1>1, <2>2, <3>1 DEF Begin, GuardTypes
  <2> QED BY <2>1, <2>2
<1>4. GuardTypes'
  BY <1>1, <1>2, <1>3 DEF GuardTypes, Enter, Labels
<1>5. Proved'
  BY <1>1, <1>2, <1>3 DEF Proved, Enter, GuardTypes
<1> QED BY <1>1, <1>2, <1>3, <1>4, <1>5, AttemptStep DEF Aged, Labels

LEMMA VerifyStep ==
  ASSUME GuardInv, NEW a \in Attempts, Verify(a)
  PROVE  GuardInv'
<1>1. GuardTypes /\ Proved /\ Aged /\ step[a] = "checked"
  BY DEF GuardInv, Verify
<1>2. UNCHANGED <<password, active, fail, lock, tokens, faults, age>>
  BY DEF Verify, Account, Keys
<1>3. CASE active /\ given[a] = password
  <2>1. Enter(a, "valid") /\ stamp' = [stamp EXCEPT ![a] = password] /\ given' = given
    BY <1>3 DEF Verify
  <2>2. GuardTypes' /\ Proved'
    BY <1>1, <1>2, <1>3, <2>1 DEF GuardTypes, Proved, Enter, Labels
  <2> QED BY <1>1, <1>2, <2>1, <2>2, AttemptStep DEF Labels
<1>4. CASE ~(active /\ given[a] = password)
  <2>1. Enter(a, "invalid") /\ given' = [given EXCEPT ![a] = 0] /\ stamp' = stamp
    BY <1>4 DEF Verify
  <2>2. GuardTypes' /\ Proved'
    BY <1>1, <1>2, <2>1 DEF GuardTypes, Proved, Enter, Labels
  <2> QED BY <1>1, <1>2, <2>1, <2>2, AttemptStep DEF Aged, Labels
<1> QED BY <1>3, <1>4

(* One more failure, of an attempt not counted before. *)
LEMMA IncrStep ==
  ASSUME GuardInv, NEW a \in Attempts, Incr(a)
  PROVE  /\ GuardInv'
         /\ faults = 0 => Cardinality({b \in Attempts : age'[b] < Window}) >= fail.count + 1
<1> USE LoginAssumption
<1>1. GuardTypes /\ Proved /\ Aged /\ Timed /\ Counted /\ step[a] = "invalid" /\ age[a] = Window
  BY DEF GuardInv, Incr, Aged
<1>2. /\ UNCHANGED <<password, active, lock, given, stamp, tokens, faults>>
      /\ fail' = [fail EXCEPT !.count = @ + 1] /\ age' = [age EXCEPT ![a] = 0]
      /\ step' = [step EXCEPT ![a] =
                    IF fail.count = 0 THEN "expire" ELSE AfterCount(fail.count + 1)]
  BY DEF Incr, Account, Memory, Enter
<1>3. /\ fail'.count = fail.count + 1 /\ fail'.ttl = fail.ttl
      /\ fail.count \in Nat /\ fail.ttl \in 1..Window \cup {Never}
      /\ age'[a] = 0 /\ \A b \in Attempts \ {a} : age'[b] = age[b]
  BY <1>1, <1>2 DEF GuardTypes
<1>4. /\ step'[a] = IF fail.count = 0 THEN "expire" ELSE AfterCount(fail.count + 1)
      /\ step'[a] \in {"expire", "refused", "lock"}
      /\ \A b \in Attempts \ {a} : step'[b] = step[b]
  BY <1>1, <1>2 DEF GuardTypes, AfterCount
<1>5. GuardTypes'
  BY <1>1, <1>2 DEF GuardTypes, AfterCount, Labels
<1>6. Proved' /\ Aged'
  BY <1>1, <1>2, <1>3, <1>4 DEF Proved, Aged
<1>7. Expiring => Expiring'
  BY <1>1, <1>4 DEF Expiring
<1>8. Timed'
  <2>1. fail.count = 0 => Expiring'
    BY <1>4 DEF Expiring
  <2> QED BY <1>1, <1>2, <1>3, <1>7, <2>1 DEF Timed
<1>9. CASE faults = 0
  <2>1. PICK S \in SUBSET Attempts : Behind(S)
    BY <1>1, <1>9 DEF Counted
  <2>2. IsFiniteSet(S) /\ a \notin S
    BY <1>1, <2>1, FS_Subset DEF Behind
  <2>3. Cardinality(S \cup {a}) = fail.count + 1
    BY <2>1, <2>2, FS_AddElement DEF Behind
  <2>4. ASSUME NEW b \in S \cup {a}
        PROVE  /\ age'[b] < Window
               /\ Expiring' => age'[b] = 0
               /\ fail'.ttl # Never => age'[b] <= Window - fail'.ttl
    <3>1. CASE b = a
      BY <1>3, <3>1 DEF Never
    <3>2. CASE b # a
      <4>1. b \in S /\ age'[b] = age[b]
        BY <1>3, <2>1, <2>4, <3>2
      <4>2. fail.count # 0
        <5>1. S # {}
          BY <4>1
        <5> QED BY <2>1, <2>2, <5>1, FS_EmptySet DEF Behind
      <4>3. Expiring' => Expiring
        BY <1>4, <4>2 DEF Expiring, AfterCount
      <4> QED BY <1>3, <2>1, <4>1, <4>3 DEF Behind
    <3> QED BY <3>1, <3>2
  <2>5. Behind(S \cup {a})'
    BY <1>3, <2>3, <2>4 DEF Behind
  <2>6. Counted'
    <3>1. S \cup {a} \in SUBSET Attempts
      BY <2>1
    <3> QED BY <2>5, <3>1 DEF Counted
  <2>7. Cardinality({b \in Attempts : age'[b] < Window}) >= fail.count + 1
    <3> DEFINE T == {b \in Attempts : age'[b] < Window}
    <3>1. S \cup {a} \subseteq T /\ IsFiniteSet(T)
      BY <2>1, <2>4, FS_Subset
    <3>2. Cardinality(S \cup {a}) <= Cardinality(T)
      BY <3>1, FS_Subset
    <3>3. Cardinality(T) \in Nat
      BY <3>1, FS_CardinalityType
    <3> QED BY <1>3, <2>3, <3>2, <3>3
  <2> QED BY <1>5, <1>6, <1>8, <2>6, <2>7 DEF GuardInv
<1>10. CASE faults # 0
  <2>1. Counted'
    BY <1>2, <1>10 DEF Counted
  <2> QED BY <1>5, <1>6, <1>8, <1>10, <2>1 DEF GuardInv
<1> QED BY <1>9, <1>10

(* The expiry comes before a second passes: nothing counted is older. *)
LEMMA ExpireStep ==
  ASSUME GuardInv, NEW a \in Attempts, Expire(a)
  PROVE  GuardInv' /\ age'[a] = 0
<1> USE LoginAssumption
<1>1. GuardTypes /\ Proved /\ Aged /\ Timed /\ Counted /\ step[a] = "expire" /\ age[a] = 0
  BY DEF GuardInv, Expire, Aged
<1>2. /\ UNCHANGED <<password, active, lock, given, stamp, tokens, faults, age>>
      /\ fail' = Expired(fail) /\ step' = [step EXCEPT ![a] = AfterCount(1)]
  BY DEF Expire, Account, Memory, Enter
<1>3. /\ step'[a] \in {"refused", "lock"} /\ \A b \in Attempts \ {a} : step'[b] = step[b]
      /\ Expiring' => Expiring
  BY <1>1, <1>2 DEF GuardTypes, AfterCount, Expiring
<1>4. /\ fail'.count = fail.count /\ fail.count \in Nat
      /\ fail.count = 0 => fail' = fail
      /\ fail.count # 0 => fail'.ttl = Window
  BY <1>1, <1>2 DEF Expired, GuardTypes
<1>5. GuardTypes'
  BY <1>1, <1>2 DEF GuardTypes, AfterCount, Labels, Expired
<1>6. Proved' /\ Aged'
  BY <1>1, <1>2, <1>3 DEF Proved, Aged
<1>7. Timed'
  BY <1>1, <1>2, <1>4 DEF Timed, Never
<1>8. Counted'
  <2> SUFFICES ASSUME faults = 0
               PROVE  \E S \in SUBSET Attempts : Behind(S)'
    BY <1>2 DEF Counted
  <2>1. PICK S \in SUBSET Attempts : Behind(S)
    BY <1>1 DEF Counted
  <2>2. \A b \in S : age'[b] = 0
    BY <1>1, <1>2, <2>1 DEF Behind, Expiring
  <2>3. fail'.ttl # Never => fail'.ttl \in 1..Window
    BY <1>5 DEF GuardTypes
  <2>4. Behind(S)'
    BY <1>4, <2>1, <2>2, <2>3 DEF Behind
  <2> QED BY <2>4
<1> QED BY <1>1, <1>2, <1>5, <1>6, <1>7, <1>8 DEF GuardInv

LEMMA SetLockStep ==
  ASSUME GuardInv, NEW a \in Attempts, SetLock(a)
  PROVE  GuardInv'
<1>1. GuardTypes /\ Proved /\ step[a] = "lock"
  BY DEF GuardInv, SetLock
<1>2. UNCHANGED <<password, active, fail, given, stamp, tokens, faults, age>> /\ Enter(a, "forget")
  BY DEF SetLock, Account, Memory
<1>3. GuardTypes' /\ Proved'
  BY <1>1, <1>2 DEF GuardTypes, Proved, Enter, Labels
<1> QED BY <1>1, <1>2, <1>3, AttemptStep DEF Labels

LEMMA ForgetStep ==
  ASSUME GuardInv, NEW a \in Attempts, Forget(a)
  PROVE  GuardInv'
<1>1. GuardTypes /\ Proved /\ Aged /\ step[a] = "forget"
  BY DEF GuardInv, Forget
<1>2. /\ UNCHANGED <<password, active, given, stamp, tokens, faults, age>>
      /\ Enter(a, "refused") /\ fail' = NoKey
  BY DEF Forget, Account, Memory
<1>3. GuardTypes' /\ Proved' /\ Aged'
  BY <1>1, <1>2 DEF GuardTypes, Proved, Aged, Enter, NoKey, Labels
<1> QED BY <1>2, <1>3, KeyDeleted DEF GuardInv

LEMMA SucceedStep ==
  ASSUME GuardInv, NEW a \in Attempts, Succeed(a)
  PROVE  GuardInv'
<1>1. GuardTypes /\ Proved /\ Aged /\ step[a] = "valid"
  BY DEF GuardInv, Succeed
<1>2. /\ UNCHANGED <<password, active, given, stamp, faults, age>>
      /\ Enter(a, "accepted") /\ fail' = NoKey
      /\ tokens' = tokens \cup {[stamp |-> stamp[a], proved |-> given[a]]}
  BY DEF Succeed, Account, StampOf
<1>3. GuardTypes' /\ Aged'
  BY <1>1, <1>2 DEF GuardTypes, Aged, Enter, NoKey, Labels
<1>4. Proved'
  BY <1>1, <1>2 DEF GuardTypes, Proved, Enter
<1> QED BY <1>2, <1>3, <1>4, KeyDeleted DEF GuardInv

LEMMA RedisFailsStep ==
  ASSUME GuardInv, NEW a \in Attempts, RedisFails(a)
  PROVE  GuardInv'
<1>1. GuardTypes /\ Proved /\ Aged
  BY DEF GuardInv
<1>2. UNCHANGED <<password, active, fail, age>> /\ faults' = faults + 1 /\ faults' # 0
  BY DEF GuardInv, GuardTypes, RedisFails, Account, Keys
<1>3. CASE /\ step[a] = "new"
           /\ \E p \in 0..password : given' = [given EXCEPT ![a] = p]
           /\ Enter(a, "checked")
           /\ UNCHANGED <<stamp, tokens>>
  <2>1. PICK p \in 0..password : given' = [given EXCEPT ![a] = p]
    BY <1>3
  <2>2. GuardTypes' /\ Proved'
    BY <1>1, <1>2, <1>3, <2>1 DEF GuardTypes, Proved, Enter, Labels
  <2> QED BY <1>1, <1>2, <1>3, <2>2, AttemptStep DEF Labels, Aged
<1>4. CASE /\ Enter(a, "refused")
           /\ UNCHANGED Memory
  <2>1. GuardTypes' /\ Proved'
    BY <1>1, <1>2, <1>4 DEF GuardTypes, Proved, Enter, Labels, Memory
  <2> QED BY <1>2, <1>4, <2>1, AttemptStep DEF Labels
<1>5. CASE /\ step[a] = "valid"
           /\ tokens' = tokens \cup {[stamp |-> StampOf(a), proved |-> given[a]]}
           /\ Enter(a, "accepted")
           /\ UNCHANGED <<given, stamp>>
  <2>1. GuardTypes' /\ Proved'
    BY <1>1, <1>2, <1>5 DEF GuardTypes, Proved, Enter, Labels, StampOf
  <2> QED BY <1>2, <1>5, <2>1, AttemptStep DEF Labels
<1> QED BY <1>3, <1>4, <1>5 DEF RedisFails

LEMMA QueryFailsStep ==
  ASSUME GuardInv, NEW a \in Attempts, QueryFails(a)
  PROVE  GuardInv'
<1>1. GuardTypes /\ Proved
  BY DEF GuardInv
<1>2. /\ UNCHANGED <<password, active, fail, given, stamp, tokens, age>> /\ faults' = faults + 1
      /\ faults' # 0 /\ Enter(a, "error")
  BY DEF GuardInv, GuardTypes, QueryFails, Account, Keys, Memory
<1>3. GuardTypes' /\ Proved'
  BY <1>1, <1>2 DEF GuardTypes, Proved, Enter, Labels
<1> QED BY <1>2, <1>3, AttemptStep DEF Labels

(* A second passes: no attempt is between INCR and EXPIRE, so the key has  *)
(* a time to live, and what is counted ages with it.                       *)
LEMMA TickStep ==
  ASSUME GuardInv, Tick
  PROVE  GuardInv'
<1> USE LoginAssumption
<1>1. GuardTypes /\ Proved /\ Aged /\ Timed /\ Counted
  BY DEF GuardInv
<1>2. UNCHANGED <<password, active, step, given, stamp, tokens, faults>>
  BY DEF Tick, Account, Memory
<1>3. ~Expiring /\ ~Expiring'
  BY <1>2 DEF Tick, Expiring
<1>4. \A a \in Attempts : /\ age'[a] = IF age[a] < Window THEN age[a] + 1 ELSE Window
                          /\ age[a] \in 0..Window /\ age'[a] \in 0..Window
  BY <1>1 DEF Tick, GuardTypes
<1>5. age' \in [Attempts -> 0..Window]
  BY <1>1 DEF Tick, GuardTypes
<1>6. Proved' /\ Aged'
  BY <1>1, <1>2, <1>3, <1>4 DEF Proved, Aged, Expiring
<1>7. CASE fail.ttl = 1
  <2>1. fail' = NoKey
    BY <1>7 DEF Tick, Never
  <2>2. GuardTypes'
    BY <1>1, <1>2, <1>5, <2>1 DEF GuardTypes, NoKey
  <2> QED BY <1>6, <2>1, <2>2, KeyDeleted DEF GuardInv
<1>8. CASE fail.ttl = Never
  <2>1. fail' = fail
    BY <1>8 DEF Tick
  <2>2. GuardTypes'
    BY <1>1, <1>2, <1>5, <2>1 DEF GuardTypes
  <2>3. Timed'
    BY <1>1, <1>2, <1>3, <2>1 DEF Timed
  <2>4. Counted'
    <3> SUFFICES ASSUME faults = 0
                 PROVE  \E S \in SUBSET Attempts : Behind(S)'
      BY <1>2 DEF Counted
    <3>1. fail.count = 0
      BY <1>1, <1>3, <1>8 DEF Timed
    <3>2. Behind({})'
      BY <2>1, <3>1, FS_EmptySet DEF Behind
    <3> QED BY <3>2
  <2> QED BY <1>6, <2>2, <2>3, <2>4 DEF GuardInv
<1>9. CASE fail.ttl # 1 /\ fail.ttl # Never
  <2>1. /\ fail' = [fail EXCEPT !.ttl = @ - 1] /\ fail.ttl \in 2..Window
        /\ fail'.count = fail.count /\ fail'.ttl = fail.ttl - 1
    BY <1>1, <1>9 DEF Tick, GuardTypes
  <2>2. GuardTypes'
    BY <1>1, <1>2, <1>5, <2>1 DEF GuardTypes
  <2>3. Timed'
    BY <1>1, <1>9, <2>1 DEF Timed, Never
  <2>4. Counted'
    <3> SUFFICES ASSUME faults = 0
                 PROVE  \E S \in SUBSET Attempts : Behind(S)'
      BY <1>2 DEF Counted
    <3>1. PICK S \in SUBSET Attempts : Behind(S)
      BY <1>1 DEF Counted
    <3>2. \A b \in S : age[b] <= Window - fail.ttl
      BY <1>9, <3>1 DEF Behind
    <3>3. \A b \in S : age'[b] <= Window - fail'.ttl /\ age'[b] < Window
      BY <1>4, <2>1, <3>1, <3>2
    <3>4. Behind(S)'
      BY <1>3, <2>1, <3>1, <3>3 DEF Behind
    <3> QED BY <3>4
  <2> QED BY <1>6, <2>2, <2>3, <2>4 DEF GuardInv
<1> QED BY <1>7, <1>8, <1>9

LEMMA AccountStep ==
  ASSUME GuardInv, SetPassword \/ SetActive \/ (\E t \in tokens : Refresh(t))
  PROVE  GuardInv'
<1>1. GuardTypes /\ Proved /\ Aged /\ Timed /\ Counted
  BY DEF GuardInv
<1>2. UNCHANGED <<fail, age, step, given, stamp, faults>>
  BY DEF SetPassword, SetActive, Refresh, Account, Keys, Memory
<1>3. password' \in Nat
  BY <1>1 DEF SetPassword, SetActive, Refresh, Account, GuardTypes
<1>4. \/ tokens' = tokens
      \/ \E t \in tokens :
           t.stamp = password /\ tokens' = tokens \cup {[stamp |-> password, proved |-> t.proved]}
  BY DEF SetPassword, SetActive, Refresh, Memory, Accepts
<1>5. GuardTypes' /\ Proved' /\ Aged'
  BY <1>1, <1>2, <1>3, <1>4 DEF GuardTypes, Proved, Aged
<1>6. Expiring' <=> Expiring
  BY <1>2 DEF Expiring
<1> QED BY <1>1, <1>2, <1>5, <1>6, KeyAlone DEF GuardInv

LEMMA UnlockStep ==
  ASSUME GuardInv, Unlock
  PROVE  GuardInv'
<1>1. UNCHANGED <<password, age, step, given, stamp, tokens, faults>> /\ fail' = NoKey
  BY DEF Unlock, Account, Memory
<1>2. GuardTypes' /\ Proved' /\ Aged'
  BY <1>1 DEF GuardInv, GuardTypes, Proved, Aged, NoKey
<1> QED BY <1>1, <1>2, KeyDeleted DEF GuardInv

LEMMA GuardNext == GuardInv /\ [LoginNext]_loginVars => GuardInv'
<1> SUFFICES ASSUME GuardInv, [LoginNext]_loginVars PROVE GuardInv'
  OBVIOUS
<1>1. CASE UNCHANGED loginVars
  <2>1. GuardTypes' /\ Proved' /\ Aged' /\ (Expiring' <=> Expiring)
    BY <1>1 DEF GuardInv, GuardTypes, Proved, Aged, Expiring, loginVars
  <2> QED BY <1>1, <2>1, KeyAlone DEF GuardInv, loginVars
<1>2. ASSUME NEW a \in Attempts,
             \/ Begin(a) \/ Verify(a) \/ Incr(a) \/ Expire(a) \/ SetLock(a) \/ Forget(a)
             \/ Succeed(a) \/ RedisFails(a) \/ QueryFails(a)
      PROVE  GuardInv'
  BY <1>2, BeginStep, VerifyStep, IncrStep, ExpireStep, SetLockStep, ForgetStep, SucceedStep,
     RedisFailsStep, QueryFailsStep
<1> QED BY <1>1, <1>2, AccountStep, UnlockStep, TickStep DEF LoginNext

LEMMA GuardAlways == LoginSpec => []GuardInv
BY GuardInit, GuardNext, PTL DEF LoginSpec

(* A session that load_user accepts was opened with the password in force, *)
(* whatever changes of password cross a login or a refresh.                *)
THEOREM SessionsProved == LoginSpec => []SessionProved
<1>1. GuardInv => SessionProved
  BY DEF GuardInv, Proved, SessionProved, Accepts
<1> QED BY <1>1, GuardAlways, PTL

(* A login is only locked after MaxFailures failures within the window, as *)
(* long as Redis answers: no interleaving of failures, successes, unlocks  *)
(* and expiries counts one twice or keeps an old one (record_failure).     *)
THEOREM LocksDeserved == LoginSpec => LockDeserved
<1> USE LoginAssumption
<1>1. GuardInv /\ [LoginNext]_loginVars => [LockStep]_loginVars
  <2> SUFFICES ASSUME GuardInv, LoginNext, NEW a \in Attempts, step[a] # "lock", step'[a] = "lock",
                      faults = 0
               PROVE  Cardinality({b \in Attempts : age'[b] < Window}) >= MaxFailures
    BY DEF LockStep
  <2> DEFINE T == {b \in Attempts : age'[b] < Window}
  <2>1. GuardTypes
    BY DEF GuardInv
  <2>2. Incr(a) \/ Expire(a)
    <3>1. ASSUME NEW c \in Attempts, NEW l \in Labels \ {"lock"}, Enter(c, l)
          PROVE  FALSE
      BY <2>1, <3>1 DEF GuardTypes, Enter
    <3>2. ASSUME NEW c \in Attempts, Incr(c) \/ Expire(c)
          PROVE  c = a
      BY <2>1, <3>2 DEF GuardTypes, Enter, Incr, Expire
    <3>3. ~(step' = step)
      OBVIOUS
    <3>4. ASSUME NEW c \in Attempts,
                 Begin(c) \/ Verify(c) \/ SetLock(c) \/ Forget(c) \/ Succeed(c) \/ QueryFails(c)
          PROVE  FALSE
      BY <3>1, <3>4 DEF Begin, Verify, SetLock, Forget, Succeed, QueryFails, Labels
    <3>5. ASSUME NEW c \in Attempts, RedisFails(c)
          PROVE  FALSE
      BY <3>1, <3>5 DEF RedisFails, Labels
    <3>6. ~(SetPassword \/ SetActive \/ Unlock \/ Tick \/ \E t \in tokens : Refresh(t))
      BY <3>3 DEF SetPassword, SetActive, Unlock, Tick, Refresh
    <3> QED BY <3>2, <3>4, <3>5, <3>6 DEF LoginNext
  <2>3. IsFiniteSet(T) /\ Cardinality(T) \in Nat
    BY FS_Subset, FS_CardinalityType
  <2>4. CASE Incr(a)
    <3>1. Cardinality(T) >= fail.count + 1 /\ fail.count \in Nat
      BY <2>1, <2>4, IncrStep DEF GuardTypes
    <3>2. step'[a] = IF fail.count = 0 THEN "expire" ELSE AfterCount(fail.count + 1)
      BY <2>1, <2>4 DEF Incr, Enter, GuardTypes
    <3>3. fail.count + 1 >= MaxFailures
      BY <3>1, <3>2 DEF AfterCount
    <3> QED BY <2>3, <3>1, <3>3
  <2>5. CASE Expire(a)
    <3>1. a \in T
      BY <2>5, ExpireStep
    <3>2. Cardinality(T) >= 1
      BY <2>3, <3>1, FS_EmptySet
    <3>3. step'[a] = AfterCount(1)
      BY <2>1, <2>5 DEF Expire, Enter, GuardTypes
    <3> QED BY <2>3, <3>2, <3>3 DEF AfterCount
  <2> QED BY <2>2, <2>4, <2>5
<1> QED BY <1>1, GuardAlways, PTL DEF LoginSpec, LockDeserved

-----------------------------------------------------------------------------
(* Accounts. *)

Rows == [role : Roles \cup {"none"}, active : {"yes", "no"}, id : Nat]
Asked ==
  {change \in [kind : {"update", "delete", "create"}, role : Roles \cup {"keep"},
               active : {"yes", "no", "keep"}, by : Users, byId : Nat, user : Users,
               userId : Nat] : change.kind = "create" => change.role \in Roles}
Underway == {"authorized", "read", "checked"}

AccountTypes ==
  /\ account \in [Users -> Rows]
  /\ born \in Nat /\ cli \in Nat
  /\ stage \in [AdminRequests -> Underway \cup Done \cup {"new"}]
  /\ DOMAIN request = AdminRequests
  /\ seen \in [AdminRequests -> Rows]
  /\ \A r \in AdminRequests : stage[r] \in Underway => request[r] \in Asked

(* Until another change is committed a request knows the row as it is, and *)
(* what was allowed when it was checked is allowed still.                  *)
Uncrossed(r) ==
  r \notin crossed /\ request[r].kind # "create" =>
    /\ stage[r] \in {"read", "checked"} => seen[r] = account[request[r].user]
    /\ stage[r] = "checked" => ~Forbidden(r)

AccountsInv ==
  /\ AccountTypes
  /\ \A r \in AdminRequests : stage[r] \in {"read", "checked"} => Uncrossed(r)

LEMMA AccountsStart == AccountsInit => AccountsInv
BY DEF AccountsInit, AccountsInv, AccountTypes, Rows, Roles, NoAccount, Underway, Done

LEMMA AskedWanted ==
  ASSUME AccountTypes, NEW r \in AdminRequests, stage[r] \in Underway
  PROVE  Wanted(r) \in Rows /\ request[r].user \in Users /\ Merged(r) \in Rows
<1>1. request[r] \in Asked /\ seen[r] \in Rows
  BY DEF AccountTypes
<1>2. request[r].user \in Users /\ account[request[r].user] \in Rows
  BY <1>1 DEF Asked, AccountTypes
<1>3. Wanted(r) \in Rows
  BY <1>1 DEF Wanted, Asked, Rows
<1>4. Merged(r) \in Rows
  BY <1>2, <1>3 DEF Merged, Rows
<1> QED BY <1>2, <1>3, <1>4

(* What a commit does to the row of a user. *)
LEMMA CommitCases ==
  ASSUME AccountTypes, NEW r \in AdminRequests, Commit(r)
  PROVE  /\ stage[r] = "checked" /\ cli' = cli
         /\ \E answer \in Done : Answer(r, answer)
         /\ \/ UNCHANGED <<account, born, crossed>>
            \/ /\ Answer(r, "ok")
               /\ \/ /\ request[r].kind = "create" /\ account[request[r].user] = NoAccount
                     /\ Insert(request[r].user, request[r].role)
                  \/ request[r].kind = "delete" /\ Remove(request[r].user)
                  \/ /\ request[r].kind = "update"
                     /\ Store(request[r].user, Merged(r)) /\ born' = born
BY DEF Commit, Decline, Done

LEMMA AccountTypesStep ==
  ASSUME AccountTypes, [AccountsNext]_accountVars
  PROVE  AccountTypes'
<1>a. ASSUME NEW r \in AdminRequests, NEW answer \in Done, Answer(r, answer)
      PROVE  /\ stage' \in [AdminRequests -> Underway \cup Done \cup {"new"}]
             /\ DOMAIN request' = AdminRequests
             /\ seen' \in [AdminRequests -> Rows]
             /\ \A q \in AdminRequests : stage'[q] \in Underway => request'[q] \in Asked
  <2>1. NoAccount \in Rows
    BY DEF NoAccount, Rows
  <2>2. seen' \in [AdminRequests -> Rows]
    BY <1>a, <2>1 DEF Answer, AccountTypes
  <2>3. answer \notin Underway
    BY DEF Done, Underway
  <2> QED BY <1>a, <2>2, <2>3 DEF Answer, Move, AccountTypes
<1>b. ASSUME NEW u \in Users, NEW row \in Rows, Store(u, row)
      PROVE  account' \in [Users -> Rows]
  BY <1>b DEF Store, AccountTypes
<1>1. ASSUME NEW r \in AdminRequests, NEW by \in Users, NEW u \in Users, NEW change \in Changes,
             Authorize(r, by, u, change)
      PROVE  AccountTypes'
  <2>1. account[by].id \in Nat /\ account[u].id \in Nat
    BY DEF AccountTypes, Rows
  <2>2. PICK new : new = [kind |-> change.kind, role |-> change.role, active |-> change.active,
                          by |-> by, byId |-> account[by].id, user |-> u, userId |-> account[u].id]
    OBVIOUS
  <2>3. new \in Asked
    BY <2>1, <2>2 DEF Changes, Asked, Roles
  <2>4. request' = [request EXCEPT ![r] = new]
    BY <1>1, <2>2 DEF Authorize
  <2>5. stage' = [stage EXCEPT ![r] = IF change.kind = "create" THEN "checked" ELSE "authorized"]
    BY <1>1 DEF Authorize, Move
  <2>6. UNCHANGED <<account, born, seen, cli>>
    BY <1>1 DEF Authorize
  <2> QED BY <2>3, <2>4, <2>5, <2>6 DEF AccountTypes, Underway
<1>2. ASSUME NEW r \in AdminRequests, NEW by \in Users, Unauthorized(r, by)
      PROVE  AccountTypes'
  BY <1>2 DEF Unauthorized, Move, AccountTypes, Underway, Done
<1>3. ASSUME NEW r \in AdminRequests, Read(r) PROVE AccountTypes'
  <2>1. CASE Answer(r, "absent")
    BY <1>3, <1>a, <2>1 DEF Read, AccountTypes, Done
  <2>2. CASE /\ seen' = [seen EXCEPT ![r] = account[request[r].user]]
             /\ Move(r, "read") /\ request' = request
    <3>1. account[request[r].user] \in Rows
      BY <1>3 DEF Read, AccountTypes, Asked, Underway
    <3> QED BY <1>3, <2>2, <3>1 DEF Read, Move, AccountTypes, Underway
  <2> QED BY <1>3, <2>1, <2>2 DEF Read
<1>4. ASSUME NEW r \in AdminRequests, Check(r) PROVE AccountTypes'
  <2>1. CASE Answer(r, "conflict")
    BY <1>4, <1>a, <2>1 DEF Check, AccountTypes, Done
  <2>2. CASE Move(r, "checked") /\ UNCHANGED <<request, seen>>
    BY <1>4, <2>2 DEF Check, Move, AccountTypes, Underway
  <2> QED BY <1>4, <2>1, <2>2 DEF Check
<1>5. ASSUME NEW r \in AdminRequests, Commit(r) PROVE AccountTypes'
  <2>1. PICK answer \in Done : Answer(r, answer)
    BY <1>5, CommitCases
  <2>2. /\ request[r].user \in Users /\ Merged(r) \in Rows /\ NoAccount \in Rows
        /\ request[r].kind = "create" => request[r].role \in Roles
    BY <1>5, AskedWanted, CommitCases DEF AccountTypes, Asked, Underway, NoAccount, Rows
  <2>3. CASE UNCHANGED <<account, born>>
    BY <1>5, <1>a, <2>1, <2>3, CommitCases DEF AccountTypes
  <2>4. CASE Remove(request[r].user) \/ (Store(request[r].user, Merged(r)) /\ born' = born)
    BY <1>5, <1>a, <1>b, <2>1, <2>2, <2>4, CommitCases DEF AccountTypes, Remove
  <2>5. CASE request[r].kind = "create" /\ Insert(request[r].user, request[r].role)
    <3>1. request[r].role \in Roles
      BY <2>2, <2>5
    <3>2. [role |-> request[r].role, active |-> "yes", id |-> born + 1] \in Rows
      BY <3>1 DEF Rows, AccountTypes
    <3> QED
      BY <1>5, <1>a, <1>b, <2>1, <2>2, <2>5, <3>2, CommitCases DEF AccountTypes, Insert
  <2> QED BY <1>5, <2>3, <2>4, <2>5, CommitCases
<1>6. ASSUME NEW r \in AdminRequests, CommitFails(r) PROVE AccountTypes'
  BY <1>6, <1>a DEF CommitFails, Decline, Done, AccountTypes
<1>7. ASSUME NEW u \in Users, NEW role \in Roles, CliCreateUser(u, role) PROVE AccountTypes'
  <2>0. account[u] \in Rows
    BY DEF AccountTypes
  <2>1. [role |-> role, active |-> "yes", id |-> born + 1] \in Rows
    BY DEF Rows, AccountTypes
  <2>2. [account[u] EXCEPT !.role = role, !.active = "yes"] \in Rows
    BY <2>0 DEF Rows
  <2>3. account' \in [Users -> Rows] /\ born' \in Nat
    BY <1>7, <1>b, <2>1, <2>2 DEF CliCreateUser, Insert, AccountTypes
  <2> QED BY <1>7, <2>3 DEF CliCreateUser, AccountTypes
<1>8. CASE UNCHANGED accountVars
  BY <1>8 DEF accountVars, AccountTypes
<1>9. CASE AccountsNext
  BY <1>1, <1>2, <1>3, <1>4, <1>5, <1>6, <1>7, <1>9, AccountsAssumption, Zenon
     DEF AccountsNext
<1> QED BY <1>8, <1>9

LEMMA AccountsStep ==
  ASSUME AccountsInv, [AccountsNext]_accountVars
  PROVE  AccountsInv'
<1> USE DEF AccountsInv
<1>0. AccountTypes /\ AccountTypes'
  BY AccountTypesStep
<1> DEFINE Kept(q) == stage'[q] \in {"read", "checked"} => Uncrossed(q)'
(* A request that nothing happens to, while no account changes. *)
<1>a. ASSUME NEW q \in AdminRequests, stage'[q] = stage[q], request'[q] = request[q],
             seen'[q] = seen[q], account' = account, crossed' = crossed
      PROVE  Kept(q)
  BY <1>a DEF Uncrossed, Forbidden, OwnAccount, Loses, Wanted
(* A change of an account crosses every request in progress. *)
<1>b. ASSUME NEW u, NEW row, Store(u, row), NEW q \in AdminRequests
      PROVE  Kept(q)
  <2>1. stage'[q] \in {"read", "checked"} => stage'[q] \notin Done \cup {"new"}
    BY DEF Done
  <2>2. stage'[q] \in {"read", "checked"} => q \in crossed'
    BY <1>b, <2>1 DEF Store
  <2> QED BY <2>2 DEF Uncrossed
(* An answer ends its request and leaves the others alone. *)
<1>c. ASSUME NEW r \in AdminRequests, NEW answer \in Done, Answer(r, answer),
             account' = account, crossed' = crossed, NEW q \in AdminRequests
      PROVE  Kept(q)
  <2>1. CASE q = r
    <3>1. stage'[q] = answer
      BY <1>c, <2>1 DEF Answer, Move, AccountTypes
    <3> QED BY <3>1 DEF Done
  <2>2. CASE q # r
    <3>1. stage'[q] = stage[q] /\ request'[q] = request[q] /\ seen'[q] = seen[q]
      BY <1>0, <1>c, <2>2 DEF Answer, Move, AccountTypes
    <3> QED BY <1>a, <1>c, <3>1
  <2> QED BY <2>1, <2>2
<1>1. ASSUME NEW r \in AdminRequests, NEW by \in Users, NEW u \in Users, NEW change \in Changes,
             Authorize(r, by, u, change), NEW q \in AdminRequests
      PROVE  Kept(q)
  <2>1. CASE q = r
    <3>1. request'[q].kind = change.kind
      BY <1>1, <1>0, <2>1 DEF Authorize, AccountTypes
    <3>2. stage'[q] = IF change.kind = "create" THEN "checked" ELSE "authorized"
      BY <1>1, <1>0, <2>1 DEF Authorize, Move, AccountTypes
    <3> QED BY <3>1, <3>2 DEF Uncrossed
  <2>2. CASE q # r
    <3>1. stage'[q] = stage[q] /\ request'[q] = request[q] /\ seen'[q] = seen[q]
          /\ account' = account /\ crossed' = crossed
      BY <1>0, <1>1, <2>2 DEF Authorize, Move, AccountTypes
    <3> QED BY <1>a, <3>1
  <2> QED BY <2>1, <2>2
<1>2. ASSUME NEW r \in AdminRequests, NEW by \in Users, Unauthorized(r, by),
             NEW q \in AdminRequests
      PROVE  Kept(q)
  <2>1. CASE q = r
    <3>1. stage'[q] = "unauthorized"
      BY <1>0, <1>2, <2>1 DEF Unauthorized, Move, AccountTypes
    <3> QED BY <3>1
  <2>2. CASE q # r
    <3>1. stage'[q] = stage[q] /\ request'[q] = request[q] /\ seen'[q] = seen[q]
          /\ account' = account /\ crossed' = crossed
      BY <1>0, <1>2, <2>2 DEF Unauthorized, Move, AccountTypes
    <3> QED BY <1>a, <3>1
  <2> QED BY <2>1, <2>2
<1>3. ASSUME NEW r \in AdminRequests, Read(r), NEW q \in AdminRequests
      PROVE  Kept(q)
  <2>0. account' = account /\ crossed' = crossed
    BY <1>3 DEF Read
  <2>1. CASE Answer(r, "absent")
    BY <1>c, <2>0, <2>1 DEF Done
  <2>2. CASE /\ seen' = [seen EXCEPT ![r] = account[request[r].user]]
             /\ Move(r, "read") /\ request' = request
    <3>1. CASE q = r
      <4>1. stage'[q] = "read" /\ seen'[q] = account'[request'[q].user]
        BY <1>0, <2>0, <2>2, <3>1 DEF Move, AccountTypes
      <4> QED BY <4>1 DEF Uncrossed
    <3>2. CASE q # r
      <4>1. stage'[q] = stage[q] /\ request'[q] = request[q] /\ seen'[q] = seen[q]
        BY <1>0, <2>2, <3>2 DEF Move, AccountTypes
      <4> QED BY <1>a, <2>0, <4>1
    <3> QED BY <3>1, <3>2
  <2> QED BY <1>3, <2>1, <2>2 DEF Read
<1>4. ASSUME NEW r \in AdminRequests, Check(r), NEW q \in AdminRequests
      PROVE  Kept(q)
  <2>0. stage[r] = "read" /\ account' = account /\ crossed' = crossed
    BY <1>4 DEF Check
  <2>1. CASE Answer(r, "conflict")
    BY <1>c, <2>0, <2>1 DEF Done
  <2>2. CASE ~Forbidden(r) /\ Move(r, "checked") /\ UNCHANGED <<request, seen>>
    <3>1. CASE q = r
      <4>1. Uncrossed(r)
        BY <2>0
      <4>2. ~Forbidden(r)'
        BY <2>0, <2>2 DEF Forbidden, OwnAccount, Loses, Wanted
      <4> QED BY <2>0, <2>2, <3>1, <4>1, <4>2 DEF Uncrossed
    <3>2. CASE q # r
      <4>1. stage'[q] = stage[q] /\ request'[q] = request[q] /\ seen'[q] = seen[q]
        BY <1>0, <2>2, <3>2 DEF Move, AccountTypes
      <4> QED BY <1>a, <2>0, <4>1
    <3> QED BY <3>1, <3>2
  <2> QED BY <1>4, <2>1, <2>2 DEF Check
<1>5. ASSUME NEW r \in AdminRequests, Commit(r), NEW q \in AdminRequests
      PROVE  Kept(q)
  <2>1. PICK answer \in Done : Answer(r, answer)
    BY <1>0, <1>5, CommitCases
  <2>2. CASE UNCHANGED <<account, born, crossed>>
    BY <1>c, <2>1, <2>2
  <2>3. CASE \E row : Store(request[r].user, row)
    BY <1>b, <2>3
  <2> QED BY <1>0, <1>5, <2>2, <2>3, CommitCases DEF Insert, Remove
<1>6. ASSUME NEW r \in AdminRequests, CommitFails(r), NEW q \in AdminRequests
      PROVE  Kept(q)
  BY <1>6, <1>c DEF CommitFails, Decline, Done
<1>7. ASSUME NEW u \in Users, NEW role \in Roles, CliCreateUser(u, role), NEW q \in AdminRequests
      PROVE  Kept(q)
  <2>1. \E row : Store(u, row)
    BY <1>7 DEF CliCreateUser, Insert
  <2> QED BY <1>b, <2>1
<1>8. CASE UNCHANGED accountVars
  BY <1>0, <1>8, <1>a DEF accountVars
<1>9. ASSUME AccountsNext, NEW q \in AdminRequests PROVE Kept(q)
  BY <1>1, <1>2, <1>3, <1>4, <1>5, <1>6, <1>7, <1>9, AccountsAssumption, Zenon
     DEF AccountsNext
<1>10. CASE AccountsNext
  <2> HIDE DEF Kept
  <2>1. \A q \in AdminRequests : Kept(q)
    BY <1>9, <1>10
  <2> QED BY <1>0, <2>1 DEF Kept
<1> QED BY <1>8, <1>10

(* What update_user and delete_user check is still true when the row is    *)
(* written, unless another change was committed in between: an active      *)
(* administrator is left.                                                  *)
LEMMA KeepsAdmin ==
  ASSUME AccountsInv, NEW r \in AdminRequests \ crossed, Commit(r), Active(account) # {}
  PROVE  Active(account') # {}
<1> DEFINE u == request[r].user
<1>0. AccountTypes /\ stage[r] = "checked" /\ Uncrossed(r)
  BY CommitCases DEF AccountsInv
<1>1. u \in Users /\ account \in [Users -> Rows] /\ account[u] \in Rows /\ Wanted(r) \in Rows
  BY <1>0, AskedWanted DEF AccountTypes, Underway
<1>2. PICK a \in Users : IsAdmin(account[a])
  BY DEF Active, IsAdmin
<1>3. ASSUME NEW row, Store(u, row), a # u \/ IsAdmin(row)
      PROVE  Active(account') # {}
  <2>1. IsAdmin(account'[a])
    BY <1>1, <1>2, <1>3 DEF Store
  <2> QED BY <1>2, <2>1 DEF Active, IsAdmin
<1>4. ASSUME request[r].kind # "create", \A v \in Users : IsAdmin(account[v]) => v = u
      PROVE  request[r].kind # "delete" /\ IsAdmin(Wanted(r))
  <2>1. seen[r] = account[u] /\ ~Forbidden(r)
    BY <1>0, <1>4 DEF Uncrossed
  <2>2. Active(account) \ {u} = {}
    BY <1>4 DEF Active, IsAdmin
  <2>3. ~Loses(r)
    BY <2>1, <2>2 DEF Forbidden
  <2>4. IsAdmin(seen[r])
    BY <1>2, <1>4, <2>1
  <2> QED BY <2>3, <2>4 DEF Loses
<1>5. request[r].kind # "create" => Merged(r) = Wanted(r)
  <2> SUFFICES ASSUME request[r].kind # "create" PROVE Merged(r) = Wanted(r)
    OBVIOUS
  <2>1. seen[r] = account[u]
    BY <1>0 DEF Uncrossed
  <2>2. Wanted(r).id = seen[r].id
    BY <1>0 DEF Wanted, AccountTypes, Rows
  <2>3. PICK old, new \in Rows : old = account[u] /\ new = Wanted(r)
    BY <1>1
  <2>4. Merged(r) = [old EXCEPT !.role = IF new.role # old.role THEN new.role ELSE @,
                                !.active = IF new.active # old.active THEN new.active ELSE @]
    BY <2>1, <2>3 DEF Merged
  <2>5. new.id = old.id
    BY <2>1, <2>2, <2>3
  <2>6. [old EXCEPT !.role = IF new.role # old.role THEN new.role ELSE @,
                    !.active = IF new.active # old.active THEN new.active ELSE @] = new
    BY <2>5 DEF Rows
  <2> QED BY <2>3, <2>4, <2>6
<1>6. CASE UNCHANGED <<account, born, crossed>>
  BY <1>6
<1>7. CASE request[r].kind = "create" /\ account[u] = NoAccount /\ Insert(u, request[r].role)
  <2>1. a # u
    BY <1>2, <1>7 DEF IsAdmin, NoAccount
  <2> QED BY <1>3, <1>7, <2>1 DEF Insert
<1>8. CASE request[r].kind = "delete" /\ Remove(u)
  <2>1. PICK v \in Users : IsAdmin(account[v]) /\ v # u
    BY <1>4, <1>8
  <2>2. IsAdmin(account'[v])
    BY <1>1, <1>8, <2>1 DEF Remove, Store
  <2> QED BY <2>1, <2>2 DEF Active, IsAdmin
<1>9. CASE request[r].kind = "update" /\ Store(u, Merged(r))
  <2>1. CASE \E v \in Users : IsAdmin(account[v]) /\ v # u
    <3>1. PICK v \in Users : IsAdmin(account[v]) /\ v # u
      BY <2>1
    <3>2. IsAdmin(account'[v])
      BY <1>1, <1>9, <3>1 DEF Store
    <3> QED BY <3>1, <3>2 DEF Active, IsAdmin
  <2>2. CASE \A v \in Users : IsAdmin(account[v]) => v = u
    <3>1. IsAdmin(Merged(r))
      BY <1>4, <1>5, <1>9, <2>2
    <3> QED BY <1>3, <1>9, <3>1
  <2> QED BY <2>1, <2>2
<1> QED BY <1>0, <1>6, <1>7, <1>8, <1>9, CommitCases

(* "il en reste toujours un" (update_user, delete_user): without the       *)
(* command line tool, the last active administrator is lost only by a      *)
(* request during which another change was committed, whatever the number  *)
(* of administrators who change accounts at once.                          *)
THEOREM LastAdminCrossed == AccountsSpec => AdminLostOnlyByCrossing
<1>1. AccountsInv /\ [AccountsNext]_accountVars => [CrossingStep]_accountVars
  <2> SUFFICES ASSUME AccountsInv, AccountsNext,
                      Active(account) # {}, Active(account') = {}, cli' = cli
               PROVE  \E r \in crossed : stage[r] = "checked" /\ stage'[r] = "ok"
    BY DEF CrossingStep
  <2>0. AccountTypes
    BY DEF AccountsInv
  <2>1. account' # account
    OBVIOUS
  <2>2. ~\E u \in CliUsers, role \in Roles : CliCreateUser(u, role)
    <3>1. cli' # cli + 1
      BY <2>0 DEF AccountTypes
    <3> QED BY <3>1 DEF CliCreateUser
  <2>3. \E r \in AdminRequests : Commit(r)
    BY <2>1, <2>2 DEF AccountsNext, Read, Check, CommitFails, Decline, Authorize, Unauthorized
  <2>4. PICK r \in AdminRequests : Commit(r)
    BY <2>3
  <2>5. r \in crossed
    BY <2>4, KeepsAdmin
  <2>6. stage[r] = "checked" /\ Answer(r, "ok")
    BY <2>0, <2>1, <2>4, CommitCases
  <2>7. stage'[r] = "ok"
    BY <2>0, <2>6 DEF Answer, Move, AccountTypes
  <2> QED BY <2>5, <2>6, <2>7
<1> QED BY <1>1, AccountsStart, AccountsStep, PTL DEF AccountsSpec, AdminLostOnlyByCrossing

=============================================================================

----------------------------- MODULE LoginGuard -----------------------------
(***************************************************************************)
(* Login, sessions and the temporary lock of one login                     *)
(* (backend/app/api/routes/auth.py, auth/lockout.py, auth/tokens.py,       *)
(* load_user of api/deps.py).  Attempts run at once; every Redis call and  *)
(* every query is a step.  Redis keys carry the time they have left.       *)
(*                                                                         *)
(* A password is the number of its hash: setting one, even the same text,  *)
(* gives a new hash, and the stamp of a token is that number.              *)
(***************************************************************************)
EXTENDS Integers, FiniteSets

CONSTANTS
  Attempts,                  \* login requests, a set of integers
  MaxFailures, Window, LockFor,
  MaxPasswords,              \* bound on the changes of password
  MaxFaults                  \* bound on failed Redis calls and queries

ASSUME LoginAssumption ==
  IsFiniteSet(Attempts) /\ MaxFailures \in Nat /\ Window \in Nat \ {0}

Never == -1                  \* a key without expiry
NoKey == [count |-> 0, ttl |-> Never]

VARIABLES
  password, active,          \* the row of the account
  fail,                      \* the key auth.fail.<login>
  lock,                      \* seconds left to auth.lock.<login>, 0 if absent
  step, given, stamp,          \* of each attempt: step, password typed, hash read
  tokens,                    \* sessions given out: [stamp, proved]
  faults,
  (* history *)
  age                        \* seconds since each attempt failed, Window from then on

loginVars == <<password, active, fail, lock, step, given, stamp, tokens, faults, age>>

LoginInit ==
  /\ password = 1 /\ active = TRUE
  /\ fail = NoKey /\ lock = 0
  /\ step = [a \in Attempts |-> "new"]
  /\ given = [a \in Attempts |-> 0]
  /\ stamp = [a \in Attempts |-> 0]
  /\ tokens = {}
  /\ faults = 0
  /\ age = [a \in Attempts |-> Window]

Enter(a, label) == step' = [step EXCEPT ![a] = label]
Account == <<password, active>>
Keys == <<fail, lock>>
Memory == <<given, stamp, tokens>>

-----------------------------------------------------------------------------
(* Attempts are numbered in the order they come in. *)
Starts(a) == step[a] = "new" /\ \A b \in Attempts : b < a => step[b] # "new"

(* login(): locked_for; a password typed is a past, current or wrong one. *)
Begin(a) ==
  /\ Starts(a)
  /\ IF lock > 0 THEN Enter(a, "locked") /\ UNCHANGED given
     ELSE Enter(a, "checked") /\ \E p \in 0..password : given' = [given EXCEPT ![a] = p]
  /\ UNCHANGED <<Account, Keys, stamp, tokens, faults, age>>

(* The row is read and the password verified against it. *)
Verify(a) ==
  /\ step[a] = "checked"
  /\ IF active /\ given[a] = password
     THEN /\ Enter(a, "valid")
          /\ stamp' = [stamp EXCEPT ![a] = password]
          /\ UNCHANGED given
     ELSE /\ Enter(a, "invalid")
          /\ given' = [given EXCEPT ![a] = 0]
          /\ UNCHANGED stamp
  /\ UNCHANGED <<Account, Keys, tokens, faults, age>>

(* Mutant of AfterCount: the lock comes one failure early. *)
AfterCountEarly(n) == IF n < MaxFailures - 1 THEN "refused" ELSE "lock"

AfterCount(n) == IF n < MaxFailures THEN "refused" ELSE "lock"

(* record_failure: INCR, EXPIRE for the first failure, SET, DEL. *)
Incr(a) ==
  /\ step[a] = "invalid"
  /\ fail' = [fail EXCEPT !.count = @ + 1]
  /\ Enter(a, IF fail.count = 0 THEN "expire" ELSE AfterCount(fail.count + 1))
  /\ age' = [age EXCEPT ![a] = 0]
  /\ UNCHANGED <<Account, lock, Memory, faults>>

Expired(key) == IF key.count = 0 THEN key ELSE [key EXCEPT !.ttl = Window]

Expire(a) ==
  /\ step[a] = "expire"
  /\ fail' = Expired(fail)
  /\ Enter(a, AfterCount(1))
  /\ UNCHANGED <<Account, lock, Memory, faults, age>>

SetLock(a) ==
  /\ step[a] = "lock"
  /\ lock' = LockFor
  /\ Enter(a, "forget")
  /\ UNCHANGED <<Account, fail, Memory, faults, age>>

Forget(a) ==
  /\ step[a] = "forget"
  /\ fail' = NoKey
  /\ Enter(a, "refused")
  /\ UNCHANGED <<Account, lock, Memory, faults, age>>

(* Mutant of StampOf: the hash is read again when the cookies are set. *)
StampNow(a) == password

(* password_stamp of the row login() read (expire_on_commit=False). *)
StampOf(a) == stamp[a]

(* commit, record_success, then the cookies. *)
Succeed(a) ==
  /\ step[a] = "valid"
  /\ fail' = NoKey
  /\ tokens' = tokens \cup {[stamp |-> StampOf(a), proved |-> given[a]]}
  /\ Enter(a, "accepted")
  /\ UNCHANGED <<Account, lock, given, stamp, faults, age>>

(* A Redis call fails: logged, the protection is suspended. *)
RedisFails(a) ==
  /\ faults < MaxFaults
  /\ faults' = faults + 1
  /\ \/ /\ step[a] = "new"
        /\ \E p \in 0..password : given' = [given EXCEPT ![a] = p]
        /\ Enter(a, "checked")
        /\ UNCHANGED <<stamp, tokens>>
     \/ /\ step[a] \in {"invalid", "expire", "lock", "forget"}
        /\ Enter(a, "refused")
        /\ UNCHANGED Memory
     \/ /\ step[a] = "valid"
        /\ tokens' = tokens \cup {[stamp |-> StampOf(a), proved |-> given[a]]}
        /\ Enter(a, "accepted")
        /\ UNCHANGED <<given, stamp>>
  /\ UNCHANGED <<Account, Keys, age>>

(* The query or the commit fails: 500, no session. *)
QueryFails(a) ==
  /\ faults < MaxFaults /\ step[a] \in {"checked", "valid"}
  /\ faults' = faults + 1
  /\ Enter(a, "error")
  /\ UNCHANGED <<Account, Keys, Memory, age>>

(* load_user with the stamp of a token, as /auth/refresh, current_user and *)
(* the WebSocket do.                                                       *)
Accepts(t) == active /\ t.stamp = password

Refresh(t) ==
  /\ t \in tokens /\ Accepts(t)
  /\ tokens' = tokens \cup {[stamp |-> password, proved |-> t.proved]}
  /\ UNCHANGED <<Account, Keys, step, given, stamp, faults, age>>

(* update_user of an administrator, or the command line tool. *)
SetPassword ==
  /\ password < MaxPasswords
  /\ password' = password + 1
  /\ UNCHANGED <<active, Keys, step, Memory, faults, age>>

SetActive ==
  /\ active' = ~active
  /\ UNCHANGED <<password, Keys, step, Memory, faults, age>>

(* unlock_user: one DEL of both keys. *)
Unlock ==
  /\ lock > 0 \/ fail # NoKey
  /\ lock' = 0 /\ fail' = NoKey
  /\ UNCHANGED <<Account, step, Memory, faults, age>>

(* A second passes; two Redis calls of one handler take less. *)
Tick ==
  /\ \A a \in Attempts : step[a] \notin {"expire", "lock", "forget"}
  /\ lock' = IF lock > 0 THEN lock - 1 ELSE 0
  /\ fail' = IF fail.ttl = Never THEN fail
             ELSE IF fail.ttl = 1 THEN NoKey ELSE [fail EXCEPT !.ttl = @ - 1]
  /\ age' = [a \in Attempts |-> IF age[a] < Window THEN age[a] + 1 ELSE Window]
  /\ UNCHANGED <<Account, step, Memory, faults>>

LoginNext ==
  \/ \E a \in Attempts :
       \/ Begin(a) \/ Verify(a) \/ Incr(a) \/ Expire(a) \/ SetLock(a) \/ Forget(a)
       \/ Succeed(a) \/ RedisFails(a) \/ QueryFails(a)
  \/ \E t \in tokens : Refresh(t)
  \/ SetPassword \/ SetActive \/ Unlock \/ Tick

LoginSpec == LoginInit /\ [][LoginNext]_loginVars

-----------------------------------------------------------------------------
(* "changer le mot de passe invalide les jetons deja emis": a session that *)
(* is accepted was opened with the password in force, even when the        *)
(* password changes while a login is in flight (login, load_user).         *)
SessionProved == \A t \in tokens : Accepts(t) => t.proved = password

(* "max_failures echecs en window_s secondes verrouillent le login":       *)
(* a login is locked only after that many failures in that time, whatever  *)
(* attempts, successes and unlocks interleave, as long as Redis answers.   *)
LockStep ==
  \A a \in Attempts : step[a] # "lock" /\ step'[a] = "lock" /\ faults = 0
                       => Cardinality({b \in Attempts : age'[b] < Window}) >= MaxFailures

LockDeserved == [][LockStep]_loginVars
=============================================================================

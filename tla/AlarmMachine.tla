---------------------------- MODULE AlarmMachine ----------------------------
(***************************************************************************)
(* The pure alarm state machine of one rule                                *)
(* (backend/app/alarms/machine.py).  `waited` is now - pending_since in    *)
(* units of the delay, Unset when pending_since is None.                   *)
(***************************************************************************)
EXTENDS Integers

Normal == "normal"
Pending == "pending"
Unacked == "active_unacked"
Acked == "active_acked"
Cleared == "cleared_unacked"

States == {Normal, Pending, Unacked, Acked, Cleared}

(* What an alarm_event row may hold: PENDING is never recorded. *)
RowStates == States \ {Pending}
OpenStates == RowStates \ {Normal}
ActiveStates == {Unacked, Acked}

Unset == -1

(* now - (pending_since if pending_since is not None else now) *)
Elapsed(waited) == IF waited = Unset THEN 0 ELSE waited

Expired(waited, delay) == Elapsed(waited) >= delay

(* The state left by AlarmMachine.update(condition, now): NORMAL goes      *)
(* through PENDING and, when the delay is over, on to ACTIVE_UNACKED in    *)
(* the same call.                                                          *)
UpdateState(state, waited, condition, delay) ==
  CASE state \in {Normal, Pending} /\ ~condition -> Normal
    [] state = Normal /\ condition -> IF delay <= 0 THEN Unacked ELSE Pending
    [] state = Pending /\ condition ->
         IF Expired(waited, delay) THEN Unacked ELSE Pending
    [] state = Unacked /\ ~condition -> Cleared
    [] state = Acked /\ ~condition -> Normal
    [] state = Cleared /\ condition -> Unacked
    [] OTHER -> state

(* pending_since after the same call. *)
UpdateWaited(state, waited, condition, delay) ==
  IF UpdateState(state, waited, condition, delay) # Pending
  THEN Unset
  ELSE IF state = Normal THEN 0 ELSE waited

(* from_state of the last transition update() returns: a raise always      *)
(* leaves PENDING, even when NORMAL was left in the same call.             *)
TransitionFrom(state, to) ==
  IF state = Normal /\ to = Unacked THEN Pending ELSE state

(* Transition.persistent: RAISED, CLEARED, ACKED and NORMAL are recorded,  *)
(* entering and cancelling PENDING are not.                                *)
Persistent(state, to) ==
  /\ to # state
  /\ to # Pending
  /\ ~(state = Pending /\ to = Normal)

(* The state left by AlarmMachine.acknowledge(), unchanged when the state  *)
(* does not allow it.                                                      *)
AckState(state) ==
  CASE state = Unacked -> Acked
    [] state = Cleared -> Normal
    [] OTHER -> state
=============================================================================

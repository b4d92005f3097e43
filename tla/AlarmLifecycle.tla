--------------------------- MODULE AlarmLifecycle ---------------------------
(***************************************************************************)
(* What the alarm service promises about the table alarm_event, whatever   *)
(* happens to the process that maintains it: the life of an alarm is the   *)
(* diagram of machine.py, a rule has at most one open alarm, a closed      *)
(* alarm is never touched again.                                           *)
(***************************************************************************)
EXTENDS AlarmMachine

CONSTANTS Rules, EventIds, NoRule

VARIABLES
  owner,   \* rule_id of each row, NoRule while the id is not used
  row      \* state of each row: "free", a row state, or "gone" when deleted

lifecycleVars == <<owner, row>>

OpenOf(r) == {e \in EventIds : owner[e] = r /\ row[e] \in OpenStates}

LInit ==
  /\ owner = [e \in EventIds |-> NoRule]
  /\ row = [e \in EventIds |-> "free"]

Raise(e, r) ==
  /\ row[e] = "free"
  /\ OpenOf(r) = {}
  /\ owner' = [owner EXCEPT ![e] = r]
  /\ row' = [row EXCEPT ![e] = Unacked]

(* The arrows of the diagram between recorded states. *)
Arrows ==
  {<<Unacked, Acked>>, <<Unacked, Cleared>>, <<Cleared, Unacked>>,
   <<Cleared, Normal>>, <<Acked, Normal>>}

Follow(e) ==
  \E to \in RowStates :
    /\ <<row[e], to>> \in Arrows
    /\ row' = [row EXCEPT ![e] = to]
    /\ UNCHANGED owner

(* The rules behind these alarms are disabled: nobody evaluates them. *)
Abandon(S) ==
  /\ \A e \in S : row[e] \in OpenStates
  /\ row' = [e \in EventIds |-> IF e \in S THEN Normal ELSE row[e]]
  /\ UNCHANGED owner

(* A rule is deleted with its whole history (ON DELETE CASCADE). *)
Remove(r) ==
  /\ row' = [e \in EventIds |-> IF owner[e] = r THEN "gone" ELSE row[e]]
  /\ UNCHANGED owner

LNext ==
  \/ \E e \in EventIds, r \in Rules : Raise(e, r)
  \/ \E e \in EventIds : Follow(e)
  \/ \E S \in SUBSET EventIds : Abandon(S)
  \/ \E r \in Rules : Remove(r)

LSpec == LInit /\ [][LNext]_lifecycleVars
=============================================================================

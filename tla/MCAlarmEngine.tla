---------------------------- MODULE MCAlarmEngine ----------------------------
(* Small instances of AlarmEngine: a rule is named by its kind. *)
EXTENDS AlarmEngine, TLC

CONSTANTS DelayUnits, Notified

MCKind == [r \in Rules |-> r]
MCDelay == [r \in Rules |-> DelayUnits]
MCNotify == Rules \cap Notified
EventSymmetry == Permutations(EventIds)
=============================================================================

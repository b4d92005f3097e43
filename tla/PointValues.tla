----------------------------- MODULE PointValues -----------------------------
(***************************************************************************)
(* What the database promises of a point, whoever reads it (the live feed, *)
(* the alarm engine, the history): values are readings that were taken,    *)
(* point_latest never goes back to an older one, and a sample that was     *)
(* written stays.  Readings are numbered in the order of their timestamps. *)
(***************************************************************************)
EXTENDS Integers

VARIABLES
  taken,     \* number of readings taken from the device
  latest,    \* the reading in point_latest, 0 before the first
  samples    \* the readings in sample

vars == <<taken, latest, samples>>

Init == taken = 0 /\ latest = 0 /\ samples = {}

(* A reading is taken. *)
Take ==
  /\ taken' = taken + 1
  /\ UNCHANGED <<latest, samples>>

(* A transaction writes readings that were taken. *)
Write ==
  /\ latest' \in latest..taken
  /\ samples \subseteq samples'
  /\ samples' \subseteq 1..taken
  /\ UNCHANGED taken

Next == Take \/ Write

Spec == Init /\ [][Next]_vars
=============================================================================

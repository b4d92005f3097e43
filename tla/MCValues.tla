------------------------------ MODULE MCValues ------------------------------
(***************************************************************************)
(* The way of a value to the screen: the recorder that writes the rows of  *)
(* a point, and the live feed that shows them.  Both meet in PointValues:  *)
(* the recorder implements it, the feed builds on it.  A behaviour runs    *)
(* one of them and leaves the other as it starts, so the state spaces add  *)
(* up.                                                                     *)
(***************************************************************************)
EXTENDS Recorder, LiveFeed

VARIABLE part

ValuesInit ==
  /\ part \in {"recorder", "feed"}
  /\ Init /\ FeedInit

ValuesNext ==
  \/ part = "recorder" /\ UNCHANGED <<part, feedVars>> /\ Next
  \/ part = "feed" /\ UNCHANGED <<part, vars>> /\ FeedNext

(* Each part has nothing fair to do where it does not run. *)
ValuesSpec ==
  /\ ValuesInit /\ [][ValuesNext]_<<part, vars, feedVars>>
  /\ Fairness /\ FeedFairness
=============================================================================

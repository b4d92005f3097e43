------------------------------ MODULE SetPoints ------------------------------
(***************************************************************************)
(* What the supervisor promises of set-point writes, whatever clocks,      *)
(* crashes, timeouts and failed calls do: commands are served one after    *)
(* the other in the order of the stream, possibly several times, but none  *)
(* once it is settled; a command is settled after its answer; a request is *)
(* told "ok" after the device executed the command and the audit log has   *)
(* it.                                                                     *)
(***************************************************************************)
EXTENDS Integers

CONSTANT Commands

VARIABLES
  place,      \* rank of each command in the stream, 0 before it is there
  executed,   \* how often the device executed it
  traced,     \* commands the collector traced in the audit log
  answered,   \* commands whose result was published
  settled,    \* commands that are done with
  confirmed   \* commands whose request was told "ok"

vars == <<place, executed, traced, answered, settled, confirmed>>

Init ==
  /\ place = [c \in Commands |-> 0]
  /\ executed = [c \in Commands |-> 0]
  /\ traced = {} /\ answered = {} /\ settled = {} /\ confirmed = {}

(* A command goes behind those that are there. *)
Enqueue(c) ==
  /\ place[c] = 0
  /\ \A d \in Commands : place[d] < place'[c]
  /\ place' = [place EXCEPT ![c] = place'[c]]
  /\ UNCHANGED <<executed, traced, answered, settled, confirmed>>

(* It is served when all that precede it are settled. *)
Turn(c) ==
  /\ place[c] # 0
  /\ c \notin settled
  /\ \A d \in Commands : place[d] # 0 /\ place[d] < place[c] => d \in settled

Execute(c) ==
  /\ Turn(c)
  /\ executed' = [executed EXCEPT ![c] = @ + 1]
  /\ UNCHANGED <<place, traced, answered, settled, confirmed>>

Trace(c) ==
  /\ Turn(c)
  /\ traced' = traced \cup {c}
  /\ UNCHANGED <<place, executed, answered, settled, confirmed>>

Answer(c) ==
  /\ Turn(c)
  /\ answered' = answered \cup {c}
  /\ UNCHANGED <<place, executed, traced, settled, confirmed>>

Settle(c) ==
  /\ Turn(c)
  /\ c \in answered
  /\ settled' = settled \cup {c}
  /\ UNCHANGED <<place, executed, traced, answered, confirmed>>

Confirm(c) ==
  /\ executed[c] > 0 /\ c \in traced /\ c \in answered
  /\ confirmed' = confirmed \cup {c}
  /\ UNCHANGED <<place, executed, traced, answered, settled>>

Next ==
  \E c \in Commands :
    Enqueue(c) \/ Execute(c) \/ Trace(c) \/ Answer(c) \/ Settle(c) \/ Confirm(c)

Spec == Init /\ [][Next]_vars
=============================================================================

------------------------------- MODULE MCApi -------------------------------
(***************************************************************************)
(* The parts of the API that share no state, checked side by side: a       *)
(* behaviour runs one of them and leaves the others as they start, so the  *)
(* state spaces add up instead of multiplying.                             *)
(***************************************************************************)
EXTENDS Synoptics, Accounts, LoginGuard, Sequences

CONSTANTS Lexemes, MaxLength

VARIABLES part, text

X == INSTANCE Expressions

ApiInit ==
  /\ part \in {"synoptics", "accounts", "login", "expressions"}
  /\ Init /\ AccountsInit /\ LoginInit /\ X!Init

ApiNext ==
  /\ UNCHANGED part
  /\ \/ part = "synoptics" /\ Next /\ UNCHANGED <<accountVars, loginVars, text>>
     \/ part = "accounts" /\ AccountsNext /\ UNCHANGED <<vars, loginVars, text>>
     \/ part = "login" /\ LoginNext /\ UNCHANGED <<vars, accountVars, text>>
     \/ part = "expressions" /\ X!Next /\ UNCHANGED <<vars, accountVars, loginVars>>

(* A part that does not run has no request to handle. *)
ApiSpec == ApiInit /\ [][ApiNext]_<<part, vars, accountVars, loginVars, text>> /\ Fairness

(* The parser accepts the language of the grammar, see Expressions. *)
GrammarExact == X!GrammarExact
=============================================================================

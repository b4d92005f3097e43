---------------------------- MODULE Expressions ----------------------------
(***************************************************************************)
(* The check of the `when` expressions of display rules                    *)
(* (backend/app/api/synoptic_expr.py; the viewer's parser,                 *)
(* frontend/src/synoptic/expressions.ts, has the same structure): the      *)
(* recursive descent, against the language it should accept described      *)
(* without it, by which lexeme may follow which and balanced parentheses.  *)
(*                                                                         *)
(* A lexeme stands for its class: "value" for numbers, texts, literals and *)
(* the two variables, "<" for the comparisons, "*" for the products,       *)
(* "foo" for what is no lexeme (an unknown identifier or character).       *)
(* The text grows by one lexeme at a time.                                 *)
(***************************************************************************)
EXTENDS Integers, Sequences

CONSTANTS
  Lexemes,     \* those the text is made of
  MaxLength    \* bound on the text

VARIABLE text

Init == text = <<>>

Type(lexeme) == Len(text) < MaxLength /\ text' = Append(text, lexeme)

Next == \E lexeme \in Lexemes : Type(lexeme)

Spec == Init /\ [][Next]_text

-----------------------------------------------------------------------------
(* _tokens: word operators become symbols; "foo" raises ExpressionError. *)
Token(lexeme) ==
  CASE lexeme = "and" -> "&&"
    [] lexeme = "or" -> "||"
    [] lexeme = "not" -> "!"
    [] OTHER -> lexeme

(* The levels of the grammar, from or_ to primary; the binary operators of *)
(* each.                                                                   *)
Or == 1
And == 2
Not == 3
Cmp == 4
Add == 5
Mul == 6
Unary == 7
Primary == 8
Binary == <<{"||"}, {"&&"}, {}, {"<"}, {"+", "-"}, {"*"}, {}, {}>>

Failed == 0    \* ExpressionError

(* take_op: is one of the operators at position i? *)
IsOp(t, i, operators) == i \in 1..Len(t) /\ t[i] \in operators

RECURSIVE Parse(_, _, _), More(_, _, _)

(* Mutant of NotLevel: a negation may hold any operand, as in C. *)
NotLevelEverywhere(level) == level \in {Not, Unary}

NotLevel(level) == level = Not

(* The method of a level, from position i: the position after what it      *)
(* reads, or Failed.                                                       *)
Parse(t, level, i) ==
  CASE i = Failed -> Failed
    [] NotLevel(level) /\ IsOp(t, i, {"!"}) -> Parse(t, level, i + 1)
    [] level = Unary /\ IsOp(t, i, {"-"}) -> Parse(t, Unary, i + 1)
    [] level = Primary /\ IsOp(t, i, {"value"}) -> i + 1
    [] level = Primary /\ IsOp(t, i, {"("}) ->
         LET end == Parse(t, Or, i + 1)
         IN IF IsOp(t, end, {")"}) THEN end + 1 ELSE Failed
    [] level = Primary /\ ~IsOp(t, i, {"value", "("}) -> Failed
    [] OTHER -> More(t, level, Parse(t, level + 1, i))

(* The while loop of a binary level. *)
More(t, level, i) ==
  IF IsOp(t, i, Binary[level])
  THEN More(t, level, Parse(t, level + 1, i + 1))
  ELSE i

(* check_expression. *)
Accepts(words) ==
  LET t == [i \in DOMAIN words |-> Token(words[i])]
  IN /\ t # <<>>
     /\ \A i \in DOMAIN t : t[i] # "foo"
     /\ Parse(t, Or, 1) = Len(t) + 1

-----------------------------------------------------------------------------
Operators == {"||", "&&", "<", "+", "-", "*"}

(* After which token an operand must come (0 is the start of the text). *)
OperandNext(t, i) == i = 0 \/ t[i] \in Operators \cup {"(", "!"}

Depth(t, i) ==
  LET opened == {k \in 1..i : t[k] = "("}
      closed == {k \in 1..i : t[k] = ")"}
      count[S \in SUBSET (1..i)] == IF S = {} THEN 0
                                    ELSE 1 + count[S \ {CHOOSE k \in S : TRUE}]
  IN count[opened] - count[closed]

(* The language of the grammar in the module's docstring: operands and     *)
(* operators alternate, a minus may precede any operand, a negation only   *)
(* one that starts a term of && or ||, and parentheses match.              *)
WellFormed(words) ==
  LET t == [i \in DOMAIN words |-> Token(words[i])]
  IN /\ ~OperandNext(t, Len(t))
     /\ \A i \in DOMAIN t :
          IF OperandNext(t, i - 1)
          THEN \/ t[i] \in {"value", "(", "-"}
               \/ t[i] = "!" /\ (i = 1 \/ t[i - 1] \in {"(", "!", "&&", "||"})
          ELSE t[i] \in Operators \cup {")"}
     /\ \A i \in DOMAIN t : Depth(t, i) >= 0
     /\ Depth(t, Len(t)) = 0

(* The API accepts exactly the expressions the grammar describes, so that  *)
(* a rule that is saved is one the viewer can evaluate (check_expression). *)
GrammarExact == Accepts(text) = WellFormed(text)
=============================================================================

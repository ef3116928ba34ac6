--------------------------- MODULE ExpressionReader ---------------------------
(***************************************************************************)
(* The token reader of the expression parser: which token may follow which *)
(* others.  A text is a sequence of tokens; the name of a function stands  *)
(* for the name with an opening bracket right after it, since without one  *)
(* it is no function.                                                      *)
(***************************************************************************)
EXTENDS Integers, Sequences, FiniteSets

CONSTANTS
  Number,      \* the numbers a text may have: a function from tokens to fractions
  Variables,   \* the names of variables
  Arity        \* the functions, and how many arguments each takes (-1: any number but none)

Comparisons == {"<=", ">=", "!=", "==", "<", ">"}
Signs == {"+", "-"}
BinaryOperators == Comparisons \cup Signs \cup {"*", "/", "^", "&&", "||"}
Functions == DOMAIN Arity
Sign(token) == IF token = "-" THEN "neg" ELSE "pos"

\* What a flag forbids next: (, ), a value, a variable, a comma, a function, a
\* binary operator, a sign, the end, a string, =, ?, :.
Everything == {"BO", "BC", "VAL", "VAR", "SEP", "FUN", "OPT", "INFIX", "END", "STR",
               "ASSIGN", "IF", "ELSE"}
AtStart == {"OPT", "BC", "ASSIGN", "IF", "ELSE", "SEP"}
AfterOperator == {"BC", "OPT", "SEP", "ASSIGN", "IF", "ELSE", "END"}
AfterSign == {"INFIX", "OPT", "BC", "STR", "ASSIGN", "SEP"}
AfterOpening(last) ==
  {"OPT", "END", "SEP", "ASSIGN", "IF", "ELSE"} \cup (IF last \in Functions THEN {} ELSE {"BC"})
AfterClosing == {"BO", "VAR", "VAL", "FUN", "INFIX", "STR", "ASSIGN"}
AfterConditional == {"BC", "END", "OPT", "IF", "ELSE", "STR"}
AfterSeparator == {"BC", "OPT", "END", "SEP", "ASSIGN"}
AfterFunction == Everything \ {"BO"}
AfterValue == {"VAL", "VAR", "FUN", "BO", "INFIX", "STR", "ASSIGN"}
\* Mutant: a variable is like a number.
AfterVariableNot == AfterValue
AfterVariable == AfterValue \ {"ASSIGN"}
AfterString == Everything \ {"SEP", "BC", "OPT", "END"}

\* What was read, and what may come next; or that it may not.
Token(code, flags, open) == [ok |-> TRUE, code |-> code, flags |-> flags, open |-> open]
Unexpected == [ok |-> FALSE]

ReadSign(token, flags, open) ==
  IF token \notin Signs \/ "INFIX" \in flags THEN Unexpected
  ELSE Token(Sign(token), AfterSign, open)

\* Mutant: brackets are not counted.
ReadClosingAny(flags, open) == IF "BC" \in flags THEN Unexpected ELSE Token(")", AfterClosing, open - 1)
ReadClosing(flags, open) ==
  IF "BC" \in flags \/ open = 0 THEN Unexpected ELSE Token(")", AfterClosing, open - 1)
ReadOther(token, flags, open, last) ==
  LET unless(flag, after, brackets) ==
        IF flag \in flags THEN Unexpected ELSE Token(token, after, brackets)
  IN CASE token \in BinaryOperators \cup {"="} ->
            IF token = "=" /\ "ASSIGN" \in flags THEN Unexpected
            ELSE IF "OPT" \in flags THEN ReadSign(token, flags, open)
            ELSE Token(token, AfterOperator, open)
       [] token = "(" -> unless("BO", AfterOpening(last), open + 1)
       [] token = ")" -> ReadClosing(flags, open)
       [] token = "?" -> unless("IF", AfterConditional, open)
       [] token = ":" -> unless("ELSE", AfterConditional, open)
       [] token = "," -> unless("SEP", AfterSeparator, open)
       [] token \in Functions -> unless("FUN", AfterFunction, open)
       [] token \in DOMAIN Number -> unless("VAL", AfterValue, open)
       [] token \in Variables -> unless("VAR", AfterVariable, open)
       [] token = "string" -> unless("STR", AfterString, open)
ReadNextToken(token, flags, open, last) ==
  IF token = "end" THEN
    IF "END" \in flags \/ open > 0 THEN Unexpected ELSE Token("end", {}, open)
  ELSE ReadOther(token, flags, open, last)
=============================================================================

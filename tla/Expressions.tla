----------------------------- MODULE Expressions -----------------------------
(***************************************************************************)
(* A sensor's expression: read token by token into bytecode, once when the *)
(* configuration is read, with all its variables unknown, and once when it *)
(* is first evaluated, with every variable bound; and evaluated from the   *)
(* bytecode from then on.  What it should give is said by Meaning, from    *)
(* the text alone.                                                         *)
(***************************************************************************)
EXTENDS ExpressionCode

CONSTANTS
  MaxTokens,      \* the sets of tokens to make texts of, and the bound of the
                  \* length of a text of each
  Environments    \* values of the variables to evaluate with

Alphabets == DOMAIN MaxTokens

VARIABLES
  alphabet,
  text,      \* the tokens so far
  check,     \* the parser of the constructor (GetUsedVar)
  bound      \* the parser of the first evaluation
vars == <<alphabet, text, check, bound>>

(***************************************************************************)
(* A parser: what its reader may read, and CreateRPN's stacks: operators,  *)
(* values (the name of a variable, "string", or "" for any other value),   *)
(* the counts of arguments; and the code it writes.                        *)
(***************************************************************************)
Parser ==
  [state |-> "reading", flags |-> AtStart, open |-> 0, last |-> "", used |-> {},
   ops |-> <<>>, vals |-> <<>>, args |-> <<1>>, ifs |-> 0, code |-> EmptyCode]
Refused(p) == [p EXCEPT !.state = "refused"]
Top(stack) == stack[Len(stack)]
TopIs(stack, set) == stack # <<>> /\ Top(stack) \in set
Less2(stack, n) == SubSeq(stack, 1, Len(stack) - n)

\* n values become one.
Reduced(p, n, code) ==
  [p EXCEPT !.ops = Front(@), !.vals = Append(Less2(@, n), ""), !.code = code]

\* n: how many arguments there are.
ApplyFunc(p, n) ==
  LET f == Top(p.ops)
      required == IF f \in Functions THEN Arity[f] ELSE 1
      taken == SubSeq(p.vals, Len(p.vals) - n + 1, Len(p.vals))
  IN IF (required >= 0 /\ n # required) \/ (required = -1 /\ n = 0)
        \/ Len(p.vals) < n \/ "string" \in Range(taken)
     THEN Refused(p)
     ELSE Reduced(p, n, AddFun(p.code, f, n))

ApplyIfElse(p) ==
  LET n == Len(p.vals) IN
  IF n < 3 \/ "string" \in Range(SubSeq(p.vals, n - 2, n)) \/ ~TopIs(Front(p.ops), {"?"})
  THEN Refused(p)
  ELSE [p EXCEPT !.ops = Less2(@, 2), !.vals = Append(Less2(@, 3), ""),
                 !.code = AddIfElse(@, "ENDIF")]

ApplyBinOprt(p) ==
  LET n == Len(p.vals)
      op == Top(p.ops)
  IN IF n < 2 \/ "string" \in {p.vals[n - 1], p.vals[n]} THEN Refused(p)
     ELSE IF op = "=" THEN
       IF p.vals[n - 1] = "" THEN Refused(p) ELSE Reduced(p, 2, AddAssignOp(p.code, p.vals[n - 1]))
     ELSE Reduced(p, 2, AddOp(p.code, op))

Apply(p) ==
  CASE Top(p.ops) \in {"neg", "pos"} -> ApplyFunc(p, 1)
    [] Top(p.ops) \in BinaryOperators \cup {"="} -> ApplyBinOprt(p)
    [] Top(p.ops) = ":" -> ApplyIfElse(p)
    [] OTHER -> Refused(p)

RECURSIVE ApplyRemainingOprt(_)
ApplyRemainingOprt(p) ==
  IF p.state = "refused" \/ p.ops = <<>> \/ TopIs(p.ops, {"(", "?"}) THEN p
  ELSE ApplyRemainingOprt(Apply(p))

GetOprtPrecedence(op) ==
  CASE op = "=" -> -1 [] op = "?" -> 0 [] op = "||" -> 1 [] op = "&&" -> 2
    [] op \in Comparisons -> 5 [] op \in Signs -> 6
    [] op \in {"*", "/", "neg", "pos"} -> 7 [] op = "^" -> 8
\* The operator on the stack waits for the one that comes.
\* Mutant: equal precedences wait.
WaitsEqual(top, op) == GetOprtPrecedence(top) <= GetOprtPrecedence(op)
Waits(top, op) ==
  IF top = op THEN op = "^" ELSE GetOprtPrecedence(top) < GetOprtPrecedence(op)

RECURSIVE ApplyBefore(_, _)
ApplyBefore(p, op) ==
  IF p.state = "refused" \/ p.ops = <<>> \/ TopIs(p.ops, {"(", ":", "?"}) THEN p
  ELSE IF Waits(Top(p.ops), op) THEN p ELSE ApplyBefore(Apply(p), op)

Push(p, op) == [p EXCEPT !.ops = Append(@, op)]
-----------------------------------------------------------------------------
(***************************************************************************)
(* CreateRPN, for one token that the reader let through.                   *)
(***************************************************************************)
\* Mutant: the variables are told apart by where they are.
OnVariableWhere(p, name, ptr) ==
  [p EXCEPT !.vals = Append(@, name), !.code = AddVar(@, ptr), !.used = @ \cup {ptr}]
OnVariable(p, name, ptr) ==
  [p EXCEPT !.vals = Append(@, name), !.code = AddVar(@, ptr), !.used = @ \cup {name}]
OnOperand(p, token, ptr) ==
  CASE token \in Variables -> OnVariable(p, token, ptr)
    [] token \in DOMAIN Number ->
         [p EXCEPT !.vals = Append(@, ""), !.code = AddVal(@, Number[token])]
    [] token = "string" ->
         IF p.ops = <<>> THEN Refused(p) ELSE [p EXCEPT !.vals = Append(@, "string")]

OnOperator(p, op) ==
  LET Then(q) ==
        IF q.state = "refused" THEN q
        ELSE Push(IF op = "?" THEN [q EXCEPT !.code = AddIfElse(@, "IF")] ELSE q, op)
  IN Then(ApplyBefore(IF op = "?" THEN [p EXCEPT !.ifs = @ + 1, !.args = Append(@, 1)] ELSE p, op))

OnElse(p) ==
  IF p.args = <<>> \/ TopIs(p.args, Nat \ {0, 1}) \/ p.ifs = 0 THEN Refused(p)
  ELSE LET Then(q) ==
             IF q.state = "refused" THEN q ELSE Push([q EXCEPT !.code = AddIfElse(@, "ELSE")], ":")
       IN Then(ApplyRemainingOprt([p EXCEPT !.args = Front(@), !.ifs = @ - 1]))

OnSeparator(p) ==
  IF TopIs(p.ops, {"?"}) \/ p.args = <<>> THEN Refused(p)
  ELSE ApplyRemainingOprt([p EXCEPT !.args[Len(p.args)] = @ + 1])

OnClosing(p) ==
  LET Then(q) ==
        LET r == [q EXCEPT !.ops = Front(@), !.args = Front(@)]
            n == Top(q.args)
        IN IF q.state = "refused" \/ ~TopIs(q.ops, {"("}) THEN q
           ELSE IF q.args = <<>> \/ (n > 1 /\ ~TopIs(r.ops, Functions)) THEN Refused(q)
           ELSE IF TopIs(r.ops, Functions) THEN ApplyFunc(r, n)
           ELSE r
  IN Then(ApplyRemainingOprt(IF p.last = "(" THEN [p EXCEPT !.args[Len(p.args)] = @ - 1] ELSE p))

\* m_nFinalResultIdx is the count of the outermost list.
OnEnd(p) ==
  LET Then(q) ==
        LET r == [q EXCEPT !.code = Finalize(@)]
        IN IF q.state = "refused" THEN q
           ELSE IF r.ifs > 0 \/ Len(r.args) # 1 \/ r.vals = <<>> \/ "string" \in Range(r.vals) THEN Refused(r)
           ELSE [r EXCEPT !.state = "accepted"]
  IN Then(ApplyRemainingOprt(p))
FinalResultIdx(p) == p.args[1]

\* ptr: what the variable's token points to.
Parsed(p, token, ptr) ==
  LET read == ReadNextToken(token, p.flags, p.open, p.last)
      q == [p EXCEPT !.flags = read.flags, !.open = read.open]
      after ==
        CASE read.code = "end" -> OnEnd(q)
          [] read.code \in BinaryOperators \cup {"=", "?"} -> OnOperator(q, read.code)
          [] read.code = ":" -> OnElse(q)
          [] read.code = "," -> OnSeparator(q)
          [] read.code = "(" -> Push([q EXCEPT !.args = Append(@, 1)], "(")
          [] read.code = ")" -> OnClosing(q)
          [] read.code \in Functions \cup {"neg", "pos"} -> Push(q, read.code)
          [] OTHER -> OnOperand(q, read.code, ptr)
  IN IF p.state = "refused" THEN p
     ELSE IF ~read.ok THEN Refused(p) ELSE [after EXCEPT !.last = read.code]

Init ==
  /\ alphabet \in Alphabets
  /\ text = <<>>
  /\ check = Parser /\ bound = Parser

\* All unknown variables point to the reader's one zero.
ReadToken ==
  /\ check.state = "reading" /\ Len(text) < MaxTokens[alphabet]
  /\ \E token \in alphabet :
       /\ text' = Append(text, token)
       /\ check' = Parsed(check, token, "unknown")
       /\ bound' = Parsed(bound, token, token)
  /\ UNCHANGED alphabet
ReadEnd ==
  /\ check.state = "reading"
  /\ check' = Parsed(check, "end", "")
  /\ bound' = Parsed(bound, "end", "")
  /\ UNCHANGED <<alphabet, text>>
Next == ReadToken \/ ReadEnd
Spec == Init /\ [][Next]_vars
-----------------------------------------------------------------------------
(***************************************************************************)
(* What a text means: [ok |-> FALSE] if it is no expression, and otherwise *)
(* its value and what it leaves in the variables.                          *)
(***************************************************************************)
Nonsense == [ok |-> FALSE]
Means(v, env) == [ok |-> TRUE, v |-> v, env |-> env]

Depth(t, i) ==
  Cardinality({j \in 1 .. i - 1 : t[j] \in {"("}}) - Cardinality({j \in 1 .. i - 1 : t[j] = ")"})
\* A function's token brings no bracket of its own: the "(" follows it.
EndsOperand(token) == token = ")" \/ token \in DOMAIN Number \/ token \in Variables
\* Where a token of the set stands outside brackets, between two operands.
Places(t, set) ==
  {i \in 2 .. Len(t) : t[i] \in set /\ EndsOperand(t[i - 1]) /\ Depth(t, i) = 0}
Balanced(t) ==
  /\ \A i \in 1 .. Len(t) : Depth(t, i) >= 0
  /\ Depth(t, Len(t) + 1) = 0
First(set) == CHOOSE i \in set : \A j \in set : i <= j
Final(set) == CHOOSE i \in set : \A j \in set : i >= j
Before(t, i) == SubSeq(t, 1, i - 1)
After(t, i) == SubSeq(t, i + 1, Len(t))
\* The ":" that belongs to the first "?".
ElseOf(t) ==
  LET marks == Places(t, {"?", ":"})
      count(i, token) == Cardinality({j \in marks : j <= i /\ t[j] = token})
      ends == {i \in marks : t[i] = ":" /\ count(i, "?") = count(i, ":")}
  IN IF ends = {} THEN 0 ELSE First(ends)

Levels == <<{"||"}, {"&&"}, Comparisons, Signs, {"*", "/"}>>

RECURSIVE Meaning(_, _)
RECURSIVE MeaningOfArguments(_, _, _)
MeaningOfBinary(t, i, env) ==
  LET x == Meaning(Before(t, i), env)
      y == Meaning(After(t, i), x.env)
  IN IF ~x.ok THEN Nonsense
     ELSE IF ~y.ok THEN Nonsense ELSE Means(Calculate(t[i], x.v, y.v), y.env)
MeaningOfConditional(t, env) ==
  LET colon == ElseOf(t)
      question == First(Places(t, {"?"}))
      x == Meaning(Before(t, question), env)
      y == Meaning(SubSeq(t, question + 1, colon - 1), x.env)
      z == Meaning(After(t, colon), x.env)
  IN IF colon = 0 THEN Nonsense
     ELSE IF ~x.ok THEN Nonsense
     ELSE IF ~y.ok \/ ~z.ok THEN Nonsense ELSE IF Truth(x.v) THEN y ELSE z
\* Each argument in turn; `so` are the values of those before.
MeaningOfArguments(t, so, env) ==
  LET commas == Places(t, {","})
      Then(x) ==
        IF ~x.ok THEN Nonsense
        ELSE IF commas = {} THEN Means(Append(so, x.v), x.env)
        ELSE MeaningOfArguments(After(t, First(commas)), Append(so, x.v), x.env)
  IN IF t = <<>> /\ so = <<>> THEN Means(<<>>, env)
     ELSE Then(Meaning(IF commas = {} THEN t ELSE Before(t, First(commas)), env))
MeaningOfCall(f, t, env) ==
  LET args == MeaningOfArguments(t, <<>>, env) IN
  IF ~args.ok THEN Nonsense
  ELSE IF Len(args.v) # Arity[f] /\ ~(Arity[f] = -1 /\ args.v # <<>>) THEN Nonsense
  ELSE Means(Call(f, args.v), args.env)

Meaning(t, env) ==
  LET n == Len(t)
      choices == Places(t, {"?", "="})
      levels == {l \in DOMAIN Levels : Places(t, Levels[l]) # {}}
      powers == Places(t, {"^"})
      rest == Meaning(Tail(t), env)
  IN CASE t = <<>> \/ ~Balanced(t) -> Nonsense
       [] t # <<>> /\ choices # {} /\ t[First(choices)] = "?" -> MeaningOfConditional(t, env)
       [] t # <<>> /\ choices # {} /\ t[First(choices)] = "=" ->
            LET x == Meaning(After(t, 2), env)
                more == Places(After(t, 2), {"?", "="})
            IN IF First(choices) # 2 \/ t[1] \notin Variables \/ ~x.ok THEN Nonsense
               ELSE IF more # {} /\ After(t, 2)[First(more)] = "=" THEN Nonsense
               ELSE Means(x.v, [x.env EXCEPT ![t[1]] = x.v])
       [] choices = {} /\ levels # {} ->
            MeaningOfBinary(t, Final(Places(t, Levels[First(levels)])), env)
       [] choices = {} /\ levels = {} /\ t[1] \in Signs ->
            IF n = 1 THEN Nonsense
            ELSE IF t[2] \in Signs \/ ~rest.ok THEN Nonsense
            ELSE Means(Call(Sign(t[1]), <<rest.v>>), rest.env)
       [] choices = {} /\ levels = {} /\ t[1] \notin Signs /\ powers # {} ->
            MeaningOfBinary(t, First(powers), env)
       [] OTHER ->
            CASE n = 1 /\ t[1] \in DOMAIN Number -> Means(Number[t[1]], env)
              [] n = 1 /\ t[1] \in Variables -> Means(env[t[1]], env)
              [] n > 2 /\ t[1] = "(" /\ t[n] = ")" -> Meaning(SubSeq(t, 2, n - 1), env)
              [] n > 2 /\ t[1] \in Functions /\ t[2] = "(" /\ t[n] = ")" ->
                   MeaningOfCall(t[1], SubSeq(t, 3, n - 1), env)
              [] OTHER -> Nonsense

\* A whole text may be a list of expressions; its value is the last one's.
Intended(t, env) ==
  LET LastOf(all) == IF all.ok THEN Means(Last(all.v), all.env) ELSE Nonsense IN
  IF t = <<>> \/ ~Balanced(t) THEN Nonsense ELSE LastOf(MeaningOfArguments(t, <<>>, env))
-----------------------------------------------------------------------------
TypeOK ==
  /\ alphabet \in Alphabets /\ text \in Seq(alphabet)
  /\ \A p \in {check, bound} :
       /\ p.state \in {"reading", "accepted", "refused"} /\ p.flags \subseteq Everything
       /\ p.open \in Nat /\ p.used \subseteq Variables /\ p.ifs \in Nat

\* Whether a text is an expression depends on no variable.
IsExpression(t) == Intended(t, CHOOSE env \in Environments : TRUE).ok
Accepted == bound.state = "accepted"
Result(env) == Evaluate(bound.code, FinalResultIdx(bound), env)

(***************************************************************************)
(* An expression gives what it says, whatever the optimiser made of it:    *)
(* its value, and the values it assigns.                                   *)
(***************************************************************************)
GivesItsMeaning ==
  Accepted => \A env \in Environments :
    LET Agree(result, meaning) ==
          meaning.ok => result.v = meaning.v /\ result.env = meaning.env
    IN Agree(Result(env), Intended(text, env))

(***************************************************************************)
(* Running an expression stays within the stack that was reserved for it   *)
(* and ends with its result on top; and the optimiser never looks before   *)
(* the first instruction.                                                  *)
(***************************************************************************)
StaysInside ==
  Accepted /\ IsExpression(text) =>
    ~bound.code.wild /\ \A env \in Environments : Result(env).inside

\* No expression is refused: neither at its end, nor at a token that one more
\* could follow.
ExpressionsAreAccepted ==
  [][bound'.state = "refused" =>
       /\ ~IsExpression(text')
       /\ text' # text => \A token \in alphabet : ~IsExpression(Append(text', token))]_vars

(***************************************************************************)
(* "to avoid unexpected end of formula", "to avoid i.e. ",," or "+," ..."  *)
(* (muParserTokenReader.h:103, :98): what is accepted is an expression.    *)
(***************************************************************************)
NonsenseIsRefused == Accepted => IsExpression(text)

(***************************************************************************)
(* What the constructor found out about an expression is true of its       *)
(* evaluation: it is accepted if it was, and the variables found are those *)
(* it has, no more and no fewer.                                           *)
(***************************************************************************)
CheckedIsBound ==
  /\ check.state = bound.state
  /\ Accepted => check.used = Range(text) \cap Variables /\ bound.used = check.used

(***************************************************************************)
(* An accepted expression is evaluated to what it says, of the variables   *)
(* found in it, inside the stack that was reserved for it.                 *)
(***************************************************************************)
EvaluationInv == TypeOK /\ GivesItsMeaning /\ StaysInside /\ CheckedIsBound
=============================================================================

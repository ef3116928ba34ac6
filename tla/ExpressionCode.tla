---------------------------- MODULE ExpressionCode ----------------------------
(***************************************************************************)
(* The bytecode of an expression: how it is written and optimised, and how *)
(* it is run.  Floats are exact fractions; what is not a number, or larger *)
(* than Largest, is NaN.                                                   *)
(***************************************************************************)
EXTENDS ExpressionReader, Fractions, SequencesExt, TLC

CONSTANT Largest   \* bound of numerators and denominators

NaN == [n |-> 0, d |-> 0]
One == Whole(1)
Zero == Whole(0)
Within(x) == IF Abs(x.n) > Largest \/ x.d > Largest THEN NaN ELSE x
Bool(b) == IF b THEN One ELSE Zero
Truth(x) == x # Zero

Power(x, y) ==
  IF y = Zero THEN One
  ELSE IF NaN \in {x, y} \/ y.d # 1 \/ y.n \notin -6 .. 6 \/ (x = Zero /\ y.n < 0) THEN NaN
  ELSE LET TimesX(p) == IF p = NaN THEN NaN ELSE Within(Times(p, x))
           f[i \in 0 .. Abs(y.n)] == IF i = 0 THEN One ELSE TimesX(f[i - 1])
           Signed(p) == IF p = NaN \/ y.n > 0 THEN p ELSE Over(One, p)
       IN Signed(f[Abs(y.n)])
Calculate(op, x, y) ==
  CASE op = "&&" -> Bool(Truth(x) /\ Truth(y))
    [] op = "||" -> Bool(Truth(x) \/ Truth(y))
    [] op = "^" -> Power(x, y)
    [] op \in Comparisons ->
         Bool(IF NaN \in {x, y} THEN op = "!="
              ELSE CASE op = "<" -> Less(x, y) [] op = ">" -> Less(y, x)
                     [] op = "<=" -> AtMost(x, y) [] op = ">=" -> AtMost(y, x)
                     [] op = "==" -> x = y [] op = "!=" -> x # y)
    [] NaN \in {x, y} \/ (op = "/" /\ y = Zero) -> NaN
    [] OTHER -> Within(CASE op = "+" -> Plus(x, y) [] op = "-" -> Minus(x, y)
                         [] op = "*" -> Times(x, y) [] op = "/" -> Over(x, y))
Negated(x) == IF x = NaN THEN NaN ELSE Minus(Zero, x)

\* The functions that stay within fractions; rnd gives what it gives.
Call(f, args) ==
  LET Least(x, y) == IF Truth(Calculate("<", y, x)) THEN y ELSE x
      Most(x, y) == IF Truth(Calculate("<", x, y)) THEN y ELSE x
      Added(x, y) == Calculate("+", x, y)
  IN CASE f = "neg" -> Negated(args[1])
       [] f = "pos" -> args[1]
       [] f = "abs" -> IF Truth(Calculate(">=", args[1], Zero)) THEN args[1] ELSE Negated(args[1])
       [] f = "min" -> FoldLeft(Least, args[1], args)
       [] f = "max" -> FoldLeft(Most, args[1], args)
       [] f = "sum" -> FoldLeft(Added, Zero, args)
       [] f = "rnd" -> Fraction(1, 3)
-----------------------------------------------------------------------------
(***************************************************************************)
(* An instruction: what it does, the variable it is about ("" for none),   *)
(* the factor and the value of a constant or of factor * variable + value, *)
(* and for IF, ELSE the jump, for a function its arguments.                *)
(***************************************************************************)
Instruction(c, ptr, factor, value, n) ==
  [c |-> c, ptr |-> ptr, factor |-> factor, value |-> value, n |-> n]
Val(v) == Instruction("VAL", "", Zero, v, 0)
Var(name) == Instruction("VAR", name, One, Zero, 0)
Op(op) == Instruction(op, "", Zero, Zero, 0)

\* Two instructions that can be one; [ok |-> FALSE] if they cannot.
Merged(instruction) == [ok |-> TRUE, v |-> instruction]
Apart == [ok |-> FALSE]
Commands(x, y) == <<x.c, y.c>>

MergedPower(x, y) ==
  IF Commands(x, y) # <<"VAR", "VAL">> THEN Apart
  ELSE CASE y.value = Zero -> Merged(Val(One))
         [] y.value = One -> Merged(x)
         [] y.value \in {Whole(i) : i \in 2 .. 4} ->
              Merged([x EXCEPT !.c = "VARPOW", !.n = y.value.n])
         [] OTHER -> Apart
Parts == {"VAL", "VAR", "VARMUL"}
\* Mutant: a sum of two variables, whichever they are.
MergedSumAny(op, x, y) ==
  IF {x.c, y.c} \subseteq Parts
  THEN Merged([x EXCEPT !.c = "VARMUL", !.ptr = IF @ = "" THEN y.ptr ELSE @,
                        !.factor = Calculate(op, @, y.factor), !.value = Calculate(op, @, y.value)])
  ELSE Apart
MergedSum(op, x, y) ==
  IF {x.c, y.c} \subseteq Parts /\ ("VAL" \in {x.c, y.c} \/ x.ptr = y.ptr)
  THEN Merged([x EXCEPT !.c = "VARMUL", !.ptr = IF @ = "" THEN y.ptr ELSE @,
                        !.factor = Calculate(op, @, y.factor), !.value = Calculate(op, @, y.value)])
  ELSE Apart
MergedProduct(x, y) ==
  LET ptr == IF x.ptr = "" THEN y.ptr ELSE x.ptr
      Times2(u, v) == Calculate("*", u, v)
  IN CASE Commands(x, y) \in {<<"VAL", "VAR">>, <<"VAR", "VAL">>} ->
            Merged(Instruction("VARMUL", ptr, Calculate("+", x.value, y.value), Zero, 0))
       [] Commands(x, y) = <<"VARMUL", "VAL">> ->
            Merged([x EXCEPT !.factor = Times2(@, y.value), !.value = Times2(@, y.value)])
       [] Commands(x, y) = <<"VAL", "VARMUL">> ->
            Merged([y EXCEPT !.factor = Times2(@, x.value), !.value = Times2(@, x.value)])
       [] Commands(x, y) = <<"VAR", "VAR">> /\ x.ptr = y.ptr ->
            Merged([x EXCEPT !.c = "VARPOW", !.n = 2])
       [] OTHER -> Apart
MergedQuotient(x, y) ==
  IF Commands(x, y) = <<"VARMUL", "VAL">> /\ y.value # Zero
  THEN Merged([x EXCEPT !.factor = Calculate("/", @, y.value), !.value = Calculate("/", @, y.value)])
  ELSE Apart
\* Two constants: && and || of them look at their whole parts only.
WholePart(x) == IF x = NaN THEN x ELSE Whole((IF x.n < 0 THEN -1 ELSE 1) * (Abs(x.n) \div x.d))
ConstantFolding(op, x, y) ==
  IF op \in {"&&", "||"} THEN Val(Calculate(op, WholePart(x.value), WholePart(y.value)))
  ELSE Val(Calculate(op, x.value, y.value))

Optimised(op, x, y) ==
  CASE Commands(x, y) = <<"VAL", "VAL">> -> Merged(ConstantFolding(op, x, y))
    [] op = "^" -> MergedPower(x, y)
    [] op \in Signs -> MergedSum(op, x, y)
    [] op = "*" -> MergedProduct(x, y)
    [] op = "/" -> MergedQuotient(x, y)
    [] OTHER -> Apart
-----------------------------------------------------------------------------
(***************************************************************************)
(* The code being written: its instructions, where the top of the stack    *)
(* will be, how far it will reach, and whether the optimiser looked before *)
(* the first instruction.                                                  *)
(***************************************************************************)
EmptyCode == [rpn |-> <<>>, top |-> 0, size |-> 0, wild |-> FALSE]
Larger(a, b) == IF a < b THEN b ELSE a
Pushed(code, instruction) ==
  [code EXCEPT !.rpn = Append(@, instruction), !.top = @ + 1, !.size = Larger(@, code.top + 1)]
AddVar(code, name) == Pushed(code, Var(name))
AddVal(code, v) == Pushed(code, Val(v))
AddIfElse(code, c) == [code EXCEPT !.rpn = Append(@, Op(c))]
AddAssignOp(code, name) ==
  [code EXCEPT !.rpn = Append(@, [Op("ASSIGN") EXCEPT !.ptr = name]), !.top = @ - 1]

AddOp(code, op) ==
  LET n == Len(code.rpn)
      Added(merged) ==
        IF merged.ok
        THEN [code EXCEPT !.rpn = Append(SubSeq(@, 1, n - 2), merged.v)]
        ELSE [code EXCEPT !.rpn = Append(@, Op(op)), !.top = @ - 1]
  IN IF n < 2 THEN [code EXCEPT !.wild = TRUE]
     ELSE Added(Optimised(op, code.rpn[n - 1], code.rpn[n]))

\* A function or a sign of argc arguments.
AddFun(code, f, argc) ==
  LET n == Len(code.rpn)
      arguments == SubSeq(code.rpn, n - argc + 1, n)
      fixed == f # "rnd" /\ argc > 0 /\ (f \in {"neg", "pos"} \/ Arity[f] >= 0)
      placed == code.top - argc + 1
      fold == fixed /\ \A i \in 1 .. argc : arguments[i].c = "VAL"
  IN IF f = "pos" THEN code
     ELSE IF fixed /\ n < argc THEN [code EXCEPT !.wild = TRUE]
     ELSE [code EXCEPT
             !.rpn = IF fold
                     THEN Append(SubSeq(@, 1, n - argc), Val(Call(f, [i \in 1 .. argc |-> arguments[i].value])))
                     ELSE Append(@, [Op("FUNC") EXCEPT !.ptr = f, !.n = argc]),
             !.top = placed, !.size = Larger(@, placed)]

\* The end, and the distances from each IF to its ELSE and on to its ENDIF.
Finalize(code) ==
  LET rpn == Append(code.rpn, Op("END"))
      Visit(seen, i) ==
        CASE rpn[i].c = "IF" -> [seen EXCEPT !.ifs = Append(@, i)]
          [] rpn[i].c = "ELSE" ->
               [jump |-> seen.jump @@ (Last(seen.ifs) :> i - Last(seen.ifs)),
                ifs |-> Front(seen.ifs), elses |-> Append(seen.elses, i)]
          [] rpn[i].c = "ENDIF" ->
               [seen EXCEPT !.jump = @ @@ (Last(seen.elses) :> i - Last(seen.elses)), !.elses = Front(@)]
          [] OTHER -> seen
      jump == FoldLeft(Visit, [jump |-> <<>>, ifs |-> <<>>, elses |-> <<>>],
                       [i \in DOMAIN rpn |-> i]).jump
  IN [code EXCEPT !.rpn = [i \in DOMAIN rpn |->
                             IF i \in DOMAIN jump THEN [rpn[i] EXCEPT !.n = jump[i]] ELSE rpn[i]]]
\* Mutant: no room for the unused value at 0.
GetMaxStackSizeLess(code) == code.size
GetMaxStackSize(code) == code.size + 1
-----------------------------------------------------------------------------
(***************************************************************************)
(* Running: the place in the code, the top of the stack, the stack buffer  *)
(* (which counts from 0 and is used from 1), the variables, and whether    *)
(* anything was read or written outside the buffer.                        *)
(***************************************************************************)
Unwritten == [n |-> -1, d |-> 0]
Machine(code, env) ==
  [pc |-> 1, sidx |-> 0, stack |-> [i \in 0 .. GetMaxStackSize(code) - 1 |-> Unwritten],
   env |-> env, wild |-> FALSE]

Value(i, env) ==
  LET x == env[i.ptr] IN
  CASE i.c = "VAR" -> x
    [] i.c = "VARPOW" -> Power(x, Whole(i.n))
    [] i.c = "VARMUL" -> Calculate("+", Calculate("*", x, i.factor), i.value)

\* m with `v` at position `at` as the new top, which was read from `from` on.
Put(m, at, from, v) ==
  IF at < 1 \/ at \notin DOMAIN m.stack \/ from \notin DOMAIN m.stack
  THEN [m EXCEPT !.wild = TRUE]
  ELSE [m EXCEPT !.sidx = at, !.stack[at] = v, !.pc = @ + 1]
At(m, i) == IF i \in DOMAIN m.stack THEN m.stack[i] ELSE Unwritten

Instructed(code, m) ==
  LET i == code.rpn[m.pc]
      s == m.sidx
  IN CASE i.c = "VAL" -> Put(m, s + 1, s + 1, i.value)
       [] i.c \in {"VAR", "VARPOW", "VARMUL"} -> Put(m, s + 1, s + 1, Value(i, m.env))
       [] i.c \in BinaryOperators -> Put(m, s - 1, s, Calculate(i.c, At(m, s - 1), At(m, s)))
       [] i.c = "ASSIGN" -> [Put(m, s - 1, s, At(m, s)) EXCEPT !.env[i.ptr] = At(m, s)]
       [] i.c = "IF" ->
            [m EXCEPT !.sidx = s - 1, !.pc = @ + 1 + (IF At(m, s) = Zero THEN i.n ELSE 0)]
       [] i.c = "ELSE" -> [m EXCEPT !.pc = @ + 1 + i.n]
       [] i.c = "ENDIF" -> [m EXCEPT !.pc = @ + 1]
       [] i.c = "FUNC" ->
            Put(m, s - i.n + 1, s, Call(i.ptr, [j \in 1 .. i.n |-> At(m, s - i.n + j)]))

RECURSIVE Run(_, _)
Run(code, m) ==
  IF m.wild \/ code.rpn[m.pc].c = "END" THEN m ELSE Run(code, Instructed(code, m))

\* ParseCmdCodeShort: one instruction, and no stack.
RunShort(code, env) ==
  LET i == code.rpn[1] IN
  CASE i.c = "VAL" -> i.value
    [] i.c = "FUNC" -> Call(i.ptr, <<>>)
    [] OTHER -> Value(i, env)
\* What an evaluation of the code gives, and what it leaves in the variables.
Evaluate(code, result, env) ==
  IF Len(code.rpn) = 2 THEN [v |-> RunShort(code, env), env |-> env, inside |-> TRUE]
  ELSE LET Ended(m) == [v |-> At(m, result), env |-> m.env, inside |-> ~m.wild /\ m.sidx = result]
       IN Ended(Run(code, Machine(code, env)))
=============================================================================

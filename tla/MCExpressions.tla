---------------------------- MODULE MCExpressions ----------------------------
EXTENDS Expressions
MCNumber == ("0" :> Whole(0)) @@ ("2" :> Whole(2)) @@ ("3" :> Whole(3)) @@ ("half" :> Fraction(1, 2))
MCArity == ("abs" :> 1) @@ ("min" :> -1) @@ ("rnd" :> 0)
MCEnvironments ==
  {[v \in {"a", "b"} |-> IF v = "a" THEN x ELSE y] : x \in {Whole(0), Whole(3)}, y \in {Whole(-2), Fraction(1, 2)}}
\* No text has && or || of two constants that are no whole numbers: folded, they
\* are cut to whole numbers, and not if they are computed.
MCMaxTokens ==
  ({"a", "b", "2", "+", "-", "*", "^", "(", ")"} :> 6) @@
  ({"a", "b", "2", "3", "half", "-", "*", "/"} :> 6) @@
  ({"a", "2", "+", "*", "^"} :> 9) @@
  ({"a", "2", "?", ":", "(", ")", "=", "<", ","} :> 6) @@
  ({"a", "2", "?", ":", "="} :> 9) @@
  ({"a", "2", "-", ",", "abs", "min", "rnd", "(", ")", "string"} :> 7) @@
  ({"a", "b", "0", "&&", "||", "==", "+", "?", ":"} :> 6)
=============================================================================

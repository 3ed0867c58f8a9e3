-------------------------------- MODULE MCLoop --------------------------------
(***************************************************************************)
(* Loops over a vector i of three bits, an int j and an unsigned int k,    *)
(* ints being IntWidth bits wide.                                          *)
(***************************************************************************)
EXTENDS LoopUnroll

MCEnv == {"env"}
MCVar == {"i", "j", "k"}
MCType == [v \in MCVar |-> CASE v = "i" -> [width |-> 3, sign |-> FALSE]
                             [] v = "j" -> [width |-> 4, sign |-> TRUE]
                             [] v = "k" -> [width |-> 4, sign |-> FALSE]]

Lit(v, w, s) == [val |-> v, width |-> w, sign |-> s]
Int4(v) == Lit(v, 4, TRUE)
Bits(v) == Lit(v, 3, FALSE)
Of(v) == [name |-> v]

Assign(v, op, a, b) == [kind |-> "assign", var |-> v, op |-> op, left |-> a, right |-> b]
Other == [kind |-> "other", var |-> "i", op |-> "+", left |-> Int4(0), right |-> Int4(0)]
Cond(op, a, b) == [op |-> op, left |-> a, right |-> b]

For(inits, stop, steps, declares, hasStop) ==
  [inits |-> inits, stop |-> stop, steps |-> steps, declares |-> declares, hasStop |-> hasStop]

(* for (v = a; v op b; v = v by c)                                         *)
Counting ==
  {For(<<Assign(v, "+", a, Bits(0))>>, Cond(op, Of(v), b), <<Assign(v, by, Of(v), c)>>, TRUE, TRUE) :
     v \in MCVar, a \in {Int4(0), Int4(-3), Bits(6)}, op \in CompareOps,
     b \in {Int4(0), Int4(5), Int4(-1), Bits(7), Lit(X, 3, FALSE), Lit(9, 4, FALSE)},
     by \in {"+", "-", "*", "/"}, c \in {Int4(2), Bits(1), Int4(-1), Bits(7)}}

(* Two variables, no condition, no variables of its own, other steps.      *)
Special ==
  {For(<<Assign("i", "+", Bits(0), Bits(0)), Assign("j", "+", Int4(3), Int4(4))>>,
       Cond("<", Of("i"), Of("j")), <<Assign("i", "+", Of("i"), Bits(1)), last>>, d, s) :
     last \in {Assign("j", "-", Of("j"), Int4(1)), Assign("j", "+", Of("i"), Of("j")), Other},
     d \in BOOLEAN, s \in BOOLEAN}
  \cup {For(<<Assign("i", "+", Bits(0), Bits(0)), Other>>, Cond("<", Of("i"), Bits(2)),
            <<Assign("i", "+", Of("i"), Bits(1))>>, FALSE, TRUE)}

MCLoops == Counting \cup Special
=============================================================================

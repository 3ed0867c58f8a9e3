------------------------------ MODULE MCArrays ------------------------------
(***************************************************************************)
(* An array m of two elements of two bits, a register or variable x and an *)
(* input c.  A value is four bits: the elements of m, or x or c.           *)
(***************************************************************************)
EXTENDS UnpackedArrays

MCVar == {"c", "x", "m"}
MCArray == {"m"}
MCVal == 0..15
MCPos == 0..1
MCStore == [MCVar -> MCVal]

(* c selects; the elements of m start out different.                       *)
MCSigma == {s \in MCStore : s["c"] \in 0..1 /\ s["x"] = 3 /\ s["m"] = 4}

Pow2(n) == IF n = 0 THEN 1 ELSE IF n = 1 THEN 2 ELSE 4

MCElement == [a \in MCVal |-> [p \in MCPos |-> (a \div (IF p = 0 THEN 1 ELSE 4)) % 4]]

(* Bases 0 and 1 are the elements, 4 to 7 their bits, the others outside.  *)
MCPosition ==
  [b \in MCVal |-> IF b \in 0..1 THEN b ELSE IF b \in 4..7 THEN (b - 4) \div 2 ELSE None]

MCReplace ==
  [q \in MCVal \X MCVal \X MCVal |->
     LET bit == Pow2(q[3] % 2)
     IN  IF q[3] \in 0..1 THEN q[2] % 4
         ELSE (q[1] - bit * ((q[1] \div bit) % 2) + bit * (q[2] % 2)) % 16]

MCArrayOf == [e \in [MCPos -> 0..3] |-> e[0] + 4 * e[1]]

MCPatch ==
  [q \in MCVal \X MCVal \X MCVal |->
     LET e(p) == IF MCPosition[q[3]] = p
                 THEN MCReplace[<<MCElement[q[1]][p], q[2], q[3]>>]
                 ELSE MCElement[q[1]][p]
     IN  MCArrayOf[[p \in MCPos |-> e(p)]]]

Read(v) == [m \in MCStore |-> m[v]]
Bit(v) == [m \in MCStore |-> 4 + (m[v] % 2)]
Elem(k) == [m \in MCStore |-> MCElement[m["m"]][k]]
IsOne(v) == [m \in MCStore |-> m[v] = 1]

Whole(v, f) == [var |-> v, rhs |-> f, idx |-> None]
Part(f, i) == [var |-> "m", rhs |-> f, idx |-> i]

Blocking(t) == [nb |-> FALSE, lhs |-> <<t>>]
Nonblocking(t) == [nb |-> TRUE, lhs |-> <<t>>]

(* x = m[0];  m[c] = x;  m[0][x[0]] <= c;                                  *)
MCAssigns ==
  {Blocking(Whole("x", Elem(0))),
   Blocking(Part(Read("x"), Read("c"))),
   Nonblocking(Part(Read("c"), Bit("x")))}

(* A read and a write, both blocking.                                      *)
MCReadAndWrite == {Blocking(Whole("x", Elem(0))), Blocking(Part(Read("x"), Read("c")))}

MCTests == {IsOne("c")}
MCSelectors == {Read("c")}
MCLabels == {[m \in MCStore |-> {MCElement[m["m"]][0]}]}
MCLike == [v \in MCVal |-> {v}]
MCFullCases == {FALSE}
=============================================================================

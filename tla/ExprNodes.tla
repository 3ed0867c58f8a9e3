------------------------------- MODULE ExprNodes -------------------------------
(***************************************************************************)
(* The nodes ExprBuilder creates for packed expressions, the text the      *)
(* dumper prints for them and what try_evaluate makes of them.             *)
(*                                                                         *)
(* A node has a width and a sign, which the builder derives from those of  *)
(* its operands.  Of the rest of a node only what others see is kept:      *)
(*   op     "input" and "const" are printed by name or value wherever they *)
(*          are used, any other node through a temporary of its type       *)
(*   val    the value the temporary, name or constant has, for every       *)
(*          valuation of the inputs                                        *)
(*   known  what try_evaluate returns, an int, or None (std::nullopt)      *)
(*   tame   no int on the way to it left the type of its node, and no C++  *)
(*          shift was undefined                                            *)
(*                                                                         *)
(* A definition whose name starts with Bug is not part of the model: it is *)
(* the definition after it with a plausible fault, for the properties to   *)
(* catch.                                                                  *)
(***************************************************************************)
EXTENDS VerilogValues

CONSTANTS Env,      \* valuations of the inputs
          IntWidth, \* bits of a C++ int
          None      \* std::nullopt

Ints == Values(IntWidth, TRUE)

ASSUME IntAssumption == IntWidth \in Nat \ {0} /\ None \notin Int

(* Overflow and the amounts of shifts wrap, as in the build.               *)
CppInt(x) == Fit(x, IntWidth, TRUE)
ShiftCount(n) == n % IntWidth

Wider(v, w) == IF v >= w THEN v ELSE w

-----------------------------------------------------------------------------
(* The value of an operand in an expression of width w and sign s.  The    *)
(* constant -m is printed as a minus before m.                             *)

InContext(n, w, s, e) ==
  LET v == n.val[e]
      m == Fit(-v, n.width, n.sign)
  IN  IF v = X THEN X
      ELSE IF n.op = "const" /\ v < 0
           THEN Fit(-(IF s THEN m ELSE Pattern(m, n.width)), w, s)
      ELSE IF s THEN v ELSE Pattern(v, n.width)

Own(n, e) == InContext(n, n.width, n.sign, e)

(* What an operand gives as the amount of a shift, which is unsigned.      *)
Amount(n, e) == Strict({Own(n, e)}, Pattern(Own(n, e), n.width))

(* The effect of t = n, for a variable t of width w and sign s.            *)
Assigned(n, w, s, e) ==
  LET v == InContext(n, Wider(w, n.width), n.sign, e) IN Strict({v}, Fit(v, w, s))

-----------------------------------------------------------------------------
(* Nodes.  Temp takes the exact int try_evaluate is to return, or None.    *)

Node(op, w, s, val, known, tame) ==
  [op |-> op, width |-> w, sign |-> s, val |-> val, known |-> known, tame |-> tame]

Temp(w, s, val, exact, tame) ==
  Node("temp", w, s, val, IF exact = None THEN None ELSE CppInt(exact),
       tame /\ (exact # None => exact \in Values(w, s) /\ exact \in Ints))

Opaque(w, s, val) == Temp(w, s, val, None, TRUE)

Input(name, w, s) == Node("input", w, s, [e \in Env |-> e[name]], None, TRUE)

(* A constant with an unknown digit or beyond an int is not evaluated.     *)
Const(v, w, s) == Node("const", w, s, [e \in Env |-> v], IF v \in Ints THEN v ELSE None, TRUE)

ConstantZero == Const(0, 1, FALSE)

(* The int an operator of C++ gives, unless an operand has none.           *)
Exactly(operands, int) == IF \E n \in operands : n.known = None THEN None ELSE int

Tame(operands) == \A n \in operands : n.tame

-----------------------------------------------------------------------------
(* Operators of one operand.                                               *)

CppReduce(op, a) == Reduce(op, a.known, a.width)

CppUnary(op, a) ==
  CASE op = "!" -> Truth(a.known = 0)
    [] op = "~" -> -a.known - 1
    [] op = "-" -> -a.known

CreateReduce(op, a) ==
  Temp(1, FALSE, [e \in Env |-> Strict({Own(a, e)}, Reduce(op, Own(a, e), a.width))],
       Exactly({a}, CppReduce(op, a)), a.tame /\ a.width <= IntWidth)

CreateLogicalNot(a) ==
  Temp(1, FALSE, [e \in Env |-> Strict({Own(a, e)}, Truth(Own(a, e) = 0))],
       Exactly({a}, CppUnary("!", a)), a.tame)

(* The operator is printed right before its operand: a minus before the    *)
(* minus of a constant makes a decrement, a text without a value.          *)
PrintsDecrement(op, a) == op = "-" /\ a.op = "const" /\ \E e \in Env : a.val[e] < 0

(* Minus and bitwise not keep the type of the operand.                     *)
CreateUnary(op, a) ==
  Temp(a.width, a.sign,
       [e \in Env |-> IF PrintsDecrement(op, a) THEN X ELSE Unary(op, Own(a, e), a.width, a.sign)],
       Exactly({a}, CppUnary(op, a)), a.tame)

BugCreateConvert(a, w, s) == [a EXCEPT !.op = "temp", !.width = w, !.sign = s]

CreateConvert(a, w, s) ==
  Temp(w, s, [e \in Env |-> Assigned(a, w, s, e)], a.known, a.tame)

-----------------------------------------------------------------------------
(* Conversions.  A conversion by the context of an operand takes the sign  *)
(* of the context before it widens the operand (IEEE 1800, 11.8.3); any    *)
(* other one extends the operand by its own sign.                          *)

Converted(x, from, to, propagated) ==
  Strict({x}, Fit(IF propagated THEN Fit(x, from.width, to.sign) ELSE x, to.width, to.sign))

ConvertNode(n, to, propagated) ==
  LET signed == IF propagated /\ n.sign # to.sign THEN CreateConvert(n, n.width, to.sign) ELSE n
  IN  IF signed.width # to.width \/ signed.sign # to.sign
      THEN CreateConvert(signed, to.width, to.sign)
      ELSE signed

-----------------------------------------------------------------------------
(* Operators of two operands.                                              *)

CppBinary(op, a, b) ==
  IF op \in {"/", "%"} /\ b.known = 0 THEN None
  ELSE IF op \in BitwiseOps THEN Bitwise(op, a.known, b.known, IntWidth, TRUE)
  ELSE Number(op, a.known, b.known)

CreateBinary(op, a, b) ==
  LET w == Wider(a.width, b.width)
      s == a.sign /\ b.sign
  IN  Temp(w, s, [e \in Env |-> Binary(op, InContext(a, w, s, e), InContext(b, w, s, e), w, s)],
           Exactly({a, b}, CppBinary(op, a, b)), Tame({a, b}))

(* A wide operand of && and || is reduced to a bit first; the result is a  *)
(* bit without sign whatever the operands are.                             *)
CreateLogicalBinary(op, a, b) ==
  LET bit(n) == IF n.width > 1 THEN CreateReduce("|", n) ELSE n
      both == CreateBinary(op, bit(a), bit(b))
      val == [e \in Env |-> Strict({both.val[e]}, Pattern(both.val[e], 1))]
  IN  Temp(1, FALSE, val, Exactly({bit(a), bit(b)}, CppBinary(op, bit(a), bit(b))),
           Tame({bit(a), bit(b)}))

CreateCompare(op, a, b) ==
  LET w == Wider(a.width, b.width)
      s == a.sign /\ b.sign
  IN  Temp(1, FALSE,
           [e \in Env |-> Compare(op, InContext(a, w, s, e), InContext(b, w, s, e))],
           Exactly({a, b}, Compare(op, a.known, b.known)), Tame({a, b}))

(* The sign of >>> on ints is the bit below the width of the node, set     *)
(* again after every step.                                                 *)
CppAshr(a, n) ==
  LET mask == Bitwise("&", a.known, Pow2[ShiftCount(a.width - 1)], IntWidth, TRUE)
      after[k \in Nat] == IF k = 0 THEN a.known
                          ELSE Bitwise("|", after[k - 1] \div 2, mask, IntWidth, TRUE)
  IN  after[IF n < 0 THEN 0 ELSE n]

CppShift(op, a, n) ==
  CASE op = "<<" -> a.known * Pow2[ShiftCount(n)]
    [] op = ">>" -> a.known \div Pow2[ShiftCount(n)]
    [] op = ">>>" -> CppAshr(a, n)

(* The value of t = ($signed(a) >>> n).                                    *)
SignedShift(a, n, e) ==
  LET v == Own(a, e)
      r == Shift(">>>", Strict({v}, Fit(v, a.width, TRUE)), n, a.width, TRUE)
  IN  Strict({r}, Fit(r, a.width, a.sign))

(* A shift keeps the type of what is shifted.                              *)
CreateShift(op, a, b) ==
  Temp(a.width, a.sign,
       [e \in Env |-> IF op = ">>>" THEN SignedShift(a, Amount(b, e), e)
                      ELSE Shift(op, Own(a, e), Amount(b, e), a.width, a.sign)],
       Exactly({a, b}, CppShift(op, a, b.known)),
       Tame({a, b}) /\ a.width <= IntWidth
         /\ (Exactly({a, b}, 0) = 0 => b.known \in 0 .. IntWidth - 1)
         /\ (op = ">>" /\ a.known # None => a.known >= 0)
         /\ (op = ">>>" /\ ~a.sign /\ a.known # None => Bit(a.known, a.width - 1) = 0))

BugCreateMux(c, a, b) ==
  LET w == Wider(a.width, b.width)
      s == a.sign /\ b.sign
      taken == IF c.known = 1 THEN a ELSE b
  IN  Temp(w, s, [e \in Env |-> IF Own(c, e) \in {0, X} THEN Assigned(b, w, s, e)
                                ELSE Assigned(a, w, s, e)],
           IF c.known = None THEN None ELSE taken.known, Tame({c, a, b}))

(* if (c) t = a; else t = b;                                               *)
CreateMux(c, a, b) ==
  LET w == Wider(a.width, b.width)
      s == a.sign /\ b.sign
      taken == IF c.known = 0 THEN b ELSE a
  IN  Temp(w, s, [e \in Env |-> IF Own(c, e) \in {0, X} THEN Assigned(b, w, s, e)
                                ELSE Assigned(a, w, s, e)],
           IF c.known = None THEN None ELSE taken.known, Tame({c, a, b}))

(* t = {a, b, ...};                                                        *)
CreateConcat(ns, s) ==
  LET w == MapThenSumSet(LAMBDA k : ns[k].width, DOMAIN ns)
      all(e) == Concatenation([k \in DOMAIN ns |-> [width |-> ns[k].width, val |-> Own(ns[k], e)]])
  IN  Opaque(w, s, [e \in Env |-> Strict({all(e)}, Fit(all(e), w, s))])

-----------------------------------------------------------------------------
(* Positions.  An index i of a range [msb:lsb] stands for a number of      *)
(* elements to the right of it.                                            *)

NormalizeIndex(i, msb, lsb) == IF msb >= lsb THEN i - lsb ELSE lsb - i

(* The width of a number with its sign, and of one without.                *)
SignedWidth(i) ==
  CHOOSE w \in 1 .. Abs(i) + 1 : Abs(i) < Pow2[w - 1] /\ \A v \in 1 .. w - 1 : Abs(i) >= Pow2[v - 1]

MinimumUnsignedWidth(i) ==
  CHOOSE w \in 1 .. i + 1 : i < Pow2[w] /\ \A v \in 1 .. w - 1 : i >= Pow2[v]

(* The width the position is computed in.                                  *)
ArithmeticWidth(index, msb, lsb, offset) ==
  Wider(Wider(IF index.sign THEN index.width ELSE index.width + 1, SignedWidth(msb)),
        Wider(SignedWidth(lsb), SignedWidth(offset)))
    + (IF offset = 0 THEN 1 ELSE 2)

(* The node for the position of index + offset.                            *)
NormalizeIndexExpr(index, msb, lsb, offset) ==
  IF offset = 0 /\ lsb = 0 /\ msb >= lsb THEN index
  ELSE LET w == ArithmeticWidth(index, msb, lsb, offset)
           converted == CreateConvert(index, w, TRUE)
           moved == IF offset = 0 THEN converted
                    ELSE CreateBinary("+", converted, Const(offset, w, TRUE))
       IN  IF msb >= lsb THEN CreateBinary("-", moved, Const(lsb, w, TRUE))
           ELSE CreateBinary("-", Const(lsb, w, TRUE), moved)

CanEmitDirectRangeBase(data) == data.op = "input"

(* A part of an input is selected, a part of anything else is shifted and  *)
(* masked.                                                                 *)
CreateRange(data, base, w, s) ==
  Opaque(w, s,
         [e \in Env |-> IF CanEmitDirectRangeBase(data)
                        THEN Select(Own(data, e), data.width, Own(base, e), w, s)
                        ELSE ShiftAndMask(Own(data, e), data.width, Amount(base, e), w, s)])

(* t = current; t[base +: w] = next;                                       *)
CreateMaskedAssign(current, next, base, w, s) ==
  Opaque(w, s, [e \in Env |-> Write(Assigned(current, w, s, e), w, s, Own(base, e),
                                    Own(next, e), next.width)])
=============================================================================

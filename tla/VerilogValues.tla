----------------------------- MODULE VerilogValues -----------------------------
(***************************************************************************)
(* Values of packed SystemVerilog expressions and what the operators of    *)
(* the language do to them: the meaning that the source of a module and    *)
(* the text written by the dumper share.                                   *)
(*                                                                         *)
(* A value of width w is an integer, from -2^(w-1) when it is signed.  A   *)
(* value with an unknown bit is X as a whole: every operator but a write   *)
(* of part of a value, and a choice, gives X for it.                       *)
(***************************************************************************)
EXTENDS Integers, Sequences, FiniteSets, FiniteSetsExt

CONSTANT X

ASSUME UnknownAssumption == X \notin Int

Pow2[n \in Nat] == IF n = 0 THEN 1 ELSE 2 * Pow2[n - 1]

Values(w, s) == IF s THEN -Pow2[w - 1] .. Pow2[w - 1] - 1 ELSE 0 .. Pow2[w] - 1

(* The value of the low w bits of x.                                       *)
Fit(x, w, s) ==
  LET low == x % Pow2[w]
  IN  IF x \in Values(w, s) THEN x
      ELSE IF s /\ low >= Pow2[w - 1] THEN low - Pow2[w] ELSE low

Pattern(x, w) == Fit(x, w, FALSE)

Strict(operands, result) == IF X \in operands THEN X ELSE result

Truth(b) == IF b THEN 1 ELSE 0

-----------------------------------------------------------------------------
(* Operators on bits.                                                      *)

Bit(x, k) == (x \div Pow2[k]) % 2

Bitwise(op, x, y, w, s) ==
  LET bit(k) == CASE op = "&" -> Bit(x, k) * Bit(y, k)
                  [] op = "|" -> Truth(Bit(x, k) + Bit(y, k) > 0)
                  [] op = "^" -> (Bit(x, k) + Bit(y, k)) % 2
  IN  Fit(MapThenSumSet(LAMBDA k : bit(k) * Pow2[k], 0 .. w - 1), w, s)

Reduce(op, x, w) ==
  CASE op = "&" -> Truth(\A k \in 0 .. w - 1 : Bit(x, k) = 1)
    [] op = "|" -> Truth(\E k \in 0 .. w - 1 : Bit(x, k) = 1)
    [] op = "^" -> Cardinality({k \in 0 .. w - 1 : Bit(x, k) = 1}) % 2

-----------------------------------------------------------------------------
(* Operators on numbers.  Division rounds towards zero.                    *)

Abs(x) == IF x < 0 THEN -x ELSE x

Quotient(x, y) ==
  LET q == Abs(x) \div Abs(y) IN IF (x < 0) # (y < 0) THEN -q ELSE q

Number(op, x, y) ==
  CASE op = "+" -> x + y
    [] op = "-" -> x - y
    [] op = "*" -> x * y
    [] op = "/" -> Quotient(x, y)
    [] op = "%" -> x - y * Quotient(x, y)

BitwiseOps == {"&", "|", "^"}
NumberOps == {"+", "-", "*", "/", "%"}
CompareOps == {"==", "<", "<="}

(* x op y in an expression of width w and sign s.                          *)
Binary(op, x, y, w, s) ==
  Strict({x, y}, IF op \in BitwiseOps THEN Bitwise(op, x, y, w, s)
                 ELSE IF op \in {"/", "%"} /\ y = 0 THEN X
                 ELSE Fit(Number(op, x, y), w, s))

Compare(op, x, y) ==
  Strict({x, y}, Truth(CASE op = "==" -> x = y
                         [] op = "<" -> x < y
                         [] op = "<=" -> x <= y))

Unary(op, x, w, s) == Strict({x}, Fit(IF op = "-" THEN -x ELSE -x - 1, w, s))

ShiftOps == {"<<", ">>", ">>>"}

(* x, of width w, shifted by n bits.                                       *)
Shift(op, x, n, w, s) ==
  LET k == IF X = n \/ n > w THEN w ELSE n
  IN  Strict({x, n}, CASE op = "<<" -> Fit(x * Pow2[k], w, s)
                       [] op = ">>" -> Fit(Pattern(x, w) \div Pow2[k], w, s)
                       [] op = ">>>" -> Fit(x \div Pow2[k], w, s))

-----------------------------------------------------------------------------
(* Parts of a value.                                                       *)

(* Parts, from the left, joined.                                           *)
Concatenation(parts) ==
  LET joined[k \in 0 .. Len(parts)] ==
        IF k = 0 THEN 0
        ELSE Strict({joined[k - 1], parts[k].val},
                    joined[k - 1] * Pow2[parts[k].width] + Pattern(parts[k].val, parts[k].width))
  IN  joined[Len(parts)]

Slice(x, w, lo, k) == (Pattern(x, w) \div Pow2[lo]) % Pow2[k]

(* k bits of x, of width w, from bit pos: x[pos +: k].                     *)
Select(x, w, pos, k, s) ==
  Strict({x, pos}, IF pos < 0 \/ pos + k > w THEN X ELSE Fit(Slice(x, w, pos, k), k, s))

(* The same as a shift and a mask: (x >> n) & {k{1'b1}}.                   *)
ShiftAndMask(x, w, n, k, s) ==
  Strict({x, n}, IF n >= w THEN 0 ELSE Fit(Slice(x, w, n, k), k, s))

(* x, of width w, after x[pos +: k] = y: bits beyond x are not written.    *)
Write(x, w, s, pos, y, k) ==
  LET lo == IF pos < 0 THEN 0 ELSE pos
      n == (IF pos + k > w THEN w ELSE pos + k) - lo
  IN  IF pos = X \/ n <= 0 THEN x
      ELSE IF y = X \/ (x = X /\ n < w) THEN X
      ELSE IF n = w THEN Fit(Slice(y, k, lo - pos, n), w, s)
      ELSE Fit(x + (Slice(y, k, lo - pos, n) - Slice(x, w, lo, n)) * Pow2[lo], w, s)
=============================================================================

-------------------------------- MODULE MCExpr --------------------------------
(***************************************************************************)
(* A signed vector s with a range [3:1], an ascending unsigned vector u    *)
(* and a packed array m of two elements of two bits.  Valuations are the   *)
(* corners of the types.                                                   *)
(***************************************************************************)
EXTENDS PackedAssign

Dim(l, r, w, s) == [left |-> l, right |-> r, width |-> w, sign |-> s]

MCType ==
  [n \in {"s", "u", "m"} |->
     CASE n = "s" -> Source(3, TRUE, <<Dim(3, 1, 1, FALSE)>>, <<>>)
       [] n = "u" -> Source(2, FALSE, <<Dim(0, 1, 1, FALSE)>>, <<>>)
       [] n = "m" -> Source(4, FALSE, <<Dim(1, 0, 2, TRUE), Dim(2, 1, 1, FALSE)>>, <<>>)]

MCName == DOMAIN MCType

Valuation(s, u, m) == [n \in MCName |-> CASE n = "s" -> s [] n = "u" -> u [] n = "m" -> m]

MCEnv == {Valuation(-4, 2, 9), Valuation(-1, 3, 6), Valuation(0, 0, 0), Valuation(1, 1, 14),
          Valuation(2, 2, 7), Valuation(3, 3, 15)}

Int3(v, w, s) == [val |-> v, width |-> w, sign |-> s]

MCLiterals == {Int3(1, 1, FALSE), Int3(2, 2, FALSE), Int3(-3, 3, TRUE), Int3(9, 4, FALSE)}

MCUnhandled == {Int3(2, 3, TRUE)}

MCCasts == {[width |-> w, sign |-> s] : w \in {3, 4}, s \in BOOLEAN}

T(n, path) == [name |-> n, path |-> path]
El(i) == [kind |-> "element", index |-> i]
Rng(l, r) == [kind |-> "simple", left |-> l, right |-> r]
Up(i, n) == [kind |-> "up", index |-> i, count |-> n]
Dn(i, n) == [kind |-> "down", index |-> i, count |-> n]
Of(n) == [name |-> n]
One == Int3(1, 1, FALSE)

MCLeftHandSides ==
  {<<T("s", <<>>)>>, <<T("m", <<>>)>>, <<T("s", <<El(Of("u"))>>)>>, <<T("s", <<Rng(2, 1)>>)>>, <<T("s", <<Rng(3, 1)>>)>>,
   <<T("u", <<El(Of("s"))>>)>>, <<T("m", <<El(Of("u"))>>)>>, <<T("m", <<El(Of("u")), El(One)>>)>>,
   <<T("m", <<El(One), Dn(Of("u"), 2)>>)>>, <<T("s", <<Up(Of("u"), 2)>>)>>, <<T("u", <<Dn(Of("s"), 1)>>)>>,
   <<T("u", <<>>), T("s", <<Rng(3, 2)>>)>>, <<T("s", <<El(One)>>), T("m", <<El(One)>>)>>}
=============================================================================

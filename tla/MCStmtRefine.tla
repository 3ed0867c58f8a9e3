---------------------------- MODULE MCStmtRefine ----------------------------
(***************************************************************************)
(* A process over an input c that nothing assigns, a variable x assigned   *)
(* with =, a register q assigned with <=, and a block-local t.  Values are *)
(* single bits; a part assignment writes a one-bit vector at an index that *)
(* may lie outside it, so that it writes in some runs only.                *)
(***************************************************************************)
EXTENDS StmtBuilder

MCVar == {"c", "x", "q", "t"}
MCVal == 0..1
MCStore == [MCVar -> MCVal]

(* Every valuation of c, x and q; a local starts at 0.                     *)
MCSigma == {m \in MCStore : m["t"] = 0}

Read(v) == [m \in MCStore |-> m[v]]
Not(v) == [m \in MCStore |-> 1 - m[v]]
IsSet(v) == [m \in MCStore |-> m[v] = 1]

Whole(v, f) == [var |-> v, rhs |-> f, idx |-> None]
Part(v, f, i) == [var |-> v, rhs |-> f, idx |-> i]

MCPatch == [p \in MCVal \X MCVal \X MCVal |-> IF p[3] = 0 THEN p[2] ELSE p[1]]

Blocking(lhs) == [nb |-> FALSE, lhs |-> lhs]
Nonblocking(lhs) == [nb |-> TRUE, lhs |-> lhs]

(* x = ~t;  q[x] <= c;  {q, q[c]} <= {~q, x};  t = x                       *)
MCAssigns == {Blocking(<<Whole("x", Not("t"))>>),
              Nonblocking(<<Part("q", Read("c"), Read("x"))>>),
              Nonblocking(<<Whole("q", Not("q")), Part("q", Read("x"), Read("c"))>>),
              Blocking(<<Whole("t", Read("x"))>>)}

MCDecls == {[var |-> "t", init |-> Read("q")]}
MCTests == {IsSet("x")}
MCSelectors == {Read("c")}

(* case items with two labels, q and x                                     *)
MCLabels == {[m \in MCStore |-> {m["q"], m["x"]}]}
MCLike == [v \in MCVal |-> {v}]
MCFullCases == BOOLEAN

(* The texts are among those whose lowering is proved to be the process.   *)
ASSUME TextsAreSupported == SupportedTexts
=============================================================================

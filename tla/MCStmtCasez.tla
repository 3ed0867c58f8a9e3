----------------------------- MODULE MCStmtCasez -----------------------------
(***************************************************************************)
(* A process over a bit c and a variable x whose case statements are casez *)
(* statements: the label '?', the value AnyBit, matches every selector.    *)
(***************************************************************************)
EXTENDS StmtBuilder

AnyBit == 2

MCVar == {"c", "x"}
MCVal == {0, 1, AnyBit}
MCStore == [MCVar -> MCVal]
MCSigma == [MCVar -> 0..1]
MCPatch == [p \in MCVal \X MCVal \X MCVal |-> p[2]]

Constant(n) == [m \in MCStore |-> n]

MCLike == [v \in MCVal |-> {v, AnyBit}]

MCAssigns == {[nb |-> FALSE, lhs |-> <<[var |-> "x", rhs |-> Constant(n), idx |-> None]>>] : n \in 0..1}
MCSelectors == {[m \in MCStore |-> m["c"]]}
MCLabels == {[m \in MCStore |-> {n}] : n \in {1, AnyBit}}
MCFullCases == {FALSE}
=============================================================================

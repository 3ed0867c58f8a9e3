---------------------------- MODULE MCStmtMixing ----------------------------
(***************************************************************************)
(* Two signals, one assigned with = and with <= somewhere in the text, and *)
(* a variable t that its block initialises and may then assign with <=.    *)
(***************************************************************************)
EXTENDS StmtMixing

MCVar == {"p", "q", "t"}
MCVal == 0..1
MCStore == [MCVar -> MCVal]
MCSigma == {m \in MCStore : m["t"] = 0}

Write(v, nb, n) == [nb |-> nb, lhs |-> <<[var |-> v, rhs |-> [m \in MCStore |-> n], idx |-> None]>>]

MCPatch == [p \in MCVal \X MCVal \X MCVal |-> p[2]]
MCAssigns == {Write("q", FALSE, 0), Write("q", TRUE, 1), Write("p", TRUE, 0),
              Write("t", TRUE, 0)}
MCDecls == {[var |-> "t", init |-> [m \in MCStore |-> 1]]}
MCTests == {[m \in MCStore |-> m["p"] = 1]}
MCSelectors == {[m \in MCStore |-> m["p"]]}
MCLabels == {[m \in MCStore |-> {0}]}
MCLike == [v \in MCVal |-> {v}]
MCFullCases == {FALSE}
=============================================================================

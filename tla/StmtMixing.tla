----------------------------- MODULE StmtMixing -----------------------------
(***************************************************************************)
(* StmtBuilder over texts that assign one name both ways, which the        *)
(* builder tolerates but reports.  ways is a history variable: how the     *)
(* assignments visited so far assign each name.                            *)
(***************************************************************************)
EXTENDS StmtBuilder

VARIABLE ways

mixingVars == <<vars, ways>>

MixingInit == Init /\ ways = [v \in Var |-> {}]

AssignmentSeen(a) ==
  /\ Assignment(a)
  /\ ways' = [v \in Var |-> IF \E k \in DOMAIN a.lhs : a.lhs[k].var = v
                            THEN ways[v] \cup {a.nb} ELSE ways[v]]

(* an initialiser is a blocking assignment                                 *)
DeclarationSeen(d) ==
  /\ VariableDecl(d)
  /\ ways' = IF d.init = None THEN ways ELSE [ways EXCEPT ![d.var] = @ \cup {FALSE}]

MixingNext ==
  \/ \E a \in Assigns : AssignmentSeen(a)
  \/ \E d \in Decls : DeclarationSeen(d)
  \/ Structure /\ UNCHANGED ways

MixingSpec == MixingInit /\ [][MixingNext]_mixingVars

AssignedBothWays == {v \in Var : ways[v] = BOOLEAN}

(* No name that the process assigns both ways reaches the netlist without  *)
(* a report: the flags an output keeps through nested blocks, branches and *)
(* case items are enough for some merge, or for_each_output, to notice.    *)
(* (One name of Local may be two variables of two blocks, each assigned in *)
(* its own way, and there is nothing to report.)                           *)
MixingIsReported == exported # None => AssignedBothWays \ Local \subseteq mixed

(* and a report is never about a name the text assigns in one way only     *)
ReportsAreTrue == mixed \subseteq AssignedBothWays

(* The merge rule "mixed counts as nonblocking": in any open context, a    *)
(* name whose outputs are all nonblocking still reads as it did in the     *)
(* enclosing context, although its scheduled value differs.                *)
NonblockingStaysInvisible ==
  \A k \in 2..Len(contexts) : \A v \in Outs(contexts[k]) :
    contexts[k].outs[v].seen = {TRUE} => contexts[k].cur[v] = contexts[k - 1].cur[v]
=============================================================================

---------------------------- MODULE ProcSemantics ----------------------------
(***************************************************************************)
(* What one activation of a SystemVerilog process promises, said without   *)
(* contexts, expression graphs or merges: the process runs once for every  *)
(* valuation of the signals it finds when it is activated, and each run    *)
(* executes only the branches its own conditions select.                   *)
(*                                                                         *)
(* env[s] is what a read returns in the run that started from valuation s; *)
(* nxt[s] is what the signals hold once the run ends and its nonblocking   *)
(* updates are applied.  path is the nesting of the statement being        *)
(* executed: every frame knows the valuations that execute its current     *)
(* branch (live) and those that have taken no branch yet (rest).           *)
(*                                                                         *)
(* StmtBuilder, which builds one symbolic expression per signal instead of *)
(* running anything, is shown to implement this module.                    *)
(***************************************************************************)
EXTENDS Naturals, Sequences

CONSTANTS Var,        \* the signals and variables the process names
          Val,        \* their values
          Sigma,      \* the valuations the process may be activated with
          None,       \* "absent": no index, no selector, no result yet
          Patch,      \* Patch[old, new, i]: old with the part at i set to new
          Assigns,    \* the assignment statements the text may contain
          Tests,      \* the conditions of its if statements
          Selectors,  \* the selectors of its case statements
          Labels,     \* its case items: the values of their labels
          Like,       \* Like[x]: the labels the selector x matches
          Local       \* the variables declared inside its blocks

VARIABLES env, nxt, path, result

procVars == <<env, nxt, path, result>>

Store == [Var -> Val]

Live == IF path = <<>> THEN Sigma ELSE path[Len(path)].live

Running == result = None

-----------------------------------------------------------------------------
(* Assignments.  A statement a writes its targets from left to right; the  *)
(* right-hand sides and the indices of all targets are read before any of  *)
(* them is written.                                                        *)

Written(s, t, old) ==
  IF t.idx = None THEN t.rhs[env[s]] ELSE Patch[old, t.rhs[env[s]], t.idx[env[s]]]

WriteOne(s, t, store) == [store EXCEPT ![t.var] = Written(s, t, @)]

WriteAll(s, a) ==
  LET first == WriteOne(s, a.lhs[1], nxt[s])
  IN  IF Len(a.lhs) = 1 THEN first ELSE WriteOne(s, a.lhs[2], first)

Targets(a) == {a.lhs[k].var : k \in DOMAIN a.lhs}

Assignment(a) ==
  LET live == Live
      after == [s \in live |-> WriteAll(s, a)]
  IN  /\ Running
      /\ UNCHANGED <<path, result>>
      /\ nxt' = [s \in Sigma |-> IF s \in live THEN after[s] ELSE nxt[s]]
      /\ env' = IF a.nb THEN env
                ELSE [s \in Sigma |->
                       [v \in Var |-> IF s \in live /\ v \in Targets(a)
                                      THEN after[s][v] ELSE env[s][v]]]

-----------------------------------------------------------------------------
(* Nesting.                                                                *)

Push(kind, live, rest, sel, full) ==
  path' = Append(path, [kind |-> kind, live |-> live, rest |-> rest, sel |-> sel, full |-> full])

Pop == path' = SubSeq(path, 1, Len(path) - 1)

Inside(kind) == path # <<>> /\ path[Len(path)].kind = kind

If(c) ==
  LET taken == {s \in Live : c[env[s]]}
  IN  /\ Running
      /\ Push("if", taken, Live \ taken, None, FALSE)
      /\ UNCHANGED <<env, nxt, result>>

Else ==
  /\ Inside("if")
  /\ path' = [path EXCEPT ![Len(path)].live = path[Len(path)].rest,
                          ![Len(path)].rest = {}]
  /\ UNCHANGED <<env, nxt, result>>

EndIf ==
  /\ Inside("if")
  /\ path[Len(path)].rest = {}
  /\ Pop
  /\ UNCHANGED <<env, nxt, result>>

(* A case statement evaluates its selector once; the first item one of     *)
(* whose labels matches it is executed: equals it, or, for casez and       *)
(* casex, does so in the bits that are not wild.  full says that the       *)
(* designer declared the items exhaustive.                                 *)
Matching(g, pool, sel) == {s \in pool : g[env[s]] \cap Like[sel[s]] # {}}

Case(f, g, full) ==
  LET sel == [s \in Live |-> f[env[s]]]
      taken == Matching(g, Live, sel)
  IN  /\ Running
      /\ Push("case", taken, Live \ taken, sel, full)
      /\ UNCHANGED <<env, nxt, result>>

CaseOfDefault(f) ==
  /\ Running
  /\ Push("case", Live, {}, [s \in Live |-> f[env[s]]], FALSE)
  /\ UNCHANGED <<env, nxt, result>>

NextItem(g) ==
  LET fr == path[Len(path)]
      taken == Matching(g, fr.rest, fr.sel)
  IN  /\ Inside("case")
      /\ path' = [path EXCEPT ![Len(path)].live = taken,
                              ![Len(path)].rest = fr.rest \ taken]
      /\ UNCHANGED <<env, nxt, result>>

(* With a default item the items are exhaustive in any case.               *)
Default ==
  /\ Inside("case")
  /\ path' = [path EXCEPT ![Len(path)].live = path[Len(path)].rest,
                          ![Len(path)].rest = {},
                          ![Len(path)].full = FALSE]
  /\ UNCHANGED <<env, nxt, result>>

(* Runs that matched no item leave the case unchanged ...                  *)
EndCase ==
  /\ Inside("case")
  /\ ~path[Len(path)].full
  /\ Pop
  /\ UNCHANGED <<env, nxt, result>>

(* ... unless the items were declared exhaustive: then such a run          *)
(* does not occur in the intended use, and nothing is promised about it.   *)
EndFullCase ==
  LET stray == path[Len(path)].rest
  IN  /\ Inside("case")
      /\ path[Len(path)].full
      /\ Pop
      /\ \A s \in Sigma \ stray : env'[s] = env[s] /\ nxt'[s] = nxt[s]
      /\ env' \in [Sigma -> Store]
      /\ nxt' \in [Sigma -> Store]
      /\ UNCHANGED result

Block ==
  /\ Running
  /\ Push("block", Live, {}, None, FALSE)
  /\ UNCHANGED <<env, nxt, result>>

(* Nothing is promised about a block's local variables after the block.    *)
EndBlock ==
  /\ Inside("block")
  /\ Pop
  /\ \A s \in Sigma, v \in Var \ Local : env'[s][v] = env[s][v] /\ nxt'[s][v] = nxt[s][v]
  /\ env' \in [Sigma -> Store]
  /\ nxt' \in [Sigma -> Store]
  /\ UNCHANGED result

Finish ==
  /\ Running
  /\ path = <<>>
  /\ result' = nxt
  /\ UNCHANGED <<env, nxt, path>>

-----------------------------------------------------------------------------
ProcInit ==
  /\ env = [s \in Sigma |-> s]
  /\ nxt = [s \in Sigma |-> s]
  /\ path = <<>>
  /\ result = None

ProcNext ==
  \/ \E a \in Assigns : Assignment(a)
  \/ \E c \in Tests : If(c)
  \/ Else
  \/ EndIf
  \/ \E f \in Selectors, g \in Labels, full \in BOOLEAN : Case(f, g, full)
  \/ \E f \in Selectors : CaseOfDefault(f)
  \/ \E g \in Labels : NextItem(g)
  \/ Default
  \/ EndCase
  \/ EndFullCase
  \/ Block
  \/ EndBlock
  \/ Finish

ProcSpec == ProcInit /\ [][ProcNext]_procVars
=============================================================================

----------------------------- MODULE StmtBuilder -----------------------------
(***************************************************************************)
(* The lowering of one procedural block: the statement visitor and the     *)
(* StmtBuilder it drives.  The visitor never runs the process.  It keeps,  *)
(* in a stack of contexts, the expression every name currently stands for, *)
(* opens a context per branch, parks the finished branches, and merges     *)
(* them into multiplexers.                                                 *)
(*                                                                         *)
(* An expression node is modelled by its denotation: the value it has for  *)
(* every valuation of the graph's inputs (Sigma).  create_mux, create_case *)
(* and masked_assign are then functions on tables, and "the netlist        *)
(* computes what the process would" is a statement about those tables.     *)
(* Widths, signs, node identity and unpacked arrays are left to other      *)
(* modules.  A context records of each output what the merges read: its    *)
(* last expression, that entry's nonblocking flag, and the flags seen.     *)
(*                                                                         *)
(* The visitor's recursion is the sequence frames: one frame per open      *)
(* statement that owns a context.  room says how many more statements the  *)
(* current position of the text can hold.                                  *)
(*                                                                         *)
(* A definition whose name starts with Bug is not part of the model: it is *)
(* the definition after it with a plausible fault, for the properties to   *)
(* catch.                                                                  *)
(***************************************************************************)
EXTENDS Naturals, Sequences, FiniteSets, SequencesExt

CONSTANTS Var,         \* signals and variables named by the process
          Val,         \* their values
          Sigma,       \* the valuations of the graph's inputs that are tracked
          None,        \* kInvalidExprId, and an absent initialiser or index
          Patch,       \* masked_assign: Patch[old, new, base]
          Assigns,     \* assignment statements of the source text
          Decls,       \* variable declarations of its blocks
          Tests,       \* if conditions
          Selectors,   \* case selectors
          Labels,      \* case items: the values of their labels
          Like,        \* Like[x]: the labels the selector x matches, as the text has it
          FullCases,   \* whether a case may carry a full_case pragma (subset of BOOLEAN)
          BareLoops,   \* whether a for loop may have no loop variable of its own
          Asserts,     \* assertions are compiled in (NDEBUG is not defined)
          MaxStmts,    \* bound: statements of the process
          MaxDepth     \* bound: nesting of statements

Store == [Var -> Val]
Expr == [Sigma -> Val]
LabelList == [Sigma -> SUBSET Val]
Slot == [id: Expr, last: BOOLEAN, seen: SUBSET BOOLEAN]
Target == [var: Var, rhs: [Store -> Val], idx: [Store -> Val] \cup {None}]

ASSUME ValuationsAreStores == Sigma \subseteq Store
ASSUME PatchYieldsValues == Patch \in [Val \X Val \X Val -> Val]
ASSUME AssignsAreOneOrTwoTargets ==
  \A a \in Assigns : /\ a.nb \in BOOLEAN
                     /\ a.lhs \in Seq(Target)
                     /\ Len(a.lhs) \in {1, 2}
ASSUME DeclsAreBlocking == \A d \in Decls : d.var \in Var /\ d.init \in [Store -> Val] \cup {None}
ASSUME TestsAreBoolean == Tests \subseteq [Store -> BOOLEAN]
ASSUME SelectorsAreExpressions == Selectors \subseteq [Store -> Val]
ASSUME LabelsAreExpressions == Labels \subseteq [Store -> SUBSET Val]
ASSUME LikeRelatesValues == Like \in [Val -> SUBSET Val]
ASSUME FullCasesAreBoolean == FullCases \subseteq BOOLEAN
ASSUME AssertsIsBoolean == Asserts \in BOOLEAN
ASSUME NoneIsNothing == None \notin Expr \cup Slot \cup [Var -> Expr \cup {None}]
ASSUME BoundsAreNatural == MaxStmts \in Nat /\ MaxDepth \in Nat

Local == {d.var : d \in Decls}

VARIABLES
  contexts,      \* contexts_: one per open statement, the root first
  contextStack,  \* context_stack_: finished branches waiting for their merge
  frames,        \* the open statements of the visitor's recursion
  room,          \* statements the text can still hold, per context
  exported,      \* what for_each_output hands over, None before that
  mixed,         \* names reported as mixed blocking/nonblocking
  aborted,       \* an assertion of the builder failed
  stmts          \* statements visited so far

vars == <<contexts, contextStack, frames, room, exported, mixed, aborted, stmts>>

-----------------------------------------------------------------------------
(* Expressions.                                                            *)

Input(v) == [s \in Sigma |-> s[v]]

(* What reading a name returns: its current value, or the graph input.     *)
Current(ctx, v) == IF ctx.cur[v] = None THEN Input(v) ELSE ctx.cur[v]

(* fallback_value: the scheduled value wins over the current one.          *)
Fallback(ctx, v) == IF ctx.sched[v] = None THEN Current(ctx, v) ELSE ctx.sched[v]

(* The store a run that started from s sees in a context.                  *)
StoreAt(ctx, s) == [v \in Var |-> Current(ctx, v)[s]]

BuildExpr(f, ctx) == [s \in Sigma |-> f[StoreAt(ctx, s)]]

CreateMux(cond, then, else) == [s \in Sigma |-> IF cond[s] THEN then[s] ELSE else[s]]

MaskedAssign(old, new, base) == [s \in Sigma |-> Patch[old[s], new[s], base[s]]]

-----------------------------------------------------------------------------
(* Contexts.                                                               *)

Outs(ctx) == {v \in Var : ctx.outs[v] # None}

NoOuts == [v \in Var |-> None]

RootContext == [cur |-> NoOuts, sched |-> NoOuts, outs |-> NoOuts, locals |-> {}]

Child(ctx) == [ctx EXCEPT !.outs = NoOuts, !.locals = {}]

Top == contexts[Len(contexts)]

AddOutput(out, nb, id) ==
  [id |-> id, last |-> nb, seen |-> {nb} \cup (IF out = None THEN {} ELSE out.seen)]

BugRecord(ctx, v, nb, id) ==
  [ctx EXCEPT !.cur[v] = id, !.sched[v] = IF nb THEN id ELSE @, !.outs[v] = AddOutput(@, nb, id)]

(* update_value, scheduled_assignments()[..] = .., add_output              *)
Record(ctx, v, nb, id) ==
  [ctx EXCEPT !.cur[v] = id, !.sched[v] = id, !.outs[v] = AddOutput(@, nb, id)]

(* collect_last_output_indices: once both kinds of assignment were seen,   *)
(* the last entry counts as nonblocking.                                   *)
LastNb(out) == TRUE \in out.seen

MixedOuts(ctx) == {v \in Outs(ctx) : ctx.outs[v].seen = BOOLEAN}

BugTransfer(ctx, names, id, nb) ==
  [ctx EXCEPT
     !.cur = [v \in Var |-> IF v \in names THEN id[v] ELSE ctx.cur[v]],
     !.sched = [v \in Var |-> IF v \in names THEN id[v] ELSE ctx.sched[v]],
     !.outs = [v \in Var |-> IF v \in names THEN AddOutput(ctx.outs[v], nb[v], id[v])
                             ELSE ctx.outs[v]]]

(* transfer_output for every name of names at once: id and nb give each    *)
(* name its merged expression and flag.                                    *)
Transfer(ctx, names, id, nb) ==
  [ctx EXCEPT
     !.cur = [v \in Var |-> IF v \in names /\ ~nb[v] THEN id[v] ELSE ctx.cur[v]],
     !.sched = [v \in Var |-> IF v \in names THEN id[v] ELSE ctx.sched[v]],
     !.outs = [v \in Var |-> IF v \in names THEN AddOutput(ctx.outs[v], nb[v], id[v])
                             ELSE ctx.outs[v]]]

-----------------------------------------------------------------------------
(* Merges.                                                                 *)

BugMergeContext(parent, child) ==
  LET names == Outs(child)
  IN  Transfer(parent, names, [v \in names |-> child.outs[v].id],
               [v \in names |-> LastNb(child.outs[v])])

MergeContext(parent, child) ==
  LET names == Outs(child) \ child.locals
  IN  Transfer(parent, names, [v \in names |-> child.outs[v].id],
               [v \in names |-> LastNb(child.outs[v])])

(* The expression a branch leaves in a name: its last output, or what the  *)
(* name had before.                                                        *)
BranchValue(parent, branch, v) ==
  IF v \in Outs(branch) THEN branch.outs[v].id ELSE Fallback(parent, v)

MergeConditional(parent, cond, then, else) ==
  LET names == Outs(then) \cup Outs(else)
      Nb(branch, v) == v \in Outs(branch) /\ LastNb(branch.outs[v])
  IN  Transfer(parent, names,
        [v \in names |-> CreateMux(cond, BranchValue(parent, then, v),
                                         BranchValue(parent, else, v))],
        [v \in names |-> Nb(then, v) \/ Nb(else, v)])

BugConditionalMixes(then, else) == MixedOuts(then) \cup MixedOuts(else)

BugConditionalMixesOften(then, else) ==
  MixedOuts(then) \cup MixedOuts(else) \cup
  {v \in Outs(then) \cap Outs(else) : LastNb(then.outs[v]) \/ LastNb(else.outs[v])}

ConditionalMixes(then, else) ==
  MixedOuts(then) \cup MixedOuts(else) \cup
  {v \in Outs(then) \cap Outs(else) : LastNb(then.outs[v]) # LastNb(else.outs[v])}

(* create_match compares the selector with every label of the item's list. *)
Matches(sel, labels, s) == {k \in DOMAIN labels : sel[s] \in labels[k][s]}

FirstMatch(sel, labels, s) ==
  CHOOSE k \in Matches(sel, labels, s) : \A m \in Matches(sel, labels, s) : k <= m

BugCreateCase(sel, labels, data, full, other) ==
  [s \in Sigma |->
     IF Matches(sel, labels, s) # {} THEN data[FirstMatch(sel, labels, s)][s] ELSE other]

(* create_case.  Without a default operand (full_case) an unmatched        *)
(* selector leaves the value open; other is the value the build picks.     *)
CreateCase(sel, labels, data, full, other) ==
  [s \in Sigma |->
     IF Matches(sel, labels, s) # {} THEN data[FirstMatch(sel, labels, s)][s]
     ELSE IF full THEN other ELSE data[Len(labels) + 1][s]]

BranchOuts(branches) == UNION {Outs(branches[k]) : k \in DOMAIN branches}

Writers(branches, v) == {k \in DOMAIN branches : v \in Outs(branches[k])}

(* The flag merge_case gives a name: that of the first branch writing it.  *)
CaseFlag(branches, v) ==
  LET first == CHOOSE k \in Writers(branches, v) : \A m \in Writers(branches, v) : k <= m
  IN  branches[first].outs[v].last

BugCaseAssertion(branches) ==
  \A v \in BranchOuts(branches) : \A k \in DOMAIN branches :
    (v \in Outs(branches[k]) /\ branches[k].outs[v].last) = CaseFlag(branches, v)

(* The assertion in merge_case: all branches that write a name agree.  A   *)
(* build without assertions goes on with the flag of the first.            *)
CaseAssertion(branches) ==
  \A v \in BranchOuts(branches) :
    \A k \in Writers(branches, v) : branches[k].outs[v].last = CaseFlag(branches, v)

MergeCase(parent, sel, labels, branches, full, other) ==
  LET names == BranchOuts(branches)
      data(v) == [k \in DOMAIN branches |-> BranchValue(parent, branches[k], v)]
  IN  Transfer(parent, names,
        [v \in names |-> CreateCase(sel, labels, data(v), full, other)],
        [v \in names |-> CaseFlag(branches, v)])

-----------------------------------------------------------------------------
(* The visitor's recursion.  A frame of an if holds its condition; a frame *)
(* of a case its selector, the labels of its items so far, whether it      *)
(* carries a full_case pragma, and the index into contextStack at which    *)
(* its finished branches start (base).                                     *)

Frame(kind, cond, sel, labels, full) ==
  [kind |-> kind, cond |-> cond, sel |-> sel, labels |-> labels, full |-> full,
   base |-> Len(contextStack)]

Inner == frames[Len(frames)]

In(kind) == frames # <<>> /\ Inner.kind = kind

Running == ~aborted /\ exported = None

(* A branch holds one statement, a block or an unrolled loop any number.   *)
CanVisit ==
  /\ Running
  /\ room[Len(room)] # "full"
  /\ stmts < MaxStmts

Visited == [room EXCEPT ![Len(room)] = IF @ = "one" THEN "full" ELSE @]

OpenContext(frame, space) ==
  /\ Len(frames) < MaxDepth
  /\ room' = Append(Visited, space)
  /\ stmts' = stmts + 1
  /\ frames' = Append(frames, frame)
  /\ contexts' = Append(contexts, Child(Top))

(* stack_context, then create_context for the next branch                  *)
NextBranch(frame) ==
  /\ room' = [room EXCEPT ![Len(room)] = "one"]
  /\ frames' = [frames EXCEPT ![Len(frames)] = frame]
  /\ contextStack' = Append(contextStack, Top)
  /\ contexts' = [contexts EXCEPT ![Len(contexts)] = Child(contexts[Len(contexts) - 1])]

BugCloseContext(ctx) ==
  /\ contexts' = [contexts EXCEPT ![Len(contexts) - 1] = ctx]
  /\ frames' = Front(frames)
  /\ room' = Front(room)

(* The statement of the innermost frame is done: its context is gone and   *)
(* the parent, merged into ctx, is on top again.                           *)
CloseContext(ctx) ==
  /\ frames' = Front(frames)
  /\ room' = Front(room)
  /\ contexts' = [SubSeq(contexts, 1, Len(contexts) - 1) EXCEPT ![Len(contexts) - 1] = ctx]

Parent == contexts[Len(contexts) - 1]

-----------------------------------------------------------------------------
(* Assignment statements.  The right-hand side is built first.  Then, per  *)
(* target, lower_lhs_assignment shows the selectors and the read-modify-   *)
(* write base the scheduled value instead of the current one, records the  *)
(* result, and goes on to the next target of a concatenation.  Only after  *)
(* the last one does a nonblocking statement restore the current values.   *)

ScheduledView(ctx, v) ==
  IF ctx.sched[v] = None THEN ctx ELSE [ctx EXCEPT !.cur[v] = ctx.sched[v]]

RecordTarget(ctx, t, rhs, nb) ==
  LET view == ScheduledView(ctx, t.var)
      value == IF t.idx = None THEN rhs
               ELSE MaskedAssign(Current(view, t.var), rhs, BuildExpr(t.idx, view))
  IN  Record(ctx, t.var, nb, value)

RecordTargets(ctx, a) ==
  LET rhs(k) == BuildExpr(a.lhs[k].rhs, ctx)
      first == RecordTarget(ctx, a.lhs[1], rhs(1), a.nb)
  IN  IF Len(a.lhs) = 1 THEN first ELSE RecordTarget(first, a.lhs[2], rhs(2), a.nb)

InScope(v) == v \in Local => \E k \in DOMAIN contexts : v \in contexts[k].locals

Assignment(a) ==
  LET written == RecordTargets(Top, a)
      restored == IF a.nb THEN [written EXCEPT !.cur = Top.cur] ELSE written
  IN  /\ CanVisit
      /\ \A k \in DOMAIN a.lhs : InScope(a.lhs[k].var)
      /\ room' = Visited
      /\ stmts' = stmts + 1
      /\ UNCHANGED <<frames, exported, mixed, aborted, contextStack>>
      /\ contexts' = [contexts EXCEPT ![Len(contexts)] = restored]

(* VariableDeclStatement, and the loop variables of a for statement        *)
VariableDecl(d) ==
  LET local == [Top EXCEPT !.locals = @ \cup {d.var}]
  IN  /\ CanVisit
      /\ In("block")
      /\ \A k \in DOMAIN contexts : d.var \notin contexts[k].locals
      /\ contexts' = [contexts EXCEPT ![Len(contexts)] =
           IF d.init = None THEN local
           ELSE Record(local, d.var, FALSE, BuildExpr(d.init, local))]
      /\ stmts' = stmts + 1
      /\ UNCHANGED <<contextStack, frames, room, exported, mixed, aborted>>

-----------------------------------------------------------------------------
(* Conditional statements whose condition is not a constant; for one that  *)
(* is, the visitor visits the chosen branch and nothing else: the text is  *)
(* then one with the branch in the place of the statement.                 *)

Conditional(c) ==
  /\ CanVisit
  /\ OpenContext(Frame("then", [s \in Sigma |-> c[StoreAt(Top, s)]], None, <<>>, FALSE), "one")
  /\ UNCHANGED <<contextStack, exported, mixed, aborted>>

ConditionalElse ==
  /\ Running
  /\ In("then")
  /\ NextBranch([Inner EXCEPT !.kind = "else"])
  /\ UNCHANGED <<exported, mixed, aborted, stmts>>

ConditionalEnd ==
  LET then == contextStack[Len(contextStack)]
  IN  /\ Running
      /\ In("else")
      /\ contextStack' = Front(contextStack)
      /\ CloseContext(MergeConditional(Parent, Inner.cond, then, Top))
      /\ mixed' = mixed \cup ConditionalMixes(then, Top)
      /\ UNCHANGED <<exported, aborted, stmts>>

-----------------------------------------------------------------------------
(* Case statements.  Whether the statement is a case, a casez or a casex   *)
(* is not looked at: the dump has a case, whose labels have to be equal.   *)

CaseItem(f, g, full) ==
  /\ CanVisit
  /\ OpenContext(Frame("case", None, BuildExpr(f, Top), <<BuildExpr(g, Top)>>, full), "one")
  /\ UNCHANGED <<contextStack, exported, mixed, aborted>>

(* A case statement that has only a default item.  Beside a default the    *)
(* pragma is ignored, with a warning.                                      *)
CaseWithoutItems(f) ==
  /\ CanVisit
  /\ OpenContext(Frame("default", None, BuildExpr(f, Top), <<>>, FALSE), "one")
  /\ UNCHANGED <<contextStack, exported, mixed, aborted>>

CaseNextItem(g) ==
  /\ Running
  /\ In("case")
  /\ Len(Inner.labels) < MaxDepth
  /\ NextBranch([Inner EXCEPT !.labels = Append(@, BuildExpr(g, Parent))])
  /\ UNCHANGED <<exported, mixed, aborted, stmts>>

CaseDefault ==
  /\ Running
  /\ In("case")
  /\ NextBranch([Inner EXCEPT !.kind = "default", !.full = FALSE])
  /\ UNCHANGED <<exported, mixed, aborted, stmts>>

BugReleaseBranches == contextStack' = SubSeq(contextStack, 1, Len(contextStack) - 1)

ReleaseBranches == contextStack' = SubSeq(contextStack, 1, Inner.base)

(* The last branch is stacked and merge_case runs: over the branches from  *)
(* the frame's base on, popping them.                                      *)
EndCase(last, full) ==
  LET branches == SubSeq(contextStack, Inner.base + 1, Len(contextStack)) \o last
  IN  \/ /\ Asserts => CaseAssertion(branches)
         /\ \E other \in IF full THEN Val ELSE {CHOOSE x \in Val : TRUE} :
              CloseContext(MergeCase(Parent, Inner.sel, Inner.labels, branches, full, other))
         /\ ReleaseBranches
         /\ UNCHANGED <<exported, mixed, aborted, stmts>>
      \/ /\ Asserts /\ ~CaseAssertion(branches)
         /\ aborted' = TRUE
         /\ UNCHANGED <<contexts, contextStack, frames, room, exported, mixed, stmts>>

CaseEndAfterDefault == Running /\ In("default") /\ EndCase(<<Top>>, FALSE)

CaseEndNoDefault == Running /\ In("case") /\ EndCase(<<Top, Child(Parent)>>, Inner.full)

-----------------------------------------------------------------------------
(* Blocks, and for loops with loop variables: a context that ends in       *)
(* merge_context.  A for loop without loop variables owns no context: its  *)
(* unrolled body runs in the context of the statement it stands for.       *)

BlockStatement ==
  /\ CanVisit
  /\ OpenContext(Frame("block", None, None, <<>>, FALSE), "many")
  /\ UNCHANGED <<contextStack, exported, mixed, aborted>>

BlockEnd ==
  /\ Running
  /\ In("block")
  /\ CloseContext(MergeContext(Parent, Top))
  /\ mixed' = mixed \cup MixedOuts(Top)
  /\ UNCHANGED <<contextStack, exported, aborted, stmts>>

ForLoopUnroll ==
  /\ CanVisit
  /\ BareLoops
  /\ room[Len(room)] = "one"
  /\ room' = [room EXCEPT ![Len(room)] = "many"]
  /\ stmts' = stmts + 1
  /\ UNCHANGED <<contexts, contextStack, frames, exported, mixed, aborted>>

-----------------------------------------------------------------------------
(* for_each_output, once the body has been visited                         *)
Finish ==
  /\ Running
  /\ frames = <<>>
  /\ exported' = [v \in Var |-> IF v \in Outs(Top) THEN Top.outs[v].id ELSE None]
  /\ mixed' = mixed \cup MixedOuts(Top)
  /\ UNCHANGED <<contexts, contextStack, frames, room, aborted, stmts>>

Stopped == (aborted \/ exported # None) /\ UNCHANGED vars

Init ==
  /\ contexts = <<RootContext>>
  /\ contextStack = <<>>
  /\ frames = <<>>
  /\ room = <<"one">>
  /\ exported = None
  /\ mixed = {}
  /\ aborted = FALSE
  /\ stmts = 0

(* every step but the visit of an assignment or a declaration              *)
Structure ==
  \/ \E c \in Tests : Conditional(c)
  \/ ConditionalElse
  \/ ConditionalEnd
  \/ \E f \in Selectors, g \in Labels, full \in FullCases : CaseItem(f, g, full)
  \/ \E f \in Selectors : CaseWithoutItems(f)
  \/ \E g \in Labels : CaseNextItem(g)
  \/ CaseDefault
  \/ CaseEndAfterDefault
  \/ CaseEndNoDefault
  \/ BlockStatement
  \/ BlockEnd
  \/ ForLoopUnroll
  \/ Finish
  \/ Stopped

Next ==
  \/ \E a \in Assigns : Assignment(a)
  \/ \E d \in Decls : VariableDecl(d)
  \/ Structure

Spec == Init /\ [][Next]_vars

-----------------------------------------------------------------------------
(* Properties.                                                             *)

Context == [cur: [Var -> Expr \cup {None}], sched: [Var -> Expr \cup {None}],
            outs: [Var -> Slot \cup {None}], locals: SUBSET Var]

FrameType == [kind: {"then", "else", "case", "default", "block"},
              cond: [Sigma -> BOOLEAN] \cup {None}, sel: Expr \cup {None},
              labels: Seq(LabelList), full: BOOLEAN, base: Nat]

(* Every stack holds records of its kind, and there is a context and a     *)
(* room entry per open statement, on top of the root's.                    *)
TypeOK ==
  /\ contexts \in Seq(Context)
  /\ contextStack \in Seq(Context)
  /\ frames \in Seq(FrameType)
  /\ room \in Seq({"one", "many", "full"})
  /\ Len(contexts) = Len(frames) + 1
  /\ Len(room) = Len(frames) + 1
  /\ exported \in [Var -> Expr \cup {None}] \cup {None}
  /\ mixed \subseteq Var
  /\ aborted \in BOOLEAN
  /\ stmts \in 0..MaxStmts

(* Branches parked by an open statement.                                   *)
Parked(fr) ==
  IF fr.kind = "else" THEN 1
  ELSE IF fr.kind = "case" THEN Len(fr.labels) - 1
  ELSE IF fr.kind = "default" THEN Len(fr.labels)
  ELSE 0

(* The shared context_stack_ is partitioned among the open statements: the *)
(* branches above a statement's base are its own finished branches and     *)
(* nobody else's, although a nested statement pushes on and pops off the   *)
(* same vector in between.  The assertions that the vectors hold enough    *)
(* contexts to stack or merge rest on it.                                  *)
StackDiscipline ==
  /\ \A j \in 1..Len(frames) :
       frames[j].base + Parked(frames[j]) =
         IF j = Len(frames) THEN Len(contextStack) ELSE frames[j + 1].base
  /\ (frames = <<>> => contextStack = <<>>) /\ (frames # <<>> => frames[1].base = 0)

(* The value handed to the netlist is the one the builder schedules: in    *)
(* every context, open or parked, a name's last output is its scheduled    *)
(* assignment.  The two are written by different statements of every merge *)
(* and read by different consumers.                                        *)
OutputsAreScheduled ==
  \A ctx \in Range(contexts) \cup Range(contextStack) :
    \A v \in Outs(ctx) : ctx.sched[v] = ctx.outs[v].id

(* A variable declared in a block is never handed to the netlist as an     *)
(* output of the process.                                                  *)
LocalsStayInside == exported # None => \A v \in Local : exported[v] = None

(* merge_case's assertion, checked in the builds the project ships: all    *)
(* branches that assign a name agree on how.                               *)
CaseBranchesAgree == ~aborted

-----------------------------------------------------------------------------
(* The texts the builder lowers as the process they are.                   *)

Targets(a) == {a.lhs[k].var : k \in DOMAIN a.lhs}

(* Whether the text assigns a name with <=.                                *)
Way == [v \in Var |-> \E a \in Assigns : a.nb /\ v \in Targets(a)]

(* Every name is assigned in one way only.                                 *)
OneWay ==
  /\ \A a \in Assigns : \A v \in Targets(a) : a.nb = Way[v]
  /\ \A d \in Decls : d.init # None => Way[d.var] = FALSE

(* Items whose labels have to be equal to the selector.                    *)
LikeIsEquality == Like = [v \in Val |-> {v}]

(* The second target of a concatenation, and the index of a nonblocking    *)
(* target, are lowered with values in view that the statement itself has   *)
(* scheduled: an index reads none of them.                                 *)
Ignores(idx, names) ==
  \A m, o \in Store : (\A v \in Var \ names : m[v] = o[v]) => idx[m] = idx[o]

Rewritten(a, k) == {a.lhs[j].var : j \in 1..(IF a.nb THEN k ELSE k - 1)}

FixedIndices ==
  \A a \in Assigns : \A k \in DOMAIN a.lhs :
    a.lhs[k].idx # None => Ignores(a.lhs[k].idx, Rewritten(a, k))

SupportedTexts == OneWay /\ LikeIsEquality /\ FixedIndices

-----------------------------------------------------------------------------
(* The process implements ProcSemantics.  Only defined when no name is     *)
(* assigned both ways: then a run that started from s stands in the        *)
(* innermost context all of whose branches s selects, in the parked branch *)
(* s took, or, before its branch is visited, in the context around it.     *)

(* The items of the text a run matches, and the first of them.             *)
Hits(list, x) == list \cap Like[x] # {}

Alike(fr, s) == {k \in DOMAIN fr.labels : Hits(fr.labels[k][s], fr.sel[s])}

FirstAlike(fr, s) == CHOOSE k \in Alike(fr, s) : \A m \in Alike(fr, s) : k <= m

Selected(fr, s) ==
  CASE fr.kind = "then" -> fr.cond[s]
    [] fr.kind = "else" -> ~fr.cond[s]
    [] fr.kind = "case" -> Alike(fr, s) # {} /\ FirstAlike(fr, s) = Len(fr.labels)
    [] fr.kind = "default" -> Alike(fr, s) = {}
    [] OTHER -> TRUE

Active(n, s) == \A j \in 1..n : Selected(frames[j], s)

ActiveSet(n) == {s \in Sigma : Active(n, s)}

Depth(s) == CHOOSE n \in 0..Len(frames) : Active(n, s) /\ (n = Len(frames) \/ ~Active(n + 1, s))

Holder(s) ==
  LET d == Depth(s)
      fr == frames[d + 1]
  IN  IF d = Len(frames) THEN Top
      ELSE IF fr.kind = "else" THEN contextStack[fr.base + 1]
      ELSE IF fr.kind \in {"case", "default"} /\ Alike(fr, s) # {}
        THEN contextStack[fr.base + FirstAlike(fr, s)]
      ELSE contexts[d + 1]

Waiting(fr, s) ==
  CASE fr.kind = "then" -> ~fr.cond[s]
    [] fr.kind = "case" -> Alike(fr, s) = {}
    [] OTHER -> FALSE

PathFrame(j) ==
  LET fr == frames[j]
  IN  [kind |-> IF fr.kind = "block" THEN "block"
                ELSE IF fr.kind \in {"then", "else"} THEN "if" ELSE "case",
       live |-> ActiveSet(j),
       rest |-> {s \in ActiveSet(j - 1) : Waiting(fr, s)},
       sel |-> IF fr.sel = None THEN None ELSE [s \in ActiveSet(j - 1) |-> fr.sel[s]],
       full |-> fr.full]

Process == INSTANCE ProcSemantics WITH
  Assigns <- Assigns \cup
             {[nb |-> FALSE, lhs |-> <<[var |-> d.var, rhs |-> d.init, idx |-> None]>>] :
                d \in {e \in Decls : e.init # None}},
  env <- [s \in Sigma |-> StoreAt(Holder(s), s)],
  nxt <- [s \in Sigma |-> [v \in Var |-> Fallback(Holder(s), v)[s]]],
  path <- [j \in 1..Len(frames) |-> PathFrame(j)],
  result <- IF exported = None THEN None
            ELSE [s \in Sigma |-> [v \in Var |-> IF exported[v] = None THEN s[v]
                                                  ELSE exported[v][s]]]

(* What the builder hands to the netlist is what the process would leave   *)
(* behind, for every valuation: a blocking read sees the writes before it  *)
(* and only those of branches that are taken, a nonblocking write is       *)
(* invisible until the end, unassigned names keep their value.             *)
ImplementsProcess == Process!ProcSpec
=============================================================================

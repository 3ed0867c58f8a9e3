---------------------------- MODULE UnpackedArrays ----------------------------
(***************************************************************************)
(* Unpacked arrays in a procedural block.  An array never has an           *)
(* expression for its whole value.  What a context keeps for it is a       *)
(* sequence: the element writes so far, in order, for the dumper to print  *)
(* one after another.  Merging branches yields a write that is itself      *)
(* conditional, and a branch that leaves the array alone contributes       *)
(* nothing (kInvalidExprId) instead of the value before the branch.        *)
(*                                                                         *)
(* StmtBuilder has names that stand for whole values.  This module gives   *)
(* the names of Array their sequences, does the reads, writes and merges   *)
(* on them, and is shown to implement StmtBuilder, which is shown to       *)
(* implement ProcSemantics.                                                *)
(*                                                                         *)
(* A sequence is modelled by what it prints: for every tracked valuation   *)
(* the positions written and the element each ends up with.  Indices and   *)
(* data are computed before the first write is printed, so that printing   *)
(* a list of writes twice, as a branch does with those of its parent, is   *)
(* printing it once.                                                       *)
(*                                                                         *)
(* Positions are those of the normalised index (ExprLowering).  Arrays     *)
(* declared in a block, assignments of slices and of whole arrays, and     *)
(* assignment patterns are not modelled.                                   *)
(***************************************************************************)
EXTENDS StmtBuilder

CONSTANTS Array,       \* the names of Var that are unpacked arrays
          Pos,         \* positions of their elements
          Element,     \* Element[a]: the elements of the array a
          ArrayOf,     \* ArrayOf[e]: the array of the elements e
          Position,    \* Position[b]: where the base b falls, None if outside
          Replace,     \* Replace[e, d, b]: the element e with d written at b
          InputNode    \* the kInput node of an array

ASSUME ArraysAreNames == Array \subseteq Var
ASSUME ElementsAreValues == Element \in [Val -> [Pos -> Val]]
ASSUME PositionsOrNone == Position \in [Val -> Pos \cup {None}] /\ None \notin Pos
ASSUME ReplaceYieldsValues == Replace \in [Val \X Val \X Val -> Val]

ASSUME ArraysAreWrittenByElement ==
  \A a \in Assigns : \A t \in Range(a.lhs) : t.var \in Array => t.idx # None

(* Blocks declare nothing here, so that no text assigns such a variable.   *)
ASSUME NoLocals == \A a \in Assigns : \A t \in Range(a.lhs) : t.var \notin Local

(* A write to an array, said of values, changes the element it falls on.   *)
ASSUME PatchIsElementwise ==
  \A a \in Val, d \in Val, b \in Val, p \in Pos :
    Element[Patch[a, d, b]][p] =
      IF Position[b] = p THEN Replace[Element[a][p], d, b] ELSE Element[a][p]

ASSUME ElementsMakeTheArray == \A a \in Val : ArrayOf[Element[a]] = a

(* What a sequence prints.                                                 *)
Sequence == [Sigma -> [Pos -> Val \cup {None}]]

ASSUME NothingElseIsNone ==
  /\ None \notin Val \cup Sequence
  /\ None \notin [id: Expr \cup Sequence, last: BOOLEAN, seen: SUBSET BOOLEAN]
  /\ None \notin [Var -> Expr \cup Sequence \cup {None}]
  /\ InputNode \notin Sequence

VARIABLE inputs        \* arrays with an entry in ExprGraph::inputs

arrayVars == <<vars, inputs>>

-----------------------------------------------------------------------------
(* Sequences.                                                              *)

Nothing == [s \in Sigma |-> [p \in Pos |-> None]]

IsSequence(id) == id \notin {None, InputNode}

BugContinuedInput(current, next) ==
  IF current = InputNode THEN current
  ELSE IF current = None THEN next
  ELSE [s \in Sigma |-> [p \in Pos |-> IF next[s][p] = None THEN current[s][p] ELSE next[s][p]]]

(* create_sequence: the writes of the current sequence, then the next one. *)
(* In a build without assertions an input node has no writes to continue.  *)
Continued(current, next) ==
  IF ~IsSequence(current) THEN next
  ELSE [s \in Sigma |-> [p \in Pos |-> IF next[s][p] = None THEN current[s][p] ELSE next[s][p]]]

(* The array after the printed writes.                                     *)
Printed(a, writes) ==
  ArrayOf[[p \in Pos |-> IF writes[p] = None THEN Element[a][p] ELSE writes[p]]]

(* What a node of the array v stands for, as StmtBuilder knows it: a value *)
(* per valuation, or None for the graph's input.                           *)
Meaning(v, id) ==
  IF v \notin Array THEN id
  ELSE IF ~IsSequence(id) THEN None
  ELSE [s \in Sigma |-> Printed(s[v], id[s])]

MeaningOfOut(v, out) == IF out = None THEN None ELSE [out EXCEPT !.id = Meaning(v, @)]

MeaningOfContext(ctx) ==
  [ctx EXCEPT
     !.cur = [v \in Var |-> Meaning(v, ctx.cur[v])],
     !.sched = [v \in Var |-> Meaning(v, ctx.sched[v])],
     !.outs = [v \in Var |-> MeaningOfOut(v, ctx.outs[v])]]

MeaningOfContexts(stack) == [k \in DOMAIN stack |-> MeaningOfContext(stack[k])]

MeaningOfOutputs == IF exported = None THEN None ELSE [v \in Var |-> Meaning(v, exported[v])]

ReadIn(f, ctx) == BuildExpr(f, MeaningOfContext(ctx))

-----------------------------------------------------------------------------
(* Reading.  find_or_create_input makes the input the current value of its *)
(* name, but only the first time the graph is asked for it.                *)

(* The arrays an expression reads.                                         *)
DependsOn(f, v) ==
  \E m \in Sigma, x \in Val : f[m] # f[[m EXCEPT ![v] = x]]

ArraysOf(f) == {v \in Array : DependsOn(f, v)}

Expressions == (Selectors \cup
  UNION {UNION {{t.rhs, t.idx} : t \in Range(a.lhs)} : a \in Assigns}) \ {None}

Reads == [f \in Expressions \cup {None} |-> IF f = None THEN {} ELSE ArraysOf(f)]

TestReads == [c \in Tests |-> ArraysOf(c)]

LabelReads == [g \in Labels |-> ArraysOf(g)]

FindOrCreateInputs(ctx, names) ==
  [ctx EXCEPT !.cur = [v \in Var |->
     IF v \in names \ inputs /\ ctx.cur[v] = None THEN InputNode ELSE ctx.cur[v]]]

-----------------------------------------------------------------------------
(* Assignments.                                                            *)

BugElementWrite(t, rhs, ctx) ==
  LET old == ReadIn([m \in Store |-> m[t.var]], ctx)
      base == ReadIn(t.idx, ScheduledView(ctx, t.var))
  IN  [s \in Sigma |-> [p \in Pos |->
         IF Position[base[s]] = p THEN Replace[Element[old[s]][p], rhs[s], base[s]] ELSE None]]

(* unpacked_assign_select.  A write to a part of an element is masked into *)
(* the element, which build_expr reads in the same view as the index.      *)
ElementWrite(t, rhs, ctx) ==
  LET view == ScheduledView(ctx, t.var)
      old == ReadIn([m \in Store |-> m[t.var]], view)
      base == ReadIn(t.idx, view)
  IN  [s \in Sigma |-> [p \in Pos |->
         IF Position[base[s]] = p THEN Replace[Element[old[s]][p], rhs[s], base[s]] ELSE None]]

RecordArray(ctx, t, rhs, nb) ==
  LET current == ScheduledView(ctx, t.var).cur[t.var]
  IN  Record(ctx, t.var, nb, Continued(current, ElementWrite(t, rhs, ctx)))

RecordScalar(ctx, t, rhs, nb) ==
  LET view == ScheduledView(ctx, t.var)
      value == IF t.idx = None THEN rhs
               ELSE MaskedAssign(Current(view, t.var), rhs, ReadIn(t.idx, view))
  IN  Record(ctx, t.var, nb, value)

(* One target; a right-hand side of several is split by StmtBuilder.       *)
ArrayAssignment(a) ==
  LET t == a.lhs[1]
      names == Reads[t.rhs] \cup Reads[t.idx] \cup ({t.var} \cap Array)
      start == FindOrCreateInputs(Top, names)
      rhs == ReadIn(t.rhs, start)
      written == IF t.var \in Array THEN RecordArray(start, t, rhs, a.nb)
                 ELSE RecordScalar(start, t, rhs, a.nb)
  IN  /\ CanVisit
      /\ Len(a.lhs) = 1
      /\ contexts' = [contexts EXCEPT ![Len(contexts)] =
                        IF a.nb THEN [written EXCEPT !.cur = start.cur] ELSE written]
      /\ room' = Visited
      /\ stmts' = stmts + 1
      /\ inputs' = inputs \cup names
      /\ UNCHANGED <<contextStack, frames, exported, mixed, aborted>>

-----------------------------------------------------------------------------
(* Merges.                                                                 *)

(* A branch that does not write the array is an invalid operand, for which *)
(* the dumper prints nothing.                                              *)
BranchWrites(parent, branch, v) ==
  IF v \in Outs(branch) THEN branch.outs[v].id ELSE Nothing

(* fallback_value                                                          *)
FallbackNode(ctx, v) == IF ctx.sched[v] = None THEN ctx.cur[v] ELSE ctx.sched[v]

(* create_sequence(current, next, source) asserts that a current value is  *)
(* a sequence.                                                             *)
CanContinue(parent, names) ==
  Asserts => \A v \in names \cap Array : FallbackNode(parent, v) # InputNode

MergeArrayConditional(parent, cond, then, else) ==
  LET names == Outs(then) \cup Outs(else)
      Nb(branch, v) == v \in Outs(branch) /\ LastNb(branch.outs[v])
      Merged(v) ==
        IF v \in Array
        THEN Continued(FallbackNode(parent, v),
                       CreateMux(cond, BranchWrites(parent, then, v), BranchWrites(parent, else, v)))
        ELSE CreateMux(cond, BranchValue(parent, then, v), BranchValue(parent, else, v))
  IN  Transfer(parent, names, [v \in names |-> Merged(v)],
               [v \in names |-> Nb(then, v) \/ Nb(else, v)])

MergeArrayCase(parent, sel, labels, branches, full, other) ==
  LET names == BranchOuts(branches)
      open(v) == IF v \in Array THEN Element[other] ELSE other
      data(v) == [k \in DOMAIN branches |->
                    IF v \in Array THEN BranchWrites(parent, branches[k], v)
                    ELSE BranchValue(parent, branches[k], v)]
      Merged(v) ==
        LET next == CreateCase(sel, labels, data(v), full, open(v))
        IN  IF v \in Array THEN Continued(FallbackNode(parent, v), next) ELSE next
  IN  Transfer(parent, names, [v \in names |-> Merged(v)],
               [v \in names |-> CaseFlag(branches, v)])

Abort ==
  /\ aborted' = TRUE
  /\ UNCHANGED <<contexts, contextStack, frames, room, exported, mixed, stmts, inputs>>

-----------------------------------------------------------------------------
(* Statements that own contexts.  They read their condition, selector and  *)
(* labels in the context they stand in; the rest is StmtBuilder's.         *)

OpenBranch(frame, ctx) ==
  /\ CanVisit
  /\ Len(frames) < MaxDepth
  /\ contexts' = Append([contexts EXCEPT ![Len(contexts)] = ctx], Child(ctx))
  /\ frames' = Append(frames, frame)
  /\ room' = Append(Visited, "one")
  /\ stmts' = stmts + 1
  /\ UNCHANGED <<contextStack, exported, mixed, aborted>>

ArrayConditional(c) ==
  LET start == FindOrCreateInputs(Top, TestReads[c])
      view == MeaningOfContext(start)
  IN  /\ OpenBranch(Frame("then", [s \in Sigma |-> c[StoreAt(view, s)]], None, <<>>, FALSE), start)
      /\ inputs' = inputs \cup TestReads[c]

ArrayConditionalElse == ConditionalElse /\ UNCHANGED inputs

ArrayConditionalEnd ==
  LET then == contextStack[Len(contextStack)]
  IN  /\ Running
      /\ In("else")
      /\ \/ /\ CanContinue(Parent, Outs(then) \cup Outs(Top))
            /\ contextStack' = Front(contextStack)
            /\ CloseContext(MergeArrayConditional(Parent, Inner.cond, then, Top))
            /\ mixed' = mixed \cup ConditionalMixes(then, Top)
            /\ UNCHANGED <<exported, aborted, stmts, inputs>>
         \/ ~CanContinue(Parent, Outs(then) \cup Outs(Top)) /\ Abort

ArrayCaseItem(f, g, full) ==
  LET start == FindOrCreateInputs(Top, Reads[f] \cup LabelReads[g])
  IN  /\ OpenBranch(Frame("case", None, ReadIn(f, start), <<ReadIn(g, start)>>, full), start)
      /\ inputs' = inputs \cup Reads[f] \cup LabelReads[g]

ArrayCaseNextItem(g) ==
  LET start == FindOrCreateInputs(Parent, LabelReads[g])
  IN  /\ Running
      /\ In("case")
      /\ Len(Inner.labels) < MaxDepth
      /\ contextStack' = Append(contextStack, Top)
      /\ contexts' = [contexts EXCEPT ![Len(contexts) - 1] = start, ![Len(contexts)] = Child(start)]
      /\ frames' = [frames EXCEPT ![Len(frames)].labels = Append(@, ReadIn(g, start))]
      /\ room' = [room EXCEPT ![Len(room)] = "one"]
      /\ inputs' = inputs \cup LabelReads[g]
      /\ UNCHANGED <<exported, mixed, aborted, stmts>>

ArrayCaseDefault == CaseDefault /\ UNCHANGED inputs

EndArrayCase(last, full) ==
  LET branches == SubSeq(contextStack, Inner.base + 1, Len(contextStack)) \o last
      asserted == (Asserts => CaseAssertion(branches)) /\ CanContinue(Parent, BranchOuts(branches))
  IN  \/ /\ asserted
         /\ \E other \in IF full THEN Val ELSE {CHOOSE x \in Val : TRUE} :
              CloseContext(MergeArrayCase(Parent, Inner.sel, Inner.labels, branches, full, other))
         /\ ReleaseBranches
         /\ UNCHANGED <<exported, mixed, aborted, stmts, inputs>>
      \/ ~asserted /\ Abort

ArrayCaseEndAfterDefault == Running /\ In("default") /\ EndArrayCase(<<Top>>, FALSE)

ArrayCaseEndNoDefault ==
  Running /\ In("case") /\ EndArrayCase(<<Top, Child(Parent)>>, Inner.full)

ArrayBlock == BlockStatement /\ UNCHANGED inputs

(* merge_context hands the child's sequence on as it is: it continues the  *)
(* parent's, which the child started from.                                 *)
ArrayBlockEnd == BlockEnd /\ UNCHANGED inputs

ArrayFinish == Finish /\ UNCHANGED inputs

ArrayStopped == Stopped /\ UNCHANGED inputs

ArrayInit == Init /\ inputs = {}

ArrayNext ==
  \/ \E a \in Assigns : ArrayAssignment(a)
  \/ \E c \in Tests : ArrayConditional(c)
  \/ ArrayConditionalElse
  \/ ArrayConditionalEnd
  \/ \E f \in Selectors, g \in Labels, full \in FullCases : ArrayCaseItem(f, g, full)
  \/ \E g \in Labels : ArrayCaseNextItem(g)
  \/ ArrayCaseDefault
  \/ ArrayCaseEndAfterDefault
  \/ ArrayCaseEndNoDefault
  \/ ArrayBlock
  \/ ArrayBlockEnd
  \/ ArrayFinish
  \/ ArrayStopped

ArraySpec == ArrayInit /\ [][ArrayNext]_arrayVars

-----------------------------------------------------------------------------
(* Properties.                                                             *)

HoldsSequences(ctx) ==
  \A v \in Array :
    /\ ctx.cur[v] \in Sequence \cup {None, InputNode}
    /\ ctx.sched[v] \in Sequence \cup {None}
    /\ ctx.outs[v] # None => ctx.outs[v].id \in Sequence

(* A name of Array never holds an expression of another kind, in any       *)
(* context, open or parked: what is recorded as an output of an array is a *)
(* sequence, as the assertions in merge_conditional and merge_case say.    *)
ArraysTypeOK ==
  /\ inputs \subseteq Array
  /\ \A k \in DOMAIN contexts : HoldsSequences(contexts[k])
  /\ \A k \in DOMAIN contextStack : HoldsSequences(contextStack[k])

(* The lists of writes the contexts hold for an array mean, at every step  *)
(* and for every valuation, the value StmtBuilder gives a name that stands *)
(* for whole values: no write of the parent is lost or moved behind a      *)
(* later one when branches are merged, a branch that does not write the    *)
(* array keeps what the parent scheduled, a write to a part of an element  *)
(* finds the parts written before, and a nonblocking write stays unseen.   *)
Builder == INSTANCE StmtBuilder WITH
  contexts <- MeaningOfContexts(contexts),
  contextStack <- MeaningOfContexts(contextStack),
  exported <- MeaningOfOutputs

ImplementsBuilder == Builder!Spec

(* The assertion in create_sequence(current, next, source), which a build  *)
(* without NDEBUG checks: when branches that write an array are merged,    *)
(* what the array stands for before them is a sequence or nothing yet.     *)
SequencesAreContinued == ~aborted
=============================================================================

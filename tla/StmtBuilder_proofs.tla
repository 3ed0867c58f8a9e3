------------------------- MODULE StmtBuilder_proofs -------------------------
(***************************************************************************)
(* Proofs about StmtBuilder: its types, the discipline of its two context  *)
(* stacks, the agreement of outputs with scheduled assignments, the scope  *)
(* of variables declared inside the process, and the flags of case         *)
(* branches.                                                               *)
(***************************************************************************)
EXTENDS StmtBuilder, SequenceTheorems, WellFoundedInduction, TLAPS

(* A context of the right type whose outputs are its scheduled values.     *)
Good(ctx) ==
  /\ ctx \in Context
  /\ \A v \in Outs(ctx) : ctx.sched[v] = ctx.outs[v].id

-----------------------------------------------------------------------------
(* Types of the expression operators.                                      *)

(* Reading a name yields an expression, assigned or not.                   *)
LEMMA CurrentType ==
  ASSUME NEW ctx \in Context, NEW v \in Var
  PROVE  Current(ctx, v) \in Expr
<1>1. Input(v) \in Expr
  BY ValuationsAreStores DEF Input, Expr, Store
<1>2. QED BY <1>1 DEF Current, Context

(* So does fallback_value.                                                 *)
LEMMA FallbackType ==
  ASSUME NEW ctx \in Context, NEW v \in Var
  PROVE  Fallback(ctx, v) \in Expr
BY CurrentType DEF Fallback, Context

LEMMA StoreAtType ==
  ASSUME NEW ctx \in Context, NEW s \in Sigma
  PROVE  StoreAt(ctx, s) \in Store
<1>1. \A v \in Var : Current(ctx, v) \in [Sigma -> Val]
  BY CurrentType DEF Expr
<1>2. QED BY <1>1 DEF StoreAt, Store

LEMMA BuildExprType ==
  ASSUME NEW ctx \in Context, NEW f \in [Store -> Val]
  PROVE  BuildExpr(f, ctx) \in Expr
BY StoreAtType DEF BuildExpr, Expr

(* The labels of an item, built in a context.                              *)
LEMMA BuildLabelsType ==
  ASSUME NEW ctx \in Context, NEW g \in [Store -> SUBSET Val]
  PROVE  BuildExpr(g, ctx) \in LabelList
BY StoreAtType DEF BuildExpr, LabelList

LEMMA MaskedAssignType ==
  ASSUME NEW a \in Expr, NEW b \in Expr, NEW c \in Expr
  PROVE  MaskedAssign(a, b, c) \in Expr
<1>1. \A s \in Sigma : <<a[s], b[s], c[s]>> \in Val \X Val \X Val
  BY DEF Expr
<1>2. \A s \in Sigma : Patch[a[s], b[s], c[s]] \in Val
  BY <1>1, PatchYieldsValues
<1>3. QED BY <1>2 DEF MaskedAssign, Expr

-----------------------------------------------------------------------------
(* Every operation on contexts keeps them good.                            *)

LEMMA RecordGood ==
  ASSUME NEW ctx, Good(ctx), NEW v \in Var, NEW nb \in BOOLEAN, NEW id \in Expr
  PROVE  Good(Record(ctx, v, nb, id))
<1> DEFINE new == Record(ctx, v, nb, id)
<1>1. AddOutput(ctx.outs[v], nb, id) \in Slot
  BY DEF AddOutput, Slot, Good, Context
<1>2. new \in Context
  BY <1>1 DEF Record, Good, Context
<1>3. AddOutput(ctx.outs[v], nb, id).id = id
  BY DEF AddOutput
<1>4. \A w \in Outs(new) : new.sched[w] = new.outs[w].id
  BY <1>3 DEF Record, Good, Context, Outs
<1>5. QED BY <1>2, <1>4 DEF Good

LEMMA TransferGood ==
  ASSUME NEW ctx, Good(ctx), NEW names \in SUBSET Var,
         NEW id \in [names -> Expr], NEW nb \in [names -> BOOLEAN]
  PROVE  Good(Transfer(ctx, names, id, nb))
<1> DEFINE new == Transfer(ctx, names, id, nb)
<1>1. \A v \in names : AddOutput(ctx.outs[v], nb[v], id[v]) \in Slot
  BY DEF AddOutput, Slot, Good, Context
<1>2. new \in Context
  BY <1>1 DEF Transfer, Good, Context
<1>3. \A v \in names : AddOutput(ctx.outs[v], nb[v], id[v]).id = id[v]
  BY DEF AddOutput
<1>4. \A w \in Outs(new) : new.sched[w] = new.outs[w].id
  BY <1>3 DEF Transfer, Good, Context, Outs
<1>5. QED BY <1>2, <1>4 DEF Good

LEMMA ChildGood ==
  ASSUME NEW ctx \in Context
  PROVE  Good(Child(ctx))
BY DEF Good, Child, NoOuts, Outs, Context

LEMMA SlotOfOut ==
  ASSUME NEW ctx \in Context, NEW v \in Outs(ctx)
  PROVE  v \in Var /\ ctx.outs[v] \in Slot
BY DEF Outs, Context

LEMMA BranchValueType ==
  ASSUME NEW parent \in Context, NEW branch \in Context, NEW v \in Var
  PROVE  BranchValue(parent, branch, v) \in Expr
BY FallbackType, SlotOfOut DEF BranchValue, Slot

LEMMA MergeContextGood ==
  ASSUME NEW parent, Good(parent), NEW child, Good(child)
  PROVE  Good(MergeContext(parent, child))
<1> DEFINE names == Outs(child) \ child.locals
           id == [v \in names |-> child.outs[v].id]
           nb == [v \in names |-> LastNb(child.outs[v])]
<1>1. names \in SUBSET Var
  BY DEF Outs
<1>2. id \in [names -> Expr]
  BY SlotOfOut DEF Good, Slot
<1>3. nb \in [names -> BOOLEAN]
  BY DEF LastNb
<1> HIDE DEF names, id, nb
<1>4. Good(Transfer(parent, names, id, nb))
  BY <1>1, <1>2, <1>3, TransferGood
<1>5. QED BY <1>4 DEF MergeContext, names, id, nb

LEMMA MergeConditionalGood ==
  ASSUME NEW parent, Good(parent), NEW then, Good(then), NEW else, Good(else),
         NEW cond \in [Sigma -> BOOLEAN]
  PROVE  Good(MergeConditional(parent, cond, then, else))
<1> DEFINE names == Outs(then) \cup Outs(else)
           Nb(branch, v) == v \in Outs(branch) /\ LastNb(branch.outs[v])
           id == [v \in names |-> CreateMux(cond, BranchValue(parent, then, v),
                                                  BranchValue(parent, else, v))]
           nb == [v \in names |-> Nb(then, v) \/ Nb(else, v)]
<1>1. names \in SUBSET Var
  BY DEF Outs
<1>2. \A v \in names : CreateMux(cond, BranchValue(parent, then, v),
                                       BranchValue(parent, else, v)) \in Expr
  <2> TAKE v \in names
  <2>1. BranchValue(parent, then, v) \in [Sigma -> Val]
    BY <1>1, BranchValueType DEF Good, Expr
  <2>2. BranchValue(parent, else, v) \in [Sigma -> Val]
    BY <1>1, BranchValueType DEF Good, Expr
  <2>3. QED BY <2>1, <2>2 DEF CreateMux, Expr
<1>3. id \in [names -> Expr]
  BY <1>2
<1>4. nb \in [names -> BOOLEAN]
  BY DEF LastNb
<1>5. Good(Transfer(parent, names, id, nb))
  <2> HIDE DEF names, id, nb
  <2> QED BY <1>1, <1>3, <1>4, TransferGood
<1>6. QED BY <1>5 DEF MergeConditional

(* A nonempty set of indices has a least member.                           *)
LEMMA LeastIndex ==
  ASSUME NEW S \in SUBSET Nat, S # {}
  PROVE  \E k \in S : \A m \in S : k <= m
<1> DEFINE R == {ss \in Nat \X Nat : ss[1] < ss[2]}
<1>1. IsWellFoundedOn(R, Nat)
  BY NatLessThanWellFounded DEF OpToRel
<1> HIDE DEF R
<1>2. \E k \in S : \A m \in S : ~(<<m, k>> \in R)
  BY <1>1, WFMin
<1>3. \A k, m \in Nat : ~(<<m, k>> \in R) => k <= m
  <2> SUFFICES ASSUME NEW k \in Nat, NEW m \in Nat, m < k
               PROVE  <<m, k>> \in R
    OBVIOUS
  <2>1. <<m, k>> \in Nat \X Nat
    OBVIOUS
  <2>2. QED BY <2>1 DEF R
<1>4. QED BY <1>2, <1>3

LEMMA WritersProperties ==
  ASSUME NEW branches \in Seq(Context), NEW v \in BranchOuts(branches)
  PROVE  /\ v \in Var
         /\ Writers(branches, v) # {}
         /\ Writers(branches, v) \in SUBSET Nat
         /\ \A k \in Writers(branches, v) : branches[k].outs[v] \in Slot
<1>1. DOMAIN branches = 1..Len(branches) /\ Len(branches) \in Nat
  OBVIOUS
<1>2. \A k \in DOMAIN branches : branches[k] \in Context
  OBVIOUS
<1>3. \A k \in Writers(branches, v) : v \in Var /\ branches[k].outs[v] \in Slot
  BY <1>2, SlotOfOut DEF Writers
<1>4. QED BY <1>1, <1>3 DEF Writers, BranchOuts

LEMMA CaseFlagType ==
  ASSUME NEW branches \in Seq(Context), NEW v \in BranchOuts(branches)
  PROVE  CaseFlag(branches, v) \in BOOLEAN
<1> DEFINE W == Writers(branches, v)
<1>1. W # {} /\ W \in SUBSET Nat /\ \A k \in W : branches[k].outs[v] \in Slot
  BY WritersProperties
<1>2. \E k \in W : \A m \in W : k <= m
  BY <1>1, LeastIndex
<1>3. (CHOOSE k \in W : \A m \in W : k <= m) \in W
  BY <1>2
<1>4. QED BY <1>1, <1>3 DEF CaseFlag, Slot

(* create_case yields an expression when every branch gives it one.        *)
LEMMA CreateCaseType ==
  ASSUME NEW sel, NEW labels \in Seq(LabelList), NEW n \in Nat,
         NEW data \in [1..n -> Expr], n = Len(labels) + 1,
         NEW full \in BOOLEAN, NEW other, full => other \in Val
  PROVE  CreateCase(sel, labels, data, full, other) \in Expr
<1>1. SUFFICES ASSUME NEW s \in Sigma
               PROVE  CreateCase(sel, labels, data, full, other)[s] \in Val
  BY DEF CreateCase, Expr
<1>2. CASE Matches(sel, labels, s) # {}
  <2>1. Matches(sel, labels, s) \in SUBSET Nat /\ Matches(sel, labels, s) \in SUBSET (1..n)
    BY DEF Matches
  <2>2. FirstMatch(sel, labels, s) \in 1..n
    BY <1>2, <2>1, LeastIndex DEF FirstMatch
  <2>3. QED BY <1>2, <2>2 DEF CreateCase, Expr
<1>3. CASE Matches(sel, labels, s) = {}
  BY <1>3 DEF CreateCase, Expr
<1>4. QED BY <1>2, <1>3

LEMMA MergeCaseGood ==
  ASSUME NEW parent, Good(parent), NEW branches \in Seq(Context),
         NEW sel, NEW labels \in Seq(LabelList), Len(branches) = Len(labels) + 1,
         NEW full \in BOOLEAN, NEW other, full => other \in Val
  PROVE  Good(MergeCase(parent, sel, labels, branches, full, other))
<1> DEFINE names == BranchOuts(branches)
           data(v) == [k \in DOMAIN branches |-> BranchValue(parent, branches[k], v)]
           id == [v \in names |-> CreateCase(sel, labels, data(v), full, other)]
           nb == [v \in names |-> CaseFlag(branches, v)]
<1>1. names \in SUBSET Var
  BY WritersProperties
<1>2. \A v \in names : CreateCase(sel, labels, data(v), full, other) \in Expr
  <2> TAKE v \in names
  <2>1. \A k \in 1..Len(branches) : BranchValue(parent, branches[k], v) \in Expr
    BY <1>1, BranchValueType DEF Good
  <2>2. data(v) \in [1..Len(branches) -> Expr]
    BY <2>1
  <2>3. Len(branches) \in Nat
    OBVIOUS
  <2> HIDE DEF data
  <2>4. QED BY <2>2, <2>3, CreateCaseType
<1>3. id \in [names -> Expr]
  BY <1>2
<1>4. nb \in [names -> BOOLEAN]
  BY CaseFlagType
<1>5. Good(Transfer(parent, names, id, nb))
  <2> HIDE DEF names, id, nb
  <2> QED BY <1>1, <1>3, <1>4, TransferGood
<1>6. QED BY <1>5 DEF MergeCase

LEMMA RecordTargetGood ==
  ASSUME NEW ctx, Good(ctx), NEW t \in Target, NEW rhs \in Expr, NEW nb \in BOOLEAN
  PROVE  Good(RecordTarget(ctx, t, rhs, nb))
<1> DEFINE view == ScheduledView(ctx, t.var)
<1>1. t.var \in Var /\ (t.idx # None => t.idx \in [Store -> Val])
  BY DEF Target
<1>2. view \in Context
  BY <1>1 DEF ScheduledView, Good, Context
<1>3. Current(view, t.var) \in Expr
  BY <1>1, <1>2, CurrentType
<1>4. t.idx # None => BuildExpr(t.idx, view) \in Expr
  BY <1>1, <1>2, BuildExprType
<1> HIDE DEF view
<1>5. (IF t.idx = None THEN rhs
       ELSE MaskedAssign(Current(view, t.var), rhs, BuildExpr(t.idx, view))) \in Expr
  BY <1>3, <1>4, MaskedAssignType
<1>6. QED BY <1>1, <1>5, RecordGood DEF RecordTarget, view

LEMMA RecordTargetsGood ==
  ASSUME NEW ctx, Good(ctx), NEW a \in Assigns
  PROVE  Good(RecordTargets(ctx, a))
<1> DEFINE rhs(k) == BuildExpr(a.lhs[k].rhs, ctx)
           first == RecordTarget(ctx, a.lhs[1], rhs(1), a.nb)
<1>1. a.nb \in BOOLEAN /\ a.lhs \in Seq(Target) /\ Len(a.lhs) \in {1, 2}
  BY AssignsAreOneOrTwoTargets
<1>2. a.lhs[1] \in Target /\ (Len(a.lhs) = 2 => a.lhs[2] \in Target)
  BY <1>1
<1>3. rhs(1) \in Expr /\ (Len(a.lhs) = 2 => rhs(2) \in Expr)
  BY <1>2, BuildExprType DEF Target, Good
<1> HIDE DEF rhs
<1>4. Good(first)
  BY <1>1, <1>2, <1>3, RecordTargetGood
<1> HIDE DEF first
<1>5. CASE Len(a.lhs) = 1
  BY <1>4, <1>5 DEF RecordTargets, first, rhs
<1>6. CASE Len(a.lhs) = 2
  <2>1. Good(RecordTarget(first, a.lhs[2], rhs(2), a.nb))
    BY <1>1, <1>2, <1>3, <1>4, <1>6, RecordTargetGood
  <2>2. QED BY <1>6, <2>1 DEF RecordTargets, first, rhs
<1>7. QED BY <1>1, <1>5, <1>6

(* Restoring the current values of a nonblocking statement disturbs        *)
(* neither the outputs nor the scheduled values.                           *)
LEMMA RestoreGood ==
  ASSUME NEW ctx, Good(ctx), NEW before \in Context
  PROVE  Good([ctx EXCEPT !.cur = before.cur])
BY DEF Good, Context, Outs

-----------------------------------------------------------------------------
(* The inductive invariant.                                                *)

Space == {"one", "many", "full"}

(* What merge_conditional and merge_case need of the frame they close.     *)
FrameGood(fr) ==
  /\ fr \in FrameType
  /\ fr.kind \in {"then", "else"} => fr.cond \in [Sigma -> BOOLEAN]
  /\ fr.kind = "case" => fr.labels # <<>>
  /\ fr.kind = "default" => ~fr.full
  /\ fr.kind \in {"case", "default"} => fr.sel \in Expr

(* The two context stacks and the open statements.                         *)
Core ==
  /\ contexts \in Seq(Context)
  /\ contextStack \in Seq(Context)
  /\ frames \in Seq(FrameType)
  /\ room \in Seq(Space)
  /\ Len(contexts) = Len(frames) + 1
  /\ Len(room) = Len(frames) + 1
  /\ \A k \in 1..Len(contexts) : Good(contexts[k])
  /\ \A k \in 1..Len(contextStack) : Good(contextStack[k])
  /\ \A j \in 1..Len(frames) : FrameGood(frames[j])
  /\ StackDiscipline

(* What has been reported and handed over.                                 *)
Outcome ==
  /\ exported \in [Var -> Expr \cup {None}] \cup {None}
  /\ mixed \subseteq Var
  /\ aborted \in BOOLEAN
  /\ stmts \in 0..MaxStmts

IInv == Core /\ Outcome

LEMMA TopGood ==
  ASSUME Core
  PROVE  /\ Len(contexts) \in Nat /\ Len(contexts) >= 1
         /\ Good(Top) /\ Top \in Context
         /\ Len(frames) >= 1 => Good(Parent) /\ Parent \in Context
<1>1. Len(contexts) \in Nat /\ Len(frames) \in Nat
  BY DEF Core
<1>2. QED BY <1>1 DEF Core, Top, Parent, Good

LEMMA VisitedType ==
  ASSUME Core
  PROVE  Visited \in Seq(Space) /\ Len(Visited) = Len(room)
BY DEF Core, Visited, Space

(* A statement that stays in the current context keeps the stacks sound.   *)
LEMMA ReplaceTopKeepsCore ==
  ASSUME Core, NEW ctx, Good(ctx),
         contexts' = [contexts EXCEPT ![Len(contexts)] = ctx],
         room' \in Seq(Space), Len(room') = Len(room),
         UNCHANGED <<contextStack, frames>>
  PROVE  Core'
<1>1. contexts' \in Seq(Context) /\ Len(contexts') = Len(contexts)
  BY DEF Core, Good
<1>2. \A k \in 1..Len(contexts') : Good(contexts'[k])
  BY <1>1 DEF Core
<1>3. StackDiscipline'
  BY DEF Core, StackDiscipline, Parked
<1>4. (\A k \in 1..Len(contextStack) : Good(contextStack[k]))'
  BY DEF Core, Good, Outs, Context, Slot
<1>5. (\A k \in 1..Len(contexts) : Good(contexts[k]))'
  BY <1>2
<1>6. (\A j \in 1..Len(frames) : FrameGood(frames[j]))'
  BY DEF Core, FrameGood
<1>7. QED BY <1>1, <1>3, <1>4, <1>5, <1>6 DEF Core

(* Opening a branch, a block or a case keeps the stacks sound.             *)
LEMMA OpenContextKeepsCore ==
  ASSUME Core, NEW frame, FrameGood(frame), NEW space \in Space,
         frame.base = Len(contextStack), Parked(frame) = 0,
         OpenContext(frame, space), UNCHANGED contextStack
  PROVE  Core'
<1> USE DEF OpenContext
<1>1. Good(Child(Top)) /\ Child(Top) \in Context
  BY TopGood, ChildGood DEF Good
<1>2. contexts' \in Seq(Context) /\ frames' \in Seq(FrameType) /\ room' \in Seq(Space)
  <2>1. frame \in FrameType
    BY DEF FrameGood
  <2>2. QED BY <1>1, <2>1, VisitedType DEF Core
<1>3. Len(contexts') = Len(frames') + 1 /\ Len(room') = Len(frames') + 1
  BY VisitedType DEF Core
<1>4. \A k \in 1..Len(contexts') : Good(contexts'[k])
  BY <1>1 DEF Core
<1>5. \A j \in 1..Len(frames') : FrameGood(frames'[j])
  BY DEF Core
<1>6. StackDiscipline'
  <2>1. /\ Len(frames) \in Nat
        /\ Len(frames') = Len(frames) + 1
        /\ frames'[Len(frames) + 1] = frame
        /\ \A j \in 1..Len(frames) : frames'[j] = frames[j]
    BY DEF Core, FrameGood
  <2>2. \A j \in 1..Len(frames') :
          frames'[j].base + Parked(frames'[j]) =
            IF j = Len(frames') THEN Len(contextStack) ELSE frames'[j + 1].base
    <3> TAKE j \in 1..Len(frames')
    <3>1. CASE j = Len(frames')
      BY <2>1, <3>1 DEF Core
    <3>2. CASE j = Len(frames)
      BY <2>1, <3>2 DEF Core, StackDiscipline
    <3>3. CASE j < Len(frames)
      BY <2>1, <3>3 DEF Core, StackDiscipline
    <3>4. QED BY <2>1, <3>1, <3>2, <3>3
  <2>3. frames' # <<>> /\ frames'[1].base = 0
    <3>1. CASE frames = <<>>
      <4>1. contextStack = <<>> /\ Len(frames) = 0
        BY <3>1 DEF Core, StackDiscipline
      <4>2. frame.base = 0
        BY <4>1
      <4>3. QED BY <2>1, <4>1, <4>2
    <3>2. CASE frames # <<>>
      <4>1. Len(frames) >= 1 /\ frames[1].base = 0
        BY <2>1, <3>2 DEF Core, StackDiscipline
      <4>2. QED BY <2>1, <4>1
    <3>3. QED BY <3>1, <3>2
  <2>4. QED BY <2>2, <2>3 DEF StackDiscipline, Parked
<1>7. QED BY <1>2, <1>3, <1>4, <1>5, <1>6 DEF Core, Good, Outs, FrameGood

(* So does moving on to the next branch of an if or a case: the finished   *)
(* branch is parked, one place above those parked before it.               *)
LEMMA NextBranchKeepsCore ==
  ASSUME Core, frames # <<>>, NEW frame, FrameGood(frame),
         frame.base = Inner.base, Parked(frame) = Parked(Inner) + 1,
         NextBranch(frame)
  PROVE  Core'
<1> DEFINE n == Len(frames)
           child == Child(contexts[n])
<1>1. n \in Nat /\ n >= 1 /\ Len(contexts) = n + 1 /\ Len(room) = n + 1
  BY DEF Core
<1>2. Good(child) /\ child \in Context
  BY <1>1, ChildGood DEF Core, Good
<1>3. /\ contexts' = [contexts EXCEPT ![Len(contexts)] = child]
      /\ contextStack' = Append(contextStack, Top)
      /\ frames' = [frames EXCEPT ![n] = frame]
      /\ room' = [room EXCEPT ![Len(room)] = "one"]
  BY <1>1 DEF NextBranch
<1> HIDE DEF child, n
<1>4. /\ contexts' \in Seq(Context) /\ Len(contexts') = n + 1
      /\ \A k \in 1..n + 1 : contexts'[k] = IF k = n + 1 THEN child ELSE contexts[k]
  BY <1>1, <1>2, <1>3 DEF Core
<1>5. /\ frames' \in Seq(FrameType) /\ Len(frames') = n
      /\ \A j \in 1..n : frames'[j] = IF j = n THEN frame ELSE frames[j]
  BY <1>1, <1>3 DEF Core, FrameGood, n
<1>6. room' \in Seq(Space) /\ Len(room') = n + 1
  BY <1>1, <1>3 DEF Core, Space
<1>7. /\ contextStack' \in Seq(Context) /\ Len(contextStack') = Len(contextStack) + 1
      /\ \A k \in 1..Len(contextStack) + 1 :
           contextStack'[k] = IF k = Len(contextStack) + 1 THEN Top ELSE contextStack[k]
  BY <1>3, TopGood DEF Core
<1>8. \A k \in 1..Len(contexts') : Good(contexts'[k])
  BY <1>1, <1>2, <1>4 DEF Core
<1>9. \A k \in 1..Len(contextStack') : Good(contextStack'[k])
  BY SMTT(20), <1>7, TopGood DEF Core
<1>10. \A j \in 1..Len(frames') : FrameGood(frames'[j])
  BY <1>1, <1>5 DEF Core, n
<1>11. StackDiscipline'
  <2>1. /\ \A j \in 1..n : frames[j].base + Parked(frames[j]) =
             IF j = n THEN Len(contextStack) ELSE frames[j + 1].base
        /\ frames[1].base = 0
    BY DEF Core, StackDiscipline, n
  <2>2. Inner = frames[n] /\ Inner.base \in Nat /\ Parked(Inner) \in Int
    <3>1. Inner = frames[n] /\ Inner \in FrameType
      BY <1>1 DEF Core, Inner, n
    <3>2. Len(Inner.labels) \in Nat
      BY <3>1 DEF FrameType
    <3>3. QED BY <3>1, <3>2 DEF FrameType, Parked
  <2>3. \A j \in 1..n : frames'[j].base = frames[j].base
    BY <1>5, <2>2
  <2>4. \A j \in 1..n : Parked(frames'[j]) = IF j = n THEN Parked(Inner) + 1
                                             ELSE Parked(frames[j])
    BY <1>5
  <2>5. Len(contextStack) \in Nat
    BY DEF Core
  <2>6. \A j \in 1..Len(frames') :
          frames'[j].base + Parked(frames'[j]) =
            IF j = Len(frames') THEN Len(contextStack') ELSE frames'[j + 1].base
    <3> TAKE j \in 1..Len(frames')
    <3>1. CASE j = n
      BY <1>1, <1>5, <1>7, <2>1, <2>2, <2>3, <2>4, <2>5, <3>1
    <3>2. CASE j # n
      <4>1. j \in 1..n /\ j + 1 \in 1..n
        BY <1>1, <1>5, <3>2
      <4>2. QED BY <1>5, <2>1, <2>3, <2>4, <3>2, <4>1
    <3>3. QED BY <3>1, <3>2
  <2>7. frames' # <<>> /\ frames'[1].base = 0
    BY <1>1, <1>5, <2>1, <2>3
  <2>8. QED BY <2>6, <2>7 DEF StackDiscipline, Parked
<1>12. Len(contexts') = Len(frames') + 1 /\ Len(room') = Len(frames') + 1
  BY <1>4, <1>5, <1>6
<1>13. QED
  BY <1>4, <1>5, <1>6, <1>7, <1>8, <1>9, <1>10, <1>11, <1>12 DEF Core, Good, Outs, FrameGood

(* And so does closing a statement, which takes its own parked branches    *)
(* off the stack and no others.                                            *)
LEMMA CloseContextKeepsCore ==
  ASSUME Core, frames # <<>>, NEW ctx, Good(ctx), CloseContext(ctx),
         contextStack' \in Seq(Context), Len(contextStack') = Inner.base,
         \A k \in 1..Len(contextStack') : contextStack'[k] = contextStack[k],
         Inner.base <= Len(contextStack)
  PROVE  Core'
<1> DEFINE n == Len(frames)
<1>1. n \in Nat /\ n >= 1 /\ Len(contexts) = n + 1 /\ Len(room) = n + 1
  BY DEF Core
<1>2. /\ contexts' = [SubSeq(contexts, 1, n) EXCEPT ![n] = ctx]
      /\ frames' = SubSeq(frames, 1, n - 1)
      /\ room' = SubSeq(room, 1, n)
  BY <1>1 DEF CloseContext, Front
<1> HIDE DEF n
<1>3. /\ SubSeq(contexts, 1, n) \in Seq(Context) /\ Len(SubSeq(contexts, 1, n)) = n
      /\ \A k \in 1..n : SubSeq(contexts, 1, n)[k] = contexts[k]
  BY <1>1 DEF Core
<1>4. /\ contexts' \in Seq(Context) /\ Len(contexts') = n
      /\ \A k \in 1..n : contexts'[k] = IF k = n THEN ctx ELSE contexts[k]
  <2> DEFINE below == SubSeq(contexts, 1, n)
  <2>1. below \in Seq(Context) /\ Len(below) = n /\ \A k \in 1..n : below[k] = contexts[k]
    BY <1>3
  <2>2. contexts' = [below EXCEPT ![n] = ctx]
    BY <1>2
  <2> HIDE DEF below
  <2>3. ctx \in Context /\ n \in 1..Len(below)
    BY <1>1, <2>1 DEF Good
  <2>4. QED BY <2>1, <2>2, <2>3, ExceptSeq
<1>5. /\ frames' \in Seq(FrameType) /\ Len(frames') = n - 1
      /\ \A j \in 1..n - 1 : frames'[j] = frames[j]
  <2>1. \A j \in 1..n - 1 : frames[j] \in FrameType
    BY <1>1 DEF Core, n
  <2>2. 1 \in Int /\ n - 1 \in Int
    BY <1>1
  <2>3. /\ SubSeq(frames, 1, n - 1) \in Seq(FrameType)
        /\ Len(SubSeq(frames, 1, n - 1)) = IF 1 <= n - 1 THEN n - 1 - 1 + 1 ELSE 0
        /\ \A j \in 1..n - 1 - 1 + 1 : SubSeq(frames, 1, n - 1)[j] = frames[1 + j - 1]
    BY <2>1, <2>2, SubSeqProperties
  <2>4. QED BY <1>1, <1>2, <2>3
<1>6. room' \in Seq(Space) /\ Len(room') = n
  BY <1>1, <1>2 DEF Core
<1>7. \A k \in 1..Len(contexts') : Good(contexts'[k])
  <2> TAKE k \in 1..Len(contexts')
  <2>1. k \in 1..Len(contexts)
    BY <1>1, <1>4
  <2>2. Good(contexts[k])
    BY <2>1 DEF Core
  <2>3. QED BY <1>4, <2>2
<1>8. \A k \in 1..Len(contextStack') : Good(contextStack'[k])
  <2> TAKE k \in 1..Len(contextStack')
  <2>1. Len(contextStack) \in Nat /\ Len(contextStack') \in Nat
    BY DEF Core
  <2>2. k \in 1..Len(contextStack)
    BY <2>1
  <2>3. QED BY <2>2 DEF Core
<1>9. \A j \in 1..Len(frames') : FrameGood(frames'[j])
  BY <1>1, <1>5 DEF Core, n
<1>10. StackDiscipline'
  <2>1. /\ \A j \in 1..n : frames[j].base + Parked(frames[j]) =
             IF j = n THEN Len(contextStack) ELSE frames[j + 1].base
        /\ frames[1].base = 0
    BY DEF Core, StackDiscipline, n
  <2>2. Inner = frames[n]
    BY DEF Inner, n
  <2>3. \A j \in 1..Len(frames') :
          frames'[j].base + Parked(frames'[j]) =
            IF j = Len(frames') THEN Len(contextStack') ELSE frames'[j + 1].base
    <3> TAKE j \in 1..Len(frames')
    <3>1. j \in 1..n - 1 /\ j \in 1..n /\ j # n
      BY <1>1, <1>5
    <3>2. frames[j].base + Parked(frames[j]) = frames[j + 1].base
      BY <2>1, <3>1
    <3>3. frames'[j] = frames[j]
      BY <1>5, <3>1
    <3>4. CASE j = n - 1
      BY <1>1, <1>5, <2>2, <3>1, <3>2, <3>3, <3>4
    <3>5. CASE j # n - 1
      <4>1. j + 1 \in 1..n - 1
        BY <1>1, <3>1, <3>5
      <4>2. frames'[j + 1] = frames[j + 1]
        BY <1>5, <4>1
      <4>3. QED BY <1>1, <1>5, <3>2, <3>3, <3>5, <4>2
    <3>6. QED BY <3>4, <3>5
  <2>4. frames' # <<>> => frames'[1].base = 0
    BY <1>1, <1>5, <2>1
  <2>5. frames' = <<>> => contextStack' = <<>>
    <3> SUFFICES ASSUME frames' = <<>> PROVE contextStack' = <<>>
      OBVIOUS
    <3>1. n = 1
      BY <1>1, <1>5
    <3>2. Len(contextStack') = 0
      BY <2>1, <2>2, <3>1
    <3>3. QED BY <3>2
  <2>6. QED BY <2>3, <2>4, <2>5 DEF StackDiscipline, Parked
<1>11. Len(contexts') = Len(frames') + 1 /\ Len(room') = Len(frames') + 1
  BY <1>1, <1>4, <1>5, <1>6
<1>12. QED
  BY <1>4, <1>5, <1>6, <1>7, <1>8, <1>9, <1>10, <1>11 DEF Core, Good, Outs, FrameGood

-----------------------------------------------------------------------------
(* One lemma per action.                                                   *)

LEMMA InitEstablishes == Init => IInv
<1> SUFFICES ASSUME Init PROVE IInv
  OBVIOUS
<1> USE DEF Init
<1>1. Good(RootContext) /\ RootContext \in Context
  BY DEF RootContext, NoOuts, Good, Outs, Context
<1>2. contexts \in Seq(Context) /\ Len(contexts) = 1 /\ \A k \in 1..1 : Good(contexts[k])
  BY <1>1
<1>3. /\ contextStack \in Seq(Context) /\ Len(contextStack) = 0
      /\ frames \in Seq(FrameType) /\ Len(frames) = 0
      /\ room \in Seq(Space) /\ Len(room) = 1
  BY DEF Space
<1>4. StackDiscipline
  BY <1>3 DEF StackDiscipline
<1>5. Outcome
  <2>1. mixed \subseteq Var /\ aborted \in BOOLEAN
    OBVIOUS
  <2>2. exported \in [Var -> Expr \cup {None}] \cup {None}
    OBVIOUS
  <2>3. stmts \in 0..MaxStmts
    BY BoundsAreNatural
  <2>4. QED BY <2>1, <2>2, <2>3 DEF Outcome
<1>6. QED BY <1>2, <1>3, <1>4, <1>5 DEF IInv, Core

LEMMA AssignmentStep ==
  ASSUME IInv, NEW a \in Assigns, Assignment(a)
  PROVE  IInv'
<1> DEFINE written == RecordTargets(Top, a)
           restored == IF a.nb THEN [written EXCEPT !.cur = Top.cur] ELSE written
<1>1. Good(written)
  BY TopGood, RecordTargetsGood DEF IInv
<1>2. Good(restored)
  BY <1>1, TopGood, RestoreGood DEF IInv
<1>3. contexts' = [contexts EXCEPT ![Len(contexts)] = restored]
  BY DEF Assignment
<1> HIDE DEF restored
<1>4. room' = Visited /\ UNCHANGED <<contextStack, frames, exported, mixed, aborted>>
  BY DEF Assignment
<1>5. Core'
  BY <1>2, <1>3, <1>4, VisitedType, ReplaceTopKeepsCore DEF IInv
<1>6. Outcome'
  BY <1>4, BoundsAreNatural DEF Assignment, IInv, Outcome, CanVisit
<1>7. QED BY <1>5, <1>6 DEF IInv

LEMMA VariableDeclStep ==
  ASSUME IInv, NEW d \in Decls, VariableDecl(d)
  PROVE  IInv'
<1> DEFINE local == [Top EXCEPT !.locals = @ \cup {d.var}]
           new == IF d.init = None THEN local
                  ELSE Record(local, d.var, FALSE, BuildExpr(d.init, local))
<1>1. d.var \in Var /\ (d.init # None => d.init \in [Store -> Val])
  BY DeclsAreBlocking
<1>2. Good(local) /\ local \in Context
  BY <1>1, TopGood DEF IInv, Good, Context, Outs
<1>3. Good(new)
  BY <1>1, <1>2, BuildExprType, RecordGood
<1>4. contexts' = [contexts EXCEPT ![Len(contexts)] = new]
  BY DEF VariableDecl
<1> HIDE DEF new
<1>5. UNCHANGED <<contextStack, frames, room, exported, mixed, aborted>>
  BY DEF VariableDecl
<1>6. room' \in Seq(Space) /\ Len(room') = Len(room)
  BY <1>5 DEF IInv, Core
<1>7. Core'
  BY <1>3, <1>4, <1>5, <1>6, ReplaceTopKeepsCore DEF IInv
<1>8. Outcome'
  BY <1>5, BoundsAreNatural DEF VariableDecl, IInv, Outcome, CanVisit
<1>9. QED BY <1>7, <1>8 DEF IInv

(* Opening any of the four kinds of statement that own a context.          *)
LEMMA OpenStep ==
  ASSUME IInv, NEW frame, FrameGood(frame), NEW space \in Space,
         frame.base = Len(contextStack), Parked(frame) = 0,
         OpenContext(frame, space), CanVisit,
         UNCHANGED <<contextStack, exported, mixed, aborted>>
  PROVE  IInv'
<1>1. Core'
  BY OpenContextKeepsCore DEF IInv
<1>2. Outcome'
  BY BoundsAreNatural DEF OpenContext, IInv, Outcome, CanVisit
<1>3. QED BY <1>1, <1>2 DEF IInv

LEMMA ConditionalStep ==
  ASSUME IInv, NEW c \in Tests, Conditional(c)
  PROVE  IInv'
<1> DEFINE cond == [s \in Sigma |-> c[StoreAt(Top, s)]]
           frame == Frame("then", cond, None, <<>>, FALSE)
<1>1. cond \in [Sigma -> BOOLEAN]
  BY TestsAreBoolean, StoreAtType, TopGood DEF IInv
<1>2. FrameGood(frame) /\ frame.base = Len(contextStack) /\ Parked(frame) = 0
  BY <1>1 DEF Frame, FrameGood, FrameType, Parked, IInv, Core
<1>3. OpenContext(frame, "one") /\ CanVisit /\ UNCHANGED <<contextStack, exported, mixed, aborted>>
  BY DEF Conditional
<1>4. QED BY <1>2, <1>3, OpenStep DEF Space

LEMMA CaseItemStep ==
  ASSUME IInv, NEW f \in Selectors, NEW g \in Labels, NEW full \in FullCases,
         CaseItem(f, g, full)
  PROVE  IInv'
<1> DEFINE frame == Frame("case", None, BuildExpr(f, Top), <<BuildExpr(g, Top)>>, full)
<1>1. BuildExpr(f, Top) \in Expr /\ BuildExpr(g, Top) \in LabelList /\ full \in BOOLEAN
  BY SelectorsAreExpressions, LabelsAreExpressions, FullCasesAreBoolean, BuildExprType,
     BuildLabelsType, TopGood DEF IInv
<1>2. <<BuildExpr(g, Top)>> \in Seq(LabelList) /\ Len(<<BuildExpr(g, Top)>>) = 1
  BY <1>1
<1>3. FrameGood(frame) /\ frame.base = Len(contextStack) /\ Parked(frame) = 0
  BY <1>1, <1>2 DEF Frame, FrameGood, FrameType, Parked, IInv, Core
<1>4. OpenContext(frame, "one") /\ CanVisit /\ UNCHANGED <<contextStack, exported, mixed, aborted>>
  BY DEF CaseItem
<1>5. QED BY <1>3, <1>4, OpenStep DEF Space

LEMMA CaseWithoutItemsStep ==
  ASSUME IInv, NEW f \in Selectors, CaseWithoutItems(f)
  PROVE  IInv'
<1> DEFINE frame == Frame("default", None, BuildExpr(f, Top), <<>>, FALSE)
<1>1. BuildExpr(f, Top) \in Expr
  BY SelectorsAreExpressions, BuildExprType, TopGood DEF IInv
<1>2. FrameGood(frame) /\ frame.base = Len(contextStack) /\ Parked(frame) = 0
  BY <1>1 DEF Frame, FrameGood, FrameType, Parked, IInv, Core
<1>3. OpenContext(frame, "one") /\ CanVisit /\ UNCHANGED <<contextStack, exported, mixed, aborted>>
  BY DEF CaseWithoutItems
<1>4. QED BY <1>2, <1>3, OpenStep DEF Space

LEMMA BlockStatementStep ==
  ASSUME IInv, BlockStatement
  PROVE  IInv'
<1> DEFINE frame == Frame("block", None, None, <<>>, FALSE)
<1>1. FrameGood(frame) /\ frame.base = Len(contextStack) /\ Parked(frame) = 0
  BY DEF Frame, FrameGood, FrameType, Parked, IInv, Core
<1>2. OpenContext(frame, "many") /\ CanVisit /\ UNCHANGED <<contextStack, exported, mixed, aborted>>
  BY DEF BlockStatement
<1>3. QED BY <1>1, <1>2, OpenStep DEF Space

LEMMA InnerGood ==
  ASSUME Core, frames # <<>>
  PROVE  /\ FrameGood(Inner) /\ Inner \in FrameType
         /\ Inner.base + Parked(Inner) = Len(contextStack)
         /\ Inner.base \in Nat /\ Len(Inner.labels) \in Nat /\ Inner.labels \in Seq(LabelList)
         /\ Good(Parent) /\ Parent \in Context
<1>1. Len(frames) \in Nat /\ Len(frames) >= 1
  BY DEF Core
<1>2. FrameGood(Inner) /\ Inner \in FrameType
  BY <1>1 DEF Core, Inner
<1>3. Inner.base + Parked(Inner) = Len(contextStack)
  BY <1>1 DEF Core, StackDiscipline, Inner
<1>4. QED BY <1>1, <1>2, <1>3, TopGood DEF FrameType

LEMMA ConditionalElseStep ==
  ASSUME IInv, ConditionalElse
  PROVE  IInv'
<1> DEFINE frame == [Inner EXCEPT !.kind = "else"]
<1>1. frames # <<>> /\ Inner.kind = "then"
  BY DEF ConditionalElse, In
<1>2. FrameGood(Inner) /\ Inner \in FrameType
  BY <1>1, InnerGood DEF IInv
<1>3. FrameGood(frame) /\ frame.base = Inner.base /\ Parked(frame) = Parked(Inner) + 1
  BY <1>1, <1>2 DEF FrameGood, FrameType, Parked
<1>4. NextBranch(frame) /\ UNCHANGED <<exported, mixed, aborted, stmts>>
  BY DEF ConditionalElse
<1>5. Core'
  BY <1>1, <1>3, <1>4, NextBranchKeepsCore DEF IInv
<1>6. QED BY <1>4, <1>5 DEF IInv, Outcome

LEMMA CaseNextItemStep ==
  ASSUME IInv, NEW g \in Labels, CaseNextItem(g)
  PROVE  IInv'
<1> DEFINE frame == [Inner EXCEPT !.labels = Append(@, BuildExpr(g, Parent))]
<1>1. frames # <<>> /\ Inner.kind = "case"
  BY DEF CaseNextItem, In
<1>2. FrameGood(Inner) /\ Inner \in FrameType /\ Parent \in Context /\ Inner.labels \in Seq(LabelList)
  BY <1>1, InnerGood DEF IInv
<1>3. BuildExpr(g, Parent) \in LabelList
  BY <1>2, LabelsAreExpressions, BuildLabelsType
<1>4. /\ Append(Inner.labels, BuildExpr(g, Parent)) \in Seq(LabelList)
      /\ Append(Inner.labels, BuildExpr(g, Parent)) # <<>>
      /\ Len(Append(Inner.labels, BuildExpr(g, Parent))) = Len(Inner.labels) + 1
  BY <1>2, <1>3
<1>5. FrameGood(frame) /\ frame.base = Inner.base /\ Parked(frame) = Parked(Inner) + 1
  <2> DEFINE labels == Append(Inner.labels, BuildExpr(g, Parent))
  <2>1. labels \in Seq(LabelList) /\ labels # <<>> /\ Len(labels) = Len(Inner.labels) + 1
    BY <1>4
  <2>2. Len(Inner.labels) \in Nat
    BY <1>2
  <2> HIDE DEF labels
  <2>3. /\ [Inner EXCEPT !.labels = labels] \in FrameType
        /\ [Inner EXCEPT !.labels = labels].kind = "case"
        /\ [Inner EXCEPT !.labels = labels].base = Inner.base
        /\ [Inner EXCEPT !.labels = labels].labels = labels
        /\ [Inner EXCEPT !.labels = labels].sel = Inner.sel
    BY <1>1, <1>2, <2>1 DEF FrameType
  <2>4. frame = [Inner EXCEPT !.labels = labels]
    BY DEF labels
  <2>5. FrameGood(frame)
    BY <1>1, <1>2, <2>1, <2>3, <2>4 DEF FrameGood
  <2>6. Parked(frame) = Len(labels) - 1 /\ Parked(Inner) = Len(Inner.labels) - 1
    BY <1>1, <2>3, <2>4 DEF Parked
  <2>7. QED BY <2>1, <2>2, <2>3, <2>4, <2>5, <2>6
<1>6. NextBranch(frame) /\ UNCHANGED <<exported, mixed, aborted, stmts>>
  BY DEF CaseNextItem
<1>7. Core'
  BY <1>1, <1>5, <1>6, NextBranchKeepsCore DEF IInv
<1>8. QED BY <1>6, <1>7 DEF IInv, Outcome

LEMMA CaseDefaultStep ==
  ASSUME IInv, CaseDefault
  PROVE  IInv'
<1> DEFINE frame == [Inner EXCEPT !.kind = "default", !.full = FALSE]
<1>1. frames # <<>> /\ Inner.kind = "case"
  BY DEF CaseDefault, In
<1>2. FrameGood(Inner) /\ Inner \in FrameType /\ Len(Inner.labels) \in Nat
  BY <1>1, InnerGood DEF IInv
<1>3. FrameGood(frame) /\ frame.base = Inner.base /\ Parked(frame) = Parked(Inner) + 1
  <2>1. /\ frame \in FrameType /\ frame.kind = "default" /\ ~frame.full /\ frame.sel = Inner.sel
        /\ frame.base = Inner.base /\ frame.labels = Inner.labels
    BY <1>2 DEF FrameType
  <2>2. FrameGood(frame)
    BY <1>1, <1>2, <2>1 DEF FrameGood
  <2>3. Parked(frame) = Len(Inner.labels) /\ Parked(Inner) = Len(Inner.labels) - 1
    BY <1>1, <2>1 DEF Parked
  <2>4. QED BY <1>2, <2>1, <2>2, <2>3
<1>4. NextBranch(frame) /\ UNCHANGED <<exported, mixed, aborted, stmts>>
  BY DEF CaseDefault
<1>5. Core'
  BY <1>1, <1>3, <1>4, NextBranchKeepsCore DEF IInv
<1>6. QED BY <1>4, <1>5 DEF IInv, Outcome

LEMMA ConditionalEndStep ==
  ASSUME IInv, ConditionalEnd
  PROVE  IInv'
<1> DEFINE then == contextStack[Len(contextStack)]
           merged == MergeConditional(Parent, Inner.cond, then, Top)
<1>1. frames # <<>> /\ Inner.kind = "else"
  BY DEF ConditionalEnd, In
<1>2. /\ Inner.base + 1 = Len(contextStack) /\ Inner.base \in Nat
      /\ Inner.cond \in [Sigma -> BOOLEAN] /\ Good(Parent)
  BY <1>1, InnerGood DEF IInv, Parked, FrameGood
<1>3. Len(contextStack) \in Nat /\ Good(then) /\ Good(Top)
  BY <1>2, TopGood DEF IInv, Core
<1> HIDE DEF then
<1>4. Good(merged)
  BY <1>2, <1>3, MergeConditionalGood
<1>5. /\ contextStack' = Front(contextStack)
      /\ CloseContext(merged)
      /\ mixed' = mixed \cup ConditionalMixes(then, Top)
      /\ UNCHANGED <<exported, aborted, stmts>>
  BY DEF ConditionalEnd, then
<1> HIDE DEF merged
<1>6. /\ contextStack' \in Seq(Context) /\ Len(contextStack') = Inner.base
      /\ \A k \in 1..Len(contextStack') : contextStack'[k] = contextStack[k]
  BY SMTT(30), <1>2, <1>5 DEF IInv, Core, Front
<1>7. Core'
  BY <1>1, <1>2, <1>4, <1>5, <1>6, CloseContextKeepsCore DEF IInv
<1>8. mixed' \subseteq Var
  BY <1>5 DEF IInv, Outcome, ConditionalMixes, MixedOuts, Outs
<1>9. QED BY <1>5, <1>7, <1>8 DEF IInv, Outcome

(* Splitting a stack of contexts at an index.                              *)
LEMMA StackPrefix ==
  ASSUME NEW q \in Seq(Context), NEW n \in Nat, n <= Len(q)
  PROVE  /\ SubSeq(q, 1, n) \in Seq(Context) /\ Len(SubSeq(q, 1, n)) = n
         /\ \A k \in 1..n : SubSeq(q, 1, n)[k] = q[k]
<1>1. \A i \in 1..n : q[i] \in Context
  OBVIOUS
<1>2. /\ SubSeq(q, 1, n) \in Seq(Context)
      /\ Len(SubSeq(q, 1, n)) = IF 1 <= n THEN n - 1 + 1 ELSE 0
      /\ \A i \in 1..n - 1 + 1 : SubSeq(q, 1, n)[i] = q[1 + i - 1]
  BY <1>1, SubSeqProperties
<1>3. QED BY <1>2

LEMMA StackSuffix ==
  ASSUME NEW q \in Seq(Context), NEW n \in Nat, n <= Len(q)
  PROVE  /\ SubSeq(q, n + 1, Len(q)) \in Seq(Context)
         /\ Len(SubSeq(q, n + 1, Len(q))) = Len(q) - n
<1>1. \A i \in n + 1..Len(q) : q[i] \in Context
  OBVIOUS
<1>2. /\ SubSeq(q, n + 1, Len(q)) \in Seq(Context)
      /\ Len(SubSeq(q, n + 1, Len(q))) =
           IF n + 1 <= Len(q) THEN Len(q) - (n + 1) + 1 ELSE 0
  BY <1>1, SubSeqProperties
<1>3. QED BY <1>2

(* Both ways to end a case: an explicit default was the last branch, or    *)
(* an empty one is added.                                                  *)
LEMMA EndCaseStep ==
  ASSUME IInv, frames # <<>>, NEW last \in Seq(Context), NEW full \in BOOLEAN,
         \A k \in 1..Len(last) : Good(last[k]),
         Parked(Inner) + Len(last) = Len(Inner.labels) + 1,
         Parked(Inner) \in Nat,
         EndCase(last, full)
  PROVE  IInv'
<1> DEFINE own == SubSeq(contextStack, Inner.base + 1, Len(contextStack))
           branches == own \o last
<1>1. /\ Inner.base \in Nat /\ Inner.labels \in Seq(LabelList) /\ Good(Parent)
      /\ Inner.base + Parked(Inner) = Len(contextStack)
  BY InnerGood DEF IInv
<1>2. Len(contextStack) \in Nat /\ contextStack \in Seq(Context)
  BY DEF IInv, Core
<1>3. own \in Seq(Context) /\ Len(own) = Parked(Inner)
  <2>1. Inner.base <= Len(contextStack) /\ Len(contextStack) - Inner.base = Parked(Inner)
    BY <1>1, <1>2
  <2>2. own \in Seq(Context) /\ Len(own) = Len(contextStack) - Inner.base
    BY <1>1, <1>2, <2>1, StackSuffix
  <2>3. QED BY <2>1, <2>2
<1> HIDE DEF own
<1>4. branches \in Seq(Context) /\ Len(branches) = Len(Inner.labels) + 1
  BY <1>3
<1> HIDE DEF branches
<1>5. EndCase(last, full) <=>
        \/ /\ Asserts => CaseAssertion(branches)
           /\ \E other \in IF full THEN Val ELSE {CHOOSE x \in Val : TRUE} :
                CloseContext(MergeCase(Parent, Inner.sel, Inner.labels, branches, full, other))
           /\ contextStack' = SubSeq(contextStack, 1, Inner.base)
           /\ UNCHANGED <<exported, mixed, aborted, stmts>>
        \/ /\ Asserts /\ ~CaseAssertion(branches)
           /\ aborted' = TRUE
           /\ UNCHANGED <<contexts, contextStack, frames, room, exported, mixed, stmts>>
  BY DEF EndCase, ReleaseBranches, branches, own
<1>6. CASE aborted' = TRUE /\ UNCHANGED <<contexts, contextStack, frames, room, exported, mixed, stmts>>
  <2>1. Core'
    BY <1>6 DEF IInv, Core, StackDiscipline, Parked, Good, Outs, Context, Slot, FrameGood
  <2>2. Outcome'
    BY <1>6 DEF IInv, Outcome
  <2>3. QED BY <2>1, <2>2 DEF IInv
<1>7. ASSUME NEW other \in IF full THEN Val ELSE {CHOOSE x \in Val : TRUE},
             CloseContext(MergeCase(Parent, Inner.sel, Inner.labels, branches, full, other)),
             contextStack' = SubSeq(contextStack, 1, Inner.base),
             UNCHANGED <<exported, mixed, aborted, stmts>>
      PROVE  IInv'
  <2> DEFINE merged == MergeCase(Parent, Inner.sel, Inner.labels, branches, full, other)
  <2>1. Good(merged)
    BY <1>1, <1>4, <1>7, MergeCaseGood
  <2> HIDE DEF merged
  <2>2. CloseContext(merged)
    BY <1>7 DEF merged
  <2>3. Inner.base <= Len(contextStack)
    BY <1>1, <1>2
  <2>4. /\ contextStack' \in Seq(Context) /\ Len(contextStack') = Inner.base
        /\ \A k \in 1..Len(contextStack') : contextStack'[k] = contextStack[k]
    BY <1>1, <1>2, <1>7, <2>3, StackPrefix
  <2>5. Core'
    BY <2>1, <2>2, <2>3, <2>4, CloseContextKeepsCore DEF IInv
  <2>6. QED BY <1>7, <2>5 DEF IInv, Outcome
<1>8. QED BY <1>5, <1>6, <1>7

LEMMA CaseEndAfterDefaultStep ==
  ASSUME IInv, CaseEndAfterDefault
  PROVE  IInv'
<1>1. frames # <<>> /\ Inner.kind = "default" /\ EndCase(<<Top>>, FALSE)
  BY DEF CaseEndAfterDefault, In
<1>2. Parked(Inner) = Len(Inner.labels) /\ Len(Inner.labels) \in Nat
  BY <1>1, InnerGood DEF Parked, IInv
<1>3. /\ <<Top>> \in Seq(Context) /\ Len(<<Top>>) = 1
      /\ \A k \in 1..Len(<<Top>>) : Good(<<Top>>[k])
  BY TopGood DEF IInv
<1>4. QED BY <1>1, <1>2, <1>3, EndCaseStep

LEMMA CaseEndNoDefaultStep ==
  ASSUME IInv, CaseEndNoDefault
  PROVE  IInv'
<1> DEFINE last == <<Top, Child(Parent)>>
           full == Inner.full
<1>1. frames # <<>> /\ Inner.kind = "case" /\ EndCase(last, full)
  BY DEF CaseEndNoDefault, In
<1>2. Parked(Inner) = Len(Inner.labels) - 1 /\ Len(Inner.labels) \in Nat
      /\ Len(Inner.labels) >= 1
  BY <1>1, InnerGood DEF Parked, IInv, FrameGood
<1>3. Good(Top) /\ Good(Child(Parent))
  BY <1>1, InnerGood, TopGood, ChildGood DEF IInv
<1>4. last \in Seq(Context) /\ Len(last) = 2 /\ \A k \in 1..Len(last) : Good(last[k])
  BY <1>3 DEF Good
<1> HIDE DEF last
<1>5. Parked(Inner) + Len(last) = Len(Inner.labels) + 1 /\ Parked(Inner) \in Nat
  BY <1>2, <1>4
<1>6. full \in BOOLEAN
  BY <1>1, InnerGood DEF IInv, FrameType
<1> HIDE DEF full
<1>7. QED BY <1>1, <1>4, <1>5, <1>6, EndCaseStep

LEMMA BlockEndStep ==
  ASSUME IInv, BlockEnd
  PROVE  IInv'
<1> DEFINE merged == MergeContext(Parent, Top)
<1>1. frames # <<>> /\ Inner.kind = "block"
  BY DEF BlockEnd, In
<1>2. Inner.base = Len(contextStack) /\ Good(Parent) /\ Good(Top)
  BY <1>1, InnerGood, TopGood DEF IInv, Parked
<1>3. Good(merged)
  BY <1>2, MergeContextGood
<1> HIDE DEF merged
<1>4. /\ CloseContext(merged) /\ mixed' = mixed \cup MixedOuts(Top)
      /\ UNCHANGED <<contextStack, exported, aborted, stmts>>
  BY DEF BlockEnd, merged
<1>5. contextStack' \in Seq(Context) /\ Len(contextStack) \in Nat
  BY <1>4 DEF IInv, Core
<1>6. Core'
  BY <1>1, <1>2, <1>3, <1>4, <1>5, CloseContextKeepsCore DEF IInv
<1>7. mixed' \subseteq Var
  BY <1>4 DEF IInv, Outcome, MixedOuts, Outs
<1>8. QED BY <1>4, <1>6, <1>7 DEF IInv, Outcome

LEMMA ForLoopUnrollStep ==
  ASSUME IInv, ForLoopUnroll
  PROVE  IInv'
<1>1. /\ room' = [room EXCEPT ![Len(room)] = "many"]
      /\ UNCHANGED <<contexts, contextStack, frames, exported, mixed, aborted>>
      /\ stmts' = stmts + 1 /\ stmts < MaxStmts
  BY DEF ForLoopUnroll, CanVisit
<1>2. room' \in Seq(Space) /\ Len(room') = Len(room)
  BY <1>1 DEF IInv, Core, Space
<1>3. contexts' = [contexts EXCEPT ![Len(contexts)] = Top]
  BY <1>1, TopGood DEF IInv, Core, Top
<1>4. Core'
  BY <1>1, <1>2, <1>3, TopGood, ReplaceTopKeepsCore DEF IInv
<1>5. Outcome'
  BY <1>1, BoundsAreNatural DEF IInv, Outcome
<1>6. QED BY <1>4, <1>5 DEF IInv

LEMMA FinishStep ==
  ASSUME IInv, Finish
  PROVE  IInv'
<1>1. /\ exported' = [v \in Var |-> IF v \in Outs(Top) THEN Top.outs[v].id ELSE None]
      /\ mixed' = mixed \cup MixedOuts(Top)
      /\ UNCHANGED <<contexts, contextStack, frames, room, aborted, stmts>>
  BY DEF Finish
<1>2. Core'
  BY <1>1 DEF IInv, Core, StackDiscipline, Parked, Good, Outs, Context, Slot, FrameGood
<1>3. \A v \in Outs(Top) : Top.outs[v].id \in Expr
  BY TopGood, SlotOfOut DEF IInv, Slot
<1>4. exported' \in [Var -> Expr \cup {None}]
  BY <1>1, <1>3
<1>5. mixed' \subseteq Var
  BY <1>1 DEF IInv, Outcome, MixedOuts, Outs
<1>6. QED BY <1>1, <1>2, <1>4, <1>5 DEF IInv, Outcome

LEMMA StutterStep ==
  ASSUME IInv, UNCHANGED vars
  PROVE  IInv'
<1>1. Core'
  BY DEF vars, IInv, Core, StackDiscipline, Parked, Good, Outs, Context, Slot, FrameGood
<1>2. Outcome'
  BY DEF vars, IInv, Outcome
<1>3. QED BY <1>1, <1>2 DEF IInv

LEMMA NextKeepsIInv ==
  ASSUME IInv, [Next]_vars
  PROVE  IInv'
<1>1. CASE \E a \in Assigns : Assignment(a)
  BY <1>1, AssignmentStep
<1>2. CASE \E d \in Decls : VariableDecl(d)
  BY <1>2, VariableDeclStep
<1>3. CASE \E c \in Tests : Conditional(c)
  BY <1>3, ConditionalStep
<1>4. CASE ConditionalElse
  BY <1>4, ConditionalElseStep
<1>5. CASE ConditionalEnd
  BY <1>5, ConditionalEndStep
<1>6. CASE \E f \in Selectors, g \in Labels, full \in FullCases : CaseItem(f, g, full)
  BY <1>6, CaseItemStep
<1>7. CASE \E f \in Selectors : CaseWithoutItems(f)
  BY <1>7, CaseWithoutItemsStep
<1>8. CASE \E g \in Labels : CaseNextItem(g)
  BY <1>8, CaseNextItemStep
<1>9. CASE CaseDefault
  BY <1>9, CaseDefaultStep
<1>10. CASE CaseEndAfterDefault
  BY <1>10, CaseEndAfterDefaultStep
<1>11. CASE CaseEndNoDefault
  BY <1>11, CaseEndNoDefaultStep
<1>12. CASE BlockStatement
  BY <1>12, BlockStatementStep
<1>13. CASE BlockEnd
  BY <1>13, BlockEndStep
<1>14. CASE ForLoopUnroll
  BY <1>14, ForLoopUnrollStep
<1>15. CASE Finish
  BY <1>15, FinishStep
<1>16. CASE Stopped
  BY <1>16, StutterStep DEF Stopped
<1>17. CASE UNCHANGED vars
  BY <1>17, StutterStep
<1>18. QED
  BY <1>1, <1>2, <1>3, <1>4, <1>5, <1>6, <1>7, <1>8, <1>9, <1>10, <1>11, <1>12,
     <1>13, <1>14, <1>15, <1>16, <1>17 DEF Next, Structure

-----------------------------------------------------------------------------
(* What a step does to the stacks, element by element.                     *)

LEMMA Depths ==
  ASSUME Core
  PROVE  /\ Len(frames) \in Nat
         /\ Len(contexts) = Len(frames) + 1 /\ Len(room) = Len(frames) + 1
         /\ Len(contextStack) \in Nat
         /\ Top = contexts[Len(frames) + 1]
         /\ DOMAIN contexts = 1..Len(frames) + 1
         /\ DOMAIN contextStack = 1..Len(contextStack)
         /\ frames # <<>> => /\ Len(frames) >= 1
                             /\ Parent = contexts[Len(frames)] /\ Inner = frames[Len(frames)]
BY DEF Core, Top, Parent, Inner

(* A statement that stays in its context changes the innermost one only.   *)
LEMMA ReplaceShape ==
  ASSUME Core, NEW ctx, contexts' = [contexts EXCEPT ![Len(contexts)] = ctx]
  PROVE  /\ Len(contexts') = Len(frames) + 1
         /\ \A k \in 1..Len(frames) + 1 :
              contexts'[k] = IF k = Len(frames) + 1 THEN ctx ELSE contexts[k]
BY DEF Core

LEMMA VisitedShape ==
  ASSUME Core, room[Len(room)] # "full"
  PROVE  /\ Len(Visited) = Len(frames) + 1
         /\ \A k \in 1..Len(frames) + 1 :
              Visited[k] = IF k = Len(frames) + 1 /\ room[k] = "one" THEN "full" ELSE room[k]
BY DEF Core, Visited

LEMMA OpenShape ==
  ASSUME Core, NEW frame, NEW space \in Space, OpenContext(frame, space),
         room[Len(room)] # "full"
  PROVE  /\ Len(contexts') = Len(frames) + 2 /\ Len(frames') = Len(frames) + 1
         /\ \A k \in 1..Len(frames) + 2 :
              contexts'[k] = IF k = Len(frames) + 2 THEN Child(Top) ELSE contexts[k]
         /\ \A k \in 1..Len(frames) + 1 :
              frames'[k] = IF k = Len(frames) + 1 THEN frame ELSE frames[k]
         /\ \A k \in 1..Len(frames) + 2 :
              room'[k] = IF k = Len(frames) + 2 THEN space
                         ELSE IF k = Len(frames) + 1 /\ room[k] = "one" THEN "full" ELSE room[k]
<1>1. /\ contexts' = Append(contexts, Child(Top))
      /\ frames' = Append(frames, frame)
      /\ room' = Append(Visited, space)
  BY DEF OpenContext
<1>2. Visited \in Seq(Space)
  BY VisitedType
<1>3. QED BY SMTT(20), <1>1, <1>2, VisitedShape, Depths DEF Core

LEMMA BranchShape ==
  ASSUME Core, frames # <<>>, NEW frame, NextBranch(frame)
  PROVE  /\ Len(contexts') = Len(frames) + 1 /\ Len(frames') = Len(frames)
         /\ Len(contextStack') = Len(contextStack) + 1
         /\ \A k \in 1..Len(frames) + 1 :
              contexts'[k] = IF k = Len(frames) + 1 THEN Child(Parent) ELSE contexts[k]
         /\ \A k \in 1..Len(frames) :
              frames'[k] = IF k = Len(frames) THEN frame ELSE frames[k]
         /\ \A k \in 1..Len(contextStack) + 1 :
              contextStack'[k] = IF k = Len(contextStack) + 1 THEN Top ELSE contextStack[k]
         /\ \A k \in 1..Len(frames) + 1 :
              room'[k] = IF k = Len(frames) + 1 THEN "one" ELSE room[k]
BY Depths DEF Core, NextBranch, Parent

LEMMA CloseShape ==
  ASSUME Core, frames # <<>>, NEW ctx, CloseContext(ctx)
  PROVE  /\ Len(contexts') = Len(frames) /\ Len(frames') = Len(frames) - 1
         /\ \A k \in 1..Len(frames) :
              contexts'[k] = IF k = Len(frames) THEN ctx ELSE contexts[k]
         /\ \A k \in 1..Len(frames) - 1 : frames'[k] = frames[k]
         /\ \A k \in 1..Len(frames) : room'[k] = room[k]
<1> DEFINE n == Len(frames)
<1>1. n \in Nat /\ n >= 1 /\ Len(contexts) = n + 1 /\ Len(room) = n + 1
  BY DEF Core
<1>2. /\ contexts' = [SubSeq(contexts, 1, n) EXCEPT ![n] = ctx]
      /\ frames' = SubSeq(frames, 1, n - 1)
      /\ room' = SubSeq(room, 1, n)
  BY <1>1 DEF CloseContext, Front
<1> HIDE DEF n
<1>3. /\ Len(SubSeq(contexts, 1, n)) = n
      /\ \A k \in 1..n : SubSeq(contexts, 1, n)[k] = contexts[k]
      /\ SubSeq(contexts, 1, n) \in Seq(Context)
  BY <1>1 DEF Core
<1>4. /\ Len(frames') = n - 1 /\ \A k \in 1..n - 1 : frames'[k] = frames[k]
  <2>1. \A j \in 1..n - 1 : frames[j] \in FrameType
    BY <1>1 DEF Core, n
  <2>2. 1 \in Int /\ n - 1 \in Int
    BY <1>1
  <2>3. /\ Len(SubSeq(frames, 1, n - 1)) = IF 1 <= n - 1 THEN n - 1 - 1 + 1 ELSE 0
        /\ \A j \in 1..n - 1 - 1 + 1 : SubSeq(frames, 1, n - 1)[j] = frames[1 + j - 1]
    BY <2>1, <2>2, SubSeqProperties
  <2>4. QED BY <1>1, <1>2, <2>3
<1>5. \A k \in 1..n : room'[k] = room[k]
  BY <1>1, <1>2 DEF Core
<1>6. /\ Len(contexts') = n
      /\ \A k \in 1..n : contexts'[k] = IF k = n THEN ctx ELSE contexts[k]
  <2> DEFINE below == SubSeq(contexts, 1, n)
  <2>1. below \in Seq(Context) /\ Len(below) = n /\ \A k \in 1..n : below[k] = contexts[k]
    BY <1>3
  <2>2. contexts' = [below EXCEPT ![n] = ctx]
    BY <1>2
  <2> HIDE DEF below
  <2>3. DOMAIN below = 1..n
    BY <2>1
  <2>4. DOMAIN contexts' = 1..n /\ contexts' = [k \in 1..n |-> IF k = n THEN ctx ELSE below[k]]
    BY <2>2, <2>3
  <2>5. Len(contexts') = n
    BY <1>1, <2>4
  <2>6. QED BY <2>1, <2>4, <2>5
<1>7. QED BY <1>1, <1>4, <1>5, <1>6 DEF n

-----------------------------------------------------------------------------
(* The flags a context keeps of the assignments to a name.                 *)

Flags(ctx, v) == IF ctx.outs[v] = None THEN {} ELSE ctx.outs[v].seen

(* new is ctx after one more output of every name of names, nonblocking    *)
(* where nb says so: only blocking outputs change what a name stands for.  *)
Transferred(new, ctx, names, nb) ==
  /\ new \in Context
  /\ new.locals = ctx.locals
  /\ Outs(new) = Outs(ctx) \cup names
  /\ \A v \in names : /\ new.outs[v].last = nb[v]
                      /\ new.outs[v].seen = {nb[v]} \cup Flags(ctx, v)
  /\ \A v \in Var \ names : new.outs[v] = ctx.outs[v] /\ new.sched[v] = ctx.sched[v]
  /\ \A v \in Var : (v \in names => nb[v]) => new.cur[v] = ctx.cur[v]

LEMMA AddOutputFields ==
  ASSUME NEW ctx \in Context, NEW v \in Var, NEW nb \in BOOLEAN, NEW id \in Expr
  PROVE  /\ AddOutput(ctx.outs[v], nb, id) \in Slot
         /\ AddOutput(ctx.outs[v], nb, id) # None
         /\ AddOutput(ctx.outs[v], nb, id).last = nb
         /\ AddOutput(ctx.outs[v], nb, id).id = id
         /\ AddOutput(ctx.outs[v], nb, id).seen = {nb} \cup Flags(ctx, v)
<1>1. AddOutput(ctx.outs[v], nb, id) \in Slot
  BY DEF AddOutput, Slot, Context
<1>2. QED BY <1>1, NoneIsNothing DEF AddOutput, Flags

LEMMA TransferTransfers ==
  ASSUME NEW ctx, Good(ctx), NEW names \in SUBSET Var,
         NEW id \in [names -> Expr], NEW nb \in [names -> BOOLEAN]
  PROVE  Transferred(Transfer(ctx, names, id, nb), ctx, names, nb)
<1> DEFINE new == Transfer(ctx, names, id, nb)
<1>1. new \in Context /\ ctx \in Context
  BY TransferGood DEF Good
<1>2. /\ new.locals = ctx.locals
      /\ \A v \in names : new.outs[v] = AddOutput(ctx.outs[v], nb[v], id[v])
      /\ \A v \in Var \ names : new.outs[v] = ctx.outs[v] /\ new.sched[v] = ctx.sched[v]
      /\ \A v \in Var : (v \in names => nb[v]) => new.cur[v] = ctx.cur[v]
  BY <1>1 DEF Transfer, Context
<1>3. \A v \in names : /\ new.outs[v] # None
                       /\ new.outs[v].last = nb[v]
                       /\ new.outs[v].seen = {nb[v]} \cup Flags(ctx, v)
  <2> TAKE v \in names
  <2>1. v \in Var /\ nb[v] \in BOOLEAN /\ id[v] \in Expr
    OBVIOUS
  <2>2. new.outs[v] = AddOutput(ctx.outs[v], nb[v], id[v])
    BY <1>2
  <2> HIDE DEF new
  <2>3. QED BY <1>1, <2>1, <2>2, AddOutputFields
<1> HIDE DEF new
<1>4. Outs(new) = Outs(ctx) \cup names
  BY <1>2, <1>3 DEF Outs
<1>5. QED BY <1>1, <1>2, <1>3, <1>4 DEF Transferred, new

(* Flags of the names a merge hands on.                                    *)
BlockFlags(child) == [v \in Outs(child) \ child.locals |-> LastNb(child.outs[v])]

NbIn(branch, v) == v \in Outs(branch) /\ LastNb(branch.outs[v])

ConditionalFlags(then, else) ==
  [v \in Outs(then) \cup Outs(else) |-> NbIn(then, v) \/ NbIn(else, v)]

CaseFlags(branches) == [v \in BranchOuts(branches) |-> CaseFlag(branches, v)]

LEMMA MergeContextTransfers ==
  ASSUME NEW parent, Good(parent), NEW child, Good(child)
  PROVE  Transferred(MergeContext(parent, child), parent,
                     Outs(child) \ child.locals, BlockFlags(child))
<1> DEFINE names == Outs(child) \ child.locals
           id == [v \in names |-> child.outs[v].id]
           nb == [v \in names |-> LastNb(child.outs[v])]
<1>1. names \in SUBSET Var
  BY DEF Outs
<1>2. id \in [names -> Expr] /\ nb \in [names -> BOOLEAN]
  BY SlotOfOut DEF Good, Slot, LastNb
<1> HIDE DEF names, id, nb
<1>3. Transferred(Transfer(parent, names, id, nb), parent, names, nb)
  BY <1>1, <1>2, TransferTransfers
<1>4. QED BY <1>3 DEF MergeContext, BlockFlags, names, id, nb

LEMMA MergeConditionalTransfers ==
  ASSUME NEW parent, Good(parent), NEW then, Good(then), NEW else, Good(else),
         NEW cond \in [Sigma -> BOOLEAN]
  PROVE  Transferred(MergeConditional(parent, cond, then, else), parent,
                     Outs(then) \cup Outs(else), ConditionalFlags(then, else))
<1> DEFINE names == Outs(then) \cup Outs(else)
           id == [v \in names |-> CreateMux(cond, BranchValue(parent, then, v),
                                                  BranchValue(parent, else, v))]
           nb == ConditionalFlags(then, else)
<1>1. names \in SUBSET Var
  BY DEF Outs
<1>2. \A v \in names : CreateMux(cond, BranchValue(parent, then, v),
                                       BranchValue(parent, else, v)) \in Expr
  <2> TAKE v \in names
  <2>1. /\ BranchValue(parent, then, v) \in [Sigma -> Val]
        /\ BranchValue(parent, else, v) \in [Sigma -> Val]
    BY <1>1, BranchValueType DEF Good, Expr
  <2>2. QED BY <2>1 DEF CreateMux, Expr
<1>3. id \in [names -> Expr] /\ nb \in [names -> BOOLEAN]
  BY <1>2 DEF ConditionalFlags, NbIn, LastNb
<1>4. MergeConditional(parent, cond, then, else) = Transfer(parent, names, id, nb)
  BY DEF MergeConditional, ConditionalFlags, NbIn
<1> HIDE DEF names, id, nb
<1>5. Transferred(Transfer(parent, names, id, nb), parent, names, nb)
  BY <1>1, <1>3, TransferTransfers
<1>6. QED BY <1>4, <1>5 DEF names, nb

LEMMA MergeCaseTransfers ==
  ASSUME NEW parent, Good(parent), NEW branches \in Seq(Context),
         NEW sel, NEW labels \in Seq(LabelList), Len(branches) = Len(labels) + 1,
         NEW full \in BOOLEAN, NEW other, full => other \in Val
  PROVE  Transferred(MergeCase(parent, sel, labels, branches, full, other), parent,
                     BranchOuts(branches), CaseFlags(branches))
<1> DEFINE names == BranchOuts(branches)
           data(v) == [k \in DOMAIN branches |-> BranchValue(parent, branches[k], v)]
           id == [v \in names |-> CreateCase(sel, labels, data(v), full, other)]
           nb == CaseFlags(branches)
<1>1. names \in SUBSET Var
  BY WritersProperties
<1>2. \A v \in names : CreateCase(sel, labels, data(v), full, other) \in Expr
  <2> TAKE v \in names
  <2>1. \A k \in 1..Len(branches) : BranchValue(parent, branches[k], v) \in Expr
    BY <1>1, BranchValueType DEF Good
  <2>2. data(v) \in [1..Len(branches) -> Expr] /\ Len(branches) \in Nat
    BY <2>1
  <2> HIDE DEF data
  <2>3. QED BY <2>2, CreateCaseType
<1>3. id \in [names -> Expr] /\ nb \in [names -> BOOLEAN]
  BY <1>2, CaseFlagType DEF CaseFlags
<1>4. MergeCase(parent, sel, labels, branches, full, other) = Transfer(parent, names, id, nb)
  BY DEF MergeCase, CaseFlags
<1> HIDE DEF names, id, nb
<1>5. Transferred(Transfer(parent, names, id, nb), parent, names, nb)
  BY <1>1, <1>3, TransferTransfers
<1>6. QED BY <1>4, <1>5 DEF names, nb

LEMMA RecordTransfers ==
  ASSUME NEW ctx, Good(ctx), NEW v \in Var, NEW nb \in BOOLEAN, NEW id \in Expr
  PROVE  /\ Good(Record(ctx, v, nb, id))
         /\ Record(ctx, v, nb, id).locals = ctx.locals
         /\ Outs(Record(ctx, v, nb, id)) = Outs(ctx) \cup {v}
         /\ Record(ctx, v, nb, id).outs[v].last = nb
         /\ Record(ctx, v, nb, id).outs[v].seen = {nb} \cup Flags(ctx, v)
         /\ Record(ctx, v, nb, id).cur[v] = id /\ Record(ctx, v, nb, id).sched[v] = id
         /\ \A w \in Var \ {v} : /\ Record(ctx, v, nb, id).outs[w] = ctx.outs[w]
                                 /\ Record(ctx, v, nb, id).sched[w] = ctx.sched[w]
                                 /\ Record(ctx, v, nb, id).cur[w] = ctx.cur[w]
<1> DEFINE new == Record(ctx, v, nb, id)
<1>1. Good(new) /\ ctx \in Context
  BY RecordGood DEF Good
<1>2. /\ new.locals = ctx.locals
      /\ new.outs[v] = AddOutput(ctx.outs[v], nb, id)
      /\ new.cur[v] = id /\ new.sched[v] = id
      /\ \A w \in Var \ {v} : /\ new.outs[w] = ctx.outs[w] /\ new.sched[w] = ctx.sched[w]
                              /\ new.cur[w] = ctx.cur[w]
  BY <1>1 DEF Record, Context
<1>3. /\ new.outs[v] # None
      /\ new.outs[v].last = nb
      /\ new.outs[v].seen = {nb} \cup Flags(ctx, v)
  BY <1>1, <1>2, AddOutputFields
<1> HIDE DEF new
<1>4. Outs(new) = Outs(ctx) \cup {v}
  BY <1>2, <1>3 DEF Outs
<1>5. QED BY <1>1, <1>2, <1>3, <1>4 DEF new

(* The value RecordTarget records is an expression.                        *)
TargetValue(ctx, t, rhs) ==
  LET view == ScheduledView(ctx, t.var)
  IN  IF t.idx = None THEN rhs
      ELSE MaskedAssign(Current(view, t.var), rhs, BuildExpr(t.idx, view))

LEMMA TargetValueType ==
  ASSUME NEW ctx \in Context, NEW t \in Target, NEW rhs \in Expr
  PROVE  TargetValue(ctx, t, rhs) \in Expr
<1> DEFINE view == ScheduledView(ctx, t.var)
<1>1. t.var \in Var /\ (t.idx # None => t.idx \in [Store -> Val])
  BY DEF Target
<1>2. view \in Context
  BY <1>1 DEF ScheduledView, Context
<1>3. Current(view, t.var) \in Expr /\ (t.idx # None => BuildExpr(t.idx, view) \in Expr)
  BY <1>1, <1>2, CurrentType, BuildExprType
<1> HIDE DEF view
<1>4. QED BY <1>3, MaskedAssignType DEF TargetValue, view

(* A statement has one or two targets.                                     *)
LEMMA TargetsOf ==
  ASSUME NEW a \in Assigns
  PROVE  /\ a.nb \in BOOLEAN /\ Len(a.lhs) \in {1, 2}
         /\ a.lhs[1] \in Target /\ a.lhs[1].var \in Var
         /\ Len(a.lhs) = 1 => Targets(a) = {a.lhs[1].var}
         /\ Len(a.lhs) = 2 => /\ a.lhs[2] \in Target /\ a.lhs[2].var \in Var
                              /\ Targets(a) = {a.lhs[1].var, a.lhs[2].var}
         /\ Targets(a) \in SUBSET Var
<1>1. a.nb \in BOOLEAN /\ a.lhs \in Seq(Target) /\ Len(a.lhs) \in {1, 2}
  BY AssignsAreOneOrTwoTargets
<1>2. DOMAIN a.lhs = 1..Len(a.lhs) /\ \A k \in DOMAIN a.lhs : a.lhs[k] \in Target
  BY <1>1
<1>3. \A k \in DOMAIN a.lhs : a.lhs[k].var \in Var
  BY <1>2 DEF Target
<1>4. CASE Len(a.lhs) = 1
  <2>1. DOMAIN a.lhs = {1}
    BY <1>2, <1>4
  <2>2. QED BY <1>1, <1>2, <1>3, <1>4, <2>1 DEF Targets
<1>5. CASE Len(a.lhs) = 2
  <2>1. DOMAIN a.lhs = {1, 2}
    BY <1>2, <1>5
  <2>2. QED BY <1>1, <1>2, <1>3, <1>5, <2>1 DEF Targets
<1>6. QED BY <1>1, <1>4, <1>5

Restored(ctx, a) ==
  IF a.nb THEN [RecordTargets(ctx, a) EXCEPT !.cur = ctx.cur] ELSE RecordTargets(ctx, a)

(* An assignment statement is one more output of each of its targets.      *)
LEMMA AssignmentTransfers ==
  ASSUME NEW ctx, Good(ctx), NEW a \in Assigns
  PROVE  Transferred(Restored(ctx, a), ctx, Targets(a), [v \in Targets(a) |-> a.nb])
<1> DEFINE rhs(k) == BuildExpr(a.lhs[k].rhs, ctx)
           id1 == TargetValue(ctx, a.lhs[1], rhs(1))
           first == Record(ctx, a.lhs[1].var, a.nb, id1)
           id2 == TargetValue(first, a.lhs[2], rhs(2))
           second == Record(first, a.lhs[2].var, a.nb, id2)
           written == RecordTargets(ctx, a)
<1>1. ctx \in Context
  BY DEF Good
<1>2. rhs(1) \in Expr /\ (Len(a.lhs) = 2 => rhs(2) \in Expr)
  BY <1>1, TargetsOf, BuildExprType DEF Target
<1>3. id1 \in Expr
  BY <1>1, <1>2, TargetsOf, TargetValueType
<1>4. written = IF Len(a.lhs) = 1 THEN first ELSE second
  BY DEF RecordTargets, RecordTarget, TargetValue
<1> HIDE DEF rhs, id1
<1>5. Good(first)
  BY <1>3, TargetsOf, RecordTransfers
<1>6. /\ first.locals = ctx.locals
      /\ Outs(first) = Outs(ctx) \cup {a.lhs[1].var}
      /\ first.outs[a.lhs[1].var].last = a.nb
      /\ first.outs[a.lhs[1].var].seen = {a.nb} \cup Flags(ctx, a.lhs[1].var)
      /\ \A w \in Var \ {a.lhs[1].var} : /\ first.outs[w] = ctx.outs[w]
                                         /\ first.sched[w] = ctx.sched[w]
                                         /\ first.cur[w] = ctx.cur[w]
  BY <1>3, TargetsOf, RecordTransfers
<1> HIDE DEF first
<1>7. Len(a.lhs) = 2 => id2 \in Expr
  BY <1>2, <1>5, TargetsOf, TargetValueType DEF Good
<1> HIDE DEF id2
<1>8. Len(a.lhs) = 2 =>
        /\ Good(second)
        /\ second.locals = first.locals
        /\ Outs(second) = Outs(first) \cup {a.lhs[2].var}
        /\ second.outs[a.lhs[2].var].last = a.nb
        /\ second.outs[a.lhs[2].var].seen = {a.nb} \cup Flags(first, a.lhs[2].var)
        /\ \A w \in Var \ {a.lhs[2].var} : /\ second.outs[w] = first.outs[w]
                                           /\ second.sched[w] = first.sched[w]
                                           /\ second.cur[w] = first.cur[w]
  BY <1>5, <1>7, TargetsOf, RecordTransfers
<1> HIDE DEF second
<1>9. /\ Good(written)
      /\ written.locals = ctx.locals
      /\ Outs(written) = Outs(ctx) \cup Targets(a)
      /\ \A v \in Targets(a) : /\ written.outs[v].last = a.nb
                               /\ written.outs[v].seen = {a.nb} \cup Flags(ctx, v)
      /\ \A w \in Var \ Targets(a) : /\ written.outs[w] = ctx.outs[w]
                                     /\ written.sched[w] = ctx.sched[w]
                                     /\ written.cur[w] = ctx.cur[w]
  <2>1. CASE Len(a.lhs) = 1
    BY SMTT(30), <1>4, <1>5, <1>6, <2>1, TargetsOf
  <2>2. CASE Len(a.lhs) = 2
    <3> DEFINE v1 == a.lhs[1].var
               v2 == a.lhs[2].var
    <3>1. v1 \in Var /\ v2 \in Var /\ Targets(a) = {v1, v2} /\ written = second
      BY <1>4, <2>2, TargetsOf
    <3>2. Flags(first, v2) = IF v2 = v1 THEN {a.nb} \cup Flags(ctx, v1) ELSE Flags(ctx, v2)
      <4>1. v1 \in Outs(first)
        BY <1>6
      <4>2. QED BY <1>6, <3>1, <4>1 DEF Flags, Outs
    <3>3. /\ Good(second) /\ second.locals = first.locals
          /\ Outs(second) = Outs(first) \cup {v2}
          /\ second.outs[v2].last = a.nb
          /\ second.outs[v2].seen = {a.nb} \cup Flags(first, v2)
          /\ \A w \in Var \ {v2} : /\ second.outs[w] = first.outs[w]
                                   /\ second.sched[w] = first.sched[w]
                                   /\ second.cur[w] = first.cur[w]
      BY <1>8, <2>2
    <3>4. /\ first.locals = ctx.locals
          /\ Outs(first) = Outs(ctx) \cup {v1}
          /\ first.outs[v1].last = a.nb
          /\ first.outs[v1].seen = {a.nb} \cup Flags(ctx, v1)
          /\ \A w \in Var \ {v1} : /\ first.outs[w] = ctx.outs[w]
                                   /\ first.sched[w] = ctx.sched[w]
                                   /\ first.cur[w] = ctx.cur[w]
      BY <1>6
    <3> HIDE DEF v1, v2
    <3>5. /\ second.outs[v2].last = a.nb
          /\ second.outs[v2].seen = {a.nb} \cup Flags(ctx, v2)
      BY <3>2, <3>3
    <3>6. /\ second.outs[v1].last = a.nb
          /\ second.outs[v1].seen = {a.nb} \cup Flags(ctx, v1)
      <4>1. CASE v1 = v2
        BY <3>5, <4>1
      <4>2. CASE v1 # v2
        BY <3>1, <3>3, <3>4, <4>2
      <4>3. QED BY <4>1, <4>2
    <3>7. \A w \in Var \ {v1, v2} : /\ second.outs[w] = ctx.outs[w]
                                   /\ second.sched[w] = ctx.sched[w]
                                   /\ second.cur[w] = ctx.cur[w]
      BY <3>3, <3>4
    <3>8. Outs(second) = Outs(ctx) \cup {v1, v2}
      BY <3>3, <3>4
    <3>9. second.locals = ctx.locals /\ Good(second)
      BY <3>3, <3>4
    <3>10. QED BY <3>1, <3>5, <3>6, <3>7, <3>8, <3>9
  <2>3. QED BY <2>1, <2>2, TargetsOf
<1> HIDE DEF written
<1>10. Restored(ctx, a) = IF a.nb THEN [written EXCEPT !.cur = ctx.cur] ELSE written
  BY DEF Restored, written
<1>11. /\ Restored(ctx, a) \in Context
       /\ Restored(ctx, a).locals = written.locals
       /\ Restored(ctx, a).outs = written.outs
       /\ Restored(ctx, a).sched = written.sched
       /\ Restored(ctx, a).cur = IF a.nb THEN ctx.cur ELSE written.cur
  BY <1>1, <1>9, <1>10 DEF Good, Context
<1>12. Outs(Restored(ctx, a)) = Outs(written)
  BY <1>11 DEF Outs
<1>13. \A v \in Var : (v \in Targets(a) => a.nb) => Restored(ctx, a).cur[v] = ctx.cur[v]
  BY <1>9, <1>11
<1>14. QED
  BY <1>9, <1>11, <1>12, <1>13 DEF Transferred

(* So is the initialiser of a declared variable, which becomes a local of  *)
(* its block.                                                              *)
Declared(ctx, d) ==
  LET local == [ctx EXCEPT !.locals = @ \cup {d.var}]
  IN  IF d.init = None THEN local
      ELSE Record(local, d.var, FALSE, BuildExpr(d.init, local))

LEMMA DeclarationTransfers ==
  ASSUME NEW ctx, Good(ctx), NEW d \in Decls
  PROVE  LET local == [ctx EXCEPT !.locals = @ \cup {d.var}]
             names == IF d.init = None THEN {} ELSE {d.var}
         IN  /\ Transferred(Declared(ctx, d), local, names, [v \in names |-> FALSE])
             /\ local \in Context /\ local.locals = ctx.locals \cup {d.var}
             /\ local.outs = ctx.outs /\ local.cur = ctx.cur /\ local.sched = ctx.sched
<1> DEFINE local == [ctx EXCEPT !.locals = @ \cup {d.var}]
           names == IF d.init = None THEN {} ELSE {d.var}
<1>1. d.var \in Var /\ (d.init # None => d.init \in [Store -> Val])
  BY DeclsAreBlocking
<1>2. /\ local \in Context /\ local.locals = ctx.locals \cup {d.var}
      /\ local.outs = ctx.outs /\ local.cur = ctx.cur /\ local.sched = ctx.sched
  BY <1>1 DEF Good, Context
<1>3. Good(local)
  BY <1>2 DEF Good, Outs
<1>4. Declared(ctx, d) = IF d.init = None THEN local
                         ELSE Record(local, d.var, FALSE, BuildExpr(d.init, local))
  BY DEF Declared
<1>5. d.init # None => BuildExpr(d.init, local) \in Expr
  BY <1>1, <1>2, BuildExprType
<1> HIDE DEF local
<1>6. ASSUME d.init = None
      PROVE  Transferred(Declared(ctx, d), local, names, [v \in names |-> FALSE])
  <2>1. Declared(ctx, d) = local /\ names = {}
    BY <1>4, <1>6
  <2>2. Outs(local) = Outs(local) \cup {}
    OBVIOUS
  <2>3. Transferred(local, local, {}, [v \in {} |-> FALSE])
    BY <1>2, <2>2 DEF Transferred
  <2>4. QED BY <2>1, <2>3
<1>7. ASSUME d.init # None
      PROVE  Transferred(Declared(ctx, d), local, names, [v \in names |-> FALSE])
  <2> DEFINE no == FALSE
             init == BuildExpr(d.init, local)
             new == Record(local, d.var, no, init)
             nb == [v \in {d.var} |-> no]
  <2>1. Declared(ctx, d) = new /\ names = {d.var}
    BY <1>4, <1>7
  <2>2. init \in Expr /\ nb[d.var] = no /\ no \in BOOLEAN /\ ~no
    BY <1>5, <1>7
  <2> HIDE DEF init, nb, no
  <2>3. /\ Good(new) /\ new.locals = local.locals
        /\ Outs(new) = Outs(local) \cup {d.var}
        /\ new.outs[d.var].last = no
        /\ new.outs[d.var].seen = {no} \cup Flags(local, d.var)
        /\ \A w \in Var \ {d.var} : /\ new.outs[w] = local.outs[w]
                                    /\ new.sched[w] = local.sched[w]
                                    /\ new.cur[w] = local.cur[w]
    BY <1>1, <1>3, <2>2, RecordTransfers
  <2> HIDE DEF new
  <2>4. /\ \A v \in {d.var} : /\ new.outs[v].last = nb[v]
                              /\ new.outs[v].seen = {nb[v]} \cup Flags(local, v)
        /\ \A v \in Var : (v \in {d.var} => nb[v]) => new.cur[v] = local.cur[v]
    BY <2>2, <2>3
  <2>5. new \in Context
    BY <2>3 DEF Good
  <2>6. Transferred(new, local, {d.var}, nb)
    BY <2>3, <2>4, <2>5 DEF Transferred
  <2>7. QED BY <2>1, <2>6 DEF nb, no
<1>8. QED BY <1>2, <1>6, <1>7 DEF local, names

-----------------------------------------------------------------------------
(* What each kind of step does, in these terms.                            *)

(* Only the innermost context changes: by outputs of names, flagged nb.    *)
Stays(ctx, names, nb) ==
  /\ contexts' = [contexts EXCEPT ![Len(contexts)] = ctx]
  /\ UNCHANGED <<contextStack, frames, exported, aborted>>
  /\ Transferred([ctx EXCEPT !.locals = Top.locals], Top, names, nb)

LEMMA AssignmentEffect ==
  ASSUME IInv, NEW a \in Assigns, Assignment(a)
  PROVE  /\ Stays(Restored(Top, a), Targets(a), [v \in Targets(a) |-> a.nb])
         /\ Restored(Top, a).locals = Top.locals /\ Good(Restored(Top, a))
         /\ a.nb \in BOOLEAN /\ Targets(a) \subseteq Var
         /\ \A v \in Targets(a) \cap Local :
              \E k \in 1..Len(frames) + 1 : v \in contexts[k].locals
         /\ UNCHANGED mixed /\ room' = Visited /\ room[Len(room)] # "full"
<1> DEFINE new == Restored(Top, a)
<1>1. Good(Top)
  BY TopGood DEF IInv
<1>2. Transferred(new, Top, Targets(a), [v \in Targets(a) |-> a.nb])
  BY <1>1, AssignmentTransfers
<1>3. Good(new)
  <2>1. Good(RecordTargets(Top, a)) /\ Top \in Context
    BY <1>1, RecordTargetsGood DEF Good
  <2>2. QED BY <2>1, RestoreGood DEF Restored
<1>4. /\ contexts' = [contexts EXCEPT ![Len(contexts)] = new]
      /\ UNCHANGED <<contextStack, frames, exported, aborted, mixed>>
      /\ room' = Visited /\ room[Len(room)] # "full"
  BY DEF Assignment, Restored, CanVisit
<1>5. \A v \in Targets(a) \cap Local : \E k \in 1..Len(frames) + 1 : v \in contexts[k].locals
  <2> TAKE v \in Targets(a) \cap Local
  <2>1. PICK i \in DOMAIN a.lhs : a.lhs[i].var = v
    BY DEF Targets
  <2>2. InScope(v)
    BY <2>1 DEF Assignment
  <2>3. DOMAIN contexts = 1..Len(frames) + 1
    BY Depths DEF IInv
  <2>4. QED BY <2>2, <2>3 DEF InScope
<1> HIDE DEF new
<1>6. new.locals = Top.locals /\ new \in Context
  BY <1>2 DEF Transferred
<1>7. [new EXCEPT !.locals = Top.locals] = new
  BY <1>6 DEF Context
<1>8. a.nb \in BOOLEAN /\ Targets(a) \subseteq Var
  BY TargetsOf
<1>9. Stays(new, Targets(a), [v \in Targets(a) |-> a.nb])
  BY <1>2, <1>4, <1>7 DEF Stays
<1>10. QED BY <1>3, <1>4, <1>5, <1>6, <1>8, <1>9 DEF new

Initialised(d) == IF d.init = None THEN {} ELSE {d.var}

LEMMA VariableDeclEffect ==
  ASSUME IInv, NEW d \in Decls, VariableDecl(d)
  PROVE  /\ Stays(Declared(Top, d), Initialised(d), [v \in Initialised(d) |-> FALSE])
         /\ Declared(Top, d).locals = Top.locals \cup {d.var}
         /\ d.var \in Var /\ d.var \in Local
         /\ frames # <<>> /\ Inner.kind = "block"
         /\ \A k \in 1..Len(frames) + 1 : d.var \notin contexts[k].locals
         /\ UNCHANGED <<mixed, room>>
<1> DEFINE local == [Top EXCEPT !.locals = @ \cup {d.var}]
           names == Initialised(d)
           nb == [v \in names |-> FALSE]
           new == Declared(Top, d)
<1>1. Good(Top) /\ Top \in Context
  BY TopGood DEF IInv
<1>2. /\ Transferred(new, local, names, nb)
      /\ local \in Context /\ local.locals = Top.locals \cup {d.var}
      /\ local.outs = Top.outs /\ local.cur = Top.cur /\ local.sched = Top.sched
  BY <1>1, DeclarationTransfers DEF Initialised
<1>3. contexts' = [contexts EXCEPT ![Len(contexts)] = new]
  BY DEF VariableDecl, Declared
<1>4. UNCHANGED <<contextStack, frames, room, exported, mixed, aborted>>
  BY DEF VariableDecl
<1>5. /\ frames # <<>> /\ Inner.kind = "block"
      /\ \A k \in DOMAIN contexts : d.var \notin contexts[k].locals
  BY DEF VariableDecl, In
<1>6. d.var \in Var /\ d.var \in Local
  BY DeclsAreBlocking DEF Local
<1> HIDE DEF new, local, nb
<1>7. new.locals = Top.locals \cup {d.var} /\ new \in Context
  BY <1>2 DEF Transferred
<1> DEFINE back == [new EXCEPT !.locals = Top.locals]
<1>8. /\ back \in Context /\ back.locals = Top.locals
      /\ back.outs = new.outs /\ back.cur = new.cur /\ back.sched = new.sched
  BY <1>1, <1>7 DEF Context
<1> HIDE DEF back
<1>9. Transferred(back, Top, names, nb)
  BY <1>2, <1>8 DEF Transferred, Outs, Flags
<1>10. Stays(new, names, nb)
  BY <1>3, <1>4, <1>9 DEF Stays, back
<1>11. DOMAIN contexts = 1..Len(frames) + 1
  BY Depths DEF IInv
<1>12. QED BY <1>4, <1>5, <1>6, <1>7, <1>10, <1>11 DEF new, nb

(* The statement on top ends, and releases its parked branches.            *)
Closes(ctx, names, nb) ==
  /\ CloseContext(ctx)
  /\ Transferred(ctx, Parent, names, nb)
  /\ Len(contextStack') = Inner.base
  /\ \A k \in 1..Inner.base : contextStack'[k] = contextStack[k]
  /\ UNCHANGED exported

LEMMA BlockEndEffect ==
  ASSUME IInv, BlockEnd
  PROVE  /\ frames # <<>> /\ Inner.kind = "block"
         /\ Inner.base = Len(contextStack) /\ UNCHANGED <<contextStack, aborted>>
         /\ Good(Top) /\ Good(Parent)
         /\ Closes(MergeContext(Parent, Top), Outs(Top) \ Top.locals, BlockFlags(Top))
         /\ mixed' = mixed \cup MixedOuts(Top)
<1>1. frames # <<>> /\ Inner.kind = "block"
  BY DEF BlockEnd, In
<1>2. Inner.base = Len(contextStack) /\ Inner.base \in Nat /\ Good(Parent) /\ Good(Top)
  BY <1>1, InnerGood, TopGood DEF IInv, Parked
<1>3. /\ CloseContext(MergeContext(Parent, Top)) /\ mixed' = mixed \cup MixedOuts(Top)
      /\ UNCHANGED <<contextStack, exported, aborted>>
  BY DEF BlockEnd
<1>4. Transferred(MergeContext(Parent, Top), Parent, Outs(Top) \ Top.locals, BlockFlags(Top))
  BY <1>2, MergeContextTransfers
<1>5. QED BY <1>1, <1>2, <1>3, <1>4 DEF Closes

LEMMA ConditionalEndEffect ==
  ASSUME IInv, ConditionalEnd, NEW then, then = contextStack[Len(contextStack)]
  PROVE  /\ frames # <<>> /\ Inner.kind = "else"
         /\ Inner.base + 1 = Len(contextStack) /\ Inner.base \in Nat
         /\ Inner.cond \in [Sigma -> BOOLEAN]
         /\ Good(then) /\ Good(Top) /\ Good(Parent)
         /\ Closes(MergeConditional(Parent, Inner.cond, then, Top),
                   Outs(then) \cup Outs(Top), ConditionalFlags(then, Top))
         /\ mixed' = mixed \cup ConditionalMixes(then, Top) /\ UNCHANGED aborted
<1>1. frames # <<>> /\ Inner.kind = "else"
  BY DEF ConditionalEnd, In
<1>2. /\ Inner.base + 1 = Len(contextStack) /\ Inner.base \in Nat
      /\ Inner.cond \in [Sigma -> BOOLEAN] /\ Good(Parent)
  BY <1>1, InnerGood DEF IInv, Parked, FrameGood
<1>3. Len(contextStack) \in Nat /\ Good(then) /\ Good(Top)
  BY <1>2, TopGood DEF IInv, Core
<1>4. /\ contextStack' = Front(contextStack)
      /\ CloseContext(MergeConditional(Parent, Inner.cond, then, Top))
      /\ mixed' = mixed \cup ConditionalMixes(then, Top)
      /\ UNCHANGED <<exported, aborted>>
  BY DEF ConditionalEnd
<1>5. /\ Len(contextStack') = Inner.base
      /\ \A k \in 1..Inner.base : contextStack'[k] = contextStack[k]
  BY SMTT(20), <1>2, <1>4 DEF IInv, Core, Front
<1>6. Transferred(MergeConditional(Parent, Inner.cond, then, Top), Parent,
                  Outs(then) \cup Outs(Top), ConditionalFlags(then, Top))
  BY <1>2, <1>3, MergeConditionalTransfers
<1>7. QED BY <1>1, <1>2, <1>3, <1>4, <1>5, <1>6 DEF Closes

(* A window of a stack of contexts, followed by more contexts.             *)
LEMMA StackWindow ==
  ASSUME NEW q \in Seq(Context), NEW b \in Nat, NEW p \in Nat, b + p = Len(q)
  PROVE  /\ SubSeq(q, b + 1, Len(q)) \in Seq(Context)
         /\ Len(SubSeq(q, b + 1, Len(q))) = p
         /\ \A k \in 1..p : SubSeq(q, b + 1, Len(q))[k] = q[b + k]
<1> DEFINE n == Len(q)
           own == SubSeq(q, b + 1, n)
<1>1. n \in Nat /\ b + p = n
  OBVIOUS
<1>2. \A i \in b + 1..n : q[i] \in Context
  OBVIOUS
<1>3. b + 1 \in Int /\ n \in Int
  BY <1>1
<1> HIDE DEF n
<1>4. /\ own \in Seq(Context)
      /\ Len(own) = IF b + 1 <= n THEN n - (b + 1) + 1 ELSE 0
      /\ \A i \in 1..n - (b + 1) + 1 : own[i] = q[b + 1 + i - 1]
  BY <1>2, <1>3, SubSeqProperties
<1> HIDE DEF own
<1>5. Len(own) = p
  BY <1>1, <1>4
<1>6. ASSUME NEW k \in 1..p PROVE own[k] = q[b + k]
  <2>1. k \in 1..n - (b + 1) + 1 /\ b + 1 + k - 1 = b + k
    BY <1>1
  <2>2. own[k] = q[b + 1 + k - 1]
    BY <1>4, <2>1
  <2>3. QED BY <2>1, <2>2
<1>7. QED BY <1>4, <1>5, <1>6 DEF own, n

LEMMA StackJoin ==
  ASSUME NEW q \in Seq(Context), NEW r \in Seq(Context), NEW p \in Nat, Len(q) = p
  PROVE  /\ q \o r \in Seq(Context) /\ Len(q \o r) = p + Len(r)
         /\ DOMAIN (q \o r) = 1..p + Len(r)
         /\ \A k \in 1..p : (q \o r)[k] = q[k]
         /\ \A k \in 1..Len(r) : (q \o r)[p + k] = r[k]
         /\ \A k \in 1..p + Len(r) : k \in 1..p \/ (k - p \in 1..Len(r) /\ p + (k - p) = k)
OBVIOUS

LEMMA InWindow ==
  ASSUME NEW b \in Nat, NEW p \in Nat, NEW n \in Nat, b + p = n
  PROVE  /\ \A k \in 1..p : b + k \in 1..n /\ b + k \in b + 1..n
         /\ \A i \in b + 1..n : i \in 1..n /\ i - b \in 1..p /\ b + (i - b) = i
OBVIOUS

(* The branches merge_case is given, one by one.                           *)
Merging(last) == SubSeq(contextStack, Inner.base + 1, Len(contextStack)) \o last

LEMMA MergingShape ==
  ASSUME IInv, frames # <<>>, NEW last \in Seq(Context), Parked(Inner) \in Nat,
         \A k \in 1..Len(last) : Good(last[k])
  PROVE  /\ Merging(last) \in Seq(Context)
         /\ Len(Merging(last)) = Parked(Inner) + Len(last)
         /\ DOMAIN Merging(last) = 1..Parked(Inner) + Len(last)
         /\ \A k \in 1..Parked(Inner) : Merging(last)[k] = contextStack[Inner.base + k]
         /\ \A k \in 1..Len(last) : Merging(last)[Parked(Inner) + k] = last[k]
         /\ \A k \in DOMAIN Merging(last) :
              \/ k \in 1..Parked(Inner)
              \/ k - Parked(Inner) \in 1..Len(last) /\ Parked(Inner) + (k - Parked(Inner)) = k
         /\ \A k \in DOMAIN Merging(last) : Good(Merging(last)[k])
<1> DEFINE b == Inner.base
           p == Parked(Inner)
           own == SubSeq(contextStack, b + 1, Len(contextStack))
<1>1. /\ b \in Nat /\ p \in Nat /\ b + p = Len(contextStack)
      /\ contextStack \in Seq(Context) /\ Len(contextStack) \in Nat
      /\ \A k \in 1..Len(contextStack) : Good(contextStack[k])
  BY InnerGood DEF IInv, Core
<1>2. Merging(last) = own \o last
  BY DEF Merging
<1> HIDE DEF b, p
<1>3. /\ own \in Seq(Context) /\ Len(own) = p
      /\ \A k \in 1..p : own[k] = contextStack[b + k]
  BY <1>1, StackWindow
<1> HIDE DEF own
<1>4. /\ own \o last \in Seq(Context) /\ Len(own \o last) = p + Len(last)
      /\ DOMAIN (own \o last) = 1..p + Len(last)
      /\ \A k \in 1..p : (own \o last)[k] = own[k]
      /\ \A k \in 1..Len(last) : (own \o last)[p + k] = last[k]
      /\ \A k \in 1..p + Len(last) : k \in 1..p \/ (k - p \in 1..Len(last) /\ p + (k - p) = k)
  BY SMTT(20), <1>1, <1>3, StackJoin
<1> DEFINE m == Merging(last)
<1>5. /\ m \in Seq(Context) /\ Len(m) = p + Len(last) /\ DOMAIN m = 1..p + Len(last)
      /\ \A k \in 1..p : m[k] = contextStack[b + k]
      /\ \A k \in 1..Len(last) : m[p + k] = last[k]
  BY <1>2, <1>3, <1>4
<1> HIDE DEF m
<1>6. \A k \in DOMAIN m : k \in 1..p \/ (k - p \in 1..Len(last) /\ p + (k - p) = k)
  BY <1>4, <1>5
<1>7. ASSUME NEW k \in DOMAIN m PROVE Good(m[k])
  <2>1. CASE k \in 1..p
    <3>1. b + k \in 1..Len(contextStack)
      BY <1>1, <2>1, InWindow
    <3>2. QED BY <1>1, <1>5, <2>1, <3>1
  <2>2. CASE k - p \in 1..Len(last) /\ p + (k - p) = k
    BY <1>5, <2>2
  <2>3. QED BY <1>6, <2>1, <2>2
<1>8. QED BY <1>5, <1>6, <1>7 DEF m, b, p

(* What the end of a case does.                                            *)
LEMMA EndCaseEffect ==
  ASSUME IInv, frames # <<>>, NEW last \in Seq(Context), NEW full \in BOOLEAN,
         \A k \in 1..Len(last) : Good(last[k]),
         Parked(Inner) + Len(last) = Len(Inner.labels) + 1,
         Parked(Inner) \in Nat,
         EndCase(last, full)
  PROVE  /\ UNCHANGED <<exported, mixed>>
         /\ \/ /\ Asserts => CaseAssertion(Merging(last))
               /\ UNCHANGED aborted
               /\ \E other :
                    /\ full => other \in Val
                    /\ Closes(MergeCase(Parent, Inner.sel, Inner.labels, Merging(last), full, other),
                              BranchOuts(Merging(last)), CaseFlags(Merging(last)))
            \/ /\ Asserts /\ ~CaseAssertion(Merging(last)) /\ aborted' = TRUE
               /\ UNCHANGED <<contexts, contextStack, frames, room>>
<1> DEFINE branches == Merging(last)
<1>1. /\ Inner.base \in Nat /\ Inner.labels \in Seq(LabelList) /\ Good(Parent)
      /\ contextStack \in Seq(Context) /\ Inner.base <= Len(contextStack)
  <2>1. /\ Inner.base \in Nat /\ Inner.labels \in Seq(LabelList) /\ Good(Parent)
        /\ contextStack \in Seq(Context) /\ Len(contextStack) \in Nat
        /\ Inner.base + Parked(Inner) = Len(contextStack)
    BY InnerGood DEF IInv, Core
  <2>2. QED BY <2>1
<1>2. branches \in Seq(Context) /\ Len(branches) = Len(Inner.labels) + 1
  BY MergingShape
<1>3. \/ /\ Asserts => CaseAssertion(branches)
         /\ \E other \in IF full THEN Val ELSE {CHOOSE x \in Val : TRUE} :
              CloseContext(MergeCase(Parent, Inner.sel, Inner.labels, branches, full, other))
         /\ contextStack' = SubSeq(contextStack, 1, Inner.base)
         /\ UNCHANGED <<exported, mixed, aborted>>
      \/ /\ Asserts /\ ~CaseAssertion(branches)
         /\ aborted' = TRUE
         /\ UNCHANGED <<contexts, contextStack, frames, room, exported, mixed>>
  BY DEF EndCase, ReleaseBranches, Merging
<1> HIDE DEF branches
<1>4. ASSUME NEW other \in IF full THEN Val ELSE {CHOOSE x \in Val : TRUE},
             CloseContext(MergeCase(Parent, Inner.sel, Inner.labels, branches, full, other)),
             contextStack' = SubSeq(contextStack, 1, Inner.base),
             UNCHANGED exported
      PROVE  /\ full => other \in Val
             /\ Closes(MergeCase(Parent, Inner.sel, Inner.labels, branches, full, other),
                       BranchOuts(branches), CaseFlags(branches))
  <2>1. full => other \in Val
    BY <1>4
  <2>2. Transferred(MergeCase(Parent, Inner.sel, Inner.labels, branches, full, other), Parent,
                    BranchOuts(branches), CaseFlags(branches))
    BY <1>1, <1>2, <2>1, MergeCaseTransfers
  <2>3. /\ Len(contextStack') = Inner.base
        /\ \A k \in 1..Inner.base : contextStack'[k] = contextStack[k]
    BY <1>1, <1>4, StackPrefix
  <2>4. QED BY <1>4, <2>1, <2>2, <2>3 DEF Closes
<1>5. QED BY <1>3, <1>4 DEF branches

(* Either end of a case merges what it parked and what is on top; a        *)
(* default operand that no item wrote adds a context without outputs.      *)
CaseMerges(branches) ==
  /\ branches \in Seq(Context)
  /\ \A k \in DOMAIN branches :
       /\ Good(branches[k])
       /\ \/ \E i \in Inner.base + 1..Len(contextStack) : branches[k] = contextStack[i]
          \/ branches[k] = Top
          \/ Outs(branches[k]) = {}
  /\ \A i \in Inner.base + 1..Len(contextStack) :
       \E k \in DOMAIN branches : branches[k] = contextStack[i]
  /\ \E k \in DOMAIN branches : branches[k] = Top
  /\ \/ /\ Asserts => CaseAssertion(branches)
        /\ UNCHANGED aborted
        /\ \E ctx : Closes(ctx, BranchOuts(branches), CaseFlags(branches))
     \/ /\ Asserts /\ ~CaseAssertion(branches) /\ aborted' = TRUE
        /\ UNCHANGED <<contexts, contextStack, frames, room>>

LEMMA CaseEndMerges ==
  ASSUME IInv, frames # <<>>, NEW last \in Seq(Context), NEW full \in BOOLEAN,
         \A k \in 1..Len(last) : Good(last[k]),
         Len(last) >= 1, last[1] = Top,
         \A k \in 1..Len(last) : k = 1 \/ Outs(last[k]) = {},
         Parked(Inner) + Len(last) = Len(Inner.labels) + 1, Parked(Inner) \in Nat,
         EndCase(last, full)
  PROVE  UNCHANGED <<exported, mixed>> /\ \E branches : CaseMerges(branches)
<1> DEFINE branches == Merging(last)
           p == Parked(Inner)
           b == Inner.base
<1>1. /\ UNCHANGED <<exported, mixed>>
      /\ \/ /\ Asserts => CaseAssertion(branches)
            /\ UNCHANGED aborted
            /\ \E ctx : Closes(ctx, BranchOuts(branches), CaseFlags(branches))
         \/ /\ Asserts /\ ~CaseAssertion(branches) /\ aborted' = TRUE
            /\ UNCHANGED <<contexts, contextStack, frames, room>>
  BY EndCaseEffect
<1>2. /\ p \in Nat /\ b \in Nat /\ b + p = Len(contextStack) /\ Len(contextStack) \in Nat
  BY InnerGood DEF IInv, Core
<1>3. /\ branches \in Seq(Context) /\ DOMAIN branches = 1..p + Len(last)
      /\ \A k \in 1..p : branches[k] = contextStack[b + k]
      /\ \A k \in 1..Len(last) : branches[p + k] = last[k]
      /\ \A k \in DOMAIN branches : \/ k \in 1..p
                                    \/ k - p \in 1..Len(last) /\ p + (k - p) = k
      /\ \A k \in DOMAIN branches : Good(branches[k])
  BY MergingShape
<1>4. Len(last) \in Nat /\ 1 \in 1..Len(last)
  OBVIOUS
<1> HIDE DEF branches, p, b
<1>5. ASSUME NEW k \in DOMAIN branches
      PROVE  \/ \E i \in b + 1..Len(contextStack) : branches[k] = contextStack[i]
             \/ branches[k] = Top
             \/ Outs(branches[k]) = {}
  <2>1. CASE k \in 1..p
    <3>1. b + k \in b + 1..Len(contextStack)
      BY <1>2, <2>1, InWindow
    <3>2. QED BY <1>3, <2>1, <3>1
  <2>2. CASE k - p \in 1..Len(last) /\ p + (k - p) = k
    <3>1. branches[k] = last[k - p]
      BY <1>3, <2>2
    <3>2. CASE k - p = 1
      BY <3>1, <3>2
    <3>3. CASE k - p # 1
      BY <2>2, <3>1, <3>3
    <3>4. QED BY <3>2, <3>3
  <2>3. QED BY <1>3, <2>1, <2>2
<1>6. \A i \in b + 1..Len(contextStack) :
        \E k \in DOMAIN branches : branches[k] = contextStack[i]
  <2> TAKE i \in b + 1..Len(contextStack)
  <2>1. i - b \in 1..p /\ b + (i - b) = i
    BY <1>2, InWindow
  <2>2. i - b \in DOMAIN branches
    BY <1>2, <1>3, <1>4, <2>1
  <2>3. QED BY <1>3, <2>1, <2>2
<1>7. \E k \in DOMAIN branches : branches[k] = Top
  <2>1. p + 1 \in DOMAIN branches
    BY <1>2, <1>3, <1>4
  <2>2. QED BY <1>3, <1>4, <2>1
<1>8. CaseMerges(branches)
  BY <1>1, <1>3, <1>5, <1>6, <1>7 DEF CaseMerges, b
<1>9. QED BY <1>1, <1>8

CaseEnds == CaseEndAfterDefault \/ CaseEndNoDefault

LEMMA CaseEndEffect ==
  ASSUME IInv, CaseEnds
  PROVE  /\ frames # <<>> /\ Inner.kind \in {"case", "default"}
         /\ UNCHANGED <<exported, mixed>>
         /\ \E branches : CaseMerges(branches)
<1>1. CASE CaseEndAfterDefault
  <2>1. frames # <<>> /\ Inner.kind = "default" /\ EndCase(<<Top>>, FALSE)
    BY <1>1 DEF CaseEndAfterDefault, In
  <2>2. Parked(Inner) = Len(Inner.labels) /\ Len(Inner.labels) \in Nat
    BY <2>1, InnerGood DEF Parked, IInv
  <2> DEFINE last == <<Top>>
  <2>3. /\ last \in Seq(Context) /\ Len(last) = 1 /\ last[1] = Top
        /\ \A k \in 1..Len(last) : Good(last[k])
        /\ Len(last) >= 1 /\ \A k \in 1..Len(last) : k = 1 \/ Outs(last[k]) = {}
    BY TopGood DEF IInv
  <2> DEFINE no == FALSE
  <2>4. EndCase(last, no) /\ no \in BOOLEAN
    BY <2>1
  <2> HIDE DEF last, no
  <2>5. Parked(Inner) + Len(last) = Len(Inner.labels) + 1 /\ Parked(Inner) \in Nat
    BY <2>2, <2>3
  <2>6. UNCHANGED <<exported, mixed>> /\ \E branches : CaseMerges(branches)
    BY <2>1, <2>3, <2>4, <2>5, CaseEndMerges, Zenon
  <2>7. QED BY <2>1, <2>6
<1>2. CASE CaseEndNoDefault
  <2> DEFINE last == <<Top, Child(Parent)>>
             full == Inner.full
  <2>1. frames # <<>> /\ Inner.kind = "case" /\ EndCase(last, full) /\ full \in BOOLEAN
    <3>1. frames # <<>> /\ Inner.kind = "case" /\ EndCase(last, full)
      BY <1>2 DEF CaseEndNoDefault, In
    <3>2. QED BY <3>1, InnerGood DEF IInv, FrameType
  <2>2. Parked(Inner) = Len(Inner.labels) - 1 /\ Len(Inner.labels) \in Nat
        /\ Len(Inner.labels) >= 1
    BY <2>1, InnerGood DEF Parked, IInv, FrameGood
  <2>3. Good(Top) /\ Good(Child(Parent)) /\ Outs(Child(Parent)) = {}
    <3>1. Parent \in Context
      BY <2>1, InnerGood DEF IInv
    <3>2. Outs(Child(Parent)) = {}
      BY <3>1 DEF Outs, Child, NoOuts, Context
    <3>3. QED BY <3>1, <3>2, TopGood, ChildGood DEF IInv
  <2>4. /\ last \in Seq(Context) /\ Len(last) = 2 /\ Len(last) >= 1 /\ last[1] = Top
        /\ \A k \in 1..Len(last) : Good(last[k])
        /\ \A k \in 1..Len(last) : k = 1 \/ Outs(last[k]) = {}
    BY <2>3 DEF Good
  <2> HIDE DEF last, full
  <2>5. Parked(Inner) + Len(last) = Len(Inner.labels) + 1 /\ Parked(Inner) \in Nat
    BY <2>2, <2>4
  <2>6. UNCHANGED <<exported, mixed>> /\ \E branches : CaseMerges(branches)
    BY <2>1, <2>4, <2>5, CaseEndMerges, Zenon
  <2>7. QED BY <2>1, <2>6
<1>3. QED BY <1>1, <1>2 DEF CaseEnds

-----------------------------------------------------------------------------
(* Locals.  A name declared inside the process is an output only of        *)
(* contexts inside its block: of open ones, and of parked branches of      *)
(* statements inside it.                                                   *)

Enclosing(stack, k) == {v \in Var : \E m \in 1..k : v \in stack[m].locals}

(* Branches are parked above the base of every open statement that was     *)
(* entered before.                                                         *)
BasesGrow ==
  /\ \A j \in 1..Len(frames) : frames[j].base \in Nat /\ frames[j].base <= Len(contextStack)
  /\ \A j, k \in 1..Len(frames) : j <= k => frames[j].base <= frames[k].base

LocalsInv ==
  /\ contexts[1].locals = {}
  /\ \A k \in 1..Len(frames) : frames[k].kind # "block" => contexts[k + 1].locals = {}
  /\ \A k \in 1..Len(frames) + 1 : Outs(contexts[k]) \cap Local \subseteq Enclosing(contexts, k)
  /\ \A j \in 1..Len(frames), i \in 1..Len(contextStack) :
       (j < Len(frames) => i <= frames[j + 1].base)
         => Outs(contextStack[i]) \cap Local \subseteq Enclosing(contexts, j)
  /\ LocalsStayInside

LEMMA EnclosingGrows ==
  ASSUME NEW stack, NEW k \in Nat
  PROVE  Enclosing(stack, k + 1) = Enclosing(stack, k) \cup {v \in Var : v \in stack[k + 1].locals}
BY DEF Enclosing

LEMMA EnclosingSame ==
  ASSUME NEW stack, NEW other, NEW k \in Nat,
         \A m \in 1..k : other[m].locals = stack[m].locals
  PROVE  Enclosing(other, k) = Enclosing(stack, k)
BY DEF Enclosing

(* The bases through the four shapes of step.                              *)
LEMMA BasesOpen ==
  ASSUME IInv, BasesGrow, NEW frame, NEW space \in Space, OpenContext(frame, space),
         room[Len(room)] # "full", frame.base = Len(contextStack), UNCHANGED contextStack
  PROVE  BasesGrow'
<1> DEFINE n == Len(frames)
           c == Len(contextStack)
<1>1. n \in Nat /\ c \in Nat
  BY Depths DEF IInv
<1>2. /\ Len(frames') = n + 1 /\ Len(contextStack') = c
      /\ \A k \in 1..n + 1 : frames'[k].base = IF k = n + 1 THEN c ELSE frames[k].base
  BY OpenShape DEF IInv
<1>3. \A j \in 1..n : frames[j].base \in Nat /\ frames[j].base <= c
  BY DEF BasesGrow
<1>4. \A j, k \in 1..n : j <= k => frames[j].base <= frames[k].base
  BY DEF BasesGrow
<1> HIDE DEF n, c
<1>5. \A j \in 1..n + 1 : frames'[j].base \in Nat /\ frames'[j].base <= c
  BY <1>1, <1>2, <1>3
<1>6. \A j, k \in 1..n + 1 : j <= k => frames'[j].base <= frames'[k].base
  <2>1. ASSUME NEW j \in 1..n + 1, NEW k \in 1..n + 1, j <= k
        PROVE  frames'[j].base <= frames'[k].base
    <3>1. CASE k = n + 1
      BY <1>1, <1>2, <1>5, <3>1
    <3>2. CASE k # n + 1
      <4>1. j \in 1..n /\ k \in 1..n
        BY <1>1, <2>1, <3>2
      <4>2. frames[j].base <= frames[k].base
        BY <1>4, <2>1, <4>1
      <4>3. frames'[j].base = frames[j].base /\ frames'[k].base = frames[k].base
        BY <1>1, <1>2, <4>1
      <4>4. QED BY <4>2, <4>3
    <3>3. QED BY <3>1, <3>2
  <2>2. QED BY <2>1
<1>7. QED BY <1>2, <1>5, <1>6 DEF BasesGrow

LEMMA BasesBranch ==
  ASSUME IInv, BasesGrow, frames # <<>>, NEW frame, frame.base = Inner.base, NextBranch(frame)
  PROVE  BasesGrow'
<1> DEFINE n == Len(frames)
           c == Len(contextStack)
<1>1. n \in Nat /\ c \in Nat /\ Inner = frames[n]
  BY Depths DEF IInv
<1>2. /\ Len(frames') = n /\ Len(contextStack') = c + 1
      /\ \A k \in 1..n : frames'[k].base = frames[k].base
  BY <1>1, BranchShape DEF IInv
<1>3. \A j \in 1..n : frames[j].base \in Nat /\ frames[j].base <= c
  BY DEF BasesGrow
<1>4. \A j, k \in 1..n : j <= k => frames[j].base <= frames[k].base
  BY DEF BasesGrow
<1> HIDE DEF n, c
<1>5. \A j \in 1..n : frames'[j].base \in Nat /\ frames'[j].base <= c + 1
  BY <1>1, <1>2, <1>3
<1>6. \A j, k \in 1..n : j <= k => frames'[j].base <= frames'[k].base
  BY <1>2, <1>4
<1>7. QED BY <1>2, <1>5, <1>6 DEF BasesGrow

LEMMA BasesClose ==
  ASSUME IInv, BasesGrow, frames # <<>>, NEW ctx, CloseContext(ctx),
         Len(contextStack') = Inner.base
  PROVE  BasesGrow'
<1> DEFINE n == Len(frames)
<1>1. n \in Nat /\ n >= 1 /\ Inner = frames[n]
  BY Depths DEF IInv
<1>2. /\ Len(frames') = n - 1 /\ Len(contextStack') = frames[n].base
      /\ \A k \in 1..n - 1 : frames'[k].base = frames[k].base
  BY <1>1, CloseShape DEF IInv
<1>3. \A j \in 1..n : frames[j].base \in Nat
  BY DEF BasesGrow
<1>4. \A j, k \in 1..n : j <= k => frames[j].base <= frames[k].base
  BY DEF BasesGrow
<1> HIDE DEF n
<1>5. \A j \in 1..n - 1 : frames'[j].base \in Nat /\ frames'[j].base <= frames[n].base
  BY <1>1, <1>2, <1>3, <1>4
<1>6. \A j, k \in 1..n - 1 : j <= k => frames'[j].base <= frames'[k].base
  BY <1>1, <1>2, <1>4
<1>7. QED BY <1>2, <1>5, <1>6 DEF BasesGrow

(* The locals through the four shapes of step.                             *)
LEMMA LocalsStay ==
  ASSUME IInv, BasesGrow, LocalsInv, NEW ctx, NEW names, NEW nb, Stays(ctx, names, nb),
         Top.locals \subseteq ctx.locals,
         ctx.locals = Top.locals \/ (frames # <<>> /\ Inner.kind = "block"),
         names \cap Local \subseteq Enclosing(contexts, Len(frames) + 1) \cup ctx.locals
  PROVE  LocalsInv'
<1> DEFINE n == Len(frames)
           T == [ctx EXCEPT !.locals = Top.locals]
<1>1. n \in Nat /\ Top = contexts[n + 1] /\ (frames # <<>> => n >= 1 /\ Inner = frames[n])
  BY Depths DEF IInv
<1>2. /\ contexts' = [contexts EXCEPT ![Len(contexts)] = ctx]
      /\ UNCHANGED <<contextStack, frames, exported>>
      /\ Transferred(T, Top, names, nb)
  BY DEF Stays
<1>3. \A k \in 1..n + 1 : contexts'[k] = IF k = n + 1 THEN ctx ELSE contexts[k]
  BY <1>2, ReplaceShape DEF IInv
<1>4. Outs(ctx) = Outs(Top) \cup names
  <2>1. Outs(T) = Outs(Top) \cup names
    BY <1>2 DEF Transferred
  <2>2. Outs(T) = Outs(ctx)
    BY DEF Outs
  <2>3. QED BY <2>1, <2>2
<1> HIDE DEF n, T
<1>5. \A k \in 1..n + 1 : Enclosing(contexts, k) \subseteq Enclosing(contexts', k)
  BY <1>1, <1>3 DEF Enclosing
<1>6. contexts'[1].locals = {}
  <2>1. CASE n = 0
    <3>1. frames = <<>>
      BY <2>1, Depths DEF IInv, n
    <3>2. ctx.locals = contexts[1].locals
      BY <1>1, <2>1, <3>1
    <3>3. QED BY <1>3, <2>1, <3>2 DEF LocalsInv
  <2>2. CASE n # 0
    BY <1>1, <1>3, <2>2 DEF LocalsInv
  <2>3. QED BY <2>1, <2>2
<1>7. \A k \in 1..n : frames[k].kind # "block" => contexts'[k + 1].locals = {}
  <2> SUFFICES ASSUME NEW k \in 1..n, frames[k].kind # "block"
               PROVE  contexts'[k + 1].locals = {}
    OBVIOUS
  <2>1. contexts[k + 1].locals = {}
    BY DEF LocalsInv, n
  <2>2. CASE k = n
    <3>1. ctx.locals = Top.locals
      BY <1>1, <2>2
    <3>2. QED BY <1>1, <1>3, <2>1, <2>2, <3>1
  <2>3. CASE k # n
    BY <1>1, <1>3, <2>1, <2>3
  <2>4. QED BY <2>2, <2>3
<1>8. \A k \in 1..n + 1 : Outs(contexts'[k]) \cap Local \subseteq Enclosing(contexts', k)
  <2> TAKE k \in 1..n + 1
  <2>1. Outs(contexts[k]) \cap Local \subseteq Enclosing(contexts', k)
    BY <1>5 DEF LocalsInv, n
  <2>2. CASE k # n + 1
    BY <1>3, <2>1, <2>2
  <2>3. CASE k = n + 1
    <3>1. ctx.locals \cap Var \subseteq Enclosing(contexts', n + 1)
      BY <1>1, <1>3 DEF Enclosing
    <3>2. names \cap Local \subseteq Var
      BY DeclsAreBlocking DEF Local
    <3>3. names \cap Local \subseteq Enclosing(contexts', n + 1)
      BY <1>1, <1>5, <3>1, <3>2 DEF n
    <3>4. QED BY <1>1, <1>3, <1>4, <2>1, <2>3, <3>3
  <2>4. QED BY <2>2, <2>3
<1>9. \A j \in 1..n, i \in 1..Len(contextStack) :
        (j < n => i <= frames[j + 1].base)
          => Outs(contextStack[i]) \cap Local \subseteq Enclosing(contexts', j)
  <2> SUFFICES ASSUME NEW j \in 1..n, NEW i \in 1..Len(contextStack),
                      j < n => i <= frames[j + 1].base
               PROVE  Outs(contextStack[i]) \cap Local \subseteq Enclosing(contexts', j)
    OBVIOUS
  <2>1. Outs(contextStack[i]) \cap Local \subseteq Enclosing(contexts, j)
    BY DEF LocalsInv, n
  <2>2. QED BY <1>1, <1>5, <2>1
<1>10. LocalsStayInside'
  BY <1>2 DEF LocalsInv, LocalsStayInside
<1>11. QED
  BY <1>2, <1>6, <1>7, <1>8, <1>9, <1>10 DEF LocalsInv, Outs, n

LEMMA ChildShape ==
  ASSUME NEW ctx \in Context
  PROVE  /\ Child(ctx) \in Context /\ Outs(Child(ctx)) = {} /\ Child(ctx).locals = {}
         /\ Child(ctx).cur = ctx.cur /\ Child(ctx).sched = ctx.sched
         /\ \A v \in Var : Child(ctx).outs[v] = None
BY DEF Child, NoOuts, Outs, Context

LEMMA LocalsOpen ==
  ASSUME IInv, BasesGrow, LocalsInv, NEW frame, NEW space \in Space, OpenContext(frame, space),
         room[Len(room)] # "full", frame.base = Len(contextStack),
         UNCHANGED <<contextStack, exported>>
  PROVE  LocalsInv'
<1> DEFINE n == Len(frames)
           c == Len(contextStack)
<1>1. n \in Nat /\ c \in Nat
  BY Depths DEF IInv
<1>2. /\ Len(frames') = n + 1
      /\ \A k \in 1..n + 2 : contexts'[k] = IF k = n + 2 THEN Child(Top) ELSE contexts[k]
      /\ \A k \in 1..n + 1 : frames'[k] = IF k = n + 1 THEN frame ELSE frames[k]
  BY OpenShape DEF IInv
<1>3. Outs(Child(Top)) = {} /\ Child(Top).locals = {}
  BY TopGood, ChildShape DEF IInv
<1> HIDE DEF n, c
<1>4. \A k \in 1..n + 1 : Enclosing(contexts', k) = Enclosing(contexts, k)
  BY SMTT(20), <1>1, <1>2 DEF Enclosing
<1>5. contexts'[1].locals = {}
  BY <1>1, <1>2 DEF LocalsInv
<1>6. \A k \in 1..n + 1 : frames'[k].kind # "block" => contexts'[k + 1].locals = {}
  <2> SUFFICES ASSUME NEW k \in 1..n + 1, frames'[k].kind # "block"
               PROVE  contexts'[k + 1].locals = {}
    OBVIOUS
  <2>1. CASE k = n + 1
    BY <1>1, <1>2, <1>3, <2>1
  <2>2. CASE k # n + 1
    <3>1. k \in 1..n /\ frames'[k] = frames[k] /\ contexts'[k + 1] = contexts[k + 1]
      BY <1>1, <1>2, <2>2
    <3>2. QED BY <3>1 DEF LocalsInv, n
  <2>3. QED BY <2>1, <2>2
<1>7. \A k \in 1..n + 2 : Outs(contexts'[k]) \cap Local \subseteq Enclosing(contexts', k)
  <2> TAKE k \in 1..n + 2
  <2>1. CASE k = n + 2
    BY <1>1, <1>2, <1>3, <2>1
  <2>2. CASE k # n + 2
    <3>1. k \in 1..n + 1 /\ contexts'[k] = contexts[k]
      BY <1>1, <1>2, <2>2
    <3>2. QED BY <1>4, <3>1 DEF LocalsInv, n
  <2>3. QED BY <2>1, <2>2
<1>8. \A j \in 1..n + 1, i \in 1..c :
        (j < n + 1 => i <= frames'[j + 1].base)
          => Outs(contextStack[i]) \cap Local \subseteq Enclosing(contexts', j)
  <2> SUFFICES ASSUME NEW j \in 1..n + 1, NEW i \in 1..c,
                      j < n + 1 => i <= frames'[j + 1].base
               PROVE  Outs(contextStack[i]) \cap Local \subseteq Enclosing(contexts', j)
    OBVIOUS
  <2>1. CASE j < n
    <3>1. j \in 1..n /\ i <= frames[j + 1].base
      BY <1>1, <1>2, <2>1
    <3>2. Outs(contextStack[i]) \cap Local \subseteq Enclosing(contexts, j)
      BY <3>1 DEF LocalsInv, n, c
    <3>3. QED BY <1>4, <3>2
  <2>2. CASE j >= n /\ n >= 1
    <3>1. Outs(contextStack[i]) \cap Local \subseteq Enclosing(contexts, n)
      BY <1>1, <2>2 DEF LocalsInv, n, c
    <3>2. Enclosing(contexts, n) \subseteq Enclosing(contexts, j)
      BY <1>1, <2>2 DEF Enclosing
    <3>3. QED BY <1>4, <3>1, <3>2
  <2>3. CASE n = 0
    <3>1. frames = <<>>
      BY <2>3, Depths DEF IInv, n
    <3>2. c = 0
      BY <3>1 DEF IInv, Core, StackDiscipline, c
    <3>3. QED BY <3>2
  <2>4. QED BY <1>1, <2>1, <2>2, <2>3
<1>9. LocalsStayInside'
  BY DEF LocalsInv, LocalsStayInside
<1>10. Len(frames') + 1 = n + 2 /\ Len(contextStack') = c
  BY <1>1, <1>2 DEF c
<1>11. contextStack' = contextStack
  OBVIOUS
<1>12. QED
  BY <1>2, <1>5, <1>6, <1>7, <1>8, <1>9, <1>10, <1>11 DEF LocalsInv, Outs

LEMMA LocalsBranch ==
  ASSUME IInv, BasesGrow, LocalsInv, frames # <<>>, NEW frame, frame.base = Inner.base,
         Inner.kind # "block", NextBranch(frame), UNCHANGED exported
  PROVE  LocalsInv'
<1> DEFINE n == Len(frames)
           c == Len(contextStack)
<1>1. /\ n \in Nat /\ n >= 1 /\ c \in Nat
      /\ Top = contexts[n + 1] /\ Parent = contexts[n] /\ Inner = frames[n]
  BY Depths DEF IInv
<1>2. /\ Len(frames') = n /\ Len(contextStack') = c + 1
      /\ \A k \in 1..n + 1 : contexts'[k] = IF k = n + 1 THEN Child(Parent) ELSE contexts[k]
      /\ \A k \in 1..n : frames'[k] = IF k = n THEN frame ELSE frames[k]
      /\ \A k \in 1..c + 1 : contextStack'[k] = IF k = c + 1 THEN Top ELSE contextStack[k]
  BY BranchShape DEF IInv
<1>3. Outs(Child(Parent)) = {} /\ Child(Parent).locals = {}
  BY InnerGood, ChildShape DEF IInv
<1>4. contexts[n + 1].locals = {}
  BY <1>1 DEF LocalsInv, n
<1>5. \A j \in 1..n : frames'[j].base = frames[j].base /\ frames[j].base \in Nat /\ frames[j].base <= c
  BY <1>1, <1>2 DEF BasesGrow, n, c
<1> HIDE DEF n, c
<1>6. \A k \in 1..n + 1 : Enclosing(contexts', k) = Enclosing(contexts, k)
  BY <1>1, <1>2, <1>3, <1>4 DEF Enclosing
<1>7. contexts'[1].locals = {}
  BY <1>1, <1>2 DEF LocalsInv
<1>8. \A k \in 1..n : frames'[k].kind # "block" => contexts'[k + 1].locals = {}
  <2> SUFFICES ASSUME NEW k \in 1..n, frames'[k].kind # "block"
               PROVE  contexts'[k + 1].locals = {}
    OBVIOUS
  <2>1. CASE k = n
    BY <1>1, <1>2, <1>3, <2>1
  <2>2. CASE k # n
    <3>1. frames'[k] = frames[k] /\ contexts'[k + 1] = contexts[k + 1]
      BY <1>1, <1>2, <2>2
    <3>2. QED BY <3>1 DEF LocalsInv, n
  <2>3. QED BY <2>1, <2>2
<1>9. \A k \in 1..n + 1 : Outs(contexts'[k]) \cap Local \subseteq Enclosing(contexts', k)
  BY <1>1, <1>2, <1>3, <1>6 DEF LocalsInv, n
<1>10. Outs(Top) \cap Local \subseteq Enclosing(contexts, n)
  <2>1. Outs(Top) \cap Local \subseteq Enclosing(contexts, n + 1)
    BY <1>1 DEF LocalsInv, n
  <2>2. Enclosing(contexts, n + 1) = Enclosing(contexts, n)
    BY <1>1, <1>4, EnclosingGrows
  <2>3. QED BY <2>1, <2>2
<1>11. \A j \in 1..n, i \in 1..c + 1 :
         (j < n => i <= frames'[j + 1].base)
           => Outs(contextStack'[i]) \cap Local \subseteq Enclosing(contexts', j)
  <2> SUFFICES ASSUME NEW j \in 1..n, NEW i \in 1..c + 1,
                      j < n => i <= frames'[j + 1].base
               PROVE  Outs(contextStack'[i]) \cap Local \subseteq Enclosing(contexts', j)
    OBVIOUS
  <2>1. CASE i = c + 1
    <3>1. j = n
      <4> SUFFICES ASSUME j < n PROVE FALSE
        BY <1>1
      <4>1. j + 1 \in 1..n
        BY <1>1
      <4>2. QED BY <1>1, <1>5, <2>1, <4>1
    <3>2. QED BY <1>1, <1>2, <1>6, <1>10, <2>1, <3>1
  <2>2. CASE i # c + 1
    <3>1. i \in 1..c /\ contextStack'[i] = contextStack[i]
      BY <1>1, <1>2, <2>2
    <3>2. j < n => i <= frames[j + 1].base
      BY <1>1, <1>5
    <3>3. Outs(contextStack[i]) \cap Local \subseteq Enclosing(contexts, j)
      BY <3>1, <3>2 DEF LocalsInv, n, c
    <3>4. QED BY <1>1, <1>6, <3>1, <3>3
  <2>3. QED BY <2>1, <2>2
<1>12. LocalsStayInside'
  BY DEF LocalsInv, LocalsStayInside
<1>13. QED
  BY <1>2, <1>7, <1>8, <1>9, <1>11, <1>12 DEF LocalsInv, Outs

LEMMA LocalsClose ==
  ASSUME IInv, BasesGrow, LocalsInv, frames # <<>>, NEW ctx, NEW names, NEW nb,
         Closes(ctx, names, nb),
         names \cap Local \subseteq Enclosing(contexts, Len(frames))
  PROVE  LocalsInv'
<1> DEFINE n == Len(frames)
           c == Len(contextStack)
           b == Inner.base
<1>1. /\ n \in Nat /\ n >= 1 /\ c \in Nat
      /\ Top = contexts[n + 1] /\ Parent = contexts[n] /\ Inner = frames[n]
  BY Depths DEF IInv
<1>2. /\ CloseContext(ctx) /\ Transferred(ctx, Parent, names, nb)
      /\ Len(contextStack') = b /\ \A k \in 1..b : contextStack'[k] = contextStack[k]
      /\ UNCHANGED exported
  BY DEF Closes
<1>3. /\ Len(frames') = n - 1
      /\ \A k \in 1..n : contexts'[k] = IF k = n THEN ctx ELSE contexts[k]
      /\ \A k \in 1..n - 1 : frames'[k] = frames[k]
  BY <1>2, CloseShape DEF IInv
<1>4. b \in Nat /\ b <= c /\ b = frames[n].base
  BY <1>1 DEF BasesGrow
<1>5. ctx.locals = Parent.locals /\ Outs(ctx) = Outs(Parent) \cup names
  BY <1>2 DEF Transferred
<1> HIDE DEF n, c, b
<1>6. \A k \in 1..n : Enclosing(contexts', k) = Enclosing(contexts, k)
  BY <1>1, <1>3, <1>5 DEF Enclosing
<1>7. contexts'[1].locals = {}
  BY <1>1, <1>3, <1>5 DEF LocalsInv
<1>8. \A k \in 1..n - 1 : frames'[k].kind # "block" => contexts'[k + 1].locals = {}
  <2> SUFFICES ASSUME NEW k \in 1..n - 1, frames'[k].kind # "block"
               PROVE  contexts'[k + 1].locals = {}
    OBVIOUS
  <2>1. frames'[k] = frames[k] /\ k \in 1..n /\ k + 1 \in 1..n
    BY <1>1, <1>3
  <2>2. contexts[k + 1].locals = {}
    BY <2>1 DEF LocalsInv, n
  <2>3. QED BY <1>1, <1>3, <1>5, <2>1, <2>2
<1>9. \A k \in 1..n : Outs(contexts'[k]) \cap Local \subseteq Enclosing(contexts', k)
  <2> TAKE k \in 1..n
  <2>1. k \in 1..n + 1
    BY <1>1
  <2>2. Outs(contexts[k]) \cap Local \subseteq Enclosing(contexts, k)
    BY <2>1 DEF LocalsInv, n
  <2>3. CASE k = n
    <3>1. names \cap Local \subseteq Enclosing(contexts, n)
      BY DEF n
    <3>2. QED BY <1>1, <1>3, <1>5, <1>6, <2>2, <2>3, <3>1
  <2>4. CASE k # n
    BY <1>3, <1>6, <2>2, <2>4
  <2>5. QED BY <2>3, <2>4
<1>10. \A j \in 1..n - 1, i \in 1..b :
         (j < n - 1 => i <= frames'[j + 1].base)
           => Outs(contextStack'[i]) \cap Local \subseteq Enclosing(contexts', j)
  <2> SUFFICES ASSUME NEW j \in 1..n - 1, NEW i \in 1..b,
                      j < n - 1 => i <= frames'[j + 1].base
               PROVE  Outs(contextStack'[i]) \cap Local \subseteq Enclosing(contexts', j)
    OBVIOUS
  <2>1. j \in 1..n /\ i \in 1..c /\ contextStack'[i] = contextStack[i]
    BY <1>1, <1>2, <1>4
  <2>2. j < n => i <= frames[j + 1].base
    <3>1. CASE j = n - 1
      BY <1>1, <1>4, <3>1
    <3>2. CASE j # n - 1
      BY <1>1, <1>3, <3>2
    <3>3. QED BY <3>1, <3>2
  <2>3. Outs(contextStack[i]) \cap Local \subseteq Enclosing(contexts, j)
    BY <2>1, <2>2 DEF LocalsInv, n, c
  <2>4. QED BY <1>6, <2>1, <2>3
<1>11. LocalsStayInside'
  BY <1>2 DEF LocalsInv, LocalsStayInside
<1>12. Len(frames') + 1 = n
  BY <1>1, <1>3
<1>13. QED
  BY <1>2, <1>3, <1>7, <1>8, <1>9, <1>10, <1>11, <1>12 DEF LocalsInv, Outs

-----------------------------------------------------------------------------
(* The kinds of step.                                                      *)

Opening(frame, space) ==
  /\ OpenContext(frame, space)
  /\ room[Len(room)] # "full"
  /\ frame.base = Len(contextStack)
  /\ frame.kind = "block" <=> space = "many"
  /\ UNCHANGED <<contextStack, exported, mixed, aborted>>

Branching(frame) ==
  /\ frames # <<>> /\ Inner.kind # "block" /\ frame.kind # "block"
  /\ frame.base = Inner.base
  /\ NextBranch(frame)
  /\ UNCHANGED <<exported, mixed, aborted>>

LEMMA OpenEffect ==
  ASSUME \/ \E c \in Tests : Conditional(c)
         \/ \E f \in Selectors, g \in Labels, full \in FullCases : CaseItem(f, g, full)
         \/ \E f \in Selectors : CaseWithoutItems(f)
         \/ BlockStatement
  PROVE  \E frame, space : space \in Space /\ Opening(frame, space)
<1>1. ASSUME NEW frame, NEW space \in Space, OpenContext(frame, space), CanVisit,
             frame.base = Len(contextStack), frame.kind = "block" <=> space = "many",
             UNCHANGED <<contextStack, exported, mixed, aborted>>
      PROVE  \E fr, sp : sp \in Space /\ Opening(fr, sp)
  <2>1. Opening(frame, space)
    BY <1>1 DEF Opening, CanVisit
  <2>2. QED BY <2>1
<1>2. CASE \E c \in Tests : Conditional(c)
  <2>1. PICK c \in Tests : Conditional(c)
    BY <1>2
  <2> DEFINE frame == Frame("then", [s \in Sigma |-> c[StoreAt(Top, s)]], None, <<>>, FALSE)
  <2>2. OpenContext(frame, "one") /\ CanVisit /\ UNCHANGED <<contextStack, exported, mixed, aborted>>
    BY <2>1 DEF Conditional
  <2>3. frame.kind = "then" /\ frame.base = Len(contextStack)
    BY DEF Frame
  <2> HIDE DEF frame
  <2>4. QED BY <1>1, <2>2, <2>3 DEF Space
<1>3. CASE \E f \in Selectors, g \in Labels, full \in FullCases : CaseItem(f, g, full)
  <2>1. PICK f \in Selectors, g \in Labels, full \in FullCases : CaseItem(f, g, full)
    BY <1>3
  <2> DEFINE frame == Frame("case", None, BuildExpr(f, Top), <<BuildExpr(g, Top)>>, full)
  <2>2. OpenContext(frame, "one") /\ CanVisit /\ UNCHANGED <<contextStack, exported, mixed, aborted>>
    BY <2>1 DEF CaseItem
  <2>3. frame.kind = "case" /\ frame.base = Len(contextStack)
    BY DEF Frame
  <2> HIDE DEF frame
  <2>4. QED BY <1>1, <2>2, <2>3 DEF Space
<1>4. CASE \E f \in Selectors : CaseWithoutItems(f)
  <2>1. PICK f \in Selectors : CaseWithoutItems(f)
    BY <1>4
  <2> DEFINE frame == Frame("default", None, BuildExpr(f, Top), <<>>, FALSE)
  <2>2. OpenContext(frame, "one") /\ CanVisit /\ UNCHANGED <<contextStack, exported, mixed, aborted>>
    BY <2>1 DEF CaseWithoutItems
  <2>3. frame.kind = "default" /\ frame.base = Len(contextStack)
    BY DEF Frame
  <2> HIDE DEF frame
  <2>4. QED BY <1>1, <2>2, <2>3 DEF Space
<1>5. CASE BlockStatement
  <2> DEFINE frame == Frame("block", None, None, <<>>, FALSE)
  <2>1. OpenContext(frame, "many") /\ CanVisit /\ UNCHANGED <<contextStack, exported, mixed, aborted>>
    BY <1>5 DEF BlockStatement
  <2>2. frame.kind = "block" /\ frame.base = Len(contextStack)
    BY DEF Frame
  <2> HIDE DEF frame
  <2>3. QED BY <1>1, <2>1, <2>2 DEF Space
<1>6. QED BY <1>2, <1>3, <1>4, <1>5

LEMMA BranchEffect ==
  ASSUME IInv,
         \/ ConditionalElse
         \/ \E g \in Labels : CaseNextItem(g)
         \/ CaseDefault
  PROVE  \E frame : Branching(frame)
<1>1. frames # <<>> => Inner \in FrameType
  BY InnerGood DEF IInv
<1>2. CASE ConditionalElse
  <2> DEFINE frame == [Inner EXCEPT !.kind = "else"]
  <2>1. /\ frames # <<>> /\ Inner.kind = "then" /\ NextBranch(frame)
        /\ UNCHANGED <<exported, mixed, aborted>>
    BY <1>2 DEF ConditionalElse, In
  <2>2. frame.kind = "else" /\ frame.base = Inner.base
    BY <1>1, <2>1 DEF FrameType
  <2> HIDE DEF frame
  <2>3. Branching(frame)
    BY <2>1, <2>2 DEF Branching
  <2>4. QED BY <2>3
<1>3. CASE \E g \in Labels : CaseNextItem(g)
  <2>1. PICK g \in Labels : CaseNextItem(g)
    BY <1>3
  <2> DEFINE frame == [Inner EXCEPT !.labels = Append(@, BuildExpr(g, Parent))]
  <2>2. /\ frames # <<>> /\ Inner.kind = "case" /\ NextBranch(frame)
        /\ UNCHANGED <<exported, mixed, aborted>>
    BY <2>1 DEF CaseNextItem, In
  <2>3. frame.kind = "case" /\ frame.base = Inner.base
    BY <1>1, <2>2 DEF FrameType
  <2> HIDE DEF frame
  <2>4. Branching(frame)
    BY <2>2, <2>3 DEF Branching
  <2>5. QED BY <2>4
<1>4. CASE CaseDefault
  <2> DEFINE frame == [Inner EXCEPT !.kind = "default", !.full = FALSE]
  <2>1. /\ frames # <<>> /\ Inner.kind = "case" /\ NextBranch(frame)
        /\ UNCHANGED <<exported, mixed, aborted>>
    BY <1>4 DEF CaseDefault, In
  <2>2. frame.kind = "default" /\ frame.base = Inner.base
    BY <1>1, <2>1 DEF FrameType
  <2> HIDE DEF frame
  <2>3. Branching(frame)
    BY <2>1, <2>2 DEF Branching
  <2>4. QED BY <2>3
<1>5. QED BY <1>2, <1>3, <1>4

(* The steps that are not the visit of an assignment or a declaration.     *)
LEMMA StructureKinds ==
  ASSUME IInv, Structure
  PROVE  \/ \E frame, space : space \in Space /\ Opening(frame, space)
         \/ \E frame : Branching(frame)
         \/ ConditionalEnd
         \/ CaseEnds
         \/ BlockEnd
         \/ ForLoopUnroll
         \/ Finish
         \/ UNCHANGED vars
<1>1. CASE \/ \E c \in Tests : Conditional(c)
           \/ \E f \in Selectors, g \in Labels, full \in FullCases : CaseItem(f, g, full)
           \/ \E f \in Selectors : CaseWithoutItems(f)
           \/ BlockStatement
  BY <1>1, OpenEffect
<1>2. CASE \/ ConditionalElse
           \/ \E g \in Labels : CaseNextItem(g)
           \/ CaseDefault
  BY <1>2, BranchEffect
<1>3. QED BY <1>1, <1>2 DEF Structure, Stopped, CaseEnds

-----------------------------------------------------------------------------
(* Locals, step by step.                                                   *)

LEMMA StackUnchanged ==
  ASSUME IInv, UNCHANGED <<contextStack, frames>>
  PROVE  /\ BasesGrow => BasesGrow'
         /\ LocalsInv /\ UNCHANGED <<contexts, exported>> => LocalsInv'
<1>1. BasesGrow => BasesGrow'
  BY DEF BasesGrow
<1>2. ASSUME LocalsInv, UNCHANGED <<contexts, exported>> PROVE LocalsInv'
  <2>1. LocalsStayInside'
    BY <1>2 DEF LocalsInv, LocalsStayInside
  <2>2. QED BY <1>2, <2>1 DEF LocalsInv, Outs
<1>3. QED BY <1>1, <1>2

(* What the innermost statement and its branches output, seen from its     *)
(* parent.                                                                 *)
LEMMA LocalsOfBranches ==
  ASSUME IInv, LocalsInv, frames # <<>>
  PROVE  /\ \A i \in Inner.base + 1..Len(contextStack) :
              Outs(contextStack[i]) \cap Local \subseteq Enclosing(contexts, Len(frames))
         /\ (Outs(Top) \ Top.locals) \cap Local \subseteq Enclosing(contexts, Len(frames))
         /\ Inner.kind # "block" => Top.locals = {}
<1> DEFINE n == Len(frames)
<1>1. /\ n \in Nat /\ n >= 1 /\ Len(contextStack) \in Nat
      /\ Top = contexts[n + 1] /\ Inner = frames[n]
  BY Depths DEF IInv
<1>2. Inner.base \in Nat
  BY InnerGood DEF IInv
<1>3. \A i \in 1..Len(contextStack) : Outs(contextStack[i]) \cap Local \subseteq Enclosing(contexts, n)
  BY <1>1 DEF LocalsInv
<1>4. Outs(Top) \cap Local \subseteq Enclosing(contexts, n + 1)
  BY <1>1 DEF LocalsInv
<1> HIDE DEF n
<1>5. Enclosing(contexts, n + 1) = Enclosing(contexts, n) \cup {v \in Var : v \in Top.locals}
  BY <1>1, EnclosingGrows
<1>6. \A i \in Inner.base + 1..Len(contextStack) : i \in 1..Len(contextStack)
  BY <1>1, <1>2
<1>7. Inner.kind # "block" => Top.locals = {}
  BY <1>1 DEF LocalsInv, n
<1>8. QED BY <1>3, <1>4, <1>5, <1>6, <1>7 DEF n

LEMMA LocalsConditionalEnd ==
  ASSUME IInv, BasesGrow, LocalsInv, ConditionalEnd
  PROVE  BasesGrow' /\ LocalsInv'
<1> DEFINE then == contextStack[Len(contextStack)]
           ctx == MergeConditional(Parent, Inner.cond, then, Top)
           names == Outs(then) \cup Outs(Top)
<1>1. /\ frames # <<>> /\ Inner.kind = "else" /\ Inner.base + 1 = Len(contextStack)
      /\ Inner.base \in Nat /\ Closes(ctx, names, ConditionalFlags(then, Top))
  BY ConditionalEndEffect
<1>2. then = contextStack[Inner.base + 1] /\ Inner.base + 1 \in Inner.base + 1..Len(contextStack)
  BY <1>1
<1> HIDE DEF then, ctx
<1>3. names \cap Local \subseteq Enclosing(contexts, Len(frames))
  BY <1>1, <1>2, LocalsOfBranches
<1> HIDE DEF names
<1>4. LocalsInv'
  BY <1>1, <1>3, LocalsClose
<1>5. BasesGrow'
  BY <1>1, BasesClose DEF Closes
<1>6. QED BY <1>4, <1>5

LEMMA LocalsCaseEnd ==
  ASSUME IInv, BasesGrow, LocalsInv, CaseEnds
  PROVE  BasesGrow' /\ LocalsInv'
<1>1. /\ frames # <<>> /\ Inner.kind \in {"case", "default"} /\ UNCHANGED exported
      /\ \E branches : CaseMerges(branches)
  BY CaseEndEffect
<1>2. PICK branches : CaseMerges(branches)
  BY <1>1
<1>3. CASE UNCHANGED <<contexts, contextStack, frames, room>>
  BY <1>1, <1>3, StackUnchanged
<1>4. CASE \E ctx : Closes(ctx, BranchOuts(branches), CaseFlags(branches))
  <2>1. PICK ctx : Closes(ctx, BranchOuts(branches), CaseFlags(branches))
    BY <1>4
  <2>2. \A k \in DOMAIN branches :
          Outs(branches[k]) \cap Local \subseteq Enclosing(contexts, Len(frames))
    <3> TAKE k \in DOMAIN branches
    <3>1. \/ \E i \in Inner.base + 1..Len(contextStack) : branches[k] = contextStack[i]
          \/ branches[k] = Top
          \/ Outs(branches[k]) = {}
      BY <1>2 DEF CaseMerges
    <3>2. Top.locals = {}
      BY <1>1, LocalsOfBranches
    <3>3. QED BY <1>1, <3>1, <3>2, LocalsOfBranches
  <2>3. BranchOuts(branches) \cap Local \subseteq Enclosing(contexts, Len(frames))
    BY <2>2 DEF BranchOuts
  <2>4. LocalsInv'
    BY <1>1, <2>1, <2>3, LocalsClose
  <2>5. BasesGrow'
    BY <1>1, <2>1, BasesClose DEF Closes
  <2>6. QED BY <2>4, <2>5
<1>5. QED BY <1>2, <1>3, <1>4 DEF CaseMerges

LEMMA LocalsBlockEnd ==
  ASSUME IInv, BasesGrow, LocalsInv, BlockEnd
  PROVE  BasesGrow' /\ LocalsInv'
<1>1. /\ frames # <<>>
      /\ Closes(MergeContext(Parent, Top), Outs(Top) \ Top.locals, BlockFlags(Top))
  BY BlockEndEffect
<1>2. (Outs(Top) \ Top.locals) \cap Local \subseteq Enclosing(contexts, Len(frames))
  BY <1>1, LocalsOfBranches
<1>3. LocalsInv'
  BY <1>1, <1>2, LocalsClose
<1>4. BasesGrow'
  BY <1>1, BasesClose DEF Closes
<1>5. QED BY <1>3, <1>4

LEMMA LocalsFinish ==
  ASSUME IInv, BasesGrow, LocalsInv, Finish
  PROVE  BasesGrow' /\ LocalsInv'
<1>1. /\ frames = <<>>
      /\ exported' = [v \in Var |-> IF v \in Outs(Top) THEN Top.outs[v].id ELSE None]
      /\ UNCHANGED <<contexts, contextStack, frames>>
  BY DEF Finish
<1>2. Len(frames) = 0 /\ Top = contexts[1]
  BY <1>1, Depths DEF IInv
<1>3. Outs(Top) \cap Local = {}
  <2>1. Outs(contexts[1]) \cap Local \subseteq Enclosing(contexts, 1)
    BY <1>2 DEF LocalsInv
  <2>2. Enclosing(contexts, 1) = {}
    BY DEF Enclosing, LocalsInv
  <2>3. QED BY <1>2, <2>1, <2>2
<1>4. Local \subseteq Var
  BY DeclsAreBlocking DEF Local
<1>5. LocalsStayInside'
  BY <1>1, <1>3, <1>4 DEF LocalsStayInside
<1>6. LocalsInv'
  BY <1>1, <1>5 DEF LocalsInv, Outs
<1>7. QED BY <1>1, <1>6, StackUnchanged

LEMMA LocalsNext ==
  ASSUME IInv, BasesGrow, LocalsInv, [Next]_vars
  PROVE  BasesGrow' /\ LocalsInv'
<1>1. CASE \E a \in Assigns : Assignment(a)
  <2>1. PICK a \in Assigns : Assignment(a)
    BY <1>1
  <2>2. /\ Stays(Restored(Top, a), Targets(a), [v \in Targets(a) |-> a.nb])
        /\ Restored(Top, a).locals = Top.locals
        /\ Targets(a) \subseteq Var
        /\ \A v \in Targets(a) \cap Local :
             \E k \in 1..Len(frames) + 1 : v \in contexts[k].locals
    BY <2>1, AssignmentEffect
  <2>3. Targets(a) \cap Local \subseteq Enclosing(contexts, Len(frames) + 1)
    BY <2>2 DEF Enclosing
  <2>4. LocalsInv'
    BY <2>2, <2>3, LocalsStay
  <2>5. BasesGrow'
    BY <2>2, StackUnchanged DEF Stays
  <2>6. QED BY <2>4, <2>5
<1>2. CASE \E d \in Decls : VariableDecl(d)
  <2>1. PICK d \in Decls : VariableDecl(d)
    BY <1>2
  <2>2. /\ Stays(Declared(Top, d), Initialised(d), [v \in Initialised(d) |-> FALSE])
        /\ Declared(Top, d).locals = Top.locals \cup {d.var}
        /\ frames # <<>> /\ Inner.kind = "block"
    BY <2>1, VariableDeclEffect
  <2>3. Initialised(d) \subseteq {d.var}
    BY DEF Initialised
  <2>4. LocalsInv'
    BY <2>2, <2>3, LocalsStay
  <2>5. BasesGrow'
    BY <2>2, StackUnchanged DEF Stays
  <2>6. QED BY <2>4, <2>5
<1>3. CASE \E frame, space : space \in Space /\ Opening(frame, space)
  <2>1. PICK frame, space : space \in Space /\ Opening(frame, space)
    BY <1>3
  <2>2. /\ OpenContext(frame, space) /\ room[Len(room)] # "full" /\ space \in Space
        /\ frame.base = Len(contextStack) /\ UNCHANGED <<contextStack, exported>>
    BY <2>1 DEF Opening
  <2>3. QED BY <2>2, LocalsOpen, BasesOpen
<1>4. CASE \E frame : Branching(frame)
  <2>1. PICK frame : Branching(frame)
    BY <1>4
  <2>2. /\ frames # <<>> /\ Inner.kind # "block" /\ frame.base = Inner.base
        /\ NextBranch(frame) /\ UNCHANGED exported
    BY <2>1 DEF Branching
  <2>3. QED BY <2>2, LocalsBranch, BasesBranch
<1>5. CASE ConditionalEnd
  BY <1>5, LocalsConditionalEnd
<1>6. CASE CaseEnds
  BY <1>6, LocalsCaseEnd
<1>7. CASE BlockEnd
  BY <1>7, LocalsBlockEnd
<1>8. CASE ForLoopUnroll
  BY <1>8, StackUnchanged DEF ForLoopUnroll
<1>9. CASE Finish
  BY <1>9, LocalsFinish
<1>10. CASE UNCHANGED vars
  BY <1>10, StackUnchanged DEF vars
<1>11. QED
  BY <1>1, <1>2, <1>3, <1>4, <1>5, <1>6, <1>7, <1>8, <1>9, <1>10, StructureKinds DEF Next

LEMMA LocalsInit == Init => BasesGrow /\ LocalsInv
<1> SUFFICES ASSUME Init PROVE BasesGrow /\ LocalsInv
  OBVIOUS
<1>1. Len(frames) = 0 /\ Len(contextStack) = 0 /\ contexts[1] = RootContext
  BY DEF Init
<1>2. contexts[1].locals = {} /\ Outs(contexts[1]) = {}
  BY <1>1 DEF RootContext, NoOuts, Outs
<1>3. LocalsStayInside
  BY DEF Init, LocalsStayInside
<1>4. QED BY <1>1, <1>2, <1>3 DEF BasesGrow, LocalsInv

-----------------------------------------------------------------------------
(* Texts that assign every name in one way only.  Then every flag a        *)
(* context or a merge computes for a name is the way the text assigns it.  *)

FlagsFixed(ctx) ==
  \A v \in Outs(ctx) : ctx.outs[v].last = Way[v] /\ ctx.outs[v].seen = {Way[v]}

FlagsInv ==
  /\ \A k \in 1..Len(frames) + 1 : FlagsFixed(contexts[k])
  /\ \A i \in 1..Len(contextStack) : FlagsFixed(contextStack[i])
  /\ ~aborted

LEMMA WayType == Way \in [Var -> BOOLEAN]
BY DEF Way

LEMMA OneFlag ==
  ASSUME NEW b \in BOOLEAN
  PROVE  (TRUE \in {b}) = b
<1>1. ASSUME TRUE \in {b} PROVE b
  <2>1. TRUE = b
    BY <1>1, Zenon
  <2>2. QED BY <2>1
<1>2. ASSUME b PROVE TRUE \in {b}
  <2>1. b = TRUE
    BY <1>2
  <2>2. QED BY <2>1, Zenon
<1>3. (TRUE \in {b}) \in BOOLEAN
  OBVIOUS
<1>4. QED BY <1>1, <1>2, <1>3

LEMMA FixedTransfer ==
  ASSUME NEW ctx \in Context, FlagsFixed(ctx), NEW names \in SUBSET Var, NEW nb, NEW new,
         Transferred(new, ctx, names, nb), \A v \in names : nb[v] = Way[v]
  PROVE  FlagsFixed(new)
<1>1. SUFFICES ASSUME NEW v \in Outs(new)
               PROVE  new.outs[v].last = Way[v] /\ new.outs[v].seen = {Way[v]}
  BY DEF FlagsFixed
<1>2. v \in Var
  BY DEF Outs
<1>3. CASE v \in names
  <2>1. new.outs[v].last = Way[v] /\ new.outs[v].seen = {Way[v]} \cup Flags(ctx, v)
    BY <1>3 DEF Transferred
  <2>2. Flags(ctx, v) \subseteq {Way[v]}
    BY <1>2 DEF Flags, FlagsFixed, Outs
  <2>3. QED BY <2>1, <2>2
<1>4. CASE v \notin names
  <2>1. new.outs[v] = ctx.outs[v] /\ v \in Outs(ctx)
    BY <1>1, <1>2, <1>4 DEF Transferred
  <2>2. QED BY <2>1 DEF FlagsFixed
<1>5. QED BY <1>3, <1>4

LEMMA FixedLastNb ==
  ASSUME NEW ctx, FlagsFixed(ctx), NEW v \in Outs(ctx)
  PROVE  LastNb(ctx.outs[v]) = Way[v]
<1>1. Way[v] \in BOOLEAN /\ ctx.outs[v].seen = {Way[v]}
  BY WayType DEF FlagsFixed, Outs
<1>2. (TRUE \in {Way[v]}) = Way[v]
  BY <1>1, OneFlag
<1>3. QED BY <1>1, <1>2 DEF LastNb

LEMMA FixedCase ==
  ASSUME NEW branches \in Seq(Context), \A k \in DOMAIN branches : FlagsFixed(branches[k])
  PROVE  /\ \A v \in BranchOuts(branches) : CaseFlag(branches, v) = Way[v]
         /\ CaseAssertion(branches)
<1>1. \A v \in BranchOuts(branches) : \A k \in Writers(branches, v) :
        branches[k].outs[v].last = Way[v]
  BY DEF Writers, FlagsFixed
<1>2. ASSUME NEW v \in BranchOuts(branches)
      PROVE  CaseFlag(branches, v) = Way[v]
  <2> DEFINE W == Writers(branches, v)
  <2>1. W # {} /\ W \in SUBSET Nat
    BY WritersProperties
  <2>2. (CHOOSE k \in W : \A m \in W : k <= m) \in W
    BY <2>1, LeastIndex
  <2>3. QED BY <1>1, <2>2 DEF CaseFlag
<1>3. QED BY <1>1, <1>2 DEF CaseAssertion

(* The flags through the shapes of step.                                   *)
LEMMA FixedStay ==
  ASSUME IInv, FlagsInv, NEW ctx, NEW names \in SUBSET Var, NEW nb, Stays(ctx, names, nb),
         \A v \in names : nb[v] = Way[v]
  PROVE  FlagsInv'
<1> DEFINE T == [ctx EXCEPT !.locals = Top.locals]
<1>1. /\ contexts' = [contexts EXCEPT ![Len(contexts)] = ctx]
      /\ UNCHANGED <<contextStack, frames, aborted>>
      /\ Transferred(T, Top, names, nb)
  BY DEF Stays
<1>2. Top = contexts[Len(frames) + 1] /\ Len(frames) \in Nat
  BY Depths DEF IInv
<1>3. Top \in Context /\ FlagsFixed(Top)
  BY <1>2, TopGood DEF IInv, FlagsInv
<1>4. T.outs = ctx.outs
  OBVIOUS
<1> HIDE DEF T
<1>5. FlagsFixed(T)
  BY <1>1, <1>3, FixedTransfer
<1>6. FlagsFixed(ctx)
  BY <1>4, <1>5 DEF FlagsFixed, Outs
<1>7. \A k \in 1..Len(frames) + 1 : contexts'[k] = IF k = Len(frames) + 1 THEN ctx ELSE contexts[k]
  BY <1>1, ReplaceShape DEF IInv
<1>8. \A k \in 1..Len(frames) + 1 : FlagsFixed(contexts'[k])
  BY <1>6, <1>7 DEF FlagsInv
<1>9. QED BY <1>1, <1>8 DEF FlagsInv, FlagsFixed, Outs

LEMMA FixedOpen ==
  ASSUME IInv, FlagsInv, NEW frame, NEW space \in Space, Opening(frame, space)
  PROVE  FlagsInv'
<1>1. /\ Len(frames') = Len(frames) + 1 /\ Len(frames) \in Nat
      /\ \A k \in 1..Len(frames) + 2 :
           contexts'[k] = IF k = Len(frames) + 2 THEN Child(Top) ELSE contexts[k]
  BY Depths, OpenShape DEF IInv, Opening
<1>2. Outs(Child(Top)) = {}
  BY TopGood, ChildShape DEF IInv
<1>3. FlagsFixed(Child(Top))
  BY <1>2 DEF FlagsFixed
<1>4. \A k \in 1..Len(frames) + 2 : FlagsFixed(contexts'[k])
  BY <1>1, <1>3 DEF FlagsInv
<1>5. UNCHANGED <<contextStack, aborted>> /\ Len(frames') + 1 = Len(frames) + 2
  BY <1>1 DEF Opening
<1>6. QED BY <1>4, <1>5 DEF FlagsInv, FlagsFixed, Outs

LEMMA FixedBranch ==
  ASSUME IInv, FlagsInv, NEW frame, Branching(frame)
  PROVE  FlagsInv'
<1>1. frames # <<>> /\ NextBranch(frame) /\ UNCHANGED aborted
  BY DEF Branching
<1>2. /\ Len(frames') = Len(frames) /\ Len(frames) \in Nat
      /\ Len(contextStack') = Len(contextStack) + 1 /\ Len(contextStack) \in Nat
      /\ Top = contexts[Len(frames) + 1]
      /\ \A k \in 1..Len(frames) + 1 :
           contexts'[k] = IF k = Len(frames) + 1 THEN Child(Parent) ELSE contexts[k]
      /\ \A k \in 1..Len(contextStack) + 1 :
           contextStack'[k] = IF k = Len(contextStack) + 1 THEN Top ELSE contextStack[k]
  BY <1>1, Depths, BranchShape DEF IInv
<1>3. Outs(Child(Parent)) = {}
  BY <1>1, InnerGood, ChildShape DEF IInv
<1>4. FlagsFixed(Child(Parent)) /\ FlagsFixed(Top)
  BY <1>2, <1>3 DEF FlagsFixed, FlagsInv
<1>5. \A k \in 1..Len(frames) + 1 : FlagsFixed(contexts'[k])
  BY <1>2, <1>4 DEF FlagsInv
<1>6. \A k \in 1..Len(contextStack) + 1 : FlagsFixed(contextStack'[k])
  BY <1>2, <1>4 DEF FlagsInv
<1>7. QED BY <1>1, <1>2, <1>5, <1>6 DEF FlagsInv, FlagsFixed, Outs

LEMMA FixedClose ==
  ASSUME IInv, FlagsInv, frames # <<>>, NEW ctx, NEW names \in SUBSET Var, NEW nb,
         Closes(ctx, names, nb), \A v \in names : nb[v] = Way[v], UNCHANGED aborted
  PROVE  FlagsInv'
<1>1. /\ CloseContext(ctx) /\ Transferred(ctx, Parent, names, nb)
      /\ Len(contextStack') = Inner.base
      /\ \A k \in 1..Inner.base : contextStack'[k] = contextStack[k]
  BY DEF Closes
<1>2. /\ Len(frames) \in Nat /\ Len(frames) >= 1 /\ Parent = contexts[Len(frames)]
      /\ Len(contextStack) \in Nat
  BY Depths DEF IInv
<1>3. /\ Len(frames') = Len(frames) - 1
      /\ \A k \in 1..Len(frames) : contexts'[k] = IF k = Len(frames) THEN ctx ELSE contexts[k]
  BY <1>1, CloseShape DEF IInv
<1>4. Parent \in Context /\ FlagsFixed(Parent)
  BY <1>2, InnerGood DEF IInv, FlagsInv
<1>5. FlagsFixed(ctx)
  BY <1>1, <1>4, FixedTransfer
<1>6. \A k \in 1..Len(frames) : FlagsFixed(contexts'[k])
  BY <1>2, <1>3, <1>5 DEF FlagsInv
<1>7. Inner.base \in Nat /\ Inner.base <= Len(contextStack)
  <2>1. Inner.base \in Nat /\ Inner.base + Parked(Inner) = Len(contextStack) /\ Parked(Inner) \in Nat
    BY InnerGood DEF IInv, Parked, FrameGood, FrameType
  <2>2. QED BY <1>2, <2>1
<1>8. \A k \in 1..Inner.base : FlagsFixed(contextStack'[k])
  BY <1>1, <1>2, <1>7 DEF FlagsInv
<1>9. Len(frames') + 1 = Len(frames)
  BY <1>2, <1>3
<1>10. QED BY <1>1, <1>6, <1>8, <1>9 DEF FlagsInv, FlagsFixed, Outs

LEMMA FixedConditionalEnd ==
  ASSUME IInv, FlagsInv, ConditionalEnd
  PROVE  FlagsInv'
<1> DEFINE then == contextStack[Len(contextStack)]
           ctx == MergeConditional(Parent, Inner.cond, then, Top)
           names == Outs(then) \cup Outs(Top)
<1>1. /\ frames # <<>> /\ Inner.base + 1 = Len(contextStack) /\ Inner.base \in Nat
      /\ Closes(ctx, names, ConditionalFlags(then, Top)) /\ UNCHANGED aborted
  BY ConditionalEndEffect
<1>2. FlagsFixed(then) /\ FlagsFixed(Top)
  <2>1. Len(contextStack) \in 1..Len(contextStack)
    BY <1>1
  <2>2. Top = contexts[Len(frames) + 1] /\ Len(frames) \in Nat
    BY Depths DEF IInv
  <2>3. QED BY <2>1, <2>2 DEF FlagsInv
<1> HIDE DEF then, ctx
<1>3. \A v \in names : ConditionalFlags(then, Top)[v] = Way[v]
  <2> TAKE v \in names
  <2>1. ConditionalFlags(then, Top)[v] = (NbIn(then, v) \/ NbIn(Top, v))
    BY DEF ConditionalFlags
  <2>2. Way[v] \in BOOLEAN
    BY WayType DEF Outs
  <2>3. v \in Outs(then) => NbIn(then, v) = Way[v]
    BY <1>2, <2>2, FixedLastNb DEF NbIn
  <2>4. v \in Outs(Top) => NbIn(Top, v) = Way[v]
    BY <1>2, <2>2, FixedLastNb DEF NbIn
  <2>5. v \notin Outs(then) => NbIn(then, v) = FALSE
    BY DEF NbIn
  <2>6. v \notin Outs(Top) => NbIn(Top, v) = FALSE
    BY DEF NbIn
  <2>7. QED BY <2>1, <2>2, <2>3, <2>4, <2>5, <2>6
<1>4. names \in SUBSET Var
  BY DEF Outs
<1> HIDE DEF names
<1>5. QED BY <1>1, <1>3, <1>4, FixedClose

LEMMA FixedCaseEnd ==
  ASSUME IInv, FlagsInv, CaseEnds
  PROVE  FlagsInv'
<1>1. frames # <<>> /\ \E branches : CaseMerges(branches)
  BY CaseEndEffect
<1>2. PICK branches : CaseMerges(branches)
  BY <1>1
<1>3. branches \in Seq(Context)
  BY <1>2 DEF CaseMerges
<1>4. \A k \in DOMAIN branches : FlagsFixed(branches[k])
  <2> TAKE k \in DOMAIN branches
  <2>1. \/ \E i \in Inner.base + 1..Len(contextStack) : branches[k] = contextStack[i]
        \/ branches[k] = Top
        \/ Outs(branches[k]) = {}
    BY <1>2 DEF CaseMerges
  <2>2. \A i \in Inner.base + 1..Len(contextStack) : i \in 1..Len(contextStack)
    <3>1. Inner.base \in Nat /\ Len(contextStack) \in Nat
      BY <1>1, InnerGood, Depths DEF IInv
    <3>2. QED BY <3>1
  <2>3. Top = contexts[Len(frames) + 1] /\ Len(frames) \in Nat
    BY Depths DEF IInv
  <2>4. FlagsFixed(Top)
    BY <2>3 DEF FlagsInv
  <2>5. Outs(branches[k]) = {} => FlagsFixed(branches[k])
    BY DEF FlagsFixed
  <2>6. QED BY <2>1, <2>2, <2>4, <2>5 DEF FlagsInv
<1>5. /\ \A v \in BranchOuts(branches) : CaseFlag(branches, v) = Way[v]
      /\ CaseAssertion(branches)
  BY <1>3, <1>4, FixedCase
<1>6. PICK ctx : Closes(ctx, BranchOuts(branches), CaseFlags(branches))
  BY <1>2, <1>5 DEF CaseMerges
<1>7. UNCHANGED aborted
  BY <1>2, <1>5 DEF CaseMerges
<1>8. BranchOuts(branches) \in SUBSET Var
  BY <1>3, WritersProperties
<1>9. \A v \in BranchOuts(branches) : CaseFlags(branches)[v] = Way[v]
  BY <1>5 DEF CaseFlags
<1>10. QED BY <1>1, <1>6, <1>7, <1>8, <1>9, FixedClose

LEMMA FixedBlockEnd ==
  ASSUME IInv, FlagsInv, BlockEnd
  PROVE  FlagsInv'
<1> DEFINE names == Outs(Top) \ Top.locals
<1>1. /\ frames # <<>> /\ UNCHANGED aborted
      /\ Closes(MergeContext(Parent, Top), names, BlockFlags(Top))
  BY BlockEndEffect
<1>2. FlagsFixed(Top)
  <2>1. Top = contexts[Len(frames) + 1] /\ Len(frames) \in Nat
    BY Depths DEF IInv
  <2>2. QED BY <2>1 DEF FlagsInv
<1>3. \A v \in names : BlockFlags(Top)[v] = Way[v]
  BY <1>2, FixedLastNb DEF BlockFlags
<1>4. names \in SUBSET Var
  BY DEF Outs
<1> HIDE DEF names
<1>5. QED BY <1>1, <1>3, <1>4, FixedClose

LEMMA FixedSame ==
  ASSUME FlagsInv, UNCHANGED <<contexts, contextStack, frames, aborted>>
  PROVE  FlagsInv'
BY DEF FlagsInv, FlagsFixed, Outs

LEMMA FlagsNext ==
  ASSUME OneWay, IInv, FlagsInv, [Next]_vars
  PROVE  FlagsInv'
<1>1. CASE \E a \in Assigns : Assignment(a)
  <2>1. PICK a \in Assigns : Assignment(a)
    BY <1>1
  <2> DEFINE nb == [v \in Targets(a) |-> a.nb]
  <2>2. Stays(Restored(Top, a), Targets(a), nb) /\ Targets(a) \in SUBSET Var
    BY <2>1, AssignmentEffect
  <2>3. \A v \in Targets(a) : nb[v] = Way[v]
    BY DEF OneWay
  <2> HIDE DEF nb
  <2>4. QED BY <2>2, <2>3, FixedStay
<1>2. CASE \E d \in Decls : VariableDecl(d)
  <2>1. PICK d \in Decls : VariableDecl(d)
    BY <1>2
  <2> DEFINE nb == [v \in Initialised(d) |-> FALSE]
  <2>2. Stays(Declared(Top, d), Initialised(d), nb) /\ d.var \in Var
    BY <2>1, VariableDeclEffect
  <2>3. \A v \in Initialised(d) : nb[v] = Way[v]
    BY DEF OneWay, Initialised
  <2>4. Initialised(d) \in SUBSET Var
    BY <2>2 DEF Initialised
  <2> HIDE DEF nb
  <2>5. QED BY <2>2, <2>3, <2>4, FixedStay
<1>3. CASE \E frame, space : space \in Space /\ Opening(frame, space)
  BY <1>3, FixedOpen
<1>4. CASE \E frame : Branching(frame)
  BY <1>4, FixedBranch
<1>5. CASE ConditionalEnd
  BY <1>5, FixedConditionalEnd
<1>6. CASE CaseEnds
  BY <1>6, FixedCaseEnd
<1>7. CASE BlockEnd
  BY <1>7, FixedBlockEnd
<1>8. CASE ForLoopUnroll
  BY <1>8, FixedSame DEF ForLoopUnroll
<1>9. CASE Finish
  BY <1>9, FixedSame DEF Finish
<1>10. CASE UNCHANGED vars
  BY <1>10, FixedSame DEF vars
<1>11. QED
  BY <1>1, <1>2, <1>3, <1>4, <1>5, <1>6, <1>7, <1>8, <1>9, <1>10, StructureKinds DEF Next

LEMMA FlagsInit == Init => FlagsInv
<1> SUFFICES ASSUME Init PROVE FlagsInv
  OBVIOUS
<1>1. Len(frames) = 0 /\ Len(contextStack) = 0 /\ contexts[1] = RootContext /\ ~aborted
  BY DEF Init
<1>2. Outs(contexts[1]) = {}
  BY <1>1 DEF RootContext, NoOuts, Outs
<1>3. QED BY <1>1, <1>2 DEF FlagsInv, FlagsFixed

-----------------------------------------------------------------------------
(* The theorems.                                                           *)

(* In every run of the visitor, over every process text, the builder's     *)
(* vectors and maps hold what IInv says.                                   *)
THEOREM InvariantHolds == Spec => []IInv
<1>1. Init => IInv
  BY InitEstablishes
<1>2. IInv /\ [Next]_vars => IInv'
  BY NextKeepsIInv
<1>3. QED BY <1>1, <1>2, PTL DEF Spec

(* Whatever the process, every context, parked branch and open statement   *)
(* has its type, and contexts_ holds one context per open statement.       *)
THEOREM TypeCorrect == Spec => []TypeOK
<1>1. IInv => TypeOK
  BY DEF IInv, Core, Outcome, TypeOK, Space
<1>2. QED BY <1>1, InvariantHolds, PTL

(* Whatever the process and however deeply it nests, a statement that ends *)
(* finds exactly its own finished branches above its base: the asserted    *)
(* sizes of context_stack_ in merge_conditional and merge_case hold.       *)
THEOREM StackDisciplineHolds == Spec => []StackDiscipline
<1>1. IInv => StackDiscipline
  BY DEF IInv, Core
<1>2. QED BY <1>1, InvariantHolds, PTL

(* Whatever the process, blocking or nonblocking, the expression a context *)
(* hands on for a name is the one scheduled for it.                        *)
THEOREM OutputsScheduled == Spec => []OutputsAreScheduled
<1>1. ASSUME IInv PROVE OutputsAreScheduled
  <2>1. \A ctx \in Range(contexts) : Good(ctx)
    BY <1>1 DEF IInv, Core, Range
  <2>2. \A ctx \in Range(contextStack) : Good(ctx)
    BY SMTT(20), <1>1 DEF IInv, Core, Range
  <2>3. QED BY <2>1, <2>2 DEF OutputsAreScheduled, Good
<1>2. QED BY <1>1, InvariantHolds, PTL

(* However blocks, branches and loops nest, no variable declared inside    *)
(* the process is an output of it: a block's context drops its own names   *)
(* when it is merged, and every context that can hold such a name as an    *)
(* output, open or parked, lies inside that block.                         *)
THEOREM LocalsInside == Spec => []LocalsStayInside
<1>1. Init => BasesGrow /\ LocalsInv
  BY LocalsInit
<1>2. IInv /\ BasesGrow /\ LocalsInv /\ [Next]_vars => (BasesGrow /\ LocalsInv)'
  BY LocalsNext
<1>3. LocalsInv => LocalsStayInside
  BY DEF LocalsInv
<1>4. QED BY <1>1, <1>2, <1>3, InvariantHolds, PTL DEF Spec

(* A text that assigns every name in one way only never trips the          *)
(* assertion of merge_case: through any nesting, all branches that output  *)
(* a name carry the same flag for it.                                      *)
THEOREM BranchesAgree ==
  ASSUME OneWay
  PROVE  Spec => []CaseBranchesAgree
<1>1. Init => FlagsInv
  BY FlagsInit
<1>2. IInv /\ FlagsInv /\ [Next]_vars => FlagsInv'
  BY FlagsNext
<1>3. FlagsInv => CaseBranchesAgree
  BY DEF FlagsInv, CaseBranchesAgree
<1>4. QED BY <1>1, <1>2, <1>3, InvariantHolds, PTL DEF Spec
=============================================================================

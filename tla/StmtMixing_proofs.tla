-------------------------- MODULE StmtMixing_proofs --------------------------
(***************************************************************************)
(* Proofs about StmtMixing: what the flags of outputs, kept through every  *)
(* merge, say about the assignments visited so far, and that this is       *)
(* enough to report a name that is assigned both ways.                     *)
(***************************************************************************)
EXTENDS StmtMixing, StmtBuilder_proofs

-----------------------------------------------------------------------------
(* The contexts on both stacks, as a set.                                  *)

Held == {contexts[k] : k \in 1..Len(frames) + 1} \cup
        {contextStack[i] : i \in 1..Len(contextStack)}

(* The branches of the innermost statement: parked, and on top.            *)
Branches == {contextStack[i] : i \in Inner.base + 1..Len(contextStack)} \cup {Top}

LEMMA HeldNow ==
  ASSUME IInv
  PROVE  /\ Top \in Held /\ (frames # <<>> => Parent \in Held /\ Branches \subseteq Held)
         /\ \A ctx \in Held : Good(ctx) /\ ctx \in Context
<1>1. /\ Len(frames) \in Nat /\ Top = contexts[Len(frames) + 1] /\ Len(contextStack) \in Nat
      /\ frames # <<>> => Len(frames) >= 1 /\ Parent = contexts[Len(frames)]
  BY Depths DEF IInv
<1>2. Top \in Held
  BY <1>1 DEF Held
<1>3. ASSUME frames # <<>> PROVE Parent \in Held /\ Branches \subseteq Held
  <2>1. Parent \in Held
    BY <1>1, <1>3 DEF Held
  <2>2. Inner.base \in Nat
    BY <1>3, InnerGood DEF IInv
  <2>3. \A i \in Inner.base + 1..Len(contextStack) : i \in 1..Len(contextStack)
    BY <1>1, <2>2
  <2>4. QED BY <1>2, <2>1, <2>3 DEF Held, Branches
<1>4. \A k \in 1..Len(frames) + 1 : Good(contexts[k])
  BY Depths DEF IInv, Core
<1>5. \A i \in 1..Len(contextStack) : Good(contextStack[i])
  BY DEF IInv, Core
<1>6. \A ctx \in Held : Good(ctx)
  BY <1>4, <1>5 DEF Held
<1>7. QED BY <1>2, <1>3, <1>6 DEF Good

(* What each shape of step adds and takes.                                 *)
LEMMA HeldStay ==
  ASSUME IInv, NEW ctx, NEW names, NEW nb, Stays(ctx, names, nb)
  PROVE  Held' \subseteq Held \cup {ctx} /\ Held \subseteq Held' \cup {Top} /\ ctx \in Held'
<1>1. /\ Len(frames) \in Nat /\ Top = contexts[Len(frames) + 1]
      /\ UNCHANGED <<contextStack, frames>>
      /\ \A k \in 1..Len(frames) + 1 :
           contexts'[k] = IF k = Len(frames) + 1 THEN ctx ELSE contexts[k]
  BY Depths, ReplaceShape DEF IInv, Stays
<1>2. Held' = {contexts'[k] : k \in 1..Len(frames) + 1} \cup
              {contextStack[i] : i \in 1..Len(contextStack)}
  BY <1>1 DEF Held
<1>3. ctx \in Held'
  <2>1. Len(frames) + 1 \in 1..Len(frames) + 1
    BY <1>1
  <2>2. QED BY <1>1, <1>2, <2>1
<1>4. Held' \subseteq Held \cup {ctx}
  BY <1>1, <1>2 DEF Held
<1>5. Held \subseteq Held' \cup {Top}
  BY <1>1, <1>2 DEF Held
<1>6. QED BY <1>3, <1>4, <1>5

LEMMA HeldOpen ==
  ASSUME IInv, NEW frame, NEW space \in Space, Opening(frame, space)
  PROVE  Held' \subseteq Held \cup {Child(Top)} /\ Held \subseteq Held'
<1>1. /\ Len(frames') = Len(frames) + 1 /\ Len(frames) \in Nat /\ UNCHANGED contextStack
      /\ \A k \in 1..Len(frames) + 2 :
           contexts'[k] = IF k = Len(frames) + 2 THEN Child(Top) ELSE contexts[k]
  BY Depths, OpenShape DEF IInv, Opening
<1>2. Held' = {contexts'[k] : k \in 1..Len(frames) + 2} \cup
              {contextStack[i] : i \in 1..Len(contextStack)}
  BY <1>1 DEF Held
<1>3. \A k \in 1..Len(frames) + 2 : k = Len(frames) + 2 \/ k \in 1..Len(frames) + 1
  BY <1>1
<1>4. Held' \subseteq Held \cup {Child(Top)}
  BY <1>1, <1>2, <1>3 DEF Held
<1>5. \A k \in 1..Len(frames) + 1 : k \in 1..Len(frames) + 2 /\ contexts'[k] = contexts[k]
  BY <1>1
<1>6. Held \subseteq Held'
  BY <1>2, <1>5 DEF Held
<1>7. QED BY <1>4, <1>6

LEMMA HeldBranch ==
  ASSUME IInv, NEW frame, Branching(frame)
  PROVE  Held' \subseteq Held \cup {Child(Parent)} /\ Held \subseteq Held'
<1> DEFINE n == Len(frames)
           c == Len(contextStack)
<1>1. /\ Len(frames') = n /\ n \in Nat /\ Len(contextStack') = c + 1 /\ c \in Nat
      /\ Top = contexts[n + 1]
      /\ \A k \in 1..n + 1 : contexts'[k] = IF k = n + 1 THEN Child(Parent) ELSE contexts[k]
      /\ \A k \in 1..c + 1 : contextStack'[k] = IF k = c + 1 THEN Top ELSE contextStack[k]
  BY Depths, BranchShape DEF IInv, Branching
<1>2. /\ Held = {contexts[k] : k \in 1..n + 1} \cup {contextStack[i] : i \in 1..c}
      /\ Held' = {contexts'[k] : k \in 1..n + 1} \cup {contextStack'[i] : i \in 1..c + 1}
  BY <1>1 DEF Held
<1> HIDE DEF n, c
<1>3. \A i \in 1..c + 1 : i = c + 1 \/ i \in 1..c
  BY <1>1
<1>4. Top \in {contexts[k] : k \in 1..n + 1}
  BY <1>1
<1>5. Held' \subseteq Held \cup {Child(Parent)}
  BY <1>1, <1>2, <1>3, <1>4
<1>6. c + 1 \in 1..c + 1 /\ contextStack'[c + 1] = Top
  BY <1>1
<1>7. \A i \in 1..c : i \in 1..c + 1 /\ contextStack'[i] = contextStack[i]
  BY <1>1
<1>8. \A k \in 1..n + 1 : contexts[k] = Top \/ contexts'[k] = contexts[k]
  BY <1>1
<1>9. Held \subseteq Held'
  BY <1>2, <1>6, <1>7, <1>8
<1>10. QED BY <1>5, <1>9

LEMMA HeldClose ==
  ASSUME IInv, frames # <<>>, NEW ctx, NEW names, NEW nb, Closes(ctx, names, nb)
  PROVE  /\ Held' \subseteq Held \cup {ctx} /\ ctx \in Held'
         /\ Held \subseteq Held' \cup {Parent} \cup Branches
<1> DEFINE n == Len(frames)
           c == Len(contextStack)
           b == Inner.base
<1>1. /\ Len(frames') = n - 1 /\ n \in Nat /\ n >= 1 /\ Len(contextStack') = b
      /\ Top = contexts[n + 1] /\ Parent = contexts[n] /\ c \in Nat
      /\ \A k \in 1..n : contexts'[k] = IF k = n THEN ctx ELSE contexts[k]
      /\ \A i \in 1..b : contextStack'[i] = contextStack[i]
  BY Depths, CloseShape DEF IInv, Closes
<1>2. b \in Nat /\ b <= c
  <2>1. b \in Nat /\ b + Parked(Inner) = c /\ Parked(Inner) \in Nat
    BY InnerGood DEF IInv, Parked, FrameGood, FrameType
  <2>2. QED BY <1>1, <2>1
<1>3. /\ Held = {contexts[k] : k \in 1..n + 1} \cup {contextStack[i] : i \in 1..c}
      /\ Branches = {contextStack[i] : i \in b + 1..c} \cup {Top}
  BY DEF Held, Branches
<1>4. Held' = {contexts'[k] : k \in 1..n} \cup {contextStack'[i] : i \in 1..b}
  <2>1. Len(frames') + 1 = n
    BY <1>1
  <2>2. QED BY <1>1, <2>1 DEF Held
<1> HIDE DEF n, c, b
<1>5. ctx \in Held'
  BY <1>1, <1>4
<1>6. /\ \A k \in 1..n : k \in 1..n + 1 /\ (contexts'[k] = ctx \/ contexts'[k] = contexts[k])
      /\ \A i \in 1..b : i \in 1..c /\ contextStack'[i] = contextStack[i]
  BY <1>1, <1>2
<1>7. Held' \subseteq Held \cup {ctx}
  BY <1>3, <1>4, <1>6
<1>8. /\ \A k \in 1..n + 1 : contexts[k] \in {Parent, Top} \/ (k \in 1..n /\ contexts'[k] = contexts[k])
      /\ \A i \in 1..c : i \in b + 1..c \/ (i \in 1..b /\ contextStack'[i] = contextStack[i])
  BY <1>1, <1>2
<1>9. Held \subseteq Held' \cup {Parent} \cup Branches
  BY <1>3, <1>4, <1>8
<1>10. QED BY <1>5, <1>7, <1>9

LEMMA TransferredFlags ==
  ASSUME NEW new, NEW ctx, NEW names, NEW nb, Transferred(new, ctx, names, nb), NEW v \in Var
  PROVE  Flags(new, v) = IF v \in names THEN {nb[v]} \cup Flags(ctx, v) ELSE Flags(ctx, v)
BY ZenonT(40) DEF Transferred, Flags, Outs

-----------------------------------------------------------------------------
(* What the flags say of the assignments: every flag of an output is the   *)
(* way of an assignment visited, the last one included.                    *)

Known(ctx, w) ==
  \A v \in Outs(ctx) : /\ ctx.outs[v].last \in ctx.outs[v].seen
                       /\ ctx.outs[v].seen \subseteq w[v]

Ways == [Var -> SUBSET BOOLEAN]

Grows(w, x) == \A v \in Var : w[v] \subseteq x[v]

LEMMA KnownGrows ==
  ASSUME NEW ctx, NEW w, NEW x, Known(ctx, w), Grows(w, x)
  PROVE  Known(ctx, x)
<1>1. Outs(ctx) \subseteq Var
  BY DEF Outs
<1>2. QED BY <1>1 DEF Known, Grows

LEMMA KnownTransfer ==
  ASSUME NEW ctx, NEW w, Known(ctx, w), NEW names \in SUBSET Var, NEW nb, NEW new,
         Transferred(new, ctx, names, nb), \A v \in names : nb[v] \in w[v]
  PROVE  Known(new, w)
<1>1. SUFFICES ASSUME NEW v \in Outs(new)
               PROVE  new.outs[v].last \in new.outs[v].seen /\ new.outs[v].seen \subseteq w[v]
  BY DEF Known
<1>2. v \in Var
  BY DEF Outs
<1>3. CASE v \in names
  <2>1. new.outs[v].last = nb[v] /\ new.outs[v].seen = {nb[v]} \cup Flags(ctx, v)
    BY <1>3 DEF Transferred
  <2>2. Flags(ctx, v) \subseteq w[v]
    BY <1>2 DEF Flags, Known, Outs
  <2>3. QED BY <1>3, <2>1, <2>2
<1>4. CASE v \notin names
  <2>1. new.outs[v] = ctx.outs[v] /\ v \in Outs(ctx)
    BY <1>1, <1>2, <1>4 DEF Transferred
  <2>2. QED BY <2>1 DEF Known
<1>5. QED BY <1>3, <1>4

LEMMA KnownEmpty ==
  ASSUME NEW ctx, NEW w, Outs(ctx) = {}
  PROVE  Known(ctx, w)
BY DEF Known

LEMMA NotMember ==
  ASSUME NEW x, NEW s, x \notin s
  PROVE  (x \in s) = FALSE
OBVIOUS

LEMMA Member ==
  ASSUME NEW x, NEW s, x \in s
  PROVE  (x \in s) = TRUE
OBVIOUS

LEMMA LastNbType ==
  ASSUME NEW out
  PROVE  LastNb(out) \in BOOLEAN
BY DEF LastNb

(* The flag a merge hands on is one of those seen.                         *)
LEMMA LastNbKnown ==
  ASSUME NEW ctx \in Context, NEW w \in Ways, Known(ctx, w), NEW v \in Outs(ctx)
  PROVE  LastNb(ctx.outs[v]) \in w[v] /\ ctx.outs[v].last \in w[v]
<1> DEFINE seen == ctx.outs[v].seen
<1>1. ctx.outs[v].last \in seen /\ seen \subseteq w[v] /\ seen \subseteq BOOLEAN
  BY SlotOfOut DEF Known, Slot
<1>2. LastNb(ctx.outs[v]) = (TRUE \in seen)
  BY DEF LastNb
<1> HIDE DEF seen
<1>3. CASE TRUE \in seen
  <2>1. LastNb(ctx.outs[v]) = TRUE
    BY <1>2, <1>3
  <2>2. QED BY <1>1, <1>3, <2>1, Zenon
<1>4. CASE TRUE \notin seen
  <2>1. LastNb(ctx.outs[v]) = FALSE
    <3>1. (TRUE \in seen) = FALSE
      BY <1>4, NotMember, Zenon
    <3>2. QED BY <1>2, <3>1, Zenon
  <2>2. FALSE \in seen
    <3>1. ctx.outs[v].last \in BOOLEAN
      BY <1>1
    <3>2. ctx.outs[v].last = TRUE \/ ctx.outs[v].last = FALSE
      BY <3>1
    <3>3. QED BY <1>1, <1>4, <3>2, Zenon
  <2>3. QED BY <1>1, <2>1, <2>2, Zenon
<1>5. QED BY <1>3, <1>4

LEMMA MixedKnown ==
  ASSUME NEW ctx \in Context, NEW w \in Ways, Known(ctx, w), NEW v \in MixedOuts(ctx)
  PROVE  w[v] = BOOLEAN
<1>1. v \in Outs(ctx) /\ v \in Var /\ ctx.outs[v].seen = BOOLEAN
  BY DEF MixedOuts, Outs
<1>2. QED BY <1>1 DEF Known, Ways

LEMMA TwoWays ==
  ASSUME NEW w \in Ways, NEW v \in Var, NEW f \in w[v], NEW g \in w[v], f # g
  PROVE  w[v] = BOOLEAN
<1>1. f \in BOOLEAN /\ g \in BOOLEAN
  BY DEF Ways
<1>2. (f = TRUE /\ g = FALSE) \/ (f = FALSE /\ g = TRUE)
  BY <1>1
<1>3. TRUE \in w[v] /\ FALSE \in w[v]
  BY <1>2, Zenon
<1>4. QED BY <1>3 DEF Ways

-----------------------------------------------------------------------------
(* The invariant, for any text.                                            *)

(* Has a context seen a blocking assignment to v?                          *)
Blocked(ctx, v) == FALSE \in Flags(ctx, v)

(* A name no blocking assignment of an open context has touched reads as   *)
(* it does one context further out.                                        *)
Hidden ==
  \A k \in 1..Len(frames) : \A v \in Var :
    ~Blocked(contexts[k + 1], v) => contexts[k + 1].cur[v] = contexts[k].cur[v]

Seen ==
  /\ ways \in Ways
  /\ \A ctx \in Held : Known(ctx, ways)
  /\ mixed \subseteq AssignedBothWays
  /\ aborted => AssignedBothWays # {}

LEMMA SeenGrows ==
  ASSUME Seen, ways' \in Ways, Grows(ways, ways')
  PROVE  AssignedBothWays \subseteq AssignedBothWays' /\ \A ctx \in Held : Known(ctx, ways')
<1>1. \A ctx \in Held : Known(ctx, ways')
  BY KnownGrows DEF Seen
<1>2. \A v \in Var : ways[v] = BOOLEAN => ways'[v] = BOOLEAN
  BY DEF Seen, Ways, Grows
<1>3. QED BY <1>1, <1>2 DEF AssignedBothWays

LEMMA SeenStay ==
  ASSUME IInv, Seen, ways' \in Ways, Grows(ways, ways'), UNCHANGED mixed,
         NEW ctx, NEW names \in SUBSET Var, NEW nb, Stays(ctx, names, nb),
         \A v \in names : nb[v] \in ways'[v]
  PROVE  Seen'
<1> DEFINE T == [ctx EXCEPT !.locals = Top.locals]
<1>1. UNCHANGED aborted /\ Transferred(T, Top, names, nb)
  BY DEF Stays
<1>2. Known(Top, ways')
  BY SeenGrows, HeldNow
<1>3. T.outs = ctx.outs
  OBVIOUS
<1> HIDE DEF T
<1>4. Known(T, ways')
  BY <1>1, <1>2, KnownTransfer
<1>5. Known(ctx, ways')
  BY <1>3, <1>4 DEF Known, Outs
<1>6. \A c \in Held' : Known(c, ways')
  BY <1>5, HeldStay, SeenGrows
<1>7. QED BY <1>1, <1>6, SeenGrows DEF Seen, Known, Outs

LEMMA SeenOpen ==
  ASSUME IInv, Seen, UNCHANGED ways, NEW frame, NEW space \in Space, Opening(frame, space)
  PROVE  Seen'
<1>1. Held' \subseteq Held \cup {Child(Top)} /\ UNCHANGED <<mixed, aborted>>
  BY HeldOpen DEF Opening
<1>2. Outs(Child(Top)) = {}
  BY TopGood, ChildShape DEF IInv
<1>3. \A c \in Held' : Known(c, ways)
  BY <1>1, <1>2, KnownEmpty DEF Seen
<1>4. QED BY <1>1, <1>3 DEF Seen, Known, Outs, AssignedBothWays

LEMMA SeenBranch ==
  ASSUME IInv, Seen, UNCHANGED ways, NEW frame, Branching(frame)
  PROVE  Seen'
<1>1. Held' \subseteq Held \cup {Child(Parent)} /\ UNCHANGED <<mixed, aborted>> /\ frames # <<>>
  BY HeldBranch DEF Branching
<1>2. Outs(Child(Parent)) = {}
  BY <1>1, InnerGood, ChildShape DEF IInv
<1>3. \A c \in Held' : Known(c, ways)
  BY <1>1, <1>2, KnownEmpty DEF Seen
<1>4. QED BY <1>1, <1>3 DEF Seen, Known, Outs, AssignedBothWays

LEMMA SeenClose ==
  ASSUME IInv, Seen, UNCHANGED <<ways, aborted>>, frames # <<>>,
         NEW ctx, NEW names \in SUBSET Var, NEW nb, Closes(ctx, names, nb),
         \A v \in names : nb[v] \in ways[v],
         mixed' \subseteq AssignedBothWays
  PROVE  Seen'
<1>1. Known(Parent, ways) /\ Transferred(ctx, Parent, names, nb)
  BY HeldNow DEF Seen, Closes
<1>2. Known(ctx, ways)
  BY <1>1, KnownTransfer
<1>3. \A c \in Held' : Known(c, ways)
  BY <1>2, HeldClose DEF Seen
<1>4. QED BY <1>3 DEF Seen, Known, Outs, AssignedBothWays

LEMMA SeenBlockEnd ==
  ASSUME IInv, Seen, UNCHANGED ways, BlockEnd
  PROVE  Seen'
<1> DEFINE names == Outs(Top) \ Top.locals
<1>1. /\ frames # <<>> /\ UNCHANGED aborted /\ mixed' = mixed \cup MixedOuts(Top)
      /\ Closes(MergeContext(Parent, Top), names, BlockFlags(Top))
  BY BlockEndEffect
<1>2. Known(Top, ways) /\ Top \in Context /\ ways \in Ways
  BY HeldNow DEF Seen
<1>3. \A v \in names : BlockFlags(Top)[v] \in ways[v]
  BY <1>2, LastNbKnown DEF BlockFlags
<1>4. names \in SUBSET Var
  BY DEF Outs
<1>5. MixedOuts(Top) \subseteq AssignedBothWays
  BY <1>2, MixedKnown DEF AssignedBothWays, MixedOuts, Outs
<1>6. mixed' \subseteq AssignedBothWays
  BY <1>1, <1>5 DEF Seen
<1> HIDE DEF names
<1>7. QED BY <1>1, <1>3, <1>4, <1>6, SeenClose

LEMMA SeenConditionalEnd ==
  ASSUME IInv, Seen, UNCHANGED ways, ConditionalEnd
  PROVE  Seen'
<1> DEFINE then == contextStack[Len(contextStack)]
           names == Outs(then) \cup Outs(Top)
           ctx == MergeConditional(Parent, Inner.cond, then, Top)
<1>1. /\ frames # <<>> /\ UNCHANGED aborted /\ mixed' = mixed \cup ConditionalMixes(then, Top)
      /\ Inner.base + 1 = Len(contextStack) /\ Inner.base \in Nat
      /\ Closes(ctx, names, ConditionalFlags(then, Top))
  BY ConditionalEndEffect
<1>2. then \in Branches /\ Top \in Branches
  <2>1. Len(contextStack) \in Inner.base + 1..Len(contextStack)
    BY <1>1
  <2>2. QED BY <2>1 DEF Branches
<1>3. /\ Known(Top, ways) /\ Top \in Context /\ ways \in Ways
      /\ Known(then, ways) /\ then \in Context
  BY <1>1, <1>2, HeldNow DEF Seen
<1> HIDE DEF then, ctx
<1>4. ASSUME NEW v \in names
      PROVE  ConditionalFlags(then, Top)[v] \in ways[v]
  <2>1. ConditionalFlags(then, Top)[v] = (NbIn(then, v) \/ NbIn(Top, v))
    BY DEF ConditionalFlags
  <2>2. v \in Outs(then) => LastNb(then.outs[v]) \in ways[v]
    BY <1>3, LastNbKnown
  <2>3. v \in Outs(Top) => LastNb(Top.outs[v]) \in ways[v]
    BY <1>3, LastNbKnown
  <2>4. /\ v \in Outs(then) => NbIn(then, v) = LastNb(then.outs[v])
        /\ v \notin Outs(then) => NbIn(then, v) = FALSE
        /\ v \in Outs(Top) => NbIn(Top, v) = LastNb(Top.outs[v])
        /\ v \notin Outs(Top) => NbIn(Top, v) = FALSE
        /\ NbIn(then, v) \in BOOLEAN /\ NbIn(Top, v) \in BOOLEAN
    BY LastNbType DEF NbIn
  <2>5. \/ v \in Outs(then) /\ ConditionalFlags(then, Top)[v] = LastNb(then.outs[v])
        \/ v \in Outs(Top) /\ ConditionalFlags(then, Top)[v] = LastNb(Top.outs[v])
    BY <2>1, <2>4
  <2>6. QED BY <2>2, <2>3, <2>5, Zenon
<1>5. names \in SUBSET Var
  BY DEF Outs
<1>6. ASSUME NEW v \in ConditionalMixes(then, Top)
      PROVE  v \in AssignedBothWays
  <2>1. CASE v \in MixedOuts(then)
    BY <1>3, <2>1, MixedKnown DEF AssignedBothWays, MixedOuts, Outs
  <2>2. CASE v \in MixedOuts(Top)
    BY <1>3, <2>2, MixedKnown DEF AssignedBothWays, MixedOuts, Outs
  <2>3. CASE /\ v \in Outs(then) /\ v \in Outs(Top)
             /\ LastNb(then.outs[v]) # LastNb(Top.outs[v])
    <3>1. v \in Var
      BY <2>3 DEF Outs
    <3>2. LastNb(then.outs[v]) \in ways[v] /\ LastNb(Top.outs[v]) \in ways[v]
      BY <1>3, <2>3, LastNbKnown
    <3>3. ways[v] = BOOLEAN
      BY <1>3, <2>3, <3>1, <3>2, TwoWays, ZenonT(40)
    <3>4. QED BY <3>1, <3>3 DEF AssignedBothWays
  <2>4. QED BY <2>1, <2>2, <2>3 DEF ConditionalMixes
<1>7. mixed' \subseteq AssignedBothWays
  BY <1>1, <1>6 DEF Seen
<1> HIDE DEF names
<1>8. QED BY <1>1, <1>4, <1>5, <1>7, SeenClose

(* The branches a case merges, and the flag it gives a name of theirs.     *)
LEMMA CaseBranches ==
  ASSUME IInv, frames # <<>>, NEW branches, CaseMerges(branches)
  PROVE  /\ \A k \in DOMAIN branches :
              /\ branches[k] \in Context
              /\ branches[k] \in Branches \/ Outs(branches[k]) = {}
         /\ \A c \in Branches : \E k \in DOMAIN branches : branches[k] = c
         /\ BranchOuts(branches) \in SUBSET Var
<1>1. \A k \in DOMAIN branches : branches[k] \in Context
  BY DEF CaseMerges, Good
<1>2. \A k \in DOMAIN branches : branches[k] \in Branches \/ Outs(branches[k]) = {}
  BY DEF CaseMerges, Branches
<1>3. \A c \in Branches : \E k \in DOMAIN branches : branches[k] = c
  BY DEF CaseMerges, Branches
<1>4. BranchOuts(branches) \in SUBSET Var
  BY WritersProperties DEF CaseMerges
<1>5. QED BY <1>1, <1>2, <1>3, <1>4

LEMMA CaseFlagWritten ==
  ASSUME NEW branches \in Seq(Context), NEW v \in BranchOuts(branches)
  PROVE  \E k \in DOMAIN branches :
           v \in Outs(branches[k]) /\ CaseFlag(branches, v) = branches[k].outs[v].last
<1> DEFINE W == Writers(branches, v)
<1>1. W # {} /\ W \in SUBSET Nat
  BY WritersProperties
<1>2. (CHOOSE k \in W : \A m \in W : k <= m) \in W
  BY <1>1, LeastIndex
<1>3. QED BY <1>2 DEF CaseFlag, Writers

LEMMA SeenCaseEnd ==
  ASSUME IInv, Seen, UNCHANGED ways, CaseEnds
  PROVE  Seen'
<1>1. frames # <<>> /\ UNCHANGED <<exported, mixed>> /\ \E branches : CaseMerges(branches)
  BY CaseEndEffect
<1>2. PICK branches : CaseMerges(branches)
  BY <1>1
<1>3. branches \in Seq(Context) /\ ways \in Ways
  BY <1>2 DEF CaseMerges, Seen
<1>4. \A k \in DOMAIN branches : Known(branches[k], ways)
  BY <1>1, <1>2, CaseBranches, HeldNow, KnownEmpty DEF Seen
<1>5. \A k \in DOMAIN branches : \A v \in Outs(branches[k]) : branches[k].outs[v].last \in ways[v]
  BY <1>4 DEF Known
<1>6. \A v \in BranchOuts(branches) : CaseFlag(branches, v) \in ways[v]
  BY <1>3, <1>5, CaseFlagWritten
<1>7. CASE Asserts => CaseAssertion(branches)
  <2>1. PICK ctx : Closes(ctx, BranchOuts(branches), CaseFlags(branches))
    BY <1>2, <1>7 DEF CaseMerges
  <2>2. UNCHANGED aborted
    BY <1>2, <1>7 DEF CaseMerges
  <2>3. \A v \in BranchOuts(branches) : CaseFlags(branches)[v] \in ways[v]
    BY <1>6 DEF CaseFlags
  <2>4. mixed' \subseteq AssignedBothWays
    BY <1>1 DEF Seen
  <2>5. BranchOuts(branches) \in SUBSET Var
    BY <1>1, <1>2, CaseBranches
  <2>6. QED BY <1>1, <2>1, <2>2, <2>3, <2>4, <2>5, SeenClose
<1>8. CASE Asserts /\ ~CaseAssertion(branches)
  <2>1. UNCHANGED <<contexts, contextStack, frames, mixed>>
    BY <1>1, <1>2, <1>8 DEF CaseMerges
  <2>2. PICK v \in BranchOuts(branches) : \E k \in Writers(branches, v) :
               branches[k].outs[v].last # CaseFlag(branches, v)
    BY <1>8 DEF CaseAssertion
  <2>3. PICK k \in Writers(branches, v) : branches[k].outs[v].last # CaseFlag(branches, v)
    BY <2>2
  <2>4. v \in Var
    BY <1>1, <1>2, <2>2, CaseBranches
  <2>5. branches[k].outs[v].last \in ways[v] /\ CaseFlag(branches, v) \in ways[v]
    BY <1>5, <1>6, <2>2, <2>3 DEF Writers
  <2>6. ways[v] = BOOLEAN
    BY <1>3, <2>3, <2>4, <2>5, TwoWays, Zenon
  <2>7. AssignedBothWays # {}
    BY <2>4, <2>6 DEF AssignedBothWays
  <2>8. QED BY <2>1, <2>7 DEF Seen, Held, Known, Outs, AssignedBothWays
<1>9. QED BY <1>7, <1>8

LEMMA SeenSame ==
  ASSUME Seen, UNCHANGED <<ways, contexts, contextStack, frames, aborted>>,
         mixed' \subseteq AssignedBothWays
  PROVE  Seen'
BY DEF Seen, Held, Known, Outs, AssignedBothWays

LEMMA SeenFinish ==
  ASSUME IInv, Seen, UNCHANGED ways, Finish
  PROVE  Seen'
<1>1. /\ UNCHANGED <<contexts, contextStack, frames, aborted>>
      /\ mixed' = mixed \cup MixedOuts(Top)
  BY DEF Finish
<1>2. Known(Top, ways) /\ Top \in Context /\ ways \in Ways
  BY HeldNow DEF Seen
<1>3. MixedOuts(Top) \subseteq AssignedBothWays
  BY <1>2, MixedKnown DEF AssignedBothWays, MixedOuts, Outs
<1>4. mixed' \subseteq AssignedBothWays
  BY <1>1, <1>3 DEF Seen
<1>5. QED BY <1>1, <1>4, SeenSame

(* The two actions that add to ways.                                       *)
LEMMA AssignmentWays ==
  ASSUME IInv, ways \in Ways, NEW a \in Assigns, AssignmentSeen(a)
  PROVE  /\ ways' \in Ways /\ Grows(ways, ways')
         /\ \A v \in Targets(a) : a.nb \in ways'[v]
         /\ \A v \in Var : ways'[v] \subseteq ways[v] \cup (IF v \in Targets(a) THEN {a.nb} ELSE {})
<1>1. /\ a.nb \in BOOLEAN /\ Targets(a) \subseteq Var
      /\ \A v \in Targets(a) : \E k \in DOMAIN a.lhs : a.lhs[k].var = v
      /\ \A v \in Var : (\E k \in DOMAIN a.lhs : a.lhs[k].var = v) => v \in Targets(a)
  BY TargetsOf DEF Targets
<1>2. ways' = [v \in Var |-> IF \E k \in DOMAIN a.lhs : a.lhs[k].var = v
                             THEN ways[v] \cup {a.nb} ELSE ways[v]]
  BY DEF AssignmentSeen
<1>3. \A v \in Var : ways'[v] = IF v \in Targets(a) THEN ways[v] \cup {a.nb} ELSE ways[v]
  BY <1>1, <1>2
<1>4. ways' \in Ways
  BY <1>1, <1>2 DEF Ways
<1>5. QED BY <1>1, <1>3, <1>4 DEF Grows

LEMMA DeclarationWays ==
  ASSUME IInv, ways \in Ways, NEW d \in Decls, DeclarationSeen(d)
  PROVE  /\ ways' \in Ways /\ Grows(ways, ways')
         /\ \A v \in Initialised(d) : FALSE \in ways'[v]
         /\ \A v \in Var \ Local : ways'[v] = ways[v]
<1>1. d.var \in Var /\ d.var \in Local
  BY DeclsAreBlocking DEF Local
<1>2. CASE d.init = None
  BY <1>2 DEF DeclarationSeen, Initialised, Grows
<1>3. CASE d.init # None
  <2> DEFINE no == FALSE
  <2>1. no \in BOOLEAN
    OBVIOUS
  <2>2. ways' = [ways EXCEPT ![d.var] = @ \cup {no}]
    BY <1>3 DEF DeclarationSeen
  <2> HIDE DEF no
  <2>3. \A v \in Var : ways'[v] = IF v = d.var THEN ways[v] \cup {no} ELSE ways[v]
    BY <1>1, <2>2 DEF Ways
  <2>4. ways' \in Ways
    BY <1>1, <2>1, <2>2 DEF Ways
  <2>5. no \in ways'[d.var] /\ Initialised(d) = {d.var}
    BY <1>1, <1>3, <2>3 DEF Initialised
  <2>6. \A v \in Initialised(d) : FALSE \in ways'[v]
    BY <2>5, Zenon DEF no
  <2>7. QED BY <1>1, <2>3, <2>4, <2>6 DEF Grows
<1>4. QED BY <1>2, <1>3

LEMMA SeenAssignment ==
  ASSUME IInv, Seen, NEW a \in Assigns, AssignmentSeen(a)
  PROVE  Seen'
<1> DEFINE nb == [v \in Targets(a) |-> a.nb]
<1>1. Assignment(a) /\ ways \in Ways
  BY DEF AssignmentSeen, Seen
<1>2. /\ Stays(Restored(Top, a), Targets(a), nb)
      /\ Targets(a) \in SUBSET Var /\ UNCHANGED mixed
  BY <1>1, AssignmentEffect
<1>3. /\ ways' \in Ways /\ Grows(ways, ways')
      /\ \A v \in Targets(a) : nb[v] \in ways'[v]
  BY <1>1, AssignmentWays
<1> HIDE DEF nb
<1>4. QED BY <1>2, <1>3, SeenStay

LEMMA SeenDeclaration ==
  ASSUME IInv, Seen, NEW d \in Decls, DeclarationSeen(d)
  PROVE  Seen'
<1> DEFINE nb == [v \in Initialised(d) |-> FALSE]
<1>1. VariableDecl(d) /\ ways \in Ways
  BY DEF DeclarationSeen, Seen
<1>2. /\ Stays(Declared(Top, d), Initialised(d), nb)
      /\ Initialised(d) \in SUBSET Var /\ UNCHANGED mixed
  BY <1>1, VariableDeclEffect DEF Initialised
<1>3. ways' \in Ways /\ Grows(ways, ways')
  BY <1>1, DeclarationWays
<1>4. \A v \in Initialised(d) : nb[v] \in ways'[v]
  <2> TAKE v \in Initialised(d)
  <2>1. FALSE \in ways'[v]
    BY <1>1, DeclarationWays
  <2>2. nb[v] = FALSE
    OBVIOUS
  <2>3. QED BY <2>1, <2>2, Zenon
<1> HIDE DEF nb
<1>5. QED BY <1>2, <1>3, <1>4, SeenStay

(* The kinds of step of the text's visit.                                  *)
LEMMA MixingKinds ==
  ASSUME IInv, [MixingNext]_mixingVars
  PROVE  /\ [Next]_vars
         /\ \/ \E a \in Assigns : AssignmentSeen(a)
            \/ \E d \in Decls : DeclarationSeen(d)
            \/ /\ UNCHANGED ways
               /\ \/ \E frame, space : space \in Space /\ Opening(frame, space)
                  \/ \E frame : Branching(frame)
                  \/ ConditionalEnd
                  \/ CaseEnds
                  \/ BlockEnd
                  \/ ForLoopUnroll
                  \/ Finish
                  \/ UNCHANGED vars
<1>1. CASE \E a \in Assigns : AssignmentSeen(a)
  BY <1>1 DEF AssignmentSeen, Next
<1>2. CASE \E d \in Decls : DeclarationSeen(d)
  BY <1>2 DEF DeclarationSeen, Next
<1>3. CASE Structure /\ UNCHANGED ways
  BY <1>3, StructureKinds DEF Next
<1>4. CASE UNCHANGED mixingVars
  BY <1>4 DEF mixingVars
<1>5. QED BY <1>1, <1>2, <1>3, <1>4 DEF MixingNext

LEMMA SeenNext ==
  ASSUME IInv, Seen, [MixingNext]_mixingVars
  PROVE  Seen'
<1>1. CASE \E a \in Assigns : AssignmentSeen(a)
  BY <1>1, SeenAssignment
<1>2. CASE \E d \in Decls : DeclarationSeen(d)
  BY <1>2, SeenDeclaration
<1>3. CASE UNCHANGED ways /\ \E frame, space : space \in Space /\ Opening(frame, space)
  BY <1>3, SeenOpen
<1>4. CASE UNCHANGED ways /\ \E frame : Branching(frame)
  BY <1>4, SeenBranch
<1>5. CASE UNCHANGED ways /\ ConditionalEnd
  BY <1>5, SeenConditionalEnd
<1>6. CASE UNCHANGED ways /\ CaseEnds
  BY <1>6, SeenCaseEnd
<1>7. CASE UNCHANGED ways /\ BlockEnd
  BY <1>7, SeenBlockEnd
<1>8. CASE UNCHANGED ways /\ ForLoopUnroll
  <2>1. mixed' \subseteq AssignedBothWays
    BY <1>8 DEF ForLoopUnroll, Seen
  <2>2. QED BY <1>8, <2>1, SeenSame DEF ForLoopUnroll
<1>9. CASE UNCHANGED ways /\ Finish
  BY <1>9, SeenFinish
<1>10. CASE UNCHANGED ways /\ UNCHANGED vars
  <2>1. mixed' \subseteq AssignedBothWays
    BY <1>10 DEF vars, Seen
  <2>2. QED BY <1>10, <2>1, SeenSame DEF vars
<1>11. QED
  BY <1>1, <1>2, <1>3, <1>4, <1>5, <1>6, <1>7, <1>8, <1>9, <1>10, MixingKinds

LEMMA SeenInit == MixingInit => Init /\ Seen
<1> SUFFICES ASSUME MixingInit PROVE Init /\ Seen
  OBVIOUS
<1>1. Init /\ ways = [v \in Var |-> {}]
  BY DEF MixingInit
<1>2. Len(frames) = 0 /\ Len(contextStack) = 0 /\ contexts = <<RootContext>>
  BY <1>1 DEF Init
<1>3. Held = {RootContext}
  BY <1>2 DEF Held
<1>4. Outs(RootContext) = {}
  BY DEF RootContext, NoOuts, Outs
<1>5. \A ctx \in Held : Known(ctx, ways)
  BY <1>3, <1>4, KnownEmpty
<1>6. ways \in Ways
  BY <1>1 DEF Ways
<1>7. mixed = {} /\ ~aborted
  BY <1>1 DEF Init
<1>8. QED BY <1>1, <1>5, <1>6, <1>7 DEF Seen

-----------------------------------------------------------------------------
(* Nonblocking outputs leave what a name stands for alone.                 *)

LEMMA HiddenTransfer ==
  ASSUME NEW new, NEW ctx, NEW names, NEW nb, Transferred(new, ctx, names, nb),
         \A v \in names : nb[v] \in BOOLEAN,
         NEW v \in Var, ~Blocked(new, v)
  PROVE  new.cur[v] = ctx.cur[v] /\ ~Blocked(ctx, v)
<1>1. Flags(new, v) = IF v \in names THEN {nb[v]} \cup Flags(ctx, v) ELSE Flags(ctx, v)
  BY TransferredFlags
<1>2. ASSUME v \in names PROVE nb[v]
  <2>1. nb[v] # FALSE
    BY <1>1, <1>2, Zenon DEF Blocked
  <2>2. nb[v] \in BOOLEAN
    BY <1>2
  <2>3. QED BY <2>1, <2>2
<1>3. new.cur[v] = ctx.cur[v]
  BY <1>2 DEF Transferred
<1>4. ~Blocked(ctx, v)
  BY <1>1, Zenon DEF Blocked
<1>5. QED BY <1>3, <1>4

LEMMA HiddenStay ==
  ASSUME IInv, Hidden, NEW ctx, NEW names, NEW nb, Stays(ctx, names, nb),
         \A v \in names : nb[v] \in BOOLEAN
  PROVE  Hidden'
<1> DEFINE T == [ctx EXCEPT !.locals = Top.locals]
           n == Len(frames)
<1>1. /\ UNCHANGED frames /\ Transferred(T, Top, names, nb) /\ n \in Nat
      /\ Top = contexts[n + 1]
      /\ \A k \in 1..n + 1 : contexts'[k] = IF k = n + 1 THEN ctx ELSE contexts[k]
  BY Depths, ReplaceShape DEF IInv, Stays
<1>2. T.outs = ctx.outs /\ T.cur = ctx.cur
  OBVIOUS
<1> HIDE DEF T
<1>3. SUFFICES ASSUME NEW k \in 1..n, NEW v \in Var, ~Blocked(contexts'[k + 1], v)
               PROVE  contexts'[k + 1].cur[v] = contexts'[k].cur[v]
  BY <1>1 DEF Hidden, Blocked, Flags
<1>4. k + 1 \in 1..n + 1 /\ k \in 1..n + 1 /\ contexts'[k] = contexts[k]
  BY <1>1
<1>5. CASE k = n
  <2>1. contexts'[k + 1] = ctx /\ contexts[k + 1] = Top
    BY <1>1, <1>5
  <2>2. ~Blocked(T, v)
    BY <1>2, <1>3, <2>1, Zenon DEF Blocked, Flags
  <2>3. T.cur[v] = Top.cur[v] /\ ~Blocked(Top, v)
    BY <1>1, <2>2, HiddenTransfer
  <2>4. Top.cur[v] = contexts[k].cur[v]
    BY <2>1, <2>3, Zenon DEF Hidden
  <2>5. QED BY <1>2, <1>4, <2>1, <2>3, <2>4
<1>6. CASE k # n
  <2>1. contexts'[k + 1] = contexts[k + 1]
    BY <1>1, <1>6
  <2>2. contexts[k + 1].cur[v] = contexts[k].cur[v]
    BY <1>3, <2>1, Zenon DEF Hidden
  <2>3. QED BY <1>4, <2>1, <2>2
<1>7. QED BY <1>5, <1>6

LEMMA HiddenOpen ==
  ASSUME IInv, Hidden, NEW frame, NEW space \in Space, Opening(frame, space)
  PROVE  Hidden'
<1> DEFINE n == Len(frames)
<1>1. /\ Len(frames') = n + 1 /\ n \in Nat /\ Top = contexts[n + 1]
      /\ \A k \in 1..n + 2 : contexts'[k] = IF k = n + 2 THEN Child(Top) ELSE contexts[k]
  BY Depths, OpenShape DEF IInv, Opening
<1>2. Child(Top).cur = Top.cur
  BY TopGood, ChildShape DEF IInv
<1>3. SUFFICES ASSUME NEW k \in 1..n + 1, NEW v \in Var, ~Blocked(contexts'[k + 1], v)
               PROVE  contexts'[k + 1].cur[v] = contexts'[k].cur[v]
  BY <1>1 DEF Hidden, Blocked, Flags
<1>4. k + 1 \in 1..n + 2 /\ k \in 1..n + 2 /\ contexts'[k] = contexts[k]
  BY <1>1
<1>5. CASE k = n + 1
  <2>1. contexts'[k + 1] = Child(Top)
    BY <1>1, <1>5
  <2>2. QED BY <1>1, <1>2, <1>4, <1>5, <2>1
<1>6. CASE k # n + 1
  <2>1. contexts'[k + 1] = contexts[k + 1] /\ k \in 1..n
    BY <1>1, <1>6
  <2>2. contexts[k + 1].cur[v] = contexts[k].cur[v]
    BY <1>3, <2>1, Zenon DEF Hidden
  <2>3. QED BY <1>4, <2>1, <2>2
<1>7. QED BY <1>5, <1>6

LEMMA HiddenBranch ==
  ASSUME IInv, Hidden, NEW frame, Branching(frame)
  PROVE  Hidden'
<1> DEFINE n == Len(frames)
<1>1. /\ Len(frames') = n /\ n \in Nat /\ n >= 1 /\ Parent = contexts[n]
      /\ \A k \in 1..n + 1 : contexts'[k] = IF k = n + 1 THEN Child(Parent) ELSE contexts[k]
  BY Depths, BranchShape DEF IInv, Branching
<1>2. Child(Parent).cur = Parent.cur
  BY InnerGood, ChildShape DEF IInv, Branching
<1>3. SUFFICES ASSUME NEW k \in 1..n, NEW v \in Var, ~Blocked(contexts'[k + 1], v)
               PROVE  contexts'[k + 1].cur[v] = contexts'[k].cur[v]
  BY <1>1 DEF Hidden, Blocked, Flags
<1>4. k + 1 \in 1..n + 1 /\ k \in 1..n + 1 /\ contexts'[k] = contexts[k]
  BY <1>1
<1>5. CASE k = n
  <2>1. contexts'[k + 1] = Child(Parent)
    BY <1>1, <1>5
  <2>2. QED BY <1>1, <1>2, <1>4, <1>5, <2>1
<1>6. CASE k # n
  <2>1. contexts'[k + 1] = contexts[k + 1]
    BY <1>1, <1>6
  <2>2. contexts[k + 1].cur[v] = contexts[k].cur[v]
    BY <1>3, <2>1, Zenon DEF Hidden
  <2>3. QED BY <1>4, <2>1, <2>2
<1>7. QED BY <1>5, <1>6

LEMMA HiddenClose ==
  ASSUME IInv, Hidden, frames # <<>>, NEW ctx, NEW names, NEW nb, Closes(ctx, names, nb),
         \A v \in names : nb[v] \in BOOLEAN
  PROVE  Hidden'
<1> DEFINE n == Len(frames)
<1>1. /\ Len(frames') = n - 1 /\ n \in Nat /\ n >= 1 /\ Parent = contexts[n]
      /\ Transferred(ctx, Parent, names, nb)
      /\ \A k \in 1..n : contexts'[k] = IF k = n THEN ctx ELSE contexts[k]
  BY Depths, CloseShape DEF IInv, Closes
<1>2. SUFFICES ASSUME NEW k \in 1..n - 1, NEW v \in Var, ~Blocked(contexts'[k + 1], v)
               PROVE  contexts'[k + 1].cur[v] = contexts'[k].cur[v]
  BY <1>1 DEF Hidden, Blocked, Flags
<1>3. k + 1 \in 1..n /\ k \in 1..n /\ contexts'[k] = contexts[k]
  BY <1>1
<1>4. CASE k + 1 = n
  <2>1. contexts'[k + 1] = ctx /\ contexts[k + 1] = Parent
    BY <1>1, <1>3, <1>4
  <2>2. ctx.cur[v] = Parent.cur[v] /\ ~Blocked(Parent, v)
    BY <1>1, <1>2, <2>1, HiddenTransfer
  <2>3. Parent.cur[v] = contexts[k].cur[v]
    BY <1>3, <2>1, <2>2, Zenon DEF Hidden
  <2>4. QED BY <1>3, <2>1, <2>2, <2>3
<1>5. CASE k + 1 # n
  <2>1. contexts'[k + 1] = contexts[k + 1]
    BY <1>1, <1>3, <1>5
  <2>2. contexts[k + 1].cur[v] = contexts[k].cur[v]
    BY <1>2, <1>3, <2>1, Zenon DEF Hidden
  <2>3. QED BY <1>3, <2>1, <2>2
<1>6. QED BY <1>4, <1>5

(* Whatever a merge hands on is a flag.                                    *)
LEMMA FlagsAreBoolean ==
  ASSUME NEW then, NEW else
  PROVE  /\ \A v \in Outs(then) \ then.locals : BlockFlags(then)[v] \in BOOLEAN
         /\ \A v \in Outs(then) \cup Outs(else) : ConditionalFlags(then, else)[v] \in BOOLEAN
<1>1. \A v \in Outs(then) \ then.locals : BlockFlags(then)[v] \in BOOLEAN
  BY LastNbType DEF BlockFlags
<1>2. \A v \in Outs(then) \cup Outs(else) : ConditionalFlags(then, else)[v] \in BOOLEAN
  BY LastNbType DEF ConditionalFlags
<1>3. QED BY <1>1, <1>2

LEMMA HiddenSame ==
  ASSUME Hidden, UNCHANGED <<contexts, frames>>
  PROVE  Hidden'
BY DEF Hidden, Blocked, Flags

LEMMA HiddenNext ==
  ASSUME IInv, Hidden, [MixingNext]_mixingVars
  PROVE  Hidden'
<1>1. CASE \E a \in Assigns : AssignmentSeen(a)
  <2>1. PICK a \in Assigns : AssignmentSeen(a)
    BY <1>1
  <2> DEFINE nb == [v \in Targets(a) |-> a.nb]
  <2>2. /\ Stays(Restored(Top, a), Targets(a), nb) /\ a.nb \in BOOLEAN
    BY <2>1, AssignmentEffect DEF AssignmentSeen
  <2>3. \A v \in Targets(a) : nb[v] \in BOOLEAN
    BY <2>2
  <2> HIDE DEF nb
  <2>4. QED BY <2>2, <2>3, HiddenStay
<1>2. CASE \E d \in Decls : DeclarationSeen(d)
  <2>1. PICK d \in Decls : DeclarationSeen(d)
    BY <1>2
  <2> DEFINE nb == [v \in Initialised(d) |-> FALSE]
  <2>2. Stays(Declared(Top, d), Initialised(d), nb)
    BY <2>1, VariableDeclEffect DEF DeclarationSeen
  <2>3. \A v \in Initialised(d) : nb[v] \in BOOLEAN
    OBVIOUS
  <2> HIDE DEF nb
  <2>4. QED BY <2>2, <2>3, HiddenStay
<1>3. CASE \E frame, space : space \in Space /\ Opening(frame, space)
  BY <1>3, HiddenOpen
<1>4. CASE \E frame : Branching(frame)
  BY <1>4, HiddenBranch
<1>5. CASE ConditionalEnd
  <2> DEFINE then == contextStack[Len(contextStack)]
             ctx == MergeConditional(Parent, Inner.cond, then, Top)
  <2>1. /\ frames # <<>>
        /\ Closes(ctx, Outs(then) \cup Outs(Top), ConditionalFlags(then, Top))
    BY <1>5, ConditionalEndEffect
  <2> HIDE DEF then, ctx
  <2>2. \A v \in Outs(then) \cup Outs(Top) : ConditionalFlags(then, Top)[v] \in BOOLEAN
    BY FlagsAreBoolean
  <2>3. QED BY <2>1, <2>2, HiddenClose
<1>6. CASE CaseEnds
  <2>1. frames # <<>> /\ \E branches : CaseMerges(branches)
    BY <1>6, CaseEndEffect
  <2>2. PICK branches : CaseMerges(branches)
    BY <2>1
  <2>3. \A v \in BranchOuts(branches) : CaseFlags(branches)[v] \in BOOLEAN
    BY <2>2, CaseFlagType DEF CaseFlags, CaseMerges
  <2>4. \/ \E ctx : Closes(ctx, BranchOuts(branches), CaseFlags(branches))
        \/ UNCHANGED <<contexts, frames>>
    BY <2>2 DEF CaseMerges
  <2>5. QED BY <2>1, <2>3, <2>4, HiddenClose, HiddenSame
<1>7. CASE BlockEnd
  <2>1. /\ frames # <<>>
        /\ Closes(MergeContext(Parent, Top), Outs(Top) \ Top.locals, BlockFlags(Top))
    BY <1>7, BlockEndEffect
  <2>2. \A v \in Outs(Top) \ Top.locals : BlockFlags(Top)[v] \in BOOLEAN
    BY FlagsAreBoolean
  <2>3. QED BY <2>1, <2>2, HiddenClose
<1>8. CASE ForLoopUnroll
  BY <1>8, HiddenSame DEF ForLoopUnroll
<1>9. CASE Finish
  BY <1>9, HiddenSame DEF Finish
<1>10. CASE UNCHANGED vars
  BY <1>10, HiddenSame DEF vars
<1>11. QED
  BY <1>1, <1>2, <1>3, <1>4, <1>5, <1>6, <1>7, <1>8, <1>9, <1>10, MixingKinds

-----------------------------------------------------------------------------
(* Without bare loops, a context that is not a block's holds one statement *)
(* and so sees one way of assigning a name: its flags are single, and the  *)
(* flag a merge hands on loses nothing.                                    *)

Single(ctx) == \A v \in Outs(ctx) : ctx.outs[v].seen = {ctx.outs[v].last}

Alone(k) == k = 1 \/ frames[k - 1].kind # "block"

Lone ==
  /\ \A k \in 1..Len(frames) + 1 : Alone(k) =>
       /\ room[k] \in {"one", "full"}
       /\ k <= Len(frames) => room[k] = "full" /\ Outs(contexts[k]) = {}
       /\ room[k] = "one" => Outs(contexts[k]) = {}
       /\ Single(contexts[k])
  /\ \A i \in 1..Len(contextStack) : Single(contextStack[i])
  /\ \A ctx \in Held : ctx.locals \subseteq Local

LEMMA SingleEmpty ==
  ASSUME NEW ctx, Outs(ctx) = {}
  PROVE  Single(ctx)
BY DEF Single

LEMMA SingleTransfer ==
  ASSUME NEW ctx, Outs(ctx) = {}, NEW names, NEW nb, NEW new, Transferred(new, ctx, names, nb)
  PROVE  Single(new)
<1>1. SUFFICES ASSUME NEW v \in Outs(new)
               PROVE  new.outs[v].seen = {new.outs[v].last}
  BY DEF Single
<1>2. v \in Var /\ v \in names
  BY <1>1 DEF Transferred, Outs
<1>3. Flags(ctx, v) = {}
  BY <1>2 DEF Flags, Outs
<1>4. QED BY <1>2, <1>3 DEF Transferred

LEMMA LoneAssignment ==
  ASSUME IInv, Lone, NEW a \in Assigns, Assignment(a)
  PROVE  Lone'
<1> DEFINE ctx == Restored(Top, a)
           n == Len(frames)
           nb == [v \in Targets(a) |-> a.nb]
           T == [ctx EXCEPT !.locals = Top.locals]
<1>1. /\ Stays(ctx, Targets(a), nb) /\ ctx.locals = Top.locals
      /\ room' = Visited /\ room[Len(room)] # "full"
  BY AssignmentEffect
<1>2. /\ n \in Nat /\ Top = contexts[n + 1] /\ Len(room) = n + 1
      /\ UNCHANGED <<contextStack, frames>>
      /\ Transferred(T, Top, Targets(a), nb)
      /\ \A k \in 1..n + 1 : contexts'[k] = IF k = n + 1 THEN ctx ELSE contexts[k]
      /\ \A k \in 1..n + 1 :
           room'[k] = IF k = n + 1 /\ room[k] = "one" THEN "full" ELSE room[k]
  BY <1>1, Depths, ReplaceShape, VisitedShape DEF IInv, Stays
<1>3. T.outs = ctx.outs
  OBVIOUS
<1>4. \A c \in Held' : c.locals \subseteq Local
  BY <1>1, HeldStay, HeldNow DEF Lone
<1> HIDE DEF ctx, nb, T
<1>5. ASSUME NEW k \in 1..n + 1, Alone(k)
      PROVE  /\ room'[k] \in {"one", "full"}
             /\ k <= n => room'[k] = "full" /\ Outs(contexts'[k]) = {}
             /\ room'[k] = "one" => Outs(contexts'[k]) = {}
             /\ Single(contexts'[k])
  <2>1. CASE k = n + 1
    <3>1. room[k] = "one" /\ Outs(Top) = {}
      BY <1>1, <1>2, <1>5, <2>1 DEF Lone
    <3>2. Single(T)
      BY <1>2, <3>1, SingleTransfer
    <3>3. Single(ctx)
      BY <1>3, <3>2 DEF Single, Outs
    <3>4. QED BY <1>2, <2>1, <3>1, <3>3
  <2>2. CASE k # n + 1
    BY <1>2, <1>5, <2>2 DEF Lone
  <2>3. QED BY <2>1, <2>2
<1>6. QED BY <1>2, <1>4, <1>5 DEF Lone, Alone, Single, Outs

LEMMA LoneDeclaration ==
  ASSUME IInv, Lone, NEW d \in Decls, VariableDecl(d)
  PROVE  Lone'
<1> DEFINE ctx == Declared(Top, d)
           n == Len(frames)
           nb == [v \in Initialised(d) |-> FALSE]
<1>1. /\ Stays(ctx, Initialised(d), nb) /\ ctx.locals = Top.locals \cup {d.var}
      /\ d.var \in Local /\ frames # <<>> /\ Inner.kind = "block" /\ UNCHANGED room
  BY VariableDeclEffect
<1>2. /\ n \in Nat /\ n >= 1 /\ Inner = frames[n]
      /\ UNCHANGED <<contextStack, frames>>
      /\ \A k \in 1..n + 1 : contexts'[k] = IF k = n + 1 THEN ctx ELSE contexts[k]
  BY <1>1, Depths, ReplaceShape DEF IInv, Stays
<1>3. \A c \in Held' : c.locals \subseteq Local
  BY <1>1, HeldStay, HeldNow DEF Lone
<1> HIDE DEF ctx, nb
<1>4. \A k \in 1..n + 1 : Alone(k) => k # n + 1
  BY <1>1, <1>2 DEF Alone
<1>5. \A k \in 1..n + 1 : Alone(k) => contexts'[k] = contexts[k]
  BY <1>2, <1>4
<1>6. QED BY <1>1, <1>2, <1>3, <1>5 DEF Lone, Alone, Single, Outs

LEMMA LoneOpen ==
  ASSUME IInv, Lone, NEW frame, NEW space \in Space, Opening(frame, space)
  PROVE  Lone'
<1> DEFINE n == Len(frames)
<1>1. /\ Len(frames') = n + 1 /\ n \in Nat /\ UNCHANGED contextStack
      /\ frame.kind = "block" <=> space = "many"
      /\ room[n + 1] # "full"
      /\ \A k \in 1..n + 2 : contexts'[k] = IF k = n + 2 THEN Child(Top) ELSE contexts[k]
      /\ \A k \in 1..n + 1 : frames'[k] = IF k = n + 1 THEN frame ELSE frames[k]
      /\ \A k \in 1..n + 2 :
           room'[k] = IF k = n + 2 THEN space
                      ELSE IF k = n + 1 /\ room[k] = "one" THEN "full" ELSE room[k]
  BY Depths, OpenShape DEF IInv, Opening
<1>2. Outs(Child(Top)) = {} /\ Child(Top).locals = {}
  BY TopGood, ChildShape DEF IInv
<1>3. \A c \in Held' : c.locals \subseteq Local
  BY <1>2, HeldOpen DEF Lone
<1>4. ASSUME NEW k \in 1..n + 2, k = 1 \/ frames'[k - 1].kind # "block"
      PROVE  /\ room'[k] \in {"one", "full"}
             /\ k <= n + 1 => room'[k] = "full" /\ Outs(contexts'[k]) = {}
             /\ room'[k] = "one" => Outs(contexts'[k]) = {}
             /\ Single(contexts'[k])
  <2>1. CASE k = n + 2
    <3>1. frames'[n + 1] = frame /\ k # 1 /\ k - 1 = n + 1
      BY <1>1, <2>1
    <3>2. space \in {"one", "full"}
      BY <1>1, <1>4, <3>1 DEF Space
    <3>3. room'[k] = space /\ contexts'[k] = Child(Top)
      BY <1>1, <2>1
    <3>4. QED BY <1>1, <1>2, <2>1, <3>2, <3>3, SingleEmpty
  <2>2. CASE k # n + 2
    <3>1. k \in 1..n + 1 /\ (k # 1 => k - 1 \in 1..n + 1 /\ k - 1 # n + 1)
      BY <1>1, <2>2
    <3>2. Alone(k) /\ contexts'[k] = contexts[k]
      BY <1>1, <1>4, <2>2, <3>1 DEF Alone
    <3>3. /\ room[k] \in {"one", "full"}
          /\ k <= n => room[k] = "full" /\ Outs(contexts[k]) = {}
          /\ room[k] = "one" => Outs(contexts[k]) = {}
          /\ Single(contexts[k])
      BY <3>1, <3>2 DEF Lone
    <3>4. k = n + 1 => room'[k] = "full" /\ Outs(contexts[k]) = {}
      BY <1>1, <3>1, <3>3
    <3>5. k <= n => room'[k] = room[k]
      BY <1>1, <3>1
    <3>6. QED BY <1>1, <3>1, <3>2, <3>3, <3>4, <3>5
  <2>3. QED BY <2>1, <2>2
<1>5. Len(frames') + 1 = n + 2
  BY <1>1
<1>6. QED BY <1>1, <1>3, <1>4, <1>5 DEF Lone, Alone, Single, Outs

LEMMA LoneBranch ==
  ASSUME IInv, Lone, NEW frame, Branching(frame)
  PROVE  Lone'
<1> DEFINE n == Len(frames)
           c == Len(contextStack)
<1>1. /\ Len(frames') = n /\ n \in Nat /\ n >= 1 /\ Inner = frames[n] /\ Top = contexts[n + 1]
      /\ Inner.kind # "block" /\ c \in Nat /\ Len(contextStack') = c + 1
      /\ \A k \in 1..n + 1 : contexts'[k] = IF k = n + 1 THEN Child(Parent) ELSE contexts[k]
      /\ \A k \in 1..n : frames'[k] = IF k = n THEN frame ELSE frames[k]
      /\ \A k \in 1..c + 1 : contextStack'[k] = IF k = c + 1 THEN Top ELSE contextStack[k]
      /\ \A k \in 1..n + 1 : room'[k] = IF k = n + 1 THEN "one" ELSE room[k]
  BY Depths, BranchShape DEF IInv, Branching
<1>2. Outs(Child(Parent)) = {} /\ Child(Parent).locals = {}
  BY InnerGood, ChildShape DEF IInv, Branching
<1>3. \A x \in Held' : x.locals \subseteq Local
  BY <1>2, HeldBranch DEF Lone
<1>4. Single(Top)
  <2>1. n + 1 \in 1..n + 1 /\ Alone(n + 1)
    BY <1>1 DEF Alone
  <2>2. QED BY <1>1, <2>1 DEF Lone
<1>5. \A i \in 1..c + 1 : Single(contextStack'[i])
  BY <1>1, <1>4 DEF Lone
<1>6. ASSUME NEW k \in 1..n + 1, k = 1 \/ frames'[k - 1].kind # "block"
      PROVE  /\ room'[k] \in {"one", "full"}
             /\ k <= n => room'[k] = "full" /\ Outs(contexts'[k]) = {}
             /\ room'[k] = "one" => Outs(contexts'[k]) = {}
             /\ Single(contexts'[k])
  <2>1. CASE k = n + 1
    BY <1>1, <1>2, <2>1, SingleEmpty
  <2>2. CASE k # n + 1
    <3>1. k \in 1..n /\ (k # 1 => k - 1 \in 1..n /\ k - 1 # n)
      BY <1>1, <2>2
    <3>2. Alone(k) /\ contexts'[k] = contexts[k] /\ room'[k] = room[k]
      BY <1>1, <1>6, <2>2, <3>1 DEF Alone
    <3>3. QED BY <3>1, <3>2 DEF Lone
  <2>3. QED BY <2>1, <2>2
<1>7. QED BY <1>1, <1>3, <1>5, <1>6 DEF Lone, Alone, Single, Outs

LEMMA LoneClose ==
  ASSUME IInv, Lone, frames # <<>>, NEW ctx, NEW names, NEW nb, Closes(ctx, names, nb)
  PROVE  Lone'
<1> DEFINE n == Len(frames)
           b == Inner.base
<1>1. /\ Len(frames') = n - 1 /\ n \in Nat /\ n >= 1 /\ Parent = contexts[n]
      /\ Transferred(ctx, Parent, names, nb)
      /\ Len(contextStack') = b
      /\ \A i \in 1..b : contextStack'[i] = contextStack[i]
      /\ \A k \in 1..n : contexts'[k] = IF k = n THEN ctx ELSE contexts[k]
      /\ \A k \in 1..n - 1 : frames'[k] = frames[k]
      /\ \A k \in 1..n : room'[k] = room[k]
  BY Depths, CloseShape DEF IInv, Closes
<1>2. b \in Nat /\ \A i \in 1..b : i \in 1..Len(contextStack)
  <2>1. b \in Nat /\ b + Parked(Inner) = Len(contextStack) /\ Parked(Inner) \in Nat
    BY InnerGood DEF IInv, Parked, FrameGood, FrameType
  <2>2. Len(contextStack) \in Nat
    BY Depths DEF IInv
  <2>3. QED BY <2>1, <2>2
<1>3. \A x \in Held' : x.locals \subseteq Local
  <2>1. ctx.locals = Parent.locals /\ Parent \in Held
    BY <1>1, HeldNow DEF Transferred
  <2>2. QED BY <2>1, HeldClose DEF Lone
<1>4. \A i \in 1..b : Single(contextStack'[i])
  BY <1>1, <1>2 DEF Lone
<1>5. ASSUME NEW k \in 1..n, k = 1 \/ frames'[k - 1].kind # "block"
      PROVE  /\ room'[k] \in {"one", "full"}
             /\ k <= n - 1 => room'[k] = "full" /\ Outs(contexts'[k]) = {}
             /\ room'[k] = "one" => Outs(contexts'[k]) = {}
             /\ Single(contexts'[k])
  <2>1. k \in 1..n + 1 /\ (k # 1 => k - 1 \in 1..n - 1) /\ k <= n /\ room'[k] = room[k]
    BY <1>1
  <2>2. Alone(k)
    BY <1>1, <1>5, <2>1 DEF Alone
  <2>3. room[k] = "full" /\ Outs(contexts[k]) = {}
    BY <2>1, <2>2 DEF Lone
  <2>4. CASE k = n
    <3>1. Single(ctx)
      BY <1>1, <2>3, <2>4, SingleTransfer
    <3>2. QED BY <1>1, <2>1, <2>3, <2>4, <3>1
  <2>5. CASE k # n
    BY <1>1, <2>1, <2>3, <2>5, SingleEmpty
  <2>6. QED BY <2>4, <2>5
<1>6. Len(frames') + 1 = n
  BY <1>1
<1>7. QED BY <1>1, <1>3, <1>4, <1>5, <1>6 DEF Lone, Alone, Single, Outs

LEMMA LoneSame ==
  ASSUME Lone, UNCHANGED <<contexts, contextStack, frames, room>>
  PROVE  Lone'
BY DEF Lone, Alone, Single, Outs, Held

-----------------------------------------------------------------------------
(* No way of assigning a name is forgotten before it is reported: some     *)
(* context, open or parked, still has it among its flags.                  *)

Remembered(v, f) == \E ctx \in Held : f \in Flags(ctx, v)

Kept ==
  /\ \A v \in Var \ Local : \A f \in ways[v] : v \in mixed \/ Remembered(v, f)
  /\ MixingIsReported

LEMMA KeptStay ==
  ASSUME IInv, Kept, exported = None, UNCHANGED mixed,
         NEW ctx, NEW names, NEW nb, Stays(ctx, names, nb),
         \A v \in Var \ Local : \A f \in ways'[v] : f \in ways[v] \/ (v \in names /\ f = nb[v])
  PROVE  Kept'
<1> DEFINE T == [ctx EXCEPT !.locals = Top.locals]
<1>1. Transferred(T, Top, names, nb) /\ UNCHANGED exported
  BY DEF Stays
<1>2. T.outs = ctx.outs
  OBVIOUS
<1> HIDE DEF T
<1>3. \A v \in Var : Flags(ctx, v) = IF v \in names THEN {nb[v]} \cup Flags(Top, v) ELSE Flags(Top, v)
  BY <1>1, <1>2, TransferredFlags DEF Flags
<1>4. SUFFICES ASSUME NEW v \in Var \ Local, NEW f \in ways'[v], v \notin mixed
               PROVE  \E c \in Held' : f \in Flags(c, v)
  BY <1>1 DEF Kept, MixingIsReported, Remembered, Flags
<1>5. CASE v \in names /\ f = nb[v]
  BY <1>3, <1>5, HeldStay
<1>6. CASE f \in ways[v]
  <2>1. PICK c \in Held : f \in Flags(c, v)
    BY <1>4, <1>6 DEF Kept, Remembered
  <2>2. c \in Held' \/ c = Top
    BY HeldStay
  <2>3. c = Top => f \in Flags(ctx, v) /\ ctx \in Held'
    BY <1>3, <2>1, HeldStay
  <2>4. QED BY <2>1, <2>2, <2>3
<1>7. QED BY <1>4, <1>5, <1>6

LEMMA KeptGrows ==
  ASSUME IInv, Kept, UNCHANGED <<ways, mixed, exported>>, Held \subseteq Held'
  PROVE  Kept'
BY DEF Kept, MixingIsReported, AssignedBothWays, Remembered, Flags

LEMMA KeptClose ==
  ASSUME IInv, Kept, UNCHANGED ways, exported = None, frames # <<>>, mixed \subseteq mixed',
         NEW ctx, NEW names, NEW nb, Closes(ctx, names, nb),
         \A c \in Branches : \A v \in Var \ Local : \A f \in Flags(c, v) :
           v \in mixed' \/ (v \in names /\ f = nb[v])
  PROVE  Kept'
<1>1. Transferred(ctx, Parent, names, nb) /\ UNCHANGED exported
  BY DEF Closes
<1>2. \A v \in Var :
        Flags(ctx, v) = IF v \in names THEN {nb[v]} \cup Flags(Parent, v) ELSE Flags(Parent, v)
  BY <1>1, TransferredFlags
<1>3. SUFFICES ASSUME NEW v \in Var \ Local, NEW f \in ways[v], v \notin mixed'
               PROVE  \E c \in Held' : f \in Flags(c, v)
  BY <1>1 DEF Kept, MixingIsReported, Remembered, Flags
<1>4. PICK c \in Held : f \in Flags(c, v)
  BY <1>3 DEF Kept, Remembered
<1>5. ctx \in Held' /\ (c \in Held' \/ c = Parent \/ c \in Branches)
  BY HeldClose
<1>6. CASE c \in Held'
  BY <1>4, <1>6
<1>7. CASE c = Parent
  BY <1>2, <1>4, <1>5, <1>7
<1>8. CASE c \in Branches
  BY <1>2, <1>3, <1>4, <1>5, <1>8
<1>9. QED BY <1>5, <1>6, <1>7, <1>8

(* Single flags survive a merge.                                           *)
LEMMA SingleFlag ==
  ASSUME NEW c \in Context, NEW v \in Var, NEW f \in Flags(c, v), c.outs[v].seen # BOOLEAN
  PROVE  v \in Outs(c) /\ LastNb(c.outs[v]) = f
<1>1. v \in Outs(c) /\ f \in c.outs[v].seen
  BY DEF Flags, Outs
<1>2. c.outs[v].seen \in SUBSET BOOLEAN
  BY <1>1, SlotOfOut DEF Slot
<1> DEFINE seen == c.outs[v].seen
<1>3. LastNb(c.outs[v]) = (TRUE \in seen)
  BY DEF LastNb
<1>4. f \in BOOLEAN /\ f \in seen /\ seen \in SUBSET BOOLEAN /\ seen # BOOLEAN
  BY <1>1, <1>2
<1> HIDE DEF seen
<1>5. CASE f = TRUE
  <2>1. TRUE \in seen
    BY <1>4, <1>5, Zenon
  <2>2. (TRUE \in seen) = TRUE
    BY <2>1, Member, Zenon
  <2>3. QED BY <1>1, <1>3, <1>5, <2>2, Zenon
<1>6. CASE f = FALSE
  <2>1. TRUE \notin seen
    <3> DEFINE yes == TRUE
               no == FALSE
    <3>1. \A b \in BOOLEAN : b = yes \/ b = no
      OBVIOUS
    <3>2. no \in seen
      BY <1>4, <1>6
    <3> HIDE DEF yes, no
    <3>3. yes \notin seen
      BY <1>4, <3>1, <3>2
    <3>4. QED BY <3>3, Zenon DEF yes
  <2>2. (TRUE \in seen) = FALSE
    BY <2>1, NotMember, Zenon
  <2>3. QED BY <1>1, <1>3, <1>6, <2>2, Zenon
<1>7. QED BY <1>4, <1>5, <1>6

LEMMA KeptBlockEnd ==
  ASSUME IInv, Kept, Lone, UNCHANGED ways, exported = None, BlockEnd
  PROVE  Kept'
<1> DEFINE names == Outs(Top) \ Top.locals
<1>1. /\ frames # <<>> /\ Inner.base = Len(contextStack)
      /\ mixed' = mixed \cup MixedOuts(Top)
      /\ Closes(MergeContext(Parent, Top), names, BlockFlags(Top))
  BY BlockEndEffect
<1>2. Top \in Context /\ Top.locals \subseteq Local
  BY HeldNow DEF Lone
<1>3. Branches = {Top}
  <2>1. Inner.base \in Nat /\ \A i : i \notin Inner.base + 1..Len(contextStack)
    BY <1>1, InnerGood DEF IInv
  <2>2. QED BY <2>1 DEF Branches
<1>4. ASSUME NEW v \in Var \ Local, NEW f \in Flags(Top, v)
      PROVE  v \in mixed' \/ (v \in names /\ f = BlockFlags(Top)[v])
  <2>1. v \in Outs(Top) /\ v \in names
    BY <1>2 DEF Flags, Outs
  <2>2. CASE Top.outs[v].seen = BOOLEAN
    BY <1>1, <2>1, <2>2 DEF MixedOuts
  <2>3. CASE Top.outs[v].seen # BOOLEAN
    BY <1>2, <2>1, <2>3, SingleFlag DEF BlockFlags
  <2>4. QED BY <2>2, <2>3
<1> HIDE DEF names
<1>5. QED BY <1>1, <1>3, <1>4, KeptClose

(* A branch of a statement holds one statement.                            *)
LEMMA BranchesSingle ==
  ASSUME IInv, Lone, frames # <<>>, Inner.kind # "block"
  PROVE  \A c \in Branches : Single(c) /\ c \in Context
<1>1. /\ Len(frames) \in Nat /\ Len(frames) >= 1 /\ Top = contexts[Len(frames) + 1]
      /\ Inner = frames[Len(frames)] /\ Len(contextStack) \in Nat
  BY Depths DEF IInv
<1>2. Single(Top)
  <2>1. Len(frames) + 1 \in 1..Len(frames) + 1 /\ Alone(Len(frames) + 1)
    BY <1>1 DEF Alone
  <2>2. QED BY <1>1, <2>1 DEF Lone
<1>3. \A i \in Inner.base + 1..Len(contextStack) : Single(contextStack[i])
  <2>1. Inner.base \in Nat
    BY InnerGood DEF IInv
  <2>2. \A i \in Inner.base + 1..Len(contextStack) : i \in 1..Len(contextStack)
    BY <1>1, <2>1
  <2>3. QED BY <2>2 DEF Lone
<1>4. QED BY <1>2, <1>3, HeldNow DEF Branches

LEMMA SingleLast ==
  ASSUME NEW c, Single(c), NEW v \in Var, NEW f \in Flags(c, v)
  PROVE  v \in Outs(c) /\ f = c.outs[v].last /\ c.outs[v].seen = {f}
<1>1. v \in Outs(c) /\ f \in c.outs[v].seen
  BY DEF Flags, Outs
<1>2. QED BY <1>1 DEF Single

LEMMA KeptConditionalEnd ==
  ASSUME IInv, Kept, Lone, UNCHANGED ways, exported = None, ConditionalEnd
  PROVE  Kept'
<1> DEFINE then == contextStack[Len(contextStack)]
           names == Outs(then) \cup Outs(Top)
           ctx == MergeConditional(Parent, Inner.cond, then, Top)
<1>1. /\ frames # <<>> /\ Inner.kind = "else" /\ mixed' = mixed \cup ConditionalMixes(then, Top)
      /\ Inner.base + 1 = Len(contextStack) /\ Inner.base \in Nat
      /\ Closes(ctx, names, ConditionalFlags(then, Top))
  BY ConditionalEndEffect
<1>2. Branches = {then, Top}
  <2>1. \A i : i \in Inner.base + 1..Len(contextStack) <=> i = Len(contextStack)
    BY <1>1
  <2>2. QED BY <2>1 DEF Branches
<1>3. /\ then \in Context /\ Top \in Context
  BY <1>1, <1>2, BranchesSingle
<1> HIDE DEF then, ctx
<1>4. ASSUME NEW v \in Var, NEW f, v \notin mixed',
             f \in Flags(then, v) \/ f \in Flags(Top, v)
      PROVE  v \in names /\ f = ConditionalFlags(then, Top)[v]
  <2>1. /\ v \in Outs(then) => then.outs[v].seen # BOOLEAN
        /\ v \in Outs(Top) => Top.outs[v].seen # BOOLEAN
        /\ v \in Outs(then) /\ v \in Outs(Top) => LastNb(then.outs[v]) = LastNb(Top.outs[v])
    BY <1>1, <1>4 DEF ConditionalMixes, MixedOuts
  <2>2. /\ f \in Flags(then, v) => v \in Outs(then)
        /\ f \in Flags(Top, v) => v \in Outs(Top)
    BY DEF Flags, Outs
  <2>3. /\ f \in Flags(then, v) => LastNb(then.outs[v]) = f
        /\ f \in Flags(Top, v) => LastNb(Top.outs[v]) = f
    BY <1>3, <2>1, <2>2, SingleFlag
  <2>4. /\ v \in Outs(then) => NbIn(then, v) = LastNb(then.outs[v])
        /\ v \notin Outs(then) => NbIn(then, v) = FALSE
        /\ v \in Outs(Top) => NbIn(Top, v) = LastNb(Top.outs[v])
        /\ v \notin Outs(Top) => NbIn(Top, v) = FALSE
        /\ NbIn(then, v) \in BOOLEAN /\ NbIn(Top, v) \in BOOLEAN
    BY LastNbType DEF NbIn
  <2>5. v \in names
    BY <1>4, <2>2
  <2>6. ConditionalFlags(then, Top)[v] = (NbIn(then, v) \/ NbIn(Top, v))
    BY <2>5 DEF ConditionalFlags
  <2>7. CASE f \in Flags(then, v)
    <3>1. NbIn(then, v) = f
      BY <2>2, <2>3, <2>4, <2>7
    <3>2. NbIn(Top, v) = f \/ NbIn(Top, v) = FALSE
      BY <2>1, <2>2, <2>3, <2>4, <2>7
    <3>3. (NbIn(then, v) \/ NbIn(Top, v)) = f
      BY <2>4, <3>1, <3>2
    <3>4. QED BY <2>5, <2>6, <3>3
  <2>8. CASE f \in Flags(Top, v)
    <3>1. NbIn(Top, v) = f
      BY <2>2, <2>3, <2>4, <2>8
    <3>2. NbIn(then, v) = f \/ NbIn(then, v) = FALSE
      BY <2>1, <2>2, <2>3, <2>4, <2>8
    <3>3. (NbIn(then, v) \/ NbIn(Top, v)) = f
      BY <2>4, <3>1, <3>2
    <3>4. QED BY <2>5, <2>6, <3>3
  <2>9. QED BY <1>4, <2>7, <2>8
<1> HIDE DEF names
<1>5. \A c \in Branches : \A v \in Var \ Local : \A f \in Flags(c, v) :
        v \in mixed' \/ (v \in names /\ f = ConditionalFlags(then, Top)[v])
  BY <1>2, <1>4
<1>6. mixed \subseteq mixed'
  BY <1>1
<1>7. QED BY <1>1, <1>5, <1>6, KeptClose

LEMMA KeptCaseEnd ==
  ASSUME IInv, Kept, Lone, UNCHANGED ways, exported = None, CaseEnds, Asserts
  PROVE  Kept'
<1>1. /\ frames # <<>> /\ Inner.kind # "block" /\ UNCHANGED <<exported, mixed>>
      /\ \E branches : CaseMerges(branches)
  BY CaseEndEffect
<1>2. PICK branches : CaseMerges(branches)
  BY <1>1
<1>3. CASE CaseAssertion(branches)
  <2>1. PICK ctx : Closes(ctx, BranchOuts(branches), CaseFlags(branches))
    BY <1>2, <1>3 DEF CaseMerges
  <2>2. ASSUME NEW c \in Branches, NEW v \in Var, NEW f \in Flags(c, v)
        PROVE  v \in BranchOuts(branches) /\ f = CaseFlags(branches)[v]
    <3>1. PICK k \in DOMAIN branches : branches[k] = c
      BY <1>1, <1>2, CaseBranches
    <3>2. v \in Outs(c) /\ f = c.outs[v].last
      BY <1>1, BranchesSingle, SingleLast
    <3>3. v \in BranchOuts(branches) /\ k \in Writers(branches, v)
      BY <3>1, <3>2 DEF BranchOuts, Writers
    <3>4. c.outs[v].last = CaseFlag(branches, v)
      BY <1>3, <3>1, <3>3 DEF CaseAssertion
    <3>5. QED BY <3>2, <3>3, <3>4 DEF CaseFlags
  <2>3. mixed \subseteq mixed'
    BY <1>1
  <2>4. QED BY <1>1, <2>1, <2>2, <2>3, KeptClose
<1>4. CASE Asserts /\ ~CaseAssertion(branches)
  <2>1. UNCHANGED <<contexts, contextStack, frames>>
    BY <1>2, <1>4 DEF CaseMerges
  <2>2. Held \subseteq Held'
    BY <2>1 DEF Held
  <2>3. QED BY <1>1, <2>2, KeptGrows
<1>5. QED BY <1>3, <1>4

(* for_each_output: only the root context is left, so it remembers all.    *)
LEMMA KeptFinish ==
  ASSUME IInv, Kept, ways \in Ways, UNCHANGED ways, Finish
  PROVE  Kept'
<1>1. /\ frames = <<>> /\ contextStack = <<>> /\ UNCHANGED <<contexts, contextStack, frames>>
      /\ mixed' = mixed \cup MixedOuts(Top)
  BY DEF Finish, IInv, Core, StackDiscipline
<1>2. Len(frames) = 0 /\ Len(contextStack) = 0 /\ Top = contexts[1]
  BY <1>1, Depths DEF IInv
<1>3. Held = {Top}
  BY <1>2 DEF Held
<1>4. \A v \in Var \ Local : \A f \in ways[v] : v \in mixed \/ f \in Flags(Top, v)
  BY <1>3 DEF Kept, Remembered
<1>5. \A v \in Var \ Local : ways[v] = BOOLEAN => v \in mixed'
  <2> TAKE v \in Var \ Local
  <2> HAVE ways[v] = BOOLEAN
  <2>1. CASE v \in mixed
    BY <1>1, <2>1
  <2>2. CASE v \notin mixed
    <3>1. BOOLEAN \subseteq Flags(Top, v)
      BY <1>4, <2>2
    <3>2. v \in Outs(Top) /\ BOOLEAN \subseteq Top.outs[v].seen
      <4>1. Flags(Top, v) # {}
        BY <3>1
      <4>2. QED BY <3>1, <4>1 DEF Flags, Outs
    <3>3. Top.outs[v].seen \in SUBSET BOOLEAN
      BY <3>2, SlotOfOut, HeldNow DEF Slot
    <3>4. QED BY <1>1, <3>2, <3>3 DEF MixedOuts
  <2>3. QED BY <2>1, <2>2
<1>6. MixingIsReported'
  BY <1>5 DEF MixingIsReported, AssignedBothWays
<1>7. Held' = Held
  BY <1>1 DEF Held
<1>8. QED BY <1>1, <1>3, <1>4, <1>6, <1>7 DEF Kept, Remembered, Flags

(* Once the outputs are handed over, nothing changes.                      *)
LEMMA AfterExport ==
  ASSUME [MixingNext]_mixingVars, exported # None
  PROVE  UNCHANGED mixingVars
<1>1. ~Running /\ ~CanVisit
  BY DEF Running, CanVisit
<1>2. ~(\E a \in Assigns : AssignmentSeen(a)) /\ ~(\E d \in Decls : DeclarationSeen(d))
  BY <1>1 DEF AssignmentSeen, Assignment, DeclarationSeen, VariableDecl
<1>3. Structure => Stopped
  BY <1>1 DEF Structure, Conditional, ConditionalElse, ConditionalEnd, CaseItem, CaseWithoutItems,
              CaseNextItem, CaseDefault, CaseEndAfterDefault, CaseEndNoDefault, BlockStatement,
              BlockEnd, ForLoopUnroll, Finish
<1>4. QED BY <1>2, <1>3 DEF MixingNext, Stopped, mixingVars

LEMMA LoneNext ==
  ASSUME ~BareLoops, IInv, Lone, [MixingNext]_mixingVars
  PROVE  Lone'
<1>1. CASE \E a \in Assigns : AssignmentSeen(a)
  BY <1>1, LoneAssignment DEF AssignmentSeen
<1>2. CASE \E d \in Decls : DeclarationSeen(d)
  BY <1>2, LoneDeclaration DEF DeclarationSeen
<1>3. CASE \E frame, space : space \in Space /\ Opening(frame, space)
  BY <1>3, LoneOpen
<1>4. CASE \E frame : Branching(frame)
  BY <1>4, LoneBranch
<1>5. CASE ConditionalEnd
  BY <1>5, ConditionalEndEffect, LoneClose
<1>6. CASE CaseEnds
  <2>1. frames # <<>> /\ \E branches : CaseMerges(branches)
    BY <1>6, CaseEndEffect
  <2>2. \/ \E ctx, names, nb : Closes(ctx, names, nb)
        \/ UNCHANGED <<contexts, contextStack, frames, room>>
    BY <2>1 DEF CaseMerges
  <2>3. QED BY <2>1, <2>2, LoneClose, LoneSame
<1>7. CASE BlockEnd
  BY <1>7, BlockEndEffect, LoneClose
<1>8. CASE ForLoopUnroll
  BY <1>8 DEF ForLoopUnroll
<1>9. CASE Finish
  BY <1>9, LoneSame DEF Finish
<1>10. CASE UNCHANGED vars
  BY <1>10, LoneSame DEF vars
<1>11. QED
  BY <1>1, <1>2, <1>3, <1>4, <1>5, <1>6, <1>7, <1>8, <1>9, <1>10, MixingKinds

LEMMA KeptNext ==
  ASSUME Asserts, IInv, Seen, Lone, Kept, [MixingNext]_mixingVars
  PROVE  Kept'
<1>1. CASE exported # None
  BY <1>1, AfterExport, KeptGrows DEF mixingVars, vars, Held
<1>2. CASE exported = None
  <2>1. CASE \E a \in Assigns : AssignmentSeen(a)
    <3>1. PICK a \in Assigns : AssignmentSeen(a)
      BY <2>1
    <3> DEFINE nb == [v \in Targets(a) |-> a.nb]
    <3>2. Stays(Restored(Top, a), Targets(a), nb) /\ UNCHANGED mixed
      BY <3>1, AssignmentEffect DEF AssignmentSeen
    <3>3. \A v \in Var : \A f \in ways'[v] : f \in ways[v] \/ (v \in Targets(a) /\ f = nb[v])
      BY <3>1, AssignmentWays DEF Seen
    <3> HIDE DEF nb
    <3>4. QED BY <1>2, <3>2, <3>3, KeptStay
  <2>2. CASE \E d \in Decls : DeclarationSeen(d)
    <3>1. PICK d \in Decls : DeclarationSeen(d)
      BY <2>2
    <3> DEFINE nb == [v \in Initialised(d) |-> FALSE]
    <3>2. Stays(Declared(Top, d), Initialised(d), nb) /\ UNCHANGED mixed
      BY <3>1, VariableDeclEffect DEF DeclarationSeen
    <3>3. \A v \in Var \ Local : ways'[v] = ways[v]
      BY <3>1, DeclarationWays DEF Seen
    <3> HIDE DEF nb
    <3>4. QED BY <1>2, <3>2, <3>3, KeptStay
  <2>3. CASE UNCHANGED ways /\ \E frame, space : space \in Space /\ Opening(frame, space)
    BY <2>3, HeldOpen, KeptGrows DEF Opening
  <2>4. CASE UNCHANGED ways /\ \E frame : Branching(frame)
    BY <2>4, HeldBranch, KeptGrows DEF Branching
  <2>5. CASE UNCHANGED ways /\ ConditionalEnd
    BY <1>2, <2>5, KeptConditionalEnd
  <2>6. CASE UNCHANGED ways /\ CaseEnds
    BY <1>2, <2>6, KeptCaseEnd
  <2>7. CASE UNCHANGED ways /\ BlockEnd
    BY <1>2, <2>7, KeptBlockEnd
  <2>8. CASE UNCHANGED ways /\ ForLoopUnroll
    BY <2>8, KeptGrows DEF ForLoopUnroll, Held
  <2>9. CASE UNCHANGED ways /\ Finish
    BY <2>9, KeptFinish DEF Seen
  <2>10. CASE UNCHANGED ways /\ UNCHANGED vars
    BY <2>10, KeptGrows DEF vars, Held
  <2>11. QED
    BY <2>1, <2>2, <2>3, <2>4, <2>5, <2>6, <2>7, <2>8, <2>9, <2>10, MixingKinds
<1>3. QED BY <1>1, <1>2

LEMMA MixingStarts == MixingInit => Hidden /\ Lone /\ Kept
<1> SUFFICES ASSUME MixingInit PROVE Hidden /\ Lone /\ Kept
  OBVIOUS
<1>1. /\ ways = [v \in Var |-> {}] /\ exported = None /\ room = <<"one">>
      /\ Len(frames) = 0 /\ Len(contextStack) = 0 /\ contexts = <<RootContext>>
  BY DEF MixingInit, Init
<1>2. Outs(RootContext) = {} /\ RootContext.locals = {}
  BY DEF RootContext, NoOuts, Outs
<1>3. Hidden
  BY <1>1 DEF Hidden
<1>4. Held = {RootContext}
  BY <1>1 DEF Held
<1>5. Lone
  BY <1>1, <1>2, <1>4, SingleEmpty DEF Lone
<1>6. Kept
  BY <1>1 DEF Kept, MixingIsReported
<1>7. QED BY <1>3, <1>5, <1>6

-----------------------------------------------------------------------------
(* The theorems.                                                           *)

(* In every run of the visitor, over every text, mixed assignments or not: *)
(* the builder's stacks are sound and their flags are those of assignments *)
(* that were visited.                                                      *)
THEOREM MixingInvariant == MixingSpec => [](IInv /\ Seen /\ Hidden)
<1>1. MixingInit => IInv /\ Seen /\ Hidden
  BY SeenInit, InitEstablishes, MixingStarts
<1>2. IInv /\ Seen /\ Hidden /\ [MixingNext]_mixingVars => (IInv /\ Seen /\ Hidden)'
  BY MixingKinds, NextKeepsIInv, SeenNext, HiddenNext
<1>3. QED BY <1>1, <1>2, PTL DEF MixingSpec

(* Whatever the text, a report names a signal the text assigns both ways.  *)
THEOREM ReportsTrue == MixingSpec => []ReportsAreTrue
<1>1. Seen => ReportsAreTrue
  BY DEF Seen, ReportsAreTrue
<1>2. QED BY <1>1, MixingInvariant, PTL

(* Whatever the text, the assertion of merge_case fails only when some     *)
(* name is assigned both ways.                                             *)
THEOREM AbortsOnlyWhenMixed == MixingSpec => [](aborted => AssignedBothWays # {})
<1>1. Seen => (aborted => AssignedBothWays # {})
  BY DEF Seen
<1>2. QED BY <1>1, MixingInvariant, PTL

(* Whatever the text, a name whose outputs in an open context are all      *)
(* nonblocking reads there as it does in the enclosing context.            *)
THEOREM NonblockingInvisible == MixingSpec => []NonblockingStaysInvisible
<1>1. ASSUME IInv, Hidden PROVE NonblockingStaysInvisible
  <2>1. Len(contexts) = Len(frames) + 1 /\ Len(frames) \in Nat
    BY <1>1, Depths DEF IInv
  <2>2. SUFFICES ASSUME NEW k \in 2..Len(contexts), NEW v \in Outs(contexts[k]),
                        contexts[k].outs[v].seen = {TRUE}
                 PROVE  contexts[k].cur[v] = contexts[k - 1].cur[v]
    BY DEF NonblockingStaysInvisible
  <2>3. k - 1 \in 1..Len(frames) /\ (k - 1) + 1 = k /\ v \in Var
    BY <2>1 DEF Outs
  <2>4. Flags(contexts[k], v) = {TRUE}
    BY <2>2 DEF Flags, Outs
  <2>5. ~Blocked(contexts[k], v)
    <3>1. FALSE # TRUE
      OBVIOUS
    <3>2. QED BY <2>4, <3>1, Zenon DEF Blocked
  <2>6. ~Blocked(contexts[(k - 1) + 1], v)
    BY <2>3, <2>5
  <2>7. QED BY <1>1, <2>3, <2>6 DEF Hidden
<1>2. QED BY <1>1, MixingInvariant, PTL

(* Every name the text assigns both ways is reported by the time its value *)
(* is handed over, provided no for loop is without a variable of its own:  *)
(* the body of such a loop may make a case item assign a name both ways,   *)
(* and merge_case, which compares the items' last flags, does not see it;  *)
(* and provided assertions are compiled in: without them merge_case does   *)
(* not compare the items at all.                                           *)
THEOREM MixingReported ==
  ASSUME ~BareLoops, Asserts
  PROVE  MixingSpec => []MixingIsReported
<1>1. MixingInit => Lone /\ Kept
  BY MixingStarts
<1>2. IInv /\ Seen /\ Lone /\ Kept /\ [MixingNext]_mixingVars => (Lone /\ Kept)'
  BY LoneNext, KeptNext
<1>3. Kept => MixingIsReported
  BY DEF Kept
<1>4. QED BY <1>1, <1>2, <1>3, MixingInvariant, PTL DEF MixingSpec
=============================================================================

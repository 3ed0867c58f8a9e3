------------------------ MODULE StmtRefinement_proofs ------------------------
(***************************************************************************)
(* Proof that the expressions StmtBuilder builds for a process implement   *)
(* the process: for every valuation, whatever the text nests, each step of *)
(* the visitor is a step of the run ProcSemantics describes, or none.      *)
(***************************************************************************)
EXTENDS StmtBuilder_proofs

-----------------------------------------------------------------------------
(* Where a run stands, as functions of the stacks.                         *)

ActiveIn(fs, n, s) == \A j \in 1..n : Selected(fs[j], s)

DepthIn(fs, s) ==
  CHOOSE n \in 0..Len(fs) :
    ActiveIn(fs, n, s) /\ (n = Len(fs) \/ ~ActiveIn(fs, n + 1, s))

StandsAt(fs, s, d) ==
  /\ d \in 0..Len(fs)
  /\ ActiveIn(fs, d, s)
  /\ d = Len(fs) \/ ~Selected(fs[d + 1], s)

(* The context of a run that the current branch of fr is not for.          *)
Beside(fr, parent, st, s) ==
  IF fr.kind = "else" THEN st[fr.base + 1]
  ELSE IF fr.kind \in {"case", "default"} /\ Alike(fr, s) # {}
    THEN st[fr.base + FirstAlike(fr, s)]
  ELSE parent

HeldAt(cs, st, fs, s, d) ==
  IF d = Len(fs) THEN cs[Len(cs)] ELSE Beside(fs[d + 1], cs[d + 1], st, s)

HolderIn(cs, st, fs, s) == HeldAt(cs, st, fs, s, DepthIn(fs, s))

LiveIn(fs, n) == {s \in Sigma : ActiveIn(fs, n, s)}

Taking(fr, live) == {s \in live : Selected(fr, s)}

(* What path says of a statement that the runs in live execute.            *)
FrameView(fr, live) ==
  [kind |-> IF fr.kind = "block" THEN "block"
            ELSE IF fr.kind \in {"then", "else"} THEN "if" ELSE "case",
   live |-> Taking(fr, live),
   rest |-> {s \in live : Waiting(fr, s)},
   sel |-> IF fr.sel = None THEN None ELSE [s \in live |-> fr.sel[s]],
   full |-> fr.full]

PathIn(fs) == [j \in 1..Len(fs) |-> FrameView(fs[j], LiveIn(fs, j - 1))]

(* The variables of ProcSemantics, as the refinement mapping has them.     *)
EnvNow == [s \in Sigma |-> StoreAt(Holder(s), s)]
NxtNow == [s \in Sigma |-> [v \in Var |-> Fallback(Holder(s), v)[s]]]
PathNow == [j \in 1..Len(frames) |-> PathFrame(j)]
ResultNow == IF exported = None THEN None
             ELSE [s \in Sigma |-> [v \in Var |-> IF exported[v] = None THEN s[v]
                                                  ELSE exported[v][s]]]

LEMMA ActiveStep ==
  ASSUME NEW fs, NEW n \in Nat, NEW s
  PROVE  /\ ActiveIn(fs, 0, s)
         /\ ActiveIn(fs, n + 1, s) <=> ActiveIn(fs, n, s) /\ Selected(fs[n + 1], s)
         /\ \A m \in 0..n : ActiveIn(fs, n, s) => ActiveIn(fs, m, s)
BY DEF ActiveIn

LEMMA StandsSomewhere ==
  ASSUME NEW fs \in Seq(FrameType), NEW s
  PROVE  \E d : StandsAt(fs, s, d)
<1>1. Len(fs) \in Nat
  OBVIOUS
<1> DEFINE S == {j \in 1..Len(fs) : ~Selected(fs[j], s)}
<1>2. CASE S = {}
  <2>1. ActiveIn(fs, Len(fs), s)
    BY <1>2 DEF ActiveIn
  <2>2. QED BY <1>1, <2>1 DEF StandsAt
<1>3. CASE S # {}
  <2>1. S \in SUBSET Nat
    BY <1>1
  <2> HIDE DEF S
  <2>2. PICK k \in S : \A m \in S : k <= m
    BY <1>3, <2>1, LeastIndex
  <2>3. k \in 1..Len(fs) /\ ~Selected(fs[k], s)
    BY <2>2 DEF S
  <2>4. \A j \in 1..k - 1 : j \in 1..Len(fs) /\ ~(k <= j)
    BY <1>1, <2>3
  <2>5. \A j \in 1..k - 1 : Selected(fs[j], s)
    BY <2>2, <2>4 DEF S
  <2>6. PICK d : d = k - 1
    OBVIOUS
  <2>7. d \in 0..Len(fs) /\ d + 1 = k
    BY <1>1, <2>3, <2>6
  <2>8. StandsAt(fs, s, d)
    BY <2>3, <2>5, <2>6, <2>7 DEF StandsAt, ActiveIn
  <2>9. QED BY <2>8
<1>4. QED BY <1>2, <1>3

LEMMA DepthInIs ==
  ASSUME NEW fs \in Seq(FrameType), NEW s, NEW d, StandsAt(fs, s, d)
  PROVE  DepthIn(fs, s) = d
<1> DEFINE P(n) == ActiveIn(fs, n, s) /\ (n = Len(fs) \/ ~ActiveIn(fs, n + 1, s))
<1>1. Len(fs) \in Nat /\ d \in 0..Len(fs) /\ d \in Nat
  BY DEF StandsAt
<1>2. P(d)
  BY <1>1, ActiveStep DEF StandsAt
<1>3. ASSUME NEW n \in 0..Len(fs), P(n)
      PROVE  n = d
  <2>1. n \in Nat
    BY <1>1
  <2>2. CASE n < d
    <3>1. n + 1 \in 0..d /\ n # Len(fs)
      BY <1>1, <2>1, <2>2
    <3>2. QED BY <1>1, <1>2, <1>3, <3>1, ActiveStep
  <2>3. CASE d < n
    <3>1. d + 1 \in 0..n /\ d # Len(fs)
      BY <1>1, <2>1, <2>3
    <3>2. QED BY <1>2, <1>3, <2>1, <3>1, ActiveStep
  <2>4. QED BY <1>1, <2>1, <2>2, <2>3
<1>4. DepthIn(fs, s) = CHOOSE n \in 0..Len(fs) : P(n)
  BY DEF DepthIn
<1> HIDE DEF P
<1>5. QED BY <1>1, <1>2, <1>3, <1>4

LEMMA HolderInIs ==
  ASSUME NEW cs, NEW st, NEW fs \in Seq(FrameType), NEW s, NEW d, StandsAt(fs, s, d)
  PROVE  HolderIn(cs, st, fs, s) = HeldAt(cs, st, fs, s, d)
BY DepthInIs DEF HolderIn

LEMMA HolderNow ==
  ASSUME NEW s
  PROVE  /\ Holder(s) = HolderIn(contexts, contextStack, frames, s)
         /\ Holder(s)' = HolderIn(contexts', contextStack', frames', s)
<1>1. Depth(s) = DepthIn(frames, s) /\ Depth(s)' = DepthIn(frames', s)
  BY DEF Depth, DepthIn, Active, ActiveIn
<1>2. QED BY <1>1 DEF Holder, HolderIn, HeldAt, Beside, Top

-----------------------------------------------------------------------------
(* The labels a run matches, and the branch it is parked in.               *)

LEMMA FirstAlikeIs ==
  ASSUME NEW fr, fr.labels \in Seq(LabelList), NEW s, Alike(fr, s) # {}
  PROVE  /\ FirstAlike(fr, s) \in Alike(fr, s) /\ FirstAlike(fr, s) \in 1..Len(fr.labels)
         /\ \A m \in Alike(fr, s) : FirstAlike(fr, s) <= m
<1>1. Alike(fr, s) \in SUBSET (1..Len(fr.labels)) /\ Alike(fr, s) \in SUBSET Nat
  BY DEF Alike
<1>2. \E k \in Alike(fr, s) : \A m \in Alike(fr, s) : k <= m
  BY <1>1, LeastIndex
<1>3. FirstAlike(fr, s) \in Alike(fr, s) /\ \A m \in Alike(fr, s) : FirstAlike(fr, s) <= m
  BY <1>2 DEF FirstAlike
<1>4. QED BY <1>1, <1>3

LEMMA FirstAlikeOnly ==
  ASSUME NEW fr, fr.labels \in Seq(LabelList), NEW s,
         NEW k \in Alike(fr, s), \A m \in Alike(fr, s) : k <= m
  PROVE  FirstAlike(fr, s) = k
<1>1. FirstAlike(fr, s) <= k /\ k <= FirstAlike(fr, s)
  BY FirstAlikeIs
<1>2. FirstAlike(fr, s) \in 1..Len(fr.labels)
  BY FirstAlikeIs
<1>3. k \in 1..Len(fr.labels) /\ Len(fr.labels) \in Nat
  BY DEF Alike
<1>4. QED BY <1>1, <1>2, <1>3

(* A run that has left the current branch of fr behind is in one fr        *)
(* parked.                                                                 *)
LEMMA ParkedIn ==
  ASSUME NEW fr, FrameGood(fr), NEW s, ~Selected(fr, s)
  PROVE  /\ fr.base \in Nat /\ Parked(fr) \in Nat
         /\ fr.kind = "else" => Parked(fr) = 1
         /\ fr.kind \in {"case", "default"} /\ Alike(fr, s) # {}
              => FirstAlike(fr, s) \in 1..Parked(fr)
<1>1. fr \in FrameType /\ fr.base \in Nat /\ fr.labels \in Seq(LabelList) /\ Len(fr.labels) \in Nat
  BY DEF FrameGood, FrameType
<1>2. Parked(fr) \in Nat
  BY <1>1 DEF FrameGood, Parked
<1>3. ASSUME fr.kind \in {"case", "default"}, Alike(fr, s) # {}
      PROVE  FirstAlike(fr, s) \in 1..Parked(fr)
  <2>1. FirstAlike(fr, s) \in 1..Len(fr.labels)
    BY <1>1, <1>3, FirstAlikeIs
  <2>2. fr.kind = "case" => FirstAlike(fr, s) # Len(fr.labels)
    BY <1>3 DEF Selected
  <2>3. QED BY <1>1, <1>3, <2>1, <2>2 DEF Parked
<1>4. QED BY <1>1, <1>2, <1>3 DEF Parked

LEMMA BesideSame ==
  ASSUME NEW fr, FrameGood(fr), NEW s, ~Selected(fr, s), NEW parent, NEW st, NEW st2,
         \A i \in fr.base + 1..fr.base + Parked(fr) : st2[i] = st[i]
  PROVE  Beside(fr, parent, st2, s) = Beside(fr, parent, st, s)
<1>1. /\ fr.base \in Nat /\ Parked(fr) \in Nat
      /\ fr.kind = "else" => Parked(fr) = 1
      /\ fr.kind \in {"case", "default"} /\ Alike(fr, s) # {}
              => FirstAlike(fr, s) \in 1..Parked(fr)
  BY ParkedIn
<1>2. fr.kind = "else" => fr.base + 1 \in fr.base + 1..fr.base + Parked(fr)
  BY <1>1
<1>3. ASSUME fr.kind \in {"case", "default"}, Alike(fr, s) # {}
      PROVE  fr.base + FirstAlike(fr, s) \in fr.base + 1..fr.base + Parked(fr)
  BY <1>1, <1>3
<1>4. QED BY <1>2, <1>3 DEF Beside

LEMMA BesideOneOf ==
  ASSUME NEW fr, FrameGood(fr), NEW s, ~Selected(fr, s), NEW parent, NEW st
  PROVE  \/ Beside(fr, parent, st, s) = parent
         \/ \E i \in fr.base + 1..fr.base + Parked(fr) : Beside(fr, parent, st, s) = st[i]
<1>1. /\ fr.base \in Nat /\ Parked(fr) \in Nat
      /\ fr.kind = "else" => Parked(fr) = 1
      /\ fr.kind \in {"case", "default"} /\ Alike(fr, s) # {}
              => FirstAlike(fr, s) \in 1..Parked(fr)
  BY ParkedIn
<1>2. fr.kind = "else" => fr.base + 1 \in fr.base + 1..fr.base + Parked(fr)
  BY <1>1
<1>3. ASSUME fr.kind \in {"case", "default"}, Alike(fr, s) # {}
      PROVE  fr.base + FirstAlike(fr, s) \in fr.base + 1..fr.base + Parked(fr)
  BY <1>1, <1>3
<1>4. QED BY <1>2, <1>3 DEF Beside

(* A run that stands below level n stays there when nothing below n        *)
(* changes.                                                                *)
Below(cs, cs2, st, st2, fs, fs2, n) ==
  /\ n <= Len(fs) /\ n <= Len(fs2)
  /\ \A j \in 1..n : fs2[j] = fs[j] /\ cs2[j] = cs[j] /\ FrameGood(fs[j])
  /\ \A j \in 1..n : \A i \in fs[j].base + 1..fs[j].base + Parked(fs[j]) : st2[i] = st[i]

LEMMA HeldElsewhere ==
  ASSUME NEW cs, NEW cs2, NEW st, NEW st2, NEW fs \in Seq(FrameType), NEW fs2 \in Seq(FrameType),
         NEW s, NEW d, StandsAt(fs, s, d), NEW n \in Nat, d < n,
         Below(cs, cs2, st, st2, fs, fs2, n)
  PROVE  StandsAt(fs2, s, d) /\ HolderIn(cs2, st2, fs2, s) = HolderIn(cs, st, fs, s)
<1>1. Len(fs) \in Nat /\ Len(fs2) \in Nat /\ d \in Nat /\ d # Len(fs) /\ d # Len(fs2)
      /\ n <= Len(fs2)
  BY DEF StandsAt, Below
<1>2. d + 1 \in 1..n /\ d \in 0..Len(fs2) /\ \A j \in 1..d : j \in 1..n
  BY <1>1
<1>3. ~Selected(fs[d + 1], s)
  BY <1>1 DEF StandsAt
<1>4. StandsAt(fs2, s, d)
  BY <1>2, <1>3 DEF StandsAt, ActiveIn, Below
<1>5. PICK fr : fr = fs[d + 1]
  OBVIOUS
<1>6. Beside(fr, cs[d + 1], st2, s) = Beside(fr, cs[d + 1], st, s)
  BY <1>2, <1>3, <1>5, BesideSame DEF Below
<1>7. HeldAt(cs2, st2, fs2, s, d) = HeldAt(cs, st, fs, s, d)
  BY <1>1, <1>2, <1>5, <1>6 DEF HeldAt, Below
<1>8. QED BY <1>4, <1>7, HolderInIs

-----------------------------------------------------------------------------
(* Where runs stand before and after each shape of step.                   *)

LEMMA ParkedBelow ==
  ASSUME IInv, BasesGrow, NEW j \in 1..Len(frames),
         NEW i \in frames[j].base + 1..frames[j].base + Parked(frames[j])
  PROVE  i \in 1..Len(contextStack) /\ (j < Len(frames) => i <= Inner.base)
<1>1. Len(frames) \in Nat /\ Len(contextStack) \in Nat /\ Inner = frames[Len(frames)]
  BY Depths DEF IInv, Inner
<1>2. PICK n : n = Len(frames)
  OBVIOUS
<1>3. n \in Nat /\ j \in 1..n
  BY <1>1, <1>2
<1>4. frames[j].base + Parked(frames[j]) = IF j = n THEN Len(contextStack) ELSE frames[j + 1].base
  BY <1>2 DEF IInv, Core, StackDiscipline
<1>5. \A k \in 1..n : frames[k].base \in Nat /\ frames[k].base <= Len(contextStack)
  BY <1>2 DEF BasesGrow
<1>6. CASE j = n
  BY <1>1, <1>2, <1>3, <1>4, <1>5, <1>6
<1>7. CASE j < n
  <2>1. j + 1 \in 1..n /\ n \in 1..n /\ j + 1 <= n
    BY <1>3, <1>7
  <2>2. frames[j + 1].base <= frames[n].base
    BY <1>2, <2>1 DEF BasesGrow
  <2>3. i <= frames[j + 1].base /\ i \in Nat /\ i >= 1 /\ frames[j + 1].base \in Nat
        /\ frames[n].base \in Nat /\ frames[n].base <= Len(contextStack)
    BY <1>3, <1>4, <1>5, <1>7, <2>1
  <2>4. i <= frames[n].base /\ i \in 1..Len(contextStack)
    BY <1>1, <2>2, <2>3
  <2>5. QED BY <1>1, <1>2, <2>4
<1>8. QED BY <1>3, <1>6, <1>7

LEMMA LiveHolder ==
  ASSUME IInv, NEW s, ActiveIn(frames, Len(frames), s)
  PROVE  StandsAt(frames, s, Len(frames)) /\ Holder(s) = Top
<1>1. Len(frames) \in Nat /\ frames \in Seq(FrameType)
  BY DEF IInv, Core
<1>2. StandsAt(frames, s, Len(frames))
  BY <1>1 DEF StandsAt
<1>3. HolderIn(contexts, contextStack, frames, s)
        = HeldAt(contexts, contextStack, frames, s, Len(frames))
  BY <1>1, <1>2, HolderInIs
<1>4. QED BY <1>2, <1>3, HolderNow DEF HeldAt, Top

(* A run that is not in the current branch of the innermost statement.     *)
LEMMA DeadStands ==
  ASSUME IInv, NEW s, NEW n \in 1..Len(frames), ~ActiveIn(frames, n, s)
  PROVE  \E d : StandsAt(frames, s, d) /\ d \in Nat /\ d < n
<1>1. Len(frames) \in Nat /\ frames \in Seq(FrameType)
  BY DEF IInv, Core
<1>2. PICK d : StandsAt(frames, s, d)
  BY <1>1, StandsSomewhere
<1>3. d \in 0..Len(frames) /\ ActiveIn(frames, d, s) /\ d \in Nat
  BY <1>1, <1>2 DEF StandsAt
<1>4. n \in 0..d => ActiveIn(frames, n, s)
  BY <1>3, ActiveStep
<1>5. d < n
  BY <1>1, <1>3, <1>4
<1>6. QED BY <1>2, <1>3, <1>5

LEMMA HolderStays ==
  ASSUME IInv, BasesGrow, NEW ctx, contexts' = [contexts EXCEPT ![Len(contexts)] = ctx],
         UNCHANGED <<contextStack, frames>>, NEW s
  PROVE  /\ ActiveIn(frames, Len(frames), s) => Holder(s)' = ctx
         /\ ~ActiveIn(frames, Len(frames), s) => Holder(s)' = Holder(s)
<1>1. /\ Len(frames) \in Nat /\ frames \in Seq(FrameType)
      /\ \A j \in 1..Len(frames) : FrameGood(frames[j])
  BY DEF IInv, Core
<1>2. /\ Len(contexts') = Len(frames) + 1
      /\ \A k \in 1..Len(frames) + 1 :
           contexts'[k] = IF k = Len(frames) + 1 THEN ctx ELSE contexts[k]
  BY ReplaceShape DEF IInv
<1>3. ASSUME ActiveIn(frames, Len(frames), s)
      PROVE  Holder(s)' = ctx
  <2>1. StandsAt(frames, s, Len(frames))
    BY <1>1, <1>3 DEF StandsAt
  <2>2. PICK cs : cs = contexts'
    OBVIOUS
  <2>3. HolderIn(cs, contextStack, frames, s) = HeldAt(cs, contextStack, frames, s, Len(frames))
    BY <1>1, <2>1, HolderInIs
  <2>4. HeldAt(cs, contextStack, frames, s, Len(frames)) = ctx
    BY <1>1, <1>2, <2>2 DEF HeldAt
  <2>5. QED BY <2>2, <2>3, <2>4, HolderNow
<1>4. ASSUME ~ActiveIn(frames, Len(frames), s)
      PROVE  Holder(s)' = Holder(s)
  <2>1. Len(frames) >= 1
    BY <1>1, <1>4 DEF ActiveIn
  <2>2. PICK n : n = Len(frames)
    OBVIOUS
  <2>3. n \in 1..Len(frames) /\ n \in Nat
    BY <1>1, <2>1, <2>2
  <2>4. PICK d : StandsAt(frames, s, d) /\ d \in Nat /\ d < n
    BY <1>4, <2>2, <2>3, DeadStands
  <2>5. PICK cs : cs = contexts'
    OBVIOUS
  <2>6. Below(contexts, cs, contextStack, contextStack, frames, frames, n)
    BY <1>1, <1>2, <2>2, <2>5 DEF Below
  <2>7. HolderIn(cs, contextStack, frames, s) = HolderIn(contexts, contextStack, frames, s)
    BY <1>1, <2>2, <2>3, <2>4, <2>6, HeldElsewhere
  <2>8. QED BY <2>5, <2>7, HolderNow
<1>5. QED BY <1>3, <1>4

(* A statement that opens: no run is beside its first branch yet.          *)
Untaken(fr) ==
  /\ fr.kind # "else"
  /\ \A s \in Sigma :
       fr.kind \in {"case", "default"} /\ ~Selected(fr, s) => Alike(fr, s) = {}

LEMMA HolderOpens ==
  ASSUME IInv, BasesGrow, NEW frame, FrameGood(frame), Untaken(frame), NEW space \in Space,
         Opening(frame, space), NEW s \in Sigma
  PROVE  /\ ActiveIn(frames, Len(frames), s) => Holder(s)' \in {Top, Child(Top)}
         /\ ~ActiveIn(frames, Len(frames), s) => Holder(s)' = Holder(s)
<1>1. /\ Len(frames) \in Nat /\ frames \in Seq(FrameType)
      /\ \A j \in 1..Len(frames) : FrameGood(frames[j])
  BY DEF IInv, Core
<1>2. /\ Len(contexts') = Len(frames) + 2 /\ Len(frames') = Len(frames) + 1
      /\ \A k \in 1..Len(frames) + 2 :
           contexts'[k] = IF k = Len(frames) + 2 THEN Child(Top) ELSE contexts[k]
      /\ \A k \in 1..Len(frames) + 1 :
           frames'[k] = IF k = Len(frames) + 1 THEN frame ELSE frames[k]
  BY OpenShape DEF IInv, Opening
<1>3. frames' \in Seq(FrameType) /\ contextStack' = contextStack
  BY <1>1 DEF Opening, OpenContext, FrameGood
<1>4. PICK cs, fs, n : cs = contexts' /\ fs = frames' /\ n = Len(frames)
  OBVIOUS
<1>5. Holder(s)' = HolderIn(cs, contextStack, fs, s)
  BY <1>3, <1>4, HolderNow
<1>6. n \in Nat /\ n + 1 \in Nat /\ Len(fs) = n + 1 /\ Len(cs) = n + 2 /\ fs[n + 1] = frame
      /\ cs[n + 2] = Child(Top) /\ cs[n + 1] = Top
      /\ \A j \in 1..n : fs[j] = frames[j] /\ cs[j] = contexts[j]
  BY <1>1, <1>2, <1>4, Depths DEF IInv
<1>7. ASSUME ActiveIn(frames, n, s)
      PROVE  Holder(s)' \in {Top, Child(Top)}
  <2>1. ActiveIn(fs, n, s)
    BY <1>6, <1>7 DEF ActiveIn
  <2>2. CASE Selected(frame, s)
    <3>1. ActiveIn(fs, n + 1, s)
      BY <1>6, <2>1, <2>2, ActiveStep
    <3>2. PICK m : m = n + 1
      OBVIOUS
    <3>3. StandsAt(fs, s, m)
      BY <1>6, <3>1, <3>2 DEF StandsAt
    <3>4. HolderIn(cs, contextStack, fs, s) = HeldAt(cs, contextStack, fs, s, m)
      BY <1>3, <1>4, <3>3, HolderInIs
    <3>5. QED BY <1>5, <1>6, <3>2, <3>4 DEF HeldAt
  <2>3. CASE ~Selected(frame, s)
    <3>1. StandsAt(fs, s, n)
      BY <1>6, <2>1, <2>3 DEF StandsAt
    <3>2. HolderIn(cs, contextStack, fs, s) = HeldAt(cs, contextStack, fs, s, n)
      BY <1>3, <1>4, <3>1, HolderInIs
    <3>3. HeldAt(cs, contextStack, fs, s, n) = Beside(frame, Top, contextStack, s)
      BY <1>6 DEF HeldAt
    <3>4. Beside(frame, Top, contextStack, s) = Top
      BY <2>3 DEF Beside, Untaken
    <3>5. QED BY <1>5, <3>2, <3>3, <3>4
  <2>4. QED BY <2>2, <2>3
<1>8. ASSUME ~ActiveIn(frames, n, s)
      PROVE  Holder(s)' = Holder(s)
  <2>1. n \in 1..Len(frames)
    BY <1>4, <1>6, <1>8 DEF ActiveIn
  <2>2. PICK d : StandsAt(frames, s, d) /\ d \in Nat /\ d < n
    BY <1>8, <2>1, DeadStands
  <2>3. Below(contexts, cs, contextStack, contextStack, frames, fs, n)
    BY <1>1, <1>4, <1>6 DEF Below
  <2>4. HolderIn(cs, contextStack, fs, s) = HolderIn(contexts, contextStack, frames, s)
    BY <1>1, <1>3, <1>4, <1>6, <2>2, <2>3, HeldElsewhere
  <2>5. QED BY <1>5, <2>4, HolderNow
<1>9. QED BY <1>4, <1>7, <1>8

LEMMA BranchSteps ==
  ASSUME IInv, NEW frame, Branching(frame)
  PROVE  /\ Len(contexts') = Len(frames) + 1 /\ Len(frames') = Len(frames)
         /\ Len(contextStack') = Len(contextStack) + 1
         /\ \A k \in 1..Len(frames) + 1 :
              contexts'[k] = IF k = Len(frames) + 1 THEN Child(Parent) ELSE contexts[k]
         /\ \A k \in 1..Len(frames) :
              frames'[k] = IF k = Len(frames) THEN frame ELSE frames[k]
         /\ \A i \in 1..Len(contextStack) : contextStack'[i] = contextStack[i]
         /\ contextStack'[Len(contextStack) + 1] = Top
<1>1. frames # <<>> /\ NextBranch(frame)
  BY DEF Branching
<1>2. contextStack \in Seq(Context) /\ contextStack' = Append(contextStack, Top)
  BY <1>1 DEF NextBranch, IInv, Core
<1>3. /\ Len(contextStack') = Len(contextStack) + 1
      /\ \A i \in 1..Len(contextStack) : contextStack'[i] = contextStack[i]
      /\ contextStack'[Len(contextStack) + 1] = Top
  BY <1>2
<1>4. QED BY <1>1, <1>3, BranchShape DEF IInv

(* The next branch of an if or a case: runs in the current branch come to  *)
(* be beside it, in the one now parked; of the others none changes place   *)
(* unless the new branch is for it.                                        *)
Follows(fr, frame) ==
  /\ FrameGood(frame) /\ frame.base = fr.base
  /\ \A s \in Sigma :
       /\ Selected(fr, s) =>
            /\ ~Selected(frame, s)
            /\ \/ frame.kind = "else" /\ Parked(fr) = 0
               \/ /\ frame.kind \in {"case", "default"} /\ Alike(frame, s) # {}
                  /\ FirstAlike(frame, s) = Parked(fr) + 1
       /\ ~Selected(fr, s) =>
            \/ /\ ~Selected(frame, s)
               /\ fr.kind \in {"case", "default"} /\ frame.kind \in {"case", "default"}
               /\ (Alike(frame, s) = {}) = (Alike(fr, s) = {})
               /\ Alike(fr, s) # {} => FirstAlike(frame, s) = FirstAlike(fr, s)
            \/ /\ Selected(frame, s)
               /\ fr.kind # "else"
               /\ fr.kind \in {"case", "default"} => Alike(fr, s) = {}

LEMMA HolderBranches ==
  ASSUME IInv, BasesGrow, NEW frame, Branching(frame), Follows(Inner, frame), NEW s \in Sigma
  PROVE  \/ Holder(s)' = Holder(s)
         \/ Holder(s) = Parent /\ Holder(s)' = Child(Parent)
<1>1. /\ Len(frames) \in Nat /\ frames \in Seq(FrameType) /\ frames # <<>>
      /\ \A j \in 1..Len(frames) : FrameGood(frames[j])
  BY DEF IInv, Core, Branching
<1>2. /\ Len(contexts') = Len(frames) + 1 /\ Len(frames') = Len(frames)
      /\ Len(contextStack') = Len(contextStack) + 1
      /\ \A k \in 1..Len(frames) + 1 :
           contexts'[k] = IF k = Len(frames) + 1 THEN Child(Parent) ELSE contexts[k]
      /\ \A k \in 1..Len(frames) :
           frames'[k] = IF k = Len(frames) THEN frame ELSE frames[k]
      /\ \A i \in 1..Len(contextStack) : contextStack'[i] = contextStack[i]
      /\ contextStack'[Len(contextStack) + 1] = Top
  BY BranchSteps
<1>3. frames' \in Seq(FrameType)
  BY <1>1 DEF Branching, NextBranch, Follows, FrameGood
<1>4. PICK cs, fs, st, m, n : cs = contexts' /\ fs = frames' /\ st = contextStack'
                              /\ n = Len(frames) /\ m = Len(frames) - 1
  OBVIOUS
<1>5. Holder(s)' = HolderIn(cs, st, fs, s) /\ Holder(s) = HolderIn(contexts, contextStack, frames, s)
  BY <1>4, HolderNow
<1>6. /\ n \in Nat /\ m \in Nat /\ n = m + 1 /\ n \in 1..n /\ m < n
      /\ Len(frames) = n /\ Len(fs) = n /\ Len(cs) = n + 1
      /\ fs[n] = frame /\ frames[n] = Inner /\ cs[n + 1] = Child(Parent) /\ cs[n] = Parent
      /\ contexts[n] = Parent /\ contexts[n + 1] = Top /\ Len(contexts) = n + 1
      /\ \A j \in 1..m : fs[j] = frames[j] /\ cs[j] = contexts[j] /\ j \in 1..n
  BY <1>1, <1>2, <1>4, Depths DEF IInv
<1>7. ASSUME NEW j \in 1..Len(frames),
             NEW i \in frames[j].base + 1..frames[j].base + Parked(frames[j])
      PROVE  st[i] = contextStack[i]
  BY <1>2, <1>4, ParkedBelow
<1>8. CASE ~ActiveIn(frames, m, s)
  <2>1. m \in 1..Len(frames)
    BY <1>6, <1>8 DEF ActiveIn
  <2>2. PICK d : StandsAt(frames, s, d) /\ d \in Nat /\ d < m
    BY <1>8, <2>1, DeadStands
  <2>3. Below(contexts, cs, contextStack, st, frames, fs, m)
    BY <1>1, <1>6, <1>7 DEF Below
  <2>4. fs \in Seq(FrameType) /\ m \in Nat
    BY <1>3, <1>4, <1>6
  <2>5. HolderIn(cs, st, fs, s) = HolderIn(contexts, contextStack, frames, s)
    BY <1>1, <2>2, <2>3, <2>4, HeldElsewhere
  <2>6. QED BY <1>5, <2>5
<1>9. CASE ActiveIn(frames, m, s)
  <2>1. ActiveIn(fs, m, s)
    BY <1>6, <1>9 DEF ActiveIn
  <2>2. PICK inner : inner = Inner
    OBVIOUS
  <2>3. FrameGood(inner) /\ inner.base \in Nat /\ Parked(inner) \in Nat
        /\ inner.base + Parked(inner) = Len(contextStack)
    <3>1. FrameGood(inner) /\ inner \in FrameType
      BY <1>1, <1>6, <2>2 DEF FrameGood
    <3>2. inner.base + Parked(inner) = Len(contextStack) /\ inner.base \in Nat
      BY <1>1, <2>2, InnerGood DEF IInv
    <3>3. Parked(inner) \in Nat
      BY <3>1 DEF FrameGood, FrameType, Parked
    <3>4. QED BY <3>1, <3>2, <3>3
  <2>4. ASSUME Selected(inner, s)
        PROVE  Holder(s) = Top
    <3>1. ActiveIn(frames, n, s)
      BY <1>6, <1>9, <2>2, <2>4, ActiveStep
    <3>2. QED BY <1>4, <3>1, LiveHolder
  <2>5. ASSUME ~Selected(inner, s)
        PROVE  Holder(s) = Beside(inner, Parent, contextStack, s)
    <3>1. StandsAt(frames, s, m)
      BY <1>6, <1>9, <2>2, <2>5 DEF StandsAt
    <3>2. HolderIn(contexts, contextStack, frames, s) = HeldAt(contexts, contextStack, frames, s, m)
      BY <1>1, <3>1, HolderInIs
    <3>3. QED BY <1>5, <1>6, <2>2, <3>2 DEF HeldAt
  <2>6. ASSUME Selected(frame, s)
        PROVE  Holder(s)' = Child(Parent)
    <3>1. ActiveIn(fs, n, s)
      BY <1>6, <2>1, <2>6, ActiveStep
    <3>2. StandsAt(fs, s, n)
      BY <1>6, <3>1 DEF StandsAt
    <3>3. HolderIn(cs, st, fs, s) = HeldAt(cs, st, fs, s, n)
      BY <1>3, <1>4, <3>2, HolderInIs
    <3>4. QED BY <1>5, <1>6, <3>3 DEF HeldAt
  <2>7. ASSUME ~Selected(frame, s)
        PROVE  Holder(s)' = Beside(frame, Parent, st, s)
    <3>1. StandsAt(fs, s, m)
      BY <1>6, <2>1, <2>7 DEF StandsAt
    <3>2. HolderIn(cs, st, fs, s) = HeldAt(cs, st, fs, s, m)
      BY <1>3, <1>4, <3>1, HolderInIs
    <3>3. QED BY <1>5, <1>6, <3>2 DEF HeldAt
  <2>8. CASE Selected(inner, s)
    <3>1. ~Selected(frame, s) /\ frame.base = inner.base
          /\ \/ frame.kind = "else" /\ Parked(inner) = 0
             \/ /\ frame.kind \in {"case", "default"} /\ Alike(frame, s) # {}
                /\ FirstAlike(frame, s) = Parked(inner) + 1
      BY <2>2, <2>8 DEF Follows
    <3>2. PICK i : i = Len(contextStack) + 1
      OBVIOUS
    <3>3. st[i] = Top
      BY <1>2, <1>4, <3>2
    <3>4. frame.kind = "else" => frame.base + 1 = i
      BY <2>3, <3>1, <3>2
    <3>5. frame.kind # "else" => frame.base + FirstAlike(frame, s) = i
      <4>1. PICK p, b : p = Parked(inner) /\ b = inner.base
        OBVIOUS
      <4>2. p \in Nat /\ b \in Nat /\ b + p + 1 = i
        BY <2>3, <3>2, <4>1
      <4>3. b + (p + 1) = i
        BY <4>2
      <4>4. QED BY <3>1, <4>1, <4>3
    <3>6. Beside(frame, Parent, st, s) = Top
      BY <3>1, <3>3, <3>4, <3>5 DEF Beside
    <3>7. QED BY <2>4, <2>7, <2>8, <3>1, <3>6
  <2>9. CASE ~Selected(inner, s) /\ Selected(frame, s)
    <3>1. inner.kind # "else" /\ (inner.kind \in {"case", "default"} => Alike(inner, s) = {})
      BY <2>2, <2>9 DEF Follows
    <3>2. Beside(inner, Parent, contextStack, s) = Parent
      BY <3>1 DEF Beside
    <3>3. QED BY <2>5, <2>6, <2>9, <3>2
  <2>10. CASE ~Selected(inner, s) /\ ~Selected(frame, s)
    <3>1. /\ inner.kind \in {"case", "default"} /\ frame.kind \in {"case", "default"}
          /\ (Alike(frame, s) = {}) = (Alike(inner, s) = {})
          /\ Alike(inner, s) # {} => FirstAlike(frame, s) = FirstAlike(inner, s)
          /\ frame.base = inner.base
      BY <2>2, <2>10 DEF Follows
    <3>2. Beside(frame, Parent, st, s) = Beside(inner, Parent, st, s)
      BY <3>1 DEF Beside
    <3>3. \A i \in inner.base + 1..inner.base + Parked(inner) : st[i] = contextStack[i]
      BY <1>6, <1>7, <2>2
    <3>4. Beside(inner, Parent, st, s) = Beside(inner, Parent, contextStack, s)
      BY <2>3, <2>10, <3>3, BesideSame
    <3>5. QED BY <2>5, <2>7, <2>10, <3>2, <3>4
  <2>11. QED BY <2>8, <2>9, <2>10
<1>10. QED BY <1>8, <1>9

(* The innermost statement ends: the runs it had are in the merged         *)
(* context.                                                                *)
LEMMA HolderCloses ==
  ASSUME IInv, BasesGrow, frames # <<>>, NEW ctx, NEW names, NEW nb, Closes(ctx, names, nb),
         NEW s, NEW m, m = Len(frames) - 1
  PROVE  /\ ActiveIn(frames, m, s) =>
              /\ Holder(s)' = ctx
              /\ Selected(Inner, s) => Holder(s) = Top
              /\ ~Selected(Inner, s) => Holder(s) = Beside(Inner, Parent, contextStack, s)
         /\ ~ActiveIn(frames, m, s) => Holder(s)' = Holder(s)
<1>1. /\ Len(frames) \in Nat /\ frames \in Seq(FrameType) /\ Len(frames) >= 1
      /\ \A j \in 1..Len(frames) : FrameGood(frames[j])
  BY Depths DEF IInv, Core
<1>2. /\ Len(contexts') = Len(frames) /\ Len(frames') = Len(frames) - 1
      /\ \A k \in 1..Len(frames) : contexts'[k] = IF k = Len(frames) THEN ctx ELSE contexts[k]
      /\ \A k \in 1..Len(frames) - 1 : frames'[k] = frames[k]
  BY CloseShape DEF IInv, Closes
<1>3. frames' \in Seq(FrameType)
  BY <1>1 DEF Closes, CloseContext, Front
<1>4. PICK cs, fs, st, n : cs = contexts' /\ fs = frames' /\ st = contextStack'
                           /\ n = Len(frames)
  OBVIOUS
<1>5. Holder(s)' = HolderIn(cs, st, fs, s) /\ Holder(s) = HolderIn(contexts, contextStack, frames, s)
  BY <1>4, HolderNow
<1>6. /\ n \in Nat /\ m \in Nat /\ n = m + 1 /\ n \in 1..n /\ m < n
      /\ Len(frames) = n /\ Len(fs) = m /\ Len(cs) = n
      /\ frames[n] = Inner /\ cs[n] = ctx
      /\ contexts[n] = Parent /\ contexts[n + 1] = Top /\ Len(contexts) = n + 1
      /\ \A j \in 1..m : fs[j] = frames[j] /\ cs[j] = contexts[j] /\ j \in 1..n
  BY SMTT(20), <1>1, <1>2, <1>4, Depths DEF IInv
<1>7. ASSUME NEW j \in 1..m,
             NEW i \in frames[j].base + 1..frames[j].base + Parked(frames[j])
      PROVE  st[i] = contextStack[i]
  <2>1. j \in 1..Len(frames) /\ j < Len(frames)
    BY <1>6
  <2>2. i \in 1..Len(contextStack) /\ i <= Inner.base
    BY <2>1, ParkedBelow
  <2>3. Inner.base \in Nat
    BY InnerGood DEF IInv
  <2>4. i \in 1..Inner.base
    BY <2>2, <2>3
  <2>5. QED BY <1>4, <2>4 DEF Closes
<1>8. ASSUME ~ActiveIn(frames, m, s)
      PROVE  Holder(s)' = Holder(s)
  <2>1. m \in 1..Len(frames)
    BY <1>6, <1>8 DEF ActiveIn
  <2>2. PICK d : StandsAt(frames, s, d) /\ d \in Nat /\ d < m
    BY <1>8, <2>1, DeadStands
  <2>3. Below(contexts, cs, contextStack, st, frames, fs, m)
    BY <1>1, <1>6, <1>7 DEF Below
  <2>4. HolderIn(cs, st, fs, s) = HolderIn(contexts, contextStack, frames, s)
    BY <1>1, <1>3, <1>4, <1>6, <2>2, <2>3, HeldElsewhere
  <2>5. QED BY <1>5, <2>4
<1>9. ASSUME ActiveIn(frames, m, s)
      PROVE  /\ Holder(s)' = ctx
             /\ Selected(Inner, s) => Holder(s) = Top
             /\ ~Selected(Inner, s) => Holder(s) = Beside(Inner, Parent, contextStack, s)
  <2>1. ActiveIn(fs, m, s)
    BY <1>6, <1>9 DEF ActiveIn
  <2>2. StandsAt(fs, s, m)
    BY <1>6, <2>1 DEF StandsAt
  <2>3. HolderIn(cs, st, fs, s) = HeldAt(cs, st, fs, s, m)
    BY <1>3, <1>4, <2>2, HolderInIs
  <2>4. Holder(s)' = ctx
    BY <1>5, <1>6, <2>3 DEF HeldAt
  <2>5. ASSUME Selected(Inner, s)
        PROVE  Holder(s) = Top
    <3>1. ActiveIn(frames, n, s)
      <4>1. m \in Nat /\ n = m + 1 /\ frames[n] = Inner
        BY <1>6
      <4>2. ActiveIn(frames, m + 1, s) <=> ActiveIn(frames, m, s) /\ Selected(frames[m + 1], s)
        BY <4>1, ActiveStep
      <4>3. QED BY <1>9, <2>5, <4>1, <4>2
    <3>2. QED BY <1>4, <3>1, LiveHolder
  <2>6. ASSUME ~Selected(Inner, s)
        PROVE  Holder(s) = Beside(Inner, Parent, contextStack, s)
    <3>1. StandsAt(frames, s, m)
      BY <1>6, <1>9, <2>6 DEF StandsAt
    <3>2. HolderIn(contexts, contextStack, frames, s) = HeldAt(contexts, contextStack, frames, s, m)
      BY <1>1, <3>1, HolderInIs
    <3>3. QED BY <1>5, <1>6, <3>2 DEF HeldAt
  <2>7. QED BY <2>4, <2>5, <2>6
<1>10. QED BY <1>8, <1>9

-----------------------------------------------------------------------------
(* The nesting, as ProcSemantics has it.                                   *)

LEMMA LiveStep ==
  ASSUME NEW fs, NEW n \in Nat, NEW m, m = n + 1
  PROVE  LiveIn(fs, m) = Taking(fs[m], LiveIn(fs, n))
BY ActiveStep DEF LiveIn, Taking

LEMMA PathNowIs ==
  ASSUME NEW fs \in Seq(FrameType)
  PROVE  /\ frames = fs => PathNow = PathIn(fs)
         /\ frames' = fs => PathNow' = PathIn(fs)
<1>1. ASSUME NEW n \in Nat
      PROVE  /\ frames = fs => ActiveSet(n) = LiveIn(fs, n)
             /\ frames' = fs => ActiveSet(n)' = LiveIn(fs, n)
  BY DEF ActiveSet, Active, LiveIn, ActiveIn
<1>2. ASSUME NEW j \in 1..Len(fs)
      PROVE  /\ frames = fs => PathFrame(j) = FrameView(fs[j], LiveIn(fs, j - 1))
             /\ frames' = fs => PathFrame(j)' = FrameView(fs[j], LiveIn(fs, j - 1))
  <2>1. PICK i : i = j - 1
    OBVIOUS
  <2>2. i \in Nat /\ j \in Nat /\ i + 1 = j
    BY <2>1
  <2>3. LiveIn(fs, j) = Taking(fs[j], LiveIn(fs, i))
    BY <2>2, LiveStep
  <2>4. /\ frames = fs => ActiveSet(j) = LiveIn(fs, j) /\ ActiveSet(j - 1) = LiveIn(fs, i)
        /\ frames' = fs => ActiveSet(j)' = LiveIn(fs, j) /\ ActiveSet(j - 1)' = LiveIn(fs, i)
    BY <1>1, <2>1, <2>2
  <2>5. QED BY <2>1, <2>3, <2>4 DEF PathFrame, FrameView, Taking
<1>3. QED BY <1>2 DEF PathNow, PathIn

SameUpTo(fs, fs2, n) == \A j \in 1..n : fs2[j] = fs[j]

LEMMA LiveBelow ==
  ASSUME NEW fs, NEW fs2, NEW n \in Nat, SameUpTo(fs, fs2, n), NEW m \in 0..n
  PROVE  LiveIn(fs2, m) = LiveIn(fs, m)
BY DEF LiveIn, ActiveIn, SameUpTo

LEMMA PathFields ==
  ASSUME NEW fs \in Seq(FrameType)
  PROVE  /\ Len(PathIn(fs)) = Len(fs) /\ (PathIn(fs) = <<>> <=> fs = <<>>)
         /\ \A j \in 1..Len(fs) : PathIn(fs)[j] = FrameView(fs[j], LiveIn(fs, j - 1))
BY DEF PathIn

LEMMA PathGrows ==
  ASSUME NEW fs \in Seq(FrameType), NEW fs2 \in Seq(FrameType), NEW frame,
         Len(fs2) = Len(fs) + 1, \A j \in 1..Len(fs) : fs2[j] = fs[j], fs2[Len(fs) + 1] = frame
  PROVE  PathIn(fs2) = Append(PathIn(fs), FrameView(frame, LiveIn(fs, Len(fs))))
<1>1. PICK n : n = Len(fs)
  OBVIOUS
<1>2. n \in Nat /\ n + 1 - 1 = n /\ Len(fs2) = n + 1 /\ fs2[n + 1] = frame
  BY <1>1
<1>3. ASSUME NEW j \in 1..n + 1
      PROVE  LiveIn(fs2, j - 1) = LiveIn(fs, j - 1)
  <2>1. j - 1 \in 0..n /\ SameUpTo(fs, fs2, n)
    BY <1>1, <1>2 DEF SameUpTo
  <2>2. QED BY <1>2, <2>1, LiveBelow
<1>4. \A j \in 1..n : fs2[j] = fs[j]
  BY <1>1
<1>5. QED BY <1>1, <1>2, <1>3, <1>4 DEF PathIn

LEMMA PathShrinks ==
  ASSUME NEW fs \in Seq(FrameType), NEW fs2 \in Seq(FrameType), fs # <<>>,
         Len(fs2) = Len(fs) - 1, \A j \in 1..Len(fs) - 1 : fs2[j] = fs[j]
  PROVE  PathIn(fs2) = SubSeq(PathIn(fs), 1, Len(PathIn(fs)) - 1)
<1>1. PICK m : m = Len(fs) - 1
  OBVIOUS
<1>2. m \in Nat /\ Len(fs) = m + 1 /\ Len(fs2) = m
  BY <1>1
<1>3. ASSUME NEW j \in 1..m
      PROVE  LiveIn(fs2, j - 1) = LiveIn(fs, j - 1)
  <2>1. j - 1 \in 0..m /\ SameUpTo(fs, fs2, m)
    BY <1>1, <1>2 DEF SameUpTo
  <2>2. QED BY <1>2, <2>1, LiveBelow
<1>4. \A j \in 1..m : fs2[j] = fs[j] /\ j \in 1..m + 1
  BY <1>1, <1>2
<1>5. QED BY <1>1, <1>2, <1>3, <1>4 DEF PathIn

LEMMA PathTurns ==
  ASSUME NEW fs \in Seq(FrameType), NEW fs2 \in Seq(FrameType), fs # <<>>, NEW frame,
         Len(fs2) = Len(fs), fs2[Len(fs)] = frame,
         \A j \in 1..Len(fs) : j # Len(fs) => fs2[j] = fs[j]
  PROVE  PathIn(fs2) = [PathIn(fs) EXCEPT ![Len(PathIn(fs))]
                          = FrameView(frame, LiveIn(fs, Len(fs) - 1))]
<1>1. PICK m : m = Len(fs) - 1
  OBVIOUS
<1>2. m \in Nat /\ Len(fs) = m + 1 /\ Len(fs2) = m + 1 /\ fs2[m + 1] = frame
  BY <1>1
<1>3. \A j \in 1..m : fs2[j] = fs[j] /\ j \in 1..m + 1
  BY <1>1, <1>2
<1>4. ASSUME NEW j \in 1..m + 1
      PROVE  LiveIn(fs2, j - 1) = LiveIn(fs, j - 1)
  <2>1. j - 1 \in 0..m /\ SameUpTo(fs, fs2, m)
    BY <1>2, <1>3 DEF SameUpTo
  <2>2. QED BY <1>2, <2>1, LiveBelow
<1>5. PICK view : view = FrameView(frame, LiveIn(fs, m))
  OBVIOUS
<1>6. FrameView(fs2[m + 1], LiveIn(fs2, (m + 1) - 1)) = view
  BY SMTT(20), <1>2, <1>4, <1>5
<1>7. /\ PathIn(fs2) = [j \in 1..m + 1 |-> FrameView(fs2[j], LiveIn(fs2, j - 1))]
      /\ PathIn(fs) = [j \in 1..m + 1 |-> FrameView(fs[j], LiveIn(fs, j - 1))]
      /\ Len(PathIn(fs)) = m + 1
  BY <1>2, PathFields DEF PathIn
<1>8. \A j \in 1..m : FrameView(fs2[j], LiveIn(fs2, j - 1)) = FrameView(fs[j], LiveIn(fs, j - 1))
  BY <1>3, <1>4
<1> DEFINE View(f, j) == FrameView(f[j], LiveIn(f, j - 1))
<1>9. PathIn(fs2) = [PathIn(fs) EXCEPT ![m + 1] = view]
  <2>1. /\ PathIn(fs2) = [j \in 1..m + 1 |-> View(fs2, j)]
        /\ PathIn(fs) = [j \in 1..m + 1 |-> View(fs, j)]
    BY <1>7
  <2>2. View(fs2, m + 1) = view
    BY <1>6
  <2>3. \A j \in 1..m : View(fs2, j) = View(fs, j)
    BY <1>8
  <2> HIDE DEF View
  <2>4. \A j \in 1..m + 1 : View(fs2, j) = IF j = m + 1 THEN view ELSE View(fs, j)
    BY <1>2, <2>2, <2>3
  <2>5. QED BY <2>1, <2>4
<1>10. QED BY <1>1, <1>5, <1>7, <1>9

(* Runs that execute the current branch are in the innermost context.      *)
LEMMA LiveNow ==
  ASSUME IInv
  PROVE  Process!Live = LiveIn(frames, Len(frames))
<1>1. frames \in Seq(FrameType) /\ Len(frames) \in Nat
  BY DEF IInv, Core
<1>2. PICK n, path : n = Len(frames) /\ path = PathNow
  OBVIOUS
<1>3. path = PathIn(frames)
  BY <1>1, <1>2, PathNowIs
<1>4. Process!Live = IF path = <<>> THEN Sigma ELSE path[Len(path)].live
  BY <1>2 DEF Process!Live, PathNow
<1>5. CASE n = 0
  <2>0. frames = <<>>
    BY <1>1, <1>2, <1>5, EmptySeq
  <2>1. path = <<>>
    BY <1>1, <1>3, <2>0, PathFields
  <2>2. LiveIn(frames, n) = Sigma
    BY <1>5 DEF LiveIn, ActiveIn
  <2>3. QED BY <1>2, <1>4, <2>1, <2>2
<1>6. CASE n > 0
  <2>1. PICK m : m = n - 1
    OBVIOUS
  <2>2. m \in Nat /\ n = m + 1 /\ n \in 1..Len(frames) /\ frames # <<>>
    BY <1>1, <1>2, <1>6, <2>1
  <2>3. path # <<>> /\ Len(path) = n /\ path[n] = FrameView(frames[n], LiveIn(frames, m))
    BY <1>1, <1>2, <1>3, <2>1, <2>2, PathFields
  <2>4. path[n].live = Taking(frames[n], LiveIn(frames, m))
    BY <2>3 DEF FrameView
  <2>5. QED BY <1>2, <1>4, <2>2, <2>3, <2>4, LiveStep
<1>7. QED BY <1>1, <1>2, <1>5, <1>6

-----------------------------------------------------------------------------
(* The steps of ProcSemantics under the refinement mapping.                *)

Innermost == PathNow[Len(PathNow)]

SameValues == EnvNow' = EnvNow /\ NxtNow' = NxtNow /\ ResultNow' = ResultNow

Pushes(kind, live, rest, sel, full) ==
  PathNow' = Append(PathNow, [kind |-> kind, live |-> live, rest |-> rest, sel |-> sel, full |-> full])

Pops == PathNow' = SubSeq(PathNow, 1, Len(PathNow) - 1)

Turns(live, rest) ==
  PathNow' = [PathNow EXCEPT ![Len(PathNow)].live = live, ![Len(PathNow)].rest = rest]

TurnsLast(live, rest, full) ==
  PathNow' = [PathNow EXCEPT ![Len(PathNow)].live = live, ![Len(PathNow)].rest = rest,
                             ![Len(PathNow)].full = full]

NestedIn(kind) == PathNow # <<>> /\ Innermost.kind = kind

MatchingNow(g, pool, sel) == {s \in pool : Hits(g[EnvNow[s]], sel[s])}

LEMMA StepIf ==
  ASSUME NEW c \in Tests, SameValues, ResultNow = None, NEW live, live = Process!Live,
         NEW taken, taken = {s \in live : c[EnvNow[s]]},
         Pushes("if", taken, live \ taken, None, FALSE)
  PROVE  Process!If(c)
BY DEF Process!If, Process!Running, Process!Push, EnvNow, NxtNow, PathNow, ResultNow,
       SameValues, Pushes

LEMMA StepElse ==
  ASSUME SameValues, NestedIn("if"), Turns(Innermost.rest, {})
  PROVE  Process!Else
BY DEF Process!Else, Process!Inside, EnvNow, NxtNow, PathNow, ResultNow,
       SameValues, NestedIn, Innermost, Turns

LEMMA StepEndIf ==
  ASSUME SameValues, NestedIn("if"), Innermost.rest = {}, Pops
  PROVE  Process!EndIf
BY DEF Process!EndIf, Process!Inside, Process!Pop, EnvNow, NxtNow, PathNow, ResultNow,
       SameValues, NestedIn, Innermost, Pops

LEMMA StepCase ==
  ASSUME NEW f \in Selectors, NEW g \in Labels, NEW full \in BOOLEAN, SameValues, ResultNow = None,
         NEW live, live = Process!Live, NEW sel, sel = [s \in live |-> f[EnvNow[s]]],
         NEW taken, taken = MatchingNow(g, live, sel),
         Pushes("case", taken, live \ taken, sel, full)
  PROVE  Process!Case(f, g, full)
<1>1. taken = Process!Matching(g, live, sel)
  BY DEF Process!Matching, MatchingNow, Hits, EnvNow
<1>2. QED
  BY <1>1, Zenon DEF Process!Case, Process!Running, Process!Push, EnvNow, NxtNow, PathNow, ResultNow,
                     SameValues, Pushes

LEMMA StepCaseOfDefault ==
  ASSUME NEW f \in Selectors, SameValues, ResultNow = None,
         NEW live, live = Process!Live, NEW sel, sel = [s \in live |-> f[EnvNow[s]]],
         Pushes("case", live, {}, sel, FALSE)
  PROVE  Process!CaseOfDefault(f)
BY DEF Process!CaseOfDefault, Process!Running, Process!Push, EnvNow, NxtNow, PathNow,
       ResultNow, SameValues, Pushes

LEMMA StepNextItem ==
  ASSUME NEW g \in Labels, SameValues, NestedIn("case"),
         NEW taken, taken = MatchingNow(g, Innermost.rest, Innermost.sel),
         Turns(taken, Innermost.rest \ taken)
  PROVE  Process!NextItem(g)
BY DEF Process!NextItem, Process!Matching, Process!Inside, EnvNow, NxtNow, PathNow, ResultNow,
       SameValues, NestedIn, Innermost, Turns, MatchingNow, Hits

LEMMA StepDefault ==
  ASSUME SameValues, NestedIn("case"), TurnsLast(Innermost.rest, {}, FALSE)
  PROVE  Process!Default
BY DEF Process!Default, Process!Inside, EnvNow, NxtNow, PathNow, ResultNow,
       SameValues, NestedIn, Innermost, TurnsLast

LEMMA StepEndCase ==
  ASSUME SameValues, NestedIn("case"), ~Innermost.full, Pops
  PROVE  Process!EndCase
BY DEF Process!EndCase, Process!Inside, Process!Pop, EnvNow, NxtNow, PathNow, ResultNow,
       SameValues, NestedIn, Innermost, Pops

LEMMA StepEndFullCase ==
  ASSUME NestedIn("case"), Innermost.full, Pops, ResultNow' = ResultNow,
         \A s \in Sigma \ Innermost.rest : EnvNow'[s] = EnvNow[s] /\ NxtNow'[s] = NxtNow[s],
         EnvNow' \in [Sigma -> Store], NxtNow' \in [Sigma -> Store]
  PROVE  Process!EndFullCase
BY DEF Process!EndFullCase, Process!Inside, Process!Pop, Process!Store, Store,
       EnvNow, NxtNow, PathNow, ResultNow, NestedIn, Innermost, Pops

LEMMA StepBlock ==
  ASSUME SameValues, ResultNow = None, NEW live, live = Process!Live,
         Pushes("block", live, {}, None, FALSE)
  PROVE  Process!Block
BY DEF Process!Block, Process!Running, Process!Push, EnvNow, NxtNow, PathNow, ResultNow,
       SameValues, Pushes

LEMMA StepEndBlock ==
  ASSUME NestedIn("block"), Pops, ResultNow' = ResultNow,
         \A s \in Sigma, v \in Var \ Local :
           EnvNow'[s][v] = EnvNow[s][v] /\ NxtNow'[s][v] = NxtNow[s][v],
         EnvNow' \in [Sigma -> Store], NxtNow' \in [Sigma -> Store]
  PROVE  Process!EndBlock
BY DEF Process!EndBlock, Process!Inside, Process!Pop, Process!Store, Store,
       EnvNow, NxtNow, PathNow, ResultNow, NestedIn, Innermost, Pops

LEMMA StepFinish ==
  ASSUME ResultNow = None, PathNow = <<>>, ResultNow' = NxtNow,
         EnvNow' = EnvNow, NxtNow' = NxtNow, PathNow' = PathNow
  PROVE  Process!Finish
BY DEF Process!Finish, Process!Running, EnvNow, NxtNow, PathNow, ResultNow

(* What a target of an assignment comes to hold in the run from s.         *)
WrittenNow(s, t, old) ==
  IF t.idx = None THEN t.rhs[EnvNow[s]] ELSE Patch[old, t.rhs[EnvNow[s]], t.idx[EnvNow[s]]]

WriteOneNow(s, t, store) == [store EXCEPT ![t.var] = WrittenNow(s, t, @)]

WriteAllNow(s, a) ==
  LET first == WriteOneNow(s, a.lhs[1], NxtNow[s])
  IN  IF Len(a.lhs) = 1 THEN first ELSE WriteOneNow(s, a.lhs[2], first)

ValuesWritten(a, live, after) ==
  /\ NxtNow' = [s \in Sigma |-> IF s \in live THEN after[s] ELSE NxtNow[s]]
  /\ EnvNow' = IF a.nb THEN EnvNow
               ELSE [s \in Sigma |-> [v \in Var |->
                       IF s \in live /\ v \in Targets(a) THEN after[s][v] ELSE EnvNow[s][v]]]

LEMMA StepAssignment ==
  ASSUME NEW a, NEW live, live = Process!Live, ResultNow = None,
         PathNow' = PathNow, ResultNow' = ResultNow,
         NEW after, after = [s \in live |-> WriteAllNow(s, a)], ValuesWritten(a, live, after)
  PROVE  Process!Assignment(a)
<1>1. ASSUME NEW s, NEW t, NEW store
      PROVE  Process!WriteOne(s, t, store) = WriteOneNow(s, t, store)
  BY DEF Process!WriteOne, Process!Written, WriteOneNow, WrittenNow, EnvNow
<1>2. \A s \in live : Process!WriteAll(s, a) = WriteAllNow(s, a)
  BY <1>1 DEF Process!WriteAll, WriteAllNow, NxtNow
<1>3. Process!Targets(a) = Targets(a)
  BY DEF Process!Targets, Targets
<1>4. after = [s \in live |-> Process!WriteAll(s, a)]
  BY <1>2
<1> DEFINE Values(l, w) ==
             /\ NxtNow' = [s \in Sigma |-> IF s \in l THEN w[s] ELSE NxtNow[s]]
             /\ EnvNow' = IF a.nb THEN EnvNow
                          ELSE [s \in Sigma |-> [v \in Var |->
                                  IF s \in l /\ v \in Process!Targets(a) THEN w[s][v]
                                  ELSE EnvNow[s][v]]]
<1>5. /\ ResultNow = None /\ PathNow' = PathNow /\ ResultNow' = ResultNow
      /\ Values(Process!Live, [s \in Process!Live |-> Process!WriteAll(s, a)])
        => Process!Assignment(a)
  BY Zenon DEF Process!Assignment, Process!Running, EnvNow, NxtNow, PathNow, ResultNow
<1>6. Values(live, after)
  BY <1>3 DEF ValuesWritten
<1> HIDE DEF Values
<1>7. QED BY <1>4, <1>5, <1>6

-----------------------------------------------------------------------------
(* What a context holds.  When every name is assigned in one way only, a   *)
(* name assigned with = has its scheduled value as its current one, a name *)
(* assigned with <= still its input: a context is as good as what it has   *)
(* scheduled.                                                              *)

Ways(ctx) ==
  \A v \in Var : IF Way[v] THEN ctx.cur[v] = None ELSE ctx.cur[v] = ctx.sched[v]

Value(ctx, v) == IF ctx.sched[v] = None THEN Input(v) ELSE ctx.sched[v]

(* What a run from s leaves behind, and what it reads.                     *)
Leaves(ctx, s) == [v \in Var |-> Value(ctx, v)[s]]
Reads(ctx, s) == [v \in Var |-> IF Way[v] THEN s[v] ELSE Value(ctx, v)[s]]

(* A branch has what its parent has, but for its outputs.                  *)
Keeps(ctx, parent) == \A v \in Var \ Outs(ctx) : ctx.sched[v] = parent.sched[v]

(* Of the names declared in the process, each context drops its own.       *)
ViewsInv ==
  /\ \A k \in 1..Len(frames) + 1 : Ways(contexts[k]) /\ contexts[k].locals \subseteq Local
  /\ \A i \in 1..Len(contextStack) : Ways(contextStack[i])
  /\ \A v \in Var \ Outs(contexts[1]) : contexts[1].sched[v] = None
  /\ \A j \in 1..Len(frames) : Keeps(contexts[j + 1], contexts[j])
  /\ \A j \in 1..Len(frames) : \A i \in frames[j].base + 1..frames[j].base + Parked(frames[j]) :
       Keeps(contextStack[i], contexts[j])

LEMMA WaysView ==
  ASSUME NEW ctx, Ways(ctx), NEW v \in Var
  PROVE  /\ Fallback(ctx, v) = Value(ctx, v)
         /\ Current(ctx, v) = IF Way[v] THEN Input(v) ELSE Value(ctx, v)
BY DEF Ways, Fallback, Current, Value

LEMMA ValueType ==
  ASSUME NEW ctx \in Context, NEW v \in Var
  PROVE  Value(ctx, v) \in Expr
<1>1. Input(v) \in Expr
  BY ValuationsAreStores DEF Input, Expr, Store
<1>2. QED BY <1>1 DEF Value, Context

LEMMA StoreAtIs ==
  ASSUME NEW ctx, Ways(ctx), NEW s \in Sigma
  PROVE  /\ StoreAt(ctx, s) = Reads(ctx, s)
         /\ [v \in Var |-> Fallback(ctx, v)[s]] = Leaves(ctx, s)
BY WaysView DEF StoreAt, Reads, Leaves, Input

LEMMA ReadsType ==
  ASSUME NEW ctx \in Context, NEW s \in Sigma
  PROVE  Reads(ctx, s) \in Store /\ Leaves(ctx, s) \in Store
<1>1. \A v \in Var : Value(ctx, v)[s] \in Val /\ s[v] \in Val
  BY ValueType, ValuationsAreStores DEF Expr, Store
<1>2. QED BY <1>1 DEF Reads, Leaves, Store

(* Contexts that have scheduled the same are the same for every run.       *)
LEMMA SameSchedule ==
  ASSUME NEW ctx, NEW other, ctx.sched = other.sched, NEW s
  PROVE  Leaves(ctx, s) = Leaves(other, s) /\ Reads(ctx, s) = Reads(other, s)
BY DEF Leaves, Reads, Value

LEMMA ChildWays ==
  ASSUME NEW ctx \in Context, Ways(ctx)
  PROVE  Ways(Child(ctx)) /\ Keeps(Child(ctx), ctx) /\ Child(ctx).sched = ctx.sched
         /\ Child(ctx).locals = {}
BY ChildShape DEF Ways, Keeps

(* The context of a run is one of those on the stacks.                     *)
LEMMA HolderWays ==
  ASSUME IInv, BasesGrow, ViewsInv, NEW s
  PROVE  Holder(s) \in Context /\ Ways(Holder(s)) /\ Good(Holder(s))
<1>1. /\ Len(frames) \in Nat /\ frames \in Seq(FrameType) /\ Len(contexts) = Len(frames) + 1
      /\ \A j \in 1..Len(frames) : FrameGood(frames[j])
      /\ \A k \in 1..Len(frames) + 1 : Good(contexts[k]) /\ Ways(contexts[k])
      /\ \A i \in 1..Len(contextStack) : Good(contextStack[i]) /\ Ways(contextStack[i])
  BY DEF IInv, Core, ViewsInv
<1>2. PICK d : StandsAt(frames, s, d)
  BY <1>1, StandsSomewhere
<1>3. Holder(s) = HeldAt(contexts, contextStack, frames, s, d)
  BY <1>1, <1>2, HolderInIs, HolderNow
<1>4. \/ \E k \in 1..Len(frames) + 1 : Holder(s) = contexts[k]
      \/ \E i \in 1..Len(contextStack) : Holder(s) = contextStack[i]
  <2>1. CASE d = Len(frames)
    BY <1>1, <1>3, <2>1 DEF HeldAt
  <2>2. CASE d # Len(frames)
    <3>1. PICK j : j = d + 1
      OBVIOUS
    <3>2. j \in 1..Len(frames) /\ d + 1 = j /\ ~Selected(frames[j], s)
      BY <1>1, <1>2, <2>2, <3>1 DEF StandsAt
    <3>3. PICK fr, ctx : fr = frames[j] /\ ctx = contexts[j]
      OBVIOUS
    <3>4. Holder(s) = Beside(fr, ctx, contextStack, s)
      BY <1>3, <2>2, <3>2, <3>3 DEF HeldAt
    <3>5. \/ Beside(fr, ctx, contextStack, s) = ctx
          \/ \E i \in fr.base + 1..fr.base + Parked(fr) :
               Beside(fr, ctx, contextStack, s) = contextStack[i]
      BY <1>1, <3>2, <3>3, BesideOneOf
    <3>6. \A i \in fr.base + 1..fr.base + Parked(fr) : i \in 1..Len(contextStack)
      BY <3>2, <3>3, ParkedBelow
    <3>7. j \in 1..Len(frames) + 1
      BY <1>1, <3>2
    <3>8. QED BY <3>3, <3>4, <3>5, <3>6, <3>7
  <2>3. QED BY <2>1, <2>2
<1>5. QED BY <1>1, <1>4 DEF Good

LEMMA NowAt ==
  ASSUME IInv, BasesGrow, ViewsInv, NEW s \in Sigma
  PROVE  EnvNow[s] = Reads(Holder(s), s) /\ NxtNow[s] = Leaves(Holder(s), s)
BY HolderWays, StoreAtIs DEF EnvNow, NxtNow

(* The same, one step later.                                               *)
LEMMA NowNext ==
  ASSUME NEW s \in Sigma, NEW ctx, Holder(s)' = ctx, Ways(ctx)
  PROVE  EnvNow'[s] = Reads(ctx, s) /\ NxtNow'[s] = Leaves(ctx, s)
<1>1. EnvNow'[s] = StoreAt(ctx, s) /\ NxtNow'[s] = [v \in Var |-> Fallback(ctx, v)[s]]
  BY DEF EnvNow, NxtNow, StoreAt, Fallback, Current, Input
<1>2. QED BY <1>1, StoreAtIs

-----------------------------------------------------------------------------
(* These views through the four shapes of step.                            *)

LEMMA ViewsStay ==
  ASSUME IInv, ViewsInv, NEW ctx, NEW names, NEW nb, Stays(ctx, names, nb),
         Ways(ctx), ctx.locals \subseteq Local, ctx.outs = [ctx EXCEPT !.locals = Top.locals].outs,
         ctx.sched = [ctx EXCEPT !.locals = Top.locals].sched
  PROVE  ViewsInv'
<1>1. /\ Len(frames) \in Nat /\ Top = contexts[Len(frames) + 1]
      /\ UNCHANGED <<contextStack, frames>>
      /\ \A k \in 1..Len(frames) + 1 :
           contexts'[k] = IF k = Len(frames) + 1 THEN ctx ELSE contexts[k]
  BY Depths, ReplaceShape DEF IInv, Stays
<1>2. Outs(ctx) = Outs(Top) \cup names /\ \A v \in Var \ names : ctx.sched[v] = Top.sched[v]
  BY DEF Stays, Transferred, Outs
<1>3. PICK n : n = Len(frames)
  OBVIOUS
<1>4. \A j \in 1..n : j \in 1..n + 1 /\ j + 1 \in 1..n + 1 /\ j # n + 1
  BY <1>1, <1>3
<1>5. ASSUME NEW j \in 1..n
      PROVE  Keeps(contexts'[j + 1], contexts'[j])
  <2>1. Keeps(contexts[j + 1], contexts[j]) /\ contexts'[j] = contexts[j]
    BY <1>1, <1>3, <1>4 DEF ViewsInv
  <2>2. j = n => Keeps(ctx, contexts[j])
    BY <1>1, <1>2, <1>3, <2>1 DEF Keeps
  <2>3. QED BY <1>1, <1>3, <1>4, <2>1, <2>2
<1>6. \A v \in Var \ Outs(contexts'[1]) : contexts'[1].sched[v] = None
  <2>1. 1 \in 1..n + 1
    BY <1>1, <1>3
  <2>2. contexts'[1] = IF n = 0 THEN ctx ELSE contexts[1]
    BY <1>1, <1>3, <2>1
  <2>3. n = 0 => contexts[1] = Top
    BY <1>1, <1>3
  <2>4. QED BY <1>2, <2>2, <2>3 DEF ViewsInv
<1>7. ASSUME NEW j \in 1..n, NEW i \in frames[j].base + 1..frames[j].base + Parked(frames[j])
      PROVE  Keeps(contextStack[i], contexts'[j])
  BY <1>1, <1>3, <1>4 DEF ViewsInv
<1>8. \A k \in 1..n + 1 : Ways(contexts'[k]) /\ contexts'[k].locals \subseteq Local
  BY <1>1, <1>3 DEF ViewsInv
<1>9. \A i \in 1..Len(contextStack) : Ways(contextStack[i])
  BY DEF ViewsInv
<1>10. QED BY <1>1, <1>3, <1>5, <1>6, <1>7, <1>8, <1>9 DEF ViewsInv

LEMMA ViewsOpen ==
  ASSUME IInv, ViewsInv, NEW frame, Parked(frame) = 0, NEW space \in Space, Opening(frame, space)
  PROVE  ViewsInv'
<1>1. /\ Len(frames) \in Nat /\ Top = contexts[Len(frames) + 1] /\ Len(contextStack) \in Nat
      /\ Len(contexts') = Len(frames) + 2 /\ Len(frames') = Len(frames) + 1
      /\ \A k \in 1..Len(frames) + 2 :
           contexts'[k] = IF k = Len(frames) + 2 THEN Child(Top) ELSE contexts[k]
      /\ \A k \in 1..Len(frames) + 1 :
           frames'[k] = IF k = Len(frames) + 1 THEN frame ELSE frames[k]
      /\ contextStack' = contextStack /\ frame.base = Len(contextStack)
  BY Depths, OpenShape DEF IInv, Opening
<1>2. PICK n : n = Len(frames)
  OBVIOUS
<1>3. n \in Nat /\ n + 1 \in 1..n + 1 /\ \A j \in 1..n + 1 : j \in 1..n + 2 /\ j # n + 2
                                            /\ (j # n + 1 => j \in 1..n /\ j + 1 \in 1..n + 1)
  BY <1>1, <1>2
<1>4. Ways(Top) /\ Top \in Context
  BY <1>1, <1>2, <1>3, TopGood DEF ViewsInv, IInv
<1>5. Ways(Child(Top)) /\ Keeps(Child(Top), Top) /\ Child(Top).locals = {}
  BY <1>4, ChildWays
<1>6. ASSUME NEW k \in 1..n + 2
      PROVE  Ways(contexts'[k]) /\ contexts'[k].locals \subseteq Local
  <2>1. k # n + 2 => k \in 1..n + 1
    BY <1>3
  <2>2. QED BY <1>1, <1>2, <1>5, <2>1 DEF ViewsInv
<1>7. ASSUME NEW j \in 1..n + 1
      PROVE  Keeps(contexts'[j + 1], contexts'[j])
  <2>1. CASE j = n + 1
    <3>1. PICK m : m = j + 1
      OBVIOUS
    <3>2. m = n + 2 /\ m \in 1..n + 2 /\ j \in 1..n + 2 /\ j # n + 2
      BY <1>3, <2>1, <3>1
    <3>3. contexts'[m] = Child(Top) /\ contexts'[j] = Top
      BY <1>1, <1>2, <2>1, <3>2
    <3>4. QED BY <1>5, <3>1, <3>3
  <2>2. CASE j # n + 1
    <3>1. PICK m : m = j + 1
      OBVIOUS
    <3>2. m \in 1..n + 1 /\ j \in 1..n + 2 /\ j # n + 2 /\ m \in 1..n + 2 /\ m # n + 2 /\ j \in 1..n
      BY <1>3, <2>2, <3>1
    <3>3. contexts'[m] = contexts[m] /\ contexts'[j] = contexts[j]
      BY <1>1, <1>2, <3>2
    <3>4. QED BY <1>2, <3>1, <3>2, <3>3 DEF ViewsInv
  <2>3. QED BY <2>1, <2>2
<1>8. ASSUME NEW j \in 1..n + 1,
             NEW i \in frames'[j].base + 1..frames'[j].base + Parked(frames'[j])
      PROVE  Keeps(contextStack[i], contexts'[j])
  <2>1. frames'[j] = IF j = n + 1 THEN frame ELSE frames[j]
    BY <1>1, <1>2
  <2>2. j # n + 1
    <3>1. SUFFICES ASSUME j = n + 1 PROVE FALSE
      OBVIOUS
    <3>2. i \in Len(contextStack) + 1..Len(contextStack) + 0
      BY <1>1, <2>1, <3>1
    <3>3. QED BY <1>1, <3>2
  <2>3. j \in 1..n /\ contexts'[j] = contexts[j]
    BY <1>1, <1>2, <1>3, <2>2
  <2>4. QED BY <1>2, <2>1, <2>2, <2>3 DEF ViewsInv
<1>9. \A v \in Var \ Outs(contexts'[1]) : contexts'[1].sched[v] = None
  <2>1. 1 \in 1..n + 1
    BY <1>3
  <2>2. contexts'[1] = contexts[1]
    BY <1>1, <1>2, <1>3, <2>1
  <2>3. QED BY <2>2 DEF ViewsInv
<1>10. \A i \in 1..Len(contextStack) : Ways(contextStack[i])
  BY DEF ViewsInv
<1>11. Len(frames') = n + 1 /\ (n + 1) + 1 = n + 2
  BY <1>1, <1>2, <1>3
<1>12. QED BY <1>1, <1>6, <1>7, <1>8, <1>9, <1>10, <1>11 DEF ViewsInv

LEMMA ViewsBranch ==
  ASSUME IInv, BasesGrow, ViewsInv, NEW frame, Branching(frame),
         Parked(frame) = Parked(Inner) + 1, Parked(Inner) \in Nat
  PROVE  ViewsInv'
<1>1. /\ Len(frames) \in Nat /\ Len(contextStack) \in Nat
      /\ Top = contexts[Len(frames) + 1] /\ Len(frames) >= 1
      /\ Parent = contexts[Len(frames)] /\ Inner = frames[Len(frames)]
      /\ frame.base = Inner.base /\ frames # <<>>
  BY Depths DEF IInv, Branching
<1>2. /\ Len(contexts') = Len(frames) + 1 /\ Len(frames') = Len(frames)
      /\ Len(contextStack') = Len(contextStack) + 1
      /\ \A k \in 1..Len(frames) + 1 :
           contexts'[k] = IF k = Len(frames) + 1 THEN Child(Parent) ELSE contexts[k]
      /\ \A k \in 1..Len(frames) :
           frames'[k] = IF k = Len(frames) THEN frame ELSE frames[k]
      /\ \A i \in 1..Len(contextStack) : contextStack'[i] = contextStack[i]
      /\ contextStack'[Len(contextStack) + 1] = Top
  BY BranchSteps
<1>3. PICK n, m : n = Len(frames) /\ m = Len(contextStack)
  OBVIOUS
<1>4. n \in Nat /\ m \in Nat /\ n \in 1..n /\ n \in 1..n + 1 /\ n + 1 \in 1..n + 1 /\ 1 \in 1..n
      /\ \A j \in 1..n : j \in 1..n + 1 /\ j # n + 1 /\ j + 1 \in 1..n + 1
  BY <1>1, <1>3
<1>5. Ways(Parent) /\ Parent \in Context /\ Ways(Top) /\ Keeps(Top, Parent)
  BY <1>1, <1>3, <1>4, TopGood DEF ViewsInv, IInv
<1>6. Ways(Child(Parent)) /\ Keeps(Child(Parent), Parent) /\ Child(Parent).locals = {}
  BY <1>5, ChildWays
<1>7. \A k \in 1..n + 1 : Ways(contexts'[k]) /\ contexts'[k].locals \subseteq Local
  BY <1>2, <1>3, <1>6 DEF ViewsInv
<1>8. ASSUME NEW i \in 1..m + 1
      PROVE  Ways(contextStack'[i])
  <2>1. i # m + 1 => i \in 1..m
    BY <1>4
  <2>2. QED BY <1>2, <1>3, <1>5, <2>1 DEF ViewsInv
<1>9. ASSUME NEW j \in 1..n
      PROVE  Keeps(contexts'[j + 1], contexts'[j]) /\ contexts'[j] = contexts[j]
  <2>1. contexts'[j] = contexts[j]
    BY <1>2, <1>3, <1>4
  <2>2. PICK l : l = j + 1
    OBVIOUS
  <2>3. l \in 1..n + 1 /\ (l = n + 1 <=> j = n)
    BY <1>4, <2>2
  <2>4. contexts'[l] = IF j = n THEN Child(Parent) ELSE contexts[l]
    BY <1>2, <1>3, <2>3
  <2>5. QED BY <1>1, <1>3, <1>6, <2>1, <2>2, <2>4 DEF ViewsInv
<1>10. ASSUME NEW j \in 1..n,
             NEW i \in frames'[j].base + 1..frames'[j].base + Parked(frames'[j])
      PROVE  Keeps(contextStack'[i], contexts'[j])
  <2>1. CASE j # n
    <3>1. frames'[j] = frames[j] /\ contexts'[j] = contexts[j] /\ j \in 1..Len(frames)
      BY <1>2, <1>3, <1>9, <2>1
    <3>2. i \in frames[j].base + 1..frames[j].base + Parked(frames[j])
      BY <3>1
    <3>3. i \in 1..Len(contextStack)
      BY <3>1, <3>2, ParkedBelow
    <3>4. QED BY <1>2, <3>1, <3>2, <3>3 DEF ViewsInv
  <2>2. CASE j = n
    <3>1. frames'[j] = frame /\ contexts'[j] = Parent
      BY <1>1, <1>2, <1>3, <1>9, <2>2
    <3>2. Inner.base + Parked(Inner) = m /\ Inner.base \in Nat
      BY <1>1, <1>3, InnerGood DEF IInv
    <3>3. PICK b, p : b = Inner.base /\ p = Parked(Inner)
      OBVIOUS
    <3>4. i \in b + 1..b + (p + 1) /\ b \in Nat /\ p \in Nat /\ b + p = m
      BY <1>1, <3>1, <3>2, <3>3
    <3>5. i = m + 1 \/ i \in b + 1..b + p
      BY <3>4
    <3>6. CASE i = m + 1
      BY <1>2, <1>3, <1>5, <3>1, <3>6
    <3>7. CASE i \in b + 1..b + p
      <4>1. i \in 1..Len(contextStack)
        BY <1>3, <3>4, <3>7
      <4>2. n \in 1..Len(frames) /\ i \in frames[n].base + 1..frames[n].base + Parked(frames[n])
        BY <1>1, <1>3, <1>4, <3>3, <3>7
      <4>3. Keeps(contextStack[i], contexts[n])
        BY <4>2 DEF ViewsInv
      <4>4. QED BY <1>1, <1>2, <1>3, <3>1, <4>1, <4>3
    <3>8. QED BY <3>5, <3>6, <3>7
  <2>3. QED BY <2>1, <2>2
<1>11. \A v \in Var \ Outs(contexts'[1]) : contexts'[1].sched[v] = None
  <2>1. contexts'[1] = contexts[1]
    BY <1>4, <1>9
  <2>2. QED BY <2>1 DEF ViewsInv
<1>12. QED BY <1>2, <1>3, <1>7, <1>8, <1>9, <1>10, <1>11 DEF ViewsInv

LEMMA ViewsClose ==
  ASSUME IInv, BasesGrow, ViewsInv, frames # <<>>, NEW ctx, NEW names, NEW nb,
         Closes(ctx, names, nb), Ways(ctx)
  PROVE  ViewsInv'
<1>1. /\ Len(frames) \in Nat /\ Len(contextStack) \in Nat /\ Len(frames) >= 1
      /\ Parent = contexts[Len(frames)] /\ Inner = frames[Len(frames)]
      /\ Len(contextStack') = Inner.base /\ Inner.base \in Nat /\ Inner.base <= Len(contextStack)
      /\ \A k \in 1..Inner.base : contextStack'[k] = contextStack[k]
  <2>1. Inner.base \in Nat /\ Inner.base + Parked(Inner) = Len(contextStack) /\ Inner \in FrameType
        /\ FrameGood(Inner)
    BY InnerGood DEF IInv
  <2>2. Parked(Inner) \in Nat
    BY <2>1 DEF Parked, FrameType, FrameGood
  <2>3. QED BY <2>1, <2>2, Depths DEF IInv, Closes
<1>2. /\ Len(contexts') = Len(frames) /\ Len(frames') = Len(frames) - 1
      /\ \A k \in 1..Len(frames) : contexts'[k] = IF k = Len(frames) THEN ctx ELSE contexts[k]
      /\ \A k \in 1..Len(frames) - 1 : frames'[k] = frames[k]
  BY CloseShape DEF IInv, Closes
<1>3. /\ Outs(ctx) = Outs(Parent) \cup names /\ ctx.locals = Parent.locals
      /\ \A v \in Var \ names : ctx.sched[v] = Parent.sched[v]
  BY DEF Closes, Transferred
<1>4. PICK n, m : n = Len(frames) /\ m = Len(frames) - 1
  OBVIOUS
<1>5. /\ n \in Nat /\ m \in Nat /\ n = m + 1 /\ n \in 1..n + 1
      /\ \A j \in 1..m : j \in 1..n /\ j # n /\ j + 1 \in 1..n /\ j + 1 \in 1..m + 1
      /\ \A j \in 1..n : j \in 1..n + 1
  BY <1>1, <1>4
<1>6. ASSUME NEW k \in 1..n
      PROVE  Ways(contexts'[k]) /\ contexts'[k].locals \subseteq Local
  <2>1. k \in 1..Len(frames) + 1 /\ Len(frames) \in 1..Len(frames) + 1
    BY <1>4, <1>5
  <2>2. contexts[k].locals \subseteq Local /\ Ways(contexts[k]) /\ Parent.locals \subseteq Local
    BY <1>1, <2>1 DEF ViewsInv
  <2>3. contexts'[k] = IF k = n THEN ctx ELSE contexts[k]
    BY <1>2, <1>4
  <2>4. QED BY <1>3, <2>2, <2>3
<1>7. \A i \in 1..Len(contextStack') : Ways(contextStack'[i])
  <2> TAKE i \in 1..Len(contextStack')
  <2>1. i \in 1..Len(contextStack) /\ contextStack'[i] = contextStack[i]
    BY <1>1
  <2>2. QED BY <2>1 DEF ViewsInv
<1>8. ASSUME NEW j \in 1..m
      PROVE  Keeps(contexts'[j + 1], contexts'[j]) /\ contexts'[j] = contexts[j]
  <2>1. contexts'[j] = contexts[j]
    BY <1>2, <1>4, <1>5
  <2>2. Keeps(contexts[j + 1], contexts[j])
    BY <1>4, <1>5 DEF ViewsInv
  <2>3. CASE j = m
    <3>1. contexts'[n] = ctx /\ j + 1 = n /\ contexts[n] = Parent
      BY <1>1, <1>2, <1>4, <1>5, <2>3
    <3>2. Keeps(ctx, contexts[j])
      BY <1>3, <2>2, <3>1 DEF Keeps
    <3>3. QED BY <2>1, <3>1, <3>2
  <2>4. CASE j # m
    <3>1. PICK l : l = j + 1
      OBVIOUS
    <3>2. l \in 1..n /\ l # n
      BY <1>5, <2>4, <3>1
    <3>3. contexts'[l] = contexts[l]
      BY <1>2, <1>4, <3>2
    <3>4. QED BY <2>1, <2>2, <3>1, <3>3
  <2>5. QED BY <2>3, <2>4
<1>9. ASSUME NEW j \in 1..m,
             NEW i \in frames'[j].base + 1..frames'[j].base + Parked(frames'[j])
      PROVE  Keeps(contextStack'[i], contexts'[j])
  <2>1. frames'[j] = frames[j] /\ contexts'[j] = contexts[j] /\ j \in 1..Len(frames)
        /\ j < Len(frames)
    <3>1. j \in 1..n /\ j # n
      BY <1>5
    <3>2. j \in 1..Len(frames) /\ j < Len(frames)
      <4>1. n \in Nat /\ j \in 1..n /\ j # n
        BY <1>5, <3>1
      <4>2. j < n
        BY ONLY <4>1
      <4>3. QED BY <1>4, <3>1, <4>2
    <3>3. frames'[j] = frames[j]
      <4>1. \A k \in 1..m : frames'[k] = frames[k]
        BY ONLY <1>2, <1>4
      <4>2. QED BY <4>1
    <3>4. contexts'[j] = contexts[j]
      BY <1>8
    <3>5. QED BY <3>2, <3>3, <3>4
  <2>2. i \in frames[j].base + 1..frames[j].base + Parked(frames[j])
    BY <2>1
  <2>3. i \in 1..Len(contextStack) /\ i <= Inner.base
    BY <2>1, <2>2, ParkedBelow
  <2>4. i \in 1..Inner.base
    BY <1>1, <2>3
  <2>5. QED BY <1>1, <2>1, <2>2, <2>4 DEF ViewsInv
<1>10. \A v \in Var \ Outs(contexts'[1]) : contexts'[1].sched[v] = None
  <2>1. 1 \in 1..n
    BY <1>5
  <2>2. contexts'[1] = IF n = 1 THEN ctx ELSE contexts[1]
    BY <1>2, <1>4, <2>1
  <2>3. n = 1 => Parent = contexts[1]
    BY <1>1, <1>4
  <2>4. QED BY <1>3, <2>2, <2>3 DEF ViewsInv
<1>11. Len(frames') = m
  BY <1>2, <1>4
<1>12. QED BY <1>5, <1>6, <1>7, <1>8, <1>9, <1>10, <1>11 DEF ViewsInv

-----------------------------------------------------------------------------
(* What the merges leave behind, run by run.                               *)

Transferable(ctx, names, id, nb) ==
  /\ Good(ctx) /\ Ways(ctx) /\ names \in SUBSET Var
  /\ id \in [names -> Expr] /\ nb \in [names -> BOOLEAN] /\ \A v \in names : nb[v] = Way[v]

Moved(new, ctx, names, id) ==
  /\ Ways(new)
  /\ \A v \in names : Value(new, v) = id[v]
  /\ \A v \in Var \ names : Value(new, v) = Value(ctx, v)

LEMMA TransferPuts ==
  ASSUME NEW ctx, Good(ctx), Ways(ctx), NEW names \in SUBSET Var,
         NEW id \in [names -> Expr], NEW nb \in [names -> BOOLEAN], \A v \in names : nb[v] = Way[v],
         NEW new, new = Transfer(ctx, names, id, nb)
  PROVE  /\ Ways(new)
         /\ \A v \in names : Value(new, v) = id[v]
         /\ \A v \in Var \ names : Value(new, v) = Value(ctx, v)
<1>1. ctx \in Context
  BY DEF Good
<1>2. \A v \in Var : /\ new.sched[v] = IF v \in names THEN id[v] ELSE ctx.sched[v]
                     /\ new.cur[v] = IF v \in names /\ ~nb[v] THEN id[v] ELSE ctx.cur[v]
  BY <1>1 DEF Transfer, Context
<1>3. \A v \in names : id[v] # None
  BY NoneIsNothing
<1>4. Ways(new)
  <2> SUFFICES ASSUME NEW v \in Var
               PROVE  IF Way[v] THEN new.cur[v] = None ELSE new.cur[v] = new.sched[v]
    BY DEF Ways
  <2>1. IF Way[v] THEN ctx.cur[v] = None ELSE ctx.cur[v] = ctx.sched[v]
    BY DEF Ways
  <2>2. v \in names => nb[v] = Way[v]
    OBVIOUS
  <2>3. QED BY <1>2, <2>1, <2>2
<1>5. QED BY <1>2, <1>3, <1>4 DEF Value

LEMMA TransferPutsAll ==
  ASSUME NEW ctx, NEW names, NEW id, NEW nb, Transferable(ctx, names, id, nb)
  PROVE  Moved(Transfer(ctx, names, id, nb), ctx, names, id)
<1>1. /\ Good(ctx) /\ Ways(ctx) /\ names \in SUBSET Var
      /\ id \in [names -> Expr] /\ nb \in [names -> BOOLEAN] /\ \A v \in names : nb[v] = Way[v]
  BY DEF Transferable
<1>2. PICK new : new = Transfer(ctx, names, id, nb)
  OBVIOUS
<1>3. QED BY <1>1, <1>2, TransferPuts DEF Moved

(* What merge_conditional and merge_case take from a branch is what the    *)
(* branch would leave behind.                                              *)
LEMMA BranchValueIs ==
  ASSUME NEW parent, Ways(parent), NEW branch, Good(branch), Keeps(branch, parent), NEW v \in Var
  PROVE  BranchValue(parent, branch, v) = Value(branch, v)
<1>1. CASE v \in Outs(branch)
  <2>1. branch \in Context /\ branch.sched[v] = branch.outs[v].id
    BY <1>1 DEF Good
  <2>2. branch.outs[v] \in Slot
    BY <1>1, <2>1, SlotOfOut
  <2>3. branch.outs[v].id # None
    BY <2>2, NoneIsNothing DEF Slot
  <2>4. QED BY <1>1, <2>1, <2>3 DEF BranchValue, Value
<1>2. CASE v \notin Outs(branch)
  <2>1. Fallback(parent, v) = Value(parent, v)
    BY WaysView
  <2>2. branch.sched[v] = parent.sched[v]
    BY <1>2 DEF Keeps
  <2>3. QED BY <1>2, <2>1, <2>2 DEF BranchValue, Value
<1>3. QED BY <1>1, <1>2

LEMMA NotOutput ==
  ASSUME NEW parent, NEW branch, Keeps(branch, parent), NEW v \in Var \ Outs(branch)
  PROVE  Value(parent, v) = Value(branch, v)
BY DEF Keeps, Value

Branch(ctx, parent) == Good(ctx) /\ Keeps(ctx, parent) /\ FlagsFixed(ctx)

LEMMA FixedConditional ==
  ASSUME NEW then, FlagsFixed(then), NEW else, FlagsFixed(else)
  PROVE  \A v \in Outs(then) \cup Outs(else) : ConditionalFlags(then, else)[v] = Way[v]
<1> TAKE v \in Outs(then) \cup Outs(else)
<1>1. ConditionalFlags(then, else)[v] = (NbIn(then, v) \/ NbIn(else, v))
  BY DEF ConditionalFlags
<1>2. Way[v] \in BOOLEAN
  BY WayType DEF Outs
<1>3. v \in Outs(then) => NbIn(then, v) = Way[v]
  BY <1>2, FixedLastNb DEF NbIn
<1>4. v \in Outs(else) => NbIn(else, v) = Way[v]
  BY <1>2, FixedLastNb DEF NbIn
<1>5. v \notin Outs(then) => NbIn(then, v) = FALSE
  BY DEF NbIn
<1>6. v \notin Outs(else) => NbIn(else, v) = FALSE
  BY DEF NbIn
<1>7. QED BY <1>1, <1>2, <1>3, <1>4, <1>5, <1>6

LEMMA MergedConditional ==
  ASSUME NEW parent, Good(parent), Ways(parent), NEW then, Branch(then, parent),
         NEW else, Branch(else, parent), NEW cond \in [Sigma -> BOOLEAN],
         NEW ctx, ctx = MergeConditional(parent, cond, then, else)
  PROVE  /\ Ways(ctx)
         /\ \A s \in Sigma : Leaves(ctx, s) = IF cond[s] THEN Leaves(then, s) ELSE Leaves(else, s)
<1> DEFINE names == Outs(then) \cup Outs(else)
           id == [v \in names |-> CreateMux(cond, BranchValue(parent, then, v),
                                                  BranchValue(parent, else, v))]
           nb == ConditionalFlags(then, else)
<1>1. names \in SUBSET Var
  BY DEF Outs
<1>2. \A v \in names : /\ BranchValue(parent, then, v) = Value(then, v)
                       /\ BranchValue(parent, else, v) = Value(else, v)
                       /\ Value(then, v) \in Expr /\ Value(else, v) \in Expr
  BY <1>1, BranchValueIs, ValueType DEF Branch, Good
<1>3. \A v \in names : id[v] = [s \in Sigma |-> IF cond[s] THEN Value(then, v)[s]
                                               ELSE Value(else, v)[s]]
  BY <1>2 DEF CreateMux
<1>4. \A v \in names : id[v] \in Expr
  <2> TAKE v \in names
  <2>1. PICK a, b : a = Value(then, v) /\ b = Value(else, v)
    OBVIOUS
  <2>2. a \in [Sigma -> Val] /\ b \in [Sigma -> Val]
    BY <1>2, <2>1 DEF Expr
  <2>3. id[v] = [s \in Sigma |-> IF cond[s] THEN a[s] ELSE b[s]]
    BY <1>3, <2>1
  <2>4. [s \in Sigma |-> IF cond[s] THEN a[s] ELSE b[s]] \in [Sigma -> Val]
    BY ONLY <2>2
  <2>5. QED BY <2>3, <2>4 DEF Expr
<1>5. id \in [names -> Expr] /\ nb \in [names -> BOOLEAN] /\ \A v \in names : nb[v] = Way[v]
  <2>1. nb \in [names -> BOOLEAN]
    BY DEF ConditionalFlags, NbIn, LastNb
  <2>2. \A v \in names : nb[v] = Way[v]
    BY FixedConditional DEF Branch
  <2>3. id = [v \in names |-> id[v]]
    OBVIOUS
  <2> HIDE DEF id
  <2>4. QED BY <1>4, <2>1, <2>2, <2>3
<1>6. ctx = Transfer(parent, names, id, nb)
  BY DEF MergeConditional, ConditionalFlags, NbIn
<1>7. \A v \in Var \ names : Value(parent, v) = Value(then, v) /\ Value(parent, v) = Value(else, v)
  BY NotOutput DEF Branch
<1> HIDE DEF names, id, nb
<1>8. /\ Ways(ctx)
      /\ \A v \in names : Value(ctx, v) = id[v]
      /\ \A v \in Var \ names : Value(ctx, v) = Value(parent, v)
  BY <1>1, <1>5, <1>6, TransferPuts
<1>9. ASSUME NEW s \in Sigma, NEW v \in Var
      PROVE  Value(ctx, v)[s] = IF cond[s] THEN Value(then, v)[s] ELSE Value(else, v)[s]
  <2>1. CASE v \in names
    <3>1. Value(ctx, v) = id[v]
      BY <1>8, <2>1
    <3>2. id[v] = [r \in Sigma |-> IF cond[r] THEN Value(then, v)[r] ELSE Value(else, v)[r]]
      BY <1>3, <2>1
    <3>3. QED BY <3>1, <3>2
  <2>2. CASE v \notin names
    BY <1>7, <1>8, <2>2
  <2>3. QED BY <2>1, <2>2
<1>10. QED BY <1>8, <1>9 DEF Leaves

(* The branch a run takes of a case: the first whose label it matches, or  *)
(* the last of them.                                                       *)
Picks(sel, labels, full, s, k) ==
  \/ Matches(sel, labels, s) # {} /\ k = FirstMatch(sel, labels, s)
  \/ Matches(sel, labels, s) = {} /\ ~full /\ k = Len(labels) + 1

BranchesAre(branches, parent) == \A k \in DOMAIN branches : Branch(branches[k], parent)

CaseLeaves(ctx, sel, labels, full, branches) ==
  \A s \in Sigma, k \in DOMAIN branches :
    Picks(sel, labels, full, s, k) => Leaves(ctx, s) = Leaves(branches[k], s)

LEMMA MergedCase ==
  ASSUME NEW parent, Good(parent), Ways(parent), NEW branches \in Seq(Context),
         BranchesAre(branches, parent),
         NEW sel, NEW labels \in Seq(LabelList), Len(branches) = Len(labels) + 1,
         NEW full \in BOOLEAN, NEW other, full => other \in Val,
         NEW ctx, ctx = MergeCase(parent, sel, labels, branches, full, other)
  PROVE  Ways(ctx) /\ CaseLeaves(ctx, sel, labels, full, branches)
<1> DEFINE names == BranchOuts(branches)
           data(v) == [k \in DOMAIN branches |-> BranchValue(parent, branches[k], v)]
           id == [v \in names |-> CreateCase(sel, labels, data(v), full, other)]
           nb == CaseFlags(branches)
<1>1. names \in SUBSET Var
  BY WritersProperties
<1>2. \A v \in Var : data(v) = [k \in DOMAIN branches |-> Value(branches[k], v)]
  BY BranchValueIs DEF Branch, BranchesAre
<1>3. ASSUME NEW v \in names
      PROVE  id[v] \in Expr
  <2>1. \A k \in 1..Len(branches) : Value(branches[k], v) \in Expr
    BY <1>1, ValueType
  <2>2. data(v) \in [1..Len(branches) -> Expr] /\ Len(branches) \in Nat
    BY <1>1, <1>2, <2>1
  <2> HIDE DEF data
  <2>3. CreateCase(sel, labels, data(v), full, other) \in Expr
    BY <2>2, CreateCaseType
  <2>4. QED BY <2>3
<1>4. id \in [names -> Expr] /\ nb \in [names -> BOOLEAN] /\ \A v \in names : nb[v] = Way[v]
  <2>1. nb \in [names -> BOOLEAN]
    BY CaseFlagType DEF CaseFlags
  <2>2. \A v \in names : nb[v] = Way[v]
    BY FixedCase DEF Branch, BranchesAre, CaseFlags
  <2>3. id = [v \in names |-> id[v]]
    OBVIOUS
  <2> HIDE DEF id
  <2>4. QED BY <1>3, <2>1, <2>2, <2>3
<1>5. ctx = Transfer(parent, names, id, nb)
  BY DEF MergeCase, CaseFlags
<1>6. ASSUME NEW s \in Sigma, NEW k \in DOMAIN branches, Picks(sel, labels, full, s, k), NEW v \in names
      PROVE  id[v][s] = Value(branches[k], v)[s]
  <2>1. id[v][s] = data(v)[k][s]
    BY <1>6 DEF CreateCase, Picks
  <2>2. QED BY <1>1, <1>2, <2>1
<1>7. ASSUME NEW v \in Var \ names, NEW k \in DOMAIN branches
      PROVE  Value(parent, v) = Value(branches[k], v)
  <2>1. v \notin Outs(branches[k])
    BY <1>7 DEF BranchOuts
  <2>2. QED BY <2>1, NotOutput DEF Branch, BranchesAre
<1>8. PICK ns, es, fs : ns = names /\ es = id /\ fs = nb
  OBVIOUS
<1> HIDE DEF names, id, nb, data
<1>9. /\ ns \in SUBSET Var /\ es \in [ns -> Expr] /\ fs \in [ns -> BOOLEAN]
      /\ \A v \in ns : fs[v] = Way[v]
  BY <1>1, <1>4, <1>8
<1>10. ctx = Transfer(parent, ns, es, fs)
  BY <1>5, <1>8
<1>11. /\ Ways(ctx)
       /\ \A v \in ns : Value(ctx, v) = es[v]
       /\ \A v \in Var \ ns : Value(ctx, v) = Value(parent, v)
  <2>1. ns \in SUBSET Var /\ es \in [ns -> Expr] /\ fs \in [ns -> BOOLEAN]
    BY <1>9
  <2>2. \A v \in ns : fs[v] = Way[v]
    BY <1>9
  <2>3. Good(parent) /\ Ways(parent)
    OBVIOUS
  <2>4. Transferable(parent, ns, es, fs)
    BY <2>1, <2>2, <2>3 DEF Transferable
  <2>5. Moved(Transfer(parent, ns, es, fs), parent, ns, es)
    BY <2>4, TransferPutsAll
  <2>6. QED BY <1>10, <2>5 DEF Moved
<1>12. ASSUME NEW s \in Sigma, NEW k \in DOMAIN branches, Picks(sel, labels, full, s, k), NEW v \in Var
       PROVE  Value(ctx, v)[s] = Value(branches[k], v)[s]
  <2>1. CASE v \in names
    BY <1>6, <1>8, <1>11, <1>12, <2>1
  <2>2. CASE v \notin names
    BY <1>7, <1>8, <1>11, <2>2
  <2>3. QED BY <2>1, <2>2
<1>13. QED BY <1>11, <1>12 DEF Leaves, CaseLeaves

LEMMA MergedContext ==
  ASSUME NEW parent, Good(parent), Ways(parent), NEW child, Branch(child, parent),
         NEW ctx, ctx = MergeContext(parent, child)
  PROVE  /\ Ways(ctx)
         /\ \A v \in Var \ child.locals : Value(ctx, v) = Value(child, v)
<1> DEFINE names == Outs(child) \ child.locals
           id == [v \in names |-> child.outs[v].id]
           nb == [v \in names |-> LastNb(child.outs[v])]
<1>1. names \in SUBSET Var
  BY DEF Outs
<1>2. id \in [names -> Expr] /\ nb \in [names -> BOOLEAN]
  BY SlotOfOut DEF Good, Slot, LastNb, Branch
<1>3. \A v \in names : nb[v] = Way[v]
  BY FixedLastNb DEF Branch
<1>4. ctx = Transfer(parent, names, id, nb)
  BY DEF MergeContext
<1>5. \A v \in names : id[v] = Value(child, v)
  <2> TAKE v \in names
  <2>1. BranchValue(parent, child, v) = Value(child, v)
    BY <1>1, BranchValueIs DEF Branch
  <2>2. QED BY <2>1 DEF BranchValue
<1>6. \A v \in Var \ child.locals : v \notin names => Value(parent, v) = Value(child, v)
  BY NotOutput DEF Branch
<1> HIDE DEF names, id, nb
<1>7. /\ Ways(ctx)
      /\ \A v \in names : Value(ctx, v) = id[v]
      /\ \A v \in Var \ names : Value(ctx, v) = Value(parent, v)
  BY <1>1, <1>2, <1>3, <1>4, TransferPuts
<1>8. QED BY <1>5, <1>6, <1>7

-----------------------------------------------------------------------------
(* Assignments, run by run: what the process writes, one target after the  *)
(* other, given what the run reads and what it has left so far.            *)

TargetWrites(t, read, old) ==
  IF t.idx = None THEN t.rhs[read] ELSE Patch[old, t.rhs[read], t.idx[read]]

OneWritten(t, read, store) == [store EXCEPT ![t.var] = TargetWrites(t, read, @)]

AllWritten(a, read, store) ==
  LET first == OneWritten(a.lhs[1], read, store)
  IN  IF Len(a.lhs) = 1 THEN first ELSE OneWritten(a.lhs[2], read, first)

LEMMA WriteAllIs ==
  ASSUME NEW s, NEW a
  PROVE  WriteAllNow(s, a) = AllWritten(a, EnvNow[s], NxtNow[s])
<1> HIDE DEF EnvNow, NxtNow
<1>1. QED BY DEF WriteAllNow, WriteOneNow, WrittenNow, AllWritten, OneWritten, TargetWrites

(* Nothing has a current value of its own that was never scheduled.        *)
Settled(ctx) == \A v \in Var : ctx.sched[v] = None => ctx.cur[v] = None

LEMMA WaysSettled ==
  ASSUME NEW ctx, Ways(ctx)
  PROVE  Settled(ctx)
<1> SUFFICES ASSUME NEW v \in Var, ctx.sched[v] = None
             PROVE  ctx.cur[v] = None
  BY DEF Settled
<1>1. IF Way[v] THEN ctx.cur[v] = None ELSE ctx.cur[v] = ctx.sched[v]
  BY DEF Ways
<1>2. QED BY <1>1

LEMMA ViewIs ==
  ASSUME NEW ctx \in Context, Settled(ctx), NEW v \in Var, NEW view, view = ScheduledView(ctx, v)
  PROVE  /\ view \in Context /\ Current(view, v) = Value(ctx, v)
         /\ \A w \in Var \ {v} : Current(view, w) = Current(ctx, w)
<1>1. CASE ctx.sched[v] = None
  BY <1>1 DEF ScheduledView, Settled, Current, Value
<1>2. CASE ctx.sched[v] # None
  <2>1. view = [ctx EXCEPT !.cur[v] = ctx.sched[v]]
    BY <1>2 DEF ScheduledView
  <2>2. view \in Context /\ view.cur[v] = ctx.sched[v] /\ \A w \in Var \ {v} : view.cur[w] = ctx.cur[w]
    BY <2>1 DEF Context
  <2>3. QED BY <1>2, <2>2 DEF Current, Value
<1>3. QED BY <1>1, <1>2

(* One target: ctx is the context the statement started in, mid the one    *)
(* this target finds, new the one it leaves.                               *)
Sees(mid, ctx, v, names) ==
  \A w \in Var \ names : Current(ScheduledView(mid, v), w) = Current(ctx, w)

ReadsNone(t, names) == t.idx # None => Ignores(t.idx, names)

TargetPut(new, mid, ctx, t) ==
  /\ Good(new) /\ Settled(new) /\ new.sched[t.var] = new.cur[t.var]
  /\ \A w \in Var \ {t.var} : new.sched[w] = mid.sched[w] /\ new.cur[w] = mid.cur[w]
  /\ \A s \in Sigma : Leaves(new, s) = OneWritten(t, Reads(ctx, s), Leaves(mid, s))

LEMMA TargetRecorded ==
  ASSUME NEW ctx, Good(ctx), Ways(ctx), NEW mid, Good(mid), Settled(mid), NEW t \in Target,
         NEW nb \in BOOLEAN, NEW names, ReadsNone(t, names), Sees(mid, ctx, t.var, names),
         NEW rhs, rhs = BuildExpr(t.rhs, ctx), NEW new, new = RecordTarget(mid, t, rhs, nb)
  PROVE  TargetPut(new, mid, ctx, t)
<1>1. ctx \in Context /\ mid \in Context /\ t.var \in Var /\ t.rhs \in [Store -> Val]
      /\ t.idx \in [Store -> Val] \cup {None}
  BY DEF Good, Target
<1>2. rhs \in Expr /\ \A s \in Sigma : rhs[s] = t.rhs[Reads(ctx, s)]
  BY <1>1, BuildExprType, StoreAtIs DEF BuildExpr
<1>3. PICK v, view, id : v = t.var /\ view = ScheduledView(mid, v) /\ id = TargetValue(mid, t, rhs)
  OBVIOUS
<1>4. id \in Expr /\ id # None
  BY <1>1, <1>2, <1>3, TargetValueType, NoneIsNothing
<1>5. new = Record(mid, v, nb, id)
  BY <1>3 DEF RecordTarget, TargetValue
<1>6. v \in Var /\ Good(new) /\ new.sched[v] = id /\ new.cur[v] = id
      /\ \A w \in Var \ {v} : new.sched[w] = mid.sched[w] /\ new.cur[w] = mid.cur[w]
  BY <1>1, <1>3, <1>4, <1>5, RecordTransfers
<1>7. Settled(new)
  BY <1>4, <1>6 DEF Settled
<1>8. view \in Context /\ Current(view, v) = Value(mid, v)
  BY <1>1, <1>3, <1>6, ViewIs
<1>9. ASSUME NEW s \in Sigma
      PROVE  id[s] = TargetWrites(t, Reads(ctx, s), Value(mid, v)[s])
  <2>1. CASE t.idx = None
    BY <1>2, <1>3, <2>1 DEF TargetValue, TargetWrites
  <2>2. CASE t.idx # None
    <3>1. id[s] = Patch[Value(mid, v)[s], rhs[s], BuildExpr(t.idx, view)[s]]
      <4>1. PICK base : base = BuildExpr(t.idx, view)
        OBVIOUS
      <4>2. id = MaskedAssign(Value(mid, v), rhs, base)
        BY <1>3, <1>8, <2>2, <4>1 DEF TargetValue
      <4>3. QED BY <4>1, <4>2 DEF MaskedAssign
    <3>2. BuildExpr(t.idx, view)[s] = t.idx[StoreAt(view, s)]
      BY DEF BuildExpr
    <3>3. StoreAt(view, s) \in Store /\ StoreAt(ctx, s) \in Store
      BY <1>1, <1>8, StoreAtType
    <3>4. \A w \in Var \ names : StoreAt(view, s)[w] = StoreAt(ctx, s)[w]
      BY <1>3 DEF StoreAt, Sees
    <3>5. t.idx[StoreAt(view, s)] = t.idx[StoreAt(ctx, s)]
      BY <2>2, <3>3, <3>4 DEF ReadsNone, Ignores
    <3>6. StoreAt(ctx, s) = Reads(ctx, s)
      BY StoreAtIs
    <3>7. QED BY <1>2, <2>2, <3>1, <3>2, <3>5, <3>6 DEF TargetWrites
  <2>3. QED BY <2>1, <2>2
<1>10. ASSUME NEW s \in Sigma
       PROVE  Leaves(new, s) = OneWritten(t, Reads(ctx, s), Leaves(mid, s))
  <2>1. \A w \in Var \ {v} : Value(new, w) = Value(mid, w)
    BY <1>6 DEF Value
  <2>2. Value(new, v) = id
    BY <1>4, <1>6 DEF Value
  <2>3. PICK read : read = Reads(ctx, s)
    OBVIOUS
  <2>4. id[s] = TargetWrites(t, read, Leaves(mid, s)[v])
    BY <1>6, <1>9, <2>3 DEF Leaves
  <2>5. OneWritten(t, read, Leaves(mid, s)) =
          [w \in Var |-> IF w = v THEN id[s] ELSE Value(mid, w)[s]]
    BY <1>3, <1>6, <2>4 DEF OneWritten, Leaves
  <2>6. Leaves(new, s) = [w \in Var |-> IF w = v THEN id[s] ELSE Value(mid, w)[s]]
    BY <1>6, <2>1, <2>2 DEF Leaves
  <2>7. QED BY <2>3, <2>5, <2>6
<1>11. QED BY <1>3, <1>6, <1>7, <1>10 DEF TargetPut

(* The targets of a statement, one after the other.                        *)
LEMMA TargetsRecorded ==
  ASSUME FixedIndices, NEW ctx, Good(ctx), Ways(ctx), NEW a \in Assigns,
         \A v \in Targets(a) : a.nb = Way[v], NEW new, new = RecordTargets(ctx, a)
  PROVE  /\ \A v \in Targets(a) : new.cur[v] = new.sched[v]
         /\ \A s \in Sigma : Leaves(new, s) = AllWritten(a, Reads(ctx, s), Leaves(ctx, s))
<1>1. /\ a.nb \in BOOLEAN /\ Len(a.lhs) \in {1, 2} /\ a.lhs \in Seq(Target)
      /\ a.lhs[1] \in Target /\ a.lhs[1].var \in Var
  BY TargetsOf, AssignsAreOneOrTwoTargets
<1>2. 1 \in DOMAIN a.lhs /\ (Len(a.lhs) = 2 => 2 \in DOMAIN a.lhs)
  BY <1>1
<1>3. PICK t, rhs, first : /\ t = a.lhs[1] /\ rhs = BuildExpr(t.rhs, ctx)
                           /\ first = RecordTarget(ctx, t, rhs, a.nb)
  OBVIOUS
<1>4. Settled(ctx) /\ ctx \in Context
  BY WaysSettled DEF Good
<1>5. ReadsNone(t, Rewritten(a, 1))
  BY <1>2, <1>3 DEF FixedIndices, ReadsNone
<1>6. t.var \in Targets(a) /\ a.nb = Way[t.var] /\ t.var \in Var
  BY <1>1, <1>2, <1>3 DEF Targets
<1>7. Sees(ctx, ctx, t.var, Rewritten(a, 1))
  <2>1. PICK view : view = ScheduledView(ctx, t.var)
    OBVIOUS
  <2>2. /\ Current(view, t.var) = Value(ctx, t.var)
        /\ \A w \in Var \ {t.var} : Current(view, w) = Current(ctx, w)
    BY <1>4, <1>6, <2>1, ViewIs
  <2>3. CASE a.nb
    <3>1. t.var \in Rewritten(a, 1)
      BY <1>3, <2>3 DEF Rewritten
    <3>2. QED BY <2>1, <2>2, <3>1 DEF Sees
  <2>4. CASE ~a.nb
    <3>1. Current(ctx, t.var) = Value(ctx, t.var)
      BY <1>6, <2>4, WaysView
    <3>2. QED BY <2>1, <2>2, <3>1 DEF Sees
  <2>5. QED BY <1>1, <2>3, <2>4
<1>8. /\ Good(first) /\ Settled(first) /\ first.sched[t.var] = first.cur[t.var]
      /\ \A w \in Var \ {t.var} : first.sched[w] = ctx.sched[w] /\ first.cur[w] = ctx.cur[w]
      /\ \A s \in Sigma : Leaves(first, s) = OneWritten(t, Reads(ctx, s), Leaves(ctx, s))
  <2>1. t \in Target
    BY <1>1, <1>3
  <2>2. TargetPut(first, ctx, ctx, t)
    BY <1>1, <1>3, <1>4, <1>5, <1>7, <2>1, TargetRecorded
  <2>3. QED BY <2>2 DEF TargetPut
<1>9. CASE Len(a.lhs) = 1
  <2>1. new = first
    BY <1>3, <1>9 DEF RecordTargets
  <2>2. Targets(a) = {t.var}
    BY <1>3, <1>9, TargetsOf
  <2>3. \A s \in Sigma : AllWritten(a, Reads(ctx, s), Leaves(ctx, s)) = Leaves(first, s)
    BY <1>3, <1>8, <1>9 DEF AllWritten
  <2>4. QED BY <1>8, <2>1, <2>2, <2>3
<1>10. CASE Len(a.lhs) = 2
  <2>1. PICK u, rhs2 : u = a.lhs[2] /\ rhs2 = BuildExpr(u.rhs, ctx)
    OBVIOUS
  <2>2. new = RecordTarget(first, u, rhs2, a.nb)
    BY <1>3, <1>10, <2>1 DEF RecordTargets
  <2>3. u \in Target /\ u.var \in Var /\ Targets(a) = {t.var, u.var} /\ a.nb = Way[u.var]
    BY <1>3, <1>10, <2>1, TargetsOf
  <2>4. ReadsNone(u, Rewritten(a, 2))
    BY <1>2, <1>10, <2>1 DEF FixedIndices, ReadsNone
  <2>5. t.var \in Rewritten(a, 2) /\ (a.nb => u.var \in Rewritten(a, 2))
    BY <1>1, <1>3, <2>1 DEF Rewritten
  <2>6. Sees(first, ctx, u.var, Rewritten(a, 2))
    <3>1. PICK view : view = ScheduledView(first, u.var)
      OBVIOUS
    <3>2. /\ Current(view, u.var) = Value(first, u.var)
          /\ \A w \in Var \ {u.var} : Current(view, w) = Current(first, w)
      BY <1>8, <2>3, <3>1, ViewIs DEF Good
    <3>3. \A w \in Var \ {t.var} : Current(first, w) = Current(ctx, w) /\ Value(first, w) = Value(ctx, w)
      BY <1>8 DEF Current, Value
    <3>4. ~a.nb => Current(ctx, u.var) = Value(ctx, u.var)
      BY <2>3, WaysView
    <3>5. ASSUME NEW w \in Var \ Rewritten(a, 2)
          PROVE  Current(view, w) = Current(ctx, w)
      <4>1. w \in Var /\ w # t.var /\ (w = u.var => ~a.nb)
        BY <2>5
      <4>2. QED BY <3>2, <3>3, <3>4, <4>1
    <3>6. QED BY <3>1, <3>5 DEF Sees
  <2>7. /\ new.sched[u.var] = new.cur[u.var]
        /\ \A w \in Var \ {u.var} : new.sched[w] = first.sched[w] /\ new.cur[w] = first.cur[w]
        /\ \A s \in Sigma : Leaves(new, s) = OneWritten(u, Reads(ctx, s), Leaves(first, s))
    <3>1. TargetPut(new, first, ctx, u)
      BY <1>1, <1>8, <2>1, <2>2, <2>3, <2>4, <2>6, TargetRecorded
    <3>2. QED BY <3>1 DEF TargetPut
  <2>8. \A v \in Targets(a) : new.cur[v] = new.sched[v]
    BY <1>6, <1>8, <2>3, <2>7
  <2>9. ASSUME NEW s \in Sigma
        PROVE  Leaves(new, s) = AllWritten(a, Reads(ctx, s), Leaves(ctx, s))
    <3>1. PICK read, store : read = Reads(ctx, s) /\ store = Leaves(ctx, s)
      OBVIOUS
    <3>2. AllWritten(a, read, store) = OneWritten(u, read, OneWritten(t, read, store))
      BY <1>3, <1>10, <2>1 DEF AllWritten
    <3>3. QED BY <1>8, <2>7, <3>1, <3>2
  <2>10. QED BY <2>8, <2>9
<1>11. QED BY <1>1, <1>9, <1>10

LEMMA AssignedViews ==
  ASSUME FixedIndices, NEW ctx, Good(ctx), Ways(ctx), NEW a \in Assigns,
         \A v \in Targets(a) : a.nb = Way[v], NEW new, new = Restored(ctx, a)
  PROVE  /\ Ways(new)
         /\ \A v \in Var \ Targets(a) : new.sched[v] = ctx.sched[v]
         /\ \A s \in Sigma : Leaves(new, s) = AllWritten(a, Reads(ctx, s), Leaves(ctx, s))
<1>1. PICK mid : mid = RecordTargets(ctx, a)
  OBVIOUS
<1>2. /\ \A v \in Targets(a) : mid.cur[v] = mid.sched[v]
      /\ \A s \in Sigma : Leaves(mid, s) = AllWritten(a, Reads(ctx, s), Leaves(ctx, s))
  BY <1>1, TargetsRecorded
<1>3. mid \in Context
  BY <1>1, RecordTargetsGood DEF Good
<1>4. /\ new.sched = mid.sched
      /\ ~a.nb => new = mid
  BY <1>1, <1>3 DEF Restored, Context
<1>5. PICK nb : nb = [v \in Targets(a) |-> a.nb]
  OBVIOUS
<1>6. Transferred(new, ctx, Targets(a), nb)
  BY <1>5, AssignmentTransfers
<1>7. /\ \A v \in Var \ Targets(a) : new.sched[v] = ctx.sched[v]
      /\ \A v \in Var : (v \in Targets(a) => a.nb) => new.cur[v] = ctx.cur[v]
  BY <1>5, <1>6 DEF Transferred
<1>8. a.nb \in BOOLEAN /\ Targets(a) \in SUBSET Var
  BY TargetsOf
<1>9. Ways(new)
  <2> SUFFICES ASSUME NEW v \in Var
               PROVE  IF Way[v] THEN new.cur[v] = None ELSE new.cur[v] = new.sched[v]
    BY DEF Ways
  <2>1. IF Way[v] THEN ctx.cur[v] = None ELSE ctx.cur[v] = ctx.sched[v]
    BY DEF Ways
  <2>2. CASE v \notin Targets(a)
    BY <1>7, <2>1, <2>2
  <2>3. CASE v \in Targets(a) /\ a.nb
    BY <1>7, <2>1, <2>3
  <2>4. CASE v \in Targets(a) /\ ~a.nb
    BY <1>2, <1>4, <2>4
  <2>5. QED BY <1>8, <2>2, <2>3, <2>4
<1>10. \A s \in Sigma : Leaves(new, s) = Leaves(mid, s)
  BY <1>4, SameSchedule
<1>11. QED BY <1>2, <1>7, <1>9, <1>10

(* So is the initialiser of a declared variable: an assignment to it.      *)
Initialiser(d) == [nb |-> FALSE, lhs |-> <<[var |-> d.var, rhs |-> d.init, idx |-> None]>>]

LEMMA InitialiserIs ==
  ASSUME NEW d
  PROVE  /\ Initialiser(d).nb = FALSE /\ Targets(Initialiser(d)) = {d.var}
         /\ \A read, store : AllWritten(Initialiser(d), read, store)
                               = [store EXCEPT ![d.var] = d.init[read]]
<1>1. PICK a : a = Initialiser(d)
  OBVIOUS
<1>2. a.nb = FALSE /\ Len(a.lhs) = 1 /\ DOMAIN a.lhs = {1} /\ a.lhs[1].var = d.var
      /\ a.lhs[1].rhs = d.init /\ a.lhs[1].idx = None
  BY <1>1 DEF Initialiser
<1>3. Targets(a) = {d.var}
  BY <1>2 DEF Targets
<1>4. ASSUME NEW read, NEW store
      PROVE  AllWritten(a, read, store) = [store EXCEPT ![d.var] = d.init[read]]
  BY <1>2 DEF AllWritten, OneWritten, TargetWrites
<1>5. QED BY <1>1, <1>2, <1>3, <1>4

DeclaredPut(new, ctx, d) ==
  /\ Ways(new)
  /\ \A v \in Var \ {d.var} : new.sched[v] = ctx.sched[v]
  /\ d.init = None => new.sched = ctx.sched
  /\ d.init # None => \A s \in Sigma :
       Leaves(new, s) = [Leaves(ctx, s) EXCEPT ![d.var] = d.init[Reads(ctx, s)]]

LEMMA DeclaredViews ==
  ASSUME NEW ctx, Good(ctx), Ways(ctx), NEW d \in Decls,
         d.init # None => Way[d.var] = FALSE, NEW new, new = Declared(ctx, d)
  PROVE  DeclaredPut(new, ctx, d)
<1>1. PICK local : local = [ctx EXCEPT !.locals = @ \cup {d.var}]
  OBVIOUS
<1>2. d.var \in Var /\ d.init \in [Store -> Val] \cup {None} /\ ctx \in Context
  BY DeclsAreBlocking DEF Good
<1>3. local \in Context /\ local.cur = ctx.cur /\ local.sched = ctx.sched /\ local.outs = ctx.outs
  BY <1>1, <1>2 DEF Context
<1>4. Good(local) /\ Ways(local)
  BY <1>3 DEF Good, Ways, Outs
<1>5. CASE d.init = None
  <2>1. new = local
    BY <1>1, <1>5 DEF Declared
  <2>2. QED BY <1>3, <1>4, <1>5, <2>1 DEF DeclaredPut
<1>6. CASE d.init # None
  <2>1. PICK id, v : id = BuildExpr(d.init, local) /\ v = d.var
    OBVIOUS
  <2>2. new = Record(local, v, FALSE, id)
    BY <1>1, <1>6, <2>1 DEF Declared
  <2>3. id \in Expr /\ id # None /\ v \in Var /\ Way[v] = FALSE
    BY <1>2, <1>3, <1>6, <2>1, BuildExprType, NoneIsNothing
  <2>4. /\ new.cur[v] = id /\ new.sched[v] = id
        /\ \A w \in Var \ {v} : new.sched[w] = ctx.sched[w] /\ new.cur[w] = ctx.cur[w]
    <3>1. /\ new.cur[v] = id /\ new.sched[v] = id
          /\ \A w \in Var \ {v} : new.sched[w] = local.sched[w] /\ new.cur[w] = local.cur[w]
      <4>1. PICK nb \in BOOLEAN : nb = FALSE
        OBVIOUS
      <4>2. new = Record(local, v, nb, id)
        BY <2>2, <4>1
      <4>3. QED BY <1>4, <2>3, <4>2, RecordTransfers
    <3>2. QED BY <1>3, <3>1
  <2>5. Ways(new)
    <3> SUFFICES ASSUME NEW w \in Var
                 PROVE  IF Way[w] THEN new.cur[w] = None ELSE new.cur[w] = new.sched[w]
      BY DEF Ways
    <3>1. IF Way[w] THEN ctx.cur[w] = None ELSE ctx.cur[w] = ctx.sched[w]
      BY DEF Ways
    <3>2. QED BY <2>3, <2>4, <3>1
  <2>6. ASSUME NEW s \in Sigma
        PROVE  Leaves(new, s) = [Leaves(ctx, s) EXCEPT ![d.var] = d.init[Reads(ctx, s)]]
    <3>1. id[s] = d.init[Reads(ctx, s)]
      <4>1. StoreAt(local, s) = Reads(local, s)
        BY <1>4, StoreAtIs
      <4>2. Reads(local, s) = Reads(ctx, s)
        BY <1>3, SameSchedule
      <4>3. QED BY <2>1, <4>1, <4>2 DEF BuildExpr
    <3>2. \A w \in Var : Value(new, w) = IF w = v THEN id ELSE Value(ctx, w)
      BY <2>3, <2>4 DEF Value
    <3>3. PICK x : x = d.init[Reads(ctx, s)]
      OBVIOUS
    <3>4. QED BY <2>1, <3>1, <3>2, <3>3 DEF Leaves
  <2>7. QED BY <1>6, <2>1, <2>4, <2>5, <2>6 DEF DeclaredPut
<1>7. QED BY <1>5, <1>6

-----------------------------------------------------------------------------
(* The steps of the visitor, one by one: what each does to what a run      *)
(* reads, leaves behind and executes, and to the contexts.                 *)
Known == IInv /\ BasesGrow /\ LocalsInv /\ FlagsInv /\ ViewsInv

(* Nothing is exported, so no result yet.                                  *)
LEMMA NoResult ==
  /\ exported = None => ResultNow = None
  /\ UNCHANGED exported => ResultNow' = ResultNow
BY DEF ResultNow

LEMMA NestingStays ==
  ASSUME UNCHANGED frames
  PROVE  PathNow' = PathNow
<1>1. \A j \in 1..Len(frames) : PathFrame(j)' = PathFrame(j)
  BY DEF PathFrame, ActiveSet, Active
<1>2. QED BY <1>1 DEF PathNow

(* An assignment, in these terms.                                          *)
Writes(ctx, a) ==
  /\ contexts' = [contexts EXCEPT ![Len(contexts)] = ctx]
  /\ UNCHANGED <<contextStack, frames, exported>>
  /\ exported = None
  /\ Ways(ctx)
  /\ \A v \in Targets(a) : a.nb = Way[v]
  /\ \A v \in Var \ Targets(a) : ctx.sched[v] = Top.sched[v]
  /\ \A s \in Sigma : Leaves(ctx, s) = AllWritten(a, Reads(Top, s), Leaves(Top, s))

LEMMA WritesStep ==
  ASSUME Known, NEW ctx, NEW a, a.nb \in BOOLEAN, Writes(ctx, a)
  PROVE  Process!Assignment(a)
<1>1. PICK live : live = LiveIn(frames, Len(frames))
  OBVIOUS
<1>2. live = Process!Live /\ live \subseteq Sigma
  BY <1>1, LiveNow DEF LiveIn, Known
<1>3. ASSUME NEW s \in live
      PROVE  /\ EnvNow[s] = Reads(Top, s) /\ NxtNow[s] = Leaves(Top, s)
             /\ EnvNow'[s] = Reads(ctx, s) /\ NxtNow'[s] = Leaves(ctx, s)
  <2>1. s \in Sigma /\ ActiveIn(frames, Len(frames), s)
    BY <1>1, <1>3 DEF LiveIn
  <2>2. Holder(s) = Top
    BY <2>1, LiveHolder DEF Known
  <2>3. EnvNow[s] = Reads(Top, s) /\ NxtNow[s] = Leaves(Top, s)
    BY <2>1, <2>2, NowAt DEF Known
  <2>4. Holder(s)' = ctx
    BY <2>1, HolderStays DEF Known, Writes
  <2>5. EnvNow'[s] = Reads(ctx, s) /\ NxtNow'[s] = Leaves(ctx, s)
    BY <2>1, <2>4, NowNext DEF Writes
  <2>6. QED BY <2>3, <2>5
<1>4. ASSUME NEW s \in Sigma \ live
      PROVE  EnvNow'[s] = EnvNow[s] /\ NxtNow'[s] = NxtNow[s]
  <2>1. ~ActiveIn(frames, Len(frames), s)
    BY <1>1, <1>4 DEF LiveIn
  <2>2. Holder(s)' = Holder(s)
    BY <2>1, HolderStays DEF Known, Writes
  <2>3. PICK h : h = Holder(s)
    OBVIOUS
  <2>4. Ways(h) /\ EnvNow[s] = Reads(h, s) /\ NxtNow[s] = Leaves(h, s)
    BY <2>3, HolderWays, NowAt DEF Known
  <2>5. EnvNow'[s] = Reads(h, s) /\ NxtNow'[s] = Leaves(h, s)
    BY <2>2, <2>3, <2>4, NowNext
  <2>6. QED BY <2>4, <2>5
<1>5. PICK after : after = [s \in live |-> WriteAllNow(s, a)]
  OBVIOUS
<1>6. \A s \in live : after[s] = Leaves(ctx, s)
  BY <1>2, <1>3, <1>5, WriteAllIs DEF Writes
<1>7. NxtNow' = [s \in Sigma |-> IF s \in live THEN after[s] ELSE NxtNow[s]]
  <2>1. \A s \in Sigma : NxtNow'[s] = IF s \in live THEN after[s] ELSE NxtNow[s]
    BY <1>3, <1>4, <1>6
  <2>2. NxtNow' = [s \in Sigma |-> NxtNow'[s]]
    BY DEF NxtNow
  <2>3. QED BY <2>1, <2>2
<1>8. \A s \in live, v \in Var :
        Reads(ctx, s)[v] = IF ~a.nb /\ v \in Targets(a) THEN after[s][v] ELSE Reads(Top, s)[v]
  <2> TAKE s \in live, v \in Var
  <2>1. after[s][v] = Value(ctx, v)[s]
    BY <1>6 DEF Leaves
  <2>2. CASE v \in Targets(a)
    <3>1. a.nb = Way[v]
      BY <2>2 DEF Writes
    <3>2. QED BY <2>1, <2>2, <3>1 DEF Reads
  <2>3. CASE v \notin Targets(a)
    <3>1. Value(ctx, v) = Value(Top, v)
      BY <2>3 DEF Writes, Value
    <3>2. QED BY <2>3, <3>1 DEF Reads
  <2>4. QED BY <2>2, <2>3
<1>9. EnvNow = [s \in Sigma |-> EnvNow[s]] /\ EnvNow' = [s \in Sigma |-> EnvNow'[s]]
  BY DEF EnvNow
<1>10. \A s \in Sigma : EnvNow[s] = [v \in Var |-> EnvNow[s][v]]
  BY DEF EnvNow, StoreAt
<1>11. EnvNow' = IF a.nb THEN EnvNow
                 ELSE [s \in Sigma |-> [v \in Var |->
                         IF s \in live /\ v \in Targets(a) THEN after[s][v] ELSE EnvNow[s][v]]]
  <2>1. CASE a.nb
    <3>1. \A s \in live : Reads(ctx, s) = Reads(Top, s)
      BY <1>8, <2>1 DEF Reads
    <3>2. \A s \in Sigma : EnvNow'[s] = EnvNow[s]
      BY <1>3, <1>4, <3>1
    <3>3. QED BY <1>9, <2>1, <3>2
  <2>2. CASE ~a.nb
    <3>1. \A s \in live : Reads(ctx, s) = [v \in Var |-> IF v \in Targets(a) THEN after[s][v]
                                                         ELSE Reads(Top, s)[v]]
      BY <1>8, <2>2 DEF Reads
    <3>2. \A s \in Sigma : EnvNow'[s] = [v \in Var |-> IF s \in live /\ v \in Targets(a)
                                                       THEN after[s][v] ELSE EnvNow[s][v]]
      BY <1>3, <1>4, <1>10, <3>1
    <3>3. QED BY <1>9, <2>2, <3>2
  <2>3. QED BY <2>1, <2>2
<1>12. ResultNow = None /\ ResultNow' = ResultNow
  BY NoResult DEF Writes
<1>13. PathNow' = PathNow
  BY NestingStays DEF Writes
<1>14. ValuesWritten(a, live, after)
  BY <1>7, <1>11 DEF ValuesWritten
<1>15. QED BY <1>2, <1>5, <1>12, <1>13, <1>14, StepAssignment

-----------------------------------------------------------------------------
(* Statements that open.                                                   *)
LEMMA ValuesSame ==
  ASSUME Known, UNCHANGED exported,
         \A s \in Sigma : Ways(Holder(s)') /\ Holder(s)'.sched = Holder(s).sched
  PROVE  SameValues
<1>1. ASSUME NEW s \in Sigma
      PROVE  EnvNow'[s] = EnvNow[s] /\ NxtNow'[s] = NxtNow[s]
  <2>1. PICK h, g : h = Holder(s) /\ g = Holder(s)'
    OBVIOUS
  <2>2. EnvNow[s] = Reads(h, s) /\ NxtNow[s] = Leaves(h, s)
    BY <2>1, NowAt DEF Known
  <2>3. Ways(g) /\ g.sched = h.sched
    BY <2>1
  <2>4. EnvNow'[s] = Reads(g, s) /\ NxtNow'[s] = Leaves(g, s)
    BY <2>1, <2>3, NowNext
  <2>5. Reads(g, s) = Reads(h, s) /\ Leaves(g, s) = Leaves(h, s)
    BY <2>3, SameSchedule
  <2>6. QED BY <2>2, <2>4, <2>5
<1>2. /\ EnvNow = [s \in Sigma |-> EnvNow[s]] /\ EnvNow' = [s \in Sigma |-> EnvNow'[s]]
      /\ NxtNow = [s \in Sigma |-> NxtNow[s]] /\ NxtNow' = [s \in Sigma |-> NxtNow'[s]]
  BY DEF EnvNow, NxtNow
<1>3. ResultNow' = ResultNow
  BY NoResult
<1> HIDE DEF EnvNow, NxtNow
<1>4. QED BY <1>1, <1>2, <1>3 DEF SameValues

LEMMA OpensSame ==
  ASSUME Known, NEW frame, FrameGood(frame), Untaken(frame), NEW space \in Space,
         Opening(frame, space)
  PROVE  SameValues
<1>1. ASSUME NEW s \in Sigma
      PROVE  Ways(Holder(s)') /\ Holder(s)'.sched = Holder(s).sched
  <2>1. PICK h, g : h = Holder(s) /\ g = Holder(s)'
    OBVIOUS
  <2>2. h \in Context /\ Ways(h)
    BY <2>1, HolderWays DEF Known
  <2>3. Ways(Child(h)) /\ Child(h).sched = h.sched
    BY <2>2, ChildWays
  <2>4. g \in {h, Child(h)}
    <3>1. CASE ActiveIn(frames, Len(frames), s)
      <4>1. h = Top
        BY <2>1, <3>1, LiveHolder DEF Known
      <4>2. g \in {Top, Child(Top)}
        BY <2>1, <3>1, HolderOpens DEF Known
      <4>3. QED BY <4>1, <4>2
    <3>2. CASE ~ActiveIn(frames, Len(frames), s)
      BY <2>1, <3>2, HolderOpens DEF Known
    <3>3. QED BY <3>1, <3>2
  <2>5. Ways(g) /\ g.sched = h.sched
    BY <2>2, <2>3, <2>4
  <2>6. QED BY <2>1, <2>5
<1>2. UNCHANGED exported
  BY DEF Opening
<1>3. QED BY <1>1, <1>2, ValuesSame

LEMMA OpensPath ==
  ASSUME IInv, NEW frame, FrameGood(frame), NEW space \in Space, Opening(frame, space),
         NEW live, live = Process!Live
  PROVE  PathNow' = Append(PathNow, FrameView(frame, live))
<1>1. PICK fs, fs2 : fs = frames /\ fs2 = frames'
  OBVIOUS
<1>2. fs \in Seq(FrameType)
  BY <1>1 DEF IInv, Core
<1>3. fs2 \in Seq(FrameType)
  BY <1>1, <1>2 DEF Opening, OpenContext, FrameGood
<1>4. Len(fs2) = Len(fs) + 1 /\ \A k \in 1..Len(fs) + 1 : fs2[k] = IF k = Len(fs) + 1 THEN frame ELSE fs[k]
  BY <1>1, OpenShape DEF IInv, Opening
<1>5. (\A j \in 1..Len(fs) : fs2[j] = fs[j]) /\ fs2[Len(fs) + 1] = frame
  BY <1>2, <1>4
<1>6. PathIn(fs2) = Append(PathIn(fs), FrameView(frame, LiveIn(fs, Len(fs))))
  BY <1>2, <1>3, <1>4, <1>5, PathGrows
<1>7. PathNow = PathIn(fs) /\ PathNow' = PathIn(fs2)
  BY <1>1, <1>2, <1>3, PathNowIs
<1>8. live = LiveIn(fs, Len(fs))
  BY <1>1, LiveNow
<1>9. QED BY <1>6, <1>7, <1>8

(* What runs in the innermost context read.                                *)
LEMMA LiveReads ==
  ASSUME IInv, NEW live, live = Process!Live
  PROVE  live \subseteq Sigma /\ \A s \in live : EnvNow[s] = StoreAt(Top, s)
<1>1. live = LiveIn(frames, Len(frames))
  BY LiveNow
<1>2. live \subseteq Sigma
  BY <1>1 DEF LiveIn
<1>3. ASSUME NEW s \in live
      PROVE  EnvNow[s] = StoreAt(Top, s)
  <2>1. s \in Sigma /\ ActiveIn(frames, Len(frames), s)
    BY <1>1 DEF LiveIn
  <2>2. Holder(s) = Top
    BY <2>1, LiveHolder
  <2>3. QED BY <2>1, <2>2 DEF EnvNow
<1>4. QED BY <1>2, <1>3

ThenFrame(c) == Frame("then", [s \in Sigma |-> c[StoreAt(Top, s)]], None, <<>>, FALSE)
ItemFrame(f, g, full) ==
  Frame("case", None, BuildExpr(f, Top), <<BuildExpr(g, Top)>>, full)
LoneFrame(f) == Frame("default", None, BuildExpr(f, Top), <<>>, FALSE)
BlockFrame == Frame("block", None, None, <<>>, FALSE)

LEMMA ThenFrameIs ==
  ASSUME IInv, NEW c \in Tests
  PROVE  /\ ThenFrame(c).kind = "then" /\ ThenFrame(c).sel = None
         /\ ThenFrame(c).full = FALSE
         /\ ThenFrame(c).cond = [s \in Sigma |-> c[StoreAt(Top, s)]]
         /\ FrameGood(ThenFrame(c)) /\ Untaken(ThenFrame(c)) /\ Parked(ThenFrame(c)) = 0
<1>1. PICK cond, fr : cond = [s \in Sigma |-> c[StoreAt(Top, s)]] /\ fr = ThenFrame(c)
  OBVIOUS
<1>2. c \in [Store -> BOOLEAN] /\ \A s \in Sigma : StoreAt(Top, s) \in Store
  BY TestsAreBoolean, StoreAtType, TopGood DEF IInv
<1>3. cond \in [Sigma -> BOOLEAN]
  BY <1>1, <1>2
<1>4. Len(contextStack) \in Nat
  BY Depths DEF IInv
<1>5. fr = [kind |-> "then", cond |-> cond, sel |-> None, labels |-> <<>>, full |-> FALSE,
            base |-> Len(contextStack)]
  BY <1>1 DEF ThenFrame, Frame
<1>6. fr \in FrameType
  BY <1>3, <1>4, <1>5 DEF FrameType
<1>7. FrameGood(fr) /\ Untaken(fr) /\ Parked(fr) = 0
  BY <1>3, <1>5, <1>6 DEF FrameGood, Untaken, Parked
<1>8. QED BY <1>1, <1>5, <1>7

LEMMA ItemFrameIs ==
  ASSUME IInv, NEW f \in Selectors, NEW g \in Labels, NEW full \in BOOLEAN
  PROVE  /\ ItemFrame(f, g, full).kind = "case" /\ ItemFrame(f, g, full).sel = BuildExpr(f, Top)
         /\ ItemFrame(f, g, full).full = full
         /\ BuildExpr(f, Top) # None
         /\ \A s \in Sigma : Alike(ItemFrame(f, g, full), s) =
              {k \in {1} : Hits(BuildExpr(g, Top)[s], BuildExpr(f, Top)[s])}
         /\ FrameGood(ItemFrame(f, g, full)) /\ Untaken(ItemFrame(f, g, full)) /\ Parked(ItemFrame(f, g, full)) = 0
         /\ Len(ItemFrame(f, g, full).labels) = 1
<1>1. PICK sel, label, fr : sel = BuildExpr(f, Top) /\ label = BuildExpr(g, Top) /\ fr = ItemFrame(f, g, full)
  OBVIOUS
<1>2. f \in [Store -> Val] /\ g \in [Store -> SUBSET Val]
  BY SelectorsAreExpressions, LabelsAreExpressions
<1>3. sel \in Expr /\ label \in LabelList /\ sel # None
  BY <1>1, <1>2, BuildExprType, BuildLabelsType, TopGood, NoneIsNothing DEF IInv
<1>4. Len(contextStack) \in Nat
  BY Depths DEF IInv
<1>5. fr = [kind |-> "case", cond |-> None, sel |-> sel, labels |-> <<label>>, full |-> full,
            base |-> Len(contextStack)]
  BY <1>1 DEF ItemFrame, Frame
<1>6. /\ fr.kind = "case" /\ fr.sel = sel /\ fr.full = full /\ fr.labels \in Seq(LabelList) /\ Len(fr.labels) = 1
      /\ fr.labels[1] = label /\ DOMAIN fr.labels = {1} /\ fr.labels # <<>>
  BY <1>3, <1>5
<1>7. fr \in FrameType
  BY <1>3, <1>4, <1>5, <1>6 DEF FrameType
<1>8. \A s \in Sigma : Alike(fr, s) = {k \in {1} : Hits(label[s], sel[s])}
  BY <1>6 DEF Alike
<1>9. Untaken(fr)
  <2>1. ASSUME NEW s \in Sigma, Alike(fr, s) # {}
        PROVE  FirstAlike(fr, s) = 1
    <3>1. Alike(fr, s) = {1}
      BY <1>8, <2>1
    <3>2. QED BY <3>1 DEF FirstAlike
  <2>2. QED BY <1>6, <2>1 DEF Untaken, Selected
<1>10. FrameGood(fr) /\ Parked(fr) = 0
  BY <1>3, <1>6, <1>7 DEF FrameGood, Parked
<1>11. QED BY <1>1, <1>3, <1>6, <1>8, <1>9, <1>10

LEMMA LoneFrameIs ==
  ASSUME IInv, NEW f \in Selectors
  PROVE  /\ LoneFrame(f).kind = "default" /\ LoneFrame(f).sel = BuildExpr(f, Top)
         /\ LoneFrame(f).full = FALSE
         /\ BuildExpr(f, Top) # None
         /\ \A s \in Sigma : Alike(LoneFrame(f), s) = {}
         /\ FrameGood(LoneFrame(f)) /\ Untaken(LoneFrame(f)) /\ Parked(LoneFrame(f)) = 0
<1>1. PICK sel, fr : sel = BuildExpr(f, Top) /\ fr = LoneFrame(f)
  OBVIOUS
<1>2. f \in [Store -> Val]
  BY SelectorsAreExpressions
<1>3. sel \in Expr /\ sel # None
  BY <1>1, <1>2, BuildExprType, TopGood, NoneIsNothing DEF IInv
<1>4. Len(contextStack) \in Nat
  BY Depths DEF IInv
<1>5. fr = [kind |-> "default", cond |-> None, sel |-> sel, labels |-> <<>>, full |-> FALSE,
            base |-> Len(contextStack)]
  BY <1>1 DEF LoneFrame, Frame
<1>6. fr \in FrameType
  BY <1>3, <1>4, <1>5 DEF FrameType
<1>7. \A s : Alike(fr, s) = {}
  BY <1>5 DEF Alike
<1>8. fr.kind = "default" /\ fr.sel = sel /\ ~fr.full /\ Len(fr.labels) = 0
  BY <1>5
<1>9. FrameGood(fr) /\ Untaken(fr) /\ Parked(fr) = 0
  BY <1>3, <1>6, <1>7, <1>8 DEF FrameGood, Untaken, Parked
<1>10. fr.full = FALSE
  BY <1>6, <1>8 DEF FrameType
<1>11. QED BY <1>1, <1>3, <1>7, <1>8, <1>9, <1>10

LEMMA BlockFrameIs ==
  ASSUME IInv
  PROVE  /\ BlockFrame.kind = "block" /\ BlockFrame.sel = None /\ BlockFrame.full = FALSE
         /\ FrameGood(BlockFrame) /\ Untaken(BlockFrame) /\ Parked(BlockFrame) = 0
<1>1. Len(contextStack) \in Nat
  BY Depths DEF IInv
<1>2. BlockFrame = [kind |-> "block", cond |-> None, sel |-> None, labels |-> <<>>,
                    full |-> FALSE, base |-> Len(contextStack)]
  BY DEF BlockFrame, Frame
<1>3. BlockFrame \in FrameType
  BY <1>1, <1>2 DEF FrameType
<1>4. QED BY <1>2, <1>3 DEF FrameGood, Untaken, Parked

(* The four ways to open a statement.                                      *)
LEMMA OpensAs ==
  ASSUME IInv, NEW frame, NEW space \in Space, frame.base = Len(contextStack),
         frame.kind = "block" <=> space = "many", CanVisit, OpenContext(frame, space),
         UNCHANGED <<contextStack, exported, mixed, aborted>>
  PROVE  Opening(frame, space) /\ ResultNow = None
BY NoResult DEF Opening, CanVisit, Running

LEMMA RefinesIf ==
  ASSUME Known, NEW c \in Tests, Conditional(c)
  PROVE  Process!If(c) /\ ViewsInv'
<1>1. PICK fr, live : fr = ThenFrame(c) /\ live = Process!Live
  OBVIOUS
<1>2. /\ fr.kind = "then" /\ fr.sel = None /\ fr.full = FALSE /\ fr.cond = [s \in Sigma |-> c[StoreAt(Top, s)]]
      /\ FrameGood(fr) /\ Untaken(fr) /\ Parked(fr) = 0
  BY <1>1, ThenFrameIs DEF Known
<1>3. fr.base = Len(contextStack)
  BY <1>1 DEF ThenFrame, Frame
<1>4. PICK space \in Space : space = "one"
  BY DEF Space
<1>5. Opening(fr, space) /\ ResultNow = None
  <2>1. CanVisit /\ OpenContext(fr, space) /\ UNCHANGED <<contextStack, exported, mixed, aborted>>
    BY <1>1, <1>4 DEF Conditional, ThenFrame
  <2>2. QED BY <1>2, <1>3, <1>4, <2>1, OpensAs DEF Known
<1>6. SameValues /\ PathNow' = Append(PathNow, FrameView(fr, live))
  BY <1>1, <1>2, <1>5, OpensSame, OpensPath DEF Known
<1>7. live \subseteq Sigma /\ \A s \in live : EnvNow[s] = StoreAt(Top, s)
  BY <1>1, LiveReads DEF Known
<1>8. PICK taken : taken = {s \in live : c[EnvNow[s]]}
  OBVIOUS
<1>9. \A s \in live : /\ Selected(fr, s) <=> s \in taken
                      /\ Waiting(fr, s) <=> s \notin taken
  BY <1>2, <1>7, <1>8 DEF Selected, Waiting
<1>10. Taking(fr, live) = taken /\ {s \in live : Waiting(fr, s)} = live \ taken
  BY <1>8, <1>9 DEF Taking
<1>11. Pushes("if", taken, live \ taken, None, FALSE)
  BY <1>2, <1>6, <1>10 DEF Pushes, FrameView
<1>12. ViewsInv'
  BY <1>2, <1>5, ViewsOpen DEF Known
<1>13. QED BY <1>1, <1>5, <1>6, <1>8, <1>11, <1>12, StepIf

LEMMA RefinesCase ==
  ASSUME Known, NEW f \in Selectors, NEW g \in Labels, NEW full \in BOOLEAN, CaseItem(f, g, full)
  PROVE  Process!Case(f, g, full) /\ ViewsInv'
<1>1. PICK fr, live : fr = ItemFrame(f, g, full) /\ live = Process!Live
  OBVIOUS
<1>2. /\ fr.kind = "case" /\ fr.sel = BuildExpr(f, Top) /\ fr.sel # None /\ fr.full = full
      /\ \A s \in Sigma : Alike(fr, s) =
           {k \in {1} : Hits(BuildExpr(g, Top)[s], BuildExpr(f, Top)[s])}
      /\ FrameGood(fr) /\ Untaken(fr) /\ Parked(fr) = 0 /\ Len(fr.labels) = 1
  BY <1>1, ItemFrameIs DEF Known
<1>3. fr.base = Len(contextStack)
  BY <1>1 DEF ItemFrame, Frame
<1>4. PICK space \in Space : space = "one"
  BY DEF Space
<1>5. Opening(fr, space) /\ ResultNow = None
  <2>1. CanVisit /\ OpenContext(fr, space) /\ UNCHANGED <<contextStack, exported, mixed, aborted>>
    BY <1>1, <1>4 DEF CaseItem, ItemFrame
  <2>2. QED BY <1>2, <1>3, <1>4, <2>1, OpensAs DEF Known
<1>6. SameValues /\ PathNow' = Append(PathNow, FrameView(fr, live))
  BY <1>1, <1>2, <1>5, OpensSame, OpensPath DEF Known
<1>7. live \subseteq Sigma /\ \A s \in live : EnvNow[s] = StoreAt(Top, s)
  BY <1>1, LiveReads DEF Known
<1>8. PICK sel : sel = [s \in live |-> f[EnvNow[s]]]
  OBVIOUS
<1>9. PICK taken : taken = MatchingNow(g, live, sel)
  OBVIOUS
<1>10. \A s \in live : BuildExpr(f, Top)[s] = sel[s] /\ BuildExpr(g, Top)[s] = g[EnvNow[s]]
  BY <1>7, <1>8 DEF BuildExpr
<1>11. taken = {s \in live : Hits(g[EnvNow[s]], sel[s])}
  BY <1>9 DEF MatchingNow
<1>12. ASSUME NEW s \in live
       PROVE  /\ Selected(fr, s) <=> s \in taken
              /\ Waiting(fr, s) <=> s \notin taken
  <2>1. Alike(fr, s) = IF s \in taken THEN {1} ELSE {}
    BY <1>2, <1>7, <1>10, <1>11
  <2>2. s \in taken => FirstAlike(fr, s) = 1
    BY <2>1 DEF FirstAlike
  <2>3. QED BY <1>2, <2>1, <2>2 DEF Selected, Waiting
<1>13. Taking(fr, live) = taken /\ {s \in live : Waiting(fr, s)} = live \ taken
  BY <1>11, <1>12 DEF Taking
<1>14. [s \in live |-> fr.sel[s]] = sel
  BY <1>2, <1>8, <1>10
<1>15. Pushes("case", taken, live \ taken, sel, full)
  BY <1>2, <1>6, <1>13, <1>14 DEF Pushes, FrameView
<1>16. ViewsInv'
  BY <1>2, <1>5, ViewsOpen DEF Known
<1>17. QED BY <1>1, <1>5, <1>6, <1>8, <1>9, <1>15, <1>16, StepCase

LEMMA RefinesCaseOfDefault ==
  ASSUME Known, NEW f \in Selectors, CaseWithoutItems(f)
  PROVE  Process!CaseOfDefault(f) /\ ViewsInv'
<1>1. PICK fr, live : fr = LoneFrame(f) /\ live = Process!Live
  OBVIOUS
<1>2. /\ fr.kind = "default" /\ fr.sel = BuildExpr(f, Top) /\ fr.sel # None /\ fr.full = FALSE
      /\ \A s \in Sigma : Alike(fr, s) = {}
      /\ FrameGood(fr) /\ Untaken(fr) /\ Parked(fr) = 0
  BY <1>1, LoneFrameIs DEF Known
<1>3. fr.base = Len(contextStack)
  BY <1>1 DEF LoneFrame, Frame
<1>4. PICK space \in Space : space = "one"
  BY DEF Space
<1>5. Opening(fr, space) /\ ResultNow = None
  <2>1. CanVisit /\ OpenContext(fr, space) /\ UNCHANGED <<contextStack, exported, mixed, aborted>>
    BY <1>1, <1>4 DEF CaseWithoutItems, LoneFrame
  <2>2. QED BY <1>2, <1>3, <1>4, <2>1, OpensAs DEF Known
<1>6. SameValues /\ PathNow' = Append(PathNow, FrameView(fr, live))
  BY <1>1, <1>2, <1>5, OpensSame, OpensPath DEF Known
<1>7. live \subseteq Sigma /\ \A s \in live : EnvNow[s] = StoreAt(Top, s)
  BY <1>1, LiveReads DEF Known
<1>8. PICK sel : sel = [s \in live |-> f[EnvNow[s]]]
  OBVIOUS
<1>9. [s \in live |-> fr.sel[s]] = sel
  BY <1>2, <1>7, <1>8 DEF BuildExpr
<1>10. \A s \in live : Selected(fr, s) /\ ~Waiting(fr, s)
  BY <1>2, <1>7 DEF Selected, Waiting
<1>11. Taking(fr, live) = live /\ {s \in live : Waiting(fr, s)} = {}
  BY <1>10 DEF Taking
<1>12. Pushes("case", live, {}, sel, FALSE)
  BY <1>2, <1>6, <1>9, <1>11 DEF Pushes, FrameView
<1>13. ViewsInv'
  BY <1>2, <1>5, ViewsOpen DEF Known
<1>14. QED BY <1>1, <1>5, <1>6, <1>8, <1>12, <1>13, StepCaseOfDefault

LEMMA RefinesBlock ==
  ASSUME Known, BlockStatement
  PROVE  Process!Block /\ ViewsInv'
<1>1. PICK fr, live : fr = BlockFrame /\ live = Process!Live
  OBVIOUS
<1>2. fr.kind = "block" /\ fr.sel = None /\ fr.full = FALSE /\ FrameGood(fr) /\ Untaken(fr) /\ Parked(fr) = 0
  BY <1>1, BlockFrameIs DEF Known
<1>3. fr.base = Len(contextStack)
  BY <1>1 DEF BlockFrame, Frame
<1>4. PICK space \in Space : space = "many"
  BY DEF Space
<1>5. Opening(fr, space) /\ ResultNow = None
  <2>1. CanVisit /\ OpenContext(fr, space) /\ UNCHANGED <<contextStack, exported, mixed, aborted>>
    BY <1>1, <1>4 DEF BlockStatement, BlockFrame
  <2>2. QED BY <1>2, <1>3, <1>4, <2>1, OpensAs DEF Known
<1>6. SameValues /\ PathNow' = Append(PathNow, FrameView(fr, live))
  BY <1>1, <1>2, <1>5, OpensSame, OpensPath DEF Known
<1>7. \A s \in live : Selected(fr, s) /\ ~Waiting(fr, s)
  BY <1>2 DEF Selected, Waiting
<1>8. Taking(fr, live) = live /\ {s \in live : Waiting(fr, s)} = {}
  BY <1>7 DEF Taking
<1>9. Pushes("block", live, {}, None, FALSE)
  BY <1>2, <1>6, <1>8 DEF Pushes, FrameView
<1>10. ViewsInv'
  BY <1>2, <1>5, ViewsOpen DEF Known
<1>11. QED BY <1>1, <1>5, <1>6, <1>9, <1>10, StepBlock

-----------------------------------------------------------------------------
(* Branches that follow one another.                                       *)
LEMMA InnermostIs ==
  ASSUME IInv, frames # <<>>, NEW m, m = Len(frames) - 1, NEW live, live = LiveIn(frames, m)
  PROVE  PathNow # <<>> /\ Innermost = FrameView(Inner, live)
<1>1. PICK fs : fs = frames
  OBVIOUS
<1>2. fs \in Seq(FrameType) /\ Len(fs) \in Nat /\ Len(fs) >= 1
  BY <1>1, Depths DEF IInv, Core
<1>3. PathNow = PathIn(fs)
  BY <1>1, <1>2, PathNowIs
<1>4. Len(PathIn(fs)) = Len(fs) /\ PathIn(fs) # <<>>
      /\ PathIn(fs)[Len(fs)] = FrameView(fs[Len(fs)], LiveIn(fs, Len(fs) - 1))
  BY <1>1, <1>2, PathFields
<1>5. QED BY <1>1, <1>3, <1>4 DEF Innermost, Inner

LEMMA BranchesPath ==
  ASSUME IInv, NEW frame, Branching(frame), FrameGood(frame),
         NEW m, m = Len(frames) - 1, NEW live, live = LiveIn(frames, m)
  PROVE  PathNow' = [PathNow EXCEPT ![Len(PathNow)] = FrameView(frame, live)]
<1>1. PICK fs, fs2 : fs = frames /\ fs2 = frames'
  OBVIOUS
<1>2. fs \in Seq(FrameType) /\ Len(fs) \in Nat /\ Len(fs) >= 1 /\ fs # <<>>
  BY <1>1, Depths DEF IInv, Core, Branching
<1>3. fs2 \in Seq(FrameType)
  BY <1>1, <1>2 DEF Branching, NextBranch, FrameGood
<1>4. Len(fs2) = Len(fs) /\ \A k \in 1..Len(fs) : fs2[k] = IF k = Len(fs) THEN frame ELSE fs[k]
  BY <1>1, BranchSteps
<1>5. fs2[Len(fs)] = frame /\ \A j \in 1..Len(fs) : j # Len(fs) => fs2[j] = fs[j]
  BY <1>2, <1>4
<1>6. PathIn(fs2) = [PathIn(fs) EXCEPT ![Len(PathIn(fs))] = FrameView(frame, LiveIn(fs, Len(fs) - 1))]
  BY <1>2, <1>3, <1>4, <1>5, PathTurns
<1>7. PathNow = PathIn(fs) /\ PathNow' = PathIn(fs2)
  BY <1>1, <1>2, <1>3, PathNowIs
<1>8. QED BY <1>1, <1>6, <1>7

(* Only the runs of the statement's current branch change.                 *)
LEMMA Turned ==
  ASSUME IInv, NEW frame, Branching(frame), FrameGood(frame), frame.sel = Inner.sel,
         NEW full, frame.full = full,
         frame.kind \in {"then", "else"} <=> Inner.kind \in {"then", "else"},
         NEW m, m = Len(frames) - 1, NEW live, live = LiveIn(frames, m),
         NEW taken, taken = Taking(frame, live), NEW rest, rest = {s \in live : Waiting(frame, s)}
  PROVE  /\ TurnsLast(taken, rest, full)
         /\ full = Inner.full => Turns(taken, rest)
<1>1. frames # <<>> /\ Inner.kind # "block" /\ frame.kind # "block"
  BY DEF Branching
<1>2. PICK p, v, w : p = PathNow /\ v = Innermost /\ w = FrameView(frame, live)
  OBVIOUS
<1>3. PathNow' = [PathNow EXCEPT ![Len(PathNow)] = w]
  BY <1>2, BranchesPath
<1>4. v = FrameView(Inner, live)
  BY <1>1, <1>2, InnermostIs
<1>5. /\ w = [v EXCEPT !.live = taken, !.rest = rest, !.full = full]
      /\ full = Inner.full => w = [v EXCEPT !.live = taken, !.rest = rest]
  <2>1. PICK kind, sel : /\ kind = IF frame.kind \in {"then", "else"} THEN "if" ELSE "case"
                         /\ sel = IF frame.sel = None THEN None ELSE [s \in live |-> frame.sel[s]]
    OBVIOUS
  <2>2. w = [kind |-> kind, live |-> taken, rest |-> rest, sel |-> sel, full |-> full]
    BY <1>1, <1>2, <2>1 DEF FrameView
  <2>3. PICK x, y, z : /\ v = [kind |-> kind, live |-> x, rest |-> y, sel |-> sel, full |-> z]
                       /\ z = Inner.full
    <3>1. v = [kind |-> kind, live |-> Taking(Inner, live), rest |-> {s \in live : Waiting(Inner, s)},
               sel |-> sel, full |-> Inner.full]
      BY <1>1, <1>4, <2>1 DEF FrameView
    <3>2. QED BY <3>1
  <2>4. PICK u : u = [v EXCEPT !.live = taken]
    OBVIOUS
  <2>5. u = [kind |-> kind, live |-> taken, rest |-> y, sel |-> sel, full |-> z]
    BY <2>3, <2>4
  <2>6. PICK t : t = [u EXCEPT !.rest = rest]
    OBVIOUS
  <2>7. t = [kind |-> kind, live |-> taken, rest |-> rest, sel |-> sel, full |-> z]
    BY <2>5, <2>6
  <2>8. [v EXCEPT !.live = taken, !.rest = rest] = t
    BY <2>4, <2>6
  <2>9. PICK r : r = [t EXCEPT !.full = full]
    OBVIOUS
  <2>10. r = [kind |-> kind, live |-> taken, rest |-> rest, sel |-> sel, full |-> full]
    BY <2>7, <2>9
  <2>11. [v EXCEPT !.live = taken, !.rest = rest, !.full = full] = r
    BY <2>4, <2>6, <2>9
  <2>12. QED BY <2>2, <2>3, <2>7, <2>8, <2>10, <2>11
<1>6. v = p[Len(p)]
  BY <1>2 DEF Innermost
<1>7. PICK n : n = Len(p)
  OBVIOUS
<1>8. [p EXCEPT ![n] = w] = [p EXCEPT ![n].live = taken, ![n].rest = rest, ![n].full = full]
  BY <1>5, <1>6, <1>7
<1>9. ASSUME full = Inner.full
      PROVE  [p EXCEPT ![n] = w] = [p EXCEPT ![n].live = taken, ![n].rest = rest]
  BY <1>5, <1>6, <1>7, <1>9
<1>10. TurnsLast(taken, rest, full)
  BY <1>2, <1>3, <1>7, <1>8 DEF TurnsLast
<1>11. full = Inner.full => Turns(taken, rest)
  BY <1>2, <1>3, <1>7, <1>9 DEF Turns
<1>12. QED BY <1>10, <1>11

LEMMA BranchesSame ==
  ASSUME Known, NEW frame, Branching(frame), Follows(Inner, frame)
  PROVE  SameValues
<1>1. ASSUME NEW s \in Sigma
      PROVE  Ways(Holder(s)') /\ Holder(s)'.sched = Holder(s).sched
  <2>1. PICK h, g : h = Holder(s) /\ g = Holder(s)'
    OBVIOUS
  <2>2. h \in Context /\ Ways(h)
    BY <2>1, HolderWays DEF Known
  <2>3. Ways(Child(h)) /\ Child(h).sched = h.sched
    BY <2>2, ChildWays
  <2>4. g \in {h, Child(h)}
    BY <2>1, HolderBranches DEF Known
  <2>5. Ways(g) /\ g.sched = h.sched
    BY <2>2, <2>3, <2>4
  <2>6. QED BY <2>1, <2>5
<1>2. UNCHANGED exported
  BY DEF Branching
<1>3. QED BY <1>1, <1>2, ValuesSame

LEMMA RefinesElse ==
  ASSUME Known, ConditionalElse
  PROVE  Process!Else /\ ViewsInv'
<1>1. frames # <<>> /\ Inner.kind = "then"
  BY DEF ConditionalElse, In
<1>2. PICK fr, frame, m, live : /\ fr = Inner /\ frame = [Inner EXCEPT !.kind = "else"]
                                /\ m = Len(frames) - 1 /\ live = LiveIn(frames, m)
  OBVIOUS
<1>3. FrameGood(fr) /\ fr \in FrameType
  BY <1>1, <1>2, InnerGood DEF Known, IInv
<1>4. /\ frame.kind = "else" /\ frame.base = fr.base /\ frame.cond = fr.cond /\ frame.sel = fr.sel
      /\ frame.full = fr.full /\ frame \in FrameType
  BY <1>2, <1>3 DEF FrameType
<1>5. fr.cond \in [Sigma -> BOOLEAN] /\ FrameGood(frame)
  BY <1>1, <1>2, <1>3, <1>4 DEF FrameGood
<1>6. Branching(frame)
  BY <1>1, <1>2, <1>4 DEF Branching, ConditionalElse
<1>7. Parked(fr) = 0 /\ Parked(frame) = 1
  BY <1>1, <1>2, <1>4 DEF Parked
<1>8. \A s \in Sigma : /\ Selected(fr, s) = fr.cond[s] /\ Selected(frame, s) = ~fr.cond[s]
                       /\ Waiting(fr, s) = ~fr.cond[s] /\ Waiting(frame, s) = FALSE
  BY <1>1, <1>2, <1>4 DEF Selected, Waiting
<1>9. Follows(fr, frame)
  BY <1>1, <1>2, <1>4, <1>5, <1>7, <1>8 DEF Follows
<1>10. SameValues
  BY <1>2, <1>6, <1>9, BranchesSame
<1>11. PICK taken, rest : taken = Taking(frame, live) /\ rest = {s \in live : Waiting(frame, s)}
  OBVIOUS
<1>12. live \subseteq Sigma
  BY <1>2 DEF LiveIn
<1>13. taken = {s \in live : Waiting(fr, s)} /\ rest = {}
  BY <1>8, <1>11, <1>12 DEF Taking
<1>14. Turns(taken, rest)
  BY ZenonT(40), <1>1, <1>2, <1>4, <1>5, <1>6, <1>11, Turned DEF Known
<1>15. PathNow # <<>> /\ Innermost = FrameView(fr, live)
  BY <1>1, <1>2, InnermostIs DEF Known
<1>16. Innermost.kind = "if" /\ Innermost.rest = taken
  BY <1>1, <1>2, <1>13, <1>15 DEF FrameView
<1>17. NestedIn("if") /\ Turns(Innermost.rest, {})
  BY <1>13, <1>14, <1>15, <1>16 DEF NestedIn
<1>18. ViewsInv'
  BY <1>2, <1>6, <1>7, ViewsBranch DEF Known
<1>19. QED BY <1>10, <1>17, <1>18, StepElse

(* The frame of the next item: the labels so far and one more.             *)
ItemAdded(fr, label) == [fr EXCEPT !.labels = Append(@, label)]

LEMMA LabelAdded ==
  ASSUME NEW fr \in FrameType, NEW label \in LabelList, NEW frame, frame = ItemAdded(fr, label), NEW s
  PROVE  /\ frame \in FrameType /\ frame.kind = fr.kind /\ frame.base = fr.base /\ frame.sel = fr.sel
         /\ frame.full = fr.full /\ Len(frame.labels) = Len(fr.labels) + 1
         /\ Alike(frame, s) = Alike(fr, s) \cup
              {k \in {Len(fr.labels) + 1} : Hits(label[s], fr.sel[s])}
         /\ Alike(fr, s) # {} => FirstAlike(frame, s) = FirstAlike(fr, s)
         /\ Alike(fr, s) = {} /\ Alike(frame, s) # {} => FirstAlike(frame, s) = Len(fr.labels) + 1
<1>1. fr.labels \in Seq(LabelList) /\ Len(fr.labels) \in Nat
  BY DEF FrameType
<1>2. PICK ls : ls = Append(fr.labels, label)
  OBVIOUS
<1>3. ls \in Seq(LabelList) /\ Len(ls) = Len(fr.labels) + 1
      /\ ls[Len(fr.labels) + 1] = label /\ \A k \in 1..Len(fr.labels) : ls[k] = fr.labels[k]
  BY <1>1, <1>2
<1>4. frame.labels = ls /\ frame.kind = fr.kind /\ frame.base = fr.base /\ frame.sel = fr.sel
      /\ frame.full = fr.full
      /\ frame \in FrameType
  BY <1>2, <1>3 DEF FrameType, ItemAdded
<1>5. DOMAIN ls = 1..Len(fr.labels) + 1 /\ DOMAIN fr.labels = 1..Len(fr.labels)
  BY <1>1, <1>3
<1>6. Alike(frame, s) = Alike(fr, s) \cup
        {k \in {Len(fr.labels) + 1} : Hits(label[s], fr.sel[s])}
  <2>1. PICK n : n = Len(fr.labels)
    OBVIOUS
  <2>2. /\ Alike(frame, s) = {k \in 1..n + 1 : Hits(ls[k][s], fr.sel[s])}
        /\ Alike(fr, s) = {k \in 1..n : Hits(fr.labels[k][s], fr.sel[s])}
    BY <1>4, <1>5, <2>1 DEF Alike
  <2>3. /\ n \in Nat /\ n + 1 \in 1..n + 1 /\ ls[n + 1] = label
        /\ \A k \in 1..n : ls[k] = fr.labels[k] /\ k \in 1..n + 1
        /\ \A k \in 1..n + 1 : k \in 1..n \/ k = n + 1
    BY <1>1, <1>3, <2>1
  <2>4. ASSUME NEW k
        PROVE  k \in Alike(frame, s) <=>
                 k \in Alike(fr, s) \/ (k = n + 1 /\ Hits(label[s], fr.sel[s]))
    BY <2>2, <2>3
  <2>5. QED BY <2>1, <2>4
<1>7. ASSUME Alike(fr, s) # {}
      PROVE  FirstAlike(frame, s) = FirstAlike(fr, s)
  <2>1. PICK k : k = FirstAlike(fr, s)
    OBVIOUS
  <2>2. k \in Alike(fr, s) /\ k \in 1..Len(fr.labels) /\ \A j \in Alike(fr, s) : k <= j
    BY <1>1, <1>7, <2>1, FirstAlikeIs
  <2>3. k \in Alike(frame, s) /\ \A j \in Alike(frame, s) : k <= j
    <3>1. PICK n \in Nat : n = Len(fr.labels)
      BY <1>1
    <3>2. k <= n + 1
      BY <2>2, <3>1
    <3>3. \A j \in Alike(frame, s) : j \in Alike(fr, s) \/ j = n + 1
      BY <1>6, <3>1
    <3>4. QED BY <1>6, <2>2, <3>2, <3>3
  <2>4. QED BY <1>3, <1>4, <2>1, <2>3, FirstAlikeOnly
<1>8. ASSUME Alike(fr, s) = {}, Alike(frame, s) # {}
      PROVE  FirstAlike(frame, s) = Len(fr.labels) + 1
  <2>1. FirstAlike(frame, s) \in Alike(frame, s)
    BY <1>3, <1>4, <1>8, FirstAlikeIs
  <2>2. QED BY <1>6, <1>8, <2>1
<1>9. QED BY <1>3, <1>4, <1>6, <1>7, <1>8

(* Where the runs are that wait for their branch.                          *)
LEMMA BesideHolder ==
  ASSUME IInv, frames # <<>>, NEW m, m = Len(frames) - 1, NEW s, ActiveIn(frames, m, s),
         ~Selected(Inner, s)
  PROVE  Holder(s) = Beside(Inner, Parent, contextStack, s)
<1>1. Len(frames) \in Nat /\ Len(frames) >= 1 /\ frames \in Seq(FrameType)
      /\ Parent = contexts[Len(frames)] /\ Inner = frames[Len(frames)]
  BY Depths DEF IInv, Core
<1>2. m \in 0..Len(frames) /\ m + 1 = Len(frames) /\ m # Len(frames)
  BY <1>1
<1>3. StandsAt(frames, s, m)
  BY <1>1, <1>2 DEF StandsAt
<1>4. HolderIn(contexts, contextStack, frames, s) = HeldAt(contexts, contextStack, frames, s, m)
  BY <1>1, <1>3, HolderInIs
<1>5. HeldAt(contexts, contextStack, frames, s, m) = Beside(Inner, Parent, contextStack, s)
  BY <1>1, <1>2 DEF HeldAt
<1>6. QED BY <1>4, <1>5, HolderNow

LEMMA RefinesNextItem ==
  ASSUME Known, NEW g \in Labels, CaseNextItem(g)
  PROVE  Process!NextItem(g) /\ ViewsInv'
<1>1. frames # <<>> /\ Inner.kind = "case"
  BY DEF CaseNextItem, In
<1>2. PICK fr, label, m, live : /\ fr = Inner /\ label = BuildExpr(g, Parent)
                                /\ m = Len(frames) - 1 /\ live = LiveIn(frames, m)
  OBVIOUS
<1>3. PICK frame : frame = ItemAdded(fr, label)
  OBVIOUS
<1>4. FrameGood(fr) /\ fr \in FrameType /\ Parent \in Context
  BY <1>1, <1>2, InnerGood DEF Known, IInv
<1>5. label \in LabelList
  <2>1. g \in [Store -> SUBSET Val]
    BY LabelsAreExpressions
  <2>2. QED BY <1>2, <1>4, <2>1, BuildLabelsType
<1>6. PICK n : n = Len(fr.labels)
  OBVIOUS
<1>7. n \in Nat /\ n >= 1 /\ fr.labels \in Seq(LabelList)
  BY <1>1, <1>2, <1>4, <1>6, EmptySeq DEF FrameGood, FrameType
<1>8. /\ frame \in FrameType /\ frame.kind = "case" /\ frame.base = fr.base /\ frame.sel = fr.sel
      /\ frame.full = fr.full /\ Len(frame.labels) = n + 1
  <2>1. PICK s : s = {}
    OBVIOUS
  <2>2. /\ frame \in FrameType /\ frame.kind = fr.kind /\ frame.base = fr.base /\ frame.sel = fr.sel
        /\ frame.full = fr.full /\ Len(frame.labels) = Len(fr.labels) + 1
    BY <1>3, <1>4, <1>5, LabelAdded
  <2>3. QED BY <1>1, <1>2, <1>6, <2>2
<1>9. ASSUME NEW s \in Sigma
      PROVE  /\ Alike(frame, s) = Alike(fr, s) \cup {k \in {n + 1} : Hits(label[s], fr.sel[s])}
             /\ Alike(fr, s) # {} => FirstAlike(frame, s) = FirstAlike(fr, s)
                                     /\ FirstAlike(fr, s) \in 1..n
             /\ Alike(fr, s) = {} /\ Alike(frame, s) # {} => FirstAlike(frame, s) = n + 1
  <2>1. /\ Alike(frame, s) = Alike(fr, s) \cup
             {k \in {Len(fr.labels) + 1} : Hits(label[s], fr.sel[s])}
        /\ Alike(fr, s) # {} => FirstAlike(frame, s) = FirstAlike(fr, s)
        /\ Alike(fr, s) = {} /\ Alike(frame, s) # {} => FirstAlike(frame, s) = Len(fr.labels) + 1
    BY <1>3, <1>4, <1>5, LabelAdded
  <2>2. Alike(fr, s) # {} => FirstAlike(fr, s) \in 1..Len(fr.labels)
    BY <1>7, FirstAlikeIs
  <2>3. QED BY <1>6, <2>1, <2>2
<1>10. FrameGood(frame)
  <2>1. frame.labels # <<>>
    BY <1>7, <1>8
  <2>2. QED BY <1>1, <1>2, <1>4, <1>8, <2>1 DEF FrameGood
<1>11. Branching(frame)
  BY <1>1, <1>2, <1>3, <1>8 DEF Branching, CaseNextItem, ItemAdded
<1>12. Parked(fr) + 1 = n /\ Parked(fr) \in Nat /\ Parked(frame) = n
  BY <1>1, <1>2, <1>6, <1>7, <1>8 DEF Parked
<1>13. \A s \in Sigma :
         /\ Selected(fr, s) <=> Alike(fr, s) # {} /\ FirstAlike(fr, s) = n
         /\ Selected(frame, s) <=> Alike(frame, s) # {} /\ FirstAlike(frame, s) = n + 1
         /\ Waiting(fr, s) <=> Alike(fr, s) = {}
         /\ Waiting(frame, s) <=> Alike(frame, s) = {}
  BY <1>1, <1>2, <1>6, <1>8 DEF Selected, Waiting
<1>14. Follows(fr, frame)
  <2> SUFFICES ASSUME NEW s \in Sigma
               PROVE  /\ Selected(fr, s) =>
                           /\ ~Selected(frame, s) /\ Alike(frame, s) # {}
                           /\ FirstAlike(frame, s) = Parked(fr) + 1
                      /\ ~Selected(fr, s) =>
                           \/ /\ ~Selected(frame, s)
                              /\ (Alike(frame, s) = {}) = (Alike(fr, s) = {})
                              /\ Alike(fr, s) # {} => FirstAlike(frame, s) = FirstAlike(fr, s)
                           \/ Selected(frame, s) /\ Alike(fr, s) = {}
    BY <1>1, <1>2, <1>8, <1>10 DEF Follows
  <2>1. CASE Alike(fr, s) # {}
    <3>1. Alike(frame, s) # {} /\ FirstAlike(frame, s) = FirstAlike(fr, s) /\ FirstAlike(fr, s) \in 1..n
      BY <1>9, <2>1
    <3>2. ~Selected(frame, s)
      BY <1>7, <1>13, <3>1
    <3>3. QED BY <1>12, <1>13, <2>1, <3>1, <3>2
  <2>2. CASE Alike(fr, s) = {}
    <3>1. Alike(frame, s) # {} => FirstAlike(frame, s) = n + 1
      BY <1>9, <2>2
    <3>2. QED BY <1>13, <2>2, <3>1
  <2>3. QED BY <2>1, <2>2
<1>15. SameValues
  BY <1>2, <1>11, <1>14, BranchesSame
<1>16. PICK taken, rest : taken = Taking(frame, live) /\ rest = {s \in live : Waiting(frame, s)}
  OBVIOUS
<1>17. Turns(taken, rest)
  BY <1>1, <1>2, <1>8, <1>10, <1>11, <1>16, Turned DEF Known
<1>18. PathNow # <<>> /\ Innermost = FrameView(fr, live)
  BY <1>1, <1>2, InnermostIs DEF Known
<1>19. PICK pool, sel : pool = Innermost.rest /\ sel = Innermost.sel
  OBVIOUS
<1>20. /\ Innermost.kind = "case" /\ pool = {s \in live : Waiting(fr, s)}
       /\ sel = IF fr.sel = None THEN None ELSE [s \in live |-> fr.sel[s]]
  BY <1>1, <1>2, <1>18, <1>19 DEF FrameView
<1>21. live \subseteq Sigma /\ \A s \in live : ActiveIn(frames, m, s)
  BY <1>2 DEF LiveIn
<1>22. ASSUME NEW s \in pool
       PROVE  g[EnvNow[s]] = label[s] /\ sel[s] = fr.sel[s]
  <2>1. s \in live /\ s \in Sigma /\ Alike(fr, s) = {}
    BY <1>13, <1>20, <1>21
  <2>2. ~Selected(fr, s)
    BY <1>13, <2>1
  <2>3. Holder(s) = Parent
    <3>1. Holder(s) = Beside(Inner, Parent, contextStack, s)
      BY <1>1, <1>2, <1>21, <2>1, <2>2, BesideHolder DEF Known
    <3>2. QED BY <1>1, <1>2, <2>1, <3>1 DEF Beside
  <2>4. EnvNow[s] = StoreAt(Parent, s)
    BY <2>1, <2>3 DEF EnvNow
  <2>5. label[s] = g[EnvNow[s]]
    BY <1>2, <2>1, <2>4 DEF BuildExpr
  <2>6. sel[s] = fr.sel[s]
    BY <1>20, <2>1
  <2>7. QED BY <2>5, <2>6
<1>23. taken = MatchingNow(g, pool, sel)
  <2>1. MatchingNow(g, pool, sel) = {s \in pool : Hits(label[s], fr.sel[s])}
    BY <1>22 DEF MatchingNow
  <2>2. \A s \in live : Selected(frame, s) <=> s \in pool /\ Hits(label[s], fr.sel[s])
    <3> TAKE s \in live
    <3>1. s \in Sigma
      BY <1>21
    <3>2. CASE Alike(fr, s) # {}
      <4>1. ~Selected(frame, s)
        <5>1. PICK k : k = FirstAlike(fr, s)
          OBVIOUS
        <5>2. k \in 1..n /\ FirstAlike(frame, s) = k
          BY <1>9, <3>1, <3>2, <5>1
        <5>3. k # n + 1
          BY <1>7, <5>2
        <5>4. QED BY <1>13, <3>1, <5>2, <5>3
      <4>2. s \notin pool
        BY <1>13, <1>20, <3>1, <3>2
      <4>3. QED BY <4>1, <4>2
    <3>3. CASE Alike(fr, s) = {}
      <4>1. s \in pool
        BY <1>13, <1>20, <3>1, <3>3
      <4>2. Alike(frame, s) = {k \in {n + 1} : Hits(label[s], fr.sel[s])}
        BY <1>9, <3>1, <3>3
      <4>3. Selected(frame, s) <=> Alike(frame, s) # {}
        BY <1>9, <1>13, <3>1, <3>3
      <4>4. QED BY <4>1, <4>2, <4>3
    <3>4. QED BY <3>2, <3>3
  <2>3. pool \subseteq live
    BY <1>20
  <2>4. QED BY <1>16, <2>1, <2>2, <2>3 DEF Taking
<1>24. rest = pool \ taken
  <2>1. \A s \in live : s \in rest <=> Alike(frame, s) = {}
    BY <1>13, <1>16, <1>21
  <2>2. \A s \in live : s \in pool <=> Alike(fr, s) = {}
    BY <1>13, <1>20, <1>21
  <2>3. \A s \in live : s \in taken <=> Alike(frame, s) # {} /\ FirstAlike(frame, s) = n + 1
    BY <1>13, <1>16, <1>21 DEF Taking
  <2>4. \A s \in live : /\ Alike(fr, s) # {} => Alike(frame, s) # {}
                        /\ Alike(fr, s) = {} /\ Alike(frame, s) # {} => FirstAlike(frame, s) = n + 1
    BY <1>9, <1>21
  <2>5. rest \subseteq live /\ pool \subseteq live
    BY <1>16, <1>20
  <2>6. QED BY <2>1, <2>2, <2>3, <2>4, <2>5
<1>25. ViewsInv'
  BY <1>2, <1>11, <1>12, ViewsBranch DEF Known
<1>26. NestedIn("case")
  BY <1>18, <1>20 DEF NestedIn
<1>27. taken = MatchingNow(g, Innermost.rest, Innermost.sel) /\ Turns(taken, Innermost.rest \ taken)
  BY <1>17, <1>19, <1>23, <1>24
<1>28. QED BY <1>15, <1>25, <1>26, <1>27, StepNextItem

LEMMA RefinesDefault ==
  ASSUME Known, CaseDefault
  PROVE  Process!Default /\ ViewsInv'
<1>1. frames # <<>> /\ Inner.kind = "case"
  BY DEF CaseDefault, In
<1>2. PICK fr, frame, m, live : /\ fr = Inner /\ frame = [Inner EXCEPT !.kind = "default", !.full = FALSE]
                                /\ m = Len(frames) - 1 /\ live = LiveIn(frames, m)
  OBVIOUS
<1>3. FrameGood(fr) /\ fr \in FrameType
  BY <1>1, <1>2, InnerGood DEF Known, IInv
<1>4. /\ frame.kind = "default" /\ frame.base = fr.base /\ frame.labels = fr.labels
      /\ frame.sel = fr.sel /\ frame.full = FALSE /\ frame \in FrameType
  BY <1>2, <1>3 DEF FrameType
<1>5. FrameGood(frame)
  BY <1>1, <1>2, <1>3, <1>4 DEF FrameGood
<1>6. Branching(frame)
  BY <1>1, <1>2, <1>4 DEF Branching, CaseDefault
<1>7. PICK n : n = Len(fr.labels)
  OBVIOUS
<1>8. n \in Nat /\ n >= 1
  BY <1>1, <1>2, <1>3, <1>7, EmptySeq DEF FrameGood, FrameType
<1>9. Parked(fr) + 1 = n /\ Parked(fr) \in Nat /\ Parked(frame) = n
  BY <1>1, <1>2, <1>4, <1>7, <1>8 DEF Parked
<1>10. \A s : Alike(frame, s) = Alike(fr, s) /\ FirstAlike(frame, s) = FirstAlike(fr, s)
  BY <1>4 DEF Alike, FirstAlike
<1>11. \A s \in Sigma :
         /\ Selected(fr, s) <=> Alike(fr, s) # {} /\ FirstAlike(fr, s) = n
         /\ Selected(frame, s) <=> Alike(fr, s) = {}
         /\ Waiting(fr, s) <=> Alike(fr, s) = {}
         /\ Waiting(frame, s) <=> FALSE
  BY <1>1, <1>2, <1>4, <1>7, <1>10 DEF Selected, Waiting
<1>12. Follows(fr, frame)
  BY <1>1, <1>2, <1>4, <1>5, <1>9, <1>10, <1>11 DEF Follows
<1>13. SameValues
  BY <1>2, <1>6, <1>12, BranchesSame
<1>14. PICK taken, rest : taken = Taking(frame, live) /\ rest = {s \in live : Waiting(frame, s)}
  OBVIOUS
<1>15. live \subseteq Sigma
  BY <1>2 DEF LiveIn
<1>16. taken = {s \in live : Waiting(fr, s)} /\ rest = {}
  BY <1>11, <1>14, <1>15 DEF Taking
<1>17. TurnsLast(taken, rest, FALSE)
  BY <1>1, <1>2, <1>4, <1>5, <1>6, <1>14, Turned DEF Known
<1>18. PathNow # <<>> /\ Innermost = FrameView(fr, live)
  BY <1>1, <1>2, InnermostIs DEF Known
<1>19. Innermost.kind = "case" /\ Innermost.rest = taken
  BY <1>1, <1>2, <1>16, <1>18 DEF FrameView
<1>20. NestedIn("case") /\ TurnsLast(Innermost.rest, {}, FALSE)
  BY <1>16, <1>17, <1>18, <1>19 DEF NestedIn
<1>21. ViewsInv'
  BY <1>2, <1>6, <1>9, ViewsBranch DEF Known
<1>22. QED BY <1>13, <1>20, <1>21, StepDefault

-----------------------------------------------------------------------------
(* Statements that end.                                                    *)
LEMMA ClosesPath ==
  ASSUME IInv, frames # <<>>, NEW ctx, NEW names, NEW nb, Closes(ctx, names, nb)
  PROVE  Pops /\ ResultNow' = ResultNow
<1>1. PICK fs, fs2 : fs = frames /\ fs2 = frames'
  OBVIOUS
<1>2. fs \in Seq(FrameType) /\ Len(fs) \in Nat /\ Len(fs) >= 1 /\ fs # <<>>
  BY <1>1, Depths DEF IInv, Core
<1>3. Len(fs2) = Len(fs) - 1 /\ \A k \in 1..Len(fs) - 1 : fs2[k] = fs[k]
  BY <1>1, CloseShape DEF IInv, Closes
<1>4. fs2 \in Seq(FrameType)
  <2>1. fs2 = SubSeq(fs, 1, Len(fs) - 1)
    BY <1>1 DEF Closes, CloseContext, Front
  <2>2. QED BY <1>2, <2>1
<1>5. PathIn(fs2) = SubSeq(PathIn(fs), 1, Len(PathIn(fs)) - 1)
  BY <1>2, <1>3, <1>4, PathShrinks
<1>6. PathNow = PathIn(fs) /\ PathNow' = PathIn(fs2)
  BY <1>1, <1>2, <1>4, PathNowIs
<1>7. Pops
  BY <1>5, <1>6 DEF Pops
<1>8. ResultNow' = ResultNow
  BY NoResult DEF Closes
<1>9. QED BY <1>7, <1>8

(* The branches the innermost statement has, seen from its parent.         *)
LEMMA BranchesOf ==
  ASSUME Known, frames # <<>>
  PROVE  /\ Good(Parent) /\ Ways(Parent) /\ Branch(Top, Parent) /\ Top.locals \subseteq Local
         /\ \A i \in Inner.base + 1..Len(contextStack) : Branch(contextStack[i], Parent)
         /\ Branch(Child(Parent), Parent)
<1>1. /\ Len(frames) \in Nat /\ Len(frames) >= 1 /\ Inner = frames[Len(frames)]
      /\ Top = contexts[Len(frames) + 1] /\ Parent = contexts[Len(frames)]
  BY Depths DEF Known, IInv
<1>2. Inner.base + Parked(Inner) = Len(contextStack) /\ Inner.base \in Nat /\ Good(Parent)
      /\ Good(Top) /\ Parent \in Context
  BY <1>1, InnerGood, TopGood DEF Known, IInv
<1>3. PICK n \in Nat : n = Len(frames)
  BY <1>1
<1>4. n \in 1..n /\ n \in 1..n + 1 /\ n + 1 \in 1..n + 1
  BY <1>1, <1>3
<1>5. Ways(Parent) /\ Top.locals \subseteq Local /\ Keeps(Top, Parent)
  BY <1>1, <1>3, <1>4 DEF Known, ViewsInv
<1>6. FlagsFixed(Top)
  BY <1>1, <1>3, <1>4 DEF Known, FlagsInv
<1>7. ASSUME NEW i \in Inner.base + 1..Len(contextStack)
      PROVE  Branch(contextStack[i], Parent)
  <2>1. i \in frames[n].base + 1..frames[n].base + Parked(frames[n])
    BY <1>1, <1>2, <1>3
  <2>2. Keeps(contextStack[i], Parent)
    BY <1>1, <1>3, <1>4, <2>1 DEF Known, ViewsInv
  <2>3. i \in 1..Len(contextStack)
    BY <1>1, <1>3, <1>4, <2>1, ParkedBelow DEF Known
  <2>4. FlagsFixed(contextStack[i]) /\ Good(contextStack[i])
    BY <2>3 DEF Known, FlagsInv, IInv, Core
  <2>5. QED BY <2>2, <2>4 DEF Branch
<1>8. Branch(Child(Parent), Parent)
  <2>1. Good(Child(Parent))
    BY <1>2, ChildGood
  <2>2. Keeps(Child(Parent), Parent)
    BY <1>2, <1>5, ChildWays
  <2>3. FlagsFixed(Child(Parent))
    BY <1>2, ChildShape DEF FlagsFixed
  <2>4. QED BY <2>1, <2>2, <2>3 DEF Branch
<1>9. QED BY <1>2, <1>5, <1>6, <1>7, <1>8 DEF Branch

(* The context of a run that executes the innermost statement.             *)
Ended(s) == IF Selected(Inner, s) THEN Top ELSE Beside(Inner, Parent, contextStack, s)

LEMMA LeavesReads ==
  ASSUME NEW ctx, NEW other, NEW s
  PROVE  Leaves(ctx, s) = Leaves(other, s) => Reads(ctx, s) = Reads(other, s)
<1>1. SUFFICES ASSUME Leaves(ctx, s) = Leaves(other, s)
               PROVE  Reads(ctx, s) = Reads(other, s)
  OBVIOUS
<1>2. \A v \in Var : Value(ctx, v)[s] = Value(other, v)[s]
  <2> TAKE v \in Var
  <2>1. Leaves(ctx, s)[v] = Value(ctx, v)[s] /\ Leaves(other, s)[v] = Value(other, v)[s]
    BY DEF Leaves
  <2>2. QED BY <1>1, <2>1
<1>3. QED BY <1>2 DEF Reads

LEMMA ClosesRun ==
  ASSUME Known, frames # <<>>, NEW ctx, NEW names, NEW nb, Closes(ctx, names, nb), Ways(ctx),
         NEW s \in Sigma, NEW m, m = Len(frames) - 1
  PROVE  /\ ActiveIn(frames, m, s) =>
              /\ EnvNow[s] = Reads(Ended(s), s) /\ NxtNow[s] = Leaves(Ended(s), s)
              /\ EnvNow'[s] = Reads(ctx, s) /\ NxtNow'[s] = Leaves(ctx, s)
         /\ ~ActiveIn(frames, m, s) => EnvNow'[s] = EnvNow[s] /\ NxtNow'[s] = NxtNow[s]
         /\ EnvNow'[s] \in Store /\ NxtNow'[s] \in Store
<1>1. PICK h : h = Holder(s)
  OBVIOUS
<1>2. h \in Context /\ Ways(h) /\ EnvNow[s] = Reads(h, s) /\ NxtNow[s] = Leaves(h, s)
  BY <1>1, HolderWays, NowAt DEF Known
<1>3. ctx \in Context
  BY DEF Closes, Transferred
<1>4. CASE ActiveIn(frames, m, s)
  <2>1. Holder(s)' = ctx /\ h = Ended(s)
    BY <1>1, <1>4, HolderCloses DEF Known, Ended
  <2>2. EnvNow'[s] = Reads(ctx, s) /\ NxtNow'[s] = Leaves(ctx, s)
    BY <2>1, NowNext
  <2>3. EnvNow'[s] \in Store /\ NxtNow'[s] \in Store
    BY <1>3, <2>2, ReadsType
  <2>4. QED BY <1>2, <1>4, <2>1, <2>2, <2>3
<1>5. CASE ~ActiveIn(frames, m, s)
  <2>1. Holder(s)' = h
    BY <1>1, <1>5, HolderCloses DEF Known
  <2>2. EnvNow'[s] = Reads(h, s) /\ NxtNow'[s] = Leaves(h, s)
    BY <1>2, <2>1, NowNext
  <2>3. EnvNow'[s] \in Store /\ NxtNow'[s] \in Store
    BY <1>2, <2>2, ReadsType
  <2>4. QED BY <1>2, <1>5, <2>2, <2>3
<1>6. QED BY <1>4, <1>5

(* A merge that gives every run what its branch left.                      *)
LEMMA ClosesSame ==
  ASSUME Known, frames # <<>>, NEW ctx, NEW names, NEW nb, Closes(ctx, names, nb), Ways(ctx),
         NEW m, m = Len(frames) - 1,
         \A s \in Sigma : ActiveIn(frames, m, s) => Leaves(ctx, s) = Leaves(Ended(s), s)
  PROVE  SameValues
<1>1. ASSUME NEW s \in Sigma
      PROVE  EnvNow'[s] = EnvNow[s] /\ NxtNow'[s] = NxtNow[s]
  <2>1. PICK e : e = Ended(s)
    OBVIOUS
  <2>2. ActiveIn(frames, m, s) => Leaves(ctx, s) = Leaves(e, s) /\ Reads(ctx, s) = Reads(e, s)
    BY <2>1, LeavesReads
  <2>3. QED BY <2>1, <2>2, ClosesRun
<1>2. /\ EnvNow = [s \in Sigma |-> EnvNow[s]] /\ EnvNow' = [s \in Sigma |-> EnvNow'[s]]
      /\ NxtNow = [s \in Sigma |-> NxtNow[s]] /\ NxtNow' = [s \in Sigma |-> NxtNow'[s]]
  BY DEF EnvNow, NxtNow
<1>3. ResultNow' = ResultNow
  BY NoResult DEF Closes
<1> HIDE DEF EnvNow, NxtNow
<1>4. QED BY <1>1, <1>2, <1>3 DEF SameValues

LEMMA NextTypes ==
  ASSUME Known, frames # <<>>, NEW ctx, NEW names, NEW nb, Closes(ctx, names, nb), Ways(ctx)
  PROVE  EnvNow' \in [Sigma -> Store] /\ NxtNow' \in [Sigma -> Store]
<1>1. PICK m : m = Len(frames) - 1
  OBVIOUS
<1>2. \A s \in Sigma : EnvNow'[s] \in Store /\ NxtNow'[s] \in Store
  BY <1>1, ClosesRun
<1>3. EnvNow' = [s \in Sigma |-> EnvNow'[s]] /\ NxtNow' = [s \in Sigma |-> NxtNow'[s]]
  BY DEF EnvNow, NxtNow
<1> HIDE DEF EnvNow, NxtNow
<1>4. QED BY <1>2, <1>3

LEMMA RefinesEndIf ==
  ASSUME Known, ConditionalEnd
  PROVE  Process!EndIf /\ ViewsInv'
<1>1. PICK then : then = contextStack[Len(contextStack)]
  OBVIOUS
<1>2. /\ frames # <<>> /\ Inner.kind = "else" /\ Inner.base + 1 = Len(contextStack)
      /\ Inner.base \in Nat /\ Inner.cond \in [Sigma -> BOOLEAN]
      /\ Closes(MergeConditional(Parent, Inner.cond, then, Top),
                Outs(then) \cup Outs(Top), ConditionalFlags(then, Top))
  BY <1>1, ConditionalEndEffect DEF Known
<1>3. PICK cond, parent, top, ctx, names, nb :
        /\ cond = Inner.cond /\ parent = Parent /\ top = Top
        /\ ctx = MergeConditional(Parent, Inner.cond, then, Top)
        /\ names = Outs(then) \cup Outs(Top) /\ nb = ConditionalFlags(then, Top)
  OBVIOUS
<1>4. Closes(ctx, names, nb)
  BY <1>2, <1>3
<1>5. Good(parent) /\ Ways(parent) /\ Branch(top, parent) /\ Branch(then, parent)
  <2>1. Len(contextStack) \in Inner.base + 1..Len(contextStack)
    BY <1>2
  <2>2. QED BY <1>1, <1>2, <1>3, <2>1, BranchesOf
<1>6. /\ Ways(ctx)
      /\ \A s \in Sigma : Leaves(ctx, s) = IF cond[s] THEN Leaves(then, s) ELSE Leaves(top, s)
  <2>1. ctx = MergeConditional(parent, cond, then, top) /\ cond \in [Sigma -> BOOLEAN]
    BY <1>2, <1>3
  <2>2. QED BY <1>5, <2>1, MergedConditional
<1>7. PICK m, live : m = Len(frames) - 1 /\ live = LiveIn(frames, m)
  OBVIOUS
<1>8. \A s \in Sigma : Leaves(ctx, s) = Leaves(Ended(s), s)
  <2> TAKE s \in Sigma
  <2>1. Selected(Inner, s) = ~cond[s]
    BY <1>2, <1>3 DEF Selected
  <2>2. Ended(s) = IF cond[s] THEN then ELSE top
    BY <1>1, <1>2, <1>3, <2>1 DEF Ended, Beside
  <2>3. QED BY <1>6, <2>2
<1>9. SameValues
  BY <1>2, <1>4, <1>6, <1>7, <1>8, ClosesSame
<1>10. Pops
  BY <1>2, <1>4, ClosesPath DEF Known
<1>11. PathNow # <<>> /\ Innermost = FrameView(Inner, live)
  BY <1>2, <1>7, InnermostIs DEF Known
<1>12. Innermost.kind = "if" /\ Innermost.rest = {}
  BY <1>2, <1>11 DEF FrameView, Waiting
<1>13. ViewsInv'
  BY <1>2, <1>4, <1>6, ViewsClose DEF Known
<1>14. QED BY <1>9, <1>10, <1>11, <1>12, <1>13, StepEndIf DEF NestedIn

LEMMA RefinesEndBlock ==
  ASSUME Known, BlockEnd
  PROVE  Process!EndBlock /\ ViewsInv'
<1>1. /\ frames # <<>> /\ Inner.kind = "block"
      /\ Closes(MergeContext(Parent, Top), Outs(Top) \ Top.locals, BlockFlags(Top))
  BY BlockEndEffect DEF Known
<1>2. PICK parent, top, ctx, names, nb :
        /\ parent = Parent /\ top = Top /\ ctx = MergeContext(Parent, Top)
        /\ names = Outs(Top) \ Top.locals /\ nb = BlockFlags(Top)
  OBVIOUS
<1>3. Closes(ctx, names, nb)
  BY <1>1, <1>2
<1>4. Good(parent) /\ Ways(parent) /\ Branch(top, parent) /\ top.locals \subseteq Local
  BY <1>1, <1>2, BranchesOf
<1>5. Ways(ctx) /\ \A v \in Var \ top.locals : Value(ctx, v) = Value(top, v)
  BY <1>2, <1>4, MergedContext
<1>6. PICK m, live : m = Len(frames) - 1 /\ live = LiveIn(frames, m)
  OBVIOUS
<1>7. \A s : Selected(Inner, s) /\ Ended(s) = top
  BY <1>1, <1>2 DEF Selected, Ended
<1>8. ASSUME NEW s \in Sigma, NEW v \in Var \ Local
      PROVE  EnvNow'[s][v] = EnvNow[s][v] /\ NxtNow'[s][v] = NxtNow[s][v]
  <2>1. v \in Var \ top.locals
    BY <1>4
  <2>2. Value(ctx, v) = Value(top, v)
    BY <1>5, <2>1
  <2>3. Leaves(ctx, s)[v] = Leaves(top, s)[v] /\ Reads(ctx, s)[v] = Reads(top, s)[v]
    BY <2>2 DEF Leaves, Reads
  <2>4. CASE ActiveIn(frames, m, s)
    <3>1. /\ EnvNow[s] = Reads(top, s) /\ NxtNow[s] = Leaves(top, s)
          /\ EnvNow'[s] = Reads(ctx, s) /\ NxtNow'[s] = Leaves(ctx, s)
      BY <1>1, <1>3, <1>5, <1>6, <1>7, <2>4, ClosesRun
    <3>2. QED BY <2>3, <3>1
  <2>5. CASE ~ActiveIn(frames, m, s)
    <3>1. EnvNow'[s] = EnvNow[s] /\ NxtNow'[s] = NxtNow[s]
      BY <1>1, <1>3, <1>5, <1>6, <2>5, ClosesRun
    <3>2. QED BY <3>1
  <2>6. QED BY <2>4, <2>5
<1>9. EnvNow' \in [Sigma -> Store] /\ NxtNow' \in [Sigma -> Store]
  BY <1>1, <1>3, <1>5, NextTypes
<1>10. Pops /\ ResultNow' = ResultNow
  BY <1>1, <1>3, ClosesPath DEF Known
<1>11. PathNow # <<>> /\ Innermost = FrameView(Inner, live)
  BY <1>1, <1>6, InnermostIs DEF Known
<1>12. NestedIn("block")
  BY <1>1, <1>11 DEF NestedIn, FrameView
<1>13. ViewsInv'
  BY <1>1, <1>3, <1>5, ViewsClose DEF Known
<1>14. QED BY <1>8, <1>9, <1>10, <1>12, <1>13, StepEndBlock

(* What create_case compares is what the text compares.                    *)
LEMMA AlikeMatches ==
  ASSUME LikeIsEquality, NEW fr, fr.sel \in Expr, fr.labels \in Seq(LabelList), NEW s \in Sigma
  PROVE  /\ Matches(fr.sel, fr.labels, s) = Alike(fr, s)
         /\ FirstMatch(fr.sel, fr.labels, s) = FirstAlike(fr, s)
<1>1. Like[fr.sel[s]] = {fr.sel[s]}
  BY DEF LikeIsEquality, Expr
<1>2. \A k \in DOMAIN fr.labels :
        Hits(fr.labels[k][s], fr.sel[s]) <=> fr.sel[s] \in fr.labels[k][s]
  BY <1>1 DEF Hits
<1>3. Matches(fr.sel, fr.labels, s) = Alike(fr, s)
  BY <1>2 DEF Matches, Alike
<1>4. QED BY <1>3 DEF FirstMatch, FirstAlike

(* The contexts the end of a case adds to those it has parked.             *)
Ending(last, full) ==
  \/ Inner.kind = "default" /\ last = <<Top>> /\ full = FALSE
  \/ Inner.kind = "case" /\ last = <<Top, Child(Parent)>> /\ full = Inner.full

EndedBranches(last, full, fr, parent, p, n) ==
  /\ n \in Nat /\ fr.labels \in Seq(LabelList) /\ full \in BOOLEAN
  /\ last \in Seq(Context) /\ Len(last) \in {1, 2} /\ last[1] = Top
  /\ Len(last) = 2 => last[2] = Child(parent)
  /\ \A k \in 1..Len(last) : Good(last[k]) /\ Branch(last[k], parent)
  /\ p \in Nat /\ p + Len(last) = n + 1
  /\ fr.kind = "default" => Len(last) = 1 /\ full = FALSE /\ p = n
  /\ fr.kind = "case" => Len(last) = 2 /\ p + 1 = n

LEMMA EndingIs ==
  ASSUME Known, frames # <<>>, NEW last, NEW full, Ending(last, full)
  PROVE  EndedBranches(last, full, Inner, Parent, Parked(Inner), Len(Inner.labels))
<1> DEFINE n == Len(Inner.labels)
<1>1. /\ FrameGood(Inner) /\ Inner \in FrameType /\ Inner.labels \in Seq(LabelList) /\ n \in Nat
  BY InnerGood DEF Known, IInv
<1>2. Branch(Top, Parent) /\ Branch(Child(Parent), Parent)
  BY BranchesOf
<1>3. Top \in Context /\ Child(Parent) \in Context
  BY <1>2 DEF Branch, Good
<1>4. PICK top, side : top = Top /\ side = Child(Parent)
  OBVIOUS
<1>5. CASE Inner.kind = "default"
  <2>1. last = <<top>> /\ full = FALSE
    BY <1>4, <1>5 DEF Ending
  <2>2. last \in Seq(Context) /\ Len(last) = 1 /\ last[1] = Top
    BY <1>3, <1>4, <2>1
  <2>3. \A k \in 1..Len(last) : Good(last[k]) /\ Branch(last[k], Parent)
    BY <1>2, <2>2 DEF Branch
  <2>4. Parked(Inner) = n
    BY <1>5 DEF Parked
  <2>5. PICK p, q, fr, parent : p = Parked(Inner) /\ q = n /\ fr = Inner /\ parent = Parent
    OBVIOUS
  <2>6. p = q /\ p \in Nat /\ q \in Nat /\ p + Len(last) = q + 1
    BY <1>1, <2>2, <2>4, <2>5
  <2>7. fr.kind # "case" /\ fr.labels \in Seq(LabelList)
    BY <1>1, <1>5, <2>5
  <2>10. full \in BOOLEAN
    BY <2>1
  <2>11. Len(last) # 2 /\ Len(last) \in {1, 2} /\ Len(last) = 1 /\ p = q
    BY <2>2, <2>6
  <2>12. \A k \in 1..Len(last) : Good(last[k]) /\ Branch(last[k], parent)
    BY <2>3, <2>5
  <2>8. EndedBranches(last, full, fr, parent, p, q)
    BY <2>1, <2>2, <2>6, <2>7, <2>10, <2>11, <2>12 DEF EndedBranches
  <2>9. QED BY <2>5, <2>8
<1>6. CASE Inner.kind = "case"
  <2>1. last = <<top, side>> /\ full \in BOOLEAN
    BY <1>1, <1>4, <1>6 DEF Ending, FrameType
  <2>2. last \in Seq(Context) /\ Len(last) = 2 /\ last[1] = Top /\ last[2] = Child(Parent)
    BY <1>3, <1>4, <2>1
  <2>3. \A k \in 1..Len(last) : Good(last[k]) /\ Branch(last[k], Parent)
    <3> TAKE k \in 1..Len(last)
    <3>1. k = 1 \/ k = 2
      BY <2>2
    <3>2. QED BY <1>2, <2>2, <3>1 DEF Branch
  <2>4. Parked(Inner) = n - 1 /\ n >= 1
    BY <1>1, <1>6, EmptySeq DEF Parked, FrameGood
  <2>5. PICK p, q, fr, parent : p = Parked(Inner) /\ q = n /\ fr = Inner /\ parent = Parent
    OBVIOUS
  <2>6. p + 1 = q /\ p \in Nat /\ q \in Nat /\ p + Len(last) = q + 1
    BY <1>1, <2>2, <2>4, <2>5
  <2>7. fr.kind # "default" /\ fr.labels \in Seq(LabelList)
    BY <1>1, <1>6, <2>5
  <2>8. EndedBranches(last, full, fr, parent, p, q)
    BY <2>1, <2>2, <2>3, <2>5, <2>6, <2>7 DEF EndedBranches
  <2>9. QED BY <2>5, <2>8
<1>7. QED BY <1>5, <1>6 DEF Ending

(* Every run a case merges, but one a full case does not expect, has left  *)
(* what its branch left.                                                   *)
LEMMA CaseRuns ==
  ASSUME Known, LikeIsEquality, frames # <<>>, NEW last, NEW full, Ending(last, full),
         NEW branches, branches = Merging(last), NEW other, full => other \in Val,
         NEW ctx, ctx = MergeCase(Parent, Inner.sel, Inner.labels, branches, full, other)
  PROVE  /\ Ways(ctx)
         /\ \A s \in Sigma : (full /\ Alike(Inner, s) = {}) \/ Leaves(ctx, s) = Leaves(Ended(s), s)
<1>1. PICK fr, parent, n, p : fr = Inner /\ parent = Parent /\ n = Len(fr.labels) /\ p = Parked(fr)
  OBVIOUS
<1>2. /\ n \in Nat /\ fr.labels \in Seq(LabelList) /\ full \in BOOLEAN
      /\ last \in Seq(Context) /\ Len(last) \in {1, 2} /\ last[1] = Top
      /\ Len(last) = 2 => last[2] = Child(Parent)
      /\ \A k \in 1..Len(last) : Good(last[k]) /\ Branch(last[k], Parent)
      /\ p \in Nat /\ p + Len(last) = n + 1
      /\ fr.kind = "default" => Len(last) = 1 /\ full = FALSE /\ p = n
      /\ fr.kind = "case" => Len(last) = 2 /\ p + 1 = n
  <2>1. EndedBranches(last, full, fr, parent, p, n)
    BY <1>1, EndingIs
  <2>2. QED BY <1>1, <2>1 DEF EndedBranches
<1>3. fr.kind \in {"case", "default"}
  BY <1>1 DEF Ending
<1>4. FrameGood(fr) /\ fr.base \in Nat /\ fr.base + p = Len(contextStack)
  BY <1>1, InnerGood DEF Known, IInv
<1>5. /\ branches \in Seq(Context) /\ Len(branches) = n + 1 /\ DOMAIN branches = 1..n + 1
      /\ \A k \in 1..p : branches[k] = contextStack[fr.base + k]
      /\ \A k \in 1..Len(last) : branches[p + k] = last[k]
      /\ \A k \in 1..n + 1 : k \in 1..p \/ (k - p \in 1..Len(last) /\ p + (k - p) = k)
  <2>1. /\ Merging(last) \in Seq(Context)
        /\ Len(Merging(last)) = Parked(Inner) + Len(last)
        /\ DOMAIN Merging(last) = 1..Parked(Inner) + Len(last)
        /\ \A k \in 1..Parked(Inner) : Merging(last)[k] = contextStack[Inner.base + k]
        /\ \A k \in 1..Len(last) : Merging(last)[Parked(Inner) + k] = last[k]
        /\ \A k \in DOMAIN Merging(last) :
             \/ k \in 1..Parked(Inner)
             \/ k - Parked(Inner) \in 1..Len(last) /\ Parked(Inner) + (k - Parked(Inner)) = k
    BY <1>1, <1>2, MergingShape DEF Known
  <2>2. QED BY <1>1, <1>2, <2>1
<1>6. Good(parent) /\ Ways(parent)
      /\ \A i \in fr.base + 1..Len(contextStack) : Branch(contextStack[i], parent)
  BY <1>1, BranchesOf
<1>7. BranchesAre(branches, parent)
  <2> SUFFICES ASSUME NEW k \in DOMAIN branches
               PROVE  Branch(branches[k], parent)
    BY DEF BranchesAre
  <2>1. CASE k \in 1..p
    <3>1. fr.base + k \in fr.base + 1..Len(contextStack)
      BY <1>2, <1>4, <2>1
    <3>2. QED BY <1>5, <1>6, <2>1, <3>1
  <2>2. CASE k \notin 1..p
    <3>1. PICK i \in 1..Len(last) : p + i = k
      BY <1>5, <2>2
    <3>2. QED BY <1>1, <1>2, <1>5, <3>1
  <2>3. QED BY <2>1, <2>2
<1>8. PICK sel, labels : sel = fr.sel /\ labels = fr.labels
  OBVIOUS
<1>9. Ways(ctx) /\ CaseLeaves(ctx, sel, labels, full, branches)
  <2>1. ctx = MergeCase(parent, sel, labels, branches, full, other) /\ labels \in Seq(LabelList)
        /\ Len(branches) = Len(labels) + 1
    BY <1>1, <1>2, <1>5, <1>8
  <2>2. full \in BOOLEAN /\ branches \in Seq(Context) /\ (full => other \in Val)
    BY <1>2, <1>5
  <2>3. QED BY <1>6, <1>7, <2>1, <2>2, MergedCase
<1>10. ASSUME NEW s \in Sigma, ~(full /\ Alike(fr, s) = {})
       PROVE  Leaves(ctx, s) = Leaves(Ended(s), s)
  <2>0. fr.sel \in Expr
    BY <1>3, <1>4 DEF FrameGood
  <2>1. Matches(sel, labels, s) = Alike(fr, s) /\ FirstMatch(sel, labels, s) = FirstAlike(fr, s)
    BY <1>2, <1>8, <2>0, AlikeMatches
  <2>2. n = Len(labels)
    BY <1>1, <1>8
  <2>3. CASE Alike(fr, s) # {}
    <3>1. PICK k : k = FirstAlike(fr, s)
      OBVIOUS
    <3>2. k \in 1..n
      BY <1>1, <1>2, <2>3, <3>1, FirstAlikeIs
    <3>3. k \in DOMAIN branches /\ Picks(sel, labels, full, s, k)
      BY <1>2, <1>5, <2>1, <2>3, <3>1, <3>2 DEF Picks
    <3>4. Leaves(ctx, s) = Leaves(branches[k], s)
      BY <1>9, <3>3 DEF CaseLeaves
    <3>5. CASE Selected(fr, s)
      <4>1. fr.kind = "case" /\ k = n
        BY <1>1, <1>3, <2>3, <3>1, <3>5 DEF Selected
      <4>2. p + 1 = n /\ 1 \in 1..Len(last)
        BY <1>2, <4>1
      <4>3. branches[k] = Top
        BY <1>2, <1>5, <4>1, <4>2
      <4>4. QED BY <1>1, <3>4, <3>5, <4>3 DEF Ended
    <3>6. CASE ~Selected(fr, s)
      <4>1. k \in 1..p
        BY <1>1, <1>3, <1>4, <2>3, <3>1, <3>6, ParkedIn
      <4>2. branches[k] = contextStack[fr.base + k]
        BY <1>5, <4>1
      <4>3. Ended(s) = contextStack[fr.base + k]
        BY <1>1, <1>3, <2>3, <3>1, <3>6 DEF Ended, Beside
      <4>4. QED BY <3>4, <4>2, <4>3
    <3>7. QED BY <3>5, <3>6
  <2>4. CASE Alike(fr, s) = {}
    <3>1. full = FALSE
      BY <1>2, <1>10, <2>4
    <3>2. PICK k : k = n + 1
      OBVIOUS
    <3>3. k \in DOMAIN branches /\ Picks(sel, labels, full, s, k)
      BY <1>2, <1>5, <2>1, <2>2, <2>4, <3>1, <3>2 DEF Picks
    <3>4. Leaves(ctx, s) = Leaves(branches[k], s)
      BY <1>9, <3>3 DEF CaseLeaves
    <3>5. CASE fr.kind = "default"
      <4>1. Selected(fr, s)
        BY <2>4, <3>5 DEF Selected
      <4>2. branches[k] = Top
        BY <1>2, <1>5, <3>2, <3>5
      <4>3. QED BY <1>1, <3>4, <4>1, <4>2 DEF Ended
    <3>6. CASE fr.kind = "case"
      <4>1. ~Selected(fr, s)
        BY <2>4, <3>6 DEF Selected
      <4>2. Ended(s) = Parent
        BY <1>1, <2>4, <3>6, <4>1 DEF Ended, Beside
      <4>3. p + 2 = k /\ 2 \in 1..Len(last) /\ last[2] = Child(Parent)
        BY <1>2, <3>2, <3>6
      <4>4. branches[k] = Child(parent)
        BY <1>1, <1>5, <4>3
      <4>5. Child(parent).sched = parent.sched
        BY <1>6, ChildShape DEF Good
      <4>6. Leaves(branches[k], s) = Leaves(parent, s)
        BY <4>4, <4>5, SameSchedule
      <4>7. QED BY <1>1, <3>4, <4>2, <4>6
    <3>7. QED BY <1>3, <3>5, <3>6
  <2>5. QED BY <2>3, <2>4
<1>11. QED BY <1>1, <1>2, <1>9, <1>10

LEMMA RefinesCaseEnd ==
  ASSUME Known, LikeIsEquality, frames # <<>>, NEW last, NEW full, Ending(last, full),
         EndCase(last, full)
  PROVE  (Process!EndCase \/ Process!EndFullCase) /\ ViewsInv'
<1>1. /\ full \in BOOLEAN /\ last \in Seq(Context) /\ Parked(Inner) \in Nat
      /\ \A k \in 1..Len(last) : Good(last[k]) /\ Branch(last[k], Parent)
      /\ Parked(Inner) + Len(last) = Len(Inner.labels) + 1
  BY EndingIs DEF EndedBranches
<1>2. PICK branches : branches = Merging(last)
  OBVIOUS
<1>3. \/ \E other : /\ full => other \in Val
                    /\ Closes(MergeCase(Parent, Inner.sel, Inner.labels, branches, full, other),
                              BranchOuts(branches), CaseFlags(branches))
      \/ ~CaseAssertion(branches)
  BY <1>1, <1>2, EndCaseEffect DEF Known
<1>4. CaseAssertion(branches)
  <2>1. /\ branches \in Seq(Context)
        /\ DOMAIN branches = 1..Parked(Inner) + Len(last)
        /\ \A k \in 1..Parked(Inner) : branches[k] = contextStack[Inner.base + k]
        /\ \A k \in 1..Len(last) : branches[Parked(Inner) + k] = last[k]
        /\ \A k \in DOMAIN branches :
             \/ k \in 1..Parked(Inner)
             \/ k - Parked(Inner) \in 1..Len(last) /\ Parked(Inner) + (k - Parked(Inner)) = k
    BY <1>1, <1>2, MergingShape DEF Known
  <2>2. Inner.base \in Nat /\ Inner.base + Parked(Inner) = Len(contextStack)
    BY InnerGood DEF Known, IInv
  <2>3. \A k \in DOMAIN branches : FlagsFixed(branches[k])
    <3> TAKE k \in DOMAIN branches
    <3>1. CASE k \in 1..Parked(Inner)
      <4>1. Inner.base + k \in Inner.base + 1..Len(contextStack)
        BY <1>1, <2>2, <3>1
      <4>2. QED BY <2>1, <3>1, <4>1, BranchesOf DEF Branch
    <3>2. CASE k \notin 1..Parked(Inner)
      <4>1. PICK i \in 1..Len(last) : Parked(Inner) + i = k
        BY <2>1, <3>2
      <4>2. QED BY <1>1, <2>1, <4>1 DEF Branch
    <3>3. QED BY <3>1, <3>2
  <2>4. QED BY <2>1, <2>3, FixedCase
<1>5. PICK other : /\ full => other \in Val
                   /\ Closes(MergeCase(Parent, Inner.sel, Inner.labels, branches, full, other),
                             BranchOuts(branches), CaseFlags(branches))
  BY <1>3, <1>4
<1>6. PICK ctx, names, nb :
        /\ ctx = MergeCase(Parent, Inner.sel, Inner.labels, branches, full, other)
        /\ names = BranchOuts(branches) /\ nb = CaseFlags(branches)
  OBVIOUS
<1>7. Closes(ctx, names, nb)
  BY <1>5, <1>6
<1>8. /\ Ways(ctx)
      /\ \A s \in Sigma : (full /\ Alike(Inner, s) = {}) \/ Leaves(ctx, s) = Leaves(Ended(s), s)
  BY <1>2, <1>5, <1>6, CaseRuns
<1>9. PICK m, live : m = Len(frames) - 1 /\ live = LiveIn(frames, m)
  OBVIOUS
<1>10. Pops /\ ResultNow' = ResultNow
  BY <1>7, ClosesPath DEF Known
<1>11. PathNow # <<>> /\ Innermost = FrameView(Inner, live)
  BY <1>9, InnermostIs DEF Known
<1>12. NestedIn("case")
  BY <1>11 DEF NestedIn, FrameView, Ending
<1>13. ViewsInv'
  BY <1>7, <1>8, ViewsClose DEF Known
<1>14. CASE ~full
  <2>1. SameValues
    BY <1>7, <1>8, <1>9, <1>14, ClosesSame
  <2>2. ~Innermost.full
    <3>1. Innermost.full = Inner.full
      BY <1>11 DEF FrameView
    <3>2. Inner.kind = "default" => ~Inner.full
      BY InnerGood DEF Known, IInv, FrameGood
    <3>3. QED BY <1>14, <3>1, <3>2 DEF Ending
  <2>3. QED BY <1>10, <1>12, <1>13, <2>1, <2>2, StepEndCase
<1>15. CASE full
  <2>1. EnvNow' \in [Sigma -> Store] /\ NxtNow' \in [Sigma -> Store]
    BY <1>7, <1>8, NextTypes
  <2>2. Inner.kind = "case" /\ Innermost.full
    BY <1>11, <1>15 DEF Ending, FrameView
  <2>3. Innermost.rest = {s \in live : Alike(Inner, s) = {}}
    BY <1>11, <2>2 DEF FrameView, Waiting
  <2>4. ASSUME NEW s \in Sigma \ Innermost.rest
        PROVE  EnvNow'[s] = EnvNow[s] /\ NxtNow'[s] = NxtNow[s]
    <3>1. CASE ~ActiveIn(frames, m, s)
      BY <1>7, <1>8, <1>9, <3>1, ClosesRun
    <3>2. CASE ActiveIn(frames, m, s)
      <4>1. s \in live
        BY <1>9, <3>2 DEF LiveIn
      <4>2. Leaves(ctx, s) = Leaves(Ended(s), s)
        BY <1>8, <2>3, <2>4, <4>1
      <4>3. PICK e : e = Ended(s)
        OBVIOUS
      <4>4. Reads(ctx, s) = Reads(e, s)
        BY <4>2, <4>3, LeavesReads
      <4>5. /\ EnvNow[s] = Reads(e, s) /\ NxtNow[s] = Leaves(e, s)
            /\ EnvNow'[s] = Reads(ctx, s) /\ NxtNow'[s] = Leaves(ctx, s)
        BY <1>7, <1>8, <1>9, <3>2, <4>3, ClosesRun
      <4>6. QED BY <4>2, <4>3, <4>4, <4>5
    <3>3. QED BY <3>1, <3>2
  <2>5. QED BY <1>10, <1>12, <1>13, <2>1, <2>2, <2>4, StepEndFullCase
<1>16. QED BY <1>1, <1>14, <1>15

-----------------------------------------------------------------------------
(* Statements that stay in their context.                                  *)

LEMMA TopWays ==
  ASSUME Known
  PROVE  Good(Top) /\ Ways(Top) /\ Top.locals \subseteq Local
<1>1. Good(Top) /\ Top = contexts[Len(frames) + 1] /\ Len(frames) \in Nat
  BY TopGood, Depths DEF Known, IInv
<1>2. Len(frames) + 1 \in 1..Len(frames) + 1
  BY <1>1
<1>3. QED BY <1>1, <1>2 DEF Known, ViewsInv

LEMMA RefinesAssignment ==
  ASSUME Known, OneWay, FixedIndices, NEW a \in Assigns, Assignment(a)
  PROVE  Process!Assignment(a) /\ ViewsInv'
<1>1. PICK top, ctx, names, nb :
        /\ top = Top /\ ctx = Restored(Top, a) /\ names = Targets(a)
        /\ nb = [v \in Targets(a) |-> a.nb]
  OBVIOUS
<1>2. Good(top) /\ Ways(top) /\ top.locals \subseteq Local
  BY <1>1, TopWays
<1>3. Stays(ctx, names, nb) /\ ctx.locals = top.locals /\ a.nb \in BOOLEAN
  BY <1>1, AssignmentEffect DEF Known
<1>4. \A v \in Targets(a) : a.nb = Way[v]
  BY DEF OneWay
<1>5. /\ Ways(ctx)
      /\ \A v \in Var \ Targets(a) : ctx.sched[v] = top.sched[v]
      /\ \A s \in Sigma : Leaves(ctx, s) = AllWritten(a, Reads(top, s), Leaves(top, s))
  BY <1>1, <1>2, <1>4, AssignedViews
<1>6. exported = None
  BY DEF Assignment, CanVisit, Running
<1>7. Writes(ctx, a)
  BY <1>1, <1>3, <1>4, <1>5, <1>6 DEF Writes, Stays
<1>8. Process!Assignment(a)
  BY <1>3, <1>7, WritesStep
<1>9. /\ ctx.outs = [ctx EXCEPT !.locals = Top.locals].outs
      /\ ctx.sched = [ctx EXCEPT !.locals = Top.locals].sched
  OBVIOUS
<1>10. ViewsInv'
  BY <1>1, <1>2, <1>3, <1>5, <1>9, ViewsStay DEF Known
<1>11. QED BY <1>8, <1>10

LEMMA RefinesDecl ==
  ASSUME Known, OneWay, NEW d \in Decls, VariableDecl(d)
  PROVE  /\ \/ d.init # None /\ Process!Assignment(Initialiser(d))
            \/ SameValues /\ PathNow' = PathNow
         /\ ViewsInv'
<1>1. PICK top, ctx, names, nb :
        /\ top = Top /\ ctx = Declared(Top, d) /\ names = Initialised(d)
        /\ nb = [v \in Initialised(d) |-> FALSE]
  OBVIOUS
<1>2. Good(top) /\ Ways(top) /\ top.locals \subseteq Local
  BY <1>1, TopWays
<1>3. Stays(ctx, names, nb) /\ ctx.locals = top.locals \cup {d.var} /\ d.var \in Local
  BY <1>1, VariableDeclEffect DEF Known
<1>4. d.init # None => Way[d.var] = FALSE
  BY DEF OneWay
<1>5. /\ Ways(ctx)
      /\ \A v \in Var \ {d.var} : ctx.sched[v] = top.sched[v]
      /\ d.init = None => ctx.sched = top.sched
      /\ d.init # None => \A s \in Sigma :
           Leaves(ctx, s) = [Leaves(top, s) EXCEPT ![d.var] = d.init[Reads(top, s)]]
  <2>1. DeclaredPut(ctx, top, d)
    BY <1>1, <1>2, <1>4, DeclaredViews
  <2>2. QED BY <2>1 DEF DeclaredPut
<1>6. exported = None
  BY DEF VariableDecl, CanVisit, Running
<1>7. /\ contexts' = [contexts EXCEPT ![Len(contexts)] = ctx]
      /\ UNCHANGED <<contextStack, frames, exported>>
  BY <1>3 DEF Stays
<1>8. ViewsInv'
  <2>1. /\ ctx.outs = [ctx EXCEPT !.locals = Top.locals].outs
        /\ ctx.sched = [ctx EXCEPT !.locals = Top.locals].sched
    OBVIOUS
  <2>2. ctx.locals \subseteq Local
    BY <1>2, <1>3
  <2>3. QED BY <1>3, <1>5, <2>1, <2>2, ViewsStay DEF Known
<1>9. CASE d.init # None
  <2>1. PICK a : a = Initialiser(d)
    OBVIOUS
  <2>2. /\ a.nb = FALSE /\ Targets(a) = {d.var}
        /\ \A read, store : AllWritten(a, read, store) = [store EXCEPT ![d.var] = d.init[read]]
    BY <2>1, InitialiserIs
  <2>3. \A v \in Targets(a) : a.nb = Way[v]
    BY <1>4, <1>9, <2>2
  <2>4. \A s \in Sigma : Leaves(ctx, s) = AllWritten(a, Reads(top, s), Leaves(top, s))
    BY <1>5, <1>9, <2>2
  <2>5. Writes(ctx, a)
    BY <1>1, <1>5, <1>6, <1>7, <2>2, <2>3, <2>4 DEF Writes
  <2>6. a.nb \in BOOLEAN
    BY <2>2
  <2>7. Process!Assignment(a)
    BY <2>5, <2>6, WritesStep
  <2>8. QED BY <1>8, <1>9, <2>1, <2>7
<1>10. CASE d.init = None
  <2>1. \A s \in Sigma : Ways(Holder(s)') /\ Holder(s)'.sched = Holder(s).sched
    <3> TAKE s \in Sigma
    <3>1. CASE ActiveIn(frames, Len(frames), s)
      <4>1. Holder(s)' = ctx
        BY <1>7, <3>1, HolderStays DEF Known
      <4>2. Holder(s) = Top
        BY <3>1, LiveHolder DEF Known
      <4>3. QED BY <1>1, <1>5, <1>10, <4>1, <4>2
    <3>2. CASE ~ActiveIn(frames, Len(frames), s)
      <4>1. Holder(s)' = Holder(s)
        BY <1>7, <3>2, HolderStays DEF Known
      <4>2. PICK h : h = Holder(s)
        OBVIOUS
      <4>3. Ways(h)
        BY <4>2, HolderWays DEF Known
      <4>4. QED BY <4>1, <4>2, <4>3
    <3>3. QED BY <3>1, <3>2
  <2>2. SameValues
    BY <1>7, <2>1, ValuesSame
  <2>3. PathNow' = PathNow
    BY <1>7, NestingStays
  <2>4. QED BY <1>8, <2>2, <2>3
<1>11. QED BY <1>9, <1>10

LEMMA RefinesCaseEnds ==
  ASSUME Known, LikeIsEquality, CaseEnds
  PROVE  (Process!EndCase \/ Process!EndFullCase) /\ ViewsInv'
<1>1. CASE CaseEndAfterDefault
  <2>1. PICK last, full : last = <<Top>> /\ full = FALSE
    OBVIOUS
  <2>2. frames # <<>> /\ Ending(last, full)
    BY <1>1, <2>1 DEF CaseEndAfterDefault, In, Ending
  <2>3. EndCase(last, full)
    BY <1>1, <2>1 DEF CaseEndAfterDefault
  <2>4. QED BY <2>2, <2>3, RefinesCaseEnd
<1>2. CASE CaseEndNoDefault
  <2>1. PICK last, full : last = <<Top, Child(Parent)>> /\ full = Inner.full
    OBVIOUS
  <2>2. frames # <<>> /\ Ending(last, full)
    BY <1>2, <2>1 DEF CaseEndNoDefault, In, Ending
  <2>3. EndCase(last, full)
    BY <1>2, <2>1 DEF CaseEndNoDefault
  <2>4. QED BY <2>2, <2>3, RefinesCaseEnd
<1>3. QED BY <1>1, <1>2 DEF CaseEnds

-----------------------------------------------------------------------------
(* Steps that leave the contexts and the open statements alone.            *)

LEMMA Still ==
  ASSUME UNCHANGED <<contexts, contextStack, frames>>
  PROVE  /\ EnvNow' = EnvNow /\ NxtNow' = NxtNow /\ PathNow' = PathNow
         /\ ViewsInv => ViewsInv'
<1>1. \A s \in Sigma : Holder(s)' = Holder(s)
  BY HolderNow
<1>2. EnvNow' = EnvNow /\ NxtNow' = NxtNow
  BY <1>1 DEF EnvNow, NxtNow
<1>3. PathNow' = PathNow
  BY NestingStays
<1>4. ViewsInv => ViewsInv'
  BY DEF ViewsInv
<1>5. QED BY <1>2, <1>3, <1>4

LEMMA RefinesFinish ==
  ASSUME Known, Finish
  PROVE  Process!Finish /\ ViewsInv'
<1>1. /\ frames = <<>> /\ exported = None
      /\ exported' = [v \in Var |-> IF v \in Outs(Top) THEN Top.outs[v].id ELSE None]
      /\ UNCHANGED <<contexts, contextStack, frames>>
  BY DEF Finish, Running
<1>2. /\ EnvNow' = EnvNow /\ NxtNow' = NxtNow /\ PathNow' = PathNow /\ ViewsInv'
  BY <1>1, Still DEF Known
<1>3. PICK top, out : top = Top /\ out = exported'
  OBVIOUS
<1>4. Good(top) /\ top \in Context
  BY <1>3, TopWays DEF Good
<1>5. Len(frames) = 0 /\ top = contexts[1]
  BY <1>1, <1>3, Depths DEF Known, IInv
<1>6. ASSUME NEW v \in Var
      PROVE  out[v] = top.sched[v]
  <2>1. CASE v \in Outs(top)
    BY <1>1, <1>3, <1>4, <2>1 DEF Good
  <2>2. CASE v \notin Outs(top)
    BY <1>1, <1>3, <1>5, <2>2 DEF Known, ViewsInv
  <2>3. QED BY <2>1, <2>2
<1>7. out # None
  <2>1. out \in [Var -> Expr \cup {None}]
    <3>1. \A v \in Var : top.sched[v] \in Expr \cup {None}
      BY <1>4 DEF Context
    <3>2. out = [v \in Var |-> out[v]]
      BY <1>1, <1>3
    <3>3. QED BY <1>6, <3>1, <3>2
  <2>2. QED BY <2>1, NoneIsNothing
<1>8. ASSUME NEW s \in Sigma
      PROVE  NxtNow[s] = [v \in Var |-> IF out[v] = None THEN s[v] ELSE out[v][s]]
  <2>1. ActiveIn(frames, Len(frames), s)
    BY <1>5 DEF ActiveIn
  <2>2. Holder(s) = top
    BY <1>3, <2>1, LiveHolder DEF Known
  <2>3. NxtNow[s] = Leaves(top, s)
    BY <2>2, NowAt DEF Known
  <2>4. \A v \in Var : Value(top, v)[s] = IF out[v] = None THEN s[v] ELSE out[v][s]
    BY <1>6 DEF Value, Input
  <2>5. QED BY <2>3, <2>4 DEF Leaves
<1>9. ResultNow' = [s \in Sigma |-> [v \in Var |-> IF out[v] = None THEN s[v] ELSE out[v][s]]]
  BY <1>3, <1>7 DEF ResultNow
<1>10. ResultNow' = NxtNow
  <2>1. NxtNow = [s \in Sigma |-> NxtNow[s]]
    BY DEF NxtNow
  <2>2. QED BY <1>8, <1>9, <2>1
<1>11. ResultNow = None
  BY <1>1, NoResult
<1>12. PathNow = <<>>
  BY <1>1, <1>5 DEF PathNow
<1>13. QED BY <1>2, <1>10, <1>11, <1>12, StepFinish

-----------------------------------------------------------------------------
(* Every step of the visitor is one of the process, or none.               *)

Stutters ==
  EnvNow' = EnvNow /\ NxtNow' = NxtNow /\ PathNow' = PathNow /\ ResultNow' = ResultNow

LEMMA StutterSame ==
  ASSUME Stutters
  PROVE  UNCHANGED Process!procVars
BY DEF Stutters, Process!procVars, EnvNow, NxtNow, PathNow, ResultNow

LEMMA StructureRefines ==
  ASSUME SupportedTexts, Known, Structure
  PROVE  (Process!ProcNext \/ Stutters) /\ ViewsInv'
<1>1. CASE \E c \in Tests : Conditional(c)
  BY <1>1, RefinesIf DEF Process!ProcNext
<1>2. CASE ConditionalElse
  BY <1>2, RefinesElse DEF Process!ProcNext
<1>3. CASE ConditionalEnd
  BY <1>3, RefinesEndIf DEF Process!ProcNext
<1>4. CASE \E f \in Selectors, g \in Labels, full \in FullCases : CaseItem(f, g, full)
  BY <1>4, FullCasesAreBoolean, RefinesCase DEF Process!ProcNext
<1>5. CASE \E f \in Selectors : CaseWithoutItems(f)
  BY <1>5, RefinesCaseOfDefault DEF Process!ProcNext
<1>6. CASE \E g \in Labels : CaseNextItem(g)
  BY <1>6, RefinesNextItem DEF Process!ProcNext
<1>7. CASE CaseDefault
  BY <1>7, RefinesDefault DEF Process!ProcNext
<1>8. CASE CaseEnds
  BY <1>8, RefinesCaseEnds DEF Process!ProcNext, SupportedTexts
<1>9. CASE BlockStatement
  BY <1>9, RefinesBlock DEF Process!ProcNext
<1>10. CASE BlockEnd
  BY <1>10, RefinesEndBlock DEF Process!ProcNext
<1>11. CASE ForLoopUnroll \/ UNCHANGED vars
  <2>1. UNCHANGED <<contexts, contextStack, frames, exported>>
    BY <1>11 DEF ForLoopUnroll, vars
  <2>2. QED BY <2>1, Still, NoResult DEF Stutters, Known
<1>12. CASE Finish
  BY <1>12, RefinesFinish DEF Process!ProcNext
<1>13. Stopped => UNCHANGED vars
  BY DEF Stopped
<1>14. QED
  BY <1>1, <1>2, <1>3, <1>4, <1>5, <1>6, <1>7, <1>8, <1>9, <1>10, <1>11, <1>12, <1>13
  DEF Structure, CaseEnds

LEMMA NextRefines ==
  ASSUME SupportedTexts, Known, [Next]_vars
  PROVE  (Process!ProcNext \/ Stutters) /\ ViewsInv'
<1>1. CASE \E a \in Assigns : Assignment(a)
  <2>1. PICK a \in Assigns : Assignment(a)
    BY <1>1
  <2>2. Process!Assignment(a) /\ ViewsInv'
    BY <2>1, RefinesAssignment DEF SupportedTexts
  <2>3. QED BY <2>2 DEF Process!ProcNext
<1>2. CASE \E d \in Decls : VariableDecl(d)
  <2>1. PICK d \in Decls : VariableDecl(d)
    BY <1>2
  <2>2. /\ \/ d.init # None /\ Process!Assignment(Initialiser(d))
           \/ SameValues /\ PathNow' = PathNow
        /\ ViewsInv'
    BY <2>1, RefinesDecl DEF SupportedTexts
  <2>3. CASE d.init # None /\ Process!Assignment(Initialiser(d))
    <3>1. Initialiser(d) \in Assigns \cup
             {[nb |-> FALSE, lhs |-> <<[var |-> e.var, rhs |-> e.init, idx |-> None]>>] :
                e \in {e2 \in Decls : e2.init # None}}
      BY <2>3 DEF Initialiser
    <3>2. QED BY <2>2, <2>3, <3>1 DEF Process!ProcNext
  <2>4. QED BY <2>2, <2>3 DEF Stutters, SameValues
<1>3. CASE Structure
  BY <1>3, StructureRefines
<1>4. CASE UNCHANGED vars
  BY <1>4, Still, NoResult DEF Stutters, Known, vars
<1>5. QED BY <1>1, <1>2, <1>3, <1>4 DEF Next

LEMMA InitRefines ==
  ASSUME Init
  PROVE  Process!ProcInit /\ Known
<1>1. IInv /\ BasesGrow /\ LocalsInv /\ FlagsInv
  BY InitEstablishes, LocalsInit, FlagsInit
<1>2. /\ contexts[1] = RootContext /\ Len(frames) = 0 /\ frames = <<>>
      /\ contextStack = <<>> /\ Len(contextStack) = 0 /\ exported = None
  BY DEF Init
<1>3. /\ RootContext.cur = NoOuts /\ RootContext.sched = NoOuts
      /\ RootContext.locals = {} /\ \A v \in Var : NoOuts[v] = None
  BY DEF RootContext, NoOuts
<1>4. ViewsInv
  BY <1>2, <1>3 DEF ViewsInv, Ways
<1>5. ASSUME NEW s \in Sigma
      PROVE  EnvNow[s] = s /\ NxtNow[s] = s
  <2>1. s \in [Var -> Val]
    BY ValuationsAreStores DEF Store
  <2>2. ActiveIn(frames, Len(frames), s)
    BY <1>2 DEF ActiveIn
  <2>3. Top = contexts[1]
    BY <1>1, <1>2, Depths DEF IInv
  <2>4. Holder(s) = RootContext
    BY <1>1, <1>2, <2>2, <2>3, LiveHolder
  <2>5. EnvNow[s] = Reads(RootContext, s) /\ NxtNow[s] = Leaves(RootContext, s)
    BY <1>1, <1>4, <2>4, NowAt
  <2>6. \A v \in Var : Value(RootContext, v)[s] = s[v]
    BY <1>3 DEF Value, Input
  <2>7. s = [v \in Var |-> s[v]]
    BY <2>1
  <2>8. Reads(RootContext, s) = [v \in Var |-> s[v]] /\ Leaves(RootContext, s) = [v \in Var |-> s[v]]
    BY <2>6 DEF Reads, Leaves
  <2>9. QED BY <2>5, <2>7, <2>8
<1>6. EnvNow = [s \in Sigma |-> s] /\ NxtNow = [s \in Sigma |-> s]
  <2>1. EnvNow = [s \in Sigma |-> EnvNow[s]] /\ NxtNow = [s \in Sigma |-> NxtNow[s]]
    BY DEF EnvNow, NxtNow
  <2>2. QED BY <1>5, <2>1
<1>7. PathNow = <<>> /\ ResultNow = None
  BY <1>2, NoResult DEF PathNow
<1>8. Process!ProcInit
  BY <1>6, <1>7 DEF Process!ProcInit, EnvNow, NxtNow, PathNow, ResultNow
<1>9. QED BY <1>1, <1>4, <1>8 DEF Known

(* What the builder hands to the netlist is what the process computes:     *)
(* whatever the text nests, a step of the statement visitor is a step of   *)
(* the process, in the runs its branch is for, or none, and the outputs    *)
(* are what every run leaves behind.  For the texts of SupportedTexts:     *)
(* mixing = and <= on a name makes merge_case abort; casez and casex items *)
(* are lowered as equalities; and an index that reads what its statement   *)
(* schedules reads the scheduled value.                                    *)
THEOREM ProcessImplemented ==
  ASSUME SupportedTexts
  PROVE  Spec => ImplementsProcess
<1>1. Init => Process!ProcInit /\ Known
  BY InitRefines
<1>2. Known /\ [Next]_vars => [Process!ProcNext]_(Process!procVars) /\ Known'
  <2> SUFFICES ASSUME Known, [Next]_vars
               PROVE  [Process!ProcNext]_(Process!procVars) /\ Known'
    OBVIOUS
  <2>1. (Process!ProcNext \/ Stutters) /\ ViewsInv'
    BY NextRefines
  <2>2. IInv' /\ BasesGrow' /\ LocalsInv' /\ FlagsInv'
    BY NextKeepsIInv, LocalsNext, FlagsNext DEF Known, SupportedTexts
  <2>3. [Process!ProcNext]_(Process!procVars)
    BY <2>1, StutterSame
  <2>4. QED BY <2>1, <2>2, <2>3 DEF Known
<1>3. QED BY <1>1, <1>2, PTL DEF Spec, ImplementsProcess, Process!ProcSpec
=============================================================================

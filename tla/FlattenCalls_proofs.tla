------------------------- MODULE FlattenCalls_proofs -------------------------
(***************************************************************************)
(* Proofs about flatten_calls: whatever the subroutines are and however    *)
(* often they call one another, the graph stays a graph of its kind, every *)
(* call node is still to be flattened exactly once, and no node becomes    *)
(* its own operand.                                                        *)
(***************************************************************************)
EXTENDS FlattenCalls, FiniteSetTheorems, SequenceTheorems, WellFoundedInduction, TLAPS

-----------------------------------------------------------------------------
(* The inductive invariant.                                                *)

(* The calls there were are nodes, and the constants all graphs start with *)
(* are still there.                                                        *)
CallsAreNodes ==
  /\ calls \in Seq([id: Nat, sub: Sub])
  /\ \A k \in DOMAIN calls : calls[k].id \in DOMAIN nodes

StartsWithConstants ==
  \A i \in {ConstantZero, ConstantOne} :
    i \in DOMAIN nodes /\ nodes[i].op = "const" /\ nodes[i].ops = <<>>

FlatInv == TypeOK /\ CallsAreNodes /\ StartsWithConstants /\ CallsAreListed /\ Grounded(nodes)

-----------------------------------------------------------------------------
(* Sets of numbers, in order.                                              *)

LEMMA LeastNumber ==
  ASSUME NEW S \in SUBSET Nat, S # {}
  PROVE  \E k \in S : \A m \in S : k <= m
<1> DEFINE R == {pair \in Nat \X Nat : pair[1] < pair[2]}
<1>1. IsWellFoundedOn(R, Nat)
  BY NatLessThanWellFounded DEF OpToRel
<1> HIDE DEF R
<1>2. PICK k \in S : \A m \in S : ~(<<m, k>> \in R)
  BY <1>1, WFMin
<1>3. ASSUME NEW m \in S, m < k
      PROVE  FALSE
  <2>1. <<m, k>> \in Nat \X Nat
    OBVIOUS
  <2>2. <<m, k>> \in R
    BY <1>3, <2>1 DEF R
  <2>3. QED BY <1>2, <2>2
<1>4. QED BY <1>3

(* The number of members up to one of them is its place.                   *)
Place(S, i) == Cardinality({j \in S : j <= i})

LEMMA PlaceOf ==
  ASSUME NEW S \in SUBSET Nat, IsFiniteSet(S), NEW i \in S
  PROVE  /\ Place(S, i) \in 1..Cardinality(S)
         /\ \A l \in S : i < l => Place(S, i) < Place(S, l)
<1> DEFINE Upto(m) == {j \in S : j <= m}
<1>1. \A m \in S : IsFiniteSet(Upto(m)) /\ Cardinality(Upto(m)) \in Nat
                     /\ Cardinality(Upto(m)) <= Cardinality(S)
  <2>1. \A m \in S : Upto(m) \in SUBSET S
    OBVIOUS
  <2>2. QED BY <2>1, FS_Subset, FS_CardinalityType
<1>2. Cardinality(S) \in Nat
  BY FS_CardinalityType
<1>3. Upto(i) # {}
  OBVIOUS
<1>4. Cardinality(Upto(i)) # 0
  BY <1>1, <1>3, FS_EmptySet
<1>5. ASSUME NEW l \in S, i < l
      PROVE  Cardinality(Upto(i)) < Cardinality(Upto(l))
  <2>1. Upto(i) \cup {l} \in SUBSET Upto(l) /\ l \notin Upto(i)
    <3>1. \A j \in S : j <= i => j <= l
      BY <1>5
    <3>2. ~(l <= i)
      BY <1>5
    <3>3. \A j \in Upto(i) \cup {l} : j \in S /\ j <= l
      BY <1>5, <3>1
    <3>4. QED BY <3>2, <3>3
  <2>2. Cardinality(Upto(i) \cup {l}) = Cardinality(Upto(i)) + 1
    BY <1>1, <2>1, FS_AddElement
  <2>3. Cardinality(Upto(i) \cup {l}) <= Cardinality(Upto(l))
    BY <1>1, <1>5, <2>1, FS_Subset
  <2>4. QED BY <1>1, <1>5, <2>2, <2>3
<1>6. QED BY <1>1, <1>2, <1>4, <1>5 DEF Place

(* The sequence lists the members, each once, the smaller before the       *)
(* greater.                                                                *)
Lists(q, S) ==
  /\ q \in Seq(S) /\ Len(q) \in Nat /\ DOMAIN q = 1..Len(q)
  /\ \A k \in DOMAIN q : q[k] \in S
  /\ \A i \in S : \E k \in DOMAIN q : q[k] = i
  /\ \A k, l \in DOMAIN q : q[k] = q[l] => k = l

LEMMA Sorted ==
  ASSUME NEW S \in SUBSET Nat, IsFiniteSet(S), NEW q, q = InOrder[S]
  PROVE  /\ Lists(q, S)
         /\ \A k, l \in DOMAIN q : q[k] < q[l] => k < l
<1>1. PICK n : n = Cardinality(S)
  OBVIOUS
<1>2. n \in Nat
  BY <1>1, FS_CardinalityType
<1>3. q = [k \in 1..n |-> CHOOSE i \in S : Place(S, i) = k]
  BY <1>1 DEF InOrder, Place
<1> DEFINE place == [i \in S |-> Place(S, i)]
<1>4. \A i \in S : place[i] \in 1..n /\ \A l \in S : i < l => place[i] < place[l]
  BY <1>1, PlaceOf
<1>5. place \in [S -> 1..n]
  BY <1>4
<1>6. \A i, l \in S : place[i] = place[l] => i = l
  <2>1. SUFFICES ASSUME NEW i \in S, NEW l \in S, place[i] = place[l], i # l
                 PROVE  FALSE
    OBVIOUS
  <2>2. i < l \/ l < i
    BY <2>1
  <2>3. place[i] < place[l] \/ place[l] < place[i]
    BY <1>4, <2>2
  <2>4. place[i] \in Nat /\ place[l] \in Nat
    BY <1>4
  <2>5. QED BY <2>1, <2>3, <2>4
<1>7. \A k \in 1..n : \E i \in S : place[i] = k
  <2>1. place \in Injection(S, 1..n)
    BY <1>5, <1>6 DEF Injection, IsInjective
  <2>2. IsFiniteSet(1..n) /\ Cardinality(1..n) = n
    BY <1>2, FS_Interval
  <2>3. place \in Surjection(S, 1..n)
    BY <1>1, <2>1, <2>2, FS_Injection
  <2>4. QED BY <2>3 DEF Surjection
<1>8. \A k \in 1..n : q[k] \in S /\ place[q[k]] = k
  <2>1. SUFFICES ASSUME NEW k \in 1..n
                 PROVE  q[k] \in S /\ place[q[k]] = k
    OBVIOUS
  <2>2. \E i \in S : Place(S, i) = k
    BY <1>7
  <2>3. q[k] = CHOOSE i \in S : Place(S, i) = k
    BY <1>3
  <2>4. q[k] \in S /\ Place(S, q[k]) = k
    BY <2>2, <2>3
  <2>5. QED BY <2>4
<1>9. q \in Seq(S) /\ Len(q) = n /\ DOMAIN q = 1..n
  <2>1. q \in [1..n -> S]
    BY <1>3, <1>8
  <2>2. QED BY <1>2, <2>1
<1> HIDE DEF place
<1>10. \A i \in S : \E k \in DOMAIN q : q[k] = i
  <2>1. SUFFICES ASSUME NEW i \in S
                 PROVE  q[place[i]] = i /\ place[i] \in DOMAIN q
    OBVIOUS
  <2>2. QED BY ZenonT(40), <1>4, <1>6, <1>8, <1>9
<1>11. \A k, l \in DOMAIN q : q[k] = q[l] => k = l
  BY <1>8, <1>9
<1>12. \A k, l \in DOMAIN q : q[k] < q[l] => k < l
  <2>1. SUFFICES ASSUME NEW k \in DOMAIN q, NEW l \in DOMAIN q, q[k] < q[l]
                 PROVE  k < l
    OBVIOUS
  <2>2. q[k] \in S /\ q[l] \in S /\ place[q[k]] = k /\ place[q[l]] = l
    BY <1>8, <1>9, <2>1
  <2>3. PICK i, m : i = q[k] /\ m = q[l]
    OBVIOUS
  <2>4. i \in S /\ m \in S /\ i < m
    BY <2>1, <2>2, <2>3
  <2>5. place[i] < place[m]
    BY <1>4, <2>4
  <2>6. QED BY <2>2, <2>3, <2>5
<1>13. QED BY <1>2, <1>8, <1>9, <1>10, <1>11, <1>12 DEF Lists

-----------------------------------------------------------------------------
(* The graph of a subroutine, and what is copied of it.                    *)

LEMMA Elements ==
  ASSUME NEW S, NEW q \in Seq(S)
  PROVE  /\ Len(q) \in Nat /\ DOMAIN q = 1..Len(q)
         /\ \A k \in DOMAIN q : q[k] \in S
  OBVIOUS

(* One sequence after another.                                             *)
Joined(a, b, c) ==
  /\ Len(c) = Len(a) + Len(b) /\ DOMAIN c = 1..(Len(a) + Len(b))
  /\ \A k \in 1..Len(a) : k \in DOMAIN c /\ c[k] = a[k]
  /\ \A k \in 1..Len(b) : Len(a) + k \in DOMAIN c /\ c[Len(a) + k] = b[k]
  /\ \A k \in DOMAIN c : \/ k \in 1..Len(a) /\ c[k] = a[k]
                         \/ k - Len(a) \in 1..Len(b) /\ c[k] = b[k - Len(a)]

LEMMA Concatenation ==
  ASSUME NEW S, NEW a \in Seq(S), NEW b \in Seq(S), NEW c, c = a \o b
  PROVE  c \in Seq(S) /\ Joined(a, b, c)
<1>1. PICK m, n : m = Len(a) /\ n = Len(b)
  OBVIOUS
<1>2. /\ c \in Seq(S) /\ m \in Nat /\ n \in Nat /\ Len(c) = m + n
      /\ \A k \in 1..(m + n) : c[k] = IF k <= m THEN a[k] ELSE b[k - m]
  BY <1>1, ConcatProperties
<1>3. DOMAIN c = 1..(m + n)
  BY <1>2
<1>4. \A k \in 1..m : k \in DOMAIN c /\ c[k] = a[k]
  BY <1>2, <1>3
<1>5. \A k \in 1..n : m + k \in DOMAIN c /\ c[m + k] = b[k]
  <2>1. SUFFICES ASSUME NEW k \in 1..n
                 PROVE  m + k \in DOMAIN c /\ c[m + k] = b[k]
    OBVIOUS
  <2>2. PICK l : l = m + k
    OBVIOUS
  <2>3. l \in 1..(m + n) /\ ~(l <= m) /\ l - m = k
    BY <1>2, <2>1, <2>2
  <2>4. QED BY <1>2, <1>3, <2>2, <2>3
<1>6. \A k \in DOMAIN c : \/ k \in 1..m /\ c[k] = a[k]
                          \/ k - m \in 1..n /\ c[k] = b[k - m]
  <2>1. SUFFICES ASSUME NEW k \in DOMAIN c
                 PROVE  \/ k \in 1..m /\ c[k] = a[k]
                        \/ k - m \in 1..n /\ c[k] = b[k - m]
    OBVIOUS
  <2>0. k \in 1..(m + n)
    BY <1>3
  <2>2. c[k] = IF k <= m THEN a[k] ELSE b[k - m]
    BY <1>2, <2>0
  <2>3. (k <= m => k \in 1..m) /\ (~(k <= m) => k - m \in 1..n)
    BY <1>2, <2>0
  <2>4. QED BY <2>2, <2>3
<1>7. QED BY <1>1, <1>2, <1>3, <1>4, <1>5, <1>6 DEF Joined

LEMMA GraphFacts ==
  ASSUME NEW g, WellFormed(g)
  PROVE  /\ g.nodes \in Seq(NodeType) /\ Len(g.nodes) \in Nat /\ DOMAIN g.nodes = 1..Len(g.nodes)
         /\ \A i \in DOMAIN g.nodes : g.nodes[i] \in NodeType
         /\ \A i \in DOMAIN g.nodes : Operands(g.nodes[i]) \subseteq DOMAIN g.nodes \cup {None}
         /\ {ConstantZero, ConstantOne} \subseteq DOMAIN g.nodes
         /\ \A i \in DOMAIN g.constants : i \in DOMAIN g.nodes /\ g.nodes[i].op = "const"
         /\ \A i \in DOMAIN g.nodes : g.nodes[i].op \in {"const", "input"} => g.nodes[i].ops = <<>>
BY Elements DEF WellFormed

LEMMA SubroutineFacts ==
  ASSUME NEW s \in Sub, NEW g, g = Subroutine[s]
  PROVE  /\ WellFormed(g) /\ g.root \in DOMAIN g.nodes \cup {None}
         /\ g.args \in Seq(STRING) /\ Len(g.args) \in Nat /\ DOMAIN g.args = 1..Len(g.args)
BY GraphsAreBuilt

(* Constants and other nodes than inputs are copied, and what they read    *)
(* before them.                                                            *)
CopyList(g, q) ==
  /\ Lists(q, Constants(g) \cup Others(g))
  /\ \A k \in DOMAIN q : \A o \in Operands(g.nodes[q[k]]) :
       o \in Known(g) \/ \E l \in DOMAIN q : l < k /\ q[l] = o

LEMMA CopyListed ==
  ASSUME NEW s \in Sub, NEW g, g = Subroutine[s]
  PROVE  /\ CopyList(g, Copied[s])
         /\ Constants(g) \cup Others(g) \subseteq DOMAIN g.nodes \ Known(g)
<1>1. WellFormed(g)
  BY SubroutineFacts
<1>2. PICK a, b, q, A, B : /\ A = Constants(g) /\ B = Others(g)
                           /\ a = InOrder[A] /\ b = InOrder[B] /\ q = a \o b
  OBVIOUS
<1>3. Copied[s] = q
  BY <1>2 DEF Copied
<1>4. DOMAIN g.nodes = 1..Len(g.nodes) /\ Len(g.nodes) \in Nat
  BY <1>1, GraphFacts
<1>5. A \subseteq DOMAIN g.nodes \ Known(g) /\ B \subseteq DOMAIN g.nodes \ Known(g)
  BY <1>1, <1>2, GraphFacts DEF Constants, Others
<1>6. A \in SUBSET Nat /\ IsFiniteSet(A) /\ B \in SUBSET Nat /\ IsFiniteSet(B)
  <2>1. IsFiniteSet(DOMAIN g.nodes) /\ DOMAIN g.nodes \subseteq Nat
    BY <1>4, FS_Interval
  <2>2. A \in SUBSET DOMAIN g.nodes /\ B \in SUBSET DOMAIN g.nodes
    BY <1>5
  <2>3. QED BY <2>1, <2>2, FS_Subset
<1>7. Lists(a, A) /\ Lists(b, B) /\ \A k, l \in DOMAIN b : b[k] < b[l] => k < l
  BY <1>2, <1>6, Sorted
<1>8. A \cap B = {}
  BY <1>2 DEF Others
<1>9. PICK m, n : m = Len(a) /\ n = Len(b)
  OBVIOUS
<1>10. /\ m \in Nat /\ n \in Nat /\ DOMAIN a = 1..m /\ DOMAIN b = 1..n
       /\ q \in Seq(A \cup B) /\ Len(q) = m + n /\ DOMAIN q = 1..(m + n)
       /\ \A k \in DOMAIN a : k \in DOMAIN q /\ q[k] = a[k]
       /\ \A k \in DOMAIN b : m + k \in DOMAIN q /\ q[m + k] = b[k]
       /\ \A k \in DOMAIN q : \/ k \in DOMAIN a /\ q[k] = a[k]
                              \/ k - m \in DOMAIN b /\ q[k] = b[k - m]
  <2>1. a \in Seq(A \cup B) /\ b \in Seq(A \cup B)
    BY <1>7 DEF Lists
  <2>2. m \in Nat /\ n \in Nat /\ DOMAIN a = 1..m /\ DOMAIN b = 1..n
    BY <1>7, <1>9 DEF Lists
  <2>3. q \in Seq(A \cup B) /\ Joined(a, b, q)
    BY <1>2, <2>1, Concatenation
  <2>4. QED BY <1>9, <2>2, <2>3 DEF Joined
<1>11. Lists(q, A \cup B)
  <2>1. \A i \in A \cup B : \E k \in DOMAIN q : q[k] = i
    BY <1>7, <1>10 DEF Lists
  <2>2. \A k \in DOMAIN q : q[k] \in A \cup B
    BY <1>7, <1>10 DEF Lists
  <2>3. ASSUME NEW k \in DOMAIN q, NEW l \in DOMAIN q, q[k] = q[l]
        PROVE  k = l
    <3>1. CASE k \in DOMAIN a /\ q[k] = a[k]
      <4>1. q[k] \in A /\ q[l] \notin B
        BY <1>7, <1>8, <2>3, <3>1 DEF Lists
      <4>2. l \in DOMAIN a /\ q[l] = a[l]
        BY <1>7, <1>10, <2>3, <4>1 DEF Lists
      <4>3. QED BY <1>7, <2>3, <3>1, <4>2 DEF Lists
    <3>2. CASE k - m \in DOMAIN b /\ q[k] = b[k - m]
      <4>1. q[k] \in B /\ q[l] \notin A
        BY <1>7, <1>8, <2>3, <3>2 DEF Lists
      <4>2. l - m \in DOMAIN b /\ q[l] = b[l - m]
        BY <1>7, <1>10, <2>3, <4>1 DEF Lists
      <4>3. k - m = l - m
        BY <1>7, <2>3, <3>2, <4>2 DEF Lists
      <4>4. k \in Int /\ l \in Int
        BY <1>10, <2>3
      <4>5. QED BY <1>10, <4>3, <4>4
    <3>3. QED BY <1>10, <2>3, <3>1, <3>2
  <2>4. QED BY <1>10, <2>1, <2>2, <2>3 DEF Lists
<1>12. ASSUME NEW k \in DOMAIN q, NEW i, i = q[k], NEW o \in Operands(g.nodes[i]), o \notin Known(g)
       PROVE  \E l \in DOMAIN q : l < k /\ q[l] = o
  <2>1. CASE k \in DOMAIN a /\ i = a[k]
    <3>1. i \in A
      BY <1>7, <2>1 DEF Lists
    <3>2. i \in DOMAIN g.nodes /\ g.nodes[i].op = "const"
      BY <1>1, <1>2, <3>1, GraphFacts DEF Constants
    <3>3. g.nodes[i].ops = <<>>
      BY <1>1, <3>2, GraphFacts
    <3>4. QED BY <1>12, <3>3 DEF Operands
  <2>2. CASE k - m \in DOMAIN b /\ i = b[k - m]
    <3>1. i \in B
      BY <1>7, <2>2 DEF Lists
    <3>2. i \in DOMAIN g.nodes /\ i \in Nat /\ i >= 1 /\ Reached(g, i) /\ i \notin Known(g) \cup Constants(g)
      BY <1>2, <1>4, <3>1 DEF Others
    <3>3. Ready(g, i)
      <4>1. i \in 1..i
        BY <3>2
      <4>2. QED BY <3>2, <4>1 DEF Reached
    <3>4. o \in A \/ o < i
      BY <1>2, <1>12, <3>3 DEF Ready
    <3>5. k \in Nat /\ k > m
      BY <1>10, <1>12, <2>2
    <3>6. CASE o \in A
      <4>1. PICK l \in DOMAIN a : a[l] = o
        BY <1>7, <3>6 DEF Lists
      <4>2. l < k /\ l \in DOMAIN q /\ q[l] = o
        BY <1>10, <3>5, <4>1
      <4>3. QED BY <4>2
    <3>7. CASE o \notin A /\ o < i
      <4>1. o \in DOMAIN g.nodes
        <5>1. o \in DOMAIN g.nodes \cup {None}
          BY <1>1, <1>12, <3>2, GraphFacts
        <5>2. None \in Known(g)
          BY DEF Known, Shared
        <5>3. QED BY <1>12, <5>1, <5>2
      <4>2. Reached(g, o)
        <5>1. 1..o \subseteq 1..i
          BY <1>4, <3>2, <3>7, <4>1
        <5>2. QED BY <3>2, <5>1 DEF Reached
      <4>3. o \in B
        BY <1>2, <1>12, <3>7, <4>1, <4>2 DEF Others
      <4>4. PICK l \in DOMAIN b : b[l] = o
        BY <1>7, <4>3 DEF Lists
      <4>5. l < k - m
        BY <1>7, <2>2, <3>7, <4>4
      <4>6. m + l < k
        BY <1>10, <2>2, <3>5, <4>4, <4>5
      <4>7. QED BY <1>10, <4>4, <4>6
    <3>8. QED BY <3>4, <3>6, <3>7
  <2>3. QED BY <1>10, <1>12, <2>1, <2>2
<1>13. QED BY ZenonT(40), <1>2, <1>3, <1>5, <1>11, <1>12 DEF CopyList

-----------------------------------------------------------------------------
(* What a step makes of the graph.                                         *)

LEMMA NodeFacts ==
  ASSUME NEW q \in Seq(NodeType), NEW i \in DOMAIN q
  PROVE  /\ q[i] \in NodeType /\ q[i].ops \in Seq(Nat)
         /\ Len(q[i].ops) \in Nat /\ DOMAIN q[i].ops = 1..Len(q[i].ops)
         /\ \A k \in DOMAIN q[i].ops : q[i].ops[k] \in Nat /\ q[i].ops[k] \in Operands(q[i])
<1>1. q[i] \in NodeType
  BY Elements
<1>2. q[i].ops \in Seq(Nat)
  BY <1>1 DEF NodeType
<1>3. QED BY <1>1, <1>2, Elements DEF Operands

(* What the graph has for a node of the subroutine: a constant, an operand *)
(* of the call, or a copy.                                                 *)
LEMMA Mapped ==
  ASSUME TypeOK, NEW call, call.id \in DOMAIN nodes, call.sub \in Sub, ~Unusable(call),
         NEW g, g = Subroutine[call.sub], NEW q, q = Copied[call.sub],
         NEW o, NEW id, id = IdMap(call, o)
  PROVE  /\ o \in Known(g) =>
              id \in {None, ConstantZero, ConstantOne} \cup Operands(nodes[call.id])
         /\ \A k \in DOMAIN q : q[k] = o => id = Len(nodes) + k
<1>1. ASSUME o \in DOMAIN Shared(g)
      PROVE  id \in {None, ConstantZero, ConstantOne}
  <2>1. id = Shared(g)[o]
    BY <1>1 DEF IdMap
  <2>2. Shared(g)[o] \in {None, ConstantZero, ConstantOne}
    BY <1>1 DEF Shared
  <2>3. QED BY <2>1, <2>2
<1>2. ASSUME o \in Known(g), o \notin DOMAIN Shared(g)
      PROVE  id \in Operands(nodes[call.id])
  <2>1. \E j \in DOMAIN g.args : ArgId(g, j) = o
    BY <1>2 DEF Known
  <2>2. PICK j : j = CHOOSE k \in DOMAIN g.args : ArgId(g, k) = o
    OBVIOUS
  <2>3. j \in DOMAIN g.args
    BY <2>1, <2>2
  <2>4. id = Given(g, call)[o]
    BY <1>2 DEF IdMap
  <2>5. Given(g, call)[o] = nodes[call.id].ops[j]
    BY <2>1, <2>2 DEF Given
  <2>6. DOMAIN g.args = 1..Len(g.args) /\ Len(nodes[call.id].ops) = Len(g.args)
    BY SubroutineFacts DEF Unusable
  <2>7. nodes \in Seq(NodeType)
    BY DEF TypeOK
  <2>8. DOMAIN nodes[call.id].ops = 1..Len(nodes[call.id].ops)
    BY <2>7, NodeFacts
  <2>9. QED BY <2>3, <2>4, <2>5, <2>6, <2>8 DEF Operands
<1>3. ASSUME NEW k \in DOMAIN q, q[k] = o
      PROVE  id = Len(nodes) + k
  <2>1. CopyList(g, q) /\ Constants(g) \cup Others(g) \subseteq DOMAIN g.nodes \ Known(g)
    BY CopyListed
  <2>2. o \notin Known(g) /\ \A l \in DOMAIN q : q[l] = o => l = k
    BY <1>3, <2>1 DEF CopyList, Lists
  <2>3. o \notin DOMAIN Shared(g)
    BY <2>2 DEF Known
  <2>4. id = Len(nodes) + CHOOSE l \in DOMAIN q : q[l] = o
    BY <2>2, <2>3, Zenon DEF IdMap
  <2>5. (CHOOSE l \in DOMAIN q : q[l] = o) = k
    BY <1>3, <2>2
  <2>6. QED BY <2>4, <2>5
<1>4. QED BY <1>1, <1>2, <1>3

(* A call node turned into a buffer, and nodes of the subroutine appended. *)
Grown(old, new, p, added) ==
  /\ new \in Seq(NodeType) /\ Len(new) = Len(old) + added /\ DOMAIN new = 1..(Len(old) + added)
  /\ \A i \in DOMAIN old : i # p => new[i] = old[i]
  /\ new[p].op = "convert"
  /\ Operands(new[p]) \subseteq
       {None, ConstantZero, ConstantOne} \cup Operands(old[p]) \cup {Len(old) + k : k \in 1..added}
  /\ \A k \in 1..added : Operands(new[Len(old) + k]) \subseteq
       {None, ConstantZero, ConstantOne} \cup Operands(old[p]) \cup {Len(old) + l : l \in 1..(k - 1)}

(* The least of the copies in a set, or else a node of the old graph, is   *)
(* the one without operands in the set.                                    *)
LEMMA StaysGrounded ==
  ASSUME NEW old \in Seq(NodeType), Grounded(old), NEW p \in DOMAIN old, NEW added \in Nat,
         \A i \in DOMAIN old : Operands(old[i]) \subseteq DOMAIN old \cup {None},
         \A i \in {ConstantZero, ConstantOne} :
           i \in DOMAIN old /\ old[i].op = "const" /\ old[i].ops = <<>>,
         p \notin {ConstantZero, ConstantOne},
         NEW new, Grown(old, new, p, added)
  PROVE  /\ Grounded(new)
         /\ \A i \in DOMAIN new : Operands(new[i]) \subseteq DOMAIN new \cup {None}
<1>1. PICK n : n = Len(old)
  OBVIOUS
<1>2. n \in Nat /\ DOMAIN old = 1..n /\ DOMAIN new = 1..(n + added)
  BY <1>1, Elements DEF Grown
<1> DEFINE Leaves == {None, ConstantZero, ConstantOne}
<1>3. /\ \A i \in DOMAIN old : i # p => new[i] = old[i]
      /\ Operands(new[p]) \subseteq Leaves \cup Operands(old[p]) \cup {n + k : k \in 1..added}
      /\ \A k \in 1..added :
           Operands(new[n + k]) \subseteq Leaves \cup Operands(old[p]) \cup {n + l : l \in 1..(k - 1)}
  BY ZenonT(40), <1>1 DEF Grown
<1>4. ASSUME NEW X \in SUBSET DOMAIN new, X # {}
      PROVE  \E i \in X : Operands(new[i]) \cap X = {}
  <2>1. CASE \E i \in {ConstantZero, ConstantOne} : i \in X
    <3>1. PICK i \in {ConstantZero, ConstantOne} : i \in X
      BY <2>1
    <3>2. new[i] = old[i] /\ old[i].ops = <<>>
      BY <1>3
    <3>3. Operands(new[i]) = {}
      BY <3>2 DEF Operands
    <3>4. QED BY <3>1, <3>3
  <2>2. CASE \A i \in {ConstantZero, ConstantOne} : i \notin X
    <3>1. Leaves \cap X = {}
      BY <1>2, <1>4, <2>2 DEF None
    <3> DEFINE Copies == {k \in 1..added : n + k \in X}
               Old == {i \in DOMAIN old : i \in X \/ (i = p /\ Copies # {})}
    <3>2. Old # {}
      <4>1. PICK x \in X : TRUE
        BY <1>4
      <4>2. CASE x \in DOMAIN old
        BY <4>1, <4>2
      <4>3. CASE x \notin DOMAIN old
        <5>1. PICK k : k = x - n
          OBVIOUS
        <5>2. k \in 1..added /\ n + k = x
          BY SMTT(20), <1>2, <1>4, <4>1, <4>3, <5>1
        <5>3. QED BY <4>1, <5>2
      <4>4. QED BY <4>2, <4>3
    <3>3. PICK i \in Old : Operands(old[i]) \cap Old = {}
      <4>1. Old \in SUBSET DOMAIN old
        OBVIOUS
      <4>2. QED BY <3>2, <4>1 DEF Grounded
    <3>4. Operands(old[i]) \cap X = {}
      <4>1. Operands(old[i]) \subseteq DOMAIN old \cup {None}
        BY <3>3
      <4>2. QED BY <3>1, <3>3, <4>1
    <3>5. CASE i # p
      <4>1. i \in X /\ new[i] = old[i]
        BY <1>3, <3>3, <3>5
      <4>2. QED BY <3>4, <4>1
    <3>6. CASE i = p /\ Copies = {}
      <4>1. i \in X
        BY <3>3, <3>6
      <4>2. {n + k : k \in 1..added} \cap X = {}
        BY <3>6
      <4>3. Operands(new[i]) \cap X = {}
        BY <1>3, <3>1, <3>4, <3>6, <4>2
      <4>4. QED BY <4>1, <4>3
    <3>7. CASE i = p /\ Copies # {}
      <4>1. PICK k \in Copies : \A l \in Copies : k <= l
        <5>1. Copies \in SUBSET Nat
          OBVIOUS
        <5>2. QED BY <3>7, <5>1, LeastNumber
      <4>2. {n + l : l \in 1..(k - 1)} \cap X = {}
        <5>1. ASSUME NEW l \in 1..(k - 1), n + l \in X
              PROVE  FALSE
          <6>1. l \in Copies /\ l < k
            BY <5>1, <4>1
          <6>2. QED BY <6>1, <4>1
        <5>2. QED BY <5>1
      <4>3. Operands(new[n + k]) \cap X = {}
        BY <1>3, <3>1, <3>4, <3>7, <4>2
      <4>4. n + k \in X
        BY <4>1
      <4>5. QED BY <4>3, <4>4
    <3>8. QED BY <3>5, <3>6, <3>7
  <2>3. QED BY <2>1, <2>2
<1>5. ASSUME NEW i \in DOMAIN new
      PROVE  Operands(new[i]) \subseteq DOMAIN new \cup {None}
  <2>1. DOMAIN old \subseteq DOMAIN new /\ Leaves \subseteq DOMAIN new \cup {None}
    BY <1>2
  <2>2. \A k \in 1..added : n + k \in DOMAIN new
    BY <1>2
  <2>3. Operands(old[p]) \subseteq DOMAIN new \cup {None}
    BY <2>1
  <2>4. CASE i = p
    BY <1>3, <2>1, <2>2, <2>3, <2>4
  <2>5. CASE i \in DOMAIN old /\ i # p
    <3>1. new[i] = old[i] /\ Operands(old[i]) \subseteq DOMAIN old \cup {None}
      BY <1>3, <2>5
    <3>2. QED BY <2>1, <3>1
  <2>6. CASE i \notin DOMAIN old
    <3>1. PICK k : k = i - n
      OBVIOUS
    <3>2. k \in 1..added /\ n + k = i
      BY <1>2, <1>5, <2>6, <3>1
    <3>3. {n + l : l \in 1..(k - 1)} \subseteq DOMAIN new
      BY <1>2, <3>2
    <3>4. Operands(new[n + k]) \subseteq Leaves \cup Operands(old[p]) \cup {n + l : l \in 1..(k - 1)}
      BY <1>3, <3>2
    <3>5. QED BY <2>1, <2>3, <3>2, <3>3, <3>4
  <2>7. QED BY <2>4, <2>5, <2>6
<1>6. QED BY <1>4, <1>5 DEF Grounded

LEMMA CallFacts ==
  ASSUME FlatInv, InProgress, NEW call, call = calls[next]
  PROVE  /\ next \in DOMAIN calls /\ call.id \in DOMAIN nodes /\ call.sub \in Sub
         /\ nodes[call.id].op = "call" /\ call.id \notin {ConstantZero, ConstantOne}
<1>1. calls \in Seq([id: Nat, sub: Sub]) /\ \A k \in DOMAIN calls : calls[k].id \in DOMAIN nodes
  BY DEF FlatInv, CallsAreNodes
<1>2. PICK len : len = Len(calls)
  OBVIOUS
<1>3. len \in Nat /\ DOMAIN calls = 1..len /\ \A k \in DOMAIN calls : calls[k] \in [id: Nat, sub: Sub]
  BY <1>1, <1>2, Elements
<1>4. next \in 1..(len + 1) /\ next <= len
  BY <1>2 DEF FlatInv, TypeOK, InProgress
<1>5. next \in DOMAIN calls /\ next \in next..len
  BY <1>3, <1>4
<1>6. call \in [id: Nat, sub: Sub] /\ call.id \in DOMAIN nodes
  BY <1>1, <1>3, <1>5
<1>7. nodes[call.id].op = "call"
  <2>1. {i \in DOMAIN nodes : nodes[i].op = "call"} = {calls[k].id : k \in next..len}
    BY <1>2 DEF FlatInv, CallsAreListed
  <2>2. call.id \in {calls[k].id : k \in next..len}
    BY <1>5
  <2>3. QED BY <2>1, <2>2
<1>8. call.id \notin {ConstantZero, ConstantOne}
  BY <1>7 DEF FlatInv, StartsWithConstants
<1>9. QED BY <1>5, <1>6, <1>7, <1>8

LEMMA BufferFacts ==
  ASSUME NEW node \in NodeType, NEW id \in Nat, NEW buffer, buffer = Buffer(node, id)
  PROVE  buffer \in NodeType /\ buffer.op = "convert" /\ Operands(buffer) = {id}
<1>1. buffer = [node EXCEPT !.op = "convert", !.ops = <<id>>]
  BY DEF Buffer
<1>2. buffer.op = "convert" /\ buffer.ops = <<id>>
  BY <1>1 DEF NodeType
<1>3. <<id>> \in Seq(Nat)
  OBVIOUS
<1>4. buffer \in NodeType
  BY <1>1, <1>3 DEF NodeType
<1>5. Operands(buffer) = {id}
  BY <1>2 DEF Operands
<1>6. QED BY <1>2, <1>4, <1>5

ReadsWithin(node, call, V) == \A o \in Operands(node) : IdMap(call, o) \in V

LEMMA CopyFacts ==
  ASSUME NEW node \in NodeType, NEW call, NEW V \in SUBSET Nat,
         ReadsWithin(node, call, V),
         NEW copy, copy = CopyOf(node, call)
  PROVE  copy \in NodeType /\ copy.op = node.op /\ Operands(copy) \subseteq V
<1>1. PICK ops : ops = [k \in DOMAIN node.ops |-> IdMap(call, node.ops[k])]
  OBVIOUS
<1>2. copy = [node EXCEPT !.ops = ops]
  BY <1>1 DEF CopyOf
<1>3. node.ops \in Seq(Nat)
  BY DEF NodeType
<1>4. PICK n : n = Len(node.ops)
  OBVIOUS
<1>5. n \in Nat /\ DOMAIN node.ops = 1..n
  BY <1>3, <1>4
<1>6. ops \in Seq(Nat)
  <2>1. \A k \in 1..n : ops[k] \in Nat
    BY <1>1, <1>5 DEF Operands, ReadsWithin
  <2>2. ops \in [1..n -> Nat]
    BY <1>1, <1>5, <2>1
  <2>3. QED BY <1>5, <2>2
<1>7. copy \in NodeType /\ copy.op = node.op /\ copy.ops = ops
  BY <1>2, <1>6 DEF NodeType
<1>8. Operands(copy) \subseteq V
  BY <1>1, <1>7 DEF Operands, ReadsWithin
<1>9. QED BY <1>7, <1>8

AreCopies(new, g, q) == \A k \in DOMAIN q : new[Len(nodes) + k].op = g.nodes[q[k]].op

(* The call becomes a buffer of what the subroutine returns or of zero,    *)
(* and the copies read what was copied before them.                        *)
LEMMA NodesGrow ==
  ASSUME FlatInv, InProgress, NEW call, call = calls[next], ~Unusable(call),
         NEW g, g = Subroutine[call.sub], NEW q, q = Copied[call.sub],
         NEW id, \/ id = ConstantZero
                 \/ TopologicallyOrdered(call.sub) /\ id = IdMap(call, g.root),
         NEW new, new = NodesWith(call, id)
  PROVE  Grown(nodes, new, call.id, Len(q)) /\ AreCopies(new, g, q)
<1>1. /\ call.id \in DOMAIN nodes /\ call.sub \in Sub
      /\ nodes[call.id].op = "call" /\ call.id \notin {ConstantZero, ConstantOne}
  BY CallFacts
<1>2. TypeOK /\ nodes \in Seq(NodeType)
  BY DEF FlatInv, TypeOK
<1>3. PICK n, m, p : n = Len(nodes) /\ m = Len(q) /\ p = call.id
  OBVIOUS
<1>4. CopyList(g, q) /\ Constants(g) \cup Others(g) \subseteq DOMAIN g.nodes \ Known(g)
  BY <1>1, CopyListed
<1>5. /\ n \in Nat /\ DOMAIN nodes = 1..n /\ p \in 1..n
      /\ m \in Nat /\ DOMAIN q = 1..m /\ \A k \in DOMAIN q : q[k] \in DOMAIN g.nodes
  <2>1. n \in Nat /\ DOMAIN nodes = 1..n
    BY <1>2, <1>3, Elements
  <2>2. p \in 1..n
    BY <1>1, <1>3, <2>1
  <2>3. m \in Nat /\ DOMAIN q = 1..m
    BY <1>3, <1>4 DEF CopyList, Lists
  <2>4. \A k \in DOMAIN q : q[k] \in DOMAIN g.nodes
    BY <1>4, <2>3 DEF CopyList, Lists
  <2>5. QED BY <2>1, <2>2, <2>3, <2>4
<1>6. WellFormed(g) /\ g.root \in DOMAIN g.nodes \cup {None}
  BY <1>1, SubroutineFacts
<1>7. /\ \A i \in DOMAIN g.nodes : g.nodes[i] \in NodeType
      /\ \A i \in DOMAIN g.nodes : Operands(g.nodes[i]) \subseteq DOMAIN g.nodes \cup {None}
  BY <1>6, GraphFacts
<1> DEFINE Leaves == {None, ConstantZero, ConstantOne} \cup Operands(nodes[p])
<1>8. Leaves \subseteq Nat
  BY <1>1, <1>2, <1>3, NodeFacts DEF Operands, None, ConstantZero, ConstantOne
<1>9. \A o : /\ o \in Known(g) => IdMap(call, o) \in Leaves
             /\ \A k \in DOMAIN q : q[k] = o => IdMap(call, o) = n + k
  BY <1>1, <1>2, <1>3, Mapped
<1> HIDE DEF Leaves
<1>10. ASSUME NEW k \in 1..m
       PROVE  /\ CopyOf(g.nodes[q[k]], call) \in NodeType
              /\ CopyOf(g.nodes[q[k]], call).op = g.nodes[q[k]].op
              /\ Operands(CopyOf(g.nodes[q[k]], call)) \subseteq
                   Leaves \cup {n + l : l \in 1..(k - 1)}
  <2>1. PICK node, copy : node = g.nodes[q[k]] /\ copy = CopyOf(node, call)
    OBVIOUS
  <2>2. node \in NodeType
    BY <1>5, <1>7, <1>10, <2>1
  <2>3. \A o \in Operands(node) : IdMap(call, o) \in Leaves \cup {n + l : l \in 1..(k - 1)}
    <3>1. SUFFICES ASSUME NEW o \in Operands(node)
                   PROVE  IdMap(call, o) \in Leaves \cup {n + l : l \in 1..(k - 1)}
      OBVIOUS
    <3>2. o \in Known(g) \/ \E l \in DOMAIN q : l < k /\ q[l] = o
      <4>1. k \in DOMAIN q
        BY <1>5, <1>10
      <4>2. \A i \in DOMAIN q : \A j \in Operands(g.nodes[q[i]]) :
              j \in Known(g) \/ \E l \in DOMAIN q : l < i /\ q[l] = j
        BY <1>4 DEF CopyList
      <4>3. o \in Operands(g.nodes[q[k]])
        BY <2>1, <3>1
      <4>4. QED BY <4>1, <4>2, <4>3
    <3>3. CASE o \in Known(g)
      BY <1>9, <3>3
    <3>4. ASSUME NEW l \in DOMAIN q, l < k, q[l] = o
          PROVE  IdMap(call, o) \in {n + j : j \in 1..(k - 1)}
      <4>1. l \in 1..(k - 1)
        BY <1>5, <1>10, <3>4
      <4>2. QED BY <1>9, <3>4, <4>1
    <3>5. QED BY <3>2, <3>3, <3>4
  <2>4. PICK V : V = Leaves \cup {n + l : l \in 1..(k - 1)}
    OBVIOUS
  <2>5. V \in SUBSET Nat
    <3>1. {n + l : l \in 1..(k - 1)} \subseteq Nat
      BY <1>5, <1>10
    <3>2. QED BY <1>8, <2>4, <3>1
  <2>6. ReadsWithin(node, call, V)
    BY <2>3, <2>4 DEF ReadsWithin
  <2>7. copy \in NodeType /\ copy.op = node.op /\ Operands(copy) \subseteq V
    <3>1. copy = CopyOf(node, call)
      BY <2>1
    <3>2. \A c : c = CopyOf(node, call) => c \in NodeType /\ c.op = node.op /\ Operands(c) \subseteq V
      BY <2>2, <2>5, <2>6, CopyFacts
    <3>3. QED BY <3>1, <3>2
  <2>8. QED BY <2>1, <2>4, <2>7
<1>11. id \in Leaves \cup {n + k : k \in 1..m} /\ id \in Nat
  <2>1. CASE id = ConstantZero
    BY <2>1, <1>8 DEF Leaves
  <2>2. CASE TopologicallyOrdered(call.sub) /\ id = IdMap(call, g.root)
    <3>1. g.root \in DOMAIN g.nodes
      BY <1>6 DEF Unusable
    <3>2. DOMAIN g.nodes \subseteq Known(g) \cup Range(q)
      BY <2>2 DEF TopologicallyOrdered
    <3>3. g.root \in Known(g) \/ \E k \in DOMAIN q : q[k] = g.root
      BY <3>1, <3>2 DEF Range
    <3>4. id \in Leaves \cup {n + k : k \in 1..m}
      BY <1>5, <1>9, <2>2, <3>3
    <3>5. {n + k : k \in 1..m} \subseteq Nat
      BY <1>5
    <3>6. QED BY <1>8, <3>4, <3>5
  <2>3. QED BY <2>1, <2>2
<1>12. PICK a, b : /\ a = [nodes EXCEPT ![p] = Buffer(@, id)]
                   /\ b = [k \in DOMAIN q |-> CopyOf(g.nodes[q[k]], call)]
  OBVIOUS
<1>13. new = a \o b
  BY <1>3, <1>12 DEF NodesWith
<1>14. PICK buffer : buffer = Buffer(nodes[p], id)
  OBVIOUS
<1>15. buffer \in NodeType /\ buffer.op = "convert" /\ Operands(buffer) = {id}
  <2>1. nodes[p] \in NodeType
    BY <1>1, <1>2, <1>3, Elements
  <2>2. QED BY <1>11, <1>14, <2>1, BufferFacts
<1>16. a \in Seq(NodeType) /\ Len(a) = n /\ a[p] = buffer /\ \A i \in 1..n : i # p => a[i] = nodes[i]
  <2>1. nodes \in [1..n -> NodeType]
    BY <1>2, <1>3, <1>5
  <2>2. a \in [1..n -> NodeType] /\ a[p] = buffer /\ \A i \in 1..n : i # p => a[i] = nodes[i]
    BY <1>5, <1>12, <1>14, <1>15, <2>1
  <2>3. QED BY <1>5, <2>2
<1>17. b \in Seq(NodeType) /\ Len(b) = m /\ \A k \in 1..m : b[k] = CopyOf(g.nodes[q[k]], call)
  <2>1. b \in [1..m -> NodeType] /\ \A k \in 1..m : b[k] = CopyOf(g.nodes[q[k]], call)
    BY <1>5, <1>10, <1>12
  <2>2. m \in Nat
    BY <1>5
  <2>3. \A T : \A f \in [1..m -> T] : f \in Seq(T) /\ Len(f) = m
    BY SMTT(30), <2>2
  <2>4. b \in Seq(NodeType) /\ Len(b) = m
    BY <2>1, <2>3, Zenon
  <2>5. QED BY <2>1, <2>4, Zenon
<1>18. new \in Seq(NodeType) /\ Joined(a, b, new)
  BY <1>13, <1>16, <1>17, Concatenation
<1>19. /\ Len(new) = n + m /\ DOMAIN new = 1..(n + m)
       /\ \A k \in 1..n : new[k] = a[k]
       /\ \A k \in 1..m : new[n + k] = b[k]
  BY <1>16, <1>17, <1>18 DEF Joined
<1>20. Grown(nodes, new, call.id, Len(q))
  <2>1. Grown(nodes, new, p, m)
    <3>1. \A i \in DOMAIN nodes : i # p => new[i] = nodes[i]
      BY <1>5, <1>16, <1>19
    <3>2. new[p] = buffer
      BY <1>5, <1>16, <1>19
    <3>3. Operands(new[p]) \subseteq Leaves \cup {n + k : k \in 1..m}
      BY <1>11, <1>15, <3>2
    <3>4. ASSUME NEW k \in 1..m
          PROVE  Operands(new[n + k]) \subseteq Leaves \cup {n + l : l \in 1..(k - 1)}
      <4>1. new[n + k] = CopyOf(g.nodes[q[k]], call)
        BY <1>17, <1>19, <3>4
      <4>2. QED BY <1>10, <3>4, <4>1
    <3>5. /\ new \in Seq(NodeType) /\ Len(new) = Len(nodes) + m /\ DOMAIN new = 1..(Len(nodes) + m)
          /\ new[p].op = "convert"
      BY <1>3, <1>15, <1>18, <1>19, <3>2
    <3>6. Operands(new[p]) \subseteq
            {None, ConstantZero, ConstantOne} \cup Operands(nodes[p]) \cup {Len(nodes) + k : k \in 1..m}
      BY <1>3, <3>3 DEF Leaves
    <3>7. ASSUME NEW k \in 1..m
          PROVE  Operands(new[Len(nodes) + k]) \subseteq
                   {None, ConstantZero, ConstantOne} \cup Operands(nodes[p])
                     \cup {Len(nodes) + l : l \in 1..(k - 1)}
      <4>1. PICK A, B : /\ A = {n + l : l \in 1..(k - 1)}
                        /\ B = {Len(nodes) + l : l \in 1..(k - 1)}
        OBVIOUS
      <4>2. A = B
        BY <1>3, <4>1
      <4>3. Operands(new[n + k]) \subseteq Leaves \cup A
        BY <3>4, <3>7, <4>1
      <4>4. Len(nodes) + k = n + k
        BY <1>3
      <4>5. QED BY <4>1, <4>2, <4>3, <4>4 DEF Leaves
    <3>8. QED BY <3>1, <3>5, <3>6, <3>7, Zenon DEF Grown
  <2>2. QED BY <1>3, <2>1
<1>21. AreCopies(new, g, q)
  <2>1. SUFFICES ASSUME NEW k \in 1..m
                 PROVE  new[n + k].op = g.nodes[q[k]].op
    BY <1>3, <1>5 DEF AreCopies
  <2>2. new[n + k] = CopyOf(g.nodes[q[k]], call)
    BY SMTT(20), <1>17, <1>19
  <2>3. QED BY <1>10, <2>2
<1>22. QED BY <1>20, <1>21

-----------------------------------------------------------------------------
(* The calls still to be flattened.                                        *)

(* The calls at ids, counted from the end of the graph, are appended.      *)
Appended(list, ids) ==
  /\ list \in Seq([id: Nat, sub: Sub]) /\ Len(list) = Len(calls) + Len(ids)
  /\ \A k \in DOMAIN calls : list[k] = calls[k]
  /\ \A k \in DOMAIN ids : list[Len(calls) + k].id = Len(nodes) + ids[k]

Listed(list, new) ==
  /\ next + 1 \in 1..(Len(list) + 1)
  /\ \A k \in DOMAIN list : list[k].id \in DOMAIN new
  /\ {i \in DOMAIN new : new[i].op = "call"} = {list[k].id : k \in (next + 1)..Len(list)}
  /\ \A k, l \in DOMAIN list : list[k].id = list[l].id => k = l

LEMMA StaysListed ==
  ASSUME FlatInv, InProgress, NEW call, call = calls[next], NEW m \in Nat,
         NEW new, Grown(nodes, new, call.id, m),
         NEW ids, Lists(ids, {k \in 1..m : new[Len(nodes) + k].op = "call"}),
         NEW list, Appended(list, ids)
  PROVE  Listed(list, new)
<1>1. PICK n, c, e, p : n = Len(nodes) /\ c = Len(calls) /\ e = Len(ids) /\ p = call.id
  OBVIOUS
<1>2. /\ next \in DOMAIN calls /\ p \in DOMAIN nodes /\ nodes[p].op = "call"
      /\ calls[next].id = p
  BY <1>1, CallFacts
<1>3. /\ nodes \in Seq(NodeType) /\ calls \in Seq([id: Nat, sub: Sub])
      /\ \A k \in DOMAIN calls : calls[k].id \in DOMAIN nodes
  BY DEF FlatInv, TypeOK, CallsAreNodes
<1>4. n \in Nat /\ DOMAIN nodes = 1..n /\ c \in Nat /\ DOMAIN calls = 1..c
  BY <1>1, <1>3, Elements
<1>5. /\ {i \in DOMAIN nodes : nodes[i].op = "call"} = {calls[k].id : k \in next..c}
      /\ \A k, l \in DOMAIN calls : calls[k].id = calls[l].id => k = l
  BY <1>1 DEF FlatInv, CallsAreListed
<1>6. /\ DOMAIN new = 1..(n + m) /\ new[p].op = "convert"
      /\ \A i \in DOMAIN nodes : i # p => new[i] = nodes[i]
  BY <1>1 DEF Grown
<1>7. /\ e \in Nat /\ DOMAIN ids = 1..e
      /\ \A k \in 1..e : ids[k] \in 1..m /\ new[n + ids[k]].op = "call"
      /\ \A i \in 1..m : new[n + i].op = "call" => \E k \in 1..e : ids[k] = i
      /\ \A k, l \in 1..e : ids[k] = ids[l] => k = l
  BY <1>1 DEF Lists
<1>8. /\ DOMAIN list = 1..(c + e) /\ Len(list) = c + e
      /\ \A k \in 1..c : list[k] = calls[k]
      /\ \A k \in 1..e : list[c + k].id = n + ids[k]
  <2>1. list \in Seq([id: Nat, sub: Sub]) /\ Len(list) = c + e
    BY <1>1 DEF Appended
  <2>2. DOMAIN list = 1..(c + e)
    BY <2>1
  <2>3. QED BY <1>1, <1>4, <1>7, <2>1, <2>2 DEF Appended
<1>9. \A k \in 1..(c + e) : \/ k \in 1..c
                            \/ k - c \in 1..e /\ c + (k - c) = k
  BY <1>4, <1>7
<1>10. \A k \in 1..c : list[k].id \in 1..n /\ (k # next => list[k].id # p)
  <2>1. SUFFICES ASSUME NEW k \in 1..c
                 PROVE  list[k].id \in 1..n /\ (k # next => list[k].id # p)
    OBVIOUS
  <2>2. list[k] = calls[k] /\ calls[k].id \in 1..n
    BY <1>3, <1>4, <1>8
  <2>3. QED BY <1>2, <1>4, <1>5, <2>2
<1>11. \A k \in 1..(c + e) : k \notin 1..c => \E j \in 1..e : k = c + j /\ list[k].id = n + ids[j]
  BY <1>8, <1>9
<1>12. \A k \in DOMAIN list : list[k].id \in DOMAIN new
  <2>1. SUFFICES ASSUME NEW k \in 1..(c + e)
                 PROVE  list[k].id \in 1..(n + m)
    BY <1>6, <1>8
  <2>2. CASE k \in 1..c
    <3>1. list[k].id \in 1..n
      BY <1>10, <2>2
    <3>2. QED BY <1>4, <3>1
  <2>3. CASE k \notin 1..c
    <3>1. PICK j \in 1..e : list[k].id = n + ids[j]
      BY <1>11, <2>3
    <3>2. ids[j] \in 1..m
      BY <1>7
    <3>3. QED BY <1>4, <3>1, <3>2
  <2>4. QED BY <2>2, <2>3
<1>13. ASSUME NEW k \in DOMAIN list, NEW l \in DOMAIN list, list[k].id = list[l].id
       PROVE  k = l
  <2>1. \A i \in 1..c, j \in 1..(c + e) : j \notin 1..c => list[i].id # list[j].id
    <3>1. SUFFICES ASSUME NEW i \in 1..c, NEW j \in 1..(c + e), j \notin 1..c
                   PROVE  list[i].id # list[j].id
      OBVIOUS
    <3>2. list[i].id \in 1..n
      BY <1>10
    <3>3. PICK x \in 1..e : list[j].id = n + ids[x]
      BY <1>11, <3>1
    <3>4. ids[x] \in 1..m
      BY <1>7
    <3>5. QED BY <1>4, <3>2, <3>3, <3>4
  <2>2. CASE k \in 1..c /\ l \in 1..c
    BY <1>4, <1>5, <1>8, <1>13, <2>2
  <2>3. CASE k \notin 1..c /\ l \notin 1..c
    <3>1. PICK x \in 1..e : k = c + x /\ list[k].id = n + ids[x]
      BY <1>8, <1>11, <1>13, <2>3
    <3>2. PICK y \in 1..e : l = c + y /\ list[l].id = n + ids[y]
      BY <1>8, <1>11, <1>13, <2>3
    <3>3. ids[x] \in Nat /\ ids[y] \in Nat
      BY <1>7
    <3>4. ids[x] = ids[y]
      BY <1>4, <1>13, <3>1, <3>2, <3>3
    <3>5. QED BY <1>7, <3>1, <3>2, <3>4
  <2>4. QED BY <1>8, <1>13, <2>1, <2>2, <2>3
<1>14. next \in 1..c /\ next + 1 \in 1..(Len(list) + 1)
  BY <1>2, <1>4, <1>7, <1>8
<1>15. ASSUME NEW i \in DOMAIN new, new[i].op = "call"
       PROVE  \E k \in (next + 1)..(c + e) : list[k].id = i
  <2>1. i # p
    BY <1>6, <1>15
  <2>2. CASE i \in 1..n
    <3>1. nodes[i].op = "call"
      BY <1>4, <1>6, <1>15, <2>1, <2>2
    <3>2. PICK k \in next..c : calls[k].id = i
      BY <1>4, <1>5, <2>2, <3>1
    <3>3. k # next
      BY <1>2, <2>1, <3>2
    <3>4. k \in 1..c /\ k \in (next + 1)..(c + e)
      BY <1>4, <1>7, <1>14, <3>3
    <3>5. QED BY <1>8, <3>2, <3>4
  <2>3. CASE i \notin 1..n
    <3>1. PICK j : j = i - n
      OBVIOUS
    <3>2. j \in 1..m /\ n + j = i
      BY <1>4, <1>6, <1>15, <2>3, <3>1
    <3>3. PICK k \in 1..e : ids[k] = j
      BY <1>7, <1>15, <3>2
    <3>4. c + k \in (next + 1)..(c + e)
      BY <1>4, <1>7, <1>14
    <3>5. list[c + k].id = i
      BY <1>8, <3>2, <3>3
    <3>6. QED BY <3>4, <3>5
  <2>4. QED BY <2>2, <2>3
<1>16. ASSUME NEW k \in (next + 1)..(c + e)
       PROVE  list[k].id \in DOMAIN new /\ new[list[k].id].op = "call"
  <2>1. k \in 1..(c + e) /\ k # next
    BY <1>4, <1>7, <1>14
  <2>2. CASE k \in 1..c
    <3>1. k \in next..c
      BY <1>4, <1>14, <2>2
    <3>2. calls[k].id \in DOMAIN nodes /\ nodes[calls[k].id].op = "call"
      BY <1>5, <3>1
    <3>3. list[k].id = calls[k].id /\ list[k].id # p
      BY <1>8, <1>10, <2>1, <2>2
    <3>4. QED BY <1>6, <1>8, <1>12, <2>1, <3>2, <3>3
  <2>3. CASE k \notin 1..c
    <3>1. PICK j \in 1..e : list[k].id = n + ids[j]
      BY <1>11, <2>1, <2>3
    <3>2. QED BY <1>7, <1>8, <1>12, <2>1, <3>1
  <2>4. QED BY <2>2, <2>3
<1>17. {i \in DOMAIN new : new[i].op = "call"} = {list[k].id : k \in (next + 1)..Len(list)}
  BY <1>8, <1>15, <1>16
<1>18. QED BY <1>12, <1>13, <1>14, <1>17 DEF Listed

(* A call that is replaced with zero adds nothing.                         *)
LEMMA NoneAppended ==
  ASSUME CallsAreNodes, NEW S, S = {}
  PROVE  Appended(calls, <<>>) /\ Lists(<<>>, S)
<1>1. calls \in Seq([id: Nat, sub: Sub]) /\ Len(calls) \in Nat
  BY DEF CallsAreNodes
<1>2. Appended(calls, <<>>)
  BY <1>1 DEF Appended
<1>3. Lists(<<>>, S)
  BY DEF Lists
<1>4. QED BY <1>2, <1>3

(* The calls among the copies are appended, one for each.                  *)
LEMMA CallsGrow ==
  ASSUME FlatInv, InProgress, NEW call, call = calls[next], ~Unusable(call),
         NEW g, g = Subroutine[call.sub], NEW q, q = Copied[call.sub],
         NEW list, list = CallsWith(call)
  PROVE  \E ids : /\ Lists(ids, {k \in DOMAIN q : g.nodes[q[k]].op = "call"})
                  /\ Appended(list, ids)
<1>1. call.sub \in Sub /\ call.id \in DOMAIN nodes
  BY CallFacts
<1>2. WellFormed(g)
  BY <1>1, SubroutineFacts
<1>3. CopyList(g, q) /\ Constants(g) \cup Others(g) \subseteq DOMAIN g.nodes \ Known(g)
  BY <1>1, CopyListed
<1>4. PICK n, m, c : n = Len(nodes) /\ m = Len(q) /\ c = Len(calls)
  OBVIOUS
<1>5. /\ m \in Nat /\ DOMAIN q = 1..m /\ \A k \in DOMAIN q : q[k] \in DOMAIN g.nodes
  BY <1>3, <1>4 DEF CopyList, Lists
<1>6. /\ n \in Nat /\ c \in Nat /\ DOMAIN calls = 1..c /\ calls \in Seq([id: Nat, sub: Sub])
  <2>1. nodes \in Seq(NodeType) /\ calls \in Seq([id: Nat, sub: Sub])
    BY DEF FlatInv, TypeOK, CallsAreNodes
  <2>2. QED BY <1>4, <2>1, Elements
<1>7. PICK S, ids : S = {k \in DOMAIN q : g.nodes[q[k]].op = "call"} /\ ids = InOrder[S]
  OBVIOUS
<1>8. S \in SUBSET Nat /\ IsFiniteSet(S)
  <2>1. S \in SUBSET (1..m)
    BY <1>5, <1>7
  <2>2. IsFiniteSet(1..m)
    BY <1>5, FS_Interval
  <2>3. IsFiniteSet(S)
    BY <2>1, <2>2, FS_Subset
  <2>4. QED BY <1>5, <2>1, <2>3
<1>9. Lists(ids, S)
  BY <1>7, <1>8, Sorted
<1>10. PICK e : e = Len(ids)
  OBVIOUS
<1>11. e \in Nat /\ DOMAIN ids = 1..e /\ \A k \in 1..e : ids[k] \in Nat /\ ids[k] \in S
  BY <1>8, <1>9, <1>10 DEF Lists
<1>12. ASSUME NEW k \in 1..e
       PROVE  SubOf(g, q[ids[k]]) \in Sub
  <2>1. q[ids[k]] \in DOMAIN g.nodes /\ g.nodes[q[ids[k]]].op = "call"
    BY <1>5, <1>7, <1>11
  <2>2. {i \in DOMAIN g.nodes : g.nodes[i].op = "call"} = {g.calls[l].id : l \in DOMAIN g.calls}
    BY <1>2 DEF WellFormed
  <2>3. PICK l \in DOMAIN g.calls : g.calls[l].id = q[ids[k]]
    <3>1. q[ids[k]] \in {i \in DOMAIN g.nodes : g.nodes[i].op = "call"}
      BY <2>1
    <3>2. q[ids[k]] \in {g.calls[l].id : l \in DOMAIN g.calls}
      BY <2>2, <3>1, Zenon
    <3>3. QED BY <3>2
  <2>4. \E x \in CallsOf(g) : x.id = q[ids[k]]
    BY <2>3 DEF CallsOf
  <2>5. \A x \in CallsOf(g) : x.sub \in Sub
    BY <1>1, NoRecursion
  <2>6. QED BY <2>4, <2>5 DEF SubOf
<1>13. PICK added : added = [k \in DOMAIN ids |-> [id |-> n + ids[k], sub |-> SubOf(g, q[ids[k]])]]
  OBVIOUS
<1>14. list = calls \o added
  BY <1>4, <1>7, <1>13 DEF CallsWith
<1>15. added \in Seq([id: Nat, sub: Sub]) /\ Len(added) = e /\ \A k \in 1..e : added[k].id = n + ids[k]
  <2>1. \A k \in 1..e : added[k] \in [id: Nat, sub: Sub] /\ added[k].id = n + ids[k]
    BY <1>6, <1>11, <1>12, <1>13
  <2>2. added \in [1..e -> [id: Nat, sub: Sub]]
    BY <1>11, <1>13, <2>1
  <2>3. PICK T : T = [id: Nat, sub: Sub]
    OBVIOUS
  <2>4. added \in Seq(T) /\ Len(added) = e
    <3>1. e \in Nat /\ added \in [1..e -> T]
      BY <1>11, <2>2, <2>3
    <3>2. QED BY <3>1
  <2>5. QED BY <2>1, <2>3, <2>4
<1>16. list \in Seq([id: Nat, sub: Sub]) /\ Joined(calls, added, list)
  BY <1>6, <1>14, <1>15, Concatenation
<1>17. Appended(list, ids)
  <2>1. Len(list) = c + e /\ \A k \in 1..c : list[k] = calls[k]
    BY <1>4, <1>15, <1>16 DEF Joined
  <2>2. \A k \in 1..e : list[c + k].id = n + ids[k]
    BY <1>4, <1>15, <1>16 DEF Joined
  <2>3. QED BY <1>4, <1>6, <1>10, <1>11, <1>16, <2>1, <2>2 DEF Appended
<1>18. QED BY <1>7, <1>9, <1>17

-----------------------------------------------------------------------------
(* The invariant holds at first, and every step keeps it.                  *)

(* The table of constants has the copies of constants as well.             *)
HasConstants(table, new) == DOMAIN table = {i \in DOMAIN new : new[i].op = "const"}

LEMMA ConstantsGrow ==
  ASSUME FlatInv, InProgress, NEW call, call = calls[next], ~Unusable(call),
         NEW g, g = Subroutine[call.sub], NEW q, q = Copied[call.sub],
         NEW new, Grown(nodes, new, call.id, Len(q)), AreCopies(new, g, q),
         NEW table, table = ConstantsWith(call)
  PROVE  HasConstants(table, new)
<1>1. /\ call.sub \in Sub /\ call.id \in DOMAIN nodes /\ nodes[call.id].op = "call"
  BY CallFacts
<1>2. WellFormed(g)
  BY <1>1, SubroutineFacts
<1>3. CopyList(g, q) /\ Constants(g) \cup Others(g) \subseteq DOMAIN g.nodes \ Known(g)
  BY <1>1, CopyListed
<1>4. PICK n, m, p : n = Len(nodes) /\ m = Len(q) /\ p = call.id
  OBVIOUS
<1>5. /\ m \in Nat /\ DOMAIN q = 1..m /\ \A k \in DOMAIN q : q[k] \in DOMAIN g.nodes
  BY <1>3, <1>4 DEF CopyList, Lists
<1>6. n \in Nat /\ DOMAIN nodes = 1..n /\ DOMAIN constants = {i \in DOMAIN nodes : nodes[i].op = "const"}
  <2>1. nodes \in Seq(NodeType)
    BY DEF FlatInv, TypeOK
  <2>2. QED BY <1>4, <2>1, Elements DEF FlatInv, TypeOK
<1>7. /\ DOMAIN new = 1..(n + m) /\ new[p].op = "convert"
      /\ \A i \in DOMAIN nodes : i # p => new[i] = nodes[i]
  BY <1>4 DEF Grown
<1>8. \A k \in 1..m : new[n + k].op = "const" <=> q[k] \in DOMAIN g.constants
  <2>1. DOMAIN g.constants = {i \in DOMAIN g.nodes : g.nodes[i].op = "const"}
    BY <1>2 DEF WellFormed
  <2>2. QED BY ZenonT(40), <1>4, <1>5, <2>1 DEF AreCopies
<1>9. PICK added : added = {k \in 1..m : q[k] \in DOMAIN g.constants}
  OBVIOUS
<1>10. DOMAIN table = {n + k : k \in added} \cup DOMAIN constants
  BY <1>4, <1>5, <1>9 DEF ConstantsWith
<1>11. ASSUME NEW i \in DOMAIN new
       PROVE  new[i].op = "const" <=> i \in DOMAIN table
  <2>1. CASE i = p
    <3>1. new[i].op # "const" /\ i \notin DOMAIN constants
      BY <1>1, <1>4, <1>6, <1>7, <2>1
    <3>2. \A k \in 1..m : i # n + k
      BY <1>1, <1>4, <1>6, <2>1
    <3>3. QED BY <1>9, <1>10, <3>1, <3>2
  <2>2. CASE i \in 1..n /\ i # p
    <3>1. new[i].op = "const" <=> i \in DOMAIN constants
      BY <1>6, <1>7, <2>2
    <3>2. \A k \in 1..m : i # n + k
      BY <1>6, <2>2
    <3>3. QED BY <1>9, <1>10, <3>1, <3>2
  <2>3. CASE i \notin 1..n
    <3>1. PICK k : k = i - n
      OBVIOUS
    <3>2. k \in 1..m /\ n + k = i
      BY <1>5, <1>6, <1>7, <1>11, <2>3, <3>1
    <3>3. \A l \in 1..m : n + l = i => l = k
      BY <1>6, <3>2
    <3>4. i \notin DOMAIN constants
      BY <1>6, <2>3
    <3>5. QED BY <1>8, <1>9, <1>10, <3>2, <3>3, <3>4
  <2>4. QED BY <2>1, <2>2, <2>3
<1>12. DOMAIN table \subseteq DOMAIN new
  BY <1>5, <1>6, <1>7, <1>9, <1>10
<1>13. QED BY <1>11, <1>12 DEF HasConstants

LEMMA FlatInvStarts ==
  ASSUME Init
  PROVE  FlatInv
<1>1. text \in Graphs /\ WellFormed(text) /\ Grounded(text.nodes)
  BY GraphsAreBuilt DEF Init
<1>2. /\ nodes = text.nodes /\ constants = text.constants /\ calls = text.calls
      /\ next = 1 /\ phase = "flatten" /\ reported = FALSE
  BY DEF Init
<1>3. /\ calls \in Seq([id: Nat, sub: Sub])
      /\ {i \in DOMAIN nodes : nodes[i].op = "call"} = {calls[k].id : k \in DOMAIN calls}
      /\ \A k, l \in DOMAIN calls : calls[k].id = calls[l].id => k = l
      /\ DOMAIN constants = {i \in DOMAIN nodes : nodes[i].op = "const"}
      /\ {ConstantZero, ConstantOne} \subseteq DOMAIN constants
  BY SMTT(20), <1>1, <1>2 DEF WellFormed
<1>4. Len(calls) \in Nat /\ DOMAIN calls = 1..Len(calls)
  BY <1>3
<1>5. /\ nodes \in Seq(NodeType)
      /\ \A i \in DOMAIN nodes : Operands(nodes[i]) \subseteq DOMAIN nodes \cup {None}
      /\ \A i \in DOMAIN nodes : nodes[i].op \in {"const", "input"} => nodes[i].ops = <<>>
  BY <1>1, <1>2, GraphFacts
<1>6. TypeOK
  <2>1. next \in 1..(Len(calls) + 1)
    BY <1>2, <1>4
  <2>2. QED BY <1>2, <1>3, <1>5, <2>1 DEF TypeOK
<1>7. CallsAreNodes
  BY <1>3 DEF CallsAreNodes
<1>8. StartsWithConstants
  BY <1>3, <1>5 DEF StartsWithConstants
<1>9. CallsAreListed
  BY <1>2, <1>3, <1>4 DEF CallsAreListed
<1>10. QED BY <1>1, <1>2, <1>6, <1>7, <1>8, <1>9 DEF FlatInv

LEMMA FlatInvGrows ==
  ASSUME FlatInv, InProgress, NEW call, call = calls[next], NEW m \in Nat,
         NEW new, new = nodes', Grown(nodes, new, call.id, m),
         NEW ids, Lists(ids, {k \in 1..m : new[Len(nodes) + k].op = "call"}),
         NEW list, list = calls', Appended(list, ids),
         DOMAIN constants' = {i \in DOMAIN new : new[i].op = "const"},
         next' = next + 1, reported' \in BOOLEAN, UNCHANGED phase
  PROVE  FlatInv'
<1>1. /\ call.id \in DOMAIN nodes /\ call.id \notin {ConstantZero, ConstantOne}
  BY CallFacts
<1>2. /\ nodes \in Seq(NodeType) /\ phase \in {"flatten", "done"} /\ Grounded(nodes)
      /\ \A i \in DOMAIN nodes : Operands(nodes[i]) \subseteq DOMAIN nodes \cup {None}
      /\ \A i \in {ConstantZero, ConstantOne} :
           i \in DOMAIN nodes /\ nodes[i].op = "const" /\ nodes[i].ops = <<>>
  BY DEF FlatInv, TypeOK, StartsWithConstants
<1>3. Grounded(new) /\ \A i \in DOMAIN new : Operands(new[i]) \subseteq DOMAIN new \cup {None}
  BY <1>1, <1>2, StaysGrounded
<1>4. Listed(list, new)
  BY StaysListed
<1>5. new \in Seq(NodeType) /\ list \in Seq([id: Nat, sub: Sub])
  BY DEF Grown, Appended
<1>6. next + 1 \in 1..(Len(list) + 1)
  BY <1>4 DEF Listed
<1>7. TypeOK'
  BY <1>2, <1>3, <1>5, <1>6 DEF TypeOK
<1>8. CallsAreNodes'
  BY <1>4, <1>5 DEF CallsAreNodes, Listed
<1>9. StartsWithConstants'
  <2>1. \A i \in {ConstantZero, ConstantOne} : i \in DOMAIN new /\ new[i] = nodes[i]
    <3>1. Len(nodes) \in Nat /\ DOMAIN nodes = 1..Len(nodes)
      BY <1>2
    <3>2. QED BY <1>1, <1>2, <3>1 DEF Grown
  <2>2. QED BY <1>2, <2>1 DEF StartsWithConstants
<1>10. CallsAreListed'
  BY <1>4 DEF CallsAreListed, Listed
<1>11. Grounded(nodes)'
  BY <1>3 DEF Grounded
<1>12. QED BY <1>7, <1>8, <1>9, <1>10, <1>11 DEF FlatInv

(* One call replaced with zero is the case with nothing appended.          *)
LEMMA ZeroKeeps ==
  ASSUME FlatInv, ReplaceUnusable
  PROVE  FlatInv'
<1>1. PICK call, p : call = calls[next] /\ p = call.id
  OBVIOUS
<1>2. InProgress
  BY DEF ReplaceUnusable
<1>3. /\ p \in DOMAIN nodes /\ nodes[p].op = "call"
  BY <1>1, <1>2, CallFacts
<1>4. nodes \in Seq(NodeType) /\ DOMAIN constants = {i \in DOMAIN nodes : nodes[i].op = "const"}
  BY DEF FlatInv, TypeOK
<1>5. PICK new, list, n : new = nodes' /\ list = calls' /\ n = Len(nodes)
  OBVIOUS
<1>6. n \in Nat /\ DOMAIN nodes = 1..n /\ nodes \in [1..n -> NodeType]
  BY <1>4, <1>5
<1>7. PICK buffer : buffer = Buffer(nodes[p], ConstantZero)
  OBVIOUS
<1>8. buffer \in NodeType /\ buffer.op = "convert" /\ Operands(buffer) = {ConstantZero}
  <2>1. nodes[p] \in NodeType /\ ConstantZero \in Nat
    BY <1>3, <1>6 DEF ConstantZero
  <2>2. QED BY <1>7, <2>1, BufferFacts
<1>9. new = [nodes EXCEPT ![p] = buffer]
  BY <1>1, <1>5, <1>7 DEF ReplaceUnusable
<1>10. new \in [1..n -> NodeType] /\ new[p] = buffer /\ \A i \in 1..n : i # p => new[i] = nodes[i]
  BY <1>3, <1>6, <1>8, <1>9
<1>11. Grown(nodes, new, p, 0)
  <2>1. new \in Seq(NodeType) /\ Len(new) = n /\ DOMAIN new = 1..n
    BY <1>6, <1>10
  <2>2. 1..0 = {} /\ n + 0 = n
    BY <1>6
  <2>3. QED BY <1>5, <1>6, <1>8, <1>10, <2>1, <2>2 DEF Grown
<1>12. {k \in 1..0 : new[Len(nodes) + k].op = "call"} = {}
  OBVIOUS
<1>13. CallsAreNodes
  BY DEF FlatInv
<1>14. Appended(calls, <<>>) /\ Lists(<<>>, {k \in 1..0 : new[Len(nodes) + k].op = "call"})
  BY <1>12, <1>13, NoneAppended
<1>15. list = calls /\ UNCHANGED <<constants, phase>> /\ next' = next + 1 /\ reported' \in BOOLEAN
  BY <1>5 DEF ReplaceUnusable
<1>16. DOMAIN constants' = {i \in DOMAIN new : new[i].op = "const"}
  BY <1>3, <1>4, <1>6, <1>8, <1>10, <1>15
<1>17. PICK ids : ids = <<>>
  OBVIOUS
<1>18. Lists(ids, {k \in 1..0 : new[Len(nodes) + k].op = "call"}) /\ Appended(list, ids)
  BY <1>14, <1>15, <1>17
<1>19. QED BY <1>1, <1>2, <1>5, <1>11, <1>15, <1>16, <1>18, FlatInvGrows

LEMMA CopiesKeep ==
  ASSUME FlatInv, ReplaceUnordered \/ Inline
  PROVE  FlatInv'
<1>1. PICK call, g, q : call = calls[next] /\ g = Subroutine[call.sub] /\ q = Copied[call.sub]
  OBVIOUS
<1>2. InProgress /\ ~Unusable(call)
  BY <1>1 DEF ReplaceUnordered, Inline
<1>3. PICK id : /\ \/ id = ConstantZero
                   \/ TopologicallyOrdered(call.sub) /\ id = IdMap(call, g.root)
                /\ nodes' = NodesWith(call, id)
  BY <1>1 DEF ReplaceUnordered, Inline
<1>4. /\ constants' = ConstantsWith(call) /\ calls' = CallsWith(call) /\ next' = next + 1
      /\ reported' \in BOOLEAN /\ UNCHANGED phase
  BY <1>1 DEF ReplaceUnordered, Inline, FlatInv, TypeOK
<1>5. PICK new, list, table : new = nodes' /\ list = calls' /\ table = constants'
  OBVIOUS
<1>6. new = NodesWith(call, id) /\ list = CallsWith(call) /\ table = ConstantsWith(call)
  BY <1>3, <1>4, <1>5
<1>7. PICK m : m = Len(q)
  OBVIOUS
<1>8. m \in Nat /\ DOMAIN q = 1..m
  <2>1. call.sub \in Sub
    BY <1>1, <1>2, CallFacts
  <2>2. CopyList(g, q)
    BY <1>1, <2>1, CopyListed
  <2>3. QED BY <1>7, <2>2 DEF CopyList, Lists
<1>9. Grown(nodes, new, call.id, Len(q)) /\ AreCopies(new, g, q)
  BY <1>1, <1>2, <1>3, <1>6, NodesGrow
<1>10. Grown(nodes, new, call.id, m)
  BY <1>7, <1>9
<1>11. PICK ids : /\ Lists(ids, {k \in DOMAIN q : g.nodes[q[k]].op = "call"})
                  /\ Appended(list, ids)
  BY SMTT(30), <1>1, <1>2, <1>6, CallsGrow
<1>12. {k \in DOMAIN q : g.nodes[q[k]].op = "call"} = {k \in 1..m : new[Len(nodes) + k].op = "call"}
  BY <1>8, <1>9 DEF AreCopies
<1>13. DOMAIN table = {i \in DOMAIN new : new[i].op = "const"}
  <2>1. HasConstants(table, new)
    BY <1>1, <1>2, <1>6, <1>9, ConstantsGrow
  <2>2. QED BY <2>1 DEF HasConstants
<1>14. Lists(ids, {k \in 1..m : new[Len(nodes) + k].op = "call"})
  BY <1>11, <1>12
<1>15. DOMAIN constants' = {i \in DOMAIN new : new[i].op = "const"}
  BY <1>5, <1>13
<1>16. call = calls[next] /\ new = nodes' /\ list = calls' /\ m \in Nat /\ InProgress
  BY <1>1, <1>2, <1>5, <1>8
<1>17. next' = next + 1 /\ reported' \in BOOLEAN /\ UNCHANGED phase /\ Appended(list, ids)
  BY <1>4, <1>11
<1>18. QED BY <1>10, <1>14, <1>15, <1>16, <1>17, FlatInvGrows

LEMMA FlatInvStays ==
  ASSUME FlatInv, [Next]_vars
  PROVE  FlatInv'
<1>1. CASE ReplaceUnusable
  BY <1>1, ZeroKeeps
<1>2. CASE ReplaceUnordered
  BY <1>2, CopiesKeep
<1>3. CASE Inline
  BY <1>3, CopiesKeep
<1>4. CASE Finish
  <2>1. UNCHANGED <<nodes, constants, reported>> /\ calls' = <<>> /\ next' = 1 /\ phase' = "done"
    BY <1>4 DEF Finish
  <2>2. Len(calls') = 0 /\ DOMAIN calls' = {} /\ calls' \in Seq([id: Nat, sub: Sub])
    BY <2>1
  <2>3. next > Len(calls) /\ calls \in Seq([id: Nat, sub: Sub]) /\ next \in 1..(Len(calls) + 1)
    BY <1>4 DEF Finish, FlatInv, CallsAreNodes, TypeOK
  <2>4. next..Len(calls) = {}
    BY <2>3
  <2>5. {i \in DOMAIN nodes : nodes[i].op = "call"} = {}
    BY <2>4 DEF FlatInv, CallsAreListed
  <2>6. CallsAreListed'
    <3>1. next'..Len(calls') = {}
      BY <2>1, <2>2
    <3>2. QED BY <2>1, <2>2, <2>5, <3>1 DEF CallsAreListed
  <2>7. TypeOK'
    BY <2>1, <2>2 DEF FlatInv, TypeOK
  <2>8. CallsAreNodes' /\ StartsWithConstants' /\ Grounded(nodes)'
    BY <2>1, <2>2 DEF FlatInv, CallsAreNodes, StartsWithConstants, Grounded
  <2>9. QED BY <2>6, <2>7, <2>8 DEF FlatInv
<1>5. CASE UNCHANGED vars
  BY SMTT(20), <1>5 DEF vars, FlatInv, TypeOK, CallsAreNodes, StartsWithConstants, CallsAreListed, Grounded
<1>6. QED BY <1>1, <1>2, <1>3, <1>4, <1>5 DEF Next

LEMMA FlatInvariant == Spec => []FlatInv
<1>1. Init => FlatInv
  BY FlatInvStarts
<1>2. FlatInv /\ [Next]_vars => FlatInv'
  BY FlatInvStays
<1>3. QED BY <1>1, <1>2, PTL DEF Spec

-----------------------------------------------------------------------------
(* Nodes within some number of operands of the leaves.                     *)

OneMore(known) == {None} \cup {i \in DOMAIN nodes : Operands(nodes[i]) \subseteq known}

Levels(level, m) ==
  level = [n \in 0..m |-> IF n = 0 THEN {None} ELSE OneMore(level[n - 1])]

(* There are as many levels as one likes: each is made of the one before.  *)
LEMMA LevelsExist ==
  ASSUME NEW m \in Nat
  PROVE  \E level : Levels(level, m)
<1> DEFINE Failing == {l \in Nat : ~ \E level : Levels(level, l)}
<1>1. SUFFICES ASSUME Failing # {}
               PROVE  FALSE
  OBVIOUS
<1>2. PICK l \in Failing : \A k \in Failing : l <= k
  <2>1. Failing \in SUBSET Nat
    OBVIOUS
  <2>2. QED BY <1>1, <2>1, LeastNumber
<1>3. l \in Nat /\ ~ \E level : Levels(level, l)
  OBVIOUS
<1>4. CASE l = 0
  <2>1. PICK level : level = [n \in 0..0 |-> {None}]
    OBVIOUS
  <2>2. Levels(level, 0)
    BY <2>1 DEF Levels
  <2>3. QED BY <1>3, <1>4, <2>2
<1>5. CASE l # 0
  <2>1. PICK k : k = l - 1
    OBVIOUS
  <2>2. k \in Nat /\ l = k + 1 /\ k \notin Failing
    BY <1>2, <1>3, <1>5, <2>1
  <2>3. PICK level : Levels(level, k)
    BY <2>2
  <2>4. PICK last : last = OneMore(level[k])
    OBVIOUS
  <2>5. PICK longer : longer = [n \in 0..l |-> IF n = l THEN last ELSE level[n]]
    OBVIOUS
  <2>6. ASSUME NEW n \in 0..l
        PROVE  longer[n] = IF n = 0 THEN {None} ELSE OneMore(longer[n - 1])
    <3>1. CASE n = 0
      <4>1. longer[n] = level[0] /\ 0 \in 0..k
        BY <1>5, <2>2, <2>5, <3>1
      <4>2. level[0] = {None}
        BY <2>3, <4>1 DEF Levels
      <4>3. QED BY <3>1, <4>1, <4>2
    <3>2. CASE n # 0 /\ n # l
      <4>1. n \in 0..k /\ n - 1 \in 0..l /\ n - 1 # l
        BY <2>2, <2>6, <3>2
      <4>2. longer[n] = level[n] /\ longer[n - 1] = level[n - 1]
        BY <2>5, <2>6, <3>2, <4>1
      <4>3. level[n] = OneMore(level[n - 1])
        BY <2>3, <3>2, <4>1 DEF Levels
      <4>4. QED BY <3>2, <4>2, <4>3
    <3>3. CASE n = l
      <4>1. n - 1 = k /\ k \in 0..l /\ k # l
        BY <2>2, <3>3
      <4>2. longer[n] = last /\ longer[n - 1] = level[k]
        BY <2>5, <2>6, <3>3, <4>1
      <4>3. QED BY <1>5, <2>4, <3>3, <4>2
    <3>4. QED BY <3>1, <3>2, <3>3
  <2>7. Levels(longer, l)
    <3>1. longer = [n \in 0..l |-> longer[n]]
      BY <2>5
    <3>2. QED BY <2>6, <3>1 DEF Levels
  <2>8. QED BY <1>3, <2>7
<1>6. QED BY <1>4, <1>5

LEMMA WithinIsALevel ==
  ASSUME NEW m \in Nat, m = Len(nodes)
  PROVE  \E level : Levels(level, m) /\ Within = level[m]
<1>1. PICK level : level = CHOOSE f : Levels(f, m)
  OBVIOUS
<1>2. Levels(level, m)
  BY <1>1, LevelsExist
<1>3. Within = level[m]
  BY <1>1 DEF Within, Levels, OneMore
<1>4. QED BY <1>2, <1>3

(* Every level has all nodes or one node more than the level before.       *)
LEMMA GroundedIsAcyclic ==
  ASSUME nodes \in Seq(NodeType), Grounded(nodes),
         \A i \in DOMAIN nodes : Operands(nodes[i]) \subseteq DOMAIN nodes \cup {None}
  PROVE  Acyclic
<1>1. PICK m : m = Len(nodes)
  OBVIOUS
<1>2. m \in Nat /\ DOMAIN nodes = 1..m
  BY <1>1
<1>3. PICK level : Levels(level, m) /\ Within = level[m]
  BY <1>1, <1>2, WithinIsALevel
<1>4. \A n \in 0..m : level[n] = IF n = 0 THEN {None} ELSE OneMore(level[n - 1])
  BY <1>3 DEF Levels
<1>5. \A n \in 0..m : None \in level[n]
  BY <1>4 DEF OneMore
<1> DEFINE Shrinking == {n \in 1..m : ~(level[n - 1] \subseteq level[n])}
<1>6. Shrinking = {}
  <2>1. SUFFICES ASSUME Shrinking # {}
                 PROVE  FALSE
    OBVIOUS
  <2>2. Shrinking \in SUBSET Nat
    BY <1>2
  <2>3. PICK n \in Shrinking : \A k \in Shrinking : n <= k
    BY <2>1, <2>2, LeastNumber
  <2>4. n \in 1..m /\ ~(level[n - 1] \subseteq level[n])
    OBVIOUS
  <2>5. level[n] = OneMore(level[n - 1])
    BY <1>2, <1>4, <2>4
  <2>6. CASE n = 1
    <3>1. level[n - 1] = {None}
      BY <1>2, <1>4, <2>6
    <3>2. QED BY <1>2, <1>5, <2>4, <3>1
  <2>7. CASE n # 1
    <3>1. PICK k : k = n - 1
      OBVIOUS
    <3>2. k \in 1..m /\ k \in 0..m /\ k # 0 /\ k < n
      BY <1>2, <2>4, <2>7, <3>1
    <3>3. level[k - 1] \subseteq level[k]
      BY <2>3, <3>2
    <3>4. level[k] = OneMore(level[k - 1])
      BY <1>4, <3>2
    <3>5. OneMore(level[k - 1]) \subseteq OneMore(level[k])
      BY <3>3 DEF OneMore
    <3>6. QED BY <2>4, <2>5, <3>1, <3>4, <3>5
  <2>8. QED BY <2>6, <2>7
<1> DEFINE Reachable(n) == {i \in DOMAIN nodes : i \in level[n]}
<1>0. PICK card : card = [n \in 0..m |-> Cardinality(Reachable(n))]
  OBVIOUS
<1> DEFINE Short == {n \in 0..m : ~(DOMAIN nodes \subseteq level[n]) /\ card[n] < n}
<1>7. \A n \in 0..m : /\ IsFiniteSet(Reachable(n)) /\ card[n] = Cardinality(Reachable(n))
                      /\ card[n] \in Nat /\ card[n] <= m
                      /\ (card[n] = m => DOMAIN nodes \subseteq level[n])
  <2>1. IsFiniteSet(DOMAIN nodes) /\ Cardinality(DOMAIN nodes) = m
    BY <1>2, FS_Interval
  <2>2. \A n \in 0..m : Reachable(n) \in SUBSET DOMAIN nodes
    OBVIOUS
  <2>3. ASSUME NEW n \in 0..m
        PROVE  /\ IsFiniteSet(Reachable(n)) /\ card[n] = Cardinality(Reachable(n))
               /\ card[n] \in Nat /\ card[n] <= m
               /\ (card[n] = m => DOMAIN nodes \subseteq level[n])
    <3>1. IsFiniteSet(Reachable(n)) /\ card[n] = Cardinality(Reachable(n))
      BY <1>0, <2>1, <2>2, <2>3, FS_Subset
    <3>2. Cardinality(Reachable(n)) \in Nat /\ Cardinality(Reachable(n)) <= m
      BY <2>1, <2>2, <2>3, <3>1, FS_Subset, FS_CardinalityType
    <3>3. card[n] = m => Reachable(n) = DOMAIN nodes
      BY <2>1, <2>2, <2>3, <3>1, FS_Subset
    <3>4. QED BY <3>1, <3>2, <3>3
  <2>4. QED BY <2>3
<1>8. Short = {}
  <2>1. SUFFICES ASSUME Short # {}
                 PROVE  FALSE
    OBVIOUS
  <2>2. Short \in SUBSET Nat
    BY <1>2
  <2>3. PICK n \in Short : \A k \in Short : n <= k
    BY <2>1, <2>2, LeastNumber
  <2>4. n \in 0..m /\ ~(DOMAIN nodes \subseteq level[n]) /\ card[n] < n
    OBVIOUS
  <2>5. n # 0
    <3>1. card[n] \in Nat
      BY <1>7, <2>4
    <3>2. QED BY <2>4, <3>1
  <2>6. PICK k : k = n - 1
    OBVIOUS
  <2>7. k \in 0..m /\ n \in 1..m /\ k < n /\ n = k + 1
    BY <1>2, <2>4, <2>5, <2>6
  <2>8. level[k] \subseteq level[n] /\ level[n] = OneMore(level[k])
    BY <1>4, <1>6, <2>5, <2>6, <2>7
  <2>9. ~(DOMAIN nodes \subseteq level[k])
    BY <2>4, <2>8
  <2>10. k \notin Short
    BY <2>3, <2>7
  <2>11. card[k] >= k
    <3>1. card[k] \in Nat
      BY <1>7, <2>7
    <3>2. ~(card[k] < k)
      BY <2>7, <2>9, <2>10
    <3>3. QED BY <1>2, <2>7, <3>1, <3>2
  <2>12. PICK X : X = {i \in DOMAIN nodes : i \notin level[k]}
    OBVIOUS
  <2>13. X \in SUBSET DOMAIN nodes /\ X # {}
    BY <2>9, <2>12
  <2>14. PICK i \in X : Operands(nodes[i]) \cap X = {}
    BY <2>13 DEF Grounded
  <2>15. Operands(nodes[i]) \subseteq level[k]
    BY <1>5, <2>7, <2>12, <2>14
  <2>16. i \in level[n]
    BY <2>8, <2>12, <2>14, <2>15 DEF OneMore
  <2>17. Reachable(k) \cup {i} \in SUBSET Reachable(n) /\ i \notin Reachable(k)
    BY <2>8, <2>12, <2>16
  <2>18. Cardinality(Reachable(k) \cup {i}) = Cardinality(Reachable(k)) + 1
    BY <1>7, <2>7, <2>17, FS_AddElement
  <2>19. Cardinality(Reachable(k) \cup {i}) <= Cardinality(Reachable(n))
    BY <1>7, <2>7, <2>17, FS_Subset
  <2>20. card[k] + 1 <= card[n]
    BY <1>7, <2>4, <2>7, <2>18, <2>19
  <2>21. card[k] \in Nat /\ card[n] \in Nat
    BY <1>7, <2>4, <2>7
  <2>22. QED BY <2>4, <2>7, <2>11, <2>20, <2>21
<1>9. m \in 0..m /\ m \notin Short
  BY <1>2, <1>8
<1>10. card[m] \in Nat /\ card[m] <= m /\ (card[m] = m => DOMAIN nodes \subseteq level[m])
  BY <1>7, <1>9
<1>11. DOMAIN nodes \subseteq level[m]
  BY <1>2, <1>9, <1>10
<1>12. QED BY <1>3, <1>11 DEF Acyclic

-----------------------------------------------------------------------------
(* Flattening keeps the graph a graph of its kind: the nodes are of the    *)
(* kinds there are, operands are nodes or none, and the table of constants *)
(* is of the constant nodes.                                               *)
THEOREM FlatTypes == Spec => []TypeOK
<1>1. FlatInv => TypeOK
  BY DEF FlatInv
<1>2. QED BY <1>1, FlatInvariant, PTL

(* However often subroutines call one another, and whichever calls cannot  *)
(* be inlined, every call node is to be flattened exactly once: the loop   *)
(* over the list it appends to leaves none.                                *)
THEOREM CallsLeftListed == Spec => []CallsAreListed
<1>1. FlatInv => CallsAreListed
  BY DEF FlatInv
<1>2. QED BY <1>1, FlatInvariant, PTL

(* Call nodes now read nodes created after them, and still no node is      *)
(* among its own operands, theirs, and so on.                              *)
THEOREM StaysAcyclic == Spec => []Acyclic
<1>1. FlatInv => Acyclic
  BY GroundedIsAcyclic DEF FlatInv, TypeOK
<1>2. QED BY <1>1, FlatInvariant, PTL
=============================================================================

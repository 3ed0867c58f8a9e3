-------------------------- MODULE TigLowering_proofs --------------------------
(***************************************************************************)
(* Proofs about TigBuilder and its client TigLowering, in this order.      *)
(*                                                                         *)
(* The first part is about TigSpec: for every client and all names and     *)
(* clocks, the invariants of the netlist.  Each action is treated in two   *)
(* parts: a lemma <Action>Effect says what it leaves in nodes and          *)
(* inputSpecs, as far as the invariant reads them, and a lemma about the   *)
(* step concludes IInv' from that.  Steps keep nodes (Kept), so what is    *)
(* said of a reference outlives them (KeptReferences); a node no call      *)
(* touches stays sound (Untouched).                                        *)
(*                                                                         *)
(* The second part is about Spec: for every module body, whatever its      *)
(* names, members and clocks, the netlist is right when all names are      *)
(* resolved.  The handlers keep to what TigBuilder allows (ImplementsTig), *)
(* so that the first part holds here.  What signal_maps_ has is tied to    *)
(* the drivers of the text and the inputs of the module (Sourced), and     *)
(* what wire_connections leaves to signal_maps_ (Wired).                   *)
(***************************************************************************)
EXTENDS TigLowering, FiniteSetTheorems, TLAPS

-----------------------------------------------------------------------------
(* The inductive invariant.                                                *)

Typed == TigTypeOK /\ IsFiniteSet(pendingFfs)

Driver(ref, kinds) == ref # Unconnected /\ nodes[ref.node].kind \in kinds

(* Only a node that is still built loses its specs.                        *)
Aligned(n) ==
  \/ Len(inputSpecs[n]) = Len(nodes[n].inputs)
  \/ inputSpecs[n] = <<>> /\ nodes[n].kind \in {"op", "instance"}

(* A node by its kind: its outputs, and the inputs no name decides.        *)
Shaped(n) ==
  /\ nodes[n].kind = "po" => Len(nodes[n].outputs) = 0
  /\ nodes[n].kind \in {"merge", "ff", "ff_merge"} => Len(nodes[n].outputs) = 1
  /\ nodes[n].kind \in {"merge", "ff_merge"} =>
       \A k \in DOMAIN nodes[n].inputs : inputSpecs[n][k] = NoName
  /\ nodes[n].kind = "ff" => inputSpecs[n][1] = NoName /\ Len(nodes[n].inputs) \in {2, 3}

(* The conjunct of DriversAreLayered for n.                                *)
Layered(n) ==
  /\ nodes[n].kind = "merge" =>
       \A k \in DOMAIN nodes[n].inputs : Driver(nodes[n].inputs[k], {"pi", "op", "instance"})
  /\ nodes[n].kind = "ff" => Driver(nodes[n].inputs[1], {"op", "merge"})
  /\ nodes[n].kind = "ff_merge" =>
       \A k \in DOMAIN nodes[n].inputs :
         Driver(nodes[n].inputs[k], {"ff"}) /\ nodes[n].inputs[k].port = 1

Sound(n) ==
  /\ Aligned(n)
  /\ Shaped(n)
  /\ Layered(n)
  /\ \A k \in DOMAIN nodes[n].inputs : Existing(nodes[n].inputs[k])

(* A register comes after the visit.                                       *)
Visited == phase = "visit" => \A n \in DOMAIN nodes : nodes[n].kind \notin {"ff", "ff_merge"}

(* While a register is pending, operations drive its name; a name being    *)
(* split by clock domain is over registers so far.                         *)
Held ==
  /\ \A name \in Name : Existing(signalMap[name])
  /\ \A f \in pendingFfs :
       Existing(f.ref) /\ Driver(f.ref, {"op"}) /\ Driver(signalMap[f.name], {"op", "merge"})
  /\ \A k \in DOMAIN ffMerge.ffs :
       Existing(ffMerge.ffs[k]) /\ Driver(ffMerge.ffs[k], {"ff"}) /\ ffMerge.ffs[k].port = 1

Structure ==
  /\ Len(inputSpecs) = Len(nodes)
  /\ \A n \in DOMAIN nodes : Sound(n)
  /\ Visited
  /\ Held

IInv == Typed /\ Structure

-----------------------------------------------------------------------------
(* Changing a sequence of nodes.                                           *)

Names == Name \cup {NoName}

Specs == Seq(Names)

LEMMA NameTypes == NoName \in Names /\ \A name \in Name : name \in Names
  BY DEF Names

LEMMA NodeFields ==
  ASSUME NEW x \in NodeType
  PROVE  /\ x.kind \in {"pi", "po", "op", "instance", "merge", "ff", "ff_merge"}
         /\ x.inputs \in Seq(Reference)
         /\ x.outputs \in Seq(Names)
         /\ \A q \in Seq(Reference) : [x EXCEPT !.inputs = q] \in NodeType
         /\ \A q \in Seq(Names) : [x EXCEPT !.outputs = q] \in NodeType
  BY DEF NodeType, Names

LEMMA Appended ==
  ASSUME NEW S, NEW q \in Seq(S), NEW x \in S
  PROVE  /\ Append(q, x) \in Seq(S)
         /\ Len(Append(q, x)) = Len(q) + 1
         /\ DOMAIN Append(q, x) = 1..(Len(q) + 1)
         /\ \A k \in DOMAIN q : Append(q, x)[k] = q[k]
         /\ Append(q, x)[Len(q) + 1] = x
  OBVIOUS

Put(q, i, x) == [q EXCEPT ![i] = x]

LEMMA Replaced ==
  ASSUME NEW S, NEW q \in Seq(S), NEW i \in DOMAIN q, NEW x \in S
  PROVE  /\ Put(q, i, x) \in Seq(S)
         /\ Len(Put(q, i, x)) = Len(q)
         /\ DOMAIN Put(q, i, x) = DOMAIN q
         /\ \A k \in DOMAIN q : Put(q, i, x)[k] = IF k = i THEN x ELSE q[k]
  BY DEF Put

(* One more input, one more output, or an output that gives up its name.   *)
WithIn(ns, n, ref) == [ns EXCEPT ![n].inputs = Append(@, ref)]
WithOut(ns, n, name) == [ns EXCEPT ![n].outputs = Append(@, name)]
Without(ns, n, p) == [ns EXCEPT ![n].outputs[p] = NoName]

LEMMA InputAdded ==
  ASSUME NEW ns \in Seq(NodeType), NEW n \in DOMAIN ns, NEW ref \in Reference
  PROVE  LET new == WithIn(ns, n, ref)
         IN  /\ new \in Seq(NodeType)
             /\ Len(new) = Len(ns)
             /\ \A m \in DOMAIN ns :
                  /\ new[m].kind = ns[m].kind
                  /\ new[m].outputs = ns[m].outputs
                  /\ new[m].inputs = IF m = n THEN Append(ns[n].inputs, ref) ELSE ns[m].inputs
<1> DEFINE x == [ns[n] EXCEPT !.inputs = Append(ns[n].inputs, ref)]
<1>1. ns[n] \in NodeType /\ Append(ns[n].inputs, ref) \in Seq(Reference)
  BY NodeFields, Appended
<1>2. x \in NodeType
  BY <1>1, NodeFields
<1>3. /\ x.kind = ns[n].kind /\ x.outputs = ns[n].outputs
      /\ x.inputs = Append(ns[n].inputs, ref)
  BY <1>1 DEF NodeType
<1>4. WithIn(ns, n, ref) = Put(ns, n, x)
  BY DEF Put, WithIn
<1> HIDE DEF x
<1>5. /\ Put(ns, n, x) \in Seq(NodeType)
      /\ Len(Put(ns, n, x)) = Len(ns)
      /\ \A m \in DOMAIN ns : Put(ns, n, x)[m] = IF m = n THEN x ELSE ns[m]
  BY <1>2, Replaced
<1> QED
  BY <1>3, <1>4, <1>5

LEMMA OutputAdded ==
  ASSUME NEW ns \in Seq(NodeType), NEW n \in DOMAIN ns, NEW name \in Names
  PROVE  LET new == WithOut(ns, n, name)
         IN  /\ new \in Seq(NodeType)
             /\ Len(new) = Len(ns)
             /\ \A m \in DOMAIN ns :
                  /\ new[m].kind = ns[m].kind
                  /\ new[m].inputs = ns[m].inputs
                  /\ new[m].outputs = IF m = n THEN Append(ns[n].outputs, name) ELSE ns[m].outputs
<1> DEFINE x == [ns[n] EXCEPT !.outputs = Append(ns[n].outputs, name)]
<1>1. ns[n] \in NodeType /\ Append(ns[n].outputs, name) \in Seq(Names)
  BY NodeFields, Appended
<1>2. x \in NodeType
  BY <1>1, NodeFields
<1>3. /\ x.kind = ns[n].kind /\ x.inputs = ns[n].inputs
      /\ x.outputs = Append(ns[n].outputs, name)
  BY <1>1 DEF NodeType
<1>4. WithOut(ns, n, name) = Put(ns, n, x)
  BY DEF Put, WithOut
<1> HIDE DEF x
<1>5. /\ Put(ns, n, x) \in Seq(NodeType)
      /\ Len(Put(ns, n, x)) = Len(ns)
      /\ \A m \in DOMAIN ns : Put(ns, n, x)[m] = IF m = n THEN x ELSE ns[m]
  BY <1>2, Replaced
<1> QED
  BY <1>3, <1>4, <1>5

LEMMA OutputHidden ==
  ASSUME NEW ns \in Seq(NodeType), NEW n \in DOMAIN ns, NEW p \in DOMAIN ns[n].outputs
  PROVE  LET new == Without(ns, n, p)
         IN  /\ new \in Seq(NodeType)
             /\ Len(new) = Len(ns)
             /\ \A m \in DOMAIN ns :
                  /\ new[m].kind = ns[m].kind
                  /\ new[m].inputs = ns[m].inputs
                  /\ Len(new[m].outputs) = Len(ns[m].outputs)
                  /\ \A k \in DOMAIN ns[m].outputs :
                       new[m].outputs[k] = IF m = n /\ k = p THEN NoName ELSE ns[m].outputs[k]
<1>1. ns[n] \in NodeType /\ ns[n].outputs \in Seq(Names)
  BY NodeFields
<1>7. PICK q : q = ns[n].outputs
  OBVIOUS
<1> DEFINE out == Put(q, p, NoName)
           x == [ns[n] EXCEPT !.outputs = out]
<1>2. /\ out \in Seq(Names)
      /\ Len(out) = Len(ns[n].outputs)
      /\ \A k \in DOMAIN ns[n].outputs : out[k] = IF k = p THEN NoName ELSE ns[n].outputs[k]
  <2>1. q \in Seq(Names) /\ p \in DOMAIN q /\ NoName \in Names
    BY <1>1, <1>7, NameTypes
  <2>2. /\ out \in Seq(Names) /\ Len(out) = Len(q)
        /\ \A k \in DOMAIN q : out[k] = IF k = p THEN NoName ELSE q[k]
    BY <2>1, Replaced
  <2> QED
    BY <1>7, <2>2
<1>3. Without(ns, n, p) = Put(ns, n, x)
  BY <1>7 DEF Put, Without
<1> HIDE DEF out
<1>4. x \in NodeType
  BY <1>1, <1>2, NodeFields
<1>5. x.kind = ns[n].kind /\ x.inputs = ns[n].inputs /\ x.outputs = out
  BY <1>1 DEF NodeType
<1> HIDE DEF x
<1>6. /\ Put(ns, n, x) \in Seq(NodeType)
      /\ Len(Put(ns, n, x)) = Len(ns)
      /\ \A m \in DOMAIN ns : Put(ns, n, x)[m] = IF m = n THEN x ELSE ns[m]
  BY <1>4, Replaced
<1> QED
  BY <1>2, <1>3, <1>5, <1>6

-----------------------------------------------------------------------------
(* What the actions do to the nodes.                                       *)

(* The nodes there were are still there, with their kinds and outputs.     *)
Kept ==
  \A m \in DOMAIN nodes :
    /\ m \in DOMAIN nodes'
    /\ nodes'[m].kind = nodes[m].kind
    /\ DOMAIN nodes[m].outputs \subseteq DOMAIN nodes'[m].outputs

LEMMA Elements ==
  ASSUME NEW S, NEW q \in Seq(S)
  PROVE  /\ DOMAIN q = 1..Len(q) /\ Len(q) \in Nat
         /\ \A k \in DOMAIN q : q[k] \in S
  OBVIOUS

LEMMA Domains ==
  ASSUME TigTypeOK
  PROVE  /\ DOMAIN nodes = 1..Len(nodes) /\ Len(nodes) \in Nat
         /\ DOMAIN inputSpecs = 1..Len(inputSpecs) /\ Len(inputSpecs) \in Nat
         /\ \A n \in DOMAIN nodes :
              /\ nodes[n] \in NodeType
              /\ nodes[n].inputs \in Seq(Reference)
              /\ nodes[n].outputs \in Specs
              /\ DOMAIN nodes[n].outputs = 1..Len(nodes[n].outputs)
              /\ DOMAIN nodes[n].inputs = 1..Len(nodes[n].inputs)
         /\ \A n \in DOMAIN inputSpecs :
              inputSpecs[n] \in Specs /\ DOMAIN inputSpecs[n] = 1..Len(inputSpecs[n])
<1>1. nodes \in Seq(NodeType) /\ inputSpecs \in Seq(Specs)
  BY DEF TigTypeOK, Specs, Names
<1>2. \A n \in DOMAIN nodes : nodes[n] \in NodeType
  BY <1>1
<1>3. \A n \in DOMAIN nodes : nodes[n].inputs \in Seq(Reference) /\ nodes[n].outputs \in Specs
  BY <1>2 DEF NodeType, Specs, Names
<1> QED
  BY <1>1, <1>2, <1>3, Elements DEF Specs

PlainKinds == {"pi", "po", "op", "instance", "merge", "ff_merge"}

LEMMA PlainType ==
  ASSUME NEW kind \in PlainKinds, NEW ins \in Seq(Reference), NEW outs \in Specs
  PROVE  /\ Plain(kind, ins, outs) \in NodeType
         /\ Plain(kind, ins, outs).kind = kind
         /\ Plain(kind, ins, outs).inputs = ins
         /\ Plain(kind, ins, outs).outputs = outs
<1>1. AnyEdge \in Edge
  BY EdgesExist DEF AnyEdge
<1> QED
  BY <1>1 DEF Plain, PlainKinds, Node, NodeType, Specs, Names

LEMMA RefType ==
  ASSUME NEW n \in Nat, NEW p \in Nat
  PROVE  /\ Ref(n, p) \in Reference /\ Ref(n, p).node = n /\ Ref(n, p).port = p
         /\ n # 0 => Ref(n, p) # Unconnected
         /\ Unconnected \in Reference /\ Unconnected.node = 0 /\ Unconnected.port = 0
  BY DEF Ref, Reference, Unconnected

(* References and drivers outlive every step that keeps the nodes.         *)
LEMMA KeptReferences ==
  ASSUME TigTypeOK, Kept, NEW ref, Existing(ref)
  PROVE  /\ Existing(ref)'
         /\ \A kinds : Driver(ref, kinds) => Driver(ref, kinds)'
  BY DEF Kept, Existing, Driver, Unconnected, Ref

LEMMA CreateNodeEffect ==
  ASSUME TigTypeOK, NEW x \in NodeType, NEW specs \in Specs, CreateNode(x, specs)
  PROVE  /\ nodes' \in Seq(NodeType)
         /\ inputSpecs' \in Seq(Specs)
         /\ Len(nodes') = Len(nodes) + 1
         /\ Len(inputSpecs') = Len(inputSpecs) + 1
         /\ \A m \in DOMAIN nodes : nodes'[m] = nodes[m]
         /\ \A m \in DOMAIN inputSpecs : inputSpecs'[m] = inputSpecs[m]
         /\ nodes'[Len(nodes) + 1] = x
         /\ inputSpecs'[Len(inputSpecs) + 1] = specs
         /\ Kept
<1>1. nodes \in Seq(NodeType) /\ inputSpecs \in Seq(Specs)
  BY DEF TigTypeOK, Specs, Names
<1>2. nodes' = Append(nodes, x) /\ inputSpecs' = Append(inputSpecs, specs)
  BY DEF CreateNode
<1>3. /\ nodes' \in Seq(NodeType) /\ Len(nodes') = Len(nodes) + 1
      /\ DOMAIN nodes' = 1..(Len(nodes) + 1)
      /\ \A m \in DOMAIN nodes : nodes'[m] = nodes[m]
      /\ nodes'[Len(nodes) + 1] = x
  BY <1>1, <1>2, Appended
<1>4. /\ inputSpecs' \in Seq(Specs) /\ Len(inputSpecs') = Len(inputSpecs) + 1
      /\ \A m \in DOMAIN inputSpecs : inputSpecs'[m] = inputSpecs[m]
      /\ inputSpecs'[Len(inputSpecs) + 1] = specs
  BY <1>1, <1>2, Appended
<1>5. Kept
  BY <1>3, Domains DEF Kept
<1> QED
  BY <1>3, <1>4, <1>5

LEMMA ConnectInputEffect ==
  ASSUME TigTypeOK, NEW n \in DOMAIN nodes, n \in DOMAIN inputSpecs, NEW ref \in Reference,
         NEW name \in Names, ConnectInput(n, ref, name)
  PROVE  /\ nodes' \in Seq(NodeType)
         /\ inputSpecs' \in Seq(Specs)
         /\ Len(nodes') = Len(nodes)
         /\ Len(inputSpecs') = Len(inputSpecs)
         /\ \A m \in DOMAIN nodes :
              /\ nodes'[m].kind = nodes[m].kind
              /\ nodes'[m].outputs = nodes[m].outputs
              /\ nodes'[m].inputs = IF m = n THEN Append(nodes[n].inputs, ref) ELSE nodes[m].inputs
         /\ \A m \in DOMAIN inputSpecs :
              inputSpecs'[m] = IF m = n THEN Append(inputSpecs[n], name) ELSE inputSpecs[m]
         /\ Kept
<1>1. nodes \in Seq(NodeType) /\ inputSpecs \in Seq(Specs)
  BY DEF TigTypeOK, Specs, Names
<1>2. nodes' = WithIn(nodes, n, ref)
  BY DEF ConnectInput, WithIn
<1>3. /\ nodes' \in Seq(NodeType) /\ Len(nodes') = Len(nodes)
      /\ \A m \in DOMAIN nodes :
           /\ nodes'[m].kind = nodes[m].kind
           /\ nodes'[m].outputs = nodes[m].outputs
           /\ nodes'[m].inputs = IF m = n THEN Append(nodes[n].inputs, ref) ELSE nodes[m].inputs
  BY <1>1, <1>2, InputAdded
<1>4. Append(inputSpecs[n], name) \in Specs
  BY <1>1, Domains, Appended DEF Specs
<1>5. inputSpecs' = Put(inputSpecs, n, Append(inputSpecs[n], name))
  BY DEF ConnectInput, Put
<1>6. /\ inputSpecs' \in Seq(Specs) /\ Len(inputSpecs') = Len(inputSpecs)
      /\ \A m \in DOMAIN inputSpecs :
           inputSpecs'[m] = IF m = n THEN Append(inputSpecs[n], name) ELSE inputSpecs[m]
  BY <1>1, <1>4, <1>5, Replaced
<1>7. Kept
  BY <1>1, <1>3, Domains DEF Kept
<1> QED
  BY <1>3, <1>6, <1>7

LEMMA BuildsNode ==
  ASSUME TigTypeOK, NEW n, Builds(n)
  PROVE  /\ n \in DOMAIN nodes /\ n \in Nat /\ n # 0
         /\ nodes[n].kind \in {"op", "instance"}
         /\ phase = "visit"
         /\ NextOutput(n) \in Reference /\ NextOutput(n) # Unconnected
         /\ NextOutput(n).node = n /\ NextOutput(n).port = Len(nodes[n].outputs) + 1
  BY Domains, RefType DEF Builds, NextOutput, Specs

LEMMA ExistingDriver ==
  ASSUME TigTypeOK, NEW ref \in Reference, Existing(ref), ref # Unconnected
  PROVE  /\ ref.node \in DOMAIN nodes /\ ref.port \in DOMAIN nodes[ref.node].outputs
         /\ ref = Ref(ref.node, ref.port)
  BY DEF Existing, Reference, Ref

LEMMA AddFirstDriverEffect ==
  ASSUME TigTypeOK, NEW n, NEW name \in Names, AddFirstDriver(n, name)
  PROVE  /\ nodes' \in Seq(NodeType)
         /\ Len(nodes') = Len(nodes)
         /\ \A m \in DOMAIN nodes :
              /\ nodes'[m].kind = nodes[m].kind
              /\ nodes'[m].inputs = nodes[m].inputs
              /\ nodes'[m].outputs = IF m = n THEN Append(nodes[n].outputs, name) ELSE nodes[m].outputs
         /\ Kept
<1>1. n \in DOMAIN nodes /\ nodes \in Seq(NodeType)
  BY BuildsNode DEF AddFirstDriver, TigTypeOK
<1>2. nodes' = WithOut(nodes, n, name)
  BY DEF AddFirstDriver, WithOutput, WithOut
<1>3. /\ nodes' \in Seq(NodeType) /\ Len(nodes') = Len(nodes)
      /\ \A m \in DOMAIN nodes :
           /\ nodes'[m].kind = nodes[m].kind
           /\ nodes'[m].inputs = nodes[m].inputs
           /\ nodes'[m].outputs = IF m = n THEN Append(nodes[n].outputs, name) ELSE nodes[m].outputs
  BY <1>1, <1>2, OutputAdded
<1>4. DOMAIN nodes[n].outputs \subseteq DOMAIN Append(nodes[n].outputs, name)
  BY <1>1, Domains DEF Specs
<1>5. DOMAIN nodes' = DOMAIN nodes
  BY <1>1, <1>3
<1>6. ASSUME NEW m \in DOMAIN nodes
      PROVE  DOMAIN nodes[m].outputs \subseteq DOMAIN nodes'[m].outputs
  <2>1. CASE m = n
    BY <1>3, <1>4, <2>1
  <2>2. CASE m # n
    BY <1>3, <2>2
  <2> QED
    BY <2>1, <2>2
<1>7. Kept
  BY <1>3, <1>5, <1>6 DEF Kept
<1> QED
  BY <1>3, <1>7

LEMMA HideDriverEffect ==
  ASSUME TigTypeOK, NEW old \in Reference, Existing(old), old # Unconnected
  PROVE  /\ HideDriver(old) \in Seq(NodeType)
         /\ Len(HideDriver(old)) = Len(nodes)
         /\ \A m \in DOMAIN nodes :
              /\ HideDriver(old)[m].kind = nodes[m].kind
              /\ HideDriver(old)[m].inputs = nodes[m].inputs
              /\ Len(HideDriver(old)[m].outputs) = Len(nodes[m].outputs)
              /\ \A k \in DOMAIN nodes[m].outputs :
                   HideDriver(old)[m].outputs[k] =
                     IF nodes[m].kind = "op" /\ old = Ref(m, k) THEN NoName ELSE nodes[m].outputs[k]
<1>1. /\ old.node \in DOMAIN nodes /\ old.port \in DOMAIN nodes[old.node].outputs
      /\ nodes \in Seq(NodeType) /\ old = Ref(old.node, old.port)
  BY ExistingDriver DEF TigTypeOK
<1>2. CASE nodes[old.node].kind = "op"
  <2>1. HideDriver(old) = Without(nodes, old.node, old.port)
    BY <1>2 DEF HideDriver, Without
  <2>2. /\ HideDriver(old) \in Seq(NodeType)
        /\ Len(HideDriver(old)) = Len(nodes)
        /\ \A m \in DOMAIN nodes :
             /\ HideDriver(old)[m].kind = nodes[m].kind
             /\ HideDriver(old)[m].inputs = nodes[m].inputs
             /\ Len(HideDriver(old)[m].outputs) = Len(nodes[m].outputs)
             /\ \A k \in DOMAIN nodes[m].outputs :
                  HideDriver(old)[m].outputs[k] =
                    IF m = old.node /\ k = old.port THEN NoName ELSE nodes[m].outputs[k]
    BY <1>1, <2>1, OutputHidden
  <2>3. \A m, k : old = Ref(m, k) <=> m = old.node /\ k = old.port
    BY <1>1 DEF Ref
  <2> QED
    BY <1>2, <2>2, <2>3
<1>3. CASE nodes[old.node].kind # "op"
  <2>1. HideDriver(old) = nodes
    BY <1>3 DEF HideDriver
  <2>2. \A m, k : old = Ref(m, k) => m = old.node
    BY <1>1 DEF Ref
  <2> QED
    BY <1>1, <1>3, <2>1, <2>2
<1> QED
  BY <1>2, <1>3

LEMMA AddSecondDriverEffect ==
  ASSUME TigTypeOK, Held, NEW n, NEW name \in Name, AddSecondDriver(n, name)
  PROVE  /\ nodes' \in Seq(NodeType)
         /\ Len(nodes') = Len(nodes) + 1
         /\ \A m \in DOMAIN nodes :
              /\ nodes'[m].kind = nodes[m].kind
              /\ nodes'[m].inputs = nodes[m].inputs
              /\ Len(nodes'[m].outputs) = Len(nodes[m].outputs) + (IF m = n THEN 1 ELSE 0)
              /\ \A k \in DOMAIN nodes[m].outputs :
                   nodes'[m].outputs[k] =
                     IF nodes[m].kind = "op" /\ signalMap[name] = Ref(m, k) THEN NoName
                     ELSE nodes[m].outputs[k]
         /\ nodes'[n].outputs[Len(nodes[n].outputs) + 1] = NoName
         /\ nodes'[Len(nodes) + 1].kind = "merge"
         /\ nodes'[Len(nodes) + 1].inputs = <<signalMap[name], NextOutput(n)>>
         /\ nodes'[Len(nodes) + 1].outputs = <<name>>
         /\ Kept
<1> DEFINE old == signalMap[name]
           hidden == HideDriver(old)
           more == WithOut(hidden, n, NoName)
           merge == Plain("merge", <<old, NextOutput(n)>>, <<name>>)
<1>1. /\ old \in Reference /\ Existing(old) /\ old # Unconnected
      /\ Builds(n) /\ nodes' = Append(more, merge)
  BY DEF AddSecondDriver, TigTypeOK, Held, WithOut
<1>2. n \in DOMAIN nodes /\ NextOutput(n) \in Reference
  BY <1>1, BuildsNode
<1>3. /\ hidden \in Seq(NodeType) /\ Len(hidden) = Len(nodes)
      /\ \A m \in DOMAIN nodes :
           /\ hidden[m].kind = nodes[m].kind
           /\ hidden[m].inputs = nodes[m].inputs
           /\ Len(hidden[m].outputs) = Len(nodes[m].outputs)
           /\ \A k \in DOMAIN nodes[m].outputs :
                hidden[m].outputs[k] =
                  IF nodes[m].kind = "op" /\ old = Ref(m, k) THEN NoName ELSE nodes[m].outputs[k]
  BY <1>1, HideDriverEffect
<1> HIDE DEF hidden
<1>4. DOMAIN hidden = DOMAIN nodes /\ \A m \in DOMAIN nodes : hidden[m] \in NodeType
  BY <1>3, Domains
<1>5. \A m \in DOMAIN nodes :
        hidden[m].outputs \in Specs /\ DOMAIN hidden[m].outputs = DOMAIN nodes[m].outputs
  BY <1>3, <1>4, Domains, NodeFields, Elements DEF Specs
<1>6. /\ more \in Seq(NodeType) /\ Len(more) = Len(nodes)
      /\ \A m \in DOMAIN nodes :
           /\ more[m].kind = hidden[m].kind
           /\ more[m].inputs = hidden[m].inputs
           /\ more[m].outputs = IF m = n THEN Append(hidden[n].outputs, NoName) ELSE hidden[m].outputs
  <2>1. PICK base : base = hidden
    OBVIOUS
  <2>2. base \in Seq(NodeType) /\ n \in DOMAIN base /\ NoName \in Names
    BY <1>2, <1>3, <1>4, <2>1, NameTypes
  <2>3. /\ WithOut(base, n, NoName) \in Seq(NodeType)
        /\ Len(WithOut(base, n, NoName)) = Len(base)
        /\ \A m \in DOMAIN base :
             /\ WithOut(base, n, NoName)[m].kind = base[m].kind
             /\ WithOut(base, n, NoName)[m].inputs = base[m].inputs
             /\ WithOut(base, n, NoName)[m].outputs =
                  IF m = n THEN Append(base[n].outputs, NoName) ELSE base[m].outputs
    BY <2>2, OutputAdded
  <2> QED
    BY <1>3, <1>4, <2>1, <2>3
<1>7. /\ merge \in NodeType /\ merge.kind = "merge"
      /\ merge.inputs = <<old, NextOutput(n)>> /\ merge.outputs = <<name>>
  <2>1. PICK ins, outs : ins = <<old, NextOutput(n)>> /\ outs = <<name>>
    OBVIOUS
  <2>2. ins \in Seq(Reference) /\ outs \in Specs /\ "merge" \in PlainKinds
    BY <1>1, <1>2, <2>1, NameTypes DEF Specs, PlainKinds
  <2>3. /\ Plain("merge", ins, outs) \in NodeType /\ Plain("merge", ins, outs).kind = "merge"
        /\ Plain("merge", ins, outs).inputs = ins /\ Plain("merge", ins, outs).outputs = outs
    BY <2>2, PlainType
  <2> QED
    BY <2>1, <2>3
<1> HIDE DEF more, merge
<1>8. /\ nodes' \in Seq(NodeType) /\ Len(nodes') = Len(nodes) + 1
      /\ DOMAIN nodes' = 1..(Len(nodes) + 1)
      /\ \A m \in DOMAIN nodes : nodes'[m] = more[m]
      /\ nodes'[Len(nodes) + 1] = merge
  BY <1>1, <1>6, <1>7, Appended, Domains
<1>9. /\ Len(Append(hidden[n].outputs, NoName)) = Len(nodes[n].outputs) + 1
      /\ DOMAIN nodes[n].outputs \subseteq DOMAIN Append(hidden[n].outputs, NoName)
      /\ \A k \in DOMAIN nodes[n].outputs : Append(hidden[n].outputs, NoName)[k] = hidden[n].outputs[k]
      /\ Append(hidden[n].outputs, NoName)[Len(nodes[n].outputs) + 1] = NoName
  <2>1. PICK q : q = hidden[n].outputs
    OBVIOUS
  <2>2. /\ q \in Seq(Names) /\ NoName \in Names
        /\ DOMAIN q = DOMAIN nodes[n].outputs /\ Len(q) = Len(nodes[n].outputs)
    BY <1>2, <1>3, <1>5, <2>1, NameTypes DEF Specs
  <2>3. /\ Len(Append(q, NoName)) = Len(q) + 1
        /\ DOMAIN q \subseteq DOMAIN Append(q, NoName)
        /\ \A k \in DOMAIN q : Append(q, NoName)[k] = q[k]
        /\ Append(q, NoName)[Len(q) + 1] = NoName
    BY <2>2
  <2> QED
    BY <2>1, <2>2, <2>3
<1>10. ASSUME NEW m \in DOMAIN nodes
       PROVE  /\ nodes'[m].kind = nodes[m].kind
              /\ nodes'[m].inputs = nodes[m].inputs
              /\ Len(nodes'[m].outputs) = Len(nodes[m].outputs) + (IF m = n THEN 1 ELSE 0)
              /\ DOMAIN nodes[m].outputs \subseteq DOMAIN nodes'[m].outputs
              /\ \A k \in DOMAIN nodes[m].outputs : nodes'[m].outputs[k] = hidden[m].outputs[k]
  <2>1. nodes'[m].kind = nodes[m].kind /\ nodes'[m].inputs = nodes[m].inputs
    BY <1>3, <1>6, <1>8
  <2>2. CASE m = n
    <3>1. nodes'[m].outputs = Append(hidden[n].outputs, NoName)
      BY <1>6, <1>8, <2>2
    <3> QED
      BY <1>9, <2>1, <2>2, <3>1
  <2>3. CASE m # n
    <3>1. nodes'[m].outputs = hidden[m].outputs
      BY <1>6, <1>8, <2>3
    <3> QED
      BY <1>3, <1>5, <2>1, <2>3, <3>1, Domains
  <2> QED
    BY <2>2, <2>3
<1>11. nodes'[n].outputs = Append(hidden[n].outputs, NoName)
  BY <1>2, <1>6, <1>8
<1>12. DOMAIN nodes \subseteq DOMAIN nodes'
  BY <1>8, Domains
<1>13. Kept
  BY <1>10, <1>12 DEF Kept
<1>14. \A m \in DOMAIN nodes : \A k \in DOMAIN nodes[m].outputs :
         nodes'[m].outputs[k] =
           IF nodes[m].kind = "op" /\ old = Ref(m, k) THEN NoName ELSE nodes[m].outputs[k]
  <2>1. SUFFICES ASSUME NEW m \in DOMAIN nodes, NEW k \in DOMAIN nodes[m].outputs
        PROVE  nodes'[m].outputs[k] =
                 IF nodes[m].kind = "op" /\ old = Ref(m, k) THEN NoName ELSE nodes[m].outputs[k]
    OBVIOUS
  <2>2. nodes'[m].outputs[k] = hidden[m].outputs[k]
    BY <1>10
  <2> QED
    BY <1>3, <2>2
<1>15. /\ nodes'[Len(nodes) + 1].kind = "merge"
       /\ nodes'[Len(nodes) + 1].inputs = <<old, NextOutput(n)>>
       /\ nodes'[Len(nodes) + 1].outputs = <<name>>
  BY <1>7, <1>8
<1> HIDE DEF old
<1>16. nodes'[n].outputs[Len(nodes[n].outputs) + 1] = NoName
  BY <1>9, <1>11
<1> USE DEF old
<1> QED
  BY <1>8, <1>10, <1>13, <1>14, <1>15, <1>16

LEMMA AddLaterDriverEffect ==
  ASSUME TigTypeOK, Held, Len(inputSpecs) = Len(nodes), NEW n, NEW name \in Name,
         AddLaterDriver(n, name)
  PROVE  \E merge \in DOMAIN nodes :
         /\ nodes[merge].kind = "merge"
         /\ nodes' \in Seq(NodeType)
         /\ inputSpecs' \in Seq(Specs)
         /\ Len(nodes') = Len(nodes)
         /\ Len(inputSpecs') = Len(inputSpecs)
         /\ \A m \in DOMAIN nodes :
              /\ nodes'[m].kind = nodes[m].kind
              /\ nodes'[m].inputs =
                   IF m = merge THEN Append(nodes[m].inputs, NextOutput(n)) ELSE nodes[m].inputs
              /\ nodes'[m].outputs =
                   IF m = n THEN Append(nodes[m].outputs, NoName) ELSE nodes[m].outputs
         /\ \A m \in DOMAIN inputSpecs :
              inputSpecs'[m] =
                IF m = merge THEN Append(inputSpecs[m], NoName) ELSE inputSpecs[m]
         /\ Kept
<1>0. PICK merge : merge = signalMap[name].node
  OBVIOUS
<1> DEFINE out == WithOut(nodes, n, NoName)
<1>1. /\ Builds(n) /\ signalMap[name] \in Reference /\ Existing(signalMap[name])
      /\ signalMap[name] # Unconnected /\ nodes[merge].kind = "merge"
      /\ nodes \in Seq(NodeType) /\ inputSpecs \in Seq(Specs)
  BY <1>0 DEF AddLaterDriver, TigTypeOK, Held, Specs, Names
<1>2. merge \in DOMAIN nodes
  BY <1>0, <1>1, ExistingDriver
<1>3. merge \in DOMAIN inputSpecs
  BY <1>2, Domains
<1>4. n \in DOMAIN nodes /\ NextOutput(n) \in Reference /\ NoName \in Names /\ n # merge
  BY <1>1, BuildsNode, NameTypes
<1>5. nodes' = WithIn(out, merge, NextOutput(n))
  BY <1>0 DEF AddLaterDriver, WithIn, WithOut
<1>6. inputSpecs' = Put(inputSpecs, merge, Append(inputSpecs[merge], NoName))
  BY <1>0 DEF AddLaterDriver, Put
<1>7. /\ out \in Seq(NodeType) /\ Len(out) = Len(nodes)
      /\ \A m \in DOMAIN nodes :
           /\ out[m].kind = nodes[m].kind
           /\ out[m].inputs = nodes[m].inputs
           /\ out[m].outputs = IF m = n THEN Append(nodes[n].outputs, NoName) ELSE nodes[m].outputs
  <2>1. /\ WithOut(nodes, n, NoName) \in Seq(NodeType)
        /\ Len(WithOut(nodes, n, NoName)) = Len(nodes)
        /\ \A m \in DOMAIN nodes :
             /\ WithOut(nodes, n, NoName)[m].kind = nodes[m].kind
             /\ WithOut(nodes, n, NoName)[m].inputs = nodes[m].inputs
             /\ WithOut(nodes, n, NoName)[m].outputs =
                  IF m = n THEN Append(nodes[n].outputs, NoName) ELSE nodes[m].outputs
    <3>1. nodes \in Seq(NodeType) /\ n \in DOMAIN nodes /\ NoName \in Names
      BY <1>1, <1>4
    <3> QED
      BY <3>1, OutputAdded
  <2> QED
    BY <2>1
<1> HIDE DEF out
<1>8. DOMAIN out = DOMAIN nodes
  BY <1>1, <1>7
<1>9. /\ nodes' \in Seq(NodeType) /\ Len(nodes') = Len(nodes)
      /\ \A m \in DOMAIN nodes :
           /\ nodes'[m].kind = out[m].kind
           /\ nodes'[m].outputs = out[m].outputs
           /\ nodes'[m].inputs =
                IF m = merge THEN Append(out[merge].inputs, NextOutput(n)) ELSE out[m].inputs
  <2>1. PICK base, ref : base = out /\ ref = NextOutput(n)
    OBVIOUS
  <2>2. base \in Seq(NodeType) /\ merge \in DOMAIN base /\ ref \in Reference
    BY <1>2, <1>4, <1>7, <1>8, <2>1
  <2>3. /\ WithIn(base, merge, ref) \in Seq(NodeType) /\ Len(WithIn(base, merge, ref)) = Len(base)
        /\ \A m \in DOMAIN base :
             /\ WithIn(base, merge, ref)[m].kind = base[m].kind
             /\ WithIn(base, merge, ref)[m].outputs = base[m].outputs
             /\ WithIn(base, merge, ref)[m].inputs =
                  IF m = merge THEN Append(base[merge].inputs, ref) ELSE base[m].inputs
    BY <2>2, InputAdded
  <2> QED
    BY <1>5, <1>7, <1>8, <2>1, <2>3
<1>10. Append(inputSpecs[merge], NoName) \in Specs
  <2>1. PICK q : q = inputSpecs[merge]
    OBVIOUS
  <2>2. q \in Seq(Names)
    BY <1>3, <2>1, Domains DEF Specs
  <2>3. Append(q, NoName) \in Seq(Names)
    BY <2>2, <1>4
  <2> QED
    BY <2>1, <2>3 DEF Specs
<1>11. /\ inputSpecs' \in Seq(Specs) /\ Len(inputSpecs') = Len(inputSpecs)
       /\ \A m \in DOMAIN inputSpecs :
            inputSpecs'[m] = IF m = merge THEN Append(inputSpecs[merge], NoName) ELSE inputSpecs[m]
  BY <1>1, <1>3, <1>6, <1>10, Replaced
<1>12. \A m \in DOMAIN nodes :
         /\ nodes'[m].kind = nodes[m].kind
         /\ nodes'[m].inputs =
              IF m = merge THEN Append(nodes[m].inputs, NextOutput(n)) ELSE nodes[m].inputs
         /\ nodes'[m].outputs =
              IF m = n THEN Append(nodes[m].outputs, NoName) ELSE nodes[m].outputs
  BY <1>2, <1>7, <1>9
<1>13. DOMAIN nodes[n].outputs \subseteq DOMAIN Append(nodes[n].outputs, NoName)
  BY <1>4, Domains DEF Specs
<1>14. DOMAIN nodes' = DOMAIN nodes
  BY <1>1, <1>9
<1>15. ASSUME NEW m \in DOMAIN nodes
       PROVE  DOMAIN nodes[m].outputs \subseteq DOMAIN nodes'[m].outputs
  <2>1. CASE m = n
    BY <1>12, <1>13, <2>1
  <2>2. CASE m # n
    BY <1>12, <2>2
  <2> QED
    BY <2>1, <2>2
<1>16. Kept
  BY <1>12, <1>14, <1>15 DEF Kept
<1>17. \A m \in DOMAIN inputSpecs :
         inputSpecs'[m] = IF m = merge THEN Append(inputSpecs[m], NoName) ELSE inputSpecs[m]
  BY <1>11
<1> QED
  BY <1>1, <1>2, <1>9, <1>11, <1>12, <1>16, <1>17

-----------------------------------------------------------------------------
(* Registers.                                                              *)

DomainType == [clk: Name, clkEdge: Edge, rst: Names, rstEdge: Edge]

LEMMA NormalType ==
  ASSUME NEW d \in Domain
  PROVE  Normal(d) \in DomainType
<1>1. AnyEdge \in Edge
  BY EdgesExist DEF AnyEdge
<1>2. d \in DomainType
  BY DomainsAreClocks DEF DomainType, Names
<1> QED
  BY <1>1, <1>2 DEF Normal, DomainType

LEMMA FfType ==
  ASSUME NEW data \in Reference, NEW d \in DomainType, NEW name \in Names
  PROVE  /\ Ff(data, d, name) \in NodeType
         /\ Ff(data, d, name).kind = "ff"
         /\ Ff(data, d, name).outputs = <<name>>
         /\ Len(Ff(data, d, name).inputs) \in {2, 3}
         /\ Ff(data, d, name).inputs[1] = data
         /\ \A k \in DOMAIN Ff(data, d, name).inputs :
              k # 1 => Ff(data, d, name).inputs[k] = Unconnected
         /\ FfSpecs(d) \in Specs
         /\ Len(FfSpecs(d)) = Len(Ff(data, d, name).inputs)
         /\ FfSpecs(d)[1] = NoName
<1>1. /\ d.clk \in Names /\ d.rst \in Names /\ d.clkEdge \in Edge /\ d.rstEdge \in Edge
      /\ NoName \in Names /\ Unconnected \in Reference
  BY NameTypes, RefType DEF DomainType
<1>2. CASE d.rst = NoName
  <2>1. Ff(data, d, name) = Node("ff", <<data, Unconnected>>, <<name>>, d.clkEdge, d.rstEdge)
    BY <1>2 DEF Ff
  <2>2. FfSpecs(d) = <<NoName, d.clk>>
    BY <1>2 DEF FfSpecs
  <2> QED
    BY <1>1, <2>1, <2>2 DEF Node, NodeType, Specs, Names
<1>3. CASE d.rst # NoName
  <2>1. Ff(data, d, name) =
          Node("ff", <<data, Unconnected, Unconnected>>, <<name>>, d.clkEdge, d.rstEdge)
    BY <1>3 DEF Ff
  <2>2. FfSpecs(d) = <<NoName, d.clk, d.rst>>
    BY <1>3 DEF FfSpecs
  <2> QED
    BY <1>1, <2>1, <2>2 DEF Node, NodeType, Specs, Names
<1> QED
  BY <1>2, <1>3

LEMMA RegisteredEffect ==
  ASSUME TigTypeOK, Held, NEW name \in Name, signalMap[name] # Unconnected
  PROVE  /\ Registered(name) \in Seq(NodeType)
         /\ Len(Registered(name)) = Len(nodes)
         /\ \A m \in DOMAIN nodes :
              /\ Registered(name)[m].kind = nodes[m].kind
              /\ Registered(name)[m].inputs = nodes[m].inputs
              /\ Len(Registered(name)[m].outputs) = Len(nodes[m].outputs)
              /\ \A k \in DOMAIN nodes[m].outputs :
                   Registered(name)[m].outputs[k] =
                     IF signalMap[name] = Ref(m, k) THEN NoName ELSE nodes[m].outputs[k]
<1> DEFINE old == signalMap[name]
<1>1. old \in Reference /\ Existing(old) /\ old # Unconnected /\ nodes \in Seq(NodeType)
  BY DEF TigTypeOK, Held
<1>2. Registered(name) = Without(nodes, old.node, old.port)
  BY DEF Registered, Without
<1> HIDE DEF old
<1>3. /\ old.node \in DOMAIN nodes /\ old.port \in DOMAIN nodes[old.node].outputs
      /\ old = Ref(old.node, old.port)
  BY <1>1, ExistingDriver
<1>4. /\ Registered(name) \in Seq(NodeType)
      /\ Len(Registered(name)) = Len(nodes)
      /\ \A m \in DOMAIN nodes :
           /\ Registered(name)[m].kind = nodes[m].kind
           /\ Registered(name)[m].inputs = nodes[m].inputs
           /\ Len(Registered(name)[m].outputs) = Len(nodes[m].outputs)
           /\ \A k \in DOMAIN nodes[m].outputs :
                Registered(name)[m].outputs[k] =
                  IF m = old.node /\ k = old.port THEN NoName ELSE nodes[m].outputs[k]
  BY <1>1, <1>2, <1>3, OutputHidden
<1>5. \A m, k : old = Ref(m, k) <=> m = old.node /\ k = old.port
  BY <1>3 DEF Ref
<1>6. \A m \in DOMAIN nodes : \A k \in DOMAIN nodes[m].outputs :
        Registered(name)[m].outputs[k] = IF old = Ref(m, k) THEN NoName ELSE nodes[m].outputs[k]
  BY <1>4, <1>5
<1> QED
  BY <1>4, <1>6 DEF old

-----------------------------------------------------------------------------
(* What the invariant says after a step that keeps the nodes.              *)

LEMMA Untouched ==
  ASSUME TigTypeOK, Kept, NEW m \in DOMAIN nodes, Sound(m),
         nodes'[m].inputs = nodes[m].inputs, inputSpecs'[m] = inputSpecs[m],
         nodes[m].kind \in {"op", "instance"} \/ Len(nodes'[m].outputs) = Len(nodes[m].outputs)
  PROVE  Sound(m)'
<1>1. nodes'[m].kind = nodes[m].kind
  BY DEF Kept
<1>2. \A k \in DOMAIN nodes[m].inputs :
        /\ Existing(nodes[m].inputs[k])'
        /\ \A kinds : Driver(nodes[m].inputs[k], kinds) => Driver(nodes[m].inputs[k], kinds)'
  <2>1. SUFFICES ASSUME NEW k \in DOMAIN nodes[m].inputs
        PROVE  /\ Existing(nodes[m].inputs[k])'
               /\ \A kinds : Driver(nodes[m].inputs[k], kinds) => Driver(nodes[m].inputs[k], kinds)'
    OBVIOUS
  <2>2. PICK ref : ref = nodes[m].inputs[k]
    OBVIOUS
  <2>3. Existing(ref)
    BY <2>2 DEF Sound
  <2>4. Existing(ref)' /\ \A kinds : Driver(ref, kinds) => Driver(ref, kinds)'
    BY <2>3, KeptReferences
  <2>5. ref = (nodes[m].inputs[k])'
    BY <2>2
  <2> QED
    BY <2>2, <2>4, <2>5 DEF Existing, Driver
<1>3. DOMAIN nodes[m].inputs = 1..Len(nodes[m].inputs)
  BY Domains
<1>4. Aligned(m)'
  BY <1>1 DEF Sound, Aligned
<1>5. Shaped(m)'
  BY <1>1 DEF Sound, Shaped
<1>6. Layered(m)'
  <2>1. nodes[m].kind = "merge" =>
          \A k \in DOMAIN nodes[m].inputs : Driver(nodes[m].inputs[k], {"pi", "op", "instance"})'
    BY <1>2 DEF Sound, Layered
  <2>2. nodes[m].kind = "ff" => Driver(nodes[m].inputs[1], {"op", "merge"})'
    BY <1>2, <1>3 DEF Sound, Layered, Shaped
  <2>3. nodes[m].kind = "ff_merge" =>
          \A k \in DOMAIN nodes[m].inputs :
            Driver(nodes[m].inputs[k], {"ff"})' /\ nodes[m].inputs[k].port = 1
    BY <1>2 DEF Sound, Layered
  <2> QED
    BY <1>1, <2>1, <2>2, <2>3 DEF Layered, Driver
<1> QED
  BY <1>2, <1>4, <1>5, <1>6 DEF Sound, Existing

(* A node under construction may also have got one more input.             *)
LEMMA BuiltNode ==
  ASSUME TigTypeOK, Kept, NEW m \in DOMAIN nodes, Sound(m),
         nodes[m].kind \in {"op", "instance"}, Aligned(m)',
         \/ nodes'[m].inputs = nodes[m].inputs
         \/ \E ref \in Reference :
              nodes'[m].inputs = Append(nodes[m].inputs, ref) /\ Existing(ref)
  PROVE  Sound(m)'
<1>1. nodes'[m].kind \in {"op", "instance"}
  BY DEF Kept
<1>2. \A k \in DOMAIN nodes[m].inputs : Existing(nodes[m].inputs[k])
  BY DEF Sound
<1>3. \A ref : Existing(ref) => Existing(ref)'
  BY KeptReferences
<1>4. \A k \in DOMAIN nodes'[m].inputs : Existing(nodes[m].inputs[k])'
  <2>1. CASE nodes'[m].inputs = nodes[m].inputs
    <3>1. SUFFICES ASSUME NEW k \in DOMAIN nodes[m].inputs
          PROVE  Existing(nodes[m].inputs[k])'
      BY <2>1
    <3>2. PICK ref : ref = nodes[m].inputs[k]
      OBVIOUS
    <3>3. Existing(ref)'
      BY <1>2, <1>3, <3>2
    <3> QED
      BY <2>1, <3>2, <3>3 DEF Existing
  <2>2. CASE nodes'[m].inputs # nodes[m].inputs
    <3>1. PICK more \in Reference : nodes'[m].inputs = Append(nodes[m].inputs, more) /\ Existing(more)
      BY <2>2
    <3>2. /\ DOMAIN nodes'[m].inputs = 1..(Len(nodes[m].inputs) + 1)
          /\ DOMAIN nodes[m].inputs = 1..Len(nodes[m].inputs) /\ Len(nodes[m].inputs) \in Nat
          /\ \A k \in DOMAIN nodes[m].inputs : nodes'[m].inputs[k] = nodes[m].inputs[k]
          /\ nodes'[m].inputs[Len(nodes[m].inputs) + 1] = more
      BY <3>1, Domains, Appended
    <3>3. SUFFICES ASSUME NEW k \in DOMAIN nodes'[m].inputs
          PROVE  Existing(nodes[m].inputs[k])'
      OBVIOUS
    <3>4. PICK ref : ref = nodes'[m].inputs[k]
      OBVIOUS
    <3>5. Existing(ref)
      BY <1>2, <3>1, <3>2, <3>4
    <3>6. Existing(ref)'
      BY <1>3, <3>5
    <3> QED
      BY <3>4, <3>6 DEF Existing
  <2> QED
    BY <2>1, <2>2
<1>5. Shaped(m)' /\ Layered(m)'
  BY <1>1 DEF Shaped, Layered
<1> QED
  BY <1>4, <1>5 DEF Sound

(* A name is given to a new driver only while no register is pending for   *)
(* it, or to a driver a register may be behind.                            *)
LEMMA HeldKept ==
  ASSUME TigTypeOK, Kept, Held, pendingFfs' \subseteq pendingFfs, ffMerge' = ffMerge,
         \A name \in Name :
           \/ signalMap'[name] = signalMap[name]
           \/ /\ Existing(signalMap[name])'
              /\ \A f \in pendingFfs' : f.name = name => Driver(signalMap[name], {"op", "merge"})'
  PROVE  Held'
<1>1. \A ref : Existing(ref) =>
        Existing(ref)' /\ \A kinds : Driver(ref, kinds) => Driver(ref, kinds)'
  BY KeptReferences
<1>2. ASSUME NEW name \in Name
      PROVE  Existing(signalMap[name])'
  <2>1. CASE signalMap'[name] = signalMap[name]
    <3>1. PICK ref : ref = signalMap[name]
      OBVIOUS
    <3>2. Existing(ref)'
      BY <1>1, <3>1 DEF Held
    <3> QED
      BY <2>1, <3>1, <3>2 DEF Existing
  <2> QED
    BY <2>1
<1>3. ASSUME NEW f \in pendingFfs'
      PROVE  (Existing(f.ref) /\ Driver(f.ref, {"op"}) /\ Driver(signalMap[f.name], {"op", "merge"}))'
  <2>1. f \in pendingFfs /\ f.name \in Name
    BY DEF TigTypeOK
  <2>2. Existing(f.ref)' /\ Driver(f.ref, {"op"})'
    BY <1>1, <2>1 DEF Held
  <2>3. CASE signalMap'[f.name] = signalMap[f.name]
    <3>1. PICK ref : ref = signalMap[f.name]
      OBVIOUS
    <3>2. Existing(ref) /\ Driver(ref, {"op", "merge"})
      BY <2>1, <3>1 DEF Held
    <3>3. Driver(ref, {"op", "merge"})'
      BY <1>1, <3>2
    <3> QED
      BY <2>2, <2>3, <3>1, <3>3 DEF Driver
  <2> QED
    BY <2>1, <2>2, <2>3
<1>4. ASSUME NEW k \in DOMAIN ffMerge'.ffs
      PROVE  (Existing(ffMerge.ffs[k]) /\ Driver(ffMerge.ffs[k], {"ff"}) /\ ffMerge.ffs[k].port = 1)'
  <2>1. PICK ref : ref = ffMerge.ffs[k]
    OBVIOUS
  <2>2. Existing(ref) /\ Driver(ref, {"ff"}) /\ ref.port = 1
    BY <2>1 DEF Held
  <2>3. Existing(ref)' /\ Driver(ref, {"ff"})'
    BY <1>1, <2>2
  <2> QED
    BY <2>1, <2>2, <2>3 DEF Existing, Driver
<1> QED
  BY <1>2, <1>3, <1>4 DEF Held

LEMMA TypedKept ==
  ASSUME Typed, nodes' \in Seq(NodeType), inputSpecs' \in Seq(Specs),
         signalMap' \in [Name -> Reference], pendingFfs' \subseteq pendingFfs,
         ffMerge' \in [name: Names, ffs: Seq(Reference)], phase' \in {"visit", "insert", "wired"}
  PROVE  Typed'
<1>1. IsFiniteSet(pendingFfs')
  BY FS_Subset DEF Typed
<1> QED
  BY <1>1 DEF Typed, TigTypeOK, Specs, Names

LEMMA Facts ==
  ASSUME IInv
  PROVE  /\ TigTypeOK /\ Typed /\ Held /\ Visited
         /\ Len(inputSpecs) = Len(nodes) /\ DOMAIN inputSpecs = DOMAIN nodes
         /\ \A n \in DOMAIN nodes : Sound(n)
         /\ nodes \in Seq(NodeType) /\ inputSpecs \in Seq(Specs)
         /\ signalMap \in [Name -> Reference]
         /\ ffMerge \in [name: Names, ffs: Seq(Reference)]
         /\ phase \in {"visit", "insert", "wired"}
BY Domains DEF IInv, Typed, Structure, TigTypeOK, Specs, Names

(* A step that adds one node.                                              *)
LEMMA OneMoreNode ==
  ASSUME TigTypeOK, nodes' \in Seq(NodeType), Len(nodes') = Len(nodes) + 1,
         Len(inputSpecs') = Len(inputSpecs) + 1, Len(inputSpecs) = Len(nodes),
         \A m \in DOMAIN nodes : Sound(m)', Held', Typed',
         NEW new, new = Len(nodes) + 1, Sound(new)',
         \/ phase' # "visit"
         \/ /\ phase = "visit" /\ Visited /\ Kept
            /\ nodes'[new].kind \notin {"ff", "ff_merge"}
  PROVE  IInv'
<1>1. Len(nodes) \in Nat /\ DOMAIN nodes = 1..Len(nodes) /\ DOMAIN nodes' = 1..(Len(nodes) + 1)
  BY Domains
<1>2. \A m \in DOMAIN nodes' : m \in DOMAIN nodes \/ m = Len(nodes) + 1
  BY <1>1
<1>3. \A m \in DOMAIN nodes' : Sound(m)'
  <2>1. SUFFICES ASSUME NEW m \in DOMAIN nodes'
        PROVE  Sound(m)'
    OBVIOUS
  <2>2. CASE m \in DOMAIN nodes
    BY <2>2
  <2>3. CASE m = new
    BY <2>3
  <2> QED
    BY <1>2, <2>2, <2>3
<1>4. Visited'
  BY <1>2 DEF Visited, Kept
<1>5. Len(inputSpecs') = Len(nodes')
  OBVIOUS
<1> QED
  BY <1>3, <1>4, <1>5 DEF IInv, Structure

-----------------------------------------------------------------------------
(* The actions.                                                            *)

LEMMA CreatedStep ==
  ASSUME IInv, phase = "visit", UNCHANGED <<pendingFfs, ffMerge, phase>>,
         NEW x \in NodeType, NEW specs \in Specs, CreateNode(x, specs),
         x.kind \in {"pi", "po", "op", "instance"}, x.kind = "po" => Len(x.outputs) = 0,
         Len(specs) = Len(x.inputs), \A k \in DOMAIN x.inputs : x.inputs[k] = Unconnected,
         signalMap' \in [Name -> Reference], Held'
  PROVE  IInv'
<1>1. /\ nodes' \in Seq(NodeType) /\ inputSpecs' \in Seq(Specs)
      /\ Len(nodes') = Len(nodes) + 1 /\ Len(inputSpecs') = Len(inputSpecs) + 1
      /\ \A m \in DOMAIN nodes : nodes'[m] = nodes[m]
      /\ \A m \in DOMAIN inputSpecs : inputSpecs'[m] = inputSpecs[m]
      /\ nodes'[Len(nodes) + 1] = x
      /\ inputSpecs'[Len(inputSpecs) + 1] = specs
      /\ Kept
  BY Facts, CreateNodeEffect
<1>2. ASSUME NEW m \in DOMAIN nodes
      PROVE  Sound(m)'
  BY <1>1, Facts, Untouched
<1>3. PICK new : new = Len(nodes) + 1
  OBVIOUS
<1>4. nodes'[new] = x /\ inputSpecs'[new] = specs
  BY <1>1, <1>3, Facts
<1>5. Sound(new)'
  <2>1. \A k \in DOMAIN nodes'[new].inputs : nodes'[new].inputs[k] = Unconnected
    BY <1>4
  <2>2. Aligned(new)'
    BY <1>4 DEF Aligned
  <2>3. Shaped(new)' /\ Layered(new)'
    BY <1>4 DEF Shaped, Layered
  <2> QED
    BY <2>1, <2>2, <2>3 DEF Sound, Existing
<1>6. Typed'
  BY <1>1, Facts, TypedKept
<1>7. nodes'[new].kind \notin {"ff", "ff_merge"}
  BY <1>4
<1> QED
  BY <1>1, <1>2, <1>3, <1>5, <1>6, <1>7, Facts, OneMoreNode

LEMMA NewOutput ==
  ASSUME TigTypeOK, nodes' \in Seq(NodeType), Len(nodes') = Len(nodes) + 1,
         NEW x \in NodeType, nodes'[Len(nodes) + 1] = x, Len(x.outputs) = 1
  PROVE  /\ Ref(Len(nodes) + 1, 1) \in Reference
         /\ \A ref : ref = Ref(Len(nodes) + 1, 1) =>
              /\ Existing(ref)'
              /\ \A kinds : x.kind \in kinds => Driver(ref, kinds)'
<1>1. Len(nodes) \in Nat
  BY Domains
<1>2. Len(nodes) + 1 \in DOMAIN nodes' /\ Len(nodes) + 1 # 0
  BY <1>1
<1>3. 1 \in DOMAIN x.outputs
  <2>1. PICK outs : outs = x.outputs
    OBVIOUS
  <2>2. outs \in Seq(Names) /\ Len(outs) = 1
    BY <2>1, NodeFields
  <2>3. 1 \in DOMAIN outs
    BY <2>2
  <2> QED
    BY <2>1, <2>3
<1>4. /\ Ref(Len(nodes) + 1, 1) \in Reference /\ Ref(Len(nodes) + 1, 1).node = Len(nodes) + 1
      /\ Ref(Len(nodes) + 1, 1).port = 1 /\ Ref(Len(nodes) + 1, 1) # Unconnected
  BY <1>1, <1>2, RefType
<1> QED
  BY <1>1, <1>2, <1>3, <1>4 DEF Existing, Driver

LEMMA Creates ==
  ASSUME IInv,
         \/ \E name \in Name : CreateModuleInput(name) \/ CreateModuleOutput(name)
         \/ CreateOperation \/ CreateInstance
  PROVE  IInv'
<1>1. ASSUME NEW name \in Name, CreateModuleInput(name)
      PROVE  IInv'
  <2>1. PICK x, specs : x = Plain("pi", <<>>, <<name>>) /\ specs = <<>>
    OBVIOUS
  <2>2. /\ x \in NodeType /\ x.kind = "pi" /\ x.inputs = <<>> /\ x.outputs = <<name>>
        /\ specs \in Specs
    <3>1. PICK ins, outs : ins = <<>> /\ outs = <<name>>
      OBVIOUS
    <3>2. ins \in Seq(Reference) /\ outs \in Specs /\ "pi" \in PlainKinds
      BY <3>1, NameTypes DEF Specs, PlainKinds
    <3>3. /\ Plain("pi", ins, outs) \in NodeType /\ Plain("pi", ins, outs).kind = "pi"
          /\ Plain("pi", ins, outs).inputs = ins /\ Plain("pi", ins, outs).outputs = outs
      BY <3>2, PlainType
    <3>4. specs \in Specs
      BY <2>1 DEF Specs
    <3> QED
      BY <2>1, <3>1, <3>3, <3>4
  <2>3. CreateNode(x, specs) /\ phase = "visit" /\ UNCHANGED <<pendingFfs, ffMerge, phase>>
    BY <1>1, <2>1 DEF CreateModuleInput
  <2>4. PICK ref : ref = Ref(Len(nodes) + 1, 1)
    OBVIOUS
  <2>5. signalMap[name] = Unconnected /\ signalMap' = [signalMap EXCEPT ![name] = ref]
    BY <1>1, <2>4 DEF CreateModuleInput
  <2>6. ref \in Reference /\ Existing(ref)' /\ Kept
    BY <2>2, <2>3, <2>4, Facts, CreateNodeEffect, NewOutput
  <2>7. signalMap' \in [Name -> Reference]
    BY <2>5, <2>6, Facts
  <2>8. \A f \in pendingFfs : f.name # name
    BY <2>5, Facts DEF Held, Driver
  <2>9. Held'
    <3>1. ASSUME NEW nm \in Name, signalMap'[nm] # signalMap[nm]
          PROVE  Existing(signalMap[nm])' /\ \A f \in pendingFfs' : f.name # nm
      <4>1. nm = name /\ signalMap'[nm] = ref
        BY <2>5, <3>1, Facts
      <4> QED
        BY <2>3, <2>6, <2>8, <4>1 DEF Existing
    <3> QED
      BY <2>3, <2>6, <3>1, Facts, HeldKept
  <2>10. /\ Len(specs) = Len(x.inputs) /\ \A k \in DOMAIN x.inputs : x.inputs[k] = Unconnected
         /\ x.kind \in {"pi", "po", "op", "instance"} /\ x.kind # "po"
    BY <2>1, <2>2
  <2> QED
    BY <2>2, <2>3, <2>7, <2>9, <2>10, CreatedStep
<1>2. ASSUME NEW x \in NodeType, NEW specs \in Specs, CreateNode(x, specs), phase = "visit",
             UNCHANGED <<signalMap, pendingFfs, ffMerge, phase>>,
             x.kind \in {"po", "op", "instance"}, Len(x.outputs) = 0, Len(specs) = Len(x.inputs),
             \A k \in DOMAIN x.inputs : x.inputs[k] = Unconnected
      PROVE  IInv'
  <2>1. Kept
    BY <1>2, Facts, CreateNodeEffect
  <2>2. Held'
    BY <1>2, <2>1, Facts, HeldKept
  <2> QED
    BY <1>2, <2>2, Facts, CreatedStep
<1>3. ASSUME NEW name \in Name, CreateModuleOutput(name)
      PROVE  IInv'
  <2>1. PICK x, specs : x = Plain("po", <<Unconnected>>, <<>>) /\ specs = <<name>>
    OBVIOUS
  <2>2. /\ x \in NodeType /\ x.kind = "po" /\ x.inputs = <<Unconnected>> /\ x.outputs = <<>>
        /\ specs \in Specs
    <3>1. PICK ins, outs : ins = <<Unconnected>> /\ outs = <<>>
      OBVIOUS
    <3>2. ins \in Seq(Reference) /\ outs \in Specs /\ "po" \in PlainKinds
      BY <3>1, RefType DEF Specs, PlainKinds
    <3>3. /\ Plain("po", ins, outs) \in NodeType /\ Plain("po", ins, outs).kind = "po"
          /\ Plain("po", ins, outs).inputs = ins /\ Plain("po", ins, outs).outputs = outs
      BY <3>2, PlainType
    <3>4. specs \in Specs
      BY <2>1, NameTypes DEF Specs
    <3> QED
      BY <2>1, <3>1, <3>3, <3>4
  <2>3. /\ Len(x.outputs) = 0 /\ Len(specs) = Len(x.inputs)
        /\ \A k \in DOMAIN x.inputs : x.inputs[k] = Unconnected
    BY <2>1, <2>2
  <2> QED
    BY <1>2, <1>3, <2>1, <2>2, <2>3 DEF CreateModuleOutput
<1>4. ASSUME CreateOperation \/ CreateInstance
      PROVE  IInv'
  <2>1. PICK kind \in {"op", "instance"} :
          CreateNode(Plain(kind, <<>>, <<>>), <<>>) /\ phase = "visit"
            /\ UNCHANGED <<signalMap, pendingFfs, ffMerge, phase>>
    BY <1>4 DEF CreateOperation, CreateInstance
  <2>2. PICK x, specs : x = Plain(kind, <<>>, <<>>) /\ specs = <<>>
    OBVIOUS
  <2>3. /\ x \in NodeType /\ x.kind = kind /\ x.inputs = <<>> /\ x.outputs = <<>>
        /\ specs \in Specs
    <3>1. PICK ins, outs : ins = <<>> /\ outs = <<>>
      OBVIOUS
    <3>2. ins \in Seq(Reference) /\ outs \in Specs /\ kind \in PlainKinds
      BY <3>1 DEF Specs, PlainKinds
    <3>3. /\ Plain(kind, ins, outs) \in NodeType /\ Plain(kind, ins, outs).kind = kind
          /\ Plain(kind, ins, outs).inputs = ins /\ Plain(kind, ins, outs).outputs = outs
      BY <3>2, PlainType
    <3>4. specs \in Specs
      BY <2>2 DEF Specs
    <3> QED
      BY <2>2, <3>1, <3>3, <3>4
  <2>4. /\ Len(x.outputs) = 0 /\ Len(specs) = Len(x.inputs)
        /\ \A k \in DOMAIN x.inputs : x.inputs[k] = Unconnected
    BY <2>2, <2>3
  <2> QED
    BY <1>2, <2>1, <2>2, <2>3, <2>4
<1> QED
  BY <1>1, <1>3, <1>4

(* A step that adds no node.                                               *)
LEMMA SameNodes ==
  ASSUME TigTypeOK, nodes' \in Seq(NodeType), Len(nodes') = Len(nodes),
         Len(inputSpecs') = Len(nodes), \A m \in DOMAIN nodes : Sound(m)', Held', Typed', Kept,
         phase' = "visit" => phase = "visit" /\ Visited
  PROVE  IInv'
<1>1. DOMAIN nodes' = DOMAIN nodes
  BY Domains
<1>2. Visited'
  BY <1>1 DEF Visited, Kept
<1> QED
  BY <1>1, <1>2 DEF IInv, Structure

LEMMA Connects ==
  ASSUME IInv, NEW n, Builds(n), NEW ref \in Reference, Existing(ref), NEW name \in Names,
         ConnectInput(n, ref, name)
  PROVE  IInv'
<1>1. n \in DOMAIN nodes /\ n \in DOMAIN inputSpecs /\ nodes[n].kind \in {"op", "instance"}
      /\ phase = "visit"
  BY Facts, BuildsNode
<1>2. /\ nodes' \in Seq(NodeType) /\ inputSpecs' \in Seq(Specs)
      /\ Len(nodes') = Len(nodes) /\ Len(inputSpecs') = Len(inputSpecs)
      /\ \A m \in DOMAIN nodes :
           /\ nodes'[m].kind = nodes[m].kind
           /\ nodes'[m].outputs = nodes[m].outputs
           /\ nodes'[m].inputs = IF m = n THEN Append(nodes[n].inputs, ref) ELSE nodes[m].inputs
      /\ \A m \in DOMAIN inputSpecs :
           inputSpecs'[m] = IF m = n THEN Append(inputSpecs[n], name) ELSE inputSpecs[m]
      /\ Kept
  BY <1>1, Facts, ConnectInputEffect
<1>3. /\ UNCHANGED <<signalMap, pendingFfs, ffMerge, phase>>
      /\ Len(inputSpecs[n]) = Len(nodes[n].inputs)
  BY DEF ConnectInput
<1>4. ASSUME NEW m \in DOMAIN nodes
      PROVE  Sound(m)'
  <2>1. CASE m = n
    <3>1. nodes'[n].inputs = Append(nodes[n].inputs, ref)
          /\ inputSpecs'[n] = Append(inputSpecs[n], name)
      BY <1>1, <1>2
    <3>2. PICK q, r : q = nodes[n].inputs /\ r = inputSpecs[n]
      OBVIOUS
    <3>3. q \in Seq(Reference) /\ r \in Specs
      BY <1>1, <3>2, Facts, Domains
    <3>4. Len(Append(q, ref)) = Len(q) + 1 /\ Len(Append(r, name)) = Len(r) + 1
      BY <3>3 DEF Specs
    <3>5. Aligned(n)'
      BY <1>3, <3>1, <3>2, <3>4 DEF Aligned
    <3> QED
      BY <1>1, <1>2, <2>1, <3>1, <3>5, Facts, BuiltNode
  <2>2. CASE m # n
    <3>1. nodes'[m].inputs = nodes[m].inputs /\ inputSpecs'[m] = inputSpecs[m]
          /\ Len(nodes'[m].outputs) = Len(nodes[m].outputs)
      BY <1>2, <2>2, Facts
    <3> QED
      BY <1>2, <3>1, Facts, Untouched
  <2> QED
    BY <2>1, <2>2
<1>5. Typed'
  BY <1>2, <1>3, Facts, TypedKept
<1>6. Held'
  BY <1>2, <1>3, Facts, HeldKept
<1> QED
  BY <1>1, <1>2, <1>3, <1>4, <1>5, <1>6, Facts, SameNodes

LEMMA Finalizes ==
  ASSUME IInv, NEW n, FinalizeNodeInput(n)
  PROVE  IInv'
<1>1. n \in DOMAIN nodes /\ nodes[n].kind \in {"op", "instance"} /\ phase = "visit"
  BY Facts, BuildsNode DEF FinalizeNodeInput
<1>2. UNCHANGED <<nodes, signalMap, pendingFfs, ffMerge, phase>>
  BY DEF FinalizeNodeInput
<1>3. Kept
  BY <1>2 DEF Kept
<1>4. inputSpecs' = inputSpecs \/ inputSpecs' = Put(inputSpecs, n, <<>>)
  BY DEF FinalizeNodeInput, Put
<1>5. /\ inputSpecs' \in Seq(Specs) /\ Len(inputSpecs') = Len(inputSpecs)
      /\ \A m \in DOMAIN inputSpecs : inputSpecs'[m] = inputSpecs[m] \/ (m = n /\ inputSpecs'[m] = <<>>)
  <2>1. CASE inputSpecs' = inputSpecs
    BY <2>1, Facts
  <2>2. CASE inputSpecs' = Put(inputSpecs, n, <<>>)
    <3>1. PICK q : q = <<>>
      OBVIOUS
    <3>2. q \in Specs
      BY <3>1 DEF Specs
    <3>3. n \in DOMAIN inputSpecs /\ inputSpecs \in Seq(Specs)
      BY <1>1, Facts
    <3>4. /\ Put(inputSpecs, n, q) \in Seq(Specs) /\ Len(Put(inputSpecs, n, q)) = Len(inputSpecs)
          /\ \A m \in DOMAIN inputSpecs :
               Put(inputSpecs, n, q)[m] = IF m = n THEN q ELSE inputSpecs[m]
      BY <3>2, <3>3, Replaced
    <3> QED
      BY <2>2, <3>1, <3>4
  <2> QED
    BY <1>4, <2>1, <2>2
<1>6. ASSUME NEW m \in DOMAIN nodes
      PROVE  Sound(m)'
  <2>1. CASE inputSpecs'[m] = inputSpecs[m]
    BY <1>2, <1>3, <2>1, Facts, Untouched
  <2>2. CASE inputSpecs'[m] # inputSpecs[m]
    <3>1. m = n /\ inputSpecs'[m] = <<>>
      BY <1>5, <2>2, Facts
    <3>2. Aligned(m)'
      BY <1>1, <1>2, <3>1 DEF Aligned
    <3> QED
      BY <1>1, <1>2, <1>3, <3>1, <3>2, Facts, BuiltNode
  <2> QED
    BY <2>1, <2>2
<1>7. Typed'
  BY <1>2, <1>5, Facts, TypedKept
<1>8. Held'
  BY <1>2, <1>3, Facts, HeldKept
<1> QED
  BY <1>1, <1>2, <1>3, <1>5, <1>6, <1>7, <1>8, Facts, SameNodes

LEMMA FirstDriver ==
  ASSUME IInv, NEW n, NEW name \in Names, AddFirstDriver(n, name)
  PROVE  IInv'
<1>1. /\ n \in DOMAIN nodes /\ nodes[n].kind \in {"op", "instance"} /\ phase = "visit"
      /\ NextOutput(n) \in Reference /\ NextOutput(n).node = n
      /\ NextOutput(n).port = Len(nodes[n].outputs) + 1
  BY Facts, BuildsNode DEF AddFirstDriver
<1>2. /\ nodes' \in Seq(NodeType) /\ Len(nodes') = Len(nodes)
      /\ \A m \in DOMAIN nodes :
           /\ nodes'[m].kind = nodes[m].kind
           /\ nodes'[m].inputs = nodes[m].inputs
           /\ nodes'[m].outputs = IF m = n THEN Append(nodes[n].outputs, name) ELSE nodes[m].outputs
      /\ Kept
  BY Facts, AddFirstDriverEffect
<1>3. /\ UNCHANGED <<inputSpecs, pendingFfs, ffMerge, phase>>
      /\ name # NoName => signalMap[name] = Unconnected
      /\ signalMap' = IF name = NoName THEN signalMap
                      ELSE [signalMap EXCEPT ![name] = NextOutput(n)]
  BY DEF AddFirstDriver
<1>4. ASSUME NEW m \in DOMAIN nodes
      PROVE  Sound(m)'
  <2>1. nodes[m].kind \in {"op", "instance"} \/ Len(nodes'[m].outputs) = Len(nodes[m].outputs)
    BY <1>1, <1>2
  <2> QED
    BY <1>2, <1>3, <2>1, Facts, Untouched
<1>5. \A ref : ref = NextOutput(n) => Existing(ref)'
  <2>1. Len(nodes[n].outputs) + 1 \in DOMAIN nodes'[n].outputs
    <3>1. PICK q : q = nodes[n].outputs
      OBVIOUS
    <3>2. q \in Seq(Names)
      BY <1>1, <3>1, Facts, Domains DEF Specs
    <3>3. Len(q) + 1 \in DOMAIN Append(q, name)
      BY <3>2
    <3> QED
      BY <1>1, <1>2, <3>1, <3>3
  <2> QED
    BY <1>1, <1>2, <2>1 DEF Existing, Kept
<1>6. ASSUME NEW nm \in Name, signalMap'[nm] # signalMap[nm]
      PROVE  nm = name /\ signalMap'[nm] = NextOutput(n) /\ signalMap[nm] = Unconnected
  BY <1>3, <1>6, Facts, NoNameIsNoName
<1>7. Held'
  <2>1. ASSUME NEW nm \in Name, signalMap'[nm] # signalMap[nm]
        PROVE  Existing(signalMap[nm])' /\ \A f \in pendingFfs' : f.name # nm
    <3>1. PICK ref : ref = NextOutput(n)
      OBVIOUS
    <3>2. signalMap'[nm] = ref /\ signalMap[nm] = Unconnected
      BY <1>6, <2>1, <3>1
    <3>3. Existing(ref)'
      BY <1>5, <3>1
    <3> QED
      BY <1>3, <3>2, <3>3, Facts DEF Held, Driver, Existing
  <2> QED
    BY <1>2, <1>3, <2>1, Facts, HeldKept
<1>8. signalMap' \in [Name -> Reference]
  BY <1>1, <1>3, Facts
<1>9. Typed'
  BY <1>2, <1>3, <1>8, Facts, TypedKept
<1> QED
  BY <1>1, <1>2, <1>3, <1>4, <1>7, <1>9, Facts, SameNodes

LEMMA SecondDriver ==
  ASSUME IInv, NEW n, NEW name \in Name, AddSecondDriver(n, name)
  PROVE  IInv'
<1> DEFINE old == signalMap[name]
<1>1. /\ n \in DOMAIN nodes /\ nodes[n].kind \in {"op", "instance"} /\ phase = "visit"
      /\ NextOutput(n) \in Reference /\ NextOutput(n).node = n /\ NextOutput(n) # Unconnected
      /\ NextOutput(n).port = Len(nodes[n].outputs) + 1
  BY Facts, BuildsNode DEF AddSecondDriver
<1>2. /\ nodes' \in Seq(NodeType)
      /\ Len(nodes') = Len(nodes) + 1
      /\ \A m \in DOMAIN nodes :
           /\ nodes'[m].kind = nodes[m].kind
           /\ nodes'[m].inputs = nodes[m].inputs
           /\ Len(nodes'[m].outputs) = Len(nodes[m].outputs) + (IF m = n THEN 1 ELSE 0)
           /\ \A k \in DOMAIN nodes[m].outputs :
                nodes'[m].outputs[k] =
                  IF nodes[m].kind = "op" /\ signalMap[name] = Ref(m, k) THEN NoName
                  ELSE nodes[m].outputs[k]
      /\ nodes'[n].outputs[Len(nodes[n].outputs) + 1] = NoName
      /\ nodes'[Len(nodes) + 1].kind = "merge"
      /\ nodes'[Len(nodes) + 1].inputs = <<signalMap[name], NextOutput(n)>>
      /\ nodes'[Len(nodes) + 1].outputs = <<name>>
      /\ Kept
  <2>1. TigTypeOK /\ Held
    BY Facts
  <2> QED
    BY <2>1, AddSecondDriverEffect
<1>3. /\ UNCHANGED <<pendingFfs, ffMerge, phase>>
      /\ old # Unconnected /\ nodes[old.node].kind # "merge"
      /\ inputSpecs' = Append(inputSpecs, <<NoName, NoName>>)
      /\ signalMap' = [signalMap EXCEPT ![name] = Ref(Len(nodes) + 1, 1)]
  BY DEF AddSecondDriver
<1>4. /\ inputSpecs' \in Seq(Specs) /\ Len(inputSpecs') = Len(inputSpecs) + 1
      /\ \A m \in DOMAIN inputSpecs : inputSpecs'[m] = inputSpecs[m]
      /\ inputSpecs'[Len(inputSpecs) + 1] = <<NoName, NoName>>
  <2>1. PICK specs : specs = <<NoName, NoName>>
    OBVIOUS
  <2>2. specs \in Specs /\ inputSpecs \in Seq(Specs)
    BY <2>1, Facts, NameTypes DEF Specs
  <2>3. /\ Append(inputSpecs, specs) \in Seq(Specs)
        /\ Len(Append(inputSpecs, specs)) = Len(inputSpecs) + 1
        /\ \A m \in DOMAIN inputSpecs : Append(inputSpecs, specs)[m] = inputSpecs[m]
        /\ Append(inputSpecs, specs)[Len(inputSpecs) + 1] = specs
    BY <2>2, Appended
  <2> QED
    BY <1>3, <2>1, <2>3
<1>5. ASSUME NEW m \in DOMAIN nodes
      PROVE  Sound(m)'
  <2>1. nodes[m].kind \in {"op", "instance"} \/ Len(nodes'[m].outputs) = Len(nodes[m].outputs)
    <3>1. Len(nodes[m].outputs) \in Nat
      BY Facts, Domains DEF Specs
    <3>2. CASE m = n
      BY <1>1, <3>2
    <3>3. CASE m # n
      <4>1. Len(nodes'[m].outputs) = Len(nodes[m].outputs) + 0
        BY <1>2, <3>3
      <4> QED
        BY <3>1, <4>1
    <3> QED
      BY <3>2, <3>3
  <2>2. inputSpecs'[m] = inputSpecs[m]
    BY <1>4, Facts
  <2> QED
    BY <1>2, <2>1, <2>2, Facts, Untouched
<1>6. PICK new : new = Len(nodes) + 1
  OBVIOUS
<1>7. /\ nodes'[new].kind = "merge" /\ nodes'[new].inputs = <<old, NextOutput(n)>>
      /\ nodes'[new].outputs = <<name>> /\ inputSpecs'[new] = <<NoName, NoName>>
  BY <1>2, <1>4, <1>6, Facts
<1>8. PICK ref : ref = NextOutput(n)
  OBVIOUS
<1>9. Existing(ref)' /\ Driver(ref, {"pi", "op", "instance"})'
  <2>1. n \in DOMAIN nodes' /\ Len(nodes[n].outputs) + 1 \in DOMAIN nodes'[n].outputs
    <3>1. PICK q, r : q = nodes'[n].outputs /\ r = nodes[n].outputs
      OBVIOUS
    <3>2. n \in DOMAIN nodes' /\ q \in Seq(Names) /\ r \in Seq(Names)
      BY <1>1, <1>2, <3>1, Facts, Domains, NodeFields DEF Specs, Kept
    <3>3. Len(q) = Len(r) + 1
      BY <1>1, <1>2, <3>1
    <3> QED
      BY <3>1, <3>2, <3>3
  <2> QED
    BY <1>1, <1>2, <1>8, <2>1 DEF Existing, Driver
<1>10. PICK first : first = old
  OBVIOUS
<1>11. Existing(first)' /\ Driver(first, {"pi", "op", "instance"})'
  <2>1. Existing(first) /\ first \in Reference /\ first # Unconnected
    BY <1>3, <1>10, Facts DEF Held
  <2>2. first.node \in DOMAIN nodes /\ first.port \in DOMAIN nodes[first.node].outputs
    BY <2>1, Facts, ExistingDriver
  <2>3. PICK kind : kind = nodes[first.node].kind
    OBVIOUS
  <2>4. kind \in {"pi", "po", "op", "instance", "merge", "ff", "ff_merge"}
    BY <2>2, <2>3, Facts, Domains, NodeFields
  <2>5. kind \notin {"merge", "ff", "ff_merge"}
    BY <1>1, <1>3, <1>10, <2>2, <2>3, Facts DEF Visited
  <2>6. kind # "po"
    <3>1. Sound(first.node) /\ DOMAIN nodes[first.node].outputs = 1..Len(nodes[first.node].outputs)
      BY <2>2, Facts, Domains
    <3> QED
      BY <2>2, <2>3, <3>1 DEF Sound, Shaped
  <2>7. Driver(first, {"pi", "op", "instance"})
    BY <2>1, <2>3, <2>4, <2>5, <2>6 DEF Driver
  <2> QED
    BY <1>2, <2>1, <2>7, Facts, KeptReferences
<1>12. Sound(new)'
  <2>1. nodes'[new].inputs = <<first, ref>>
    BY <1>7, <1>8, <1>10
  <2>2. \A k \in DOMAIN nodes'[new].inputs :
          (nodes'[new].inputs[k] = first \/ nodes'[new].inputs[k] = ref) /\ inputSpecs'[new][k] = NoName
    BY <1>7, <2>1
  <2>3. Aligned(new)'
    BY <1>7 DEF Aligned
  <2>4. Shaped(new)'
    BY <1>7, <2>2 DEF Shaped
  <2>5. Layered(new)'
    BY <1>7, <1>9, <1>11, <2>2 DEF Layered, Driver
  <2> QED
    BY <1>9, <1>11, <2>2, <2>3, <2>4, <2>5 DEF Sound, Existing
<1>13. PICK made : made = Ref(Len(nodes) + 1, 1)
  OBVIOUS
<1>14. made \in Reference /\ Existing(made)' /\ Driver(made, {"op", "merge"})'
  <2>1. PICK x : x = nodes'[Len(nodes) + 1]
    OBVIOUS
  <2>2. x \in NodeType /\ x.kind = "merge" /\ Len(x.outputs) = 1
    <3>1. Len(nodes) + 1 \in DOMAIN nodes'
      BY <1>2, Facts, Domains
    <3>2. x \in NodeType /\ x.kind = "merge"
      BY <1>2, <2>1, <3>1
    <3>3. x.outputs = <<name>> /\ Len(<<name>>) = 1
      BY <1>2, <2>1
    <3> QED
      BY <3>2, <3>3
  <2> QED
    BY <1>2, <1>13, <2>1, <2>2, Facts, NewOutput
<1>15. Held'
  <2>1. ASSUME NEW nm \in Name, signalMap'[nm] # signalMap[nm]
        PROVE  /\ Existing(signalMap[nm])'
               /\ \A f \in pendingFfs' : f.name = nm => Driver(signalMap[nm], {"op", "merge"})'
    <3>1. signalMap'[nm] = made
      BY <1>3, <1>13, <2>1, Facts
    <3> QED
      BY <1>14, <3>1 DEF Existing, Driver
  <2> QED
    BY <1>2, <1>3, <2>1, Facts, HeldKept
<1>16. signalMap' \in [Name -> Reference]
  BY <1>3, <1>13, <1>14, Facts
<1>17. Typed'
  BY <1>2, <1>3, <1>4, <1>16, Facts, TypedKept
<1>18. nodes'[new].kind \notin {"ff", "ff_merge"}
  BY <1>7
<1> QED
  BY <1>1, <1>2, <1>3, <1>4, <1>5, <1>6, <1>12, <1>15, <1>17, <1>18, Facts, OneMoreNode

LEMMA LaterDriver ==
  ASSUME IInv, NEW n, NEW name \in Name, AddLaterDriver(n, name)
  PROVE  IInv'
<1>1. /\ n \in DOMAIN nodes /\ nodes[n].kind \in {"op", "instance"} /\ phase = "visit"
      /\ NextOutput(n) \in Reference /\ NextOutput(n).node = n /\ NextOutput(n) # Unconnected
      /\ NextOutput(n).port = Len(nodes[n].outputs) + 1
  BY Facts, BuildsNode DEF AddLaterDriver
<1>2. UNCHANGED <<signalMap, pendingFfs, ffMerge, phase>>
  BY DEF AddLaterDriver
<1>3. PICK merge \in DOMAIN nodes :
        /\ nodes[merge].kind = "merge"
        /\ nodes' \in Seq(NodeType)
        /\ inputSpecs' \in Seq(Specs)
        /\ Len(nodes') = Len(nodes)
        /\ Len(inputSpecs') = Len(inputSpecs)
        /\ \A m \in DOMAIN nodes :
             /\ nodes'[m].kind = nodes[m].kind
             /\ nodes'[m].inputs =
                  IF m = merge THEN Append(nodes[m].inputs, NextOutput(n)) ELSE nodes[m].inputs
             /\ nodes'[m].outputs =
                  IF m = n THEN Append(nodes[m].outputs, NoName) ELSE nodes[m].outputs
        /\ \A m \in DOMAIN inputSpecs :
             inputSpecs'[m] =
               IF m = merge THEN Append(inputSpecs[m], NoName) ELSE inputSpecs[m]
        /\ Kept
  BY Facts, AddLaterDriverEffect
<1>4. PICK ref : ref = NextOutput(n)
  OBVIOUS
<1>5. Existing(ref)' /\ Driver(ref, {"pi", "op", "instance"})'
  <2>1. Len(nodes[n].outputs) + 1 \in DOMAIN nodes'[n].outputs
    <3>1. PICK q : q = nodes[n].outputs
      OBVIOUS
    <3>2. q \in Seq(Names)
      BY <1>1, <3>1, Facts, Domains DEF Specs
    <3>3. Len(q) + 1 \in DOMAIN Append(q, NoName)
      BY <3>2, NameTypes
    <3> QED
      BY <1>1, <1>3, <3>1, <3>3
  <2> QED
    BY <1>1, <1>3, <1>4, <2>1 DEF Existing, Driver, Kept
<1>6. ASSUME NEW m \in DOMAIN nodes, m # merge
      PROVE  Sound(m)'
  <2>1. nodes[m].kind \in {"op", "instance"} \/ Len(nodes'[m].outputs) = Len(nodes[m].outputs)
    BY <1>1, <1>3
  <2>2. nodes'[m].inputs = nodes[m].inputs /\ inputSpecs'[m] = inputSpecs[m]
    BY <1>3, <1>6, Facts
  <2> QED
    BY <1>3, <2>1, <2>2, Facts, Untouched
<1>7. Sound(merge)'
  <2>1. PICK q, r : q = nodes[merge].inputs /\ r = inputSpecs[merge]
    OBVIOUS
  <2>2. nodes'[merge].inputs = Append(q, ref) /\ inputSpecs'[merge] = Append(r, NoName)
    BY <1>3, <1>4, <2>1, Facts
  <2>3. /\ q \in Seq(Reference) /\ r \in Seq(Names) /\ Len(r) = Len(q)
        /\ \A k \in DOMAIN q : /\ Existing(q[k]) /\ Driver(q[k], {"pi", "op", "instance"})
                               /\ r[k] = NoName
    <3>1. q \in Seq(Reference) /\ r \in Seq(Names)
      BY <1>3, <2>1, Facts, Domains DEF Specs
    <3>2. Sound(merge)
      BY <1>3, Facts
    <3> QED
      BY <1>3, <2>1, <3>1, <3>2 DEF Sound, Aligned, Shaped, Layered
  <2>4. \A k \in DOMAIN q : Existing(q[k])' /\ Driver(q[k], {"pi", "op", "instance"})'
    BY <1>3, <2>3, Facts, KeptReferences
  <2>5. /\ Len(Append(r, NoName)) = Len(Append(q, ref))
        /\ DOMAIN Append(q, ref) = 1..(Len(q) + 1) /\ DOMAIN q = 1..Len(q) /\ Len(q) \in Nat
        /\ \A k \in DOMAIN q : Append(q, ref)[k] = q[k] /\ Append(r, NoName)[k] = NoName
        /\ Append(q, ref)[Len(q) + 1] = ref /\ Append(r, NoName)[Len(q) + 1] = NoName
    BY <1>1, <1>4, <2>3, NameTypes
  <2>6. \A k \in DOMAIN Append(q, ref) :
          /\ Append(r, NoName)[k] = NoName
          /\ \/ Append(q, ref)[k] = ref
             \/ k \in DOMAIN q /\ Append(q, ref)[k] = q[k]
    BY <2>5
  <2>7. nodes'[merge].kind = "merge" /\ Len(nodes'[merge].outputs) = 1
    <3>1. Sound(merge) /\ merge # n
      BY <1>1, <1>3, Facts
    <3> QED
      BY <1>3, <3>1 DEF Sound, Shaped
  <2>8. Aligned(merge)'
    BY <2>2, <2>5 DEF Aligned
  <2>9. Shaped(merge)'
    BY <2>2, <2>6, <2>7 DEF Shaped
  <2>10. \A k \in DOMAIN nodes'[merge].inputs :
           /\ Existing(nodes[merge].inputs[k])'
           /\ Driver(nodes[merge].inputs[k], {"pi", "op", "instance"})'
    <3>1. SUFFICES ASSUME NEW k \in DOMAIN nodes'[merge].inputs
          PROVE  /\ Existing(nodes[merge].inputs[k])'
                 /\ Driver(nodes[merge].inputs[k], {"pi", "op", "instance"})'
      OBVIOUS
    <3>2. PICK x : x = nodes'[merge].inputs[k]
      OBVIOUS
    <3>3. x = ref \/ (k \in DOMAIN q /\ x = q[k])
      BY <2>2, <2>6, <3>2
    <3>4. Existing(x)' /\ Driver(x, {"pi", "op", "instance"})'
      BY <1>5, <2>4, <3>3 DEF Existing, Driver
    <3> QED
      BY <3>2, <3>4 DEF Existing, Driver
  <2>11. Layered(merge)'
    BY <2>7, <2>10 DEF Layered
  <2> QED
    BY <2>8, <2>9, <2>10, <2>11 DEF Sound
<1>8. \A m \in DOMAIN nodes : Sound(m)'
  BY <1>6, <1>7
<1>9. Typed'
  BY <1>2, <1>3, Facts, TypedKept
<1>10. Held'
  BY <1>2, <1>3, Facts, HeldKept
<1> QED
  BY <1>1, <1>2, <1>3, <1>8, <1>9, <1>10, Facts, SameNodes

LEMMA Records ==
  ASSUME IInv, NEW name \in Name, NEW domain \in Domain, NEW ref \in Reference,
         RecordFf(name, domain, ref)
  PROVE  IInv'
<1>1. /\ UNCHANGED <<nodes, inputSpecs, signalMap, ffMerge, phase>>
      /\ Existing(ref) /\ ref # Unconnected /\ nodes[ref.node].kind = "op"
      /\ signalMap[name] # Unconnected /\ Drives(ref, name)
      /\ pendingFfs' = pendingFfs \cup {[name |-> name, domain |-> domain, ref |-> ref]}
  BY DEF RecordFf
<1>2. Driver(ref, {"op"}) /\ Driver(signalMap[name], {"op", "merge"})
  BY <1>1 DEF Driver, Drives
<1>3. Held'
  BY <1>1, <1>2, Facts DEF Held, Existing, Driver
<1>4. Typed'
  <2>1. IsFiniteSet(pendingFfs')
    BY <1>1, FS_AddElement DEF IInv, Typed
  <2> QED
    BY <1>1, <2>1 DEF IInv, Typed, TigTypeOK
<1>5. Kept
  BY <1>1 DEF Kept
<1>6. \A m \in DOMAIN nodes : Sound(m)'
  BY <1>1, <1>5, Facts, Untouched
<1> QED
  BY <1>1, <1>3, <1>4, <1>5, <1>6, Facts, SameNodes

LEMMA Visits ==
  ASSUME IInv, InsertFfs
  PROVE  IInv'
<1>1. phase' = "insert" /\ UNCHANGED <<nodes, inputSpecs, signalMap, pendingFfs, ffMerge>>
  BY DEF InsertFfs
<1>2. Kept
  BY <1>1 DEF Kept
<1>3. \A m \in DOMAIN nodes : Sound(m)'
  BY <1>1, <1>2, Facts, Untouched
<1>4. Held' /\ Typed'
  BY <1>1, <1>2, Facts, HeldKept, TypedKept
<1> QED
  BY <1>1, <1>2, <1>3, <1>4, Facts, SameNodes

(* Nodes that may have lost a name, and nothing else.                      *)
Relabelled(base) ==
  /\ base \in Seq(NodeType)
  /\ Len(base) = Len(nodes)
  /\ \A m \in DOMAIN nodes :
       /\ base[m].kind = nodes[m].kind
       /\ base[m].inputs = nodes[m].inputs
       /\ Len(base[m].outputs) = Len(nodes[m].outputs)

LEMMA Relabellings ==
  ASSUME IInv
  PROVE  /\ Relabelled(nodes)
         /\ \A name \in Name : signalMap[name] # Unconnected => Relabelled(Registered(name))
<1>1. Relabelled(nodes)
  BY Facts DEF Relabelled
<1>2. ASSUME NEW name \in Name, signalMap[name] # Unconnected
      PROVE  Relabelled(Registered(name))
  <2>1. TigTypeOK /\ Held
    BY Facts
  <2> QED
    BY <1>2, <2>1, RegisteredEffect DEF Relabelled
<1> QED
  BY <1>1, <1>2

(* A step that only relabels the nodes there were, and adds some.          *)
LEMMA RelabelledKept ==
  ASSUME IInv, NEW base, Relabelled(base), nodes' \in Seq(NodeType), Len(nodes') >= Len(nodes),
         \A m \in DOMAIN nodes : nodes'[m] = base[m],
         \A m \in DOMAIN inputSpecs : inputSpecs'[m] = inputSpecs[m]
  PROVE  Kept /\ \A m \in DOMAIN nodes : Sound(m)'
<1>1. DOMAIN nodes \subseteq DOMAIN nodes' /\ DOMAIN nodes = 1..Len(nodes)
      /\ \A m \in DOMAIN nodes : nodes'[m] \in NodeType
  BY Facts, Domains DEF Relabelled
<1>2. ASSUME NEW m \in DOMAIN nodes
      PROVE  /\ nodes'[m].kind = nodes[m].kind
             /\ nodes'[m].inputs = nodes[m].inputs
             /\ Len(nodes'[m].outputs) = Len(nodes[m].outputs)
             /\ DOMAIN nodes'[m].outputs = DOMAIN nodes[m].outputs
  <2>1. nodes'[m].outputs \in Seq(Names) /\ nodes[m].outputs \in Seq(Names)
    BY <1>1, Facts, Domains, NodeFields DEF Specs
  <2>2. /\ DOMAIN nodes'[m].outputs = 1..Len(nodes'[m].outputs)
        /\ DOMAIN nodes[m].outputs = 1..Len(nodes[m].outputs)
    BY <2>1, Elements
  <2> QED
    BY <2>2 DEF Relabelled
<1>3. Kept
  BY <1>1, <1>2 DEF Kept
<1>4. \A m \in DOMAIN nodes : Sound(m)'
  BY <1>2, <1>3, Facts, Untouched
<1> QED
  BY <1>3, <1>4

LEMMA FfSound ==
  ASSUME NEW new, NEW data \in Reference, NEW d \in DomainType, NEW name \in Names,
         nodes'[new] = Ff(data, d, name), inputSpecs'[new] = FfSpecs(d),
         Existing(data)', Driver(data, {"op", "merge"})'
  PROVE  Sound(new)'
<1>1. PICK x, specs : x = Ff(data, d, name) /\ specs = FfSpecs(d)
  OBVIOUS
<1>2. /\ x \in NodeType /\ x.kind = "ff" /\ x.outputs = <<name>>
      /\ Len(x.inputs) \in {2, 3} /\ x.inputs[1] = data
      /\ \A k \in DOMAIN x.inputs : k # 1 => x.inputs[k] = Unconnected
      /\ Len(specs) = Len(x.inputs) /\ specs[1] = NoName
  BY <1>1, FfType
<1>3. nodes'[new] = x /\ inputSpecs'[new] = specs
  BY <1>1
<1>4. Aligned(new)'
  BY <1>2, <1>3 DEF Aligned
<1>5. Shaped(new)'
  <2>1. Len(x.outputs) = 1
    BY <1>2
  <2> QED
    BY <1>2, <1>3, <2>1 DEF Shaped
<1>6. Layered(new)'
  BY <1>2, <1>3 DEF Layered, Driver
<1>7. \A k \in DOMAIN nodes'[new].inputs : Existing(nodes[new].inputs[k])'
  BY <1>2, <1>3 DEF Existing
<1> QED
  BY <1>4, <1>5, <1>6, <1>7 DEF Sound

LEMMA PendingName ==
  ASSUME IInv, NEW name, NEW domain \in Clusters(name)
  PROVE  domain \in DomainType /\ Driver(signalMap[name], {"op", "merge"})
<1>1. PICK f \in pendingFfs : f.name = name /\ domain = Normal(f.domain)
  BY DEF Clusters, PendingOf
<1>2. f.domain \in Domain
  BY Facts DEF TigTypeOK
<1> QED
  BY <1>1, <1>2, Facts, NormalType DEF Held

LEMMA OneRegister ==
  ASSUME IInv, NEW name \in Name, InsertFf(name)
  PROVE  IInv'
<1>1. PICK domain \in Clusters(name) :
        /\ nodes' = Append(Registered(name), Ff(signalMap[name], domain, name))
        /\ inputSpecs' = Append(inputSpecs, FfSpecs(domain))
        /\ signalMap' = [signalMap EXCEPT ![name] = Ref(Len(nodes) + 1, 1)]
  BY DEF InsertFf
<1>2. pendingFfs' = pendingFfs \ PendingOf(name) /\ UNCHANGED <<ffMerge, phase>> /\ phase = "insert"
  BY DEF InsertFf
<1>3. PICK old : old = signalMap[name]
  OBVIOUS
<1>4. domain \in DomainType /\ Driver(old, {"op", "merge"}) /\ old \in Reference /\ Existing(old)
  BY <1>3, Facts, PendingName DEF Held
<1>5. PICK base : base = Registered(name)
  OBVIOUS
<1>6. Relabelled(base)
  BY <1>3, <1>4, <1>5, Relabellings DEF Driver
<1>7. PICK x, specs : x = Ff(old, domain, name) /\ specs = FfSpecs(domain)
  OBVIOUS
<1>8. x \in NodeType /\ specs \in Specs /\ x.kind = "ff" /\ Len(x.outputs) = 1
  <2>1. name \in Names
    BY NameTypes
  <2>2. x \in NodeType /\ specs \in Specs /\ x.kind = "ff" /\ x.outputs = <<name>>
    BY <1>4, <1>7, <2>1, FfType
  <2> QED
    BY <2>2
<1>9. nodes' = Append(base, x) /\ inputSpecs' = Append(inputSpecs, specs)
  BY <1>1, <1>3, <1>5, <1>7
<1>10. /\ nodes' \in Seq(NodeType) /\ Len(nodes') = Len(nodes) + 1
       /\ \A m \in DOMAIN nodes : nodes'[m] = base[m]
       /\ nodes'[Len(nodes) + 1] = x
  <2>1. base \in Seq(NodeType) /\ Len(base) = Len(nodes) /\ DOMAIN base = DOMAIN nodes
    BY <1>6, Facts DEF Relabelled
  <2> QED
    BY <1>8, <1>9, <2>1, Appended
<1>11. /\ inputSpecs' \in Seq(Specs) /\ Len(inputSpecs') = Len(inputSpecs) + 1
       /\ \A m \in DOMAIN inputSpecs : inputSpecs'[m] = inputSpecs[m]
       /\ inputSpecs'[Len(inputSpecs) + 1] = specs
  BY <1>8, <1>9, Facts, Appended
<1>12. Len(nodes) \in Nat
  BY Facts, Domains
<1>13. Kept /\ \A m \in DOMAIN nodes : Sound(m)'
  BY <1>6, <1>10, <1>11, <1>12, RelabelledKept
<1>14. PICK new : new = Len(nodes) + 1
  OBVIOUS
<1>15. Sound(new)'
  <2>1. Existing(old)' /\ Driver(old, {"op", "merge"})'
    BY <1>4, <1>13, Facts, KeptReferences
  <2>2. nodes'[new] = Ff(old, domain, name) /\ inputSpecs'[new] = FfSpecs(domain)
    BY <1>7, <1>10, <1>11, <1>14, Facts
  <2>3. name \in Names
    BY NameTypes
  <2> QED
    BY <1>4, <2>1, <2>2, <2>3, FfSound
<1>16. PICK made : made = Ref(Len(nodes) + 1, 1)
  OBVIOUS
<1>17. made \in Reference /\ Existing(made)'
  BY <1>8, <1>10, <1>16, Facts, NewOutput
<1>18. Held'
  <2>1. ASSUME NEW nm \in Name, signalMap'[nm] # signalMap[nm]
        PROVE  Existing(signalMap[nm])' /\ \A f \in pendingFfs' : f.name # nm
    <3>1. nm = name /\ signalMap'[nm] = made
      BY <1>1, <1>16, <2>1, Facts
    <3> QED
      BY <1>2, <1>17, <3>1 DEF Existing, PendingOf
  <2> QED
    BY <1>2, <1>13, <2>1, Facts, HeldKept
<1>19. Typed'
  <2>1. signalMap' \in [Name -> Reference]
    BY <1>1, <1>16, <1>17, Facts
  <2> QED
    BY <1>2, <1>10, <1>11, <2>1, Facts, TypedKept
<1> QED
  BY <1>2, <1>10, <1>11, <1>13, <1>14, <1>15, <1>18, <1>19, Facts, OneMoreNode

LEMMA ClusterDrivers ==
  ASSUME IInv, NEW name, NEW domain, NEW refs \in Orders({f.ref : f \in Cluster(name, domain)})
  PROVE  /\ refs \in Seq(Reference) /\ Blank(refs) \in Specs /\ Len(Blank(refs)) = Len(refs)
         /\ \A k \in DOMAIN refs :
              Existing(refs[k]) /\ Driver(refs[k], {"op"}) /\ Blank(refs)[k] = NoName
<1> DEFINE S == Cluster(name, domain)
           T == {f.ref : f \in S}
           card == Cardinality(T)
<1>1. S \subseteq pendingFfs
  BY DEF Cluster, PendingOf
<1>2. IsFiniteSet(S)
  BY <1>1, FS_Subset DEF IInv, Typed
<1>3. IsFiniteSet(T)
  <2>1. [f \in S |-> f.ref] \in Surjection(S, T)
    BY DEF Surjection
  <2> QED
    BY <1>2, <2>1, FS_Surjection
<1>4. card \in Nat
  BY <1>3, FS_CardinalityType
<1>5. \A ref \in T : ref \in Reference /\ Existing(ref) /\ Driver(ref, {"op"})
  BY <1>1, Facts DEF Held, TigTypeOK
<1>6. refs \in [1..card -> T]
  BY DEF Orders
<1> HIDE DEF S, T, card
<1>7. refs \in Seq(Reference) /\ DOMAIN refs = 1..card /\ Len(refs) = card
  <2>1. refs \in [1..card -> Reference]
    BY <1>5, <1>6
  <2> QED
    BY <1>4, <2>1
<1>8. Blank(refs) = [k \in 1..card |-> NoName]
  BY <1>7 DEF Blank
<1>9. Blank(refs) \in Seq(Names) /\ Len(Blank(refs)) = card
  BY <1>4, <1>8, NameTypes
<1> QED
  BY <1>5, <1>6, <1>7, <1>8, <1>9 DEF Specs

(* A cluster's register is added alone, or after the merge it is behind.   *)
LEMMA ClusterAlone ==
  ASSUME IInv, NEW name, NEW domain \in DomainType, NEW base, Relabelled(base),
         NEW refs \in Orders({f.ref : f \in Cluster(name, domain)}), Len(refs) = 1,
         nodes' = ClusterNodes(base, refs, domain), inputSpecs' = ClusterSpecs(refs, domain)
  PROVE  /\ nodes' \in Seq(NodeType) /\ inputSpecs' \in Seq(Specs)
         /\ Len(inputSpecs') = Len(nodes')
         /\ Kept
         /\ \A m \in DOMAIN nodes' : Sound(m)'
         /\ Len(nodes') \in DOMAIN nodes' /\ nodes'[Len(nodes')].kind = "ff"
<1>1. PICK x, specs : x = Ff(refs[1], domain, NoName) /\ specs = FfSpecs(domain)
  OBVIOUS
<1>2. PICK data : data = refs[1]
  OBVIOUS
<1>3. data \in Reference /\ Existing(data) /\ Driver(data, {"op", "merge"})
  <2>1. 1 \in DOMAIN refs /\ refs \in Seq(Reference)
    BY ClusterDrivers
  <2> QED
    BY <1>2, <2>1, ClusterDrivers DEF Driver
<1>4. x \in NodeType /\ x.kind = "ff" /\ specs \in Specs
  BY <1>1, <1>2, <1>3, NameTypes, FfType
<1>5. nodes' = Append(base, x) /\ inputSpecs' = Append(inputSpecs, specs)
  BY <1>1 DEF ClusterNodes, ClusterSpecs
<1>6. /\ nodes' \in Seq(NodeType) /\ Len(nodes') = Len(nodes) + 1
      /\ \A m \in DOMAIN nodes : nodes'[m] = base[m]
      /\ nodes'[Len(nodes) + 1] = x
  <2>1. base \in Seq(NodeType) /\ Len(base) = Len(nodes) /\ DOMAIN base = DOMAIN nodes
    BY Facts DEF Relabelled
  <2> QED
    BY <1>4, <1>5, <2>1, Appended
<1>7. /\ inputSpecs' \in Seq(Specs) /\ Len(inputSpecs') = Len(inputSpecs) + 1
      /\ \A m \in DOMAIN inputSpecs : inputSpecs'[m] = inputSpecs[m]
      /\ inputSpecs'[Len(inputSpecs) + 1] = specs
  BY <1>4, <1>5, Facts, Appended
<1>8. Len(nodes) \in Nat /\ DOMAIN nodes = 1..Len(nodes) /\ DOMAIN nodes' = 1..(Len(nodes) + 1)
  BY <1>6, Facts, Domains
<1>9. Kept /\ \A m \in DOMAIN nodes : Sound(m)'
  BY <1>6, <1>7, <1>8, RelabelledKept
<1>10. PICK new : new = Len(nodes) + 1
  OBVIOUS
<1>11. Sound(new)'
  <2>1. Existing(data)' /\ Driver(data, {"op", "merge"})'
    BY <1>3, <1>9, Facts, KeptReferences
  <2>2. nodes'[new] = Ff(data, domain, NoName) /\ inputSpecs'[new] = FfSpecs(domain)
    BY <1>1, <1>2, <1>6, <1>7, <1>10, Facts
  <2> QED
    BY <1>3, <2>1, <2>2, NameTypes, FfSound
<1>12. \A m \in DOMAIN nodes' : m \in DOMAIN nodes \/ m = new
  BY <1>8, <1>10
<1>13. \A m \in DOMAIN nodes' : Sound(m)'
  BY <1>9, <1>11, <1>12
<1> QED
  BY <1>4, <1>6, <1>7, <1>8, <1>9, <1>13, Facts

LEMMA ClusterMerged ==
  ASSUME IInv, NEW name, NEW domain \in DomainType, NEW base, Relabelled(base),
         NEW refs \in Orders({f.ref : f \in Cluster(name, domain)}), Len(refs) # 1,
         nodes' = ClusterNodes(base, refs, domain), inputSpecs' = ClusterSpecs(refs, domain)
  PROVE  /\ nodes' \in Seq(NodeType) /\ inputSpecs' \in Seq(Specs)
         /\ Len(inputSpecs') = Len(nodes')
         /\ Kept
         /\ \A m \in DOMAIN nodes' : Sound(m)'
         /\ Len(nodes') \in DOMAIN nodes' /\ nodes'[Len(nodes')].kind = "ff"
<1>1. PICK data : data = Ref(Len(base) + 1, 1)
  OBVIOUS
<1>2. PICK x, y, blank, specs :
        /\ x = Plain("merge", refs, <<NoName>>) /\ y = Ff(data, domain, NoName)
        /\ blank = Blank(refs) /\ specs = FfSpecs(domain)
  OBVIOUS
<1>3. /\ base \in Seq(NodeType) /\ Len(base) = Len(nodes) /\ DOMAIN base = DOMAIN nodes
      /\ Len(nodes) \in Nat /\ DOMAIN nodes = 1..Len(nodes)
  BY Facts, Domains DEF Relabelled
<1>4. data \in Reference /\ data # Unconnected /\ data.node = Len(nodes) + 1 /\ data.port = 1
  <2>1. PICK n : n = Len(base) + 1
    OBVIOUS
  <2>2. n \in Nat /\ 1 \in Nat /\ n # 0 /\ n = Len(nodes) + 1
    BY <1>3, <2>1
  <2> QED
    BY <1>1, <2>1, <2>2, RefType
<1>5. /\ x \in NodeType /\ x.kind = "merge" /\ x.inputs = refs /\ Len(x.outputs) = 1
      /\ DOMAIN x.outputs = {1}
  <2>1. PICK outs : outs = <<NoName>>
    OBVIOUS
  <2>2. refs \in Seq(Reference) /\ outs \in Specs /\ "merge" \in PlainKinds
    BY <2>1, ClusterDrivers, NameTypes DEF Specs, PlainKinds
  <2>3. /\ Plain("merge", refs, outs) \in NodeType /\ Plain("merge", refs, outs).kind = "merge"
        /\ Plain("merge", refs, outs).inputs = refs /\ Plain("merge", refs, outs).outputs = outs
    BY <2>2, PlainType
  <2>4. Len(outs) = 1 /\ DOMAIN outs = {1}
    BY <2>1
  <2> QED
    BY <1>2, <2>1, <2>3, <2>4
<1>6. y \in NodeType /\ y.kind = "ff" /\ specs \in Specs
  BY <1>2, <1>4, NameTypes, FfType
<1>7. blank \in Specs
  BY <1>2, ClusterDrivers
<1>8. PICK mid, midSpecs : mid = Append(base, x) /\ midSpecs = Append(inputSpecs, blank)
  OBVIOUS
<1>9. nodes' = Append(mid, y) /\ inputSpecs' = Append(midSpecs, specs)
  BY <1>1, <1>2, <1>8 DEF ClusterNodes, ClusterSpecs
<1>10. /\ mid \in Seq(NodeType) /\ Len(mid) = Len(nodes) + 1 /\ DOMAIN mid = 1..(Len(nodes) + 1)
       /\ \A m \in DOMAIN nodes : mid[m] = base[m]
       /\ mid[Len(nodes) + 1] = x
  BY <1>3, <1>5, <1>8, Appended
<1>11. /\ midSpecs \in Seq(Specs) /\ Len(midSpecs) = Len(nodes) + 1
       /\ DOMAIN midSpecs = 1..(Len(nodes) + 1)
       /\ \A m \in DOMAIN inputSpecs : midSpecs[m] = inputSpecs[m]
       /\ midSpecs[Len(nodes) + 1] = blank
  BY <1>7, <1>8, Facts, Appended
<1>12. /\ nodes' \in Seq(NodeType) /\ Len(nodes') = Len(nodes) + 2
       /\ \A m \in DOMAIN mid : nodes'[m] = mid[m]
       /\ nodes'[Len(nodes) + 2] = y
  <2>1. Len(mid) + 1 = Len(nodes) + 2
    BY <1>3, <1>10
  <2> QED
    BY <1>6, <1>9, <1>10, <2>1, Appended
<1>13. /\ inputSpecs' \in Seq(Specs) /\ Len(inputSpecs') = Len(nodes) + 2
       /\ \A m \in DOMAIN midSpecs : inputSpecs'[m] = midSpecs[m]
       /\ inputSpecs'[Len(nodes) + 2] = specs
  <2>1. Len(midSpecs) + 1 = Len(nodes) + 2
    BY <1>3, <1>11
  <2> QED
    BY <1>6, <1>9, <1>11, <2>1, Appended
<1>14. PICK merged, last : merged = Len(nodes) + 1 /\ last = Len(nodes) + 2
  OBVIOUS
<1>15. /\ merged \in DOMAIN mid /\ merged \in DOMAIN midSpecs /\ merged # 0
       /\ DOMAIN nodes' = 1..last
       /\ \A m \in DOMAIN nodes : m \in DOMAIN mid /\ m \in DOMAIN midSpecs
       /\ \A m \in DOMAIN nodes' : m \in DOMAIN nodes \/ m = merged \/ m = last
       /\ merged \in DOMAIN nodes' /\ last \in DOMAIN nodes'
  BY SMTT(20), <1>3, <1>10, <1>11, <1>12, <1>14
<1>16. Kept /\ \A m \in DOMAIN nodes : Sound(m)'
  <2>1. /\ \A m \in DOMAIN nodes : nodes'[m] = base[m]
        /\ \A m \in DOMAIN inputSpecs : inputSpecs'[m] = inputSpecs[m]
    BY <1>10, <1>11, <1>12, <1>13, <1>15, Facts
  <2>2. Len(nodes') >= Len(nodes)
    BY <1>3, <1>12
  <2> QED
    BY <1>12, <2>1, <2>2, RelabelledKept
<1>17. /\ nodes'[merged] = x /\ inputSpecs'[merged] = blank
       /\ nodes'[last] = y /\ inputSpecs'[last] = specs
  BY <1>10, <1>11, <1>12, <1>13, <1>14, <1>15
<1>18. Sound(merged)'
  <2>1. \A k \in DOMAIN refs :
          Existing(refs[k]) /\ Driver(refs[k], {"op"}) /\ blank[k] = NoName
    BY <1>2, ClusterDrivers
  <2>2. \A k \in DOMAIN refs : Existing(refs[k])' /\ Driver(refs[k], {"op"})'
    BY <1>16, <2>1, Facts, KeptReferences
  <2>3. Len(blank) = Len(refs)
    BY <1>2, ClusterDrivers
  <2>4. Aligned(merged)'
    BY <1>5, <1>17, <2>3 DEF Aligned
  <2>5. Shaped(merged)'
    BY <1>5, <1>17, <2>1 DEF Shaped
  <2>6. Layered(merged)'
    BY <1>5, <1>17, <2>2 DEF Layered, Driver
  <2> QED
    BY <1>5, <1>17, <2>2, <2>4, <2>5, <2>6 DEF Sound, Existing
<1>19. Sound(last)'
  <2>1. Existing(data)' /\ Driver(data, {"op", "merge"})'
    BY <1>4, <1>5, <1>14, <1>15, <1>17 DEF Existing, Driver
  <2> QED
    BY <1>2, <1>4, <1>17, <2>1, NameTypes, FfSound
<1>20. \A m \in DOMAIN nodes' : Sound(m)'
  BY <1>15, <1>16, <1>18, <1>19
<1> QED
  BY <1>6, <1>12, <1>13, <1>14, <1>15, <1>16, <1>17, <1>20

LEMMA ClusterRegister ==
  ASSUME IInv, NEW name \in Name, NEW domain, InsertClusterFf(name, domain)
  PROVE  IInv'
<1>1. /\ phase = "insert" /\ domain \in Clusters(name)
      /\ pendingFfs' = pendingFfs \ Cluster(name, domain) /\ UNCHANGED <<signalMap, phase>>
  BY DEF InsertClusterFf
<1>2. PICK refs \in Orders({f.ref : f \in Cluster(name, domain)}),
           base \in {nodes, Registered(name)} :
        /\ nodes' = ClusterNodes(base, refs, domain)
        /\ inputSpecs' = ClusterSpecs(refs, domain)
        /\ ffMerge' = [name |-> name, ffs |-> Append(ffMerge.ffs, Ref(Len(nodes'), 1))]
  BY DEF InsertClusterFf
<1>3. domain \in DomainType /\ Relabelled(base)
  BY <1>1, <1>2, PendingName, Relabellings DEF Driver
<1>4. /\ nodes' \in Seq(NodeType) /\ inputSpecs' \in Seq(Specs)
      /\ Len(inputSpecs') = Len(nodes')
      /\ Kept
      /\ \A m \in DOMAIN nodes' : Sound(m)'
      /\ Len(nodes') \in DOMAIN nodes' /\ nodes'[Len(nodes')].kind = "ff"
  <2>1. CASE Len(refs) = 1
    BY <1>2, <1>3, <2>1, ClusterAlone
  <2>2. CASE Len(refs) # 1
    BY <1>2, <1>3, <2>2, ClusterMerged
  <2> QED
    BY <2>1, <2>2
<1>5. PICK made : made = Ref(Len(nodes'), 1)
  OBVIOUS
<1>6. /\ made \in Reference /\ made.node = Len(nodes') /\ made.port = 1 /\ made # Unconnected
      /\ Existing(made)' /\ Driver(made, {"ff"})'
  <2>1. Len(nodes') \in Nat /\ Len(nodes') # 0 /\ nodes'[Len(nodes')] \in NodeType
    BY <1>4
  <2>2. made \in Reference /\ made.node = Len(nodes') /\ made.port = 1 /\ made # Unconnected
    BY <1>5, <2>1, RefType
  <2>3. 1 \in DOMAIN nodes'[Len(nodes')].outputs
    <3>1. PICK last, q : last = Len(nodes') /\ q = nodes'[last].outputs
      OBVIOUS
    <3>2. q \in Seq(Names)
      BY <2>1, <3>1, NodeFields
    <3>3. Len(q) = 1
      BY <1>4, <3>1 DEF Sound, Shaped
    <3> QED
      BY <3>1, <3>2, <3>3
  <2> QED
    BY <1>4, <2>2, <2>3 DEF Existing, Driver
<1>7. ffMerge'.name = name /\ ffMerge'.ffs = Append(ffMerge.ffs, made)
  BY <1>2, <1>5
<1>8. PICK q : q = ffMerge.ffs
  OBVIOUS
<1>9. /\ q \in Seq(Reference)
      /\ \A k \in DOMAIN q : Existing(q[k]) /\ Driver(q[k], {"ff"}) /\ q[k].port = 1
  BY <1>8, Facts DEF Held
<1>10. \A ref : Existing(ref) => Existing(ref)' /\ \A kinds : Driver(ref, kinds) => Driver(ref, kinds)'
  BY <1>4, Facts, KeptReferences
<1>11. \A k \in DOMAIN Append(q, made) :
         Append(q, made)[k] = made \/ (k \in DOMAIN q /\ Append(q, made)[k] = q[k])
  BY <1>6, <1>9
<1>12. ASSUME NEW k \in DOMAIN ffMerge'.ffs
       PROVE  (Existing(ffMerge.ffs[k]) /\ Driver(ffMerge.ffs[k], {"ff"}) /\ ffMerge.ffs[k].port = 1)'
  <2>1. PICK ref : ref = ffMerge'.ffs[k]
    OBVIOUS
  <2>2. ref = made \/ (k \in DOMAIN q /\ ref = q[k])
    BY <1>7, <1>8, <1>11, <2>1
  <2>3. Existing(ref)' /\ Driver(ref, {"ff"})' /\ ref.port = 1
    BY <1>6, <1>9, <1>10, <2>2 DEF Existing, Driver
  <2> QED
    BY <2>1, <2>3 DEF Existing, Driver
<1>13. ASSUME NEW nm \in Name
       PROVE  Existing(signalMap[nm])'
  <2>1. PICK ref : ref = signalMap[nm]
    OBVIOUS
  <2>2. Existing(ref)'
    BY <1>10, <2>1, Facts DEF Held
  <2> QED
    BY <1>1, <2>1, <2>2 DEF Existing
<1>14. ASSUME NEW f \in pendingFfs'
       PROVE  (Existing(f.ref) /\ Driver(f.ref, {"op"}) /\ Driver(signalMap[f.name], {"op", "merge"}))'
  <2>1. PICK ref : ref = signalMap[f.name]
    OBVIOUS
  <2>2. Existing(f.ref) /\ Driver(f.ref, {"op"}) /\ Existing(ref) /\ Driver(ref, {"op", "merge"})
    <3>1. f \in pendingFfs /\ f.name \in Name
      BY <1>1, Facts DEF TigTypeOK
    <3> QED
      BY <2>1, <3>1, Facts DEF Held
  <2>3. Existing(f.ref)' /\ Driver(f.ref, {"op"})' /\ Driver(ref, {"op", "merge"})'
    BY <1>10, <2>2
  <2> QED
    BY <1>1, <2>1, <2>3 DEF Driver
<1>15. Held'
  BY <1>12, <1>13, <1>14 DEF Held
<1>16. Typed'
  <2>1. Append(q, made) \in Seq(Reference)
    BY <1>6, <1>9
  <2>2. ffMerge' \in [name: Names, ffs: Seq(Reference)]
    BY <1>2, <1>5, <1>8, <2>1, NameTypes
  <2> QED
    BY <1>1, <1>4, <2>2, Facts, TypedKept
<1>17. Visited'
  BY <1>1 DEF Visited
<1> QED
  BY <1>4, <1>15, <1>16, <1>17 DEF IInv, Structure

LEMMA MergedRegisters ==
  ASSUME IInv, InsertFfMerge
  PROVE  IInv'
<1>1. PICK name, q : name = ffMerge.name /\ q = ffMerge.ffs
  OBVIOUS
<1>2. PICK x, specs : x = Plain("ff_merge", q, <<name>>) /\ specs = Blank(q)
  OBVIOUS
<1>3. /\ phase = "insert" /\ PendingOf(name) = {} /\ ffMerge' = NoMerge
      /\ CreateNode(x, specs) /\ UNCHANGED <<pendingFfs, phase>>
      /\ signalMap' = [signalMap EXCEPT ![name] = Ref(Len(nodes) + 1, 1)]
  BY <1>1, <1>2 DEF InsertFfMerge
<1>4. /\ q \in Seq(Reference) /\ name \in Names
      /\ \A k \in DOMAIN q : Existing(q[k]) /\ Driver(q[k], {"ff"}) /\ q[k].port = 1
  BY <1>1, Facts DEF Held
<1>5. /\ x \in NodeType /\ x.kind = "ff_merge" /\ x.inputs = q /\ Len(x.outputs) = 1
  <2>1. PICK outs : outs = <<name>>
    OBVIOUS
  <2>2. outs \in Specs /\ "ff_merge" \in PlainKinds /\ Len(outs) = 1
    BY <1>4, <2>1 DEF Specs, PlainKinds
  <2>3. /\ Plain("ff_merge", q, outs) \in NodeType /\ Plain("ff_merge", q, outs).kind = "ff_merge"
        /\ Plain("ff_merge", q, outs).inputs = q /\ Plain("ff_merge", q, outs).outputs = outs
    BY <1>4, <2>2, PlainType
  <2> QED
    BY <1>2, <2>1, <2>2, <2>3
<1>6. specs \in Specs /\ Len(specs) = Len(q) /\ \A k \in DOMAIN q : specs[k] = NoName
  <2>1. specs = [k \in 1..Len(q) |-> NoName] /\ Len(q) \in Nat /\ DOMAIN q = 1..Len(q)
    BY <1>2, <1>4 DEF Blank
  <2> QED
    BY <2>1, NameTypes DEF Specs
<1>7. /\ nodes' \in Seq(NodeType) /\ inputSpecs' \in Seq(Specs)
      /\ Len(nodes') = Len(nodes) + 1 /\ Len(inputSpecs') = Len(inputSpecs) + 1
      /\ \A m \in DOMAIN nodes : nodes'[m] = nodes[m]
      /\ \A m \in DOMAIN inputSpecs : inputSpecs'[m] = inputSpecs[m]
      /\ nodes'[Len(nodes) + 1] = x
      /\ inputSpecs'[Len(inputSpecs) + 1] = specs
      /\ Kept
  BY <1>3, <1>5, <1>6, Facts, CreateNodeEffect
<1>8. \A m \in DOMAIN nodes : Sound(m)'
  BY <1>7, Facts, Untouched
<1>9. PICK new : new = Len(nodes) + 1
  OBVIOUS
<1>10. nodes'[new] = x /\ inputSpecs'[new] = specs
  BY <1>7, <1>9, Facts
<1>11. Sound(new)'
  <2>1. \A k \in DOMAIN q : Existing(q[k])' /\ Driver(q[k], {"ff"})'
    BY <1>4, <1>7, Facts, KeptReferences
  <2>2. Aligned(new)' /\ Shaped(new)'
    BY <1>5, <1>6, <1>10 DEF Aligned, Shaped
  <2>3. Layered(new)'
    BY <1>4, <1>5, <1>10, <2>1 DEF Layered, Driver
  <2> QED
    BY <1>5, <1>10, <2>1, <2>2, <2>3 DEF Sound, Existing
<1>12. PICK made : made = Ref(Len(nodes) + 1, 1)
  OBVIOUS
<1>13. made \in Reference /\ Existing(made)'
  BY <1>5, <1>7, <1>12, Facts, NewOutput
<1>14. \A ref : Existing(ref) => Existing(ref)' /\ \A kinds : Driver(ref, kinds) => Driver(ref, kinds)'
  BY <1>7, Facts, KeptReferences
<1>15. ASSUME NEW nm \in Name
       PROVE  Existing(signalMap[nm])'
  <2>1. PICK ref : ref = signalMap[nm]
    OBVIOUS
  <2>2. signalMap'[nm] = ref \/ signalMap'[nm] = made
    BY <1>3, <1>12, <2>1, Facts
  <2>3. Existing(ref)'
    BY <1>14, <2>1, Facts DEF Held
  <2> QED
    BY <1>13, <2>2, <2>3 DEF Existing
<1>16. ASSUME NEW f \in pendingFfs'
       PROVE  (Existing(f.ref) /\ Driver(f.ref, {"op"}) /\ Driver(signalMap[f.name], {"op", "merge"}))'
  <2>1. f \in pendingFfs /\ f.name \in Name /\ f.name # name
    BY <1>3, Facts DEF TigTypeOK, PendingOf
  <2>2. PICK ref : ref = signalMap[f.name]
    OBVIOUS
  <2>3. signalMap'[f.name] = ref
    BY <1>3, <2>1, <2>2, Facts
  <2>4. Existing(f.ref) /\ Driver(f.ref, {"op"}) /\ Existing(ref) /\ Driver(ref, {"op", "merge"})
    BY <2>1, <2>2, Facts DEF Held
  <2>5. Existing(f.ref)' /\ Driver(f.ref, {"op"})' /\ Driver(ref, {"op", "merge"})'
    BY <1>14, <2>4
  <2> QED
    BY <2>3, <2>5 DEF Driver
<1>17. DOMAIN ffMerge'.ffs = {} /\ ffMerge' \in [name: Names, ffs: Seq(Reference)]
  BY <1>3, NameTypes DEF NoMerge
<1>18. Held'
  BY <1>15, <1>16, <1>17 DEF Held
<1>19. Typed'
  <2>1. signalMap' \in [Name -> Reference]
    BY <1>3, <1>12, <1>13, Facts
  <2> QED
    BY <1>3, <1>7, <1>17, <2>1, Facts, TypedKept
<1> QED
  BY <1>3, <1>7, <1>8, <1>9, <1>11, <1>18, <1>19, Facts, OneMoreNode

LEMMA Wires ==
  ASSUME IInv, WireConnections
  PROVE  IInv'
<1> DEFINE resolved(n) == [k \in 1..Len(nodes[n].inputs) |-> Resolve(n, k)]
<1>1. /\ phase' = "wired" /\ UNCHANGED <<inputSpecs, signalMap, pendingFfs, ffMerge>>
      /\ nodes' = [n \in DOMAIN nodes |-> [nodes[n] EXCEPT !.inputs = resolved(n)]]
  BY DEF WireConnections
<1>2. ASSUME NEW n \in DOMAIN nodes
      PROVE  /\ resolved(n) \in Seq(Reference) /\ Len(resolved(n)) = Len(nodes[n].inputs)
             /\ DOMAIN resolved(n) = DOMAIN nodes[n].inputs
             /\ \A k \in DOMAIN nodes[n].inputs : resolved(n)[k] = Resolve(n, k)
  <2>1. /\ nodes[n].inputs \in Seq(Reference) /\ DOMAIN nodes[n].inputs = 1..Len(nodes[n].inputs)
        /\ n \in DOMAIN inputSpecs /\ inputSpecs[n] \in Seq(Names)
    BY Facts, Domains DEF Specs
  <2>2. PICK q, len : q = nodes[n].inputs /\ len = Len(nodes[n].inputs)
    OBVIOUS
  <2>3. len \in Nat /\ DOMAIN q = 1..len
    BY <2>1, <2>2
  <2>4. \A k \in 1..len : Resolve(n, k) \in Reference
    <3>1. \A k \in 1..len : nodes[n].inputs[k] \in Reference
      BY <2>1, <2>2
    <3>2. \A k \in DOMAIN inputSpecs[n] : inputSpecs[n][k] # NoName => inputSpecs[n][k] \in Name
      BY <2>1 DEF Names
    <3> QED
      BY <3>1, <3>2, Facts DEF Resolve
  <2>5. resolved(n) = [k \in 1..len |-> Resolve(n, k)]
    BY <2>2
  <2> HIDE DEF resolved
  <2>6. resolved(n) \in Seq(Reference) /\ Len(resolved(n)) = len /\ DOMAIN resolved(n) = 1..len
    BY <2>3, <2>4, <2>5
  <2>7. \A k \in 1..len : resolved(n)[k] = Resolve(n, k)
    BY <2>5
  <2> QED
    BY <2>2, <2>3, <2>6, <2>7
<1> HIDE DEF resolved
<1>3. ASSUME NEW n \in DOMAIN nodes
      PROVE  /\ nodes'[n] \in NodeType
             /\ nodes'[n].kind = nodes[n].kind /\ nodes'[n].outputs = nodes[n].outputs
             /\ nodes'[n].inputs = resolved(n)
  <2>1. nodes[n] \in NodeType /\ nodes'[n] = [nodes[n] EXCEPT !.inputs = resolved(n)]
    BY <1>1, Facts, Domains
  <2>2. [nodes[n] EXCEPT !.inputs = resolved(n)] \in NodeType
    BY <1>2, <2>1, NodeFields
  <2> QED
    BY <2>1, <2>2 DEF NodeType
<1>4. nodes' \in Seq(NodeType) /\ Len(nodes') = Len(nodes)
  <2>1. Len(nodes) \in Nat /\ DOMAIN nodes = 1..Len(nodes) /\ DOMAIN nodes' = DOMAIN nodes
    BY <1>1, Facts, Domains
  <2>2. nodes' \in [1..Len(nodes) -> NodeType]
    BY <1>1, <1>3, <2>1
  <2> QED
    BY <2>1, <2>2
<1>5. Kept
  BY <1>3, <1>4, Facts, Domains DEF Kept
<1>6. \A ref : Existing(ref) => Existing(ref)' /\ \A kinds : Driver(ref, kinds) => Driver(ref, kinds)'
  BY <1>5, Facts, KeptReferences
<1>7. ASSUME NEW n \in DOMAIN nodes
      PROVE  Sound(n)'
  <2>1. /\ Sound(n) /\ DOMAIN nodes[n].inputs = 1..Len(nodes[n].inputs)
        /\ n \in DOMAIN inputSpecs /\ inputSpecs[n] \in Seq(Names)
        /\ \A k \in DOMAIN nodes[n].inputs : nodes'[n].inputs[k] = Resolve(n, k)
        /\ DOMAIN nodes'[n].inputs = DOMAIN nodes[n].inputs
        /\ Len(nodes'[n].inputs) = Len(nodes[n].inputs)
    BY <1>2, <1>3, Facts, Domains DEF Specs
  <2>2. \A k \in DOMAIN nodes[n].inputs :
          inputSpecs[n][k] = NoName => nodes'[n].inputs[k] = nodes[n].inputs[k]
    BY <2>1 DEF Resolve
  <2>3. \A k \in DOMAIN nodes'[n].inputs : Existing(nodes[n].inputs[k])'
    <3>1. SUFFICES ASSUME NEW k \in DOMAIN nodes[n].inputs
          PROVE  Existing(nodes[n].inputs[k])'
      BY <2>1
    <3>2. PICK ref : ref = nodes'[n].inputs[k]
      OBVIOUS
    <3>3. ref = nodes[n].inputs[k] \/ \E name \in Name : ref = signalMap[name]
      BY <2>1, <3>2 DEF Resolve, Names
    <3>4. Existing(ref)
      BY <2>1, <3>3, Facts DEF Sound, Held
    <3>5. Existing(ref)'
      BY <1>6, <3>4
    <3> QED
      BY <3>2, <3>5 DEF Existing
  <2>4. Aligned(n)'
    BY <1>1, <1>3, <2>1 DEF Sound, Aligned
  <2>5. Shaped(n)'
    BY <1>1, <1>3, <2>1 DEF Sound, Shaped
  <2>6. \A k \in DOMAIN nodes[n].inputs : \A kinds :
          Driver(nodes[n].inputs[k], kinds) /\ inputSpecs[n][k] = NoName
            => Driver(nodes[n].inputs[k], kinds)' /\ nodes'[n].inputs[k] = nodes[n].inputs[k]
    <3>1. SUFFICES ASSUME NEW k \in DOMAIN nodes[n].inputs, NEW kinds,
                          Driver(nodes[n].inputs[k], kinds), inputSpecs[n][k] = NoName
          PROVE  Driver(nodes[n].inputs[k], kinds)' /\ nodes'[n].inputs[k] = nodes[n].inputs[k]
      OBVIOUS
    <3>2. PICK ref : ref = nodes[n].inputs[k]
      OBVIOUS
    <3>3. Existing(ref) /\ Driver(ref, kinds) /\ nodes'[n].inputs[k] = ref
      BY <2>1, <2>2, <3>1, <3>2 DEF Sound
    <3>4. Driver(ref, kinds)'
      BY <1>6, <3>3
    <3> QED
      BY <3>2, <3>3, <3>4 DEF Driver
  <2>7. Layered(n)'
    <3>1. nodes[n].kind = "merge" =>
            \A k \in DOMAIN nodes[n].inputs : Driver(nodes[n].inputs[k], {"pi", "op", "instance"})'
      BY <2>1, <2>6 DEF Sound, Shaped, Layered
    <3>2. nodes[n].kind = "ff" => Driver(nodes[n].inputs[1], {"op", "merge"})'
      BY <2>1, <2>6 DEF Sound, Shaped, Layered
    <3>3. nodes[n].kind = "ff_merge" =>
            \A k \in DOMAIN nodes[n].inputs :
              Driver(nodes[n].inputs[k], {"ff"})' /\ nodes'[n].inputs[k].port = 1
      BY <2>1, <2>6 DEF Sound, Shaped, Layered
    <3> QED
      BY <1>3, <2>1, <3>1, <3>2, <3>3 DEF Layered
  <2> QED
    BY <2>3, <2>4, <2>5, <2>7 DEF Sound
<1>8. Held' /\ Typed'
  BY <1>1, <1>4, <1>5, Facts, HeldKept, TypedKept
<1> QED
  BY <1>1, <1>4, <1>5, <1>7, <1>8, Facts, SameNodes

LEMMA Starts == TigInit => IInv
<1> SUFFICES ASSUME TigInit
    PROVE  IInv
  OBVIOUS
<1>1. /\ nodes = <<>> /\ inputSpecs = <<>> /\ pendingFfs = {} /\ phase = "visit"
      /\ signalMap = [name \in Name |-> Unconnected] /\ ffMerge = NoMerge
  BY DEF TigInit
<1>2. DOMAIN nodes = {} /\ DOMAIN ffMerge.ffs = {} /\ Len(inputSpecs) = Len(nodes)
  BY <1>1 DEF NoMerge
<1>3. Typed
  <2>1. ffMerge \in [name: Name \cup {NoName}, ffs: Seq(Reference)]
    BY <1>1 DEF NoMerge
  <2>2. signalMap \in [Name -> Reference]
    BY <1>1, RefType
  <2>3. nodes \in Seq(NodeType) /\ inputSpecs \in Seq(Seq(Name \cup {NoName}))
    BY <1>1
  <2> QED
    BY <1>1, <2>1, <2>2, <2>3, FS_EmptySet DEF Typed, TigTypeOK
<1>4. Held
  BY <1>1, <1>2 DEF Held, Existing
<1> QED
  BY <1>2, <1>3, <1>4 DEF IInv, Structure, Visited

LEMMA Steps == IInv /\ [TigNext]_tigVars => IInv'
<1> SUFFICES ASSUME IInv, [TigNext]_tigVars
    PROVE  IInv'
  OBVIOUS
<1>1. ASSUME NEW name \in Name, CreateModuleInput(name) \/ CreateModuleOutput(name)
      PROVE  IInv'
  BY <1>1, Creates
<1>2. ASSUME CreateOperation \/ CreateInstance
      PROVE  IInv'
  BY <1>2, Creates
<1>3. ASSUME NEW n \in DOMAIN nodes, NEW m \in DOMAIN nodes, NEW p \in DOMAIN nodes[m].outputs,
             AddNodeInput(n, Ref(m, p))
      PROVE  IInv'
  <2>1. m \in Nat /\ p \in Nat
    BY Facts, Domains
  <2>2. PICK ref : ref = Ref(m, p)
    OBVIOUS
  <2>3. ref \in Reference /\ Builds(n) /\ Existing(ref) /\ ConnectInput(n, ref, NoName)
    BY <1>3, <2>1, <2>2, RefType DEF AddNodeInput
  <2> QED
    BY <2>3, NameTypes, Connects
<1>4. ASSUME NEW n \in DOMAIN nodes,
             AddNodeInput(n, Unconnected) \/ \E name \in Name : AddNodeInputSpec(n, name)
      PROVE  IInv'
  <2>1. PICK ref, name : /\ ref = Unconnected /\ name \in Names
                         /\ Builds(n) /\ ConnectInput(n, ref, name)
    BY <1>4, NameTypes DEF AddNodeInput, AddNodeInputSpec
  <2>2. ref \in Reference /\ Existing(ref)
    BY <2>1, RefType DEF Existing
  <2> QED
    BY <2>1, <2>2, Connects
<1>5. ASSUME NEW n \in DOMAIN nodes, FinalizeNodeInput(n)
      PROVE  IInv'
  BY <1>5, Finalizes
<1>6. ASSUME NEW n \in DOMAIN nodes, NEW name \in Name \cup {NoName}, AddNodeOutput(n, name)
      PROVE  IInv'
  <2>1. CASE AddFirstDriver(n, name)
    BY <2>1, FirstDriver DEF Names
  <2>2. CASE name # NoName /\ AddSecondDriver(n, name)
    BY <2>2, SecondDriver
  <2>3. CASE name # NoName /\ AddLaterDriver(n, name)
    BY <2>3, LaterDriver
  <2> QED
    BY <1>6, <2>1, <2>2, <2>3 DEF AddNodeOutput
<1>7. ASSUME NEW name \in Name, NEW domain \in Domain, NEW n \in DOMAIN nodes,
             NEW p \in DOMAIN nodes[n].outputs, RecordFf(name, domain, Ref(n, p))
      PROVE  IInv'
  <2>1. n \in Nat /\ p \in Nat
    BY Facts, Domains
  <2>2. PICK ref : ref = Ref(n, p)
    OBVIOUS
  <2>3. ref \in Reference /\ RecordFf(name, domain, ref)
    BY <1>7, <2>1, <2>2, RefType
  <2> QED
    BY <2>3, Records
<1>8. CASE InsertFfs
  BY <1>8, Visits
<1>9. ASSUME NEW name \in Name, InsertFf(name)
      PROVE  IInv'
  BY <1>9, OneRegister
<1>10. ASSUME NEW name \in Name, NEW domain \in Clusters(name), InsertClusterFf(name, domain)
       PROVE  IInv'
  BY <1>10, ClusterRegister
<1>11. CASE InsertFfMerge
  BY <1>11, MergedRegisters
<1>12. CASE WireConnections
  BY <1>12, Wires
<1>13. CASE UNCHANGED tigVars
  <2>1. UNCHANGED <<nodes, inputSpecs, signalMap, pendingFfs, ffMerge, phase>>
    BY <1>13 DEF tigVars
  <2>2. Kept
    BY <2>1 DEF Kept
  <2>3. \A m \in DOMAIN nodes : Sound(m)'
    BY <2>1, <2>2, Facts, Untouched
  <2>4. Held' /\ Typed'
    BY <2>1, <2>2, Facts, HeldKept, TypedKept
  <2> QED
    BY <2>1, <2>2, <2>3, <2>4, Facts, SameNodes
<1> QED
  BY <1>1, <1>2, <1>3, <1>4, <1>5, <1>6, <1>7, <1>8, <1>9, <1>10, <1>11, <1>12, <1>13 DEF TigNext

(* The invariant of the netlist holds from the first call of the builder   *)
(* to the resolution of the last name.                                     *)
THEOREM NetlistInvariant == TigSpec => []IInv
  BY Starts, Steps, PTL DEF TigSpec

-----------------------------------------------------------------------------
(* The theorems.                                                           *)

(* Whatever the visitor calls, in whatever order, nodes, specs, maps and   *)
(* pending registers hold values of their kind.                            *)
THEOREM TypesAreRight == TigSpec => []TigTypeOK
<1>1. IInv => TigTypeOK
  BY Facts
<1> QED
  BY <1>1, NetlistInvariant, PTL

(* add_node_input, add_node_output and finalize_node_input grow inputs and *)
(* input_specs_ in step, so that wire_connections may index the one with   *)
(* the positions of the other.                                             *)
THEOREM InputsStayAligned == TigSpec => []InputsAligned
<1>1. IInv => InputsAligned
  BY Facts DEF InputsAligned, Sound, Aligned
<1> QED
  BY <1>1, NetlistInvariant, PTL

(* No call leaves a dangling reference: not in an input, not in            *)
(* signal_maps_, pending_ffs_ or the registers insert_ffs has collected.   *)
THEOREM ReferencesStayResolved == TigSpec => []ReferencesResolve
<1>1. IInv => ReferencesResolve
  BY Facts DEF ReferencesResolve, Sound, Held
<1> QED
  BY <1>1, NetlistInvariant, PTL

(* However drivers, merges, clusters and registers came about, the nodes   *)
(* behind a register have the shape emit_ff_data recurses on and asserts.  *)
THEOREM RegistersAreLayered == TigSpec => []DriversAreLayered
<1>1. IInv => DriversAreLayered
  <2>1. SUFFICES ASSUME IInv, NEW n \in DOMAIN nodes, Sound(n)
        PROVE  LET from(k) == nodes[nodes[n].inputs[k].node].kind
               IN  /\ nodes[n].kind = "merge" =>
                        \A k \in DOMAIN nodes[n].inputs :
                          nodes[n].inputs[k] # Unconnected /\ from(k) \in {"pi", "op", "instance"}
                   /\ nodes[n].kind = "ff" =>
                        /\ Len(nodes[n].inputs) \in {2, 3}
                        /\ nodes[n].inputs[1] # Unconnected
                        /\ from(1) \in {"op", "merge"}
                   /\ nodes[n].kind = "ff_merge" =>
                        \A k \in DOMAIN nodes[n].inputs :
                          nodes[n].inputs[k] # Unconnected /\ from(k) = "ff"
                            /\ nodes[n].inputs[k].port = 1
    BY Facts DEF DriversAreLayered
  <2> QED
    BY <2>1 DEF Sound, Shaped, Layered, Driver
<1> QED
  BY <1>1, NetlistInvariant, PTL

-----------------------------------------------------------------------------
(* The names of outputs, and the invariant they need beside IInv.  Every   *)
(* step hands at most one name over (Passes): the output signal_maps_ had  *)
(* for it may lose it, and a new output that carries it is what            *)
(* signal_maps_ has for it afterwards.                                     *)

(* A name being split by clock domain is carried by nothing: its driver    *)
(* has given it up, and its kFfMerge node is still to come.                *)
Splitting ==
  \/ ffMerge = NoMerge
  \/ /\ phase = "insert"
     /\ ffMerge.name \in Name
     /\ signalMap[ffMerge.name] # Unconnected
     /\ Carried(signalMap[ffMerge.name]) = NoName

Naming == MappedNameIsCarried /\ OneCarrier /\ Splitting

-----------------------------------------------------------------------------
(* A step that hands over one name, or, for NoName, none.                  *)

External == {"pi", "po", "instance"}

(* What becomes of the outputs there were.                                 *)
Keeps(name) ==
  \A m \in DOMAIN nodes : \A k \in DOMAIN nodes[m].outputs :
    \/ /\ nodes'[m].outputs[k] = nodes[m].outputs[k]
       /\ name # NoName /\ nodes[m].outputs[k] = name /\ nodes[m].kind \notin External
            => signalMap'[name] = Ref(m, k)
    \/ /\ name \in Name
       /\ signalMap[name] = Ref(m, k)
       /\ nodes'[m].outputs[k] = NoName

(* What the new ones carry.                                                *)
Brings(name) ==
  \A m \in DOMAIN nodes' : \A k \in DOMAIN nodes'[m].outputs :
    \/ m \in DOMAIN nodes /\ k \in DOMAIN nodes[m].outputs
    \/ nodes'[m].outputs[k] = NoName
    \/ nodes'[m].outputs[k] = name /\ signalMap'[name] = Ref(m, k)

Passes(name) ==
  /\ name \in Names
  /\ \A x \in Name : x # name => signalMap'[x] = signalMap[x]
  /\ Kept
  /\ Keeps(name)
  /\ Brings(name)

(* The output mapped to the name afterwards carries it.                    *)
Arrives(name) ==
  \A ref : ref = signalMap'[name] /\ ref # Unconnected /\ ffMerge'.name # name
             => nodes'[ref.node].outputs[ref.port] = name

LEMMA MappedOutput ==
  ASSUME IInv, NEW name \in Name, NEW ref, ref = signalMap[name], ref # Unconnected
  PROVE  /\ ref.node \in DOMAIN nodes /\ ref.port \in DOMAIN nodes[ref.node].outputs
         /\ ref = Ref(ref.node, ref.port)
         /\ ref \in Reference
<1>1. ref \in Reference /\ Existing(ref)
  BY Facts DEF Held
<1>2. QED BY <1>1, Facts, ExistingDriver

LEMMA NamesPass ==
  ASSUME IInv, IInv', Naming, NEW name, Passes(name),
         name \in Name => Arrives(name),
         ffMerge.name \in Name => ffMerge.name = name \/ ffMerge'.name = ffMerge.name,
         Splitting'
  PROVE  Naming'
<1>1. ASSUME NEW x \in Name, NEW ref, ref = signalMap'[x], ref # Unconnected, ffMerge'.name # x
      PROVE  nodes'[ref.node].outputs[ref.port] = x
  <2>1. CASE x = name
    BY <1>1, <2>1 DEF Arrives
  <2>2. CASE x # name
    <3>1. signalMap[x] = ref /\ ffMerge.name # x
      BY <1>1, <2>2 DEF Passes
    <3>2. Carried(ref) = x
      BY <1>1, <3>1 DEF Naming, MappedNameIsCarried
    <3>3. /\ ref.node \in DOMAIN nodes /\ ref.port \in DOMAIN nodes[ref.node].outputs
          /\ ref = Ref(ref.node, ref.port)
      BY <1>1, <3>1, MappedOutput
    <3>4. nodes[ref.node].outputs[ref.port] = x
      BY <3>2 DEF Carried
    <3>5. ~(name \in Name /\ signalMap[name] = ref)
      <4>1. SUFFICES ASSUME name \in Name, signalMap[name] = ref PROVE FALSE
        OBVIOUS
      <4>2. CASE ffMerge.name = name
        <5>1. ffMerge # NoMerge
          BY <4>1, <4>2, NoNameIsNoName DEF NoMerge
        <5>2. Carried(signalMap[name]) = NoName
          BY <4>2, <5>1 DEF Naming, Splitting
        <5>3. QED BY <3>2, <4>1, <5>2, NoNameIsNoName
      <4>3. CASE ffMerge.name # name
        <5>1. Carried(signalMap[name]) = name
          BY <1>1, <4>1, <4>3 DEF Naming, MappedNameIsCarried
        <5>2. QED BY <2>2, <3>2, <4>1, <5>1
      <4>4. QED BY <4>2, <4>3
    <3>6. nodes'[ref.node].outputs[ref.port] = nodes[ref.node].outputs[ref.port]
      BY <3>3, <3>5 DEF Passes, Keeps
    <3>7. QED BY <3>4, <3>6
  <2>3. QED BY <2>1, <2>2
<1>2. MappedNameIsCarried'
  BY <1>1 DEF MappedNameIsCarried, Carried
<1>3. ASSUME NEW n \in DOMAIN nodes', NEW p \in DOMAIN nodes'[n].outputs,
             nodes'[n].kind \notin External, nodes'[n].outputs[p] # NoName
      PROVE  signalMap'[nodes'[n].outputs[p]] = Ref(n, p)
  <2>1. CASE n \in DOMAIN nodes /\ p \in DOMAIN nodes[n].outputs
    <3>1. nodes[n].kind = nodes'[n].kind
      BY <2>1 DEF Passes, Kept
    <3>2. /\ nodes'[n].outputs[p] = nodes[n].outputs[p]
          /\ nodes[n].outputs[p] = name => signalMap'[name] = Ref(n, p)
      BY <1>3, <2>1, <3>1 DEF Passes, Keeps
    <3>3. PICK y : y = nodes[n].outputs[p]
      OBVIOUS
    <3>4. y \in Name
      <4>1. nodes[n].outputs \in Seq(Names)
        BY <2>1, Facts, Domains DEF Specs
      <4>2. nodes[n].outputs[p] \in Names
        BY <2>1, <4>1
      <4>3. QED BY <1>3, <3>2, <3>3, <4>2 DEF Names
    <3>5. CASE y = name
      BY <3>2, <3>3, <3>5
    <3>6. CASE y # name
      <4>1. signalMap[y] = Ref(n, p)
        BY <1>3, <2>1, <3>1, <3>2, <3>3 DEF Naming, OneCarrier, External
      <4>2. signalMap'[y] = signalMap[y]
        BY <3>4, <3>6 DEF Passes
      <4>3. QED BY <3>2, <3>3, <4>1, <4>2
    <3>7. QED BY <3>5, <3>6
  <2>2. CASE nodes'[n].outputs[p] = name /\ signalMap'[name] = Ref(n, p)
    BY <2>2
  <2>3. QED BY <1>3, <2>1, <2>2 DEF Passes, Brings
<1>4. OneCarrier'
  BY <1>3 DEF OneCarrier, External
<1>5. QED BY <1>2, <1>4 DEF Naming

(* A step that hands over no name and starts no split.                     *)
LEMMA NothingPasses ==
  ASSUME IInv, IInv', Naming, Kept, UNCHANGED <<signalMap, ffMerge>>,
         phase' = phase \/ ffMerge = NoMerge,
         \A m \in DOMAIN nodes : \A k \in DOMAIN nodes[m].outputs :
           nodes'[m].outputs[k] = nodes[m].outputs[k],
         \A m \in DOMAIN nodes' : \A k \in DOMAIN nodes'[m].outputs :
           (m \in DOMAIN nodes /\ k \in DOMAIN nodes[m].outputs) \/ nodes'[m].outputs[k] = NoName
  PROVE  Naming'
<1>1. Passes(NoName)
  BY NameTypes DEF Passes, Keeps, Brings
<1>2. ASSUME ffMerge # NoMerge
      PROVE  Splitting'
  <2>1. PICK ref : ref = signalMap[ffMerge.name]
    OBVIOUS
  <2>2. /\ phase = "insert" /\ ffMerge.name \in Name
        /\ ref # Unconnected /\ nodes[ref.node].outputs[ref.port] = NoName
    BY <1>2, <2>1 DEF Naming, Splitting, Carried
  <2>3. ref.node \in DOMAIN nodes /\ ref.port \in DOMAIN nodes[ref.node].outputs
    BY <2>1, <2>2, MappedOutput
  <2>4. nodes'[ref.node].outputs[ref.port] = NoName
    BY <2>2, <2>3
  <2>5. QED BY <1>2, <2>1, <2>2, <2>4 DEF Splitting, Carried
<1>3. Splitting'
  BY <1>2 DEF Splitting
<1>4. QED BY <1>1, <1>3, NamesPass, NoNameIsNoName

-----------------------------------------------------------------------------
(* The steps that hand over no name.                                       *)

LEMMA SameOutputs ==
  ASSUME IInv, IInv', Naming, UNCHANGED <<nodes, signalMap, ffMerge>>,
         phase' = phase \/ ffMerge = NoMerge
  PROVE  Naming'
<1>1. Kept
  BY DEF Kept
<1>2. QED BY <1>1, NothingPasses

LEMMA SameNames ==
  ASSUME IInv, IInv', Naming, Kept, UNCHANGED <<signalMap, ffMerge>>,
         phase' = phase \/ ffMerge = NoMerge, Len(nodes') = Len(nodes),
         \A m \in DOMAIN nodes : nodes'[m].outputs = nodes[m].outputs
  PROVE  Naming'
<1>1. DOMAIN nodes' = DOMAIN nodes
  BY Facts, Domains DEF IInv, Typed, TigTypeOK
<1>2. QED BY <1>1, NothingPasses

LEMMA CreatingNames ==
  ASSUME IInv, IInv', Naming,
         (\E name \in Name : CreateModuleOutput(name)) \/ CreateOperation \/ CreateInstance
  PROVE  Naming'
<1>1. PICK x, specs : /\ x \in NodeType /\ x.outputs = <<>> /\ specs \in Specs
                      /\ CreateNode(x, specs)
  <2>1. /\ <<>> \in Seq(Reference) /\ <<Unconnected>> \in Seq(Reference) /\ <<>> \in Specs
        /\ \A name \in Name : <<name>> \in Specs
    BY RefType DEF Specs, Names
  <2>2. /\ \A kind \in {"po", "op", "instance"} : kind \in PlainKinds
        /\ \A kind \in PlainKinds : \A ins \in Seq(Reference) :
             Plain(kind, ins, <<>>) \in NodeType /\ Plain(kind, ins, <<>>).outputs = <<>>
    BY <2>1, PlainType DEF PlainKinds
  <2>3. QED BY <2>1, <2>2 DEF CreateModuleOutput, CreateOperation, CreateInstance
<1>2. /\ Kept /\ nodes' \in Seq(NodeType) /\ Len(nodes') = Len(nodes) + 1
      /\ \A m \in DOMAIN nodes : nodes'[m] = nodes[m]
      /\ nodes'[Len(nodes) + 1] = x
  BY <1>1, Facts, CreateNodeEffect
<1>3. UNCHANGED <<signalMap, ffMerge, phase>>
  BY DEF CreateModuleOutput, CreateOperation, CreateInstance
<1>4. PICK new : new = Len(nodes) + 1
  OBVIOUS
<1>5. \A m \in DOMAIN nodes' : m \in DOMAIN nodes \/ m = new
  BY <1>2, <1>4, Facts, Domains
<1>6. DOMAIN nodes'[new].outputs = {}
  BY <1>1, <1>2, <1>4
<1>7. QED BY <1>2, <1>3, <1>5, <1>6, NothingPasses

LEMMA ConnectingNames ==
  ASSUME IInv, IInv', Naming, NEW n, Builds(n), NEW ref \in Reference, NEW name \in Names,
         ConnectInput(n, ref, name)
  PROVE  Naming'
<1>1. n \in DOMAIN nodes /\ n \in DOMAIN inputSpecs /\ TigTypeOK
  BY Facts, BuildsNode
<1>2. /\ Kept /\ Len(nodes') = Len(nodes)
      /\ \A m \in DOMAIN nodes : nodes'[m].outputs = nodes[m].outputs
  BY <1>1, ConnectInputEffect
<1>3. UNCHANGED <<signalMap, ffMerge, phase>>
  BY DEF ConnectInput
<1>4. QED BY <1>2, <1>3, SameNames

LEMMA LaterDriverNames ==
  ASSUME IInv, IInv', Naming, NEW n, NEW name \in Name, AddLaterDriver(n, name)
  PROVE  Naming'
<1>1. /\ Kept /\ Len(nodes') = Len(nodes) /\ nodes' \in Seq(NodeType)
      /\ \A m \in DOMAIN nodes :
           nodes'[m].outputs = IF m = n THEN Append(nodes[m].outputs, NoName) ELSE nodes[m].outputs
  BY Facts, AddLaterDriverEffect
<1>2. UNCHANGED <<signalMap, ffMerge, phase>>
  BY DEF AddLaterDriver
<1>3. DOMAIN nodes' = DOMAIN nodes
  BY <1>1, Facts, Domains
<1>4. ASSUME NEW m \in DOMAIN nodes
      PROVE  /\ \A k \in DOMAIN nodes[m].outputs : nodes'[m].outputs[k] = nodes[m].outputs[k]
             /\ \A k \in DOMAIN nodes'[m].outputs :
                  k \in DOMAIN nodes[m].outputs \/ nodes'[m].outputs[k] = NoName
  <2>1. PICK q, more : q = nodes[m].outputs /\ more = Append(q, NoName)
    OBVIOUS
  <2>2. q \in Seq(Names) /\ NoName \in Names
    BY <2>1, Facts, Domains, NameTypes DEF Specs
  <2>3. /\ \A k \in DOMAIN q : more[k] = q[k]
        /\ \A k \in DOMAIN more : k \in DOMAIN q \/ more[k] = NoName
    BY <2>1, <2>2
  <2>4. nodes'[m].outputs = q \/ nodes'[m].outputs = more
    BY <1>1, <2>1
  <2>5. QED BY <2>1, <2>3, <2>4
<1>5. QED BY <1>1, <1>2, <1>3, <1>4, NothingPasses

LEMMA WiringNames ==
  ASSUME IInv, IInv', Naming, WireConnections
  PROVE  Naming'
<1>1. ffMerge = NoMerge /\ UNCHANGED <<signalMap, ffMerge>>
  BY DEF WireConnections
<1>2. nodes' = [n \in DOMAIN nodes |->
                [nodes[n] EXCEPT !.inputs =
                  [k \in 1..Len(nodes[n].inputs) |-> Resolve(n, k)]]]
  BY DEF WireConnections
<1>3. /\ DOMAIN nodes' = DOMAIN nodes
      /\ \A m \in DOMAIN nodes :
           nodes'[m].outputs = nodes[m].outputs /\ nodes'[m].kind = nodes[m].kind
  <2>1. SUFFICES ASSUME NEW m \in DOMAIN nodes
        PROVE  nodes'[m].outputs = nodes[m].outputs /\ nodes'[m].kind = nodes[m].kind
    BY <1>2
  <2>2. PICK ins : ins = [k \in 1..Len(nodes[m].inputs) |-> Resolve(m, k)]
    OBVIOUS
  <2>3. nodes'[m] = [nodes[m] EXCEPT !.inputs = ins] /\ nodes[m] \in NodeType
    BY <1>2, <2>2, Facts, Domains
  <2>4. QED BY <2>3 DEF NodeType
<1>4. Kept
  BY <1>3 DEF Kept
<1>5. QED BY <1>1, <1>3, <1>4, NothingPasses

-----------------------------------------------------------------------------
(* The steps that hand a name over.                                        *)

LEMMA NotSplitting ==
  ASSUME Naming, phase = "visit"
  PROVE  ffMerge = NoMerge
BY DEF Naming, Splitting

(* The only output of a new node takes the name.                           *)
LEMMA NewCarrier ==
  ASSUME IInv, IInv', Naming, NEW name \in Name, Kept, Keeps(name),
         NEW new \in Nat, NEW ref, ref = Ref(new, 1), new # 0,
         signalMap' = [signalMap EXCEPT ![name] = ref],
         nodes'[new].outputs = <<name>>,
         \A m \in DOMAIN nodes' : m \in DOMAIN nodes \/ m = new,
         \A m \in DOMAIN nodes : \A k \in DOMAIN nodes'[m].outputs :
           k \in DOMAIN nodes[m].outputs \/ nodes'[m].outputs[k] = NoName,
         ffMerge' = NoMerge, ffMerge = NoMerge \/ ffMerge.name = name
  PROVE  Naming'
<1>1. signalMap'[name] = ref /\ \A x \in Name : x # name => signalMap'[x] = signalMap[x]
  BY Facts
<1>2. ref.node = new /\ ref.port = 1
  BY RefType
<1>3. Brings(name)
  <2>1. SUFFICES ASSUME NEW m \in DOMAIN nodes', NEW k \in DOMAIN nodes'[m].outputs,
                        m \notin DOMAIN nodes
        PROVE  nodes'[m].outputs[k] = name /\ ref = Ref(m, k)
    BY <1>1 DEF Brings
  <2>2. m = new
    BY <2>1
  <2>3. k = 1
    BY <2>1, <2>2
  <2>4. QED BY <2>2, <2>3
<1>4. Passes(name)
  BY <1>1, <1>3, NameTypes DEF Passes
<1>5. Arrives(name)
  <2>1. nodes'[ref.node].outputs[ref.port] = name
    BY <1>2
  <2>2. QED BY <1>1, <2>1 DEF Arrives
<1>6. Splitting'
  BY DEF Splitting, NoMerge
<1>7. ffMerge.name \in Name => ffMerge.name = name
  BY NoNameIsNoName DEF NoMerge
<1>8. QED BY <1>4, <1>5, <1>6, <1>7, NamesPass

LEMMA InputNames ==
  ASSUME IInv, IInv', Naming, NEW name \in Name, CreateModuleInput(name)
  PROVE  Naming'
<1>1. PICK x, specs : x = Plain("pi", <<>>, <<name>>) /\ specs = <<>>
  OBVIOUS
<1>2. x \in NodeType /\ x.outputs = <<name>> /\ specs \in Specs /\ CreateNode(x, specs)
  <2>1. PICK ins, outs : ins = <<>> /\ outs = <<name>>
    OBVIOUS
  <2>2. outs \in Specs /\ ins \in Seq(Reference) /\ <<>> \in Specs /\ "pi" \in PlainKinds
    BY <2>1 DEF Specs, Names, PlainKinds
  <2>3. Plain("pi", ins, outs) \in NodeType /\ Plain("pi", ins, outs).outputs = outs
    BY <2>2, PlainType
  <2>4. QED BY <1>1, <2>1, <2>2, <2>3 DEF CreateModuleInput
<1>3. /\ Kept /\ nodes' \in Seq(NodeType) /\ Len(nodes') = Len(nodes) + 1
      /\ \A m \in DOMAIN nodes : nodes'[m] = nodes[m]
      /\ nodes'[Len(nodes) + 1] = x
  BY <1>2, Facts, CreateNodeEffect
<1>4. PICK new, ref : new = Len(nodes) + 1 /\ ref = Ref(new, 1)
  OBVIOUS
<1>5. /\ new \in Nat /\ new # 0 /\ 0 \notin DOMAIN nodes
      /\ \A m \in DOMAIN nodes' : m \in DOMAIN nodes \/ m = new
  BY <1>3, <1>4, Facts, Domains
<1>6. /\ signalMap' = [signalMap EXCEPT ![name] = ref] /\ signalMap[name] = Unconnected
      /\ phase = "visit" /\ ffMerge' = ffMerge
  BY <1>4 DEF CreateModuleInput
<1>7. ffMerge = NoMerge
  BY <1>6, NotSplitting
<1>8. Keeps(name)
  <2>1. SUFFICES ASSUME NEW m \in DOMAIN nodes, NEW k \in DOMAIN nodes[m].outputs,
                        nodes[m].outputs[k] = name, nodes[m].kind \notin External
        PROVE  FALSE
    BY <1>3 DEF Keeps
  <2>2. Ref(m, k) = Unconnected
    BY <1>6, <2>1, NoNameIsNoName DEF Naming, OneCarrier, External
  <2>3. m = 0
    BY <2>2 DEF Ref, Unconnected
  <2>4. QED BY <1>5, <2>1, <2>3
<1>9. nodes'[new].outputs = <<name>>
  BY <1>2, <1>3, <1>4
<1>10. QED BY <1>3, <1>4, <1>5, <1>6, <1>7, <1>8, <1>9, NewCarrier

LEMMA SecondDriverNames ==
  ASSUME IInv, IInv', Naming, NEW n, NEW name \in Name, AddSecondDriver(n, name)
  PROVE  Naming'
<1>1. PICK old : old = signalMap[name]
  OBVIOUS
<1>2. PICK new, ref : new = Len(nodes) + 1 /\ ref = Ref(new, 1)
  OBVIOUS
<1>3. /\ Builds(n) /\ old # Unconnected /\ nodes[old.node].kind # "merge"
      /\ signalMap' = [signalMap EXCEPT ![name] = ref] /\ ffMerge' = ffMerge
  BY <1>1, <1>2 DEF AddSecondDriver
<1>4. phase = "visit" /\ ffMerge = NoMerge /\ n \in DOMAIN nodes
  BY <1>3, Facts, BuildsNode, NotSplitting
<1>5. /\ nodes' \in Seq(NodeType) /\ Len(nodes') = Len(nodes) + 1 /\ Kept
      /\ \A m \in DOMAIN nodes :
           /\ Len(nodes'[m].outputs) = Len(nodes[m].outputs) + (IF m = n THEN 1 ELSE 0)
           /\ \A k \in DOMAIN nodes[m].outputs :
                nodes'[m].outputs[k] =
                  IF nodes[m].kind = "op" /\ old = Ref(m, k) THEN NoName ELSE nodes[m].outputs[k]
      /\ nodes'[n].outputs[Len(nodes[n].outputs) + 1] = NoName
      /\ nodes'[new].outputs = <<name>>
  <2>1. TigTypeOK /\ Held
    BY Facts
  <2>2. /\ nodes' \in Seq(NodeType)
        /\ Len(nodes') = Len(nodes) + 1
        /\ \A m \in DOMAIN nodes :
             /\ nodes'[m].kind = nodes[m].kind
             /\ nodes'[m].inputs = nodes[m].inputs
             /\ Len(nodes'[m].outputs) = Len(nodes[m].outputs) + (IF m = n THEN 1 ELSE 0)
             /\ \A k \in DOMAIN nodes[m].outputs :
                  nodes'[m].outputs[k] =
                    IF nodes[m].kind = "op" /\ signalMap[name] = Ref(m, k) THEN NoName
                    ELSE nodes[m].outputs[k]
        /\ nodes'[n].outputs[Len(nodes[n].outputs) + 1] = NoName
        /\ nodes'[Len(nodes) + 1].kind = "merge"
        /\ nodes'[Len(nodes) + 1].inputs = <<signalMap[name], NextOutput(n)>>
        /\ nodes'[Len(nodes) + 1].outputs = <<name>>
        /\ Kept
    BY <2>1, AddSecondDriverEffect
  <2>3. QED BY <1>1, <1>2, <2>2
<1>6. /\ new \in Nat /\ new # 0
      /\ \A m \in DOMAIN nodes' : m \in DOMAIN nodes \/ m = new
      /\ \A m \in DOMAIN nodes : m \in DOMAIN nodes' /\ nodes'[m] \in NodeType
  BY <1>2, <1>5, Facts, Domains
<1>7. Keeps(name)
  <2>1. SUFFICES ASSUME NEW m \in DOMAIN nodes, NEW k \in DOMAIN nodes[m].outputs,
                        ~(nodes[m].kind = "op" /\ old = Ref(m, k)),
                        nodes[m].outputs[k] = name, nodes[m].kind \notin External
        PROVE  FALSE
    BY <1>1, <1>5 DEF Keeps
  <2>2. old = Ref(m, k)
    BY <1>1, <2>1, NoNameIsNoName DEF Naming, OneCarrier, External
  <2>3. old.node = m
    BY <2>2 DEF Ref
  <2>4. nodes[m].kind \notin {"ff", "ff_merge"}
    BY <1>4, Facts DEF Visited
  <2>5. nodes[m].kind \in {"op", "merge"}
    BY <2>1, <2>4, Facts, Domains, NodeFields DEF External
  <2>6. QED BY <1>3, <2>1, <2>2, <2>3, <2>5
<1>8. ASSUME NEW m \in DOMAIN nodes, NEW k \in DOMAIN nodes'[m].outputs
      PROVE  k \in DOMAIN nodes[m].outputs \/ nodes'[m].outputs[k] = NoName
  <2>1. PICK q, more : q = nodes[m].outputs /\ more = nodes'[m].outputs
    OBVIOUS
  <2>2. /\ q \in Seq(Names) /\ more \in Seq(Names) /\ k \in DOMAIN more
        /\ Len(more) = Len(q) + (IF m = n THEN 1 ELSE 0)
    BY <1>5, <1>6, <1>8, <2>1, Facts, Domains, NodeFields
  <2>3. k \in DOMAIN q \/ (m = n /\ k = Len(q) + 1)
    BY <2>2
  <2>4. QED BY <1>5, <2>1, <2>3
<1>9. QED BY <1>2, <1>3, <1>4, <1>5, <1>6, <1>7, <1>8, NewCarrier

LEMMA FirstDriverNames ==
  ASSUME IInv, IInv', Naming, NEW n, NEW name \in Names, AddFirstDriver(n, name)
  PROVE  Naming'
<1>1. /\ Builds(n) /\ ffMerge' = ffMerge /\ phase' = phase
      /\ name # NoName => signalMap[name] = Unconnected
      /\ signalMap' = IF name = NoName THEN signalMap
                      ELSE [signalMap EXCEPT ![name] = NextOutput(n)]
  BY DEF AddFirstDriver
<1>2. phase = "visit" /\ ffMerge = NoMerge /\ n \in DOMAIN nodes
  BY <1>1, Facts, BuildsNode, NotSplitting
<1>3. PICK q, more, last : q = nodes[n].outputs /\ more = Append(q, name) /\ last = Len(q) + 1
  OBVIOUS
<1>4. PICK ref : ref = NextOutput(n)
  OBVIOUS
<1>5. /\ ref = Ref(n, last) /\ ref \in Reference /\ ref.node = n /\ ref.port = last
      /\ ref # Unconnected
  BY <1>1, <1>3, <1>4, Facts, BuildsNode DEF NextOutput
<1>6. /\ nodes' \in Seq(NodeType) /\ Len(nodes') = Len(nodes) /\ Kept
      /\ \A m \in DOMAIN nodes :
           nodes'[m].outputs = IF m = n THEN Append(nodes[n].outputs, name) ELSE nodes[m].outputs
  BY Facts, AddFirstDriverEffect
<1>7. DOMAIN nodes' = DOMAIN nodes
  BY <1>6, Facts, Domains
<1>8. /\ \A k \in DOMAIN q : more[k] = q[k]
      /\ \A k \in DOMAIN more : k \in DOMAIN q \/ (k = last /\ more[k] = name)
      /\ more[last] = name
  <2>1. q \in Seq(Names)
    BY <1>2, <1>3, Facts, Domains DEF Specs
  <2>2. QED BY <1>3, <2>1
<1>9. ASSUME NEW m \in DOMAIN nodes
      PROVE  /\ \A k \in DOMAIN nodes[m].outputs : nodes'[m].outputs[k] = nodes[m].outputs[k]
             /\ \A k \in DOMAIN nodes'[m].outputs :
                  \/ k \in DOMAIN nodes[m].outputs
                  \/ m = n /\ k = last /\ nodes'[m].outputs[k] = name
  <2>1. CASE m = n
    BY <1>3, <1>6, <1>8, <2>1
  <2>2. CASE m # n
    BY <1>6, <2>2
  <2>3. QED BY <2>1, <2>2
<1>10. CASE name = NoName
  BY <1>1, <1>2, <1>6, <1>7, <1>9, <1>10, NothingPasses
<1>11. CASE name # NoName
  <2>1. name \in Name /\ signalMap[name] = Unconnected /\ signalMap'[name] = ref
        /\ \A x \in Name : x # name => signalMap'[x] = signalMap[x]
    BY <1>1, <1>4, <1>11, Facts DEF Names
  <2>2. Keeps(name)
    <3>1. SUFFICES ASSUME NEW m \in DOMAIN nodes, NEW k \in DOMAIN nodes[m].outputs,
                          nodes[m].outputs[k] = name, nodes[m].kind \notin External
          PROVE  FALSE
      BY <1>9 DEF Keeps
    <3>2. Ref(m, k) = Unconnected
      BY <1>11, <2>1, <3>1 DEF Naming, OneCarrier, External
    <3>3. m = 0
      BY <3>2 DEF Ref, Unconnected
    <3>4. QED BY <3>1, <3>3, Facts, Domains
  <2>3. Brings(name)
    BY <1>5, <1>7, <1>9, <2>1 DEF Brings
  <2>4. Passes(name)
    BY <1>6, <2>1, <2>2, <2>3 DEF Passes
  <2>5. nodes'[ref.node].outputs[ref.port] = name
    BY <1>2, <1>3, <1>5, <1>6, <1>8
  <2>6. Arrives(name)
    BY <2>1, <2>5 DEF Arrives
  <2>7. Splitting'
    BY <1>1, <1>2 DEF Splitting, NoMerge
  <2>8. QED BY <1>1, <1>2, <2>1, <2>4, <2>6, <2>7, NamesPass
<1>12. QED BY <1>10, <1>11

LEMMA RegisterNames ==
  ASSUME IInv, IInv', Naming, NEW name \in Name, InsertFf(name)
  PROVE  Naming'
<1>1. PICK domain \in Clusters(name) :
        /\ nodes' = Append(Registered(name), Ff(signalMap[name], domain, name))
        /\ signalMap' = [signalMap EXCEPT ![name] = Ref(Len(nodes) + 1, 1)]
  BY DEF InsertFf
<1>2. ffMerge = NoMerge /\ ffMerge' = NoMerge
  BY DEF InsertFf
<1>3. PICK old : old = signalMap[name]
  OBVIOUS
<1>4. PICK base, x : base = Registered(name) /\ x = Ff(old, domain, name)
  OBVIOUS
<1>5. PICK new, ref : new = Len(nodes) + 1 /\ ref = Ref(new, 1)
  OBVIOUS
<1>6. old # Unconnected /\ old \in Reference /\ domain \in DomainType
  BY <1>3, Facts, PendingName DEF Driver
<1>7. x \in NodeType /\ x.outputs = <<name>>
  BY <1>4, <1>6, NameTypes, FfType
<1>8. /\ base \in Seq(NodeType) /\ Len(base) = Len(nodes)
      /\ \A m \in DOMAIN nodes :
           /\ base[m].kind = nodes[m].kind
           /\ Len(base[m].outputs) = Len(nodes[m].outputs)
           /\ \A k \in DOMAIN nodes[m].outputs :
                base[m].outputs[k] = IF old = Ref(m, k) THEN NoName ELSE nodes[m].outputs[k]
  <2>1. TigTypeOK /\ Held
    BY Facts
  <2>2. QED BY <1>3, <1>4, <1>6, <2>1, RegisteredEffect
<1>9. DOMAIN base = DOMAIN nodes /\ Len(nodes) \in Nat /\ DOMAIN nodes = 1..Len(nodes)
  BY <1>8, Facts, Domains
<1>10. /\ nodes' \in Seq(NodeType) /\ DOMAIN nodes' = 1..new /\ nodes'[new] = x
       /\ \A m \in DOMAIN nodes : nodes'[m] = base[m]
  BY <1>1, <1>3, <1>4, <1>5, <1>7, <1>8, <1>9, Appended
<1>11. ASSUME NEW m \in DOMAIN nodes
       PROVE  DOMAIN base[m].outputs = DOMAIN nodes[m].outputs
  <2>1. base[m] \in NodeType /\ nodes[m] \in NodeType
    BY <1>8, <1>9, Facts
  <2>2. PICK p, q : p = base[m].outputs /\ q = nodes[m].outputs
    OBVIOUS
  <2>3. p \in Seq(Names) /\ q \in Seq(Names) /\ Len(p) = Len(q)
    BY <1>8, <2>1, <2>2, NodeFields
  <2>4. DOMAIN p = DOMAIN q
    BY <2>3
  <2>5. QED BY <2>2, <2>4
<1>12. new \in Nat /\ new # 0 /\ \A m \in DOMAIN nodes' : m \in DOMAIN nodes \/ m = new
  BY <1>5, <1>9, <1>10
<1>13. Kept
  BY <1>5, <1>8, <1>9, <1>10, <1>11 DEF Kept
<1>14. Keeps(name)
  <2>1. ASSUME NEW m \in DOMAIN nodes, NEW k \in DOMAIN nodes[m].outputs
        PROVE  nodes'[m].outputs[k] = IF old = Ref(m, k) THEN NoName ELSE nodes[m].outputs[k]
    BY <1>8, <1>10
  <2>2. ASSUME NEW m \in DOMAIN nodes, NEW k \in DOMAIN nodes[m].outputs,
               nodes[m].outputs[k] = name, nodes[m].kind \notin External
        PROVE  old = Ref(m, k)
    BY <1>3, <2>2, NoNameIsNoName DEF Naming, OneCarrier, External
  <2>3. QED BY <1>3, <2>1, <2>2 DEF Keeps
<1>15. \A m \in DOMAIN nodes : \A k \in DOMAIN nodes'[m].outputs : k \in DOMAIN nodes[m].outputs
  BY <1>10, <1>11
<1>16. signalMap' = [signalMap EXCEPT ![name] = ref] /\ nodes'[new].outputs = <<name>>
  BY <1>1, <1>5, <1>7, <1>10
<1>17. QED BY <1>2, <1>5, <1>12, <1>13, <1>14, <1>15, <1>16, NewCarrier

LEMMA MergedNames ==
  ASSUME IInv, IInv', Naming, InsertFfMerge
  PROVE  Naming'
<1>1. PICK name, q, old : name = ffMerge.name /\ q = ffMerge.ffs /\ old = signalMap[name]
  OBVIOUS
<1>2. PICK x, specs : x = Plain("ff_merge", q, <<name>>) /\ specs = Blank(q)
  OBVIOUS
<1>3. PICK new, ref : new = Len(nodes) + 1 /\ ref = Ref(new, 1)
  OBVIOUS
<1>4. /\ ffMerge # NoMerge /\ ffMerge' = NoMerge /\ CreateNode(x, specs)
      /\ signalMap' = [signalMap EXCEPT ![name] = ref]
  BY <1>1, <1>2, <1>3 DEF InsertFfMerge
<1>5. /\ name \in Name /\ old # Unconnected /\ q \in Seq(Reference) /\ name \in Names
      /\ nodes[old.node].outputs[old.port] = NoName
  BY <1>1, <1>4, Facts, NameTypes DEF Naming, Splitting, Carried
<1>6. x \in NodeType /\ x.outputs = <<name>>
  <2>1. PICK outs : outs = <<name>>
    OBVIOUS
  <2>2. outs \in Specs /\ "ff_merge" \in PlainKinds
    BY <1>5, <2>1 DEF Specs, PlainKinds
  <2>3. Plain("ff_merge", q, outs) \in NodeType /\ Plain("ff_merge", q, outs).outputs = outs
    BY <1>5, <2>2, PlainType
  <2>4. QED BY <1>2, <2>1, <2>3
<1>7. specs \in Specs
  <2>1. specs = [k \in 1..Len(q) |-> NoName] /\ Len(q) \in Nat
    BY <1>2, <1>5 DEF Blank
  <2>2. QED BY <2>1, NameTypes DEF Specs
<1>8. /\ Kept /\ nodes' \in Seq(NodeType) /\ Len(nodes') = Len(nodes) + 1
      /\ \A m \in DOMAIN nodes : nodes'[m] = nodes[m]
      /\ nodes'[Len(nodes) + 1] = x
  BY <1>4, <1>6, <1>7, Facts, CreateNodeEffect
<1>9. new \in Nat /\ new # 0 /\ \A m \in DOMAIN nodes' : m \in DOMAIN nodes \/ m = new
  BY <1>3, <1>8, Facts, Domains
<1>10. Keeps(name)
  <2>1. SUFFICES ASSUME NEW m \in DOMAIN nodes, NEW k \in DOMAIN nodes[m].outputs,
                        nodes[m].outputs[k] = name, nodes[m].kind \notin External
        PROVE  FALSE
    BY <1>8 DEF Keeps
  <2>2. old = Ref(m, k)
    BY <1>1, <1>5, <2>1, NoNameIsNoName DEF Naming, OneCarrier, External
  <2>3. old.node = m /\ old.port = k
    BY <2>2 DEF Ref
  <2>4. QED BY <1>5, <2>1, <2>3, NoNameIsNoName
<1>11. nodes'[new].outputs = <<name>>
  BY <1>3, <1>6, <1>8
<1>12. QED BY <1>1, <1>3, <1>4, <1>5, <1>8, <1>9, <1>10, <1>11, NewCarrier

(* A register of one cluster, and the merge it may be behind, carry        *)
(* nothing.                                                                *)
LEMMA ClusterOutputs ==
  ASSUME IInv, NEW name, NEW domain \in DomainType, NEW base, Relabelled(base),
         NEW refs \in Orders({f.ref : f \in Cluster(name, domain)}),
         nodes' = ClusterNodes(base, refs, domain)
  PROVE  /\ \A m \in DOMAIN nodes : m \in DOMAIN nodes' /\ nodes'[m] = base[m]
         /\ \A m \in DOMAIN nodes' : \A k \in DOMAIN nodes'[m].outputs :
              m \in DOMAIN nodes \/ nodes'[m].outputs[k] = NoName
<1>1. refs \in Seq(Reference)
  BY ClusterDrivers
<1>2. /\ base \in Seq(NodeType) /\ Len(base) = Len(nodes) /\ DOMAIN base = DOMAIN nodes
      /\ Len(nodes) \in Nat /\ DOMAIN nodes = 1..Len(nodes)
  BY Facts, Domains DEF Relabelled
<1>3. PICK len, outs : len = Len(nodes) /\ outs = <<NoName>>
  OBVIOUS
<1>4. outs \in Specs /\ \A k \in DOMAIN outs : outs[k] = NoName
  BY <1>3, NameTypes DEF Specs
<1>5. ASSUME NEW data \in Reference, NEW y, y = Ff(data, domain, NoName)
      PROVE  y \in NodeType /\ y.outputs = outs
  BY <1>3, <1>5, NameTypes, FfType
<1>6. CASE Len(refs) = 1
  <2>1. PICK data, y : data = refs[1] /\ y = Ff(data, domain, NoName)
    OBVIOUS
  <2>2. data \in Reference
    BY <1>1, <1>6, <2>1
  <2>3. y \in NodeType /\ y.outputs = outs /\ nodes' = Append(base, y)
    BY <1>5, <1>6, <2>1, <2>2 DEF ClusterNodes
  <2>4. /\ DOMAIN nodes' = 1..(len + 1) /\ \A m \in DOMAIN nodes : nodes'[m] = base[m]
        /\ nodes'[len + 1] = y
    BY <1>2, <1>3, <2>3, Appended
  <2>5. \A m \in DOMAIN nodes' : m \in DOMAIN nodes \/ m = len + 1
    BY <1>2, <1>3, <2>4
  <2>6. DOMAIN nodes \subseteq DOMAIN nodes'
    BY <1>2, <1>3, <2>4
  <2>7. QED BY <1>4, <2>3, <2>4, <2>5, <2>6
<1>7. CASE Len(refs) # 1
  <2>1. PICK data, x, y : /\ data = Ref(Len(base) + 1, 1) /\ x = Plain("merge", refs, outs)
                          /\ y = Ff(data, domain, NoName)
    OBVIOUS
  <2>2. data \in Reference /\ x \in NodeType /\ x.outputs = outs
    <3>1. "merge" \in PlainKinds /\ Len(base) + 1 \in Nat
      BY <1>2 DEF PlainKinds
    <3>2. QED BY <1>1, <1>4, <2>1, <3>1, RefType, PlainType
  <2>3. y \in NodeType /\ y.outputs = outs
    BY <1>5, <2>1, <2>2
  <2>4. PICK mid : mid = Append(base, x)
    OBVIOUS
  <2>5. nodes' = Append(mid, y)
    BY <1>3, <1>7, <2>1, <2>4 DEF ClusterNodes
  <2>6. /\ mid \in Seq(NodeType) /\ Len(mid) = len + 1 /\ DOMAIN mid = 1..(len + 1)
        /\ \A m \in DOMAIN nodes : mid[m] = base[m]
        /\ mid[len + 1] = x
    BY <1>2, <1>3, <2>2, <2>4, Appended
  <2>7. /\ DOMAIN nodes' = 1..(len + 1 + 1) /\ \A m \in DOMAIN mid : nodes'[m] = mid[m]
        /\ nodes'[len + 1 + 1] = y
    BY <2>3, <2>5, <2>6, Appended
  <2>8. /\ DOMAIN nodes \subseteq DOMAIN mid /\ len + 1 \in DOMAIN mid
        /\ DOMAIN mid \subseteq DOMAIN nodes'
        /\ \A m \in DOMAIN nodes' : m \in DOMAIN nodes \/ m = len + 1 \/ m = len + 1 + 1
    BY <1>2, <1>3, <2>6, <2>7
  <2>9. QED BY <1>4, <2>2, <2>3, <2>6, <2>7, <2>8
<1>8. QED BY <1>6, <1>7

(* The first register of a name being split hides the driver of the name.  *)
LEMMA FirstClusterNames ==
  ASSUME IInv, IInv', Naming, NEW name \in Name, NEW domain, InsertClusterFf(name, domain),
         ffMerge = NoMerge
  PROVE  Naming'
<1>1. /\ phase' = "insert" /\ domain \in Clusters(name) /\ signalMap' = signalMap
  BY DEF InsertClusterFf
<1>2. PICK old, base : old = signalMap[name] /\ base = Registered(name)
  OBVIOUS
<1>3. PICK refs \in Orders({f.ref : f \in Cluster(name, domain)}) :
        nodes' = ClusterNodes(base, refs, domain) /\ ffMerge'.name = name
  <2>1. PICK refs \in Orders({f.ref : f \in Cluster(name, domain)}) :
          /\ nodes' = ClusterNodes(Registered(name), refs, domain)
          /\ ffMerge' = [name |-> name, ffs |-> Append(ffMerge.ffs, Ref(Len(nodes'), 1))]
    BY DEF InsertClusterFf
  <2>2. QED BY <1>2, <2>1
<1>4. old # Unconnected /\ old \in Reference /\ domain \in DomainType
  BY <1>1, <1>2, Facts, PendingName DEF Driver
<1>5. /\ base \in Seq(NodeType) /\ Relabelled(base)
      /\ \A m \in DOMAIN nodes :
           /\ base[m].kind = nodes[m].kind
           /\ Len(base[m].outputs) = Len(nodes[m].outputs)
           /\ \A k \in DOMAIN nodes[m].outputs :
                base[m].outputs[k] = IF old = Ref(m, k) THEN NoName ELSE nodes[m].outputs[k]
  <2>1. TigTypeOK /\ Held
    BY Facts
  <2>2. Relabelled(base)
    BY <1>2, <1>4, Relabellings
  <2>3. QED BY <1>2, <1>4, <2>1, <2>2, RegisteredEffect
<1>6. /\ \A m \in DOMAIN nodes : m \in DOMAIN nodes' /\ nodes'[m] = base[m]
      /\ \A m \in DOMAIN nodes' : \A k \in DOMAIN nodes'[m].outputs :
           m \in DOMAIN nodes \/ nodes'[m].outputs[k] = NoName
  BY <1>3, <1>4, <1>5, ClusterOutputs
<1>7. ASSUME NEW m \in DOMAIN nodes
      PROVE  DOMAIN nodes'[m].outputs = DOMAIN nodes[m].outputs
  <2>1. m \in DOMAIN base
    BY <1>5, Facts, Domains DEF Relabelled
  <2>2. base[m] \in NodeType /\ nodes[m] \in NodeType
    BY <1>5, <2>1, Facts
  <2>3. PICK p, q : p = base[m].outputs /\ q = nodes[m].outputs
    OBVIOUS
  <2>4. p \in Seq(Names) /\ q \in Seq(Names) /\ Len(p) = Len(q)
    BY <1>5, <2>2, <2>3, NodeFields
  <2>5. DOMAIN p = DOMAIN q
    BY <2>4
  <2>6. QED BY <1>6, <2>3, <2>5
<1>8. Kept
  BY <1>5, <1>6, <1>7 DEF Kept
<1>9. ASSUME NEW m \in DOMAIN nodes, NEW k \in DOMAIN nodes[m].outputs
      PROVE  nodes'[m].outputs[k] = IF old = Ref(m, k) THEN NoName ELSE nodes[m].outputs[k]
  BY <1>5, <1>6
<1>10. Keeps(name)
  <2>1. ASSUME NEW m \in DOMAIN nodes, NEW k \in DOMAIN nodes[m].outputs,
               nodes[m].outputs[k] = name, nodes[m].kind \notin External
        PROVE  old = Ref(m, k)
    BY <1>2, <2>1, NoNameIsNoName DEF Naming, OneCarrier, External
  <2>2. QED BY <1>2, <1>9, <2>1 DEF Keeps
<1>11. Passes(name)
  BY <1>1, <1>6, <1>7, <1>8, <1>10, NameTypes DEF Passes, Brings
<1>12. Arrives(name)
  BY <1>3 DEF Arrives
<1>13. Splitting'
  <2>1. old.node \in DOMAIN nodes /\ old.port \in DOMAIN nodes[old.node].outputs
        /\ old = Ref(old.node, old.port)
    BY <1>2, <1>4, MappedOutput
  <2>2. nodes'[old.node].outputs[old.port] = NoName
    BY <1>9, <2>1
  <2>3. QED BY <1>1, <1>2, <1>3, <1>4, <2>2 DEF Splitting, Carried
<1>14. ffMerge.name \notin Name
  BY NoNameIsNoName DEF NoMerge
<1>15. QED BY <1>11, <1>12, <1>13, <1>14, NamesPass

LEMMA NextClusterNames ==
  ASSUME IInv, IInv', Naming, NEW name \in Name, NEW domain, InsertClusterFf(name, domain),
         ffMerge # NoMerge
  PROVE  Naming'
<1>1. /\ phase' = "insert" /\ domain \in Clusters(name) /\ signalMap' = signalMap
      /\ ffMerge.name = name
  BY DEF InsertClusterFf
<1>2. PICK refs \in Orders({f.ref : f \in Cluster(name, domain)}) :
        nodes' = ClusterNodes(nodes, refs, domain) /\ ffMerge'.name = name
  <2>1. PICK refs \in Orders({f.ref : f \in Cluster(name, domain)}) :
          /\ nodes' = ClusterNodes(nodes, refs, domain)
          /\ ffMerge' = [name |-> name, ffs |-> Append(ffMerge.ffs, Ref(Len(nodes'), 1))]
    BY DEF InsertClusterFf
  <2>2. QED BY <2>1
<1>3. domain \in DomainType /\ Relabelled(nodes)
  BY <1>1, PendingName, Relabellings
<1>4. /\ \A m \in DOMAIN nodes : m \in DOMAIN nodes' /\ nodes'[m] = nodes[m]
      /\ \A m \in DOMAIN nodes' : \A k \in DOMAIN nodes'[m].outputs :
           m \in DOMAIN nodes \/ nodes'[m].outputs[k] = NoName
  BY <1>2, <1>3, ClusterOutputs
<1>5. Kept
  BY <1>4 DEF Kept
<1>6. Passes(NoName)
  BY <1>1, <1>4, <1>5, NameTypes DEF Passes, Keeps, Brings
<1>7. Splitting'
  <2>1. PICK old : old = signalMap[name]
    OBVIOUS
  <2>2. old # Unconnected /\ nodes[old.node].outputs[old.port] = NoName
    BY <1>1, <2>1 DEF Naming, Splitting, Carried
  <2>3. old.node \in DOMAIN nodes
    BY <2>1, <2>2, MappedOutput
  <2>4. nodes'[old.node].outputs[old.port] = NoName
    BY <1>4, <2>2, <2>3
  <2>5. QED BY <1>1, <1>2, <2>1, <2>2, <2>4 DEF Splitting, Carried
<1>8. QED BY <1>1, <1>2, <1>6, <1>7, NoNameIsNoName, NamesPass

-----------------------------------------------------------------------------
(* The theorems.                                                           *)

LEMMA NamingStarts == TigInit => Naming
<1> SUFFICES ASSUME TigInit PROVE Naming
  OBVIOUS
<1>1. /\ DOMAIN nodes = {} /\ ffMerge = NoMerge
      /\ \A name \in Name : signalMap[name] = Unconnected
  BY DEF TigInit
<1>2. QED BY <1>1 DEF Naming, MappedNameIsCarried, OneCarrier, Splitting

LEMMA NamingSteps == IInv /\ IInv' /\ Naming /\ [TigNext]_tigVars => Naming'
<1> SUFFICES ASSUME IInv, IInv', Naming, [TigNext]_tigVars PROVE Naming'
  OBVIOUS
<1>1. ASSUME NEW name \in Name, CreateModuleInput(name)
      PROVE  Naming'
  BY <1>1, InputNames
<1>2. CASE (\E name \in Name : CreateModuleOutput(name)) \/ CreateOperation \/ CreateInstance
  BY <1>2, CreatingNames
<1>3. ASSUME NEW n \in DOMAIN nodes, NEW m \in DOMAIN nodes, NEW p \in DOMAIN nodes[m].outputs,
             AddNodeInput(n, Ref(m, p))
      PROVE  Naming'
  <2>1. m \in Nat /\ p \in Nat
    BY Facts, Domains
  <2>2. PICK ref : ref = Ref(m, p)
    OBVIOUS
  <2>3. ref \in Reference /\ Builds(n) /\ ConnectInput(n, ref, NoName)
    BY <1>3, <2>1, <2>2, RefType DEF AddNodeInput
  <2>4. QED BY <2>3, NameTypes, ConnectingNames
<1>4. ASSUME NEW n \in DOMAIN nodes,
             AddNodeInput(n, Unconnected) \/ \E name \in Name : AddNodeInputSpec(n, name)
      PROVE  Naming'
  <2>1. PICK ref, name : /\ ref \in Reference /\ name \in Names
                         /\ Builds(n) /\ ConnectInput(n, ref, name)
    BY <1>4, NameTypes, RefType DEF AddNodeInput, AddNodeInputSpec
  <2>2. QED BY <2>1, ConnectingNames
<1>5. ASSUME NEW n \in DOMAIN nodes, FinalizeNodeInput(n)
      PROVE  Naming'
  BY <1>5, SameOutputs DEF FinalizeNodeInput
<1>6. ASSUME NEW n \in DOMAIN nodes, NEW name \in Name \cup {NoName}, AddNodeOutput(n, name)
      PROVE  Naming'
  <2>1. CASE AddFirstDriver(n, name)
    BY <2>1, FirstDriverNames DEF Names
  <2>2. CASE name # NoName /\ AddSecondDriver(n, name)
    BY <2>2, SecondDriverNames
  <2>3. CASE name # NoName /\ AddLaterDriver(n, name)
    BY <2>3, LaterDriverNames
  <2>4. QED BY <1>6, <2>1, <2>2, <2>3 DEF AddNodeOutput
<1>7. ASSUME NEW name, NEW domain, NEW ref, RecordFf(name, domain, ref)
      PROVE  Naming'
  BY <1>7, SameOutputs DEF RecordFf
<1>8. CASE InsertFfs
  <2>1. ffMerge = NoMerge
    BY <1>8, NotSplitting DEF InsertFfs
  <2>2. QED BY <1>8, <2>1, SameOutputs DEF InsertFfs
<1>9. ASSUME NEW name \in Name, InsertFf(name)
       PROVE  Naming'
  BY <1>9, RegisterNames
<1>10. ASSUME NEW name \in Name, NEW domain \in Clusters(name), InsertClusterFf(name, domain)
       PROVE  Naming'
  BY <1>10, FirstClusterNames, NextClusterNames
<1>11. CASE InsertFfMerge
  BY <1>11, MergedNames
<1>12. CASE WireConnections
  BY <1>12, WiringNames
<1>13. CASE UNCHANGED tigVars
  BY <1>13, SameOutputs DEF tigVars
<1>14. QED
  BY <1>1, <1>2, <1>3, <1>4, <1>5, <1>6, <1>7, <1>8, <1>9, <1>10, <1>11, <1>12, <1>13
  DEF TigNext

LEMMA NamesStay == TigSpec => []Naming
  BY NetlistInvariant, NamingStarts, NamingSteps, PTL DEF TigSpec

(* However a name changed hands, between drivers, merges and registers,    *)
(* the output signal_maps_ has for it carries it, but for the name         *)
(* insert_ffs is splitting at the moment.                                  *)
THEOREM MappedNamesCarried == TigSpec => []MappedNameIsCarried
<1>1. Naming => MappedNameIsCarried
  BY DEF Naming
<1>2. QED BY <1>1, NamesStay, PTL

(* No operation, merge or register goes on carrying a name after another   *)
(* output took it over: it would be dumped as a driver of its own.         *)
THEOREM OneCarrierHolds == TigSpec => []OneCarrier
<1>1. Naming => OneCarrier
  BY DEF Naming
<1>2. QED BY <1>1, NamesStay, PTL

-----------------------------------------------------------------------------
(* The handlers.                                                           *)

NoArg == {"operation", "instance", "temporary", "temporary_output", "instance_temporary",
          "instance_open", "instance_input", "from_instance", "from_conversion", "finalize"}

Given == Written \ {NoName}

CallType ==
  [call: NoArg, name: {NoName}] \cup [call: {"spec", "instance_spec"}, name: Name]
    \cup [call: {"instance_output"}, name: Given \cup {NoName}]
    \cup [call: {"output"}, name: Given, domain: Domain \cup {Comb}]
    \cup [call: {"ff"}, name: Given, domain: Domain]

PortType ==
  [port: {"in", "end"}, conn: Connection]
    \cup [port: {"out"}, conn: {c \in Connection : c.name \in Given \cup {NoName}}]

LowerTypeOK ==
  /\ calls \in Seq(CallType)
  /\ ports \in Seq(PortType)
  /\ temporaries \in Seq(Name)
  /\ operation \in Nat /\ instance \in Nat

(* The last temporary signal was created for the output to come, and       *)
(* nothing drives it.                                                      *)
Fresh == temporaries # <<>> /\ ~Driven(Tmp)

DrivesTmp == {"temporary_output", "instance_temporary"}

(* The calls from a to b drive nothing and create no temporary signal.     *)
Neutral(q, a, b) == \A j \in a..b : q[j].call \in {"operation", "spec"}

Created(q, k) == \E m \in 1..(k - 1) : q[m].call = "temporary" /\ Neutral(q, m + 1, k - 1)

(* A temporary signal is created before the call that drives it, and       *)
(* nothing else is driven in between; record_ff comes first.               *)
Sequenced ==
  \A k \in DOMAIN calls :
    /\ calls[k].call = "ff" => k = 1
    /\ calls[k].call \in DrivesTmp =>
         Created(calls, k) \/ (Fresh /\ Neutral(calls, 1, k - 1))

(* Temporary signals are created in order and driven once created.         *)
Numbered ==
  /\ Len(temporaries) <= Len(Temporaries)
  /\ \A k \in DOMAIN temporaries : temporaries[k] = Temporaries[k]
  /\ \A d \in intended : d.name \in Range(Temporaries) => d.name \in Range(temporaries)

Handlers == LowerTypeOK /\ Sequenced /\ Numbered

-----------------------------------------------------------------------------
(* The lists of calls.                                                     *)

LEMMA Rest ==
  ASSUME NEW S, NEW q \in Seq(S), q # <<>>
  PROVE  /\ Head(q) = q[1] /\ Head(q) \in S /\ 1 \in DOMAIN q
         /\ Tail(q) \in Seq(S)
         /\ \A k \in DOMAIN Tail(q) : k \in Nat /\ k >= 1 /\ k + 1 \in DOMAIN q /\ Tail(q)[k] = q[k + 1]
  OBVIOUS

(* c is a, then b.                                                         *)
Joined(a, b, c) ==
  /\ Len(c) = Len(a) + Len(b)
  /\ \A k \in DOMAIN a : k \in DOMAIN c /\ c[k] = a[k]
  /\ \A k \in DOMAIN b : Len(a) + k \in DOMAIN c /\ c[Len(a) + k] = b[k]
  /\ \A k \in DOMAIN c :
       \/ k \in DOMAIN a /\ c[k] = a[k]
       \/ \E l \in DOMAIN b : k = Len(a) + l /\ c[k] = b[l]

LEMMA Catenated ==
  ASSUME NEW S, NEW a \in Seq(S), NEW b \in Seq(S), NEW c, c = a \o b
  PROVE  c \in Seq(S) /\ Joined(a, b, c)
<1>1. c \in Seq(S) /\ Len(c) = Len(a) + Len(b)
  OBVIOUS
<1>2. ASSUME NEW k \in DOMAIN c, k \notin DOMAIN a
      PROVE  k - Len(a) \in DOMAIN b /\ k = Len(a) + (k - Len(a)) /\ c[k] = b[k - Len(a)]
  BY <1>2
<1>3. QED BY <1>1, <1>2 DEF Joined

LEMMA CallFields ==
  ASSUME NEW c \in CallType
  PROVE  /\ c.call \in {"spec", "instance_spec"} => c.name \in Name
         /\ c.call = "instance_output" => c.name \in Given \cup {NoName}
         /\ c.call \in {"output", "ff"} => c.name \in Given /\ c.domain \in Domain \cup {Comb}
         /\ c.call = "ff" => c.domain \in Domain
         /\ c.call = "output" /\ c.domain # Comb => [c EXCEPT !.call = "ff"] \in CallType
         /\ c.call = "output" => [c EXCEPT !.call = "ff"].call = "ff"
         /\ c.call = "output" => [c EXCEPT !.call = "ff"].name = c.name
         /\ c.call = "output" => [c EXCEPT !.call = "ff"].domain = c.domain
  BY DEF CallType, NoArg

LEMMA Connections ==
  ASSUME NEW c \in Connection
  PROVE  /\ c.how \in {"open", "name", "expr"}
         /\ c.how = "open" => c.name = NoName
         /\ c.how # "open" => c.name \in Name
  BY DEF Connection

LEMMA WrittenNames ==
  ASSUME NEW name
  PROVE  name \in Written <=>
           \/ \E p \in Processes : name \in Range(p.writes)
           \/ \E i \in Instances : \E k \in DOMAIN i.outs : name = i.outs[k].name
<1> DEFINE byProcess == UNION {Range(p.writes) : p \in Processes}
           byInstance == UNION {{i.outs[k].name : k \in DOMAIN i.outs} : i \in Instances}
<1>1. name \in byProcess <=> \E p \in Processes : name \in Range(p.writes)
  OBVIOUS
<1>2. name \in byInstance
        <=> \E i \in Instances : \E k \in DOMAIN i.outs : name = i.outs[k].name
  OBVIOUS
<1>3. Written = byProcess \cup byInstance
  BY DEF Written
<1> HIDE DEF byProcess, byInstance
<1>4. QED BY <1>1, <1>2, <1>3

LEMMA GivenNames ==
  /\ Given \subseteq Name /\ Given \cap InputPorts = {} /\ NoName \notin Given
  /\ \A k \in DOMAIN Temporaries : Temporaries[k] \in Name \ Given
  /\ \A k \in DOMAIN Temporaries : Temporaries[k] \notin InputPorts
<1>1. ASSUME NEW name \in Given
      PROVE  name \in Name /\ name \notin InputPorts
  <2>1. CASE \E p \in Processes : name \in Range(p.writes)
    <3>1. PICK p \in Processes : name \in Range(p.writes)
      BY <2>1
    <3>2. p.writes \in Seq(Name)
      BY MembersAreOverNames
    <3>3. PICK k \in DOMAIN p.writes : name = p.writes[k]
      BY <3>1 DEF Range
    <3>4. name \in Written
      BY <1>1 DEF Given
    <3>5. QED BY <3>2, <3>3, <3>4, InputsAreNotWritten
  <2>2. CASE \E i \in Instances : \E k \in DOMAIN i.outs : name = i.outs[k].name
    <3>0. PICK i \in Instances : \E k \in DOMAIN i.outs : name = i.outs[k].name
      BY <2>2
    <3>1. PICK k \in DOMAIN i.outs : name = i.outs[k].name
      BY <3>0
    <3>2. i.outs \in Seq(Connection)
      BY MembersAreOverNames
    <3>3. PICK c \in Connection : name = c.name
      BY <3>1, <3>2
    <3>4. name \in Written /\ name # NoName
      BY <1>1 DEF Given
    <3>5. c.how = "open" => c.name = NoName
      BY Connections
    <3>6. c.name \in Name
      BY <3>3, <3>4, <3>5, Connections
    <3>7. QED BY <3>3, <3>4, <3>6, InputsAreNotWritten
  <2>3. name \in Written
    BY <1>1 DEF Given
  <2>4. QED BY <2>1, <2>2, <2>3, WrittenNames
<1>2. ASSUME NEW k \in DOMAIN Temporaries
      PROVE  Temporaries[k] \in Name /\ Temporaries[k] \notin Given /\ Temporaries[k] \notin InputPorts
  <2>1. Temporaries \in Seq(Name) /\ Temporaries[k] \in Range(Temporaries)
    BY MembersAreOverNames DEF Range
  <2>2. QED BY <2>1, TemporariesAreNew DEF Given
<1>3. QED BY <1>1, <1>2 DEF Given

LEMMA Processed ==
  ASSUME NEW p \in Processes
  PROVE  /\ ProcessCalls(p) \in Seq(CallType)
         /\ \A k \in DOMAIN ProcessCalls(p) :
              LET c == ProcessCalls(p)[k]
              IN  /\ c.call \in {"operation", "spec", "output"}
                  /\ c.call = "output" =>
                       c.domain = p.domain /\ \E m \in DOMAIN p.writes : c.name = p.writes[m]
<1>1. PICK reads, writes, domain : reads = p.reads /\ writes = p.writes /\ domain = p.domain
  OBVIOUS
<1>2. reads \in Seq(Name) /\ writes \in Seq(Name) /\ domain \in Domain \cup {Comb}
  BY <1>1, MembersAreOverNames
<1>3. ASSUME NEW m \in DOMAIN writes
      PROVE  writes[m] \in Given
  <2>1. writes[m] \in Name /\ writes[m] \in Range(writes)
    BY <1>2 DEF Range
  <2>2. writes[m] \in Written
    BY <1>1, <2>1, WrittenNames
  <2>3. QED BY <2>1, <2>2, NoNameIsNoName DEF Given
<1>4. PICK first, asks, drivers :
        /\ first = <<Call("operation", NoName)>>
        /\ asks = Asks(reads) /\ drivers = Drivers(writes, domain)
  OBVIOUS
<1>5. /\ first \in Seq(CallType) /\ Len(first) = 1 /\ first[1].call = "operation"
  <2>1. Call("operation", NoName) \in CallType /\ Call("operation", NoName).call = "operation"
    BY DEF Call, CallType, NoArg
  <2>2. QED BY <1>4, <2>1
<1>6. /\ asks \in Seq(CallType)
      /\ \A k \in DOMAIN asks : asks[k].call = "spec"
  <2>1. asks = [k \in 1..Len(reads) |-> Call("spec", reads[k])]
    BY <1>2, <1>4 DEF Asks
  <2>2. \A k \in 1..Len(reads) :
          Call("spec", reads[k]) \in CallType /\ Call("spec", reads[k]).call = "spec"
    BY <1>2 DEF Call, CallType
  <2>3. QED BY <1>2, <2>1, <2>2
<1>7. /\ drivers \in Seq(CallType)
      /\ \A k \in DOMAIN drivers :
           /\ drivers[k].call = "output" /\ drivers[k].domain = domain
           /\ k \in DOMAIN writes /\ drivers[k].name = writes[k]
  <2>1. drivers = [k \in 1..Len(writes) |->
                     [call |-> "output", name |-> writes[k], domain |-> domain]]
    BY <1>2, <1>4 DEF Drivers
  <2>2. \A k \in 1..Len(writes) :
          [call |-> "output", name |-> writes[k], domain |-> domain] \in CallType
    BY <1>2, <1>3 DEF CallType
  <2>3. Len(writes) \in Nat /\ DOMAIN writes = 1..Len(writes)
    BY <1>2
  <2>4. QED BY <2>1, <2>2, <2>3
<1>8. PICK front : front = first \o asks
  OBVIOUS
<1>9. ProcessCalls(p) = front \o drivers
  BY <1>1, <1>4, <1>8 DEF ProcessCalls
<1>10. front \in Seq(CallType) /\ \A k \in DOMAIN front : front[k].call \in {"operation", "spec"}
  <2>1. front \in Seq(CallType)
    BY <1>5, <1>6, <1>8
  <2>2. Joined(first, asks, front)
    BY <1>5, <1>6, <1>8, Catenated
  <2>3. QED BY <1>5, <1>6, <2>1, <2>2 DEF Joined
<1>11. /\ front \o drivers \in Seq(CallType)
       /\ \A k \in DOMAIN (front \o drivers) :
            \/ k \in DOMAIN front /\ (front \o drivers)[k] = front[k]
            \/ \E l \in DOMAIN drivers : (front \o drivers)[k] = drivers[l]
  <2>1. ASSUME NEW k \in DOMAIN (front \o drivers), k \notin DOMAIN front
        PROVE  k - Len(front) \in DOMAIN drivers /\ (front \o drivers)[k] = drivers[k - Len(front)]
    BY <1>7, <1>10, <2>1
  <2>2. QED BY <1>7, <1>10, <2>1
<1>12. QED BY SMTT(20), <1>1, <1>7, <1>9, <1>10, <1>11

(* The calls for a port or an instance, before the first of them.          *)
Ordered(q) ==
  \A k \in DOMAIN q :
    /\ q[k].call = "ff" => k = 1
    /\ q[k].call \in DrivesTmp => Created(q, k)

LEMMA ConnectionCalls ==
  ASSUME NEW c \in Connection
  PROVE  /\ InputCalls(c) \in Seq(CallType) /\ Ordered(InputCalls(c))
         /\ c.name \in Given \cup {NoName} /\ (c.how # "open" => c.name # NoName)
              => OutputCalls(c) \in Seq(CallType) /\ Ordered(OutputCalls(c))
<1> DEFINE first(what) == Call(what, NoName)
<1>1. \A what \in NoArg : first(what) \in CallType /\ first(what).call = what
  BY DEF Call, CallType
<1>2. ASSUME c.how # "open"
      PROVE  /\ Call("spec", c.name) \in CallType /\ Call("spec", c.name).call = "spec"
             /\ Call("instance_spec", c.name) \in CallType
             /\ Call("instance_spec", c.name).call = "instance_spec"
  BY <1>2, Connections DEF Call, CallType
<1>3. ASSUME NEW name \in Given \cup {NoName}
      PROVE  /\ Call("instance_output", name) \in CallType
             /\ Call("instance_output", name).call = "instance_output"
             /\ name # NoName => [call |-> "output", name |-> name, domain |-> Comb] \in CallType
  BY DEF Call, CallType
<1>4. CASE c.how = "open"
  <2>1. InputCalls(c) = <<first("instance_open")>> /\ OutputCalls(c) = <<Call("instance_output", NoName)>>
    BY <1>4 DEF InputCalls, OutputCalls
  <2>2. PICK a, b : a = first("instance_open") /\ b = Call("instance_output", NoName)
    OBVIOUS
  <2>3. a \in CallType /\ b \in CallType /\ a.call = "instance_open" /\ b.call = "instance_output"
    BY <1>1, <1>3, <2>2 DEF NoArg
  <2>4. <<a>> \in Seq(CallType) /\ <<b>> \in Seq(CallType) /\ Ordered(<<a>>) /\ Ordered(<<b>>)
    BY <2>3 DEF Ordered, DrivesTmp
  <2>5. QED BY <2>1, <2>2, <2>4
<1>5. CASE c.how = "name"
  <2>1. InputCalls(c) = <<Call("instance_spec", c.name)>> /\ OutputCalls(c) = <<Call("instance_output", c.name)>>
    BY <1>5 DEF InputCalls, OutputCalls
  <2>2. PICK a, b : a = Call("instance_spec", c.name) /\ b = Call("instance_output", c.name)
    OBVIOUS
  <2>3. a \in CallType /\ a.call = "instance_spec" /\ b.call = "instance_output"
    BY <1>2, <1>5, <2>2 DEF Call
  <2>4. c.name \in Given \cup {NoName} => b \in CallType
    BY <1>3, <2>2
  <2>5. /\ <<a>> \in Seq(CallType) /\ Ordered(<<a>>) /\ Ordered(<<b>>)
        /\ b \in CallType => <<b>> \in Seq(CallType)
    BY <2>3 DEF Ordered, DrivesTmp
  <2>6. QED BY <2>1, <2>2, <2>4, <2>5
<1>6. CASE c.how = "expr"
  <2>1. PICK a1, a2, a3, a4, a5 :
          /\ a1 = first("temporary") /\ a2 = first("operation") /\ a3 = Call("spec", c.name)
          /\ a4 = first("temporary_output") /\ a5 = first("instance_input")
    OBVIOUS
  <2>2. PICK b2, b4, b5, c8 :
          /\ b2 = first("instance_temporary") /\ b4 = first("from_instance")
          /\ b5 = [call |-> "output", name |-> c.name, domain |-> Comb]
          /\ c8 = first("from_conversion")
    OBVIOUS
  <2>3. /\ InputCalls(c) = <<a1, a2, a3, a4, a5>>
        /\ OutputCalls(c) = <<a1, b2, a2, b4, b5>>
             \/ OutputCalls(c) = <<a1, b2, a2, b4, a1, a4, a2, c8, b5>>
    BY <1>6, <2>1, <2>2 DEF InputCalls, OutputCalls
  <2>4. /\ a1 \in CallType /\ a2 \in CallType /\ a3 \in CallType /\ a4 \in CallType
        /\ a5 \in CallType /\ b2 \in CallType /\ b4 \in CallType /\ c8 \in CallType
        /\ a1.call = "temporary" /\ a2.call = "operation" /\ a3.call = "spec"
        /\ a4.call = "temporary_output" /\ a5.call = "instance_input"
        /\ b2.call = "instance_temporary" /\ b4.call = "from_instance" /\ b5.call = "output"
        /\ c8.call = "from_conversion"
    BY <1>1, <1>2, <1>6, <2>1, <2>2 DEF NoArg
  <2>5. <<a1, a2, a3, a4, a5>> \in Seq(CallType)
    BY <2>4
  <2>6. b5 \in CallType => /\ <<a1, b2, a2, b4, b5>> \in Seq(CallType)
                           /\ <<a1, b2, a2, b4, a1, a4, a2, c8, b5>> \in Seq(CallType)
    BY <2>4
  <2>7. Ordered(<<a1, a2, a3, a4, a5>>)
    <3>1. PICK q : q = <<a1, a2, a3, a4, a5>>
      OBVIOUS
    <3>2. /\ q[1] = a1 /\ q[2] = a2 /\ q[3] = a3 /\ q[4] = a4 /\ q[5] = a5
          /\ DOMAIN q = 1..5
      BY <3>1
    <3>3. Created(q, 4)
      BY <2>4, <3>2 DEF Created, Neutral
    <3>4. \A k \in DOMAIN q : k = 4 \/ q[k].call \notin {"ff", "temporary_output", "instance_temporary"}
      BY <2>4, <3>2
    <3>5. q[4].call # "ff"
      BY <2>4, <3>2
    <3>6. QED BY <3>1, <3>3, <3>4, <3>5 DEF Ordered, DrivesTmp
  <2>8. Ordered(<<a1, b2, a2, b4, b5>>)
    <3>1. PICK q : q = <<a1, b2, a2, b4, b5>>
      OBVIOUS
    <3>2. /\ q[1] = a1 /\ q[2] = b2 /\ q[3] = a2 /\ q[4] = b4 /\ q[5] = b5
          /\ DOMAIN q = 1..5
      BY <3>1
    <3>3. Created(q, 2)
      BY <2>4, <3>2 DEF Created, Neutral
    <3>4. \A k \in DOMAIN q : k = 2 \/ q[k].call \notin {"ff", "temporary_output", "instance_temporary"}
      BY <2>4, <3>2
    <3>5. q[2].call # "ff"
      BY <2>4, <3>2
    <3>6. QED BY <3>1, <3>3, <3>4, <3>5 DEF Ordered, DrivesTmp
  <2>9. Ordered(<<a1, b2, a2, b4, a1, a4, a2, c8, b5>>)
    <3>1. PICK q : q = <<a1, b2, a2, b4, a1, a4, a2, c8, b5>>
      OBVIOUS
    <3>2. /\ q[1] = a1 /\ q[2] = b2 /\ q[3] = a2 /\ q[4] = b4 /\ q[5] = a1
          /\ q[6] = a4 /\ q[7] = a2 /\ q[8] = c8 /\ q[9] = b5
          /\ DOMAIN q = 1..9
      BY <3>1
    <3>3. Created(q, 2)
      BY <2>4, <3>2 DEF Created, Neutral
    <3>4. Created(q, 6)
      <4>1. 5 \in 1..(6 - 1) /\ q[5].call = "temporary"
        BY <2>4, <3>2
      <4>2. Neutral(q, 5 + 1, 6 - 1)
        BY DEF Neutral
      <4>3. QED BY <4>1, <4>2 DEF Created
    <3>5. \A k \in DOMAIN q :
            k = 2 \/ k = 6 \/ q[k].call \notin {"ff", "temporary_output", "instance_temporary"}
      BY <2>4, <3>2
    <3>6. q[2].call # "ff" /\ q[6].call # "ff"
      BY <2>4, <3>2
    <3>7. QED BY <3>1, <3>3, <3>4, <3>5, <3>6 DEF Ordered, DrivesTmp
  <2>10. c.name \in Given \cup {NoName} /\ c.name # NoName => b5 \in CallType
    BY <1>3, <2>2
  <2>11. QED BY <1>6, <2>3, <2>5, <2>6, <2>7, <2>8, <2>9, <2>10
<1>7. QED BY <1>4, <1>5, <1>6, Connections

LEMMA CallsOfPorts ==
  ASSUME NEW p \in PortType
  PROVE  PortCalls(p) \in Seq(CallType) /\ Ordered(PortCalls(p))
<1>1. /\ p.port \in {"in", "out", "end"}
      /\ p.conn \in Connection
      /\ p.port = "out" => p.conn.name \in Given \cup {NoName}
  BY DEF PortType
<1>2. p.conn.how # "open" => p.conn.name # NoName
  BY <1>1, Connections, NoNameIsNoName
<1>3. CASE p.port = "in"
  BY <1>1, <1>3, ConnectionCalls DEF PortCalls
<1>4. CASE p.port = "out"
  <2>1. PortCalls(p) = OutputCalls(p.conn)
    BY <1>4 DEF PortCalls
  <2>2. QED BY <1>1, <1>2, <1>4, <2>1, ConnectionCalls
<1>5. CASE p.port = "end"
  <2>1. PICK a : a = Call("finalize", NoName)
    OBVIOUS
  <2>2. a \in CallType /\ a.call = "finalize"
    BY <2>1 DEF Call, CallType, NoArg
  <2>3. <<a>> \in Seq(CallType) /\ Ordered(<<a>>)
    BY <2>2 DEF Ordered, DrivesTmp
  <2>4. PortCalls(p) = <<a>>
    BY <1>5, <2>1 DEF PortCalls
  <2>5. QED BY <2>3, <2>4
<1>6. QED BY <1>1, <1>3, <1>4, <1>5

LEMMA InstancePortTypes ==
  ASSUME NEW i \in Instances
  PROVE  InstancePorts(i) \in Seq(PortType)
<1>1. PICK ins, outs : ins = i.ins /\ outs = i.outs
  OBVIOUS
<1>2. ins \in Seq(Connection) /\ outs \in Seq(Connection)
  BY <1>1, MembersAreOverNames
<1>3. \A k \in DOMAIN outs : outs[k].name \in Given \cup {NoName}
  BY <1>1, WrittenNames DEF Given
<1>4. PICK a, b, c : a = InPorts(ins) /\ b = OutPorts(outs)
                     /\ c = <<Port("end", Open)>>
  OBVIOUS
<1>5. a \in Seq(PortType)
  <2>1. a = [k \in 1..Len(ins) |-> Port("in", ins[k])]
    BY <1>2, <1>4 DEF InPorts
  <2>2. \A k \in 1..Len(ins) : Port("in", ins[k]) \in PortType
    BY <1>2 DEF Port, PortType
  <2>3. QED BY <1>2, <2>1, <2>2
<1>6. b \in Seq(PortType)
  <2>1. b = [k \in 1..Len(outs) |-> Port("out", outs[k])]
    BY <1>2, <1>4 DEF OutPorts
  <2>2. \A k \in 1..Len(outs) : Port("out", outs[k]) \in PortType
    BY <1>2, <1>3 DEF Port, PortType
  <2>3. QED BY <1>2, <2>1, <2>2
<1>7. c \in Seq(PortType)
  <2>1. Port("end", Open) \in PortType
    BY DEF Port, PortType, Connection, Open
  <2>2. QED BY <1>4, <2>1
<1>8. InstancePorts(i) = a \o b \o c
  BY <1>1, <1>4 DEF InstancePorts
<1>9. QED BY <1>5, <1>6, <1>7, <1>8

-----------------------------------------------------------------------------
(* Making a call.                                                          *)

LEMMA CallTypes == Handlers /\ calls # <<>> => Head(calls) \in CallType
  BY Rest DEF Handlers, LowerTypeOK

LEMMA FreshTemporary ==
  ASSUME Handlers, Fresh
  PROVE  /\ Tmp \in Name /\ Tmp \in Range(temporaries) /\ Tmp \in Range(Temporaries)
         /\ Tmp \notin Given /\ Tmp \notin InputPorts /\ Tmp # NoName
<1>1. temporaries \in Seq(Name) /\ temporaries # <<>>
  BY DEF Handlers, LowerTypeOK, Fresh
<1>2. Len(temporaries) \in DOMAIN temporaries /\ Len(temporaries) \in Nat
  BY <1>1
<1>3. Tmp \in Name /\ Tmp \in Range(temporaries)
  BY <1>1, <1>2 DEF Tmp, Range
<1>4. /\ Len(temporaries) \in DOMAIN Temporaries
      /\ Tmp = Temporaries[Len(temporaries)]
  BY <1>1, <1>2, MembersAreOverNames DEF Handlers, Numbered, Tmp
<1>5. QED BY <1>3, <1>4, GivenNames, NoNameIsNoName DEF Range

LEMMA TemporaryCreated ==
  ASSUME Handlers, Len(temporaries) < Len(Temporaries), intended' = intended,
         temporaries' = Append(temporaries, Temporaries[Len(temporaries) + 1])
  PROVE  temporaries' \in Seq(Name) /\ Fresh' /\ Numbered'
<1>1. PICK l, name : l = Len(temporaries) /\ name = Temporaries[l + 1]
  OBVIOUS
<1>2. temporaries \in Seq(Name) /\ Temporaries \in Seq(Name) /\ l \in Nat
  BY <1>1, MembersAreOverNames DEF Handlers, LowerTypeOK
<1>3. l + 1 \in DOMAIN Temporaries /\ name \in Name
  BY <1>1, <1>2
<1>4. /\ temporaries' \in Seq(Name) /\ Len(temporaries') = l + 1
      /\ DOMAIN temporaries' = 1..(l + 1) /\ DOMAIN temporaries = 1..l
      /\ temporaries'[l + 1] = name
      /\ \A k \in DOMAIN temporaries : temporaries'[k] = temporaries[k]
  BY <1>1, <1>2, <1>3, Appended
<1>5. \A k \in DOMAIN temporaries : temporaries[k] = Temporaries[k]
  BY DEF Handlers, Numbered
<1>6. name \notin Range(temporaries)
  <2>1. \A k \in DOMAIN temporaries : k \in DOMAIN Temporaries /\ k # l + 1
    BY <1>1, <1>2, <1>3, <1>4
  <2>2. QED BY <1>1, <1>3, <1>5, <2>1, TemporariesAreNew DEF Range
<1>7. name \in Range(Temporaries)
  BY <1>1, <1>3 DEF Range
<1>8. ~Driven(name)
  BY <1>6, <1>7 DEF Driven, Handlers, Numbered
<1>9. Tmp' = name /\ temporaries' # <<>>
  BY <1>4 DEF Tmp
<1>10. Fresh'
  BY <1>8, <1>9 DEF Fresh, Driven
<1>11. \A x \in Range(temporaries) : x \in Range(temporaries)'
  <2>1. ASSUME NEW k \in DOMAIN temporaries
        PROVE  k \in DOMAIN temporaries' /\ temporaries'[k] = temporaries[k]
    BY <1>2, <1>4
  <2>2. QED BY <2>1 DEF Range
<1>12. Numbered'
  <2>1. Len(temporaries') <= Len(Temporaries)
    BY <1>1, <1>2, <1>4
  <2>2. \A k \in DOMAIN temporaries' : temporaries'[k] = Temporaries[k]
    BY <1>1, <1>2, <1>4, <1>5
  <2>3. \A d \in intended' : d.name \in Range(Temporaries) => d.name \in Range(temporaries)'
    BY <1>11 DEF Handlers, Numbered
  <2>4. QED BY <2>1, <2>2, <2>3 DEF Numbered
<1>13. QED BY <1>4, <1>10, <1>12

LEMMA DriverIntended ==
  ASSUME Handlers, NEW name, NEW ref, NEW domain, Intend(name, ref, domain),
         temporaries' = temporaries,
         name \in Given \cup {NoName} \/ name \in Range(temporaries)
  PROVE  Numbered'
<1>1. \A d \in intended' : d \in intended \/ (d.name = name /\ name # NoName)
  BY DEF Intend
<1>2. name \in Given => name \notin Range(Temporaries)
  BY GivenNames DEF Range
<1>3. QED BY <1>1, <1>2 DEF Handlers, Numbered

LEMMA CallsAdvance ==
  ASSUME Handlers, calls # <<>>,
         \/ calls' = Tail(calls)
         \/ /\ Head(calls).call = "output" /\ Head(calls).domain # Comb
            /\ calls' = <<[Head(calls) EXCEPT !.call = "ff"]>> \o Tail(calls),
         Head(calls).call = "temporary" => Fresh',
         Head(calls).call \in {"operation", "spec"} /\ Fresh => Fresh'
  PROVE  calls' \in Seq(CallType) /\ Sequenced'
<1>1. /\ calls \in Seq(CallType) /\ Head(calls) \in CallType /\ Head(calls) = calls[1]
      /\ 1 \in DOMAIN calls
      /\ Tail(calls) \in Seq(CallType)
      /\ \A k \in DOMAIN Tail(calls) :
           k \in Nat /\ k >= 1 /\ k + 1 \in DOMAIN calls /\ Tail(calls)[k] = calls[k + 1]
  BY Rest DEF Handlers, LowerTypeOK
<1>2. CASE calls' = Tail(calls)
  <2>1. ASSUME NEW k \in DOMAIN calls'
        PROVE  /\ calls'[k].call = "ff" => k = 1
               /\ calls'[k].call \in DrivesTmp =>
                    Created(calls', k) \/ (Fresh' /\ Neutral(calls', 1, k - 1))
    <3>1. k \in Nat /\ k >= 1 /\ k + 1 \in DOMAIN calls /\ calls'[k] = calls[k + 1] /\ k + 1 # 1
      BY <1>1, <1>2, <2>1
    <3>2. /\ calls[k + 1].call # "ff"
          /\ calls[k + 1].call \in DrivesTmp =>
               Created(calls, k + 1) \/ (Fresh /\ Neutral(calls, 1, (k + 1) - 1))
      BY <3>1 DEF Handlers, Sequenced
    <3>3. (k + 1) - 1 = k
      BY <3>1
    <3>4. \A j \in 1..k : j \in DOMAIN calls' /\ calls'[j] = calls[j + 1]
      BY <1>1, <1>2, <2>1, <3>1
    <3>5. ASSUME NEW m \in 1..k, Neutral(calls, m + 1, k)
          PROVE  Neutral(calls', m, k - 1)
      <4>1. ASSUME NEW j \in m..(k - 1)
            PROVE  calls'[j].call \in {"operation", "spec"}
        <5>1. j \in 1..k /\ j + 1 \in (m + 1)..k
          BY <3>1
        <5>2. QED BY <3>4, <3>5, <5>1 DEF Neutral
      <4>2. QED BY <4>1 DEF Neutral
    <3>6. CASE Created(calls, k + 1)
      <4>1. PICK m \in 1..k : calls[m].call = "temporary" /\ Neutral(calls, m + 1, k)
        BY <3>3, <3>6 DEF Created
      <4>2. CASE m = 1
        BY <1>1, <3>1, <3>2, <3>5, <4>1, <4>2
      <4>3. CASE m # 1
        <5>1. m - 1 \in 1..(k - 1) /\ m - 1 \in 1..k /\ (m - 1) + 1 = m
          BY <3>1, <4>3
        <5>2. calls'[m - 1].call = "temporary"
          BY <3>4, <4>1, <5>1
        <5>3. Neutral(calls', m, k - 1)
          BY <3>5, <4>1
        <5>4. Created(calls', k)
          BY <5>1, <5>2, <5>3 DEF Created
        <5>5. QED BY <3>1, <3>2, <5>4
      <4>4. QED BY <4>2, <4>3
    <3>7. CASE Fresh /\ Neutral(calls, 1, k)
      <4>1. 1 \in 1..k
        BY <3>1
      <4>2. calls[1].call \in {"operation", "spec"}
        BY <3>7, <4>1 DEF Neutral
      <4>3. Fresh'
        BY <1>1, <3>7, <4>2
      <4>4. Neutral(calls, 1 + 1, k)
        BY <3>1, <3>7 DEF Neutral
      <4>5. Neutral(calls', 1, k - 1)
        BY <3>5, <4>1, <4>4
      <4>6. QED BY <3>1, <3>2, <4>3, <4>5
    <3>8. QED BY <3>1, <3>2, <3>3, <3>6, <3>7
  <2>2. QED BY <1>1, <1>2, <2>1 DEF Sequenced
<1>3. CASE /\ Head(calls).call = "output" /\ Head(calls).domain # Comb
           /\ calls' = <<[Head(calls) EXCEPT !.call = "ff"]>> \o Tail(calls)
  <2>1. PICK first : first = [Head(calls) EXCEPT !.call = "ff"]
    OBVIOUS
  <2>2. first \in CallType /\ first.call = "ff"
    BY <1>1, <1>3, <2>1, CallFields
  <2>3. <<first>> \in Seq(CallType) /\ Len(<<first>>) = 1 /\ <<first>>[1] = first
    BY <2>2
  <2>4. /\ calls' \in Seq(CallType)
        /\ \A k \in DOMAIN calls' :
             \/ k = 1 /\ calls'[k] = first
             \/ k # 1 /\ k \in DOMAIN calls /\ calls'[k] = calls[k]
    <3>1. PICK one, rest : one = <<first>> /\ rest = Tail(calls)
      OBVIOUS
    <3>2. one \in Seq(CallType) /\ rest \in Seq(CallType) /\ Len(one) = 1 /\ one[1] = first
      BY <1>1, <2>3, <3>1
    <3>3. calls' = one \o rest
      BY <1>3, <2>1, <3>1
    <3>4. ASSUME NEW k \in DOMAIN calls'
          PROVE  \/ k = 1 /\ calls'[k] = first
                 \/ \E l \in DOMAIN rest : k = 1 + l /\ calls'[k] = rest[l]
      <4>1. \/ k \in DOMAIN one /\ calls'[k] = one[k]
            \/ \E l \in DOMAIN rest : k = Len(one) + l /\ calls'[k] = rest[l]
        <5>1. Joined(one, rest, calls')
          BY <3>2, <3>3, Catenated
        <5>2. QED BY <3>4, <5>1 DEF Joined
      <4>2. DOMAIN one = {1}
        BY <3>2
      <4>3. QED BY <3>2, <4>1, <4>2
    <3>5. QED BY <1>1, <3>1, <3>2, <3>3, <3>4, Catenated
  <2>5. ASSUME NEW k \in DOMAIN calls, k # 1
        PROVE  /\ calls[k].call # "ff"
               /\ calls[k].call \in DrivesTmp => Created(calls', k)
    <3>1. k \in 1..Len(calls) /\ Len(calls) \in Nat /\ 1 \in 1..(k - 1)
      BY <1>1, <2>5
    <3>2. /\ calls[k].call # "ff"
          /\ calls[k].call \in DrivesTmp =>
               Created(calls, k) \/ (Fresh /\ Neutral(calls, 1, k - 1))
      BY <2>5 DEF Handlers, Sequenced
    <3>3. calls[1].call = "output"
      BY <1>1, <1>3
    <3>4. ~Neutral(calls, 1, k - 1)
      BY <3>1, <3>3 DEF Neutral
    <3>5. ASSUME Created(calls, k)
          PROVE  Created(calls', k)
      <4>1. PICK m \in 1..(k - 1) : calls[m].call = "temporary" /\ Neutral(calls, m + 1, k - 1)
        BY <3>5 DEF Created
      <4>2. m # 1
        BY <3>3, <4>1
      <4>3. \A j \in 2..(k - 1) : calls'[j] = calls[j]
        <5>1. Len(calls') = Len(calls) \/ \A j \in 1..Len(calls) : j \in DOMAIN calls'
          BY <1>1, <1>3, <2>1, <2>2
        <5>2. QED BY <2>4, <3>1, <5>1
      <4>4. calls'[m].call = "temporary"
        BY <3>1, <4>1, <4>2, <4>3
      <4>5. Neutral(calls', m + 1, k - 1)
        BY <3>1, <4>1, <4>2, <4>3 DEF Neutral
      <4>6. QED BY <4>1, <4>4, <4>5 DEF Created
    <3>6. QED BY <3>2, <3>4, <3>5
  <2>6. QED BY <2>2, <2>4, <2>5 DEF Sequenced, DrivesTmp
<1>4. QED BY <1>2, <1>3

-----------------------------------------------------------------------------
(* The handlers implement the netlist builder.                             *)

LEMMA InputStep ==
  ASSUME NEW n, NEW p, NEW m, AddNodeInput(n, Ref(m, p))
  PROVE  TigNext
<1>1. n \in DOMAIN nodes /\ Existing(Ref(m, p)) /\ Ref(m, p).node = m /\ Ref(m, p).port = p
  BY DEF AddNodeInput, Builds, Ref
<1>2. CASE Ref(m, p) = Unconnected
  <2>1. AddNodeInput(n, Unconnected)
    BY <1>2
  <2>2. QED BY <1>1, <2>1 DEF TigNext
<1>3. CASE Ref(m, p) # Unconnected
  <2>1. m \in DOMAIN nodes /\ p \in DOMAIN nodes[m].outputs
    BY <1>1, <1>3 DEF Existing
  <2>2. QED BY <1>1, <2>1 DEF TigNext
<1>4. QED BY <1>2, <1>3

LEMMA OutputStep ==
  ASSUME NEW n, NEW name \in Names, AddNodeOutput(n, name)
  PROVE  TigNext
<1>1. n \in DOMAIN nodes
  BY DEF AddNodeOutput, AddFirstDriver, AddSecondDriver, AddLaterDriver, Builds
<1>2. QED BY <1>1 DEF TigNext, Names

LEMMA CallStep ==
  ASSUME Handlers, MakeCall
  PROVE  [TigNext]_tigVars
<1>1. CASE CallOperation
  BY <1>1 DEF CallOperation, TigNext
<1>2. CASE CallInstance
  BY <1>2 DEF CallInstance, TigNext
<1>3. CASE CallTemporary
  BY <1>3 DEF CallTemporary
<1>4. CASE CallInput
  <2>1. CASE Next1("spec") /\ AddNodeInputSpec(operation, Arg)
    <3>1. Arg \in Name
      BY <2>1, CallTypes, CallFields DEF Arg, Next1
    <3>2. operation \in DOMAIN nodes
      BY <2>1 DEF AddNodeInputSpec, Builds
    <3>3. QED BY <2>1, <3>1, <3>2 DEF TigNext
  <2>2. CASE Next1("instance_spec") /\ AddNodeInputSpec(instance, Arg)
    <3>1. Arg \in Name
      BY <2>2, CallTypes, CallFields DEF Arg, Next1
    <3>2. instance \in DOMAIN nodes
      BY <2>2 DEF AddNodeInputSpec, Builds
    <3>3. QED BY <2>2, <3>1, <3>2 DEF TigNext
  <2>3. CASE AddNodeInput(instance, Unconnected)
    <3>1. instance \in DOMAIN nodes
      BY <2>3 DEF AddNodeInput, Builds
    <3>2. QED BY <2>3, <3>1 DEF TigNext
  <2>4. CASE AddNodeInput(instance, Ref(operation, 1))
    BY <2>4, InputStep
  <2>5. CASE AddNodeInput(operation, Ref(instance, Len(nodes[instance].outputs)))
    BY <2>5, InputStep
  <2>6. CASE FinalizeNodeInput(instance)
    <3>1. instance \in DOMAIN nodes
      BY <2>6 DEF FinalizeNodeInput, Builds
    <3>2. QED BY <2>6, <3>1 DEF TigNext
  <2>7. CASE AddNodeInput(operation, Ref(instance, 1))
    BY <2>7, InputStep
  <2>8. QED BY <1>4, <2>1, <2>2, <2>3, <2>4, <2>5, <2>6, <2>7 DEF CallInput
<1>5. CASE CallOutput
  <2>1. CASE Next1("temporary_output") /\ AddNodeOutput(operation, Tmp)
    <3>1. Fresh
      <4>1. calls # <<>> /\ calls[1].call = "temporary_output" /\ 1 \in DOMAIN calls
        BY <2>1, Rest DEF Next1, Handlers, LowerTypeOK
      <4>2. QED BY <4>1 DEF Handlers, Sequenced, Created, DrivesTmp
    <3>2. QED BY <2>1, <3>1, FreshTemporary, OutputStep DEF Names
  <2>2. CASE Next1("instance_output") /\ AddNodeOutput(instance, Arg)
    <3>1. Arg \in Names
      BY <2>2, CallTypes, CallFields, GivenNames DEF Arg, Next1, Names
    <3>2. QED BY <2>2, <3>1, OutputStep
  <2>3. CASE Next1("instance_temporary") /\ AddNodeOutput(instance, Tmp)
    <3>1. Fresh
      <4>1. calls # <<>> /\ calls[1].call = "instance_temporary" /\ 1 \in DOMAIN calls
        BY <2>3, Rest DEF Next1, Handlers, LowerTypeOK
      <4>2. QED BY <4>1 DEF Handlers, Sequenced, Created, DrivesTmp
    <3>2. QED BY <2>3, <3>1, FreshTemporary, OutputStep DEF Names
  <2>4. CASE Next1("output") /\ AddNodeOutput(operation, Arg)
    <3>1. Arg \in Names
      BY <2>4, CallTypes, CallFields, GivenNames DEF Arg, Next1, Names
    <3>2. QED BY <2>4, <3>1, OutputStep
  <2>5. QED BY <1>5, <2>1, <2>2, <2>3, <2>4 DEF CallOutput
<1>6. CASE CallFf
  <2>1. PICK ref : ref = Ref(operation, Len(nodes[operation].outputs))
    OBVIOUS
  <2>2. RecordFf(Arg, Head(calls).domain, ref) /\ Next1("ff")
    BY <1>6, <2>1 DEF CallFf
  <2>3. Arg \in Name /\ Head(calls).domain \in Domain
    BY <2>2, CallTypes, CallFields, GivenNames DEF Arg, Next1
  <2>4. ref.node = operation /\ ref.port = Len(nodes[operation].outputs)
    BY <2>1 DEF Ref
  <2>5. operation \in DOMAIN nodes /\ Len(nodes[operation].outputs) \in DOMAIN nodes[operation].outputs
    BY <2>2, <2>4 DEF RecordFf, Existing
  <2>6. QED BY <2>1, <2>2, <2>3, <2>5 DEF TigNext
<1>7. QED BY <1>1, <1>2, <1>3, <1>4, <1>5, <1>6 DEF MakeCall

LEMMA BuilderSteps ==
  ASSUME Handlers, [Next]_vars
  PROVE  [TigNext]_tigVars
<1>1. CASE \E name \in InputPorts \cup OutputPorts : VisitPort(name)
  BY <1>1, MembersAreOverNames DEF VisitPort, TigNext
<1>2. CASE \E p \in Processes : VisitProcess(p)
  BY <1>2 DEF VisitProcess
<1>3. CASE \E i \in Instances : VisitInstance(i)
  BY <1>3 DEF VisitInstance
<1>4. CASE VisitPortConnection
  BY <1>4 DEF VisitPortConnection
<1>5. CASE MakeCall
  BY <1>5, CallStep
<1>6. CASE FinishModule
  BY <1>6 DEF FinishModule, TigNext
<1>7. CASE UNCHANGED vars
  BY <1>7 DEF vars
<1>8. QED BY <1>1, <1>2, <1>3, <1>4, <1>5, <1>6, <1>7 DEF Next, Done

LEMMA HandlersStart == Init => Handlers
<1>1. SUFFICES ASSUME Init PROVE Handlers
  OBVIOUS
<1>2. calls = <<>> /\ ports = <<>> /\ temporaries = <<>> /\ operation = 0 /\ instance = 0 /\ intended = {}
  BY <1>1 DEF Init
<1>3. LowerTypeOK /\ Sequenced
  BY <1>2 DEF LowerTypeOK, Sequenced
<1>4. Numbered
  <2>1. Temporaries \in Seq(Name)
    BY MembersAreOverNames
  <2>2. QED BY <1>2, <2>1 DEF Numbered
<1>5. QED BY <1>3, <1>4 DEF Handlers

(* What the calls of the head of calls leave in the handlers' own state.   *)
LEMMA CallHandled ==
  ASSUME IInv, Handlers, MakeCall
  PROVE  /\ temporaries' \in Seq(Name) /\ operation' \in Nat /\ instance' \in Nat
         /\ Numbered'
         /\ Head(calls).call = "temporary" => Fresh'
         /\ Head(calls).call \in {"operation", "spec"} /\ Fresh => Fresh'
<1>1. /\ temporaries \in Seq(Name) /\ operation \in Nat /\ instance \in Nat
      /\ Numbered /\ Len(nodes) \in Nat
  BY Facts, Domains DEF Handlers, LowerTypeOK
<1>2. ASSUME temporaries' = temporaries, intended' = intended
      PROVE  Numbered' /\ (Fresh => Fresh')
  BY <1>1, <1>2 DEF Numbered, Fresh, Driven, Tmp
<1>3. CASE CallOperation
  <2>1. operation' \in Nat /\ temporaries' = temporaries /\ intended' = intended /\ instance' = instance
    BY <1>1, <1>3 DEF CallOperation
  <2>2. Head(calls).call # "temporary"
    BY <1>3 DEF CallOperation, Next1
  <2>3. QED BY <1>1, <1>2, <2>1, <2>2
<1>4. CASE CallInstance
  <2>1. instance' \in Nat /\ temporaries' = temporaries /\ intended' = intended /\ operation' = operation
    BY <1>1, <1>4 DEF CallInstance
  <2>2. Head(calls).call # "temporary"
    BY <1>4 DEF CallInstance, Next1
  <2>3. QED BY <1>1, <1>2, <2>1, <2>2
<1>5. CASE CallTemporary
  <2>1. /\ operation' = operation /\ instance' = instance
        /\ temporaries' \in Seq(Name) /\ Fresh' /\ Numbered'
    BY <1>5, TemporaryCreated DEF CallTemporary
  <2>2. QED BY <1>1, <2>1
<1>6. CASE CallInput
  <2>1. /\ temporaries' = temporaries /\ intended' = intended
        /\ operation' = operation /\ instance' = instance
    BY <1>6 DEF CallInput
  <2>2. Head(calls).call # "temporary"
    BY <1>6 DEF CallInput, Next1
  <2>3. QED BY <1>1, <1>2, <2>1, <2>2
<1>7. CASE CallOutput
  <2>1. temporaries' = temporaries /\ operation' = operation /\ instance' = instance
    BY <1>7 DEF CallOutput
  <2>2. Head(calls).call \in {"temporary_output", "instance_output", "instance_temporary", "output"}
        /\ calls # <<>>
    BY <1>7 DEF CallOutput, Next1
  <2>3. Numbered'
    <3>1. PICK name, ref, domain :
            /\ Intend(name, ref, domain)
            /\ \/ name = Tmp /\ Head(calls).call \in {"temporary_output", "instance_temporary"}
               \/ name = Arg /\ Head(calls).call \in {"instance_output", "output"}
      BY <1>7 DEF CallOutput, Next1
    <3>2. CASE name = Arg /\ Head(calls).call \in {"instance_output", "output"}
      <4>1. Arg \in Given \cup {NoName}
        BY <2>2, <3>2, CallTypes, CallFields DEF Arg
      <4>2. QED BY <2>1, <3>1, <3>2, <4>1, DriverIntended
    <3>3. CASE name = Tmp /\ Head(calls).call \in {"temporary_output", "instance_temporary"}
      <4>1. 1 \in DOMAIN calls /\ Head(calls) = calls[1]
        BY <2>2, Rest DEF Handlers, LowerTypeOK
      <4>2. Fresh
        BY <3>3, <4>1 DEF Handlers, Sequenced, Created, DrivesTmp
      <4>3. Tmp \in Range(temporaries)
        BY <4>2, FreshTemporary
      <4>4. QED BY <2>1, <3>1, <3>3, <4>3, DriverIntended
    <3>4. QED BY <3>1, <3>2, <3>3
  <2>4. QED BY <1>1, <2>1, <2>2, <2>3
<1>8. CASE CallFf
  <2>1. /\ temporaries' = temporaries /\ intended' = intended
        /\ operation' = operation /\ instance' = instance
    BY <1>8 DEF CallFf
  <2>2. Head(calls).call # "temporary"
    BY <1>8 DEF CallFf, Next1
  <2>3. QED BY <1>1, <1>2, <2>1, <2>2
<1>9. QED BY <1>3, <1>4, <1>5, <1>6, <1>7, <1>8 DEF MakeCall

LEMMA HandlersStep == IInv /\ Handlers /\ [Next]_vars => Handlers'
<1> SUFFICES ASSUME IInv, Handlers, [Next]_vars
             PROVE  Handlers'
  OBVIOUS
<1>1. ASSUME temporaries' = temporaries, intended' = intended, operation' = operation,
             instance' = instance, calls' \in Seq(CallType), ports' \in Seq(PortType), Ordered(calls')
      PROVE  Handlers'
  BY <1>1 DEF Handlers, LowerTypeOK, Numbered, Sequenced, Ordered
<1>2. ASSUME UNCHANGED lowerVars
      PROVE  Handlers'
  BY <1>2 DEF lowerVars, Handlers, LowerTypeOK, Numbered, Sequenced, Fresh, Driven, Tmp
<1>3. CASE \E name \in InputPorts \cup OutputPorts : VisitPort(name)
  BY <1>2, <1>3 DEF VisitPort
<1>4. ASSUME NEW p \in Processes, VisitProcess(p)
      PROVE  Handlers'
  <2>1. Ordered(ProcessCalls(p)) /\ ProcessCalls(p) \in Seq(CallType)
    BY Processed DEF Ordered, DrivesTmp
  <2>2. QED BY <1>1, <1>4, <2>1 DEF VisitProcess, Handlers, LowerTypeOK
<1>5. ASSUME NEW i \in Instances, VisitInstance(i)
      PROVE  Handlers'
  <2>1. PICK c : c = Call("instance", NoName)
    OBVIOUS
  <2>2. c \in CallType /\ c.call = "instance"
    BY <2>1 DEF Call, CallType, NoArg
  <2>3. <<c>> \in Seq(CallType) /\ Ordered(<<c>>)
    BY <2>2 DEF Ordered, DrivesTmp
  <2>4. calls' = <<c>> /\ ports' = InstancePorts(i)
    BY <1>5, <2>1 DEF VisitInstance
  <2>5. QED BY <1>1, <1>5, <2>3, <2>4, InstancePortTypes DEF VisitInstance
<1>6. CASE VisitPortConnection
  <2>1. Head(ports) \in PortType /\ Tail(ports) \in Seq(PortType)
    BY <1>6, Rest DEF VisitPortConnection, Handlers, LowerTypeOK
  <2>2. PortCalls(Head(ports)) \in Seq(CallType) /\ Ordered(PortCalls(Head(ports)))
    BY <2>1, CallsOfPorts
  <2>3. QED BY <1>1, <1>6, <2>1, <2>2 DEF VisitPortConnection
<1>7. CASE MakeCall
  <2>1. /\ calls # <<>> /\ ports' = ports
        /\ \/ calls' = Tail(calls)
           \/ /\ Head(calls).call = "output" /\ Head(calls).domain # Comb
              /\ calls' = <<[Head(calls) EXCEPT !.call = "ff"]>> \o Tail(calls)
    BY <1>7 DEF MakeCall, Clocking, Next1, CallOperation, CallInstance, CallTemporary, CallInput,
                CallOutput, CallFf
  <2>2. QED BY <1>7, <2>1, CallHandled, CallsAdvance DEF Handlers, LowerTypeOK
<1>8. CASE FinishModule
  BY <1>2, <1>8 DEF FinishModule
<1>9. CASE UNCHANGED vars
  BY <1>2, <1>9 DEF vars, lowerVars
<1>10. QED BY <1>3, <1>4, <1>5, <1>6, <1>7, <1>8, <1>9 DEF Next, Done

(* In every reachable state the netlist is as the first part has it and    *)
(* the handlers are where their calls are in order.                        *)
LowerInv == IInv /\ Naming /\ Handlers

LEMMA LoweringHolds == Spec => []LowerInv
<1>1. Init => LowerInv
  BY Starts, NamingStarts, HandlersStart DEF LowerInv, Init
<1>2. LowerInv /\ [Next]_vars => LowerInv'
  <2>1. SUFFICES ASSUME IInv, Naming, Handlers, [Next]_vars PROVE LowerInv'
    BY DEF LowerInv
  <2>2. [TigNext]_tigVars
    BY <2>1, BuilderSteps
  <2>3. IInv'
    BY <2>1, <2>2, Steps
  <2>4. Naming'
    BY <2>1, <2>2, <2>3, NamingSteps
  <2>5. QED BY <2>1, <2>3, <2>4, HandlersStep DEF LowerInv
<1>3. QED BY <1>1, <1>2, PTL DEF Spec

(* The handlers use TigBuilder only as it may be used: whatever members a  *)
(* module body has, a run of them is a run of the builder, and what is     *)
(* proved of the builder holds of it.                                      *)
THEOREM ImplementsTig == Spec => TigSpec
<1>1. Init => TigInit
  BY DEF Init
<1>2. LowerInv /\ [Next]_vars => [TigNext]_tigVars
  BY BuilderSteps DEF LowerInv
<1>3. QED BY <1>1, <1>2, LoweringHolds, PTL DEF Spec, TigSpec

-----------------------------------------------------------------------------
(* What signal_maps_ has: a name is mapped once the text drives it or it   *)
(* is an input of the module, and a name that is only an input is mapped   *)
(* to that input.                                                          *)

IsInput(name) == \E m \in DOMAIN nodes : nodes[m].kind = "pi" /\ nodes[m].outputs = <<name>>

InputsNamed ==
  \A m \in DOMAIN nodes : nodes[m].kind = "pi" =>
    \E name \in InputPorts : nodes[m].outputs = <<name>>

Sourced ==
  /\ \A d \in intended : d.name \in Name
  /\ InputsNamed
  /\ \A f \in pendingFfs : Driven(f.name)
  /\ ffMerge # NoMerge => Driven(ffMerge.name)
  /\ \A name \in Name :
       /\ signalMap[name] # Unconnected <=> Driven(name) \/ IsInput(name)
       /\ signalMap[name] # Unconnected /\ ~Driven(name) => nodes[signalMap[name].node].kind = "pi"

(* A step that leaves the inputs of the module alone.                      *)
InputsKept ==
  \A m \in DOMAIN nodes' :
    IF m \in DOMAIN nodes /\ nodes[m].kind = "pi"
    THEN nodes'[m].kind = "pi" /\ nodes'[m].outputs = nodes[m].outputs
    ELSE nodes'[m].kind # "pi"

LEMMA SameInputs ==
  ASSUME InputsKept, Kept
  PROVE  /\ InputsNamed => InputsNamed'
         /\ \A name : IsInput(name)' <=> IsInput(name)
<1>1. InputsNamed => InputsNamed'
  BY DEF InputsKept, InputsNamed
<1>2. ASSUME NEW name
      PROVE  IsInput(name)' <=> IsInput(name)
  BY DEF InputsKept, Kept, IsInput
<1>3. QED BY <1>1, <1>2

(* A step that may drive a name, with a driver intended for it, or replace *)
(* what stands for a name that is driven.                                  *)
LEMMA SourcedStep ==
  ASSUME IInv, IInv', Sourced, InputsKept, Kept,
         \A d \in intended' : d \in intended \/ d.name \in Name,
         \A d \in intended : d \in intended',
         \A f \in pendingFfs' : f \in pendingFfs \/ Driven(f.name)',
         ffMerge' = ffMerge \/ ffMerge' = NoMerge \/ Driven(ffMerge.name)',
         \A name \in Name :
           \/ signalMap'[name] = signalMap[name] /\ (Driven(name)' <=> Driven(name))
           \/ signalMap'[name] # Unconnected /\ Driven(name)'
  PROVE  Sourced'
<1>1. \A name : Driven(name) => Driven(name)'
  BY DEF Driven
<1>2. \A name : IsInput(name)' <=> IsInput(name)
  BY SameInputs
<1>3. \A d \in intended' : d.name \in Name
  BY DEF Sourced
<1>4. InputsNamed'
  BY SameInputs DEF Sourced
<1>5. \A f \in pendingFfs' : Driven(f.name)'
  BY <1>1 DEF Sourced
<1>6. (ffMerge # NoMerge => Driven(ffMerge.name))'
  <2>1. CASE ffMerge' = ffMerge
    <3>1. PICK name : name = ffMerge.name
      OBVIOUS
    <3>2. ffMerge # NoMerge => Driven(name)
      BY <3>1 DEF Sourced
    <3>3. ffMerge' # NoMerge => \E d \in intended' : d.name = name
      BY <1>1, <2>1, <3>2 DEF Driven
    <3>4. QED BY <2>1, <3>1, <3>3 DEF Driven
  <2>2. QED BY <2>1
<1>7. ASSUME NEW name \in Name
      PROVE  /\ signalMap'[name] # Unconnected <=> Driven(name)' \/ IsInput(name)'
             /\ signalMap'[name] # Unconnected /\ ~Driven(name)'
                  => nodes'[signalMap'[name].node].kind = "pi"
  <2>1. CASE signalMap'[name] = signalMap[name] /\ (Driven(name)' <=> Driven(name))
    <3>1. PICK ref : ref = signalMap[name]
      OBVIOUS
    <3>2. /\ ref # Unconnected <=> Driven(name) \/ IsInput(name)
          /\ ref # Unconnected /\ ~Driven(name) => nodes[ref.node].kind = "pi"
      BY <3>1 DEF Sourced
    <3>3. ref # Unconnected => ref.node \in DOMAIN nodes
      BY <3>1, MappedOutput
    <3>4. ref # Unconnected => nodes'[ref.node].kind = nodes[ref.node].kind
      BY <3>3 DEF Kept
    <3>5. QED BY <1>2, <2>1, <3>1, <3>2, <3>4
  <2>2. CASE signalMap'[name] # Unconnected /\ Driven(name)'
    BY <2>2
  <2>3. QED BY <2>1, <2>2
<1>8. (\A name \in Name :
        /\ signalMap[name] # Unconnected <=> Driven(name) \/ IsInput(name)
        /\ signalMap[name] # Unconnected /\ ~Driven(name)
             => nodes[signalMap[name].node].kind = "pi")'
  BY <1>7
<1>9. QED BY <1>3, <1>4, <1>5, <1>6, <1>8 DEF Sourced

-----------------------------------------------------------------------------
(* The effects of the steps, as far as names and drivers go.               *)

(* No output changes hands, and what is behind merges and registers stays: *)
(* nodes may be added that have no output yet.                             *)
Calm ==
  /\ Kept
  /\ \A m \in DOMAIN nodes :
       /\ nodes'[m].outputs = nodes[m].outputs
       /\ nodes[m].kind \in {"merge", "ff_merge"} => nodes'[m].inputs = nodes[m].inputs
       /\ nodes[m].kind = "ff" =>
            /\ nodes'[m].inputs[1] = nodes[m].inputs[1]
            /\ nodes'[m].clkEdge = nodes[m].clkEdge /\ nodes'[m].rstEdge = nodes[m].rstEdge
            /\ inputSpecs'[m] = inputSpecs[m]
  /\ \A m \in DOMAIN nodes' :
       m \notin DOMAIN nodes =>
         nodes'[m].kind \in {"po", "op", "instance"} /\ nodes'[m].outputs = <<>>
  /\ UNCHANGED <<signalMap, ffMerge>>

LEMMA StillCalm ==
  ASSUME IInv, nodes' = nodes, inputSpecs' = inputSpecs, UNCHANGED <<signalMap, ffMerge>>
  PROVE  Calm
<1>1. Kept
  BY DEF Kept
<1>2. QED BY <1>1 DEF Calm

LEMMA CreatingCalm ==
  ASSUME IInv, (\E name \in Name : CreateModuleOutput(name)) \/ CreateOperation \/ CreateInstance
  PROVE  /\ Calm /\ UNCHANGED <<pendingFfs, phase>>
         /\ Len(nodes') = Len(nodes) + 1
         /\ CreateOperation => nodes'[Len(nodes) + 1].kind = "op"
         /\ CreateInstance => nodes'[Len(nodes) + 1].kind = "instance"
<1>1. PICK x, specs : /\ x \in NodeType /\ x.outputs = <<>> /\ specs \in Specs
                      /\ x.kind \in {"po", "op", "instance"}
                      /\ CreateNode(x, specs)
                      /\ CreateOperation => x.kind = "op"
                      /\ CreateInstance => x.kind = "instance"
  <2>1. /\ <<>> \in Seq(Reference) /\ <<Unconnected>> \in Seq(Reference) /\ <<>> \in Specs
        /\ \A name \in Name : <<name>> \in Specs
    BY RefType DEF Specs, Names
  <2>2. /\ \A kind \in {"po", "op", "instance"} : kind \in PlainKinds
        /\ \A kind \in PlainKinds : \A ins \in Seq(Reference) :
             /\ Plain(kind, ins, <<>>) \in NodeType /\ Plain(kind, ins, <<>>).outputs = <<>>
             /\ Plain(kind, ins, <<>>).kind = kind
    BY <2>1, PlainType DEF PlainKinds
  <2>3. CASE \E name \in Name : CreateModuleOutput(name)
    <3>1. PICK name \in Name : CreateNode(Plain("po", <<Unconnected>>, <<>>), <<name>>)
      BY <2>3 DEF CreateModuleOutput
    <3>2. PICK x : x = Plain("po", <<Unconnected>>, <<>>)
      OBVIOUS
    <3>3. x \in NodeType /\ x.outputs = <<>> /\ x.kind = "po" /\ <<name>> \in Specs
      BY <2>1, <2>2, <3>2
    <3>4. ~CreateOperation /\ ~CreateInstance
      <4>1. nodes' = Append(nodes, x) /\ x.kind = "po"
        BY <3>1, <3>2, <3>3 DEF CreateNode
      <4>2. nodes'[Len(nodes) + 1] = x
        BY <3>3, <4>1, Facts, Appended
      <4>3. ASSUME NEW y, NEW kind \in {"op", "instance"}, y = Plain(kind, <<>>, <<>>),
                   nodes' = Append(nodes, y)
            PROVE  FALSE
        <5>1. y \in NodeType /\ y.kind = kind
          BY <2>1, <2>2, <4>3
        <5>2. nodes'[Len(nodes) + 1] = y
          BY <4>3, <5>1, Facts, Appended
        <5>3. QED BY <3>3, <4>2, <5>1, <5>2
      <4>4. QED BY <4>3 DEF CreateOperation, CreateInstance, CreateNode
    <3>5. QED BY <3>1, <3>2, <3>3, <3>4
  <2>4. ASSUME NEW kind \in {"op", "instance"}, CreateNode(Plain(kind, <<>>, <<>>), <<>>)
        PROVE  \E x, specs : /\ x \in NodeType /\ x.outputs = <<>> /\ specs \in Specs
                             /\ x.kind = kind
                             /\ CreateNode(x, specs)
    BY <2>1, <2>2, <2>4
  <2>5. CASE CreateOperation
    <3>1. PICK x, specs : /\ x \in NodeType /\ x.outputs = <<>> /\ specs \in Specs
                          /\ x.kind = "op" /\ CreateNode(x, specs)
      BY <2>4, <2>5 DEF CreateOperation
    <3>2. ~CreateInstance
      <4>1. SUFFICES ASSUME CreateInstance PROVE FALSE
        OBVIOUS
      <4>2. PICK y, more : /\ y \in NodeType /\ y.outputs = <<>> /\ more \in Specs
                           /\ y.kind = "instance" /\ CreateNode(y, more)
        BY <2>4, <4>1 DEF CreateInstance
      <4>3. nodes'[Len(nodes) + 1] = x /\ nodes'[Len(nodes) + 1] = y
        BY <3>1, <4>2, Facts, CreateNodeEffect
      <4>4. QED BY <3>1, <4>2, <4>3
    <3>3. QED BY <3>1, <3>2
  <2>6. CASE CreateInstance
    <3>1. PICK x, specs : /\ x \in NodeType /\ x.outputs = <<>> /\ specs \in Specs
                          /\ x.kind = "instance" /\ CreateNode(x, specs)
      BY <2>4, <2>6 DEF CreateInstance
    <3>2. ~CreateOperation
      <4>1. SUFFICES ASSUME CreateOperation PROVE FALSE
        OBVIOUS
      <4>2. PICK y, more : /\ y \in NodeType /\ y.outputs = <<>> /\ more \in Specs
                           /\ y.kind = "op" /\ CreateNode(y, more)
        BY <2>4, <4>1 DEF CreateOperation
      <4>3. nodes'[Len(nodes) + 1] = x /\ nodes'[Len(nodes) + 1] = y
        BY <3>1, <4>2, Facts, CreateNodeEffect
      <4>4. QED BY <3>1, <4>2, <4>3
    <3>3. QED BY <3>1, <3>2
  <2>7. QED BY <2>3, <2>5, <2>6
<1>2. /\ Kept /\ nodes' \in Seq(NodeType) /\ Len(nodes') = Len(nodes) + 1
      /\ \A m \in DOMAIN nodes : nodes'[m] = nodes[m]
      /\ \A m \in DOMAIN inputSpecs : inputSpecs'[m] = inputSpecs[m]
      /\ nodes'[Len(nodes) + 1] = x
  BY <1>1, Facts, CreateNodeEffect
<1>3. UNCHANGED <<signalMap, pendingFfs, ffMerge, phase>>
  BY DEF CreateModuleOutput, CreateOperation, CreateInstance
<1>4. PICK new : new = Len(nodes) + 1
  OBVIOUS
<1>5. \A m \in DOMAIN nodes' : m \in DOMAIN nodes \/ m = new
  BY <1>2, <1>4, Facts, Domains
<1>6. Calm
  BY <1>1, <1>2, <1>3, <1>4, <1>5, Facts DEF Calm
<1>7. QED BY <1>1, <1>2, <1>3, <1>6

LEMMA ConnectingCalm ==
  ASSUME IInv, NEW n, Builds(n), NEW ref \in Reference, NEW name \in Names,
         ConnectInput(n, ref, name)
  PROVE  /\ Calm /\ UNCHANGED <<pendingFfs, phase>> /\ Len(nodes') = Len(nodes)
         /\ \A m \in DOMAIN nodes : m # n => nodes'[m] = nodes[m] /\ inputSpecs'[m] = inputSpecs[m]
         /\ nodes'[n].inputs = Append(nodes[n].inputs, ref)
         /\ inputSpecs'[n] = Append(inputSpecs[n], name)
<1>1. n \in DOMAIN nodes /\ n \in DOMAIN inputSpecs /\ TigTypeOK /\ nodes[n].kind \in {"op", "instance"}
      /\ DOMAIN inputSpecs = DOMAIN nodes
  BY Facts, BuildsNode
<1>2. /\ Kept /\ Len(nodes') = Len(nodes) /\ nodes' \in Seq(NodeType)
      /\ \A m \in DOMAIN nodes :
           /\ nodes'[m].outputs = nodes[m].outputs
           /\ nodes'[m].inputs = IF m = n THEN Append(nodes[n].inputs, ref) ELSE nodes[m].inputs
      /\ \A m \in DOMAIN inputSpecs :
           inputSpecs'[m] = IF m = n THEN Append(inputSpecs[n], name) ELSE inputSpecs[m]
  BY <1>1, ConnectInputEffect
<1>3. UNCHANGED <<signalMap, pendingFfs, ffMerge, phase>>
  BY DEF ConnectInput
<1>4. \A m \in DOMAIN nodes : m # n => nodes'[m] = nodes[m]
  <2>1. PICK changed : nodes' = [nodes EXCEPT ![n] = changed]
    BY DEF ConnectInput
  <2>2. QED BY <2>1
<1>5. DOMAIN nodes' = DOMAIN nodes
  BY <1>2, Facts, Domains
<1>6. Calm
  BY <1>1, <1>2, <1>3, <1>4, <1>5 DEF Calm
<1>7. QED BY <1>1, <1>2, <1>3, <1>4, <1>6

LEMMA FinalizingCalm ==
  ASSUME IInv, NEW n, FinalizeNodeInput(n)
  PROVE  /\ Calm /\ UNCHANGED <<nodes, pendingFfs, phase>>
         /\ \A m \in DOMAIN nodes :
              inputSpecs'[m] = inputSpecs[m] \/ (m = n /\ inputSpecs'[m] = <<>>)
<1>1. /\ nodes[n].kind \in {"op", "instance"} /\ n \in DOMAIN nodes
      /\ UNCHANGED <<nodes, signalMap, pendingFfs, ffMerge, phase>>
      /\ inputSpecs' = inputSpecs \/ inputSpecs' = [inputSpecs EXCEPT ![n] = <<>>]
  BY DEF FinalizeNodeInput, Builds
<1>2. \A m \in DOMAIN nodes :
        inputSpecs'[m] = inputSpecs[m] \/ (m = n /\ inputSpecs'[m] = <<>>)
  BY <1>1, Facts
<1>3. Kept
  BY <1>1 DEF Kept
<1>4. QED BY <1>1, <1>2, <1>3 DEF Calm

(* Every input asked for by name is connected to what drives the name.     *)
LEMMA WiringCalm ==
  ASSUME IInv, WireConnections
  PROVE  /\ Calm /\ phase = "insert" /\ phase' = "wired" /\ pendingFfs = {} /\ ffMerge = NoMerge
         /\ UNCHANGED <<inputSpecs, pendingFfs>>
         /\ DOMAIN nodes' = DOMAIN nodes
         /\ \A m \in DOMAIN nodes :
              /\ Len(nodes'[m].inputs) = Len(nodes[m].inputs)
              /\ \A k \in DOMAIN nodes[m].inputs :
                   nodes'[m].inputs[k] =
                     IF k \in DOMAIN inputSpecs[m] /\ inputSpecs[m][k] # NoName
                     THEN signalMap[inputSpecs[m][k]] ELSE nodes[m].inputs[k]
<1>1. /\ phase = "insert" /\ phase' = "wired" /\ pendingFfs = {} /\ ffMerge = NoMerge
      /\ UNCHANGED <<inputSpecs, signalMap, pendingFfs, ffMerge>>
      /\ nodes' = [n \in DOMAIN nodes |->
                    [nodes[n] EXCEPT !.inputs =
                      [k \in 1..Len(nodes[n].inputs) |-> Resolve(n, k)]]]
  BY DEF WireConnections
<1>2. DOMAIN nodes' = DOMAIN nodes
  BY <1>1
<1>3. ASSUME NEW m \in DOMAIN nodes
      PROVE  /\ nodes'[m].outputs = nodes[m].outputs /\ nodes'[m].kind = nodes[m].kind
             /\ nodes'[m].clkEdge = nodes[m].clkEdge /\ nodes'[m].rstEdge = nodes[m].rstEdge
             /\ Len(nodes'[m].inputs) = Len(nodes[m].inputs)
             /\ DOMAIN nodes'[m].inputs = DOMAIN nodes[m].inputs
             /\ \A k \in DOMAIN nodes[m].inputs :
                  nodes'[m].inputs[k] =
                    IF k \in DOMAIN inputSpecs[m] /\ inputSpecs[m][k] # NoName
                    THEN signalMap[inputSpecs[m][k]] ELSE nodes[m].inputs[k]
  <2>1. PICK len, ins : len = Len(nodes[m].inputs) /\ ins = [k \in 1..len |-> Resolve(m, k)]
    OBVIOUS
  <2>2. nodes'[m] = [nodes[m] EXCEPT !.inputs = ins] /\ nodes[m] \in NodeType
    BY <1>1, <2>1, Facts, Domains
  <2>3. /\ nodes'[m].outputs = nodes[m].outputs /\ nodes'[m].kind = nodes[m].kind
        /\ nodes'[m].clkEdge = nodes[m].clkEdge /\ nodes'[m].rstEdge = nodes[m].rstEdge
        /\ nodes'[m].inputs = ins
    BY <2>2 DEF NodeType
  <2>4. /\ len \in Nat /\ DOMAIN nodes[m].inputs = 1..len /\ DOMAIN ins = 1..len /\ Len(ins) = len
        /\ \A k \in 1..len : ins[k] = Resolve(m, k)
    <3>1. len \in Nat /\ DOMAIN nodes[m].inputs = 1..len
      BY <2>1, Facts, Domains
    <3>2. QED BY <2>1, <3>1
  <2>5. QED BY <2>1, <2>3, <2>4 DEF Resolve
<1>4. Kept
  BY <1>2, <1>3 DEF Kept
<1>5. ASSUME NEW m \in DOMAIN nodes, nodes[m].kind \in {"merge", "ff_merge"}
      PROVE  nodes'[m].inputs = nodes[m].inputs
  <2>1. \A k \in DOMAIN nodes[m].inputs : inputSpecs[m][k] = NoName
    BY <1>5, Facts DEF Sound, Shaped
  <2>2. \A k \in DOMAIN nodes[m].inputs : nodes'[m].inputs[k] = nodes[m].inputs[k]
    BY <1>3, <2>1
  <2>3. PICK p, q : p = nodes[m].inputs /\ q = nodes'[m].inputs
    OBVIOUS
  <2>4. p \in Seq(Reference) /\ Len(p) = Len(q) /\ \A k \in DOMAIN p : q[k] = p[k]
    BY <1>3, <2>2, <2>3, Facts, Domains
  <2>5. q \in Seq(Reference)
    <3>1. q = [k \in 1..Len(nodes[m].inputs) |-> Resolve(m, k)]
      <4>1. nodes'[m] = [nodes[m] EXCEPT !.inputs =
                          [k \in 1..Len(nodes[m].inputs) |-> Resolve(m, k)]] /\ nodes[m] \in NodeType
        BY <1>1, Facts, Domains
      <4>2. QED BY <2>3, <4>1 DEF NodeType
    <3>2. q = [k \in 1..Len(p) |-> Resolve(m, k)] /\ Len(p) \in Nat /\ DOMAIN p = 1..Len(p)
      BY <2>3, <2>4, <3>1
    <3>3. \A k \in 1..Len(p) : Resolve(m, k) \in Reference
      BY <2>4, <3>2
    <3>4. QED BY <3>2, <3>3
  <2>6. p = q
    BY <2>4, <2>5
  <2>7. QED BY <2>3, <2>6
<1>6. ASSUME NEW m \in DOMAIN nodes, nodes[m].kind = "ff"
      PROVE  nodes'[m].inputs[1] = nodes[m].inputs[1]
  <2>1. inputSpecs[m][1] = NoName /\ 1 \in DOMAIN nodes[m].inputs
    <3>1. inputSpecs[m][1] = NoName /\ Len(nodes[m].inputs) \in {2, 3}
      BY <1>6, Facts DEF Sound, Shaped
    <3>2. DOMAIN nodes[m].inputs = 1..Len(nodes[m].inputs)
      BY Facts, Domains
    <3>3. QED BY SMTT(30), <3>1, <3>2
  <2>2. QED BY <1>3, <2>1
<1>7. Calm
  BY <1>1, <1>2, <1>3, <1>4, <1>5, <1>6 DEF Calm
<1>8. QED BY <1>1, <1>2, <1>3, <1>7

(* A driver joins the drivers of a name, or, for NoName, drives nothing.   *)
LEMMA DriverEffect ==
  ASSUME IInv, NEW n, NEW name \in Names, AddNodeOutput(n, name)
  PROVE  /\ Builds(n) /\ Kept /\ UNCHANGED <<pendingFfs, ffMerge, phase>>
         /\ nodes' \in Seq(NodeType) /\ Len(nodes') >= Len(nodes)
         /\ \A m \in DOMAIN nodes :
              /\ nodes'[m].kind = nodes[m].kind
              /\ Len(nodes'[m].outputs) = Len(nodes[m].outputs) + (IF m = n THEN 1 ELSE 0)
              /\ nodes[m].kind # "op" =>
                   \A k \in DOMAIN nodes[m].outputs : nodes'[m].outputs[k] = nodes[m].outputs[k]
         /\ \A m \in DOMAIN nodes' : m \notin DOMAIN nodes => nodes'[m].kind = "merge"
         /\ name # NoName => signalMap'[name] # Unconnected
         /\ \A x \in Name : x # name => signalMap'[x] = signalMap[x]
         /\ signalMap' = signalMap \/ name # NoName
<1>1. CASE AddFirstDriver(n, name)
  <2>1. /\ Builds(n) /\ UNCHANGED <<pendingFfs, ffMerge, phase>>
        /\ signalMap' = IF name = NoName THEN signalMap
                        ELSE [signalMap EXCEPT ![name] = NextOutput(n)]
    BY <1>1 DEF AddFirstDriver
  <2>2. /\ Kept /\ nodes' \in Seq(NodeType) /\ Len(nodes') = Len(nodes)
        /\ \A m \in DOMAIN nodes :
             /\ nodes'[m].kind = nodes[m].kind
             /\ nodes'[m].inputs = nodes[m].inputs
             /\ nodes'[m].outputs = IF m = n THEN Append(nodes[n].outputs, name) ELSE nodes[m].outputs
    BY <1>1, Facts, AddFirstDriverEffect
  <2>3. NextOutput(n) # Unconnected /\ signalMap \in [Name -> Reference] /\ n \in DOMAIN nodes
    BY <2>1, Facts, BuildsNode
  <2>4. ASSUME NEW m \in DOMAIN nodes
        PROVE  /\ Len(nodes'[m].outputs) = Len(nodes[m].outputs) + (IF m = n THEN 1 ELSE 0)
               /\ \A k \in DOMAIN nodes[m].outputs : nodes'[m].outputs[k] = nodes[m].outputs[k]
    <3>1. PICK q : q = nodes[m].outputs
      OBVIOUS
    <3>2. q \in Seq(Names)
      BY <3>1, Facts, Domains DEF Specs
    <3>3. /\ Len(Append(q, name)) = Len(q) + 1 /\ Len(q) \in Nat
          /\ \A k \in DOMAIN q : Append(q, name)[k] = q[k]
      BY <3>2
    <3>4. CASE m = n
      <4>1. nodes'[m].outputs = Append(q, name)
        BY <2>2, <3>1, <3>4
      <4>2. QED BY <3>1, <3>3, <3>4, <4>1
    <3>5. CASE m # n
      <4>1. nodes'[m].outputs = q
        BY <2>2, <3>1, <3>5
      <4>2. QED BY <3>1, <3>3, <3>5, <4>1
    <3>6. QED BY <3>4, <3>5
  <2>5. DOMAIN nodes' = DOMAIN nodes /\ Len(nodes) \in Nat
    BY <2>2, Facts, Domains
  <2>6. /\ name # NoName => signalMap'[name] # Unconnected
        /\ \A x \in Name : x # name => signalMap'[x] = signalMap[x]
        /\ signalMap' = signalMap \/ name # NoName
    BY <2>1, <2>3 DEF Names
  <2>7. /\ \A m \in DOMAIN nodes' : m \notin DOMAIN nodes => nodes'[m].kind = "merge"
        /\ Len(nodes') >= Len(nodes)
    BY <2>2, <2>5
  <2>8. QED BY <2>1, <2>2, <2>4, <2>6, <2>7
<1>2. CASE name # NoName /\ AddSecondDriver(n, name)
  <2>1. name \in Name
    BY <1>2 DEF Names
  <2>2. /\ Builds(n) /\ UNCHANGED <<pendingFfs, ffMerge, phase>>
        /\ signalMap' = [signalMap EXCEPT ![name] = Ref(Len(nodes) + 1, 1)]
    BY <1>2 DEF AddSecondDriver
  <2>3. /\ Kept /\ nodes' \in Seq(NodeType) /\ Len(nodes') = Len(nodes) + 1
        /\ \A m \in DOMAIN nodes :
              /\ nodes'[m].kind = nodes[m].kind
              /\ nodes'[m].inputs = nodes[m].inputs
              /\ Len(nodes'[m].outputs) = Len(nodes[m].outputs) + (IF m = n THEN 1 ELSE 0)
              /\ \A k \in DOMAIN nodes[m].outputs :
                   nodes'[m].outputs[k] =
                     IF nodes[m].kind = "op" /\ signalMap[name] = Ref(m, k) THEN NoName
                     ELSE nodes[m].outputs[k]
        /\ nodes'[Len(nodes) + 1].kind = "merge"
    BY ZenonT(60), <1>2, <2>1, Facts, AddSecondDriverEffect
  <2>4. \A m \in DOMAIN nodes' : m \notin DOMAIN nodes => nodes'[m].kind = "merge"
    BY <2>3, Facts, Domains
  <2>5. /\ signalMap'[name] # Unconnected
        /\ \A x \in Name : x # name => signalMap'[x] = signalMap[x]
    <3>1. Len(nodes) + 1 \in Nat /\ Len(nodes) + 1 # 0
      BY Facts, Domains
    <3>2. Ref(Len(nodes) + 1, 1) # Unconnected
      BY <3>1, RefType
    <3>3. QED BY <2>1, <2>2, <3>2, Facts
  <2>6. Len(nodes') >= Len(nodes)
    BY <2>3, Facts, Domains
  <2>7. QED BY <1>2, <2>2, <2>3, <2>4, <2>5, <2>6
<1>3. CASE name # NoName /\ AddLaterDriver(n, name)
  <2>1. name \in Name
    BY <1>3 DEF Names
  <2>2. /\ Builds(n) /\ UNCHANGED <<signalMap, pendingFfs, ffMerge, phase>>
        /\ signalMap[name] # Unconnected
    BY <1>3 DEF AddLaterDriver
  <2>3. /\ Kept /\ nodes' \in Seq(NodeType) /\ Len(nodes') = Len(nodes)
        /\ \A m \in DOMAIN nodes :
             /\ nodes'[m].kind = nodes[m].kind
             /\ nodes'[m].outputs = IF m = n THEN Append(nodes[m].outputs, NoName) ELSE nodes[m].outputs
    BY <1>3, <2>1, Facts, AddLaterDriverEffect
  <2>4. ASSUME NEW m \in DOMAIN nodes
        PROVE  /\ Len(nodes'[m].outputs) = Len(nodes[m].outputs) + (IF m = n THEN 1 ELSE 0)
               /\ \A k \in DOMAIN nodes[m].outputs : nodes'[m].outputs[k] = nodes[m].outputs[k]
    <3>1. PICK q : q = nodes[m].outputs
      OBVIOUS
    <3>2. q \in Seq(Names) /\ NoName \in Names
      BY <3>1, Facts, Domains, NameTypes DEF Specs
    <3>3. /\ Len(Append(q, NoName)) = Len(q) + 1 /\ Len(q) \in Nat
          /\ \A k \in DOMAIN q : Append(q, NoName)[k] = q[k]
      BY <3>2
    <3>4. CASE m = n
      <4>1. nodes'[m].outputs = Append(q, NoName)
        BY <2>3, <3>1, <3>4
      <4>2. QED BY <3>1, <3>3, <3>4, <4>1
    <3>5. CASE m # n
      <4>1. nodes'[m].outputs = q
        BY <2>3, <3>1, <3>5
      <4>2. QED BY <3>1, <3>3, <3>5, <4>1
    <3>6. QED BY <3>4, <3>5
  <2>5. DOMAIN nodes' = DOMAIN nodes /\ Len(nodes) \in Nat
    BY <2>3, Facts, Domains
  <2>6. /\ \A m \in DOMAIN nodes' : m \notin DOMAIN nodes => nodes'[m].kind = "merge"
        /\ Len(nodes') >= Len(nodes)
    BY <2>3, <2>5
  <2>7. QED BY <1>3, <2>2, <2>3, <2>4, <2>6
<1>4. QED BY <1>1, <1>2, <1>3 DEF AddNodeOutput

(* insert_ffs adds merges and registers; the name's driver may give it up. *)
Inserting(name) ==
  /\ phase = "insert" /\ phase' = "insert"
  /\ name \in Name /\ signalMap[name] # Unconnected
  /\ Kept
  /\ \A m \in DOMAIN nodes :
       /\ nodes'[m].inputs = nodes[m].inputs
       /\ nodes'[m].clkEdge = nodes[m].clkEdge /\ nodes'[m].rstEdge = nodes[m].rstEdge
       /\ inputSpecs'[m] = inputSpecs[m]
       /\ DOMAIN nodes'[m].outputs = DOMAIN nodes[m].outputs
       /\ nodes[m].kind \notin {"op", "merge"} => nodes'[m].outputs = nodes[m].outputs
       /\ \A k \in DOMAIN nodes[m].outputs :
            \/ nodes'[m].outputs[k] = nodes[m].outputs[k]
            \/ signalMap[name] = Ref(m, k) /\ nodes'[m].outputs[k] = NoName
  /\ \A m \in DOMAIN nodes' :
       m \notin DOMAIN nodes => nodes'[m].kind \in {"merge", "ff", "ff_merge"}

(* The nodes there were, but for a name given up.                          *)
GivenUp(base, name) ==
  /\ base \in Seq(NodeType) /\ Len(base) = Len(nodes) /\ DOMAIN base = DOMAIN nodes
  /\ \A m \in DOMAIN nodes :
       /\ base[m].kind = nodes[m].kind
       /\ base[m].inputs = nodes[m].inputs
       /\ base[m].clkEdge = nodes[m].clkEdge /\ base[m].rstEdge = nodes[m].rstEdge
       /\ DOMAIN base[m].outputs = DOMAIN nodes[m].outputs
       /\ nodes[m].kind \notin {"op", "merge"} => base[m].outputs = nodes[m].outputs
       /\ \A k \in DOMAIN nodes[m].outputs :
            \/ base[m].outputs[k] = nodes[m].outputs[k]
            \/ signalMap[name] = Ref(m, k) /\ base[m].outputs[k] = NoName

LEMMA NothingGivenUp ==
  ASSUME IInv, NEW name, NEW base, base = nodes
  PROVE  GivenUp(base, name)
BY Facts DEF GivenUp

LEMMA NameGivenUp ==
  ASSUME IInv, NEW name \in Name, Driver(signalMap[name], {"op", "merge"}),
         NEW base, base = Registered(name)
  PROVE  GivenUp(base, name) /\ base[signalMap[name].node].outputs[signalMap[name].port] = NoName
<1>1. PICK old, a, b : old = signalMap[name] /\ a = old.node /\ b = old.port
  OBVIOUS
<1>2. /\ a \in DOMAIN nodes /\ b \in DOMAIN nodes[a].outputs /\ old = Ref(a, b)
      /\ old # Unconnected /\ nodes[a].kind \in {"op", "merge"}
  BY <1>1, MappedOutput DEF Driver
<1>3. PICK x, outs : x = nodes[a] /\ outs = [x.outputs EXCEPT ![b] = NoName]
  OBVIOUS
<1>4. base = [nodes EXCEPT ![a] = [x EXCEPT !.outputs = outs]]
  BY <1>1, <1>3 DEF Registered
<1>5. /\ base \in Seq(NodeType) /\ Len(base) = Len(nodes)
      /\ \A m \in DOMAIN nodes :
           /\ base[m].kind = nodes[m].kind
           /\ base[m].inputs = nodes[m].inputs
           /\ Len(base[m].outputs) = Len(nodes[m].outputs)
           /\ \A k \in DOMAIN nodes[m].outputs :
                base[m].outputs[k] = IF old = Ref(m, k) THEN NoName ELSE nodes[m].outputs[k]
  <2>1. TigTypeOK /\ Held
    BY Facts
  <2>2. QED BY ZenonT(40), <1>1, <1>2, <2>1, RegisteredEffect
<1>6. DOMAIN base = DOMAIN nodes
  BY <1>4
<1>7. \A m \in DOMAIN nodes : m # a => base[m] = nodes[m]
  BY <1>4
<1>8. /\ base[a].kind = nodes[a].kind /\ base[a].inputs = nodes[a].inputs
      /\ base[a].clkEdge = nodes[a].clkEdge /\ base[a].rstEdge = nodes[a].rstEdge
      /\ DOMAIN base[a].outputs = DOMAIN nodes[a].outputs
  <2>1. x \in NodeType
    BY <1>2, <1>3, Facts
  <2>2. base[a] = [x EXCEPT !.outputs = outs]
    BY <1>2, <1>4
  <2>3. /\ base[a].kind = x.kind /\ base[a].inputs = x.inputs
        /\ base[a].clkEdge = x.clkEdge /\ base[a].rstEdge = x.rstEdge
        /\ base[a].outputs = outs
    BY <2>1, <2>2 DEF NodeType
  <2>4. DOMAIN outs = DOMAIN x.outputs
    BY <1>3
  <2>5. QED BY <1>3, <2>3, <2>4
<1>9. QED BY <1>1, <1>2, <1>5, <1>6, <1>7, <1>8 DEF GivenUp

LEMMA InsertedAfter ==
  ASSUME IInv, NEW name \in Name, NEW base, GivenUp(base, name),
         phase = "insert", phase' = "insert", signalMap[name] # Unconnected,
         nodes' \in Seq(NodeType), DOMAIN nodes \subseteq DOMAIN nodes',
         \A m \in DOMAIN nodes : nodes'[m] = base[m] /\ inputSpecs'[m] = inputSpecs[m],
         \A m \in DOMAIN nodes' :
           m \notin DOMAIN nodes => nodes'[m].kind \in {"merge", "ff", "ff_merge"}
  PROVE  Inserting(name)
BY DEF Inserting, GivenUp, Kept

LEMMA FfEdges ==
  ASSUME NEW data \in Reference, NEW d \in DomainType, NEW name \in Names
  PROVE  /\ Ff(data, d, name).clkEdge = d.clkEdge /\ Ff(data, d, name).rstEdge = d.rstEdge
         /\ Len(Ff(data, d, name).inputs) = IF d.rst = NoName THEN 2 ELSE 3
BY DEF Ff, Node, DomainType

(* A register for a name and a clock domain, behind data.                  *)
NewFf(new, data, domain, name) ==
  /\ new \in DOMAIN nodes' /\ new \notin DOMAIN nodes
  /\ nodes'[new].kind = "ff" /\ nodes'[new].outputs = <<name>>
  /\ nodes'[new].inputs[1] = data
  /\ nodes'[new].clkEdge = domain.clkEdge /\ nodes'[new].rstEdge = domain.rstEdge
  /\ inputSpecs'[new] = FfSpecs(domain)

LEMMA FfMade ==
  ASSUME NEW new \in DOMAIN nodes', new \notin DOMAIN nodes,
         NEW data \in Reference, NEW domain \in DomainType, NEW name \in Names,
         nodes'[new] = Ff(data, domain, name), inputSpecs'[new] = FfSpecs(domain)
  PROVE  NewFf(new, data, domain, name)
BY FfType, FfEdges DEF NewFf

LEMMA RegisterEffect ==
  ASSUME IInv, NEW name \in Name, InsertFf(name)
  PROVE  /\ Inserting(name) /\ ffMerge = NoMerge /\ ffMerge' = NoMerge
         /\ pendingFfs' = pendingFfs \ PendingOf(name)
         /\ \E domain \in DomainType : \E new \in DOMAIN nodes' :
              /\ Clusters(name) = {domain}
              /\ NewFf(new, signalMap[name], domain, name)
              /\ \A m \in DOMAIN nodes' : m \in DOMAIN nodes \/ m = new
              /\ signalMap'[name] = Ref(new, 1) /\ signalMap'[name] # Unconnected
         /\ \A x \in Name : x # name => signalMap'[x] = signalMap[x]
         /\ nodes'[signalMap[name].node].outputs[signalMap[name].port] = NoName
<1>1. PICK domain \in Clusters(name) :
        /\ Clusters(name) = {domain}
        /\ nodes' = Append(Registered(name), Ff(signalMap[name], domain, name))
        /\ inputSpecs' = Append(inputSpecs, FfSpecs(domain))
        /\ signalMap' = [signalMap EXCEPT ![name] = Ref(Len(nodes) + 1, 1)]
  BY DEF InsertFf
<1>2. /\ phase = "insert" /\ ffMerge = NoMerge /\ UNCHANGED <<ffMerge, phase>>
      /\ pendingFfs' = pendingFfs \ PendingOf(name)
  BY DEF InsertFf
<1>3. PICK old, base, new : old = signalMap[name] /\ base = Registered(name) /\ new = Len(nodes) + 1
  OBVIOUS
<1>4. domain \in DomainType /\ Driver(old, {"op", "merge"}) /\ old \in Reference /\ old # Unconnected
  BY <1>3, Facts, PendingName DEF Driver
<1>5. GivenUp(base, name) /\ base[old.node].outputs[old.port] = NoName
  BY <1>3, <1>4, NameGivenUp
<1>6. PICK x, specs : x = Ff(old, domain, name) /\ specs = FfSpecs(domain)
  OBVIOUS
<1>7. x \in NodeType /\ specs \in Specs /\ x.kind = "ff"
  BY <1>4, <1>6, NameTypes, FfType
<1>8. base \in Seq(NodeType) /\ Len(base) = Len(nodes) /\ DOMAIN base = DOMAIN nodes
      /\ Len(nodes) \in Nat /\ Len(inputSpecs) = Len(nodes) /\ DOMAIN inputSpecs = DOMAIN nodes
      /\ DOMAIN nodes = 1..Len(nodes)
  BY <1>5, Facts, Domains DEF GivenUp
<1>9. /\ nodes' \in Seq(NodeType) /\ DOMAIN nodes' = 1..new /\ nodes'[new] = x
      /\ \A m \in DOMAIN nodes : nodes'[m] = base[m]
  BY <1>1, <1>3, <1>6, <1>7, <1>8, Appended
<1>10. inputSpecs'[new] = specs /\ \A m \in DOMAIN nodes : inputSpecs'[m] = inputSpecs[m]
  BY <1>1, <1>3, <1>6, <1>7, <1>8, Facts, Appended
<1>11. /\ new \in DOMAIN nodes' /\ new \notin DOMAIN nodes /\ new \in Nat /\ new # 0
       /\ \A m \in DOMAIN nodes' : m \in DOMAIN nodes \/ m = new
       /\ DOMAIN nodes \subseteq DOMAIN nodes'
  BY <1>3, <1>8, <1>9
<1>12. Inserting(name)
  BY <1>2, <1>3, <1>4, <1>5, <1>7, <1>9, <1>10, <1>11, InsertedAfter
<1>13. NewFf(new, old, domain, name)
  BY <1>4, <1>6, <1>9, <1>10, <1>11, NameTypes, FfMade
<1>14. /\ signalMap'[name] = Ref(new, 1) /\ signalMap'[name] # Unconnected
       /\ \A x_1 \in Name : x_1 # name => signalMap'[x_1] = signalMap[x_1]
  BY <1>1, <1>3, <1>11, Facts, RefType
<1>15. nodes'[old.node].outputs[old.port] = NoName
  <2>1. old.node \in DOMAIN nodes
    BY <1>3, <1>4, MappedOutput
  <2>2. QED BY <1>5, <1>9, <2>1
<1>16. QED BY <1>1, <1>2, <1>3, <1>4, <1>11, <1>12, <1>13, <1>14, <1>15

LEMMA FfMergeEffect ==
  ASSUME IInv, Naming, InsertFfMerge
  PROVE  /\ Inserting(ffMerge.name) /\ ffMerge # NoMerge /\ ffMerge' = NoMerge
         /\ PendingOf(ffMerge.name) = {} /\ pendingFfs' = pendingFfs
         /\ \A m \in DOMAIN nodes : nodes'[m] = nodes[m]
         /\ \E new \in DOMAIN nodes' :
              /\ new \notin DOMAIN nodes
              /\ nodes'[new].kind = "ff_merge" /\ nodes'[new].outputs = <<ffMerge.name>>
              /\ nodes'[new].inputs = ffMerge.ffs
              /\ \A m \in DOMAIN nodes' : m \in DOMAIN nodes \/ m = new
              /\ signalMap'[ffMerge.name] = Ref(new, 1) /\ signalMap'[ffMerge.name] # Unconnected
         /\ \A x \in Name : x # ffMerge.name => signalMap'[x] = signalMap[x]
<1>1. PICK name, q, new : name = ffMerge.name /\ q = ffMerge.ffs /\ new = Len(nodes) + 1
  OBVIOUS
<1>2. /\ phase = "insert" /\ ffMerge # NoMerge /\ PendingOf(name) = {} /\ ffMerge' = NoMerge
      /\ CreateNode(Plain("ff_merge", q, <<name>>), Blank(q))
      /\ signalMap' = [signalMap EXCEPT ![name] = Ref(new, 1)]
      /\ UNCHANGED <<pendingFfs, phase>>
  BY <1>1 DEF InsertFfMerge
<1>3. name \in Name /\ signalMap[name] # Unconnected /\ q \in Seq(Reference)
  BY <1>1, <1>2, Facts DEF Naming, Splitting
<1>4. PICK x, specs : x = Plain("ff_merge", q, <<name>>) /\ specs = Blank(q)
  OBVIOUS
<1>5. x \in NodeType /\ x.kind = "ff_merge" /\ x.outputs = <<name>> /\ x.inputs = q
  <2>1. <<name>> \in Specs /\ "ff_merge" \in PlainKinds
    BY <1>3, NameTypes DEF Specs, PlainKinds
  <2>2. QED BY <1>3, <1>4, <2>1, PlainType
<1>6. specs \in Specs
  <2>1. specs = [k \in 1..Len(q) |-> NoName] /\ Len(q) \in Nat
    BY <1>3, <1>4 DEF Blank
  <2>2. QED BY <2>1, NameTypes DEF Specs
<1>7. /\ nodes' \in Seq(NodeType) /\ Len(nodes') = Len(nodes) + 1
      /\ \A m \in DOMAIN nodes : nodes'[m] = nodes[m]
      /\ \A m \in DOMAIN inputSpecs : inputSpecs'[m] = inputSpecs[m]
      /\ nodes'[Len(nodes) + 1] = x
  BY <1>2, <1>4, <1>5, <1>6, Facts, CreateNodeEffect
<1>8. /\ new \in DOMAIN nodes' /\ new \notin DOMAIN nodes /\ new \in Nat /\ new # 0
      /\ \A m \in DOMAIN nodes' : m \in DOMAIN nodes \/ m = new
      /\ DOMAIN nodes \subseteq DOMAIN nodes'
  BY <1>1, <1>7, Facts, Domains
<1>9. Inserting(name)
  <2>1. PICK base : base = nodes
    OBVIOUS
  <2>2. GivenUp(base, name)
    BY <2>1, NothingGivenUp
  <2>3. QED BY <1>1, <1>2, <1>3, <1>5, <1>7, <1>8, <2>1, <2>2, Facts, InsertedAfter
<1>10. /\ signalMap'[name] = Ref(new, 1) /\ signalMap'[name] # Unconnected
       /\ \A y \in Name : y # name => signalMap'[y] = signalMap[y]
  BY <1>2, <1>3, <1>8, Facts, RefType
<1>11. QED BY <1>1, <1>2, <1>5, <1>7, <1>8, <1>9, <1>10

LEMMA OrderOfAll ==
  ASSUME NEW S, NEW refs \in Orders(S)
  PROVE  Range(refs) = S
BY DEF Orders, Range

(* A register for one clock domain of a name, behind its only driver or a  *)
(* new merge of its drivers.                                               *)
ClusterMade(name, domain, new, data) ==
  /\ NewFf(new, data, domain, NoName)
  /\ ffMerge'.ffs = Append(ffMerge.ffs, Ref(new, 1))
  /\ \A m \in DOMAIN nodes' :
       \/ m \in DOMAIN nodes \/ m = new
       \/ nodes'[m].kind = "merge" /\ nodes'[m].outputs = <<NoName>>
  /\ LET drivers == {f.ref : f \in Cluster(name, domain)}
     IN  \/ drivers = {data}
         \/ /\ data.node \in DOMAIN nodes' /\ data.node \notin DOMAIN nodes /\ data.port = 1
            /\ nodes'[data.node].kind = "merge" /\ nodes'[data.node].outputs = <<NoName>>
            /\ Range(nodes'[data.node].inputs) = drivers

LEMMA ClusterEffect ==
  ASSUME IInv, Naming, NEW name \in Name, NEW domain, InsertClusterFf(name, domain)
  PROVE  /\ Inserting(name) /\ domain \in Clusters(name) /\ domain \in DomainType
         /\ signalMap' = signalMap /\ pendingFfs' = pendingFfs \ Cluster(name, domain)
         /\ ffMerge = NoMerge \/ ffMerge.name = name
         /\ ffMerge'.name = name
         /\ \E new \in DOMAIN nodes' : \E data \in Reference : ClusterMade(name, domain, new, data)
<1>1. /\ phase = "insert" /\ domain \in Clusters(name)
      /\ pendingFfs' = pendingFfs \ Cluster(name, domain) /\ UNCHANGED <<signalMap, phase>>
      /\ ffMerge = NoMerge \/ ffMerge.name = name
  BY DEF InsertClusterFf
<1>2. PICK drivers : drivers = {f.ref : f \in Cluster(name, domain)}
  OBVIOUS
<1>3. PICK refs \in Orders(drivers), base \in {nodes, Registered(name)} :
        /\ nodes' = ClusterNodes(base, refs, domain)
        /\ inputSpecs' = ClusterSpecs(refs, domain)
        /\ ffMerge' = [name |-> name, ffs |-> Append(ffMerge.ffs, Ref(Len(nodes'), 1))]
  BY <1>2 DEF InsertClusterFf
<1>4. domain \in DomainType /\ Driver(signalMap[name], {"op", "merge"}) /\ signalMap[name] # Unconnected
  BY <1>1, PendingName DEF Driver
<1>5. GivenUp(base, name)
  <2>1. CASE base = nodes
    BY <2>1, NothingGivenUp
  <2>2. CASE base = Registered(name)
    BY <1>4, <2>2, NameGivenUp
  <2>3. QED BY <2>1, <2>2
<1>6. refs \in Seq(Reference) /\ Blank(refs) \in Specs /\ Range(refs) = drivers
  BY <1>2, ClusterDrivers, OrderOfAll
<1>7. PICK len, outs : len = Len(nodes) /\ outs = <<NoName>>
  OBVIOUS
<1>8. /\ base \in Seq(NodeType) /\ Len(base) = len /\ DOMAIN base = DOMAIN nodes
      /\ len \in Nat /\ Len(inputSpecs) = len /\ DOMAIN inputSpecs = DOMAIN nodes
      /\ DOMAIN nodes = 1..len /\ inputSpecs \in Seq(Specs)
  BY <1>5, <1>7, Facts, Domains DEF GivenUp
<1>9. outs \in Specs /\ NoName \in Names
  BY <1>7, NameTypes DEF Specs
<1>10. PICK specs : specs = FfSpecs(domain)
  OBVIOUS
<1>11. ASSUME NEW data \in Reference, NEW y, y = Ff(data, domain, NoName)
       PROVE  y \in NodeType /\ y.kind = "ff" /\ specs \in Specs
  BY <1>4, <1>9, <1>10, <1>11, FfType
<1>12. CASE Len(refs) = 1
  <2>1. PICK data, y, new : data = refs[1] /\ y = Ff(data, domain, NoName) /\ new = len + 1
    OBVIOUS
  <2>2. data \in Reference /\ drivers = {data}
    <3>1. DOMAIN refs = {1}
      BY <1>6, <1>12
    <3>2. QED BY <1>6, <2>1, <3>1 DEF Range
  <2>3. y \in NodeType /\ y.kind = "ff" /\ specs \in Specs
    BY <1>11, <2>1, <2>2
  <2>4. nodes' = Append(base, y) /\ inputSpecs' = Append(inputSpecs, specs)
    BY <1>3, <1>10, <1>12, <2>1 DEF ClusterNodes, ClusterSpecs
  <2>5. /\ nodes' \in Seq(NodeType) /\ DOMAIN nodes' = 1..(len + 1) /\ Len(nodes') = len + 1
        /\ \A m \in DOMAIN nodes : nodes'[m] = base[m]
        /\ nodes'[len + 1] = y
    BY <1>8, <2>3, <2>4, Appended
  <2>6. /\ \A m \in DOMAIN nodes : inputSpecs'[m] = inputSpecs[m]
        /\ inputSpecs'[len + 1] = specs
    BY <1>8, <2>3, <2>4, Appended
  <2>7. /\ new \in DOMAIN nodes' /\ new \notin DOMAIN nodes
        /\ DOMAIN nodes \subseteq DOMAIN nodes'
        /\ \A m \in DOMAIN nodes' : m \in DOMAIN nodes \/ m = new
        /\ Len(nodes') = new
    BY <1>8, <2>1, <2>5
  <2>8. Inserting(name)
    BY <1>1, <1>4, <1>5, <2>1, <2>3, <2>5, <2>6, <2>7, InsertedAfter
  <2>9. NewFf(new, data, domain, NoName)
    BY <1>4, <1>9, <1>10, <2>1, <2>2, <2>5, <2>6, <2>7, FfMade
  <2>10. ClusterMade(name, domain, new, data)
    BY <1>2, <1>3, <2>2, <2>7, <2>9 DEF ClusterMade
  <2>11. QED BY <1>1, <1>3, <1>4, <2>2, <2>7, <2>8, <2>10
<1>13. CASE Len(refs) # 1
  <2>1. PICK data, x, y, mid, new :
          /\ data = Ref(Len(base) + 1, 1) /\ x = Plain("merge", refs, outs)
          /\ y = Ff(data, domain, NoName) /\ mid = len + 1 /\ new = mid + 1
    OBVIOUS
  <2>2. /\ data \in Reference /\ data.node = mid /\ data.port = 1
        /\ x \in NodeType /\ x.outputs = outs /\ x.kind = "merge" /\ x.inputs = refs
    <3>1. "merge" \in PlainKinds /\ Len(base) + 1 \in Nat
      BY <1>8 DEF PlainKinds
    <3>2. QED BY <1>6, <1>8, <1>9, <2>1, <3>1, RefType, PlainType
  <2>3. y \in NodeType /\ y.kind = "ff" /\ specs \in Specs
    BY <1>11, <2>1, <2>2
  <2>4. PICK first, blank : first = Append(base, x) /\ blank = Append(inputSpecs, Blank(refs))
    OBVIOUS
  <2>5. nodes' = Append(first, y) /\ inputSpecs' = Append(blank, specs)
    BY <1>3, <1>7, <1>10, <1>13, <2>1, <2>4 DEF ClusterNodes, ClusterSpecs
  <2>6. /\ first \in Seq(NodeType) /\ Len(first) = mid /\ DOMAIN first = 1..mid
        /\ \A m \in DOMAIN nodes : first[m] = base[m]
        /\ first[mid] = x
    BY <1>8, <2>1, <2>2, <2>4, Appended
  <2>7. /\ blank \in Seq(Specs) /\ Len(blank) = mid /\ DOMAIN blank = 1..mid
        /\ \A m \in DOMAIN nodes : blank[m] = inputSpecs[m]
    BY <1>6, <1>8, <2>1, <2>4, Appended
  <2>8. mid \in Nat /\ new = mid + 1 /\ mid \in DOMAIN first
        /\ DOMAIN nodes \subseteq DOMAIN first /\ DOMAIN nodes \subseteq DOMAIN blank
    BY <1>8, <2>1, <2>6, <2>7
  <2>9. /\ nodes' \in Seq(NodeType) /\ DOMAIN nodes' = 1..new /\ Len(nodes') = new
        /\ \A m \in DOMAIN first : nodes'[m] = first[m]
        /\ nodes'[new] = y
    BY <2>3, <2>5, <2>6, <2>8, Appended
  <2>10. /\ \A m \in DOMAIN blank : inputSpecs'[m] = blank[m]
         /\ inputSpecs'[new] = specs
    BY <2>3, <2>5, <2>7, <2>8, Appended
  <2>11. /\ new \in DOMAIN nodes' /\ new \notin DOMAIN nodes
         /\ mid \in DOMAIN nodes' /\ mid \notin DOMAIN nodes
         /\ DOMAIN nodes \subseteq DOMAIN nodes'
         /\ \A m \in DOMAIN nodes' : m \in DOMAIN nodes \/ m = mid \/ m = new
    BY <1>8, <2>1, <2>8, <2>9
  <2>12. /\ \A m \in DOMAIN nodes : nodes'[m] = base[m] /\ inputSpecs'[m] = inputSpecs[m]
         /\ nodes'[mid] = x
    BY <2>6, <2>7, <2>8, <2>9, <2>10
  <2>13. Inserting(name)
    BY <1>1, <1>4, <1>5, <2>2, <2>3, <2>9, <2>11, <2>12, InsertedAfter
  <2>14. NewFf(new, data, domain, NoName)
    BY <1>4, <1>9, <1>10, <2>1, <2>2, <2>9, <2>10, <2>11, FfMade
  <2>15. ClusterMade(name, domain, new, data)
    BY <1>2, <1>3, <1>6, <1>7, <2>2, <2>9, <2>11, <2>12, <2>14 DEF ClusterMade
  <2>16. QED BY <1>1, <1>3, <1>4, <2>2, <2>11, <2>13, <2>15
<1>14. QED BY <1>12, <1>13

LEMMA InsertingKeeps ==
  ASSUME NEW name, Inserting(name)
  PROVE  InputsKept /\ Kept
BY DEF Inserting, InputsKept, Kept

LEMMA CalmKeeps ==
  ASSUME Calm
  PROVE  InputsKept /\ Kept
BY DEF Calm, InputsKept, Kept

-----------------------------------------------------------------------------
(* Sourced holds.                                                          *)

LEMMA SourcedStart == Init => Sourced
<1>1. SUFFICES ASSUME Init PROVE Sourced
  OBVIOUS
<1>2. /\ nodes = <<>> /\ intended = {} /\ pendingFfs = {} /\ ffMerge = NoMerge
      /\ \A name \in Name : signalMap[name] = Unconnected
  BY <1>1 DEF Init, TigInit
<1>3. DOMAIN nodes = {}
  BY <1>2
<1>4. \A name : ~Driven(name) /\ ~IsInput(name)
  BY <1>2, <1>3 DEF Driven, IsInput
<1>5. InputsNamed
  BY <1>3 DEF InputsNamed
<1>6. QED BY <1>2, <1>4, <1>5 DEF Sourced

LEMMA InputEffect ==
  ASSUME IInv, NEW name \in Name, CreateModuleInput(name)
  PROVE  /\ Kept /\ UNCHANGED <<pendingFfs, ffMerge, phase>> /\ phase = "visit"
         /\ signalMap[name] = Unconnected
         /\ \A m \in DOMAIN nodes : nodes'[m] = nodes[m] /\ inputSpecs'[m] = inputSpecs[m]
         /\ \E new \in DOMAIN nodes' :
              /\ new \notin DOMAIN nodes
              /\ \A m \in DOMAIN nodes' : m \in DOMAIN nodes \/ m = new
              /\ nodes'[new].kind = "pi" /\ nodes'[new].outputs = <<name>>
              /\ inputSpecs'[new] = <<>>
              /\ signalMap'[name].node = new /\ signalMap'[name] # Unconnected
         /\ \A x \in Name : x # name => signalMap'[x] = signalMap[x]
<1>1. PICK x, specs, new : x = Plain("pi", <<>>, <<name>>) /\ specs = <<>> /\ new = Len(nodes) + 1
  OBVIOUS
<1>2. x \in NodeType /\ x.kind = "pi" /\ x.outputs = <<name>> /\ specs \in Specs
  <2>1. PICK ins, outs : ins = <<>> /\ outs = <<name>>
    OBVIOUS
  <2>2. outs \in Specs /\ ins \in Seq(Reference) /\ <<>> \in Specs /\ "pi" \in PlainKinds
    BY <2>1 DEF Specs, Names, PlainKinds
  <2>3. /\ Plain("pi", ins, outs) \in NodeType /\ Plain("pi", ins, outs).outputs = outs
        /\ Plain("pi", ins, outs).kind = "pi"
    BY <2>2, PlainType
  <2>4. QED BY <1>1, <2>1, <2>2, <2>3
<1>3. /\ phase = "visit" /\ signalMap[name] = Unconnected /\ CreateNode(x, specs)
      /\ signalMap' = [signalMap EXCEPT ![name] = Ref(new, 1)]
      /\ UNCHANGED <<pendingFfs, ffMerge, phase>>
  BY <1>1 DEF CreateModuleInput
<1>4. /\ nodes' \in Seq(NodeType) /\ Len(nodes') = Len(nodes) + 1
      /\ Len(inputSpecs') = Len(inputSpecs) + 1
      /\ \A m \in DOMAIN nodes : nodes'[m] = nodes[m]
      /\ \A m \in DOMAIN inputSpecs : inputSpecs'[m] = inputSpecs[m]
      /\ nodes'[Len(nodes) + 1] = x
      /\ inputSpecs'[Len(inputSpecs) + 1] = specs
      /\ Kept
  BY <1>2, <1>3, Facts, CreateNodeEffect
<1>5. /\ new \in DOMAIN nodes' /\ new \notin DOMAIN nodes /\ new \in Nat /\ new # 0
      /\ \A m \in DOMAIN nodes' : m \in DOMAIN nodes \/ m = new
  BY <1>1, <1>4, Facts, Domains
<1>6. Ref(new, 1).node = new /\ Ref(new, 1) # Unconnected
  BY <1>5, RefType
<1>7. signalMap'[name] = Ref(new, 1) /\ \A y \in Name : y # name => signalMap'[y] = signalMap[y]
  BY <1>3, Facts
<1>8. QED BY <1>1, <1>2, <1>3, <1>4, <1>5, <1>6, <1>7, Facts

LEMMA SourcedInput ==
  ASSUME IInv, Sourced, NEW name \in Name, name \in InputPorts, CreateModuleInput(name),
         intended' = intended
  PROVE  Sourced'
<1>1. PICK new \in DOMAIN nodes' :
        /\ new \notin DOMAIN nodes
        /\ \A m \in DOMAIN nodes' : m \in DOMAIN nodes \/ m = new
        /\ nodes'[new].kind = "pi" /\ nodes'[new].outputs = <<name>>
        /\ inputSpecs'[new] = <<>>
        /\ signalMap'[name].node = new /\ signalMap'[name] # Unconnected
  BY InputEffect
<1>2. /\ Kept /\ UNCHANGED <<pendingFfs, ffMerge>>
      /\ \A m \in DOMAIN nodes : nodes'[m] = nodes[m]
      /\ \A x \in Name : x # name => signalMap'[x] = signalMap[x]
  BY InputEffect
<1>3. DOMAIN nodes \subseteq DOMAIN nodes'
  BY <1>2 DEF Kept
<1>4. \A x : Driven(x)' <=> Driven(x)
  BY DEF Driven
<1>5. ASSUME NEW x, x # name
      PROVE  IsInput(x)' <=> IsInput(x)
  <2>1. <<name>> # <<x>>
    BY <1>5
  <2>2. QED BY <1>1, <1>2, <1>3, <2>1 DEF IsInput
<1>6. IsInput(name)'
  BY <1>1 DEF IsInput
<1>7. InputsNamed'
  BY <1>1, <1>2 DEF InputsNamed, Sourced
<1>8. ASSUME NEW x \in Name
      PROVE  (/\ signalMap[x] # Unconnected <=> Driven(x) \/ IsInput(x)
              /\ signalMap[x] # Unconnected /\ ~Driven(x) => nodes[signalMap[x].node].kind = "pi")'
  <2>1. CASE x = name
    BY <1>1, <1>6, <2>1
  <2>2. CASE x # name
    <3>1. PICK ref : ref = signalMap[x]
      OBVIOUS
    <3>2. /\ ref # Unconnected <=> Driven(x) \/ IsInput(x)
          /\ ref # Unconnected /\ ~Driven(x) => nodes[ref.node].kind = "pi"
      BY <3>1 DEF Sourced
    <3>3. ref # Unconnected => nodes'[ref.node] = nodes[ref.node]
      BY <1>2, <3>1, MappedOutput
    <3>4. signalMap'[x] = ref
      BY <1>2, <2>2, <3>1
    <3>5. QED BY <1>4, <1>5, <2>2, <3>2, <3>3, <3>4
  <2>3. QED BY <2>1, <2>2
<1>9. (\A f \in pendingFfs : Driven(f.name))'
  BY <1>2, <1>4 DEF Sourced, Driven
<1>10. (ffMerge # NoMerge => Driven(ffMerge.name))'
  <2>1. PICK x : x = ffMerge.name
    OBVIOUS
  <2>2. ffMerge # NoMerge => Driven(x)
    BY <2>1 DEF Sourced
  <2>3. QED BY <1>2, <2>1, <2>2 DEF Driven
<1>11. QED BY <1>7, <1>8, <1>9, <1>10 DEF Sourced

LEMMA SourcedDriver ==
  ASSUME IInv, IInv', Sourced, NEW n, NEW name \in Names, AddNodeOutput(n, name),
         NEW ref, NEW domain, Intend(name, ref, domain)
  PROVE  Sourced'
<1>1. /\ Builds(n) /\ Kept /\ UNCHANGED <<pendingFfs, ffMerge, phase>>
      /\ nodes' \in Seq(NodeType) /\ Len(nodes') >= Len(nodes)
      /\ \A m \in DOMAIN nodes :
           /\ nodes'[m].kind = nodes[m].kind
           /\ Len(nodes'[m].outputs) = Len(nodes[m].outputs) + (IF m = n THEN 1 ELSE 0)
           /\ nodes[m].kind # "op" =>
                \A k \in DOMAIN nodes[m].outputs : nodes'[m].outputs[k] = nodes[m].outputs[k]
      /\ \A m \in DOMAIN nodes' : m \notin DOMAIN nodes => nodes'[m].kind = "merge"
      /\ name # NoName => signalMap'[name] # Unconnected
      /\ \A x \in Name : x # name => signalMap'[x] = signalMap[x]
      /\ signalMap' = signalMap \/ name # NoName
  BY DriverEffect
<1>2. n \in DOMAIN nodes /\ nodes[n].kind \in {"op", "instance"}
  BY <1>1 DEF Builds
<1>3. ASSUME NEW m \in DOMAIN nodes, nodes[m].kind = "pi"
      PROVE  nodes'[m].outputs = nodes[m].outputs
  <2>1. PICK p, q : p = nodes[m].outputs /\ q = nodes'[m].outputs
    OBVIOUS
  <2>2. m # n /\ m \in DOMAIN nodes'
    BY <1>1, <1>2, <1>3 DEF Kept
  <2>3. p \in Seq(Names) /\ q \in Seq(Names)
    <3>1. nodes[m] \in NodeType /\ nodes'[m] \in NodeType
      BY <1>1, <2>2, Facts
    <3>2. QED BY <2>1, <3>1, NodeFields
  <2>4. Len(p) = Len(q) /\ \A k \in DOMAIN p : p[k] = q[k]
    <3>1. Len(q) = Len(p) + 0
      BY <1>1, <2>1, <2>2
    <3>2. Len(p) \in Nat
      BY <2>3
    <3>3. \A k \in DOMAIN p : q[k] = p[k]
      BY <1>1, <1>3, <2>1
    <3>4. QED BY <3>1, <3>2, <3>3
  <2>5. p = q
    BY <2>3, <2>4
  <2>6. QED BY <2>1, <2>5
<1>4. InputsKept
  BY <1>1, <1>3 DEF InputsKept
<1>5. /\ \A d \in intended' : d \in intended \/ (d.name = name /\ name # NoName)
      /\ \A d \in intended : d \in intended'
  BY DEF Intend
<1>6. name # NoName => Driven(name)'
  <2>1. PICK d : d = [name |-> name, ref |-> ref, domain |-> domain]
    OBVIOUS
  <2>2. d.name = name
    BY <2>1
  <2>3. name # NoName => d \in intended'
    BY <2>1 DEF Intend
  <2>4. QED BY <2>2, <2>3 DEF Driven
<1>7. ASSUME NEW x \in Name
      PROVE  \/ signalMap'[x] = signalMap[x] /\ (Driven(x)' <=> Driven(x))
             \/ signalMap'[x] # Unconnected /\ Driven(x)'
  <2>1. CASE x = name
    BY <1>1, <1>6, <2>1, NoNameIsNoName
  <2>2. CASE x # name
    BY <1>1, <1>5, <2>2 DEF Driven
  <2>3. QED BY <2>1, <2>2
<1>8. \A d \in intended' : d \in intended \/ d.name \in Name
  BY <1>5 DEF Names
<1>9. QED BY <1>1, <1>4, <1>5, <1>7, <1>8, SourcedStep

LEMMA SourcedCalm ==
  ASSUME IInv, IInv', Sourced, Calm, pendingFfs' = pendingFfs, intended' = intended
  PROVE  Sourced'
<1>1. signalMap' = signalMap /\ ffMerge' = ffMerge
  BY DEF Calm
<1>2. \A x : Driven(x)' <=> Driven(x)
  BY DEF Driven
<1>3. QED BY <1>1, <1>2, CalmKeeps, SourcedStep

LEMMA SourcedInsert ==
  ASSUME IInv, IInv', Naming, Sourced, intended' = intended,
         \/ \E name \in Name : InsertFf(name)
         \/ \E name \in Name : \E domain \in Clusters(name) : InsertClusterFf(name, domain)
         \/ InsertFfMerge
  PROVE  Sourced'
<1>1. \A x : Driven(x)' <=> Driven(x)
  BY DEF Driven
<1>2. \A name : \A domain \in Clusters(name) : Driven(name)
  BY DEF Clusters, PendingOf, Sourced
<1>3. ASSUME NEW name \in Name, InsertFf(name)
      PROVE  Sourced'
  <2>1. /\ Inserting(name) /\ ffMerge' = NoMerge /\ pendingFfs' = pendingFfs \ PendingOf(name)
        /\ signalMap'[name] # Unconnected /\ Driven(name)
        /\ \A x \in Name : x # name => signalMap'[x] = signalMap[x]
    BY <1>2, <1>3, RegisterEffect
  <2>2. QED BY <1>1, <2>1, InsertingKeeps, SourcedStep
<1>4. ASSUME NEW name \in Name, NEW domain \in Clusters(name), InsertClusterFf(name, domain)
      PROVE  Sourced'
  <2>1. /\ Inserting(name) /\ signalMap' = signalMap
        /\ pendingFfs' = pendingFfs \ Cluster(name, domain)
        /\ ffMerge'.name = name /\ Driven(name)
    BY <1>2, <1>4, ClusterEffect
  <2>2. Driven(ffMerge.name)'
    BY <2>1 DEF Driven
  <2>3. QED BY <1>1, <2>1, <2>2, InsertingKeeps, SourcedStep
<1>5. ASSUME InsertFfMerge
      PROVE  Sourced'
  <2>1. PICK name : name = ffMerge.name
    OBVIOUS
  <2>2. /\ Inserting(name) /\ ffMerge # NoMerge /\ ffMerge' = NoMerge
        /\ pendingFfs' = pendingFfs /\ signalMap'[name] # Unconnected
        /\ \A x \in Name : x # name => signalMap'[x] = signalMap[x]
    BY <1>5, <2>1, FfMergeEffect
  <2>3. Driven(name)
    BY <2>1, <2>2 DEF Sourced
  <2>4. QED BY <1>1, <2>2, <2>3, InsertingKeeps, SourcedStep
<1>6. QED BY <1>3, <1>4, <1>5

(* Every step is of one of these kinds.                                    *)
CalmStep == Calm /\ UNCHANGED <<pendingFfs, intended>>

ModuleInputStep ==
  \E name \in Name \cap InputPorts : CreateModuleInput(name) /\ UNCHANGED lowerVars

InsertStep ==
  \/ \E name \in Name : InsertFf(name)
  \/ \E name \in Name : \E domain \in Clusters(name) : InsertClusterFf(name, domain)
  \/ InsertFfMerge

LEMMA CalmCalls ==
  ASSUME IInv, Handlers, MakeCall
  PROVE  CalmStep \/ CallOutput \/ CallFf
<1>1. CASE CallOperation \/ CallInstance
  BY <1>1, CreatingCalm DEF CallOperation, CallInstance, CalmStep
<1>2. CASE CallTemporary
  <2>1. UNCHANGED <<nodes, inputSpecs, signalMap, ffMerge, pendingFfs, intended>>
    BY <1>2 DEF CallTemporary, tigVars
  <2>2. QED BY <2>1, StillCalm DEF CalmStep
<1>3. CASE CallInput
  <2>1. intended' = intended
    BY <1>3 DEF CallInput
  <2>2. CASE \E n : FinalizeNodeInput(n)
    BY <2>1, <2>2, FinalizingCalm DEF CalmStep
  <2>3. CASE \E n : \E ref \in Reference : AddNodeInput(n, ref)
    <3>0. PICK n : \E ref \in Reference : AddNodeInput(n, ref)
      BY <2>3
    <3>1. PICK ref \in Reference : AddNodeInput(n, ref)
      BY <3>0
    <3>2. Builds(n) /\ ConnectInput(n, ref, NoName) /\ NoName \in Names
      BY <3>1, NameTypes DEF AddNodeInput
    <3>3. QED BY <2>1, <3>1, <3>2, ConnectingCalm DEF CalmStep
  <2>4. CASE \E n : \E name \in Names : AddNodeInputSpec(n, name)
    <3>0. PICK n : \E name \in Names : AddNodeInputSpec(n, name)
      BY <2>4
    <3>1. PICK name \in Names : AddNodeInputSpec(n, name)
      BY <3>0
    <3>2. Builds(n) /\ ConnectInput(n, Unconnected, name) /\ Unconnected \in Reference
      BY <3>1, RefType DEF AddNodeInputSpec
    <3>3. QED BY <2>1, <3>1, <3>2, ConnectingCalm DEF CalmStep
  <2>5. /\ Next1("spec") \/ Next1("instance_spec") => Arg \in Names
        /\ operation \in Nat /\ instance \in Nat
    BY CallTypes, CallFields, NameTypes DEF Arg, Next1, Handlers, LowerTypeOK
  <2>6. /\ Unconnected \in Reference
        /\ Ref(operation, 1) \in Reference /\ Ref(instance, 1) \in Reference
    BY <2>5, RefType
  <2>7. ASSUME AddNodeInput(operation, Ref(instance, Len(nodes[instance].outputs)))
        PROVE  Ref(instance, Len(nodes[instance].outputs)) \in Reference
    <3>1. PICK ref : ref = Ref(instance, Len(nodes[instance].outputs))
      OBVIOUS
    <3>2. Existing(ref)
      BY <2>7, <3>1 DEF AddNodeInput
    <3>3. CASE ref = Unconnected
      BY <2>6, <3>1, <3>3
    <3>4. CASE instance \in DOMAIN nodes
      <4>1. instance \in Nat /\ Len(nodes[instance].outputs) \in Nat
        BY <3>4, Facts, Domains DEF Specs
      <4>2. QED BY <4>1, RefType
    <3>5. ref.node = instance
      BY <3>1 DEF Ref
    <3>6. QED BY <3>2, <3>3, <3>4, <3>5 DEF Existing
  <2>8. QED BY <1>3, <2>2, <2>3, <2>4, <2>5, <2>6, <2>7 DEF CallInput
<1>4. QED BY <1>1, <1>2, <1>3 DEF MakeCall

LEMMA KindsOfSteps ==
  ASSUME IInv, Handlers, [Next]_vars
  PROVE  \/ CalmStep
         \/ ModuleInputStep
         \/ MakeCall /\ (CallOutput \/ CallFf)
         \/ InsertStep /\ UNCHANGED lowerVars
<1>1. ASSUME UNCHANGED <<tigVars, intended>>
      PROVE  CalmStep
  <2>1. UNCHANGED <<nodes, inputSpecs, signalMap, ffMerge, pendingFfs, intended>>
    BY <1>1 DEF tigVars
  <2>2. QED BY <2>1, StillCalm DEF CalmStep
<1>2. CASE \E name \in InputPorts \cup OutputPorts : VisitPort(name)
  <2>1. PICK name \in InputPorts \cup OutputPorts : VisitPort(name)
    BY <1>2
  <2>2. name \in Name
    BY MembersAreOverNames
  <2>3. CASE name \in InputPorts /\ CreateModuleInput(name)
    BY <2>1, <2>2, <2>3 DEF VisitPort, ModuleInputStep
  <2>4. CASE CreateModuleOutput(name)
    BY <2>1, <2>2, <2>4, CreatingCalm DEF VisitPort, CalmStep, lowerVars
  <2>5. QED BY <2>1, <2>3, <2>4 DEF VisitPort
<1>3. CASE \E p \in Processes : VisitProcess(p)
  BY <1>1, <1>3 DEF VisitProcess
<1>4. CASE \E i \in Instances : VisitInstance(i)
  BY <1>1, <1>4 DEF VisitInstance
<1>5. CASE VisitPortConnection
  BY <1>1, <1>5 DEF VisitPortConnection
<1>6. CASE MakeCall
  BY <1>6, CalmCalls
<1>7. CASE FinishModule
  <2>1. CASE InsertFfs
    <3>1. UNCHANGED <<nodes, inputSpecs, signalMap, ffMerge, pendingFfs, intended>>
      BY <1>7, <2>1 DEF FinishModule, InsertFfs, lowerVars
    <3>2. QED BY <3>1, StillCalm DEF CalmStep
  <2>2. CASE WireConnections
    BY <1>7, <2>2, WiringCalm DEF FinishModule, CalmStep, lowerVars
  <2>3. QED BY <1>7, <2>1, <2>2 DEF FinishModule, InsertStep
<1>8. CASE UNCHANGED vars
  BY <1>1, <1>8 DEF vars, lowerVars
<1>9. QED BY <1>2, <1>3, <1>4, <1>5, <1>6, <1>7, <1>8 DEF Next, Done

(* The call of a handler that adds an output: a name it is given, which is *)
(* no input of the module, and the driver intended for it.                 *)
LEMMA OutputCall ==
  ASSUME IInv, Handlers, MakeCall, CallOutput
  PROVE  \E n \in {operation, instance}, name \in Names, domain \in Domain \cup {Comb} :
           /\ AddNodeOutput(n, name) /\ Intend(name, NextOutput(n), domain)
           /\ name \notin InputPorts
           /\ \/ Next1("output") /\ n = operation /\ name = Arg /\ domain = Head(calls).domain
                   /\ name # NoName
              \/ domain = Comb /\ Next1("instance_output") /\ n = instance /\ name = Arg
              \/ domain = Comb /\ Fresh /\ name = Tmp /\ ~Driven(name) /\ name # NoName
                   /\ \/ Next1("temporary_output") /\ n = operation
                      \/ Next1("instance_temporary") /\ n = instance
<1>1. \A k \in DOMAIN calls :
        calls[k].call \in {"temporary_output", "instance_temporary"} /\ k = 1 => Fresh
  BY DEF Handlers, Sequenced, Created, DrivesTmp
<1>2. Next1("temporary_output") \/ Next1("instance_temporary") => Fresh
  BY <1>1, Rest DEF Next1, Handlers, LowerTypeOK
<1>3. Fresh => Tmp \in Names /\ Tmp \notin InputPorts /\ Tmp # NoName /\ ~Driven(Tmp)
  BY FreshTemporary, NameTypes DEF Fresh
<1>4. Given \subseteq Names /\ NoName \in Names /\ Given \cap InputPorts = {} /\ NoName \notin Given
      /\ NoName \notin InputPorts
  BY GivenNames, NameTypes, MembersAreOverNames, NoNameIsNoName DEF Names
<1>5. CASE Next1("temporary_output") /\ AddNodeOutput(operation, Tmp)
           /\ Intend(Tmp, NextOutput(operation), Comb)
  BY <1>2, <1>3, <1>5
<1>6. CASE Next1("instance_temporary") /\ AddNodeOutput(instance, Tmp)
           /\ Intend(Tmp, NextOutput(instance), Comb)
  BY <1>2, <1>3, <1>6
<1>7. CASE Next1("instance_output") /\ AddNodeOutput(instance, Arg)
           /\ Intend(Arg, NextOutput(instance), Comb)
  <2>1. Arg \in Given \cup {NoName}
    BY <1>7, CallTypes, CallFields DEF Arg, Next1
  <2>2. QED BY <1>4, <1>7, <2>1
<1>8. CASE Next1("output") /\ AddNodeOutput(operation, Arg)
           /\ Intend(Arg, NextOutput(operation), Head(calls).domain)
  <2>1. Arg \in Given /\ Head(calls).domain \in Domain \cup {Comb}
    BY <1>8, CallTypes, CallFields DEF Arg, Next1
  <2>2. QED BY <1>4, <1>8, <2>1
<1>9. QED BY <1>5, <1>6, <1>7, <1>8 DEF CallOutput

LEMMA SourcedFf ==
  ASSUME IInv, IInv', Handlers, Sourced, CallFf
  PROVE  Sourced'
<1>1. /\ Next1("ff") /\ signalMap[Arg] # Unconnected
      /\ pendingFfs' = pendingFfs \cup
           {[name |-> Arg, domain |-> Head(calls).domain,
             ref |-> Ref(operation, Len(nodes[operation].outputs))]}
      /\ UNCHANGED <<nodes, inputSpecs, signalMap, ffMerge, phase, intended>>
  BY DEF CallFf, RecordFf
<1>2. Arg \in Name /\ Arg \notin InputPorts
  <2>1. Arg \in Given
    BY <1>1, CallTypes, CallFields DEF Arg, Next1
  <2>2. QED BY <2>1, GivenNames
<1>3. ~IsInput(Arg)
  <2>1. ASSUME NEW m \in DOMAIN nodes, nodes[m].kind = "pi"
        PROVE  nodes[m].outputs # <<Arg>>
    <3>1. PICK name \in InputPorts : nodes[m].outputs = <<name>>
      BY <2>1 DEF Sourced, InputsNamed
    <3>2. QED BY <1>2, <3>1
  <2>2. QED BY <2>1 DEF IsInput
<1>4. Driven(Arg)
  BY <1>1, <1>2, <1>3 DEF Sourced
<1>5. \A x : Driven(x)' <=> Driven(x)
  BY <1>1 DEF Driven
<1>6. \A f \in pendingFfs' : f \in pendingFfs \/ Driven(f.name)'
  BY <1>1, <1>4, <1>5
<1>7. InputsKept /\ Kept
  BY <1>1 DEF InputsKept, Kept
<1>8. QED BY <1>1, <1>5, <1>6, <1>7, SourcedStep

LEMMA SourcedSteps ==
  ASSUME LowerInv, IInv', Sourced, [Next]_vars
  PROVE  Sourced'
<1>1. IInv /\ Handlers /\ Naming
  BY DEF LowerInv
<1>2. CASE CalmStep
  BY <1>1, <1>2, SourcedCalm DEF CalmStep
<1>3. CASE ModuleInputStep
  <2>1. PICK name \in Name \cap InputPorts : CreateModuleInput(name) /\ UNCHANGED lowerVars
    BY <1>3 DEF ModuleInputStep
  <2>2. QED BY <1>1, <2>1, SourcedInput DEF lowerVars
<1>4. CASE MakeCall /\ CallOutput
  <2>1. PICK n \in {operation, instance}, name \in Names, domain \in Domain \cup {Comb} :
          AddNodeOutput(n, name) /\ Intend(name, NextOutput(n), domain)
    BY <1>1, <1>4, OutputCall
  <2>2. QED BY <1>1, <2>1, SourcedDriver
<1>5. CASE CallFf
  BY <1>1, <1>5, SourcedFf
<1>6. CASE InsertStep /\ UNCHANGED lowerVars
  BY <1>1, <1>6, SourcedInsert DEF InsertStep, lowerVars
<1>7. QED BY <1>1, <1>2, <1>3, <1>4, <1>5, <1>6, KindsOfSteps

-----------------------------------------------------------------------------
(* Once wire_connections has run, nothing moves, and every input asked for *)
(* by name is connected to what signal_maps_ has for the name.             *)
Wired ==
  phase = "wired" =>
    /\ pendingFfs = {} /\ ffMerge = NoMerge
    /\ \A n \in DOMAIN inputSpecs : \A k \in DOMAIN inputSpecs[n] :
         inputSpecs[n][k] # NoName =>
           k \in DOMAIN nodes[n].inputs /\ nodes[n].inputs[k] = signalMap[inputSpecs[n][k]]

LEMMA StillWired ==
  ASSUME phase = "wired", [TigNext]_tigVars
  PROVE  UNCHANGED tigVars
BY DEF TigNext, CreateModuleInput, CreateModuleOutput, CreateOperation, CreateInstance,
       AddNodeInput, AddNodeInputSpec, FinalizeNodeInput, AddNodeOutput, AddFirstDriver,
       AddSecondDriver, AddLaterDriver, Builds, RecordFf, InsertFfs, InsertFf, InsertClusterFf,
       InsertFfMerge, WireConnections

LEMMA OnlyWiring ==
  ASSUME IInv, [TigNext]_tigVars, phase # "wired", phase' = "wired"
  PROVE  WireConnections
BY ZenonT(60), Facts
   DEF TigNext, tigVars, CreateModuleInput, CreateModuleOutput, CreateOperation, CreateInstance,
       AddNodeInput, AddNodeInputSpec, FinalizeNodeInput, ConnectInput, AddNodeOutput,
       AddFirstDriver, AddSecondDriver, AddLaterDriver, Builds, RecordFf, InsertFfs, InsertFf,
       InsertClusterFf, InsertFfMerge

LEMMA WiredSteps ==
  ASSUME IInv, IInv', Wired, [TigNext]_tigVars
  PROVE  Wired'
<1>1. CASE phase = "wired"
  BY <1>1, StillWired DEF Wired, tigVars
<1>2. CASE phase # "wired" /\ phase' = "wired"
  <2>1. WireConnections
    BY <1>2, OnlyWiring
  <2>2. /\ Calm /\ pendingFfs = {} /\ ffMerge = NoMerge
        /\ UNCHANGED <<inputSpecs, pendingFfs>>
        /\ \A m \in DOMAIN nodes :
             /\ Len(nodes'[m].inputs) = Len(nodes[m].inputs)
             /\ \A k \in DOMAIN nodes[m].inputs :
                  nodes'[m].inputs[k] =
                    IF k \in DOMAIN inputSpecs[m] /\ inputSpecs[m][k] # NoName
                    THEN signalMap[inputSpecs[m][k]] ELSE nodes[m].inputs[k]
    BY <2>1, WiringCalm
  <2>3. signalMap' = signalMap /\ ffMerge' = ffMerge
    BY <2>2 DEF Calm
  <2>4. ASSUME NEW n \in DOMAIN inputSpecs, NEW k \in DOMAIN inputSpecs[n], inputSpecs[n][k] # NoName
        PROVE  /\ k \in DOMAIN nodes'[n].inputs
               /\ nodes'[n].inputs[k] = signalMap[inputSpecs[n][k]]
    <3>1. PICK q, p, s : q = nodes[n].inputs /\ p = nodes'[n].inputs /\ s = inputSpecs[n]
      OBVIOUS
    <3>2. n \in DOMAIN nodes /\ Aligned(n) /\ s \in Specs /\ DOMAIN s = 1..Len(s) /\ s # <<>>
      BY <2>4, <3>1, Facts, Domains DEF Sound
    <3>3. DOMAIN q = 1..Len(q) /\ Len(s) = Len(q) /\ k \in DOMAIN q
      BY <2>4, <3>1, <3>2, Facts, Domains DEF Aligned
    <3>4. p[k] = signalMap[s[k]]
      BY <2>2, <2>4, <3>1, <3>2, <3>3
    <3>5. k \in DOMAIN p
      <4>1. DOMAIN nodes' = DOMAIN nodes
        BY <2>1, WiringCalm
      <4>2. (DOMAIN nodes[n].inputs = 1..Len(nodes[n].inputs))'
        <5>1. TigTypeOK'
          BY DEF IInv, Typed
        <5>2. (\A m \in DOMAIN nodes : DOMAIN nodes[m].inputs = 1..Len(nodes[m].inputs))'
          BY <5>1, Domains
        <5>3. QED BY <3>2, <4>1, <5>2
      <4>3. QED BY <2>2, <3>1, <3>2, <3>3, <4>2
    <3>6. QED BY <3>1, <3>4, <3>5
  <2>5. QED BY <2>2, <2>3, <2>4 DEF Wired
<1>3. QED BY <1>1, <1>2 DEF Wired

ReaderInv == LowerInv /\ Sourced /\ Wired

LEMMA ReaderInvHolds == Spec => []ReaderInv
<1>1. Init => Sourced /\ Wired
  <2>1. Init => Wired
    BY DEF Init, TigInit, Wired
  <2>2. QED BY <2>1, SourcedStart
<1>2. LowerInv /\ LowerInv' /\ Sourced /\ Wired /\ [Next]_vars => Sourced' /\ Wired'
  <2>1. SUFFICES ASSUME LowerInv, LowerInv', Sourced, Wired, [Next]_vars
                 PROVE  Sourced' /\ Wired'
    OBVIOUS
  <2>2. IInv /\ IInv' /\ [TigNext]_tigVars
    BY <2>1, BuilderSteps DEF LowerInv
  <2>3. QED BY <2>1, <2>2, SourcedSteps, WiredSteps
<1>3. QED BY <1>1, <1>2, LoweringHolds, PTL DEF Spec, ReaderInv

LEMMA ReaderConnected ==
  ASSUME ReaderInv
  PROVE  ReadersAreConnected
<1>1. SUFFICES ASSUME phase = "wired", NEW n \in DOMAIN inputSpecs, NEW k \in DOMAIN inputSpecs[n],
                      NEW name, name = inputSpecs[n][k], name # NoName,
                      NEW ref, ref = nodes[n].inputs[k]
               PROVE  IF Driven(name) \/ IsInput(name)
                      THEN ref # Unconnected /\ Carried(ref) = name
                      ELSE ref = Unconnected
  BY DEF ReadersAreConnected, IsInput
<1>2. IInv /\ Naming /\ Sourced /\ Wired
  BY DEF ReaderInv, LowerInv
<1>3. name \in Name
  <2>1. inputSpecs[n] \in Specs
    BY <1>2, Facts
  <2>2. name \in Names
    BY <1>1, <2>1 DEF Specs
  <2>3. QED BY <1>1, <2>2 DEF Names
<1>4. ref = signalMap[name] /\ ffMerge = NoMerge
  BY <1>1, <1>2 DEF Wired
<1>5. ffMerge.name # name
  BY <1>3, <1>4, NoNameIsNoName DEF NoMerge
<1>6. ref # Unconnected => Carried(ref) = name
  BY <1>2, <1>3, <1>4, <1>5 DEF Naming, MappedNameIsCarried
<1>7. ref # Unconnected <=> Driven(name) \/ IsInput(name)
  BY <1>2, <1>3, <1>4 DEF Sourced
<1>8. QED BY <1>6, <1>7

(* Whoever asked for a name, before its driver, between two drivers of it  *)
(* or before insert_ffs split them, is connected in the end to the output  *)
(* that carries it, and only a name nothing drives floats.                 *)
THEOREM ReadersConnected == Spec => []ReadersAreConnected
BY ReaderConnected, ReaderInvHolds, PTL
=============================================================================

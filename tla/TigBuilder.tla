----------------------------- MODULE TigBuilder -----------------------------
(***************************************************************************)
(* The netlist of one module while TigBuilder builds it.  A node has       *)
(* inputs, which refer to outputs of other nodes, and outputs, which may   *)
(* carry the name of a signal.  A reader asks for its inputs by name (an   *)
(* input spec) before the driver of that name exists; a name may get a     *)
(* second driver, which hides the first behind a kMerge node, and a        *)
(* clocked driver, which is put behind a register only when the whole      *)
(* module has been visited.  Only then are the specs resolved.             *)
(*                                                                         *)
(* Widths, signs and the expressions inside an operation are left out.     *)
(* Node identifiers start at 1; a reference to node 0 is kInvalidNodeId.   *)
(*                                                                         *)
(* A definition whose name starts with Bug is not part of the model: it is *)
(* the definition after it with a plausible fault, for the properties to   *)
(* catch.                                                                  *)
(***************************************************************************)
EXTENDS Naturals, Sequences, FiniteSets

CONSTANTS Name,      \* names of signals, temporaries included
          NoName,    \* the empty string
          Edge,      \* clock and reset edges
          Domain     \* the clocks of registers, with their asynchronous resets

ASSUME NoNameIsNoName == NoName \notin Name

ASSUME EdgesExist == Edge # {}

(* Without a reset rst is NoName, and its edge means nothing.              *)
ASSUME DomainsAreClocks ==
  Domain \subseteq [clk: Name, clkEdge: Edge, rst: Name \cup {NoName}, rstEdge: Edge]

VARIABLES
  nodes,       \* Module::nodes
  inputSpecs,  \* input_specs_: per node, the names its inputs ask for
  signalMap,   \* signal_maps_: the output that drives a name
  pendingFfs,  \* pending_ffs_: clocked drivers waiting for their register
  ffMerge,     \* insert_ffs: the name being split by clock domain, its registers
  phase        \* "visit", then "insert" (insert_ffs), then "wired"

tigVars == <<nodes, inputSpecs, signalMap, pendingFfs, ffMerge, phase>>

-----------------------------------------------------------------------------
Ref(n, p) == [node |-> n, port |-> p]

Unconnected == Ref(0, 0)

Node(kind, ins, outs, clkEdge, rstEdge) ==
  [kind |-> kind, inputs |-> ins, outputs |-> outs, clkEdge |-> clkEdge, rstEdge |-> rstEdge]

AnyEdge == CHOOSE e \in Edge : TRUE

Plain(kind, ins, outs) == Node(kind, ins, outs, AnyEdge, AnyEdge)

Carried(ref) == nodes[ref.node].outputs[ref.port]

NoMerge == [name |-> NoName, ffs |-> <<>>]

Blank(q) == [k \in 1..Len(q) |-> NoName]

-----------------------------------------------------------------------------
(* Nodes.                                                                  *)

CreateNode(node, specs) ==
  /\ nodes' = Append(nodes, node)
  /\ inputSpecs' = Append(inputSpecs, specs)

CreateModuleInput(name) ==
  /\ phase = "visit"
  /\ signalMap[name] = Unconnected
  /\ CreateNode(Plain("pi", <<>>, <<name>>), <<>>)
  /\ signalMap' = [signalMap EXCEPT ![name] = Ref(Len(nodes) + 1, 1)]
  /\ UNCHANGED <<pendingFfs, ffMerge, phase>>

CreateModuleOutput(name) ==
  /\ phase = "visit"
  /\ CreateNode(Plain("po", <<Unconnected>>, <<>>), <<name>>)
  /\ UNCHANGED <<signalMap, pendingFfs, ffMerge, phase>>

CreateOperation ==
  /\ phase = "visit"
  /\ CreateNode(Plain("op", <<>>, <<>>), <<>>)
  /\ UNCHANGED <<signalMap, pendingFfs, ffMerge, phase>>

CreateInstance ==
  /\ phase = "visit"
  /\ CreateNode(Plain("instance", <<>>, <<>>), <<>>)
  /\ UNCHANGED <<signalMap, pendingFfs, ffMerge, phase>>

-----------------------------------------------------------------------------
(* Inputs: connected at once, or asked for by name.  Nothing is added to a *)
(* node after FinalizeNodeInput dropped its specs.                         *)

ConnectInput(n, ref, name) ==
  /\ Len(inputSpecs[n]) = Len(nodes[n].inputs)
  /\ nodes' = [nodes EXCEPT ![n].inputs = Append(@, ref)]
  /\ inputSpecs' = [inputSpecs EXCEPT ![n] = Append(@, name)]
  /\ UNCHANGED <<signalMap, pendingFfs, ffMerge, phase>>

Builds(n) == phase = "visit" /\ n \in DOMAIN nodes /\ nodes[n].kind \in {"op", "instance"}

(* An output of this module that exists, or nothing.                       *)
Existing(ref) ==
  \/ ref = Unconnected
  \/ ref.node \in DOMAIN nodes /\ ref.port \in DOMAIN nodes[ref.node].outputs

AddNodeInput(n, ref) ==
  /\ Builds(n)
  /\ Existing(ref)
  /\ ConnectInput(n, ref, NoName)

BugAddNodeInputSpec(n, name) ==
  /\ Builds(n)
  /\ inputSpecs' = [inputSpecs EXCEPT ![n] = Append(@, name)]
  /\ UNCHANGED <<nodes, signalMap, pendingFfs, ffMerge, phase>>

AddNodeInputSpec(n, name) ==
  /\ Builds(n)
  /\ ConnectInput(n, Unconnected, name)

BugFinalizeNodeInput(n) ==
  /\ Builds(n)
  /\ inputSpecs' = IF \E k \in DOMAIN inputSpecs[n] : inputSpecs[n][k] = NoName
                   THEN [inputSpecs EXCEPT ![n] = <<>>] ELSE inputSpecs
  /\ UNCHANGED <<nodes, signalMap, pendingFfs, ffMerge, phase>>

(* Called for instances: without a single name their specs are dropped.    *)
FinalizeNodeInput(n) ==
  /\ Builds(n)
  /\ inputSpecs' = IF \A k \in DOMAIN inputSpecs[n] : inputSpecs[n][k] = NoName
                   THEN [inputSpecs EXCEPT ![n] = <<>>] ELSE inputSpecs
  /\ UNCHANGED <<nodes, signalMap, pendingFfs, ffMerge, phase>>

-----------------------------------------------------------------------------
(* Outputs, that is, drivers.                                              *)

WithOutput(n, name) == [nodes EXCEPT ![n].outputs = Append(@, name)]

BugNextOutput(n) == Ref(n, Len(nodes[n].outputs))

(* The output of node n that the next call adds.                           *)
NextOutput(n) == Ref(n, Len(nodes[n].outputs) + 1)

AddFirstDriver(n, name) ==
  /\ Builds(n)
  /\ name # NoName => signalMap[name] = Unconnected
  /\ nodes' = WithOutput(n, name)
  /\ signalMap' = IF name = NoName THEN signalMap
                  ELSE [signalMap EXCEPT ![name] = NextOutput(n)]
  /\ UNCHANGED <<inputSpecs, pendingFfs, ffMerge, phase>>

BugHideDriver(old) == nodes

(* The first driver gives up the name, unless it is no operation.          *)
HideDriver(old) ==
  IF nodes[old.node].kind = "op"
  THEN [nodes EXCEPT ![old.node].outputs[old.port] = NoName] ELSE nodes

(* A second driver: both feed a new kMerge node, which carries the name.   *)
AddSecondDriver(n, name) ==
  LET old == signalMap[name]
      merge == Plain("merge", <<old, NextOutput(n)>>, <<name>>)
  IN  /\ Builds(n)
      /\ old # Unconnected
      /\ nodes[old.node].kind # "merge"
      /\ nodes' = Append([HideDriver(old) EXCEPT ![n].outputs = Append(@, NoName)], merge)
      /\ inputSpecs' = Append(inputSpecs, <<NoName, NoName>>)
      /\ signalMap' = [signalMap EXCEPT ![name] = Ref(Len(nodes) + 1, 1)]
      /\ UNCHANGED <<pendingFfs, ffMerge, phase>>

(* Any further driver joins that kMerge node.                              *)
AddLaterDriver(n, name) ==
  LET merge == signalMap[name].node
  IN  /\ Builds(n)
      /\ signalMap[name] # Unconnected
      /\ nodes[merge].kind = "merge"
      /\ nodes' = [nodes EXCEPT ![n].outputs = Append(@, NoName),
                                ![merge].inputs = Append(@, NextOutput(n))]
      /\ inputSpecs' = [inputSpecs EXCEPT ![merge] = Append(@, NoName)]
      /\ UNCHANGED <<signalMap, pendingFfs, ffMerge, phase>>

AddNodeOutput(n, name) ==
  \/ AddFirstDriver(n, name)
  \/ name # NoName /\ AddSecondDriver(n, name)
  \/ name # NoName /\ AddLaterDriver(n, name)

(* Is ref one of the drivers of name?                                      *)
Drives(ref, name) ==
  \/ signalMap[name] = ref
  \/ /\ nodes[signalMap[name].node].kind = "merge"
     /\ \E k \in DOMAIN nodes[signalMap[name].node].inputs :
          nodes[signalMap[name].node].inputs[k] = ref

(* Called with an output of an operation, right after it was added.        *)
RecordFf(name, domain, ref) ==
  /\ phase = "visit"
  /\ signalMap[name] # Unconnected
  /\ Existing(ref) /\ ref # Unconnected
  /\ nodes[ref.node].kind = "op"
  /\ Drives(ref, name)
  /\ pendingFfs' = pendingFfs \cup {[name |-> name, domain |-> domain, ref |-> ref]}
  /\ UNCHANGED <<nodes, inputSpecs, signalMap, ffMerge, phase>>

-----------------------------------------------------------------------------
(* insert_ffs, once the module has been visited.                           *)

InsertFfs ==
  /\ phase = "visit"
  /\ phase' = "insert"
  /\ UNCHANGED <<nodes, inputSpecs, signalMap, pendingFfs, ffMerge>>

PendingOf(name) == {f \in pendingFfs : f.name = name}

(* same_ff_props: without a reset the reset's edge is not compared.        *)
Normal(d) == IF d.rst = NoName THEN [d EXCEPT !.rstEdge = AnyEdge] ELSE d

Cluster(name, domain) == {f \in PendingOf(name) : Normal(f.domain) = domain}

Clusters(name) == {Normal(f.domain) : f \in PendingOf(name)}

BugFf(data, domain, name) ==
  Node("ff", IF domain.rst = NoName THEN <<data, Unconnected>>
             ELSE <<data, Unconnected, Unconnected>>,
       <<NoName>>, domain.clkEdge, domain.rstEdge)

(* create_ff.  The data is connected at once; clock and reset are asked    *)
(* for by name.                                                            *)
Ff(data, domain, name) ==
  Node("ff", IF domain.rst = NoName THEN <<data, Unconnected>>
             ELSE <<data, Unconnected, Unconnected>>,
       <<name>>, domain.clkEdge, domain.rstEdge)

FfSpecs(domain) ==
  IF domain.rst = NoName THEN <<NoName, domain.clk>> ELSE <<NoName, domain.clk, domain.rst>>

BugRegistered(name) == nodes

(* The driver of a registered name gives the name up to the register.      *)
Registered(name) ==
  [nodes EXCEPT ![signalMap[name].node].outputs[signalMap[name].port] = NoName]

(* All clocked drivers of the name agree: one register behind whatever     *)
(* drives the name now.                                                    *)
InsertFf(name) ==
  /\ phase = "insert"
  /\ ffMerge = NoMerge
  /\ \E domain \in Clusters(name) :
       /\ Clusters(name) = {domain}
       /\ nodes' = Append(Registered(name), Ff(signalMap[name], domain, name))
       /\ inputSpecs' = Append(inputSpecs, FfSpecs(domain))
       /\ signalMap' = [signalMap EXCEPT ![name] = Ref(Len(nodes) + 1, 1)]
  /\ pendingFfs' = pendingFfs \ PendingOf(name)
  /\ UNCHANGED <<ffMerge, phase>>

(* Otherwise each clock domain gets a register of its own behind its own   *)
(* drivers, merged first when there are several.  std::sort leaves their   *)
(* order open.                                                             *)
Orders(S) ==
  {q \in [1..Cardinality(S) -> S] : \A x \in S : \E k \in 1..Cardinality(S) : q[k] = x}

BugClusterNodes(base, refs, domain) ==
  IF Len(refs) = 1
  THEN Append(base, Ff(refs[1], domain, NoName))
  ELSE Append(Append(base, Plain("merge", refs, <<NoName>>)),
              Ff(Ref(Len(base) + 2, 1), domain, NoName))

ClusterNodes(base, refs, domain) ==
  IF Len(refs) = 1
  THEN Append(base, Ff(refs[1], domain, NoName))
  ELSE Append(Append(base, Plain("merge", refs, <<NoName>>)),
              Ff(Ref(Len(base) + 1, 1), domain, NoName))

ClusterSpecs(refs, domain) ==
  IF Len(refs) = 1
  THEN Append(inputSpecs, FfSpecs(domain))
  ELSE Append(Append(inputSpecs, Blank(refs)), FfSpecs(domain))

InsertClusterFf(name, domain) ==
  LET drivers == {f.ref : f \in Cluster(name, domain)}
  IN  /\ phase = "insert"
      /\ domain \in Clusters(name)
      /\ \/ ffMerge = NoMerge /\ Clusters(name) # {domain}
         \/ ffMerge.name = name
      /\ \E refs \in Orders(drivers) :
           LET base == IF ffMerge = NoMerge THEN Registered(name) ELSE nodes
               built == ClusterNodes(base, refs, domain)
           IN  /\ nodes' = built
               /\ inputSpecs' = ClusterSpecs(refs, domain)
               /\ ffMerge' = [name |-> name, ffs |-> Append(ffMerge.ffs, Ref(Len(built), 1))]
      /\ pendingFfs' = pendingFfs \ Cluster(name, domain)
      /\ UNCHANGED <<signalMap, phase>>

BugInsertFfMerge ==
  /\ phase = "insert"
  /\ ffMerge # NoMerge
  /\ PendingOf(ffMerge.name) = {}
  /\ CreateNode(Plain("ff_merge", ffMerge.ffs, <<ffMerge.name>>), Blank(ffMerge.ffs))
  /\ ffMerge' = NoMerge
  /\ UNCHANGED <<signalMap, pendingFfs, phase>>

(* ... and a kFfMerge node over the registers carries the name.            *)
InsertFfMerge ==
  /\ phase = "insert"
  /\ ffMerge # NoMerge
  /\ PendingOf(ffMerge.name) = {}
  /\ CreateNode(Plain("ff_merge", ffMerge.ffs, <<ffMerge.name>>), Blank(ffMerge.ffs))
  /\ signalMap' = [signalMap EXCEPT ![ffMerge.name] = Ref(Len(nodes) + 1, 1)]
  /\ ffMerge' = NoMerge
  /\ UNCHANGED <<pendingFfs, phase>>

-----------------------------------------------------------------------------
(* Every input asked for by name is connected to what drives the name now; *)
(* a name nothing drives leaves it unconnected.                            *)
Resolve(n, k) ==
  IF k \in DOMAIN inputSpecs[n] /\ inputSpecs[n][k] # NoName
  THEN signalMap[inputSpecs[n][k]] ELSE nodes[n].inputs[k]

WireConnections ==
  /\ phase = "insert"
  /\ pendingFfs = {}
  /\ ffMerge = NoMerge
  /\ phase' = "wired"
  /\ nodes' = [n \in DOMAIN nodes |->
                [nodes[n] EXCEPT !.inputs = [k \in 1..Len(@) |-> Resolve(n, k)]]]
  /\ UNCHANGED <<inputSpecs, signalMap, pendingFfs, ffMerge>>

-----------------------------------------------------------------------------
TigInit ==
  /\ nodes = <<>>
  /\ inputSpecs = <<>>
  /\ signalMap = [name \in Name |-> Unconnected]
  /\ pendingFfs = {}
  /\ ffMerge = NoMerge
  /\ phase = "visit"

TigNext ==
  \/ \E name \in Name : CreateModuleInput(name)
  \/ \E name \in Name : CreateModuleOutput(name)
  \/ CreateOperation
  \/ CreateInstance
  \/ \E n \in DOMAIN nodes :
       \/ \E m \in DOMAIN nodes : \E p \in DOMAIN nodes[m].outputs : AddNodeInput(n, Ref(m, p))
       \/ AddNodeInput(n, Unconnected)
       \/ \E name \in Name : AddNodeInputSpec(n, name)
       \/ FinalizeNodeInput(n)
       \/ \E name \in Name \cup {NoName} : AddNodeOutput(n, name)
  \/ \E name \in Name, domain \in Domain, n \in DOMAIN nodes :
       \E p \in DOMAIN nodes[n].outputs : RecordFf(name, domain, Ref(n, p))
  \/ InsertFfs
  \/ \E name \in Name : InsertFf(name)
  \/ \E name \in Name : \E domain \in Clusters(name) : InsertClusterFf(name, domain)
  \/ InsertFfMerge
  \/ WireConnections

TigSpec == TigInit /\ [][TigNext]_tigVars

-----------------------------------------------------------------------------
(* Properties.                                                             *)

Reference == [node: Nat, port: Nat]

NodeType == [kind: {"pi", "po", "op", "instance", "merge", "ff", "ff_merge"},
             inputs: Seq(Reference), outputs: Seq(Name \cup {NoName}),
             clkEdge: Edge, rstEdge: Edge]

(* Nodes, specs and maps hold values of their kind.                        *)
TigTypeOK ==
  /\ nodes \in Seq(NodeType)
  /\ inputSpecs \in Seq(Seq(Name \cup {NoName}))
  /\ signalMap \in [Name -> Reference]
  /\ pendingFfs \subseteq [name: Name, domain: Domain, ref: Reference]
  /\ ffMerge \in [name: Name \cup {NoName}, ffs: Seq(Reference)]
  /\ phase \in {"visit", "insert", "wired"}

(* Inputs and specs of a node are two vectors that different calls grow;   *)
(* wire_connections indexes one with the positions of the other.           *)
InputsAligned ==
  /\ Len(inputSpecs) = Len(nodes)
  /\ \A n \in DOMAIN nodes :
       Len(inputSpecs[n]) = Len(nodes[n].inputs) \/ inputSpecs[n] = <<>>

(* Every reference anywhere is unconnected or to an output that exists:    *)
(* the builder holds them across calls that add nodes and outputs.         *)
ReferencesResolve ==
  /\ \A n \in DOMAIN nodes : \A k \in DOMAIN nodes[n].inputs : Existing(nodes[n].inputs[k])
  /\ \A name \in Name : Existing(signalMap[name])
  /\ \A f \in pendingFfs : Existing(f.ref)
  /\ \A k \in DOMAIN ffMerge.ffs : Existing(ffMerge.ffs[k])

(* Outside insert_ffs' split of a name by clock domain, the output mapped  *)
(* to a name carries it: what a reader is connected to is what the dump    *)
(* will call by the name the reader asked for.                             *)
MappedNameIsCarried ==
  \A name \in Name :
    signalMap[name] # Unconnected /\ ffMerge.name # name => Carried(signalMap[name]) = name

(* And no other operation, merge or register still carries it: each would  *)
(* be dumped as a driver of its own.                                       *)
OneCarrier ==
  \A n \in DOMAIN nodes : \A p \in DOMAIN nodes[n].outputs :
    nodes[n].kind \notin {"pi", "po", "instance"} /\ nodes[n].outputs[p] # NoName
      => signalMap[nodes[n].outputs[p]] = Ref(n, p)

(* The nodes behind a register, in the shape emit_ff_data recurses on and  *)
(* asserts: a merge feeds from plain drivers, a register's data comes from *)
(* an operation or a merge, a kFfMerge is over registers.                  *)
DriversAreLayered ==
  \A n \in DOMAIN nodes :
    LET from(k) == nodes[nodes[n].inputs[k].node].kind
    IN  /\ nodes[n].kind = "merge" =>
             \A k \in DOMAIN nodes[n].inputs :
               nodes[n].inputs[k] # Unconnected /\ from(k) \in {"pi", "op", "instance"}
        /\ nodes[n].kind = "ff" =>
             /\ Len(nodes[n].inputs) \in {2, 3}
             /\ nodes[n].inputs[1] # Unconnected
             /\ from(1) \in {"op", "merge"}
        /\ nodes[n].kind = "ff_merge" =>
             \A k \in DOMAIN nodes[n].inputs :
               nodes[n].inputs[k] # Unconnected /\ from(k) = "ff" /\ nodes[n].inputs[k].port = 1
=============================================================================

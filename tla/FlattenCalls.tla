----------------------------- MODULE FlattenCalls -----------------------------
(***************************************************************************)
(* flatten_calls on one expression graph: every call node becomes a buffer *)
(* of a copy of the subroutine's graph, and the calls inside that copy are *)
(* appended to the calls still to be flattened.                            *)
(*                                                                         *)
(* A node has an operation, operands (identifiers of nodes of its graph),  *)
(* a width and, to apply, a function.  The graph of a call is looked up by *)
(* the subroutine recorded beside the node.  Unpacked arrays and signs are *)
(* left out.                                                               *)
(*                                                                         *)
(* A definition whose name starts with Bug is not part of the model: it is *)
(* the definition after it with a plausible fault, for the properties to   *)
(* catch.                                                                  *)
(***************************************************************************)
EXTENDS Naturals, Sequences, FiniteSets, SequencesExt

CONSTANTS Signal,      \* signals of the module
          Val,         \* values of expressions
          Fn,          \* operations on values
          NoValue,     \* what the dump has for a node without name or value
          Apply(_, _), \* Apply(f, args), the value of an operation
          Sub,         \* subroutines
          Subroutine,  \* Subroutine[s]: graph, arguments, name and root
          Depth,       \* Depth[s]: how deep the calls of s nest
          Graphs       \* expression graphs of module nodes

None == 0 \* kInvalidExprId
ConstantZero == 1
ConstantOne == 2

CallsOf(g) == {g.calls[k] : k \in DOMAIN g.calls}

SubOf(g, i) == (CHOOSE c \in CallsOf(g) : c.id = i).sub

(* Recursive subroutines are left out: flattening them does not end.       *)
ASSUME NoRecursion ==
  /\ Depth \in [Sub -> Nat]
  /\ \A s \in Sub : \A c \in CallsOf(Subroutine[s]) : c.sub \in Sub /\ Depth[c.sub] < Depth[s]

Operands(node) == {node.ops[k] : k \in DOMAIN node.ops}

NodeType == [op: {"input", "const", "apply", "convert", "call"}, ops: Seq(Nat),
             width: Nat, what: Fn \cup {NoValue}]

(* ExprBuilder's graphs: they start with the constants zero and one, their *)
(* tables of inputs, constants and calls are of the nodes of that kind,    *)
(* and each call is in its table once.                                     *)
WellFormed(g) ==
  /\ g.nodes \in Seq(NodeType)
  /\ \A i \in DOMAIN g.nodes :
       /\ Operands(g.nodes[i]) \subseteq DOMAIN g.nodes \cup {None}
       /\ g.nodes[i].op \in {"input", "const"} => g.nodes[i].ops = <<>>
  /\ {ConstantZero, ConstantOne} \subseteq DOMAIN g.constants
  /\ DOMAIN g.constants = {i \in DOMAIN g.nodes : g.nodes[i].op = "const"}
  /\ \A n \in DOMAIN g.inputs :
       g.inputs[n] \in DOMAIN g.nodes /\ g.nodes[g.inputs[n]].op = "input"
  /\ g.calls \in Seq([id: Nat, sub: Sub])
  /\ {i \in DOMAIN g.nodes : g.nodes[i].op = "call"} = {g.calls[k].id : k \in DOMAIN g.calls}
  /\ \A k, l \in DOMAIN g.calls : g.calls[k].id = g.calls[l].id => k = l

(* No node is among its own operands, theirs, and so on.                   *)
Grounded(q) ==
  \A X \in SUBSET DOMAIN q : X # {} => \E i \in X : Operands(q[i]) \cap X = {}

ASSUME GraphsAreBuilt ==
  /\ \A s \in Sub :
       LET g == Subroutine[s]
       IN  /\ WellFormed(g) /\ g.root \in DOMAIN g.nodes \cup {None}
           /\ g.args \in Seq(STRING)
  /\ \A g \in Graphs : WellFormed(g) /\ Grounded(g.nodes)

VARIABLES
  text,      \* the graph before its calls are flattened
  nodes,     \* expr_graph.nodes
  constants, \* expr_graph.constants: the values of constant nodes
  calls,     \* expr_graph.calls: nodes and the subroutines they call
  next,      \* the index of the call to be flattened
  phase,     \* "flatten", then "done"
  reported   \* was a call replaced with zero?

vars == <<text, nodes, constants, calls, next, phase, reported>>

-----------------------------------------------------------------------------
(* Identifiers of a subroutine's nodes in the calling graph (id_map).      *)

ArgId(g, j) == g.inputs[g.args[j]]

BugGiven(g, call) ==
  [i \in {ArgId(g, j) : j \in DOMAIN g.args} |->
     nodes[call.id].ops[Len(g.args) + 1 - (CHOOSE j \in DOMAIN g.args : ArgId(g, j) = i)]]

BugGivenTheCall(g, call) ==
  [i \in {ArgId(g, j) : j \in DOMAIN g.args} |-> call.id]

(* Arguments stand for the operands of the call.                           *)
Given(g, call) ==
  [i \in {ArgId(g, j) : j \in DOMAIN g.args} |->
     nodes[call.id].ops[CHOOSE j \in DOMAIN g.args : ArgId(g, j) = i]]

Shared(g) ==
  [i \in {None, ConstantZero, ConstantOne} \cup {g.inputs[n] : n \in DOMAIN g.inputs \cap {g.name}} |->
     IF i \in {ConstantZero, ConstantOne} THEN i ELSE None]

Known(g) == DOMAIN Shared(g) \cup {ArgId(g, j) : j \in DOMAIN g.args}

(* A finite set of numbers, the smallest first.                            *)
InOrder[S \in SUBSET Nat] ==
  [k \in 1..Cardinality(S) |-> CHOOSE i \in S : Cardinality({j \in S : j <= i}) = k]

(* Constants are copied first, then the other nodes in the order of their  *)
(* identifiers, up to the first with an operand that is not copied yet.    *)
Constants(g) == DOMAIN g.constants \ Known(g)

Ready(g, i) == \A o \in Operands(g.nodes[i]) : o \in Known(g) \cup Constants(g) \/ o < i

Reached(g, i) == \A j \in 1..i : j \in Known(g) \cup Constants(g) \/ Ready(g, j)

Others(g) == {i \in DOMAIN g.nodes : i \notin Known(g) \cup Constants(g) /\ Reached(g, i)}

Copied == [s \in Sub |-> InOrder[Constants(Subroutine[s])] \o InOrder[Others(Subroutine[s])]]

TopologicallyOrdered(s) ==
  DOMAIN Subroutine[s].nodes \subseteq Known(Subroutine[s]) \cup Range(Copied[s])

IdMap(call, i) ==
  LET g == Subroutine[call.sub]
      copied == Copied[call.sub]
  IN  IF i \in DOMAIN Shared(g) THEN Shared(g)[i]
      ELSE IF i \in Known(g) THEN Given(g, call)[i]
      ELSE Len(nodes) + CHOOSE k \in DOMAIN copied : copied[k] = i

-----------------------------------------------------------------------------
(* Replacing one call.                                                     *)

CopyOf(node, call) == [node EXCEPT !.ops = [k \in DOMAIN @ |-> IdMap(call, @[k])]]

Buffer(node, id) == [node EXCEPT !.op = "convert", !.ops = <<id>>]

(* The nodes with those of the subroutine copied and the call turned into  *)
(* a buffer of node id.                                                    *)
NodesWith(call, id) ==
  LET g == Subroutine[call.sub]
      copied == Copied[call.sub]
  IN  [nodes EXCEPT ![call.id] = Buffer(@, id)]
        \o [k \in DOMAIN copied |-> CopyOf(g.nodes[copied[k]], call)]

BugConstantsWith(call) == constants

ConstantsWith(call) ==
  LET g == Subroutine[call.sub]
      copied == Copied[call.sub]
      new == {k \in DOMAIN copied : copied[k] \in DOMAIN g.constants}
  IN  [i \in DOMAIN constants \cup {Len(nodes) + k : k \in new} |->
         IF i \in DOMAIN constants THEN constants[i] ELSE g.constants[copied[i - Len(nodes)]]]

BugCallsWith(call) == calls

CallsWith(call) ==
  LET g == Subroutine[call.sub]
      copied == Copied[call.sub]
      inner == InOrder[{k \in DOMAIN copied : g.nodes[copied[k]].op = "call"}]
  IN  calls \o [k \in DOMAIN inner |->
                 [id |-> Len(nodes) + inner[k], sub |-> SubOf(g, copied[inner[k]])]]

Unusable(call) ==
  LET g == Subroutine[call.sub]
  IN  \/ g.root = None
      \/ Len(nodes[call.id].ops) # Len(g.args)
      \/ \E j \in DOMAIN g.args : g.args[j] \notin DOMAIN g.inputs

InProgress == phase = "flatten" /\ next <= Len(calls)

(* The subroutine is not there, has other arguments, or does not read all  *)
(* of them.                                                                *)
ReplaceUnusable ==
  /\ InProgress
  /\ Unusable(calls[next])
  /\ nodes' = [nodes EXCEPT ![calls[next].id] = Buffer(@, ConstantZero)]
  /\ reported' = TRUE
  /\ next' = next + 1
  /\ UNCHANGED <<text, constants, calls, phase>>

(* What was copied before the node out of order stays, with its calls.     *)
ReplaceUnordered ==
  /\ InProgress
  /\ ~Unusable(calls[next]) /\ ~TopologicallyOrdered(calls[next].sub)
  /\ nodes' = NodesWith(calls[next], ConstantZero)
  /\ constants' = ConstantsWith(calls[next])
  /\ calls' = CallsWith(calls[next])
  /\ reported' = TRUE
  /\ next' = next + 1
  /\ UNCHANGED <<text, phase>>

Inline ==
  /\ InProgress
  /\ ~Unusable(calls[next]) /\ TopologicallyOrdered(calls[next].sub)
  /\ nodes' = NodesWith(calls[next], IdMap(calls[next], Subroutine[calls[next].sub].root))
  /\ constants' = ConstantsWith(calls[next])
  /\ calls' = CallsWith(calls[next])
  /\ next' = next + 1
  /\ UNCHANGED <<text, phase, reported>>

BugFinish ==
  /\ phase = "flatten" /\ next > Len(calls)
  /\ ~reported
  /\ calls' = <<>>
  /\ next' = 1
  /\ phase' = "done"
  /\ UNCHANGED <<text, nodes, constants, reported>>

Finish ==
  /\ phase = "flatten" /\ next > Len(calls)
  /\ calls' = <<>>
  /\ next' = 1
  /\ phase' = "done"
  /\ UNCHANGED <<text, nodes, constants, reported>>

-----------------------------------------------------------------------------
(* What expressions mean.                                                  *)

ArgLists == UNION {[1..n -> Val \cup {NoValue}] : n \in 0..2}

(* The values of the nodes of g where its inputs have the values of env    *)
(* and called[s, args] is what subroutine s returns.                       *)
Values(g, env, called) ==
  LET value[i \in DOMAIN g.nodes] ==
        LET node == g.nodes[i]
            args == [k \in DOMAIN node.ops |-> IF node.ops[k] = None THEN NoValue ELSE value[node.ops[k]]]
            names == {n \in DOMAIN g.inputs : g.inputs[n] = i}
            lacking == \E k \in DOMAIN args : args[k] = NoValue
        IN  CASE node.op = "input" -> IF names = {} THEN NoValue ELSE env[CHOOSE n \in names : TRUE]
              [] node.op = "const" -> IF i \in DOMAIN g.constants THEN g.constants[i] ELSE NoValue
              [] node.op = "call" -> called[SubOf(g, i), args]
              [] node.op = "apply" -> IF lacking THEN NoValue ELSE Apply(node.what, args)
              [] node.op = "convert" -> IF lacking THEN NoValue ELSE args[1] % (2 ^ node.width)
  IN  value

(* What subroutines return where the signals have the values of env.       *)
Returned(env) ==
  LET returned[c \in Sub \X ArgLists] ==
        LET g == Subroutine[c[1]]
            position(n) == CHOOSE j \in DOMAIN g.args : g.args[j] = n
            local == [n \in DOMAIN g.inputs |->
                        IF \E j \in DOMAIN g.args : g.args[j] = n THEN c[2][position(n)] ELSE env[n]]
        IN  IF g.root = None THEN NoValue ELSE Values(g, local, returned)[g.root]
  IN  returned

-----------------------------------------------------------------------------
Init ==
  /\ text \in Graphs
  /\ nodes = text.nodes
  /\ constants = text.constants
  /\ calls = text.calls
  /\ next = 1
  /\ phase = "flatten"
  /\ reported = FALSE

Next == ReplaceUnusable \/ ReplaceUnordered \/ Inline \/ Finish

Spec == Init /\ [][Next]_vars

(* The loop of flatten_calls runs on by itself, whatever its next step.    *)
FairSpec ==
  /\ Spec
  /\ WF_vars(ReplaceUnusable) /\ WF_vars(ReplaceUnordered) /\ WF_vars(Inline)
  /\ WF_vars(Finish)

-----------------------------------------------------------------------------
(* Properties.                                                             *)

TypeOK ==
  /\ nodes \in Seq(NodeType)
  /\ \A i \in DOMAIN nodes : Operands(nodes[i]) \subseteq DOMAIN nodes \cup {None}
  /\ DOMAIN constants = {i \in DOMAIN nodes : nodes[i].op = "const"}
  /\ next \in 1..(Len(calls) + 1)
  /\ phase \in {"flatten", "done"}
  /\ reported \in BOOLEAN

(* Every call node is among the calls still to be flattened, exactly once, *)
(* those that came with the copy of a subroutine included: none is left    *)
(* when the loop ends.                                                     *)
CallsAreListed ==
  /\ {i \in DOMAIN nodes : nodes[i].op = "call"} = {calls[k].id : k \in next..Len(calls)}
  /\ \A k, l \in DOMAIN calls : calls[k].id = calls[l].id => k = l

(* The graph has no cycle, although a call node now has operands created   *)
(* after it: every node is within some number of operands of the leaves.   *)
Within ==
  LET within[n \in 0..Len(nodes)] ==
        IF n = 0 THEN {None}
        ELSE LET known == within[n - 1]
             IN  {None} \cup {i \in DOMAIN nodes : Operands(nodes[i]) \subseteq known}
  IN  within[Len(nodes)]

Acyclic == DOMAIN nodes \subseteq Within

(* Unless a call was replaced with zero, every node the graph had before   *)
(* keeps its value at every step of flattening, for every input.           *)
ValuesKept ==
  ~reported =>
    LET now == [nodes |-> nodes, inputs |-> text.inputs, constants |-> constants, calls |-> calls]
    IN  \A env \in [Signal -> Val] :
          LET returned == Returned(env)
              before == Values(text, env, returned)
              after == Values(now, env, returned)
          IN  \A i \in DOMAIN text.nodes : after[i] = before[i]

(* Flattening ends: the loop appends to the list it runs over.             *)
Terminates == <>(phase = "done")
=============================================================================

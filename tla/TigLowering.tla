----------------------------- MODULE TigLowering -----------------------------
(***************************************************************************)
(* Visiting the members of one module body and dumping the netlist that    *)
(* results: the client of TigBuilder on one side, TigDumper on the other.  *)
(*                                                                         *)
(* The visitor's handlers are calls of TigBuilder in a fixed order.  calls *)
(* holds those the handler in progress makes next, ports what its loop over*)
(* the ports of an instance still has to visit; operation, instance and the*)
(* last of temporaries are its local variables.  A member of the body is a *)
(* process (continuous assignment, net initialiser, primitive, procedural  *)
(* block), or an instance.                                                 *)
(*                                                                         *)
(* intended is a history variable: each driver the text gives a name, with *)
(* the clock it is under.                                                  *)
(***************************************************************************)
EXTENDS TigBuilder, SequencesExt

CONSTANTS InputPorts,      \* a set of names
          OutputPorts,     \* a set of names
          Processes,       \* [reads, writes: sequences of names, domain]
          Instances,       \* [ins, outs: sequences of connections]
          Comb,            \* the domain of a process without a clock
          Temporaries,     \* a sequence of names: $tmp0, $tmp1, ..
          MixedDrivers,    \* may a name have clocked and unclocked drivers?
          MaxMembers       \* bound: members of the module body

(* converted: the value has to be converted before it reaches a target     *)
(* that is no plain name.                                                  *)
Connection ==
  [how: {"open"}, name: {NoName}, converted: {FALSE}]
    \cup [how: {"name"}, name: Name, converted: {FALSE}]
    \cup [how: {"expr"}, name: Name, converted: BOOLEAN]

ASSUME MembersAreOverNames ==
  /\ InputPorts \cup OutputPorts \subseteq Name
  /\ Processes \subseteq [reads: Seq(Name), writes: Seq(Name), domain: Domain \cup {Comb}]
  /\ Instances \subseteq [ins: Seq(Connection), outs: Seq(Connection)]
  /\ Temporaries \in Seq(Name)

ASSUME CombIsNoClock == Comb \notin Domain

(* The names the text gives drivers.                                       *)
Written ==
  (UNION {Range(p.writes) : p \in Processes})
    \cup (UNION {{i.outs[k].name : k \in DOMAIN i.outs} : i \in Instances})

(* The elaborated text has no driver of an input.                          *)
ASSUME InputsAreNotWritten == InputPorts \cap Written = {}

ASSUME TemporariesAreNew ==
  /\ \A k, l \in DOMAIN Temporaries : Temporaries[k] = Temporaries[l] => k = l
  /\ Range(Temporaries) \cap (InputPorts \cup Written) = {}

(* A name connected as a whole to an output of an instance has no other    *)
(* driver: here, no other output of that instance; see LegalInstance.      *)
ASSUME WholeConnectionsAreAlone ==
  \A i \in Instances : \A k, l \in DOMAIN i.outs :
    k # l /\ i.outs[k].how = "name" => i.outs[l].name # i.outs[k].name

VARIABLES calls, ports, operation, instance, temporaries, intended, placed, members

lowerVars == <<calls, ports, operation, instance, temporaries, intended, placed, members>>

vars == <<tigVars, lowerVars>>

-----------------------------------------------------------------------------
(* The handlers, as the calls they make.                                   *)

Call(what, name) == [call |-> what, name |-> name]

Asks(names) == [k \in DOMAIN names |-> Call("spec", names[k])]

Drivers(names, domain) ==
  [k \in DOMAIN names |-> [call |-> "output", name |-> names[k], domain |-> domain]]

(* for_each_input, then add_node_output_expr and record_ff per output      *)
ProcessCalls(p) == <<Call("operation", NoName)>> \o Asks(p.reads) \o Drivers(p.writes, p.domain)

(* A connection is open, to a whole name, or to anything else: then an     *)
(* operation of its own and a temporary signal stand in between; for an    *)
(* output that is converted first, two of each.  The second operation is   *)
(* connected not to the first one but to the instance.                     *)
InputCalls(c) ==
  CASE c.how = "open" -> <<Call("instance_open", NoName)>>
    [] c.how = "name" -> <<Call("instance_spec", c.name)>>
    [] c.how = "expr" -> <<Call("temporary", NoName), Call("operation", NoName),
                           Call("spec", c.name), Call("temporary_output", NoName),
                           Call("instance_input", NoName)>>

OutputCalls(c) ==
  CASE c.how = "open" -> <<Call("instance_output", NoName)>>
    [] c.how = "name" -> <<Call("instance_output", c.name)>>
    [] c.how = "expr" /\ ~c.converted ->
         <<Call("temporary", NoName), Call("instance_temporary", NoName),
           Call("operation", NoName), Call("from_instance", NoName),
           [call |-> "output", name |-> c.name, domain |-> Comb]>>
    [] c.how = "expr" /\ c.converted ->
         <<Call("temporary", NoName), Call("instance_temporary", NoName),
           Call("operation", NoName), Call("from_instance", NoName),
           Call("temporary", NoName), Call("temporary_output", NoName),
           Call("operation", NoName), Call("from_conversion", NoName),
           [call |-> "output", name |-> c.name, domain |-> Comb]>>

(* The ports of an instance, one after another, and the end of the loop.   *)
Port(what, c) == [port |-> what, conn |-> c]

Open == [how |-> "open", name |-> NoName, converted |-> FALSE]

InPorts(ins) == [k \in DOMAIN ins |-> Port("in", ins[k])]
OutPorts(outs) == [k \in DOMAIN outs |-> Port("out", outs[k])]

InstancePorts(i) ==
  InPorts(i.ins) \o OutPorts(i.outs) \o <<Port("end", Open)>>

PortCalls(p) ==
  CASE p.port = "in" -> InputCalls(p.conn)
    [] p.port = "out" -> OutputCalls(p.conn)
    [] p.port = "end" -> <<Call("finalize", NoName)>>

-----------------------------------------------------------------------------
(* Visiting a member.                                                      *)

Driven(name) == \E d \in intended : d.name = name
Clocked(name) == \E d \in intended : d.name = name /\ d.domain # Comb
Unclocked(name) == \E d \in intended : d.name = name /\ d.domain = Comb
ByInstance(name) == \E d \in intended : d.name = name /\ nodes[d.ref.node].kind = "instance"

Connected(conns, how) == {conns[k].name : k \in {m \in DOMAIN conns : conns[m].how = how}}

(* What a text may be assumed to respect: a name assigned under a clock is *)
(* assigned only under clocks, and one connected as a whole to an output   *)
(* of an instance has no other driver.                                     *)
MayDrive(name, domain) ==
  /\ ~ByInstance(name)
  /\ MixedDrivers \/ ~(IF domain = Comb THEN Clocked(name) ELSE Unclocked(name))

LegalProcess(p) == \A k \in DOMAIN p.writes : MayDrive(p.writes[k], p.domain)

NewTemporaries(i) ==
  LET exprs(conns) == {k \in DOMAIN conns : conns[k].how = "expr"}
  IN  Cardinality(exprs(i.ins)) + Cardinality(exprs(i.outs))
        + Cardinality({k \in DOMAIN i.outs : i.outs[k].converted})

LegalInstance(i) ==
  /\ \A name \in Connected(i.outs, "expr") : MayDrive(name, Comb)
  /\ \A name \in Connected(i.outs, "name") : ~Driven(name)
  /\ Len(temporaries) + NewTemporaries(i) <= Len(Temporaries)

Idle == calls = <<>> /\ ports = <<>>

Visiting == phase = "visit" /\ members < MaxMembers /\ Idle

VisitProcess(p) ==
  /\ Visiting
  /\ LegalProcess(p)
  /\ calls' = ProcessCalls(p)
  /\ members' = members + 1
  /\ UNCHANGED <<tigVars, ports, operation, instance, temporaries, intended, placed>>

VisitInstance(i) ==
  /\ Visiting
  /\ LegalInstance(i)
  /\ calls' = <<Call("instance", NoName)>>
  /\ ports' = InstancePorts(i)
  /\ members' = members + 1
  /\ placed' = Append(placed, [node |-> Len(nodes) + 1, ins |-> i.ins])
  /\ UNCHANGED <<tigVars, operation, instance, temporaries, intended>>

VisitPortConnection ==
  /\ calls = <<>>
  /\ ports # <<>>
  /\ calls' = PortCalls(Head(ports))
  /\ ports' = Tail(ports)
  /\ UNCHANGED <<tigVars, operation, instance, temporaries, intended, placed, members>>

(* The clocks and inputs of the module come first, in its port list.       *)
VisitPort(name) ==
  /\ phase = "visit" /\ members = 0
  /\ \/ name \in InputPorts /\ CreateModuleInput(name)
     \/ /\ name \in OutputPorts
        /\ \A n \in DOMAIN nodes : nodes[n].kind = "po" => inputSpecs[n] # <<name>>
        /\ CreateModuleOutput(name)
  /\ UNCHANGED lowerVars

PortsVisited ==
  members > 0 \/ Len(nodes) = Cardinality(InputPorts) + Cardinality(OutputPorts)

-----------------------------------------------------------------------------
(* Making a call.                                                          *)

Next1(what) == calls # <<>> /\ Head(calls).call = what

Arg == Head(calls).name

Intend(name, ref, domain) ==
  intended' = IF name = NoName THEN intended
              ELSE intended \cup {[name |-> name, ref |-> ref, domain |-> domain]}

Tmp == temporaries[Len(temporaries)]

CallOperation ==
  /\ Next1("operation") /\ CreateOperation
  /\ operation' = Len(nodes) + 1
  /\ UNCHANGED <<instance, temporaries, intended>>

CallInstance ==
  /\ Next1("instance") /\ CreateInstance
  /\ instance' = Len(nodes) + 1
  /\ UNCHANGED <<operation, temporaries, intended>>

(* create_temporary_signal                                                 *)
CallTemporary ==
  /\ Next1("temporary")
  /\ Len(temporaries) < Len(Temporaries)
  /\ temporaries' = Append(temporaries, Temporaries[Len(temporaries) + 1])
  /\ UNCHANGED <<tigVars, operation, instance, intended>>

CallInput ==
  /\ \/ Next1("spec") /\ AddNodeInputSpec(operation, Arg)
     \/ Next1("instance_spec") /\ AddNodeInputSpec(instance, Arg)
     \/ Next1("instance_open") /\ AddNodeInput(instance, Unconnected)
     \/ Next1("instance_input") /\ AddNodeInput(instance, Ref(operation, 1))
     \/ /\ Next1("from_instance")
        /\ AddNodeInput(operation, Ref(instance, Len(nodes[instance].outputs)))
     \* the number of the conversion's output, which is its only one
     \/ Next1("from_conversion") /\ AddNodeInput(operation, Ref(instance, 1))
     \/ Next1("finalize") /\ FinalizeNodeInput(instance)
  /\ UNCHANGED <<operation, instance, temporaries, intended>>

CallOutput ==
  /\ \/ /\ Next1("temporary_output")
        /\ AddNodeOutput(operation, Tmp)
        /\ Intend(Tmp, NextOutput(operation), Comb)
     \/ /\ Next1("instance_output")
        /\ AddNodeOutput(instance, Arg)
        /\ Intend(Arg, NextOutput(instance), Comb)
     \/ /\ Next1("instance_temporary")
        /\ AddNodeOutput(instance, Tmp)
        /\ Intend(Tmp, NextOutput(instance), Comb)
     \/ /\ Next1("output")
        /\ AddNodeOutput(operation, Arg)
        /\ Intend(Arg, NextOutput(operation), Head(calls).domain)
  /\ UNCHANGED <<operation, instance, temporaries>>

BugClocking == Next1("output")

(* A clocked output is recorded before the handler goes on.                *)
Clocking == Next1("output") /\ Head(calls).domain # Comb

CallFf ==
  /\ Next1("ff")
  /\ RecordFf(Arg, Head(calls).domain, Ref(operation, Len(nodes[operation].outputs)))
  /\ UNCHANGED <<operation, instance, temporaries, intended>>

MakeCall ==
  /\ \/ CallOperation \/ CallInstance \/ CallTemporary
     \/ CallInput \/ CallOutput \/ CallFf
  /\ calls' = IF Clocking THEN <<[Head(calls) EXCEPT !.call = "ff"]>> \o Tail(calls)
              ELSE Tail(calls)
  /\ UNCHANGED <<ports, placed, members>>

(* The end of handle(InstanceBodySymbol).                                  *)
FinishModule ==
  /\ Idle
  /\ PortsVisited
  /\ \/ InsertFfs
     \/ \E name \in Name : InsertFf(name)
     \/ \E name \in Name : \E domain \in Clusters(name) : InsertClusterFf(name, domain)
     \/ InsertFfMerge
     \/ WireConnections
  /\ UNCHANGED lowerVars

Done == phase = "wired" /\ UNCHANGED vars

Init ==
  /\ TigInit
  /\ calls = <<>>
  /\ ports = <<>>
  /\ operation = 0
  /\ instance = 0
  /\ temporaries = <<>>
  /\ intended = {}
  /\ placed = <<>>
  /\ members = 0

Next ==
  \/ \E name \in InputPorts \cup OutputPorts : VisitPort(name)
  \/ PortsVisited /\ \E p \in Processes : VisitProcess(p)
  \/ PortsVisited /\ \E i \in Instances : VisitInstance(i)
  \/ VisitPortConnection
  \/ MakeCall
  \/ FinishModule
  \/ Done

Spec == Init /\ [][Next]_vars

-----------------------------------------------------------------------------
(* TigDumper: which drivers the dumped text gives each name, and under     *)
(* which clock.                                                            *)

Output(name, ref, domain) == [name |-> name, ref |-> ref, domain |-> domain]

(* emit_instances, and the operations of emit_combinational: every output  *)
(* that still carries a name.                                              *)
EmittedPlain ==
  UNION {{Output(nodes[n].outputs[p], Ref(n, p), Comb) :
            p \in {m \in DOMAIN nodes[n].outputs : nodes[n].outputs[m] # NoName}} :
         n \in {m \in DOMAIN nodes : nodes[m].kind \in {"op", "instance"}}}

(* The rest of emit_combinational: a merge that carries a name repeats the *)
(* operations behind it; an instance behind it drives the name by itself.  *)
EmittedMerges ==
  UNION {{Output(nodes[n].outputs[1], ref, Comb) :
            ref \in {r \in Range(nodes[n].inputs) : nodes[r.node].kind = "op"}} :
         n \in {m \in DOMAIN nodes : nodes[m].kind = "merge" /\ nodes[m].outputs[1] # NoName}}

(* emit_ff_data: the operations an unnamed merge stands for.               *)
FfData(ref) ==
  IF nodes[ref.node].kind = "merge" /\ Carried(ref) = NoName
  THEN Range(nodes[ref.node].inputs) ELSE {ref}

(* emit_sequential: a register without a name has that of its kFfMerge.    *)
FfName(n) ==
  IF nodes[n].outputs[1] # NoName THEN nodes[n].outputs[1]
  ELSE LET over == CHOOSE m \in DOMAIN nodes :
                     nodes[m].kind = "ff_merge" /\ Ref(n, 1) \in Range(nodes[m].inputs)
       IN  nodes[over].outputs[1]

FfDomain(n) ==
  LET ff == nodes[n]
      reset == Len(ff.inputs) = 3
  IN  [clk |-> Carried(ff.inputs[2]), clkEdge |-> ff.clkEdge,
       rst |-> IF reset THEN Carried(ff.inputs[3]) ELSE NoName,
       rstEdge |-> IF reset THEN ff.rstEdge ELSE AnyEdge]

EmittedFfs ==
  UNION {{Output(FfName(n), ref, FfDomain(n)) : ref \in FfData(nodes[n].inputs[1])} :
         n \in {m \in DOMAIN nodes : nodes[m].kind = "ff"}}

Emitted == EmittedPlain \cup EmittedMerges \cup EmittedFfs

-----------------------------------------------------------------------------
(* Properties.                                                             *)

(* Whoever asks for a name is connected, in the end, to the output that    *)
(* carries it, whether it asked before its driver, between two drivers of  *)
(* it or before they were split into registers; only a name that is        *)
(* neither driven nor an input of the module is left floating.             *)
ReadersAreConnected ==
  phase = "wired" =>
    \A n \in DOMAIN inputSpecs : \A k \in DOMAIN inputSpecs[n] :
      LET name == inputSpecs[n][k]
          isInput == \E m \in DOMAIN nodes : nodes[m].kind = "pi" /\ nodes[m].outputs = <<name>>
      IN  name # NoName =>
            IF Driven(name) \/ isInput
            THEN nodes[n].inputs[k] # Unconnected /\ Carried(nodes[n].inputs[k]) = name
            ELSE nodes[n].inputs[k] = Unconnected

(* No register is dumped with a clock or reset that nothing drives:        *)
(* emit_sequential looks up the node behind it without a check.            *)
ClocksAreDriven ==
  phase = "wired" =>
    \A n \in DOMAIN nodes : nodes[n].kind = "ff" =>
      \A k \in DOMAIN nodes[n].inputs : nodes[n].inputs[k] # Unconnected

(* What the dump says is what the text said: every driver of every name    *)
(* once, under the clock and reset it was written with, and nothing else,  *)
(* however many drivers a name has, in whatever order the members come.    *)
(* (Unless a clock floats: then there is no dump to speak of.)             *)
EmittedAsWritten ==
  phase = "wired" /\ ClocksAreDriven =>
    Emitted = {[d EXCEPT !.domain = IF @ = Comb THEN Comb ELSE Normal(@)] : d \in intended}

(* The inputs of an instance are connected in the order of its ports, each *)
(* to what now drives the signal the text connects; emit_instances takes   *)
(* them by position.                                                       *)
InstanceInputsInOrder ==
  phase = "wired" =>
    \A j \in DOMAIN placed :
      LET inputs == nodes[placed[j].node].inputs
      IN  /\ Len(inputs) = Len(placed[j].ins)
          /\ \A k \in DOMAIN inputs :
               LET c == placed[j].ins[k]
               IN  CASE c.how = "open" -> inputs[k] = Unconnected
                     [] c.how = "name" ->
                          IF signalMap[c.name] = Unconnected THEN inputs[k] = Unconnected
                          ELSE inputs[k] # Unconnected /\ Carried(inputs[k]) = c.name
                     [] c.how = "expr" ->
                          /\ inputs[k] # Unconnected
                          /\ nodes[inputs[k].node].kind = "op"
                          /\ inputSpecs[inputs[k].node] = <<c.name>>
=============================================================================

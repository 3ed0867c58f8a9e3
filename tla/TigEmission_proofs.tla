-------------------------- MODULE TigEmission_proofs --------------------------
(***************************************************************************)
(* Proofs about what the dump of a module body says: the drivers the text  *)
(* has, each under the clock and reset it was written with, and the inputs *)
(* of instances, each connected to what the text connects.                 *)
(*                                                                         *)
(* A driver is an output (intended).  Until insert_ffs takes a clocked     *)
(* driver up it waits (Waiting); what signal_maps_ has for a name stands   *)
(* for the drivers of the name (Mapped), then for their registers          *)
(* (Registering).                                                          *)
(***************************************************************************)
EXTENDS TigLowering_proofs

-----------------------------------------------------------------------------
(* What is still to be driven.                                             *)

Demand(name, domain, how) == [name |-> name, domain |-> domain, how |-> how]

Nothing == Demand(NoName, Comb, "open")

CallDemand(c) ==
  CASE c.call = "output" -> Demand(c.name, c.domain, "expr")
    [] c.call = "instance_output" /\ c.name # NoName -> Demand(c.name, Comb, "name")
    [] OTHER -> Nothing

PortDemand(p) ==
  IF p.port = "out" THEN Demand(p.conn.name, Comb, p.conn.how) ELSE Nothing

(* By the calls of the handler in progress, then by the ports to visit.    *)
Demands(cs, ps) ==
  [k \in 1..(Len(cs) + Len(ps)) |->
     IF k <= Len(cs) THEN CallDemand(cs[k]) ELSE PortDemand(ps[k - Len(cs)])]

Coming == Demands(calls, ports)

Permitted(x) == IF x.how = "name" THEN ~Driven(x.name) ELSE MayDrive(x.name, x.domain)

Apart(x, y) == x.name = y.name => x.how = "expr" /\ y.how = "expr" /\ x.domain = y.domain

(* What is still to be driven may be, in any order.                        *)
Legal ==
  \A k \in DOMAIN Coming :
    Coming[k].how # "open" =>
      /\ Permitted(Coming[k])
      /\ \A l \in DOMAIN Coming : l # k /\ Coming[l].how # "open" => Apart(Coming[k], Coming[l])

Locals ==
  /\ operation # 0 => operation \in DOMAIN nodes /\ nodes[operation].kind = "op"
  /\ instance # 0 => instance \in DOMAIN nodes /\ nodes[instance].kind = "instance"

(* The ports come before the members, and insert_ffs after them.           *)
InTurn ==
  /\ members \in Nat
  /\ members = 0 => Idle
  /\ phase # "visit" => Idle

Members == Legal /\ Locals /\ InTurn

-----------------------------------------------------------------------------
(* The drivers of the text and the netlist.                                *)

Refs(name) == {d.ref : d \in {e \in intended : e.name = name}}

RefsUnder(name, domain) ==
  {d.ref : d \in {e \in intended : e.name = name /\ e.domain # Comb /\ Normal(e.domain) = domain}}

Behind(ref) ==
  IF nodes[ref.node].kind = "merge" THEN Range(nodes[ref.node].inputs) ELSE {ref}

(* An output is one driver of one name, under clocks or not as the others  *)
(* of the name are.                                                        *)
Intents ==
  /\ \A d \in intended :
       /\ d = Output(d.name, d.ref, d.domain)
       /\ d.name \in Name \ InputPorts /\ d.domain \in Domain \cup {Comb}
       /\ d.ref \in Reference /\ Existing(d.ref) /\ Driver(d.ref, {"op", "instance"})
  /\ \A d, e \in intended : d.ref = e.ref => d = e
  /\ \A d, e \in intended : d.name = e.name => (d.domain = Comb <=> e.domain = Comb)

(* An output of an instance drives its name alone, and keeps it.           *)
Alone ==
  /\ \A d \in intended : nodes[d.ref.node].kind = "instance" =>
       /\ d.domain = Comb
       /\ \A e \in intended : e.name = d.name => e = d
       /\ Carried(d.ref) = d.name
  /\ \A n \in DOMAIN nodes : \A p \in DOMAIN nodes[n].outputs :
       nodes[n].kind = "instance" /\ nodes[n].outputs[p] # NoName
         => Output(nodes[n].outputs[p], Ref(n, p), Comb) \in intended

(* The clocked drivers that wait for their register: pending_ffs_, and the *)
(* one record_ff is called for next.                                       *)
Waiting ==
  IF Next1("ff")
  THEN pendingFfs \cup {Output(Arg, Ref(operation, Len(nodes[operation].outputs)), Head(calls).domain)}
  ELSE pendingFfs

(* They are all the clocked drivers, until insert_ffs takes them away by   *)
(* clusters, those of one name before those of the next.                   *)
Recorded ==
  /\ \A f \in Waiting : f \in intended /\ f.domain # Comb
  /\ \A d \in intended :
       d.domain # Comb /\ d \notin Waiting =>
         /\ phase # "visit"
         /\ \A e \in Waiting : e.name = d.name =>
              ffMerge.name = d.name /\ Normal(d.domain) # Normal(e.domain)
  /\ ffMerge # NoMerge => Clocked(ffMerge.name)

(* No register was put behind the drivers of the name yet, if any will be. *)
Direct(name) ==
  Unclocked(name) \/ (ffMerge.name # name /\ \E d \in Waiting : d.name = name)

(* What signal_maps_ has for a name stands for its drivers, or registers.  *)
Mapped ==
  \A name \in Name : Driven(name) =>
    IF Direct(name) THEN Behind(signalMap[name]) = Refs(name)
    ELSE ffMerge.name = name \/ nodes[signalMap[name].node].kind \in {"ff", "ff_merge"}

Over(m, n) == nodes[m].kind = "ff_merge" /\ Ref(n, 1) \in Range(nodes[m].inputs)

(* Register n has the name, or hands it to its kFfMerge node.              *)
Named(n, name) ==
  \/ nodes[n].outputs[1] = name
  \/ /\ nodes[n].outputs[1] = NoName
     /\ \A m \in DOMAIN nodes : Over(m, n) => nodes[m].outputs[1] = name
     /\ Ref(n, 1) \in Range(ffMerge.ffs) => ffMerge.name = name
     /\ Ref(n, 1) \in Range(ffMerge.ffs) \/ \E m \in DOMAIN nodes : Over(m, n)

Registers(n, name, domain) ==
  /\ nodes[n].kind = "ff"
  /\ Behind(nodes[n].inputs[1]) = RefsUnder(name, domain)
  /\ nodes[nodes[n].inputs[1].node].kind = "merge" => Carried(nodes[n].inputs[1]) = NoName
  /\ nodes[n].clkEdge = domain.clkEdge /\ nodes[n].rstEdge = domain.rstEdge
  /\ inputSpecs[n] = FfSpecs(domain)
  /\ Named(n, name)

(* Every register is for the drivers of a name under one clock domain, and *)
(* every clocked driver that does not wait has its register.               *)
Registering ==
  /\ \A n \in DOMAIN nodes : nodes[n].kind = "ff" =>
       \E d \in intended : d.domain # Comb /\ Registers(n, d.name, Normal(d.domain))
  /\ \A d \in intended : d.domain # Comb /\ d \notin Waiting =>
       \E n \in DOMAIN nodes : Registers(n, d.name, Normal(d.domain))

Emission == Intents /\ Alone /\ Recorded /\ Mapped /\ Registering

-----------------------------------------------------------------------------
(* The demands of a list of calls and a list of ports.                     *)

LEMMA DemandOfCall ==
  ASSUME NEW c \in CallType, NEW x, x = CallDemand(c)
  PROVE  /\ c.call = "output" => x = Demand(c.name, c.domain, "expr")
         /\ c.call = "instance_output" /\ c.name # NoName => x = Demand(c.name, Comb, "name")
         /\ c.call = "instance_output" /\ c.name = NoName => x.how = "open"
         /\ c.call \notin {"output", "instance_output"} => x.how = "open"
         /\ x.how # "open" => x.name \in Given
         /\ x.how \in {"open", "name", "expr"}
<1>1. CASE c.call = "output"
  <2>1. x = Demand(c.name, c.domain, "expr") /\ c.name \in Given
    BY <1>1, CallFields DEF CallDemand
  <2>2. QED BY <1>1, <2>1 DEF Demand
<1>2. CASE c.call = "instance_output" /\ c.name # NoName
  <2>1. x = Demand(c.name, Comb, "name") /\ c.name \in Given
    BY <1>2, CallFields DEF CallDemand
  <2>2. QED BY <1>2, <2>1 DEF Demand
<1>3. CASE c.call # "output" /\ ~(c.call = "instance_output" /\ c.name # NoName)
  <2>1. x = Nothing
    BY <1>3 DEF CallDemand
  <2>2. QED BY <1>3, <2>1 DEF Demand, Nothing
<1>4. QED BY <1>1, <1>2, <1>3

LEMMA DemandOfPort ==
  ASSUME NEW p \in PortType, NEW x, x = PortDemand(p)
  PROVE  /\ p.port = "out" => x = Demand(p.conn.name, Comb, p.conn.how)
         /\ p.port # "out" => x.how = "open"
         /\ x.how # "open" => x.name \in Given
<1>1. p.port = "out" => p.conn \in Connection /\ p.conn.name \in Given \cup {NoName}
  BY DEF PortType
<1>2. p.port = "out" /\ p.conn.how # "open" => p.conn.name \in Given
  BY <1>1, Connections, NoNameIsNoName
<1>3. /\ p.port = "out" => x = Demand(p.conn.name, Comb, p.conn.how)
      /\ p.port # "out" => x = Nothing
  BY DEF PortDemand
<1>4. QED BY <1>2, <1>3 DEF Demand, Nothing

Listed(f, cs, ps) ==
  /\ DOMAIN f = 1..(Len(cs) + Len(ps))
  /\ \A k \in DOMAIN cs : k \in DOMAIN f /\ f[k] = CallDemand(cs[k])
  /\ \A l \in DOMAIN ps : Len(cs) + l \in DOMAIN f /\ f[Len(cs) + l] = PortDemand(ps[l])
  /\ \A k \in DOMAIN f :
       \/ k \in DOMAIN cs /\ f[k] = CallDemand(cs[k])
       \/ k - Len(cs) \in DOMAIN ps /\ f[k] = PortDemand(ps[k - Len(cs)])
  /\ \A k \in DOMAIN f : f[k].how # "open" => f[k].name \in Given

LEMMA DemandList ==
  ASSUME NEW cs \in Seq(CallType), NEW ps \in Seq(PortType), NEW f, f = Demands(cs, ps)
  PROVE  Listed(f, cs, ps)
<1>1. /\ DOMAIN f = 1..(Len(cs) + Len(ps))
      /\ \A k \in DOMAIN f :
           f[k] = IF k <= Len(cs) THEN CallDemand(cs[k]) ELSE PortDemand(ps[k - Len(cs)])
  BY DEF Demands
<1>2. /\ Len(cs) \in Nat /\ Len(ps) \in Nat /\ DOMAIN cs = 1..Len(cs) /\ DOMAIN ps = 1..Len(ps)
  OBVIOUS
<1>3. ASSUME NEW k \in DOMAIN cs
      PROVE  k \in DOMAIN f /\ f[k] = CallDemand(cs[k])
  BY <1>1, <1>2
<1>4. ASSUME NEW l \in DOMAIN ps
      PROVE  Len(cs) + l \in DOMAIN f /\ f[Len(cs) + l] = PortDemand(ps[l])
  <2>1. Len(cs) + l \in DOMAIN f /\ ~(Len(cs) + l <= Len(cs)) /\ (Len(cs) + l) - Len(cs) = l
    BY <1>1, <1>2
  <2>2. QED BY <1>1, <2>1
<1>5. ASSUME NEW k \in DOMAIN f
      PROVE  k \in DOMAIN cs \/ (k - Len(cs) \in DOMAIN ps /\ f[k] = PortDemand(ps[k - Len(cs)]))
  BY <1>1, <1>2
<1>6. ASSUME NEW k \in DOMAIN f, f[k].how # "open"
      PROVE  f[k].name \in Given
  <2>1. CASE k \in DOMAIN cs
    BY <1>3, <1>6, <2>1, DemandOfCall
  <2>2. CASE k - Len(cs) \in DOMAIN ps /\ f[k] = PortDemand(ps[k - Len(cs)])
    BY <1>6, <2>2, DemandOfPort
  <2>3. QED BY <1>5, <2>1, <2>2
<1>7. \A k \in DOMAIN f :
        \/ k \in DOMAIN cs /\ f[k] = CallDemand(cs[k])
        \/ k - Len(cs) \in DOMAIN ps /\ f[k] = PortDemand(ps[k - Len(cs)])
  BY <1>3, <1>5
<1>8. QED BY <1>1, <1>3, <1>4, <1>6, <1>7 DEF Listed

(* The calls for a port drive what the port drives, with the last of them. *)
LEMMA DemandsOfPortCalls ==
  ASSUME NEW p \in PortType, NEW q, q = PortCalls(p)
  PROVE  /\ q \in Seq(CallType) /\ Len(q) >= 1
         /\ \A k \in DOMAIN q :
              /\ q[k].call # "ff"
              /\ CallDemand(q[k]).how # "open" => k = Len(q) /\ CallDemand(q[k]) = PortDemand(p)
<1>1. q \in Seq(CallType)
  BY CallsOfPorts
<1>2. /\ p.port \in {"in", "out", "end"} /\ p.conn \in Connection
      /\ p.port = "out" => p.conn.name \in Given \cup {NoName}
  BY DEF PortType
<1>3. PICK c : c = p.conn
  OBVIOUS
<1>4. c.how \in {"open", "name", "expr"} /\ (c.how = "open" => c.name = NoName)
      /\ (c.how # "open" => c.name \in Name)
  BY <1>2, <1>3, Connections
<1>5. ASSUME \A k \in DOMAIN q : q[k].call \notin {"ff", "output", "instance_output"}
      PROVE  \A k \in DOMAIN q : q[k].call # "ff" /\ CallDemand(q[k]).how = "open"
  BY <1>1, <1>5, DemandOfCall
<1>6. CASE p.port = "in"
  <2>1. q = InputCalls(c)
    BY <1>3, <1>6 DEF PortCalls
  <2>2. CASE c.how = "open" \/ c.how = "name"
    <3>1. q = <<Call("instance_open", NoName)>> \/ q = <<Call("instance_spec", c.name)>>
      BY <2>1, <2>2 DEF InputCalls
    <3>2. Len(q) = 1 /\ DOMAIN q = {1} /\ q[1].call \in {"instance_open", "instance_spec"}
      BY <3>1 DEF Call
    <3>3. QED BY <1>1, <1>5, <3>2
  <2>3. CASE c.how = "expr"
    <3>1. q = <<Call("temporary", NoName), Call("operation", NoName), Call("spec", c.name),
                Call("temporary_output", NoName), Call("instance_input", NoName)>>
      BY <2>1, <2>3 DEF InputCalls
    <3>2. Len(q) = 5 /\ DOMAIN q = 1..5
      BY <3>1
    <3>3. /\ q[1].call = "temporary" /\ q[2].call = "operation" /\ q[3].call = "spec"
          /\ q[4].call = "temporary_output" /\ q[5].call = "instance_input"
      BY <3>1 DEF Call
    <3>4. \A k \in DOMAIN q : q[k].call \notin {"ff", "output", "instance_output"}
      BY <3>2, <3>3
    <3>5. QED BY <1>1, <1>5, <3>2, <3>4
  <2>4. QED BY <1>4, <2>2, <2>3
<1>7. CASE p.port = "out"
  <2>1. q = OutputCalls(c) /\ PortDemand(p) = Demand(c.name, Comb, c.how)
    BY <1>3, <1>7 DEF PortCalls, PortDemand
  <2>2. CASE c.how = "open" \/ c.how = "name"
    <3>1. q = <<Call("instance_output", c.name)>>
      BY <1>4, <2>1, <2>2 DEF OutputCalls
    <3>2. Len(q) = 1 /\ DOMAIN q = {1} /\ q[1].call = "instance_output" /\ q[1].name = c.name
          /\ q[1] \in CallType
      BY <1>1, <3>1 DEF Call
    <3>3. CASE c.how = "open"
      <4>1. CallDemand(q[1]).how = "open"
        BY <1>4, <3>2, <3>3, DemandOfCall
      <4>2. QED BY <1>1, <3>2, <4>1
    <3>4. CASE c.how = "name"
      <4>1. CallDemand(q[1]) = PortDemand(p)
        BY <1>4, <2>1, <3>2, <3>4, NoNameIsNoName, DemandOfCall
      <4>2. QED BY <1>1, <3>2, <4>1
    <3>5. QED BY <2>2, <3>3, <3>4
  <2>3. CASE c.how = "expr"
    <3>1. PICK t, i, o, f, tout, g, last :
            /\ t = Call("temporary", NoName) /\ i = Call("instance_temporary", NoName)
            /\ o = Call("operation", NoName) /\ f = Call("from_instance", NoName)
            /\ tout = Call("temporary_output", NoName) /\ g = Call("from_conversion", NoName)
            /\ last = [call |-> "output", name |-> c.name, domain |-> Comb]
      OBVIOUS
    <3>2. \A x \in {t, i, o, f, tout, g} : x.call \notin {"ff", "output", "instance_output"}
      BY <3>1 DEF Call
    <3>3. q = <<t, i, o, f, last>> \/ q = <<t, i, o, f, t, tout, o, g, last>>
      BY <2>1, <2>3, <3>1 DEF OutputCalls
    <3>4. PICK n \in {5, 9} : /\ Len(q) = n /\ DOMAIN q = 1..n /\ q[n] = last
                              /\ \A k \in 1..n : k # n => q[k] \in {t, i, o, f, tout, g}
      <4>1. CASE q = <<t, i, o, f, last>>
        <5>1. /\ Len(q) = 5 /\ DOMAIN q = 1..5 /\ q[5] = last
              /\ \A k \in 1..5 : k # 5 => q[k] \in {t, i, o, f, tout, g}
          BY <4>1
        <5>2. QED BY <5>1
      <4>2. CASE q = <<t, i, o, f, t, tout, o, g, last>>
        <5>1. /\ Len(q) = 9 /\ DOMAIN q = 1..9 /\ q[9] = last
              /\ \A k \in 1..9 : k # 9 => q[k] \in {t, i, o, f, tout, g}
          BY <4>2
        <5>2. QED BY <5>1
      <4>3. QED BY <3>3, <4>1, <4>2
    <3>5. \A k \in DOMAIN q : k # n =>
            q[k].call \notin {"ff", "output", "instance_output"} /\ q[k] \in CallType
      BY <1>1, <3>2, <3>4
    <3>6. \A k \in DOMAIN q : k # n => CallDemand(q[k]).how = "open"
      BY <3>5, DemandOfCall
    <3>7. last \in CallType /\ last.call = "output" /\ last.name = c.name /\ last.domain = Comb
      <4>1. n \in DOMAIN q
        BY <3>4
      <4>2. q[n] \in CallType
        BY <1>1, <4>1
      <4>3. QED BY <3>1, <3>4, <4>2
    <3>8. CallDemand(last) = PortDemand(p)
      BY <2>1, <2>3, <3>7, DemandOfCall
    <3>9. QED BY <1>1, <3>4, <3>5, <3>6, <3>7, <3>8
  <2>4. QED BY <1>4, <2>2, <2>3
<1>8. CASE p.port = "end"
  <2>1. q = <<Call("finalize", NoName)>>
    BY <1>8 DEF PortCalls
  <2>2. Len(q) = 1 /\ DOMAIN q = {1} /\ q[1].call = "finalize"
    BY <2>1 DEF Call
  <2>3. QED BY <1>1, <1>5, <2>2
<1>9. QED BY <1>2, <1>6, <1>7, <1>8

PortsListed(q, ins, outs) ==
  /\ q \in Seq(PortType) /\ Len(q) = Len(ins) + Len(outs) + 1
  /\ ins \in Seq(Connection) /\ outs \in Seq(Connection)
  /\ \A k \in DOMAIN ins : k \in DOMAIN q /\ q[k] = Port("in", ins[k])
  /\ \A k \in DOMAIN q :
       \/ k \in DOMAIN ins
       \/ k - Len(ins) \in DOMAIN outs /\ q[k] = Port("out", outs[k - Len(ins)])
       \/ q[k].port = "end"

LEMMA InstancePortList ==
  ASSUME NEW i \in Instances, NEW q, q = InstancePorts(i)
  PROVE  PortsListed(q, i.ins, i.outs)
<1>1. PICK ins, outs : ins = i.ins /\ outs = i.outs
  OBVIOUS
<1>2. ins \in Seq(Connection) /\ outs \in Seq(Connection)
  BY <1>1, MembersAreOverNames
<1>3. PICK a, b, c, e : /\ a = InPorts(ins) /\ b = OutPorts(outs) /\ c = <<e>>
                        /\ e = Port("end", Open)
  OBVIOUS
<1>4. /\ a = [k \in 1..Len(ins) |-> Port("in", ins[k])]
      /\ b = [k \in 1..Len(outs) |-> Port("out", outs[k])]
      /\ DOMAIN ins = 1..Len(ins) /\ DOMAIN outs = 1..Len(outs)
      /\ Len(ins) \in Nat /\ Len(outs) \in Nat
  BY <1>2, <1>3 DEF InPorts, OutPorts
<1> DEFINE S == {a[k] : k \in DOMAIN a} \cup {b[k] : k \in DOMAIN b} \cup {e}
<1>5. /\ a \in Seq(S) /\ b \in Seq(S) /\ c \in Seq(S)
      /\ Len(a) = Len(ins) /\ Len(b) = Len(outs) /\ Len(c) = 1 /\ c[1] = e
      /\ DOMAIN a = 1..Len(ins) /\ DOMAIN b = 1..Len(outs) /\ DOMAIN c = {1}
  <2>1. DOMAIN a = 1..Len(ins) /\ DOMAIN b = 1..Len(outs)
    BY <1>4
  <2>2. /\ \A k \in 1..Len(ins) : a[k] \in S
        /\ \A k \in 1..Len(outs) : b[k] \in S
        /\ e \in S
    BY <2>1
  <2> HIDE DEF S
  <2>3. a \in Seq(S) /\ Len(a) = Len(ins)
    BY <1>4, <2>1, <2>2
  <2>4. b \in Seq(S) /\ Len(b) = Len(outs)
    BY <1>4, <2>1, <2>2
  <2>5. c \in Seq(S) /\ Len(c) = 1 /\ c[1] = e /\ DOMAIN c = {1}
    BY <1>3, <2>2
  <2>6. QED BY <2>1, <2>3, <2>4, <2>5
<1> HIDE DEF S
<1>6. PICK front : front = a \o b
  OBVIOUS
<1>7. front \in Seq(S) /\ Joined(a, b, front)
  BY <1>5, <1>6, Catenated
<1>8. q = front \o c
  BY <1>1, <1>3, <1>6 DEF InstancePorts
<1>9. q \in Seq(S) /\ Joined(front, c, q)
  BY <1>5, <1>7, <1>8, Catenated
<1>10. /\ Len(front) = Len(ins) + Len(outs) /\ Len(q) = Len(ins) + Len(outs) + 1
  BY <1>5, <1>7, <1>9 DEF Joined
<1>11. ASSUME NEW k \in DOMAIN ins
       PROVE  k \in DOMAIN q /\ q[k] = Port("in", ins[k])
  BY <1>4, <1>5, <1>7, <1>9 DEF Joined
<1>12. ASSUME NEW k \in DOMAIN q
       PROVE  \/ k \in DOMAIN ins
              \/ k - Len(ins) \in DOMAIN outs /\ q[k] = Port("out", outs[k - Len(ins)])
              \/ q[k].port = "end"
  <2>1. CASE k \in DOMAIN front /\ q[k] = front[k]
    <3>1. CASE \E l \in DOMAIN b : k = Len(a) + l /\ front[k] = b[l]
      <4>1. PICK l \in DOMAIN b : k = Len(a) + l /\ front[k] = b[l]
        BY <3>1
      <4>2. l = k - Len(ins) /\ l \in DOMAIN outs /\ b[l] = Port("out", outs[l])
        BY <1>4, <1>5, <4>1
      <4>3. QED BY <2>1, <4>1, <4>2
    <3>2. QED BY <1>4, <1>5, <1>7, <2>1, <3>1 DEF Joined
  <2>2. CASE \E l \in DOMAIN c : q[k] = c[l]
    <3>1. q[k] = e
      BY <1>5, <2>2
    <3>2. e.port = "end"
      BY <1>3 DEF Port
    <3>3. QED BY <3>1, <3>2
  <2>3. QED BY <1>9, <1>12, <2>1, <2>2 DEF Joined
<1>13. q \in Seq(PortType)
  BY InstancePortTypes
<1>14. PortsListed(q, ins, outs)
  BY <1>2, <1>10, <1>11, <1>12, <1>13 DEF PortsListed
<1>15. QED BY <1>1, <1>14

-----------------------------------------------------------------------------
(* What is to come stays legal.                                            *)

LEMMA Shifted == \A k, l, s \in Int : l # k => l + s # k + s
  OBVIOUS

LEMMA LegalMoves ==
  ASSUME Legal, NEW s \in Int, NEW f, f = Coming, NEW g, g = Coming',
         \A k \in DOMAIN g : k \in Int,
         \A k \in DOMAIN g : g[k].how # "open" => k + s \in DOMAIN f /\ f[k + s] = g[k],
         \A k \in DOMAIN g : \A x : x = g[k] /\ x.how # "open" /\ Permitted(x) => Permitted(x)'
  PROVE  Legal'
<1>1. ASSUME NEW k \in DOMAIN g, NEW x, x = g[k], x.how # "open"
      PROVE  /\ Permitted(x)'
             /\ \A l \in DOMAIN g : l # k /\ g[l].how # "open" => Apart(x, g[l])
  <2>1. k + s \in DOMAIN f /\ f[k + s] = x
    BY <1>1
  <2>2. Permitted(x)
    BY <1>1, <2>1 DEF Legal
  <2>3. ASSUME NEW l \in DOMAIN g, l # k, g[l].how # "open"
        PROVE  Apart(x, g[l])
    <3>1. l + s \in DOMAIN f /\ f[l + s] = g[l]
      BY <2>3
    <3>2. k \in Int /\ l \in Int
      OBVIOUS
    <3>3. l + s # k + s
      BY <2>3, <3>2, Shifted
    <3>4. QED BY <1>1, <2>1, <2>3, <3>1, <3>3 DEF Legal
  <2>4. QED BY <1>1, <2>2, <2>3
<1>2. ASSUME NEW k \in DOMAIN g, g[k].how # "open"
      PROVE  Permitted(Coming[k])'
  <2>1. PICK x : x = g[k]
    OBVIOUS
  <2>2. Permitted(x)'
    BY <1>1, <1>2, <2>1
  <2>3. Coming'[k] = x
    BY <2>1
  <2>4. QED BY <2>2, <2>3 DEF Permitted, Driven, MayDrive, ByInstance, Clocked, Unclocked
<1>3. QED BY <1>1, <1>2 DEF Legal, Apart

(* What may be driven is not disturbed by what drives something else.      *)
LEMMA StillPermitted ==
  ASSUME Kept, Intents, NEW x, Permitted(x),
         \A d \in intended' : d \in intended \/ d.name # x.name,
         \A d \in intended : d \in intended'
  PROVE  Permitted(x)'
<1>1. \A d \in intended : nodes'[d.ref.node].kind = nodes[d.ref.node].kind
  BY DEF Kept, Intents, Existing, Driver
<1>2. /\ Driven(x.name)' <=> Driven(x.name)
      /\ Clocked(x.name)' <=> Clocked(x.name)
      /\ Unclocked(x.name)' <=> Unclocked(x.name)
      /\ ByInstance(x.name)' <=> ByInstance(x.name)
  BY <1>1 DEF Driven, Clocked, Unclocked, ByInstance
<1>3. QED BY <1>2 DEF Permitted, MayDrive

(* Nor is another driver of the name under the same clock.                 *)
LEMMA StillPermittedBeside ==
  ASSUME Kept, Intents, NEW x, Permitted(x), x.how = "expr",
         \A d \in intended : d \in intended',
         \A d \in intended' :
           \/ d \in intended
           \/ /\ d.domain = x.domain
              /\ nodes'[d.ref.node].kind # "instance"
  PROVE  Permitted(x)'
<1>1. \A d \in intended : nodes'[d.ref.node].kind = nodes[d.ref.node].kind
  BY DEF Kept, Intents, Existing, Driver
<1>2. ByInstance(x.name)' => ByInstance(x.name)
  BY <1>1 DEF ByInstance
<1>3. /\ x.domain = Comb /\ Clocked(x.name)' => Clocked(x.name)
      /\ x.domain # Comb /\ Unclocked(x.name)' => Unclocked(x.name)
  BY DEF Clocked, Unclocked
<1>4. QED BY <1>2, <1>3 DEF Permitted, MayDrive

LEMMA LegalProcessCalls ==
  ASSUME Handlers, Intents, Kept, NEW p \in Processes, LegalProcess(p), intended' = intended,
         ports = <<>>, calls' = ProcessCalls(p), ports' = ports
  PROVE  Legal'
<1>1. PICK q, none : q = ProcessCalls(p) /\ none = ports'
  OBVIOUS
<1>2. /\ q \in Seq(CallType) /\ none \in Seq(PortType) /\ Len(none) = 0
      /\ \A k \in DOMAIN q :
           /\ q[k].call \in {"operation", "spec", "output"}
           /\ q[k].call = "output" =>
                q[k].domain = p.domain /\ \E m \in DOMAIN p.writes : q[k].name = p.writes[m]
  BY <1>1, Processed DEF Handlers, LowerTypeOK
<1>3. PICK g : g = Demands(q, none)
  OBVIOUS
<1>4. g = Coming'
  BY <1>1, <1>3 DEF Coming
<1>5. \A k \in DOMAIN g : k \in DOMAIN q /\ g[k] = CallDemand(q[k])
  <2>1. DOMAIN none = {}
    BY <1>2
  <2>2. Listed(g, q, none)
    BY <1>2, <1>3, DemandList
  <2>3. QED BY <2>1, <2>2 DEF Listed
<1>6. ASSUME NEW k \in DOMAIN g, NEW x, x = g[k], x.how # "open"
      PROVE  /\ x.how = "expr" /\ x.domain = p.domain
             /\ MayDrive(x.name, x.domain)
  <2>1. q[k] \in CallType /\ x = CallDemand(q[k])
    BY <1>2, <1>5, <1>6
  <2>2. q[k].call = "output"
    BY <1>2, <1>5, <1>6, <2>1, DemandOfCall
  <2>3. x = Demand(q[k].name, q[k].domain, "expr")
    BY <2>1, <2>2, DemandOfCall
  <2>4. x.how = "expr" /\ x.domain = q[k].domain /\ x.name = q[k].name
    BY <2>3 DEF Demand
  <2>5. q[k].domain = p.domain /\ \E m \in DOMAIN p.writes : q[k].name = p.writes[m]
    BY <1>2, <1>5, <2>2
  <2>6. QED BY <2>4, <2>5 DEF LegalProcess
<1>7. ASSUME NEW k \in DOMAIN g, g[k].how # "open"
      PROVE  Permitted(Coming[k])'
  <2>1. PICK x : x = g[k]
    OBVIOUS
  <2>2. Permitted(x)
    BY <1>6, <1>7, <2>1 DEF Permitted
  <2>3. Permitted(x)'
    BY <2>2, StillPermitted
  <2>4. Coming'[k] = x
    BY <1>4, <2>1
  <2>5. QED BY <2>3, <2>4 DEF Permitted, Driven, MayDrive, ByInstance, Clocked, Unclocked
<1>8. \A k, l \in DOMAIN g : g[k].how # "open" /\ g[l].how # "open" => Apart(g[k], g[l])
  BY <1>6 DEF Apart
<1>9. QED BY <1>4, <1>7, <1>8 DEF Legal, Apart

LEMMA LegalInstancePorts ==
  ASSUME Intents, Kept, NEW i \in Instances, LegalInstance(i), intended' = intended,
         calls' = <<Call("instance", NoName)>>, ports' = InstancePorts(i)
  PROVE  Legal'
<1>1. PICK cs, ps, outs, len :
        /\ cs = <<Call("instance", NoName)>> /\ ps = InstancePorts(i)
        /\ outs = i.outs /\ len = Len(i.ins)
  OBVIOUS
<1>2. cs \in Seq(CallType) /\ Len(cs) = 1 /\ DOMAIN cs = {1} /\ cs[1].call = "instance"
      /\ cs[1] \in CallType
  <2>1. Call("instance", NoName) \in CallType /\ Call("instance", NoName).call = "instance"
    BY DEF Call, CallType, NoArg
  <2>2. QED BY <1>1, <2>1
<1>3. /\ ps \in Seq(PortType) /\ outs \in Seq(Connection) /\ len \in Nat
      /\ \A k \in DOMAIN ps :
           \/ \E c : ps[k] = Port("in", c)
           \/ k - len \in DOMAIN outs /\ ps[k] = Port("out", outs[k - len])
           \/ ps[k].port = "end"
  <2>1. PICK ins : ins = i.ins
    OBVIOUS
  <2>2. PortsListed(ps, ins, outs)
    BY <1>1, <2>1, InstancePortList
  <2>3. len \in Nat /\ len = Len(ins)
    BY <1>1, <2>1, <2>2 DEF PortsListed
  <2>4. QED BY <2>1, <2>2, <2>3 DEF PortsListed
<1>4. PICK g : g = Demands(cs, ps)
  OBVIOUS
<1>5. g = Coming'
  BY <1>1, <1>4 DEF Coming
<1>6. \A k \in DOMAIN g :
        \/ k \in DOMAIN cs /\ g[k] = CallDemand(cs[k])
        \/ k - Len(cs) \in DOMAIN ps /\ g[k] = PortDemand(ps[k - Len(cs)])
  <2>1. Listed(g, cs, ps)
    BY <1>2, <1>3, <1>4, DemandList
  <2>2. QED BY <2>1 DEF Listed
<1>7. ASSUME NEW k \in DOMAIN g, NEW x, x = g[k], x.how # "open"
      PROVE  LET m == k - (1 + len)
             IN  m \in DOMAIN outs /\ x = Demand(outs[m].name, Comb, outs[m].how)
  <2>1. ~(k \in DOMAIN cs /\ g[k] = CallDemand(cs[k]))
    <3>1. CallDemand(cs[1]).how = "open"
      BY <1>2, DemandOfCall
    <3>2. QED BY <1>2, <1>7, <3>1
  <2>2. PICK j \in DOMAIN ps : j = k - 1 /\ x = PortDemand(ps[j])
    BY <1>2, <1>6, <1>7, <2>1
  <2>3. ps[j].port = "out" /\ x = Demand(ps[j].conn.name, Comb, ps[j].conn.how)
    BY <1>3, <1>7, <2>2, DemandOfPort
  <2>4. j - len \in DOMAIN outs /\ ps[j] = Port("out", outs[j - len])
    <3>1. \A c : Port("in", c).port = "in"
      BY DEF Port
    <3>2. QED BY <1>3, <2>3, <3>1
  <2>5. j - len = k - (1 + len)
    <3>1. k \in Int
      BY <1>2, <1>3, <1>4, DemandList DEF Listed
    <3>2. QED BY <1>3, <2>2, <3>1
  <2>6. QED BY <2>3, <2>4, <2>5 DEF Port
<1>8. ASSUME NEW m \in DOMAIN outs, outs[m].how # "open",
             NEW x, x = Demand(outs[m].name, Comb, outs[m].how)
      PROVE  Permitted(x)
  <2>1. outs[m].how \in {"name", "expr"}
    BY <1>3, <1>8, Connections
  <2>2. outs[m].name \in Connected(outs, outs[m].how)
    BY DEF Connected
  <2>3. x.how = outs[m].how /\ x.name = outs[m].name /\ x.domain = Comb
    BY <1>8 DEF Demand
  <2>4. QED BY <1>1, <2>1, <2>2, <2>3 DEF LegalInstance, Permitted
<1>9. ASSUME NEW k \in DOMAIN g, g[k].how # "open"
      PROVE  Permitted(Coming[k])'
  <2>1. PICK x : x = g[k]
    OBVIOUS
  <2>2. PICK m : m = k - (1 + len)
    OBVIOUS
  <2>3. m \in DOMAIN outs /\ x = Demand(outs[m].name, Comb, outs[m].how)
    BY <1>7, <1>9, <2>1, <2>2
  <2>4. outs[m].how # "open"
    BY <1>9, <2>1, <2>3 DEF Demand
  <2>5. Permitted(x)
    BY <1>8, <2>3, <2>4
  <2>6. Permitted(x)'
    BY <2>5, StillPermitted
  <2>7. Coming'[k] = x
    BY <1>5, <2>1
  <2>8. QED BY <2>6, <2>7 DEF Permitted, Driven, MayDrive, ByInstance, Clocked, Unclocked
<1>10. ASSUME NEW k \in DOMAIN g, NEW l \in DOMAIN g, l # k, g[k].how # "open", g[l].how # "open"
       PROVE  Apart(g[k], g[l])
  <2>1. PICK m, n : m = k - (1 + len) /\ n = l - (1 + len)
    OBVIOUS
  <2>2. /\ m \in DOMAIN outs /\ g[k] = Demand(outs[m].name, Comb, outs[m].how)
        /\ n \in DOMAIN outs /\ g[l] = Demand(outs[n].name, Comb, outs[n].how)
    BY <1>7, <1>10, <2>1
  <2>3. m # n
    <3>1. k \in Int /\ l \in Int
      BY <1>2, <1>3, <1>4, DemandList DEF Listed
    <3>2. QED BY <1>3, <1>10, <2>1, <3>1
  <2>4. /\ outs[m].how = "name" => outs[n].name # outs[m].name
        /\ outs[n].how = "name" => outs[m].name # outs[n].name
    BY <1>1, <2>2, <2>3, WholeConnectionsAreAlone
  <2>5. /\ g[k].how = outs[m].how /\ g[k].name = outs[m].name /\ g[k].domain = Comb
        /\ g[l].how = outs[n].how /\ g[l].name = outs[n].name /\ g[l].domain = Comb
    BY <2>2 DEF Demand
  <2>6. outs[m].how \in {"open", "name", "expr"} /\ outs[n].how \in {"open", "name", "expr"}
    BY <1>3, <2>2, Connections
  <2>7. QED BY <1>10, <2>4, <2>5, <2>6 DEF Apart
<1>11. QED BY <1>5, <1>9, <1>10 DEF Legal, Apart

LEMMA StepsKeep ==
  ASSUME LowerInv, [Next]_vars
  PROVE  Kept
<1>1. IInv /\ Naming /\ Handlers
  BY DEF LowerInv
<1>2. CASE CalmStep
  BY <1>2 DEF CalmStep, Calm
<1>3. CASE ModuleInputStep
  <2>1. PICK name \in Name : CreateModuleInput(name)
    BY <1>3 DEF ModuleInputStep
  <2>2. QED BY <1>1, <2>1, InputEffect
<1>4. CASE MakeCall /\ CallOutput
  <2>1. PICK n \in {operation, instance}, name \in Names : AddNodeOutput(n, name)
    BY <1>1, <1>4, OutputCall
  <2>2. QED BY <1>1, <2>1, DriverEffect
<1>5. CASE MakeCall /\ CallFf
  <2>1. nodes' = nodes
    BY <1>5 DEF CallFf, RecordFf
  <2>2. QED BY <2>1 DEF Kept
<1>6. CASE InsertStep
  <2>1. CASE \E name \in Name : InsertFf(name)
    <3>1. PICK name \in Name : Inserting(name)
      BY <1>1, <2>1, RegisterEffect
    <3>2. QED BY <3>1 DEF Inserting
  <2>2. CASE \E name \in Name : \E domain \in Clusters(name) : InsertClusterFf(name, domain)
    <3>1. PICK name \in Name, domain \in DomainType : InsertClusterFf(name, domain)
      <4>1. PICK name \in Name : \E domain \in Clusters(name) : InsertClusterFf(name, domain)
        BY <2>2
      <4>2. PICK domain \in Clusters(name) : InsertClusterFf(name, domain)
        BY <4>1
      <4>3. domain \in DomainType
        BY <1>1, <4>2, ClusterEffect
      <4>4. QED BY <4>2, <4>3
    <3>2. Inserting(name)
      BY <1>1, <3>1, ClusterEffect
    <3>3. QED BY <3>2 DEF Inserting
  <2>3. CASE InsertFfMerge
    <3>1. Inserting(ffMerge.name)
      BY <1>1, <2>3, FfMergeEffect
    <3>2. QED BY <3>1 DEF Inserting
  <2>4. QED BY <1>6, <2>1, <2>2, <2>3 DEF InsertStep
<1>7. QED BY <1>1, <1>2, <1>3, <1>4, <1>5, <1>6, KindsOfSteps

(* The calls and the ports as they are.                                    *)
LEMMA StillLegal ==
  ASSUME Handlers, Legal, Intents, Kept, UNCHANGED <<calls, ports, intended>>
  PROVE  Legal'
<1>1. PICK f, g : f = Coming /\ g = Coming'
  OBVIOUS
<1>2. g = f
  BY <1>1 DEF Coming
<1>3. Listed(f, calls, ports)
  BY <1>1, DemandList DEF Handlers, LowerTypeOK, Coming
<1>4. \A k \in DOMAIN g : k \in Int
  BY <1>2, <1>3 DEF Listed, Handlers, LowerTypeOK
<1>5. \A k \in DOMAIN g : \A x : x = g[k] /\ x.how # "open" /\ Permitted(x) => Permitted(x)'
  BY StillPermitted
<1>6. PICK s \in Int : s = 0
  OBVIOUS
<1>7. \A k \in DOMAIN g : g[k].how # "open" => k + s \in DOMAIN f /\ f[k + s] = g[k]
  <2>1. \A k \in DOMAIN g : k + s = k
    BY <1>4, <1>6
  <2>2. QED BY <1>2, <2>1
<1>8. QED BY <1>1, <1>4, <1>5, <1>7, LegalMoves

(* The calls for a port drive what the port was going to.                  *)
LEMMA LegalPort ==
  ASSUME Handlers, Handlers', Legal, Intents, Kept, VisitPortConnection
  PROVE  Legal'
<1>1. PICK q, rest, p : q = PortCalls(Head(ports)) /\ rest = Tail(ports) /\ p = Head(ports)
  OBVIOUS
<1>2. /\ calls = <<>> /\ ports # <<>> /\ calls' = q /\ ports' = rest /\ intended' = intended
      /\ ports \in Seq(PortType) /\ calls \in Seq(CallType)
  BY <1>1 DEF VisitPortConnection, Handlers, LowerTypeOK
<1>3. /\ p \in PortType /\ p = ports[1] /\ 1 \in DOMAIN ports /\ rest \in Seq(PortType)
      /\ \A k \in DOMAIN rest : k \in Nat /\ k >= 1 /\ k + 1 \in DOMAIN ports /\ rest[k] = ports[k + 1]
  BY <1>1, <1>2, Rest
<1>4. /\ q \in Seq(CallType) /\ Len(q) >= 1
      /\ \A k \in DOMAIN q :
           CallDemand(q[k]).how # "open" => k = Len(q) /\ CallDemand(q[k]) = PortDemand(p)
  BY <1>1, <1>3, DemandsOfPortCalls
<1>5. PICK f, g : f = Coming /\ g = Coming'
  OBVIOUS
<1>6. Listed(f, calls, ports) /\ Listed(g, q, rest)
  BY <1>2, <1>3, <1>4, <1>5, DemandList DEF Coming
<1>7. \A l \in DOMAIN ports : l \in DOMAIN f /\ f[l] = PortDemand(ports[l])
  <2>1. Len(calls) = 0 /\ \A l \in DOMAIN ports : Len(calls) + l = l
    BY <1>2
  <2>2. QED BY <1>6, <2>1 DEF Listed
<1>8. \A k \in DOMAIN g : k \in Int
  BY <1>3, <1>4, <1>6 DEF Listed
<1>9. PICK s \in Int : s = 1 - Len(q)
  BY <1>4
<1>10. ASSUME NEW k \in DOMAIN g, g[k].how # "open"
       PROVE  k + s \in DOMAIN f /\ f[k + s] = g[k]
  <2>1. CASE k \in DOMAIN q /\ g[k] = CallDemand(q[k])
    <3>1. k = Len(q) /\ g[k] = PortDemand(p)
      BY <1>4, <1>10, <2>1
    <3>2. k + s = 1
      BY <1>4, <1>9, <3>1
    <3>3. QED BY <1>3, <1>7, <3>1, <3>2
  <2>2. CASE k - Len(q) \in DOMAIN rest /\ g[k] = PortDemand(rest[k - Len(q)])
    <3>1. PICK j : j = k - Len(q)
      OBVIOUS
    <3>2. j \in Nat /\ j + 1 \in DOMAIN ports /\ g[k] = PortDemand(ports[j + 1])
      BY <1>3, <2>2, <3>1
    <3>3. k + s = j + 1
      BY <1>4, <1>8, <1>9, <3>1
    <3>4. QED BY <1>7, <3>2, <3>3
  <2>3. QED BY <1>6, <2>1, <2>2 DEF Listed
<1>11. \A k \in DOMAIN g : \A x : x = g[k] /\ x.how # "open" /\ Permitted(x) => Permitted(x)'
  BY <1>2, StillPermitted
<1>12. QED BY <1>5, <1>8, <1>10, <1>11, LegalMoves

(* A call done, the next one is first, or the record_ff that goes with it. *)
LEMMA DemandsAdvance ==
  ASSUME Handlers, Handlers', MakeCall, NEW f, f = Coming, NEW g, g = Coming'
  PROVE  /\ 1 \in DOMAIN f /\ f[1] = CallDemand(Head(calls))
         /\ \A k \in DOMAIN f : f[k].how # "open" => f[k].name \in Given
         /\ \A k \in DOMAIN g : k \in Int
         /\ \E s \in Int : \A k \in DOMAIN g :
              g[k].how # "open" => k + s \in DOMAIN f /\ f[k + s] = g[k] /\ k + s # 1
<1>1. PICK c, rest, next : c = Head(calls) /\ rest = Tail(calls) /\ next = calls'
  OBVIOUS
<1>2. /\ calls # <<>> /\ ports' = ports
      /\ next = IF Clocking THEN <<[c EXCEPT !.call = "ff"]>> \o rest ELSE rest
  BY <1>1 DEF MakeCall, CallOperation, CallInstance, CallTemporary, CallInput, CallOutput, CallFf,
     Next1
<1>3. /\ calls \in Seq(CallType) /\ next \in Seq(CallType) /\ ports \in Seq(PortType)
      /\ c \in CallType /\ c = calls[1] /\ 1 \in DOMAIN calls /\ rest \in Seq(CallType)
      /\ \A k \in DOMAIN rest : k \in Nat /\ k >= 1 /\ k + 1 \in DOMAIN calls /\ rest[k] = calls[k + 1]
      /\ Len(rest) = Len(calls) - 1 /\ Len(calls) \in Nat
  BY <1>1, <1>2, Rest DEF Handlers, LowerTypeOK
<1>4. Listed(f, calls, ports) /\ Listed(g, next, ports)
  BY <1>1, <1>2, <1>3, DemandList DEF Coming
<1>5. /\ 1 \in DOMAIN f /\ f[1] = CallDemand(c)
      /\ \A k \in DOMAIN f : f[k].how # "open" => f[k].name \in Given
      /\ \A k \in DOMAIN g : k \in Int
  <2>1. 1 \in DOMAIN f /\ f[1] = CallDemand(c)
    BY <1>3, <1>4 DEF Listed
  <2>2. \A k \in DOMAIN f : f[k].how # "open" => f[k].name \in Given
    BY <1>4 DEF Listed
  <2>3. DOMAIN g = 1..(Len(next) + Len(ports)) /\ Len(next) \in Nat /\ Len(ports) \in Nat
    BY <1>3, <1>4 DEF Listed
  <2>4. QED BY <2>1, <2>2, <2>3
<1>6. CASE ~Clocking
  <2>1. next = rest
    BY <1>2, <1>6
  <2>2. ASSUME NEW k \in DOMAIN g
        PROVE  k + 1 \in DOMAIN f /\ f[k + 1] = g[k] /\ k + 1 # 1
    <3>1. CASE k \in DOMAIN rest /\ g[k] = CallDemand(rest[k])
      BY <1>3, <1>4, <3>1 DEF Listed
    <3>2. CASE k - Len(rest) \in DOMAIN ports /\ g[k] = PortDemand(ports[k - Len(rest)])
      <4>1. PICK j \in DOMAIN ports : j = k - Len(rest)
        BY <3>2
      <4>2. k + 1 = Len(calls) + j /\ j >= 1 /\ k \in Int
        <5>1. k \in Int /\ j \in Nat /\ j >= 1
          BY <1>3, <1>5
        <5>2. Len(rest) = Len(calls) - 1 /\ Len(calls) \in Nat
          BY <1>3
        <5>3. QED BY <4>1, <5>1, <5>2
      <4>3. Len(calls) + j \in DOMAIN f /\ f[Len(calls) + j] = PortDemand(ports[j])
        BY <1>4 DEF Listed
      <4>4. k + 1 # 1
        BY <1>3, <4>2
      <4>5. QED BY <3>2, <4>1, <4>2, <4>3, <4>4
    <3>3. QED BY <1>4, <2>1, <3>1, <3>2 DEF Listed
  <2>3. PICK s \in Int : s = 1
    OBVIOUS
  <2>4. \A k \in DOMAIN g : k + s \in DOMAIN f /\ f[k + s] = g[k] /\ k + s # 1
    BY <2>2, <2>3
  <2>5. QED BY <1>1, <1>5, <2>4
<1>7. CASE Clocking
  <2>1. PICK ff : ff = [c EXCEPT !.call = "ff"]
    OBVIOUS
  <2>2. c.call = "output" /\ c.domain # Comb
    BY <1>1, <1>7 DEF Clocking, Next1
  <2>3. ff \in CallType /\ ff.call = "ff"
    BY <1>3, <2>1, <2>2, CallFields
  <2>4. PICK one : one = <<ff>>
    OBVIOUS
  <2>5. one \in Seq(CallType) /\ Len(one) = 1 /\ DOMAIN one = {1} /\ one[1] = ff
    BY <2>3, <2>4
  <2>6. next = one \o rest
    BY <1>2, <1>7, <2>1, <2>4
  <2>7. Joined(one, rest, next)
    BY <1>3, <2>5, <2>6, Catenated
  <2>8. Len(next) = Len(calls)
    BY <1>3, <2>5, <2>7 DEF Joined
  <2>9. CallDemand(ff).how = "open"
    BY <2>3, DemandOfCall
  <2>10. ASSUME NEW k \in DOMAIN g, g[k].how # "open"
         PROVE  k \in DOMAIN f /\ f[k] = g[k] /\ k # 1
    <3>1. CASE k \in DOMAIN next /\ g[k] = CallDemand(next[k])
      <4>1. CASE k \in DOMAIN one /\ next[k] = one[k]
        BY <2>5, <2>9, <2>10, <3>1, <4>1
      <4>2. CASE \E l \in DOMAIN rest : k = Len(one) + l /\ next[k] = rest[l]
        <5>1. PICK l \in DOMAIN rest : k = Len(one) + l /\ next[k] = rest[l]
          BY <4>2
        <5>2. k = l + 1 /\ k \in DOMAIN calls /\ next[k] = calls[k] /\ k # 1
          BY <1>3, <2>5, <5>1
        <5>3. QED BY <1>4, <3>1, <5>2 DEF Listed
      <4>3. QED BY <2>7, <3>1, <4>1, <4>2 DEF Joined
    <3>2. CASE k - Len(next) \in DOMAIN ports /\ g[k] = PortDemand(ports[k - Len(next)])
      <4>1. PICK j \in DOMAIN ports : j = k - Len(calls) /\ g[k] = PortDemand(ports[j])
        BY <2>8, <3>2
      <4>2. j >= 1 /\ j \in Nat
        BY <1>3
      <4>3. k = Len(calls) + j /\ k # 1
        BY <1>3, <1>5, <4>1, <4>2
      <4>4. Len(calls) + j \in DOMAIN f /\ f[Len(calls) + j] = PortDemand(ports[j])
        BY <1>4 DEF Listed
      <4>5. QED BY <4>1, <4>3, <4>4
    <3>3. QED BY <1>4, <3>1, <3>2 DEF Listed
  <2>11. PICK s \in Int : s = 0
    OBVIOUS
  <2>12. \A k \in DOMAIN g : k + s = k
    BY <1>5, <2>11
  <2>13. \A k \in DOMAIN g : g[k].how # "open" => k + s \in DOMAIN f /\ f[k + s] = g[k] /\ k + s # 1
    BY <2>10, <2>12
  <2>14. QED BY <1>1, <1>5, <2>13
<1>8. QED BY <1>6, <1>7

LEMMA LegalCall ==
  ASSUME LowerInv, Handlers', Legal, Intents, Locals, Kept, MakeCall
  PROVE  Legal'
<1>1. IInv /\ Handlers
  BY DEF LowerInv
<1>2. PICK f, g : f = Coming /\ g = Coming'
  OBVIOUS
<1>3. PICK first, c : first = f[1] /\ c = Head(calls)
  OBVIOUS
<1>4. /\ 1 \in DOMAIN f /\ first = CallDemand(c)
      /\ \A k \in DOMAIN f : f[k].how # "open" => f[k].name \in Given
      /\ \A k \in DOMAIN g : k \in Int
      /\ \E s \in Int : \A k \in DOMAIN g :
           g[k].how # "open" => k + s \in DOMAIN f /\ f[k + s] = g[k] /\ k + s # 1
  BY <1>1, <1>2, <1>3, DemandsAdvance
<1>5. PICK s \in Int : \A k \in DOMAIN g :
        g[k].how # "open" => k + s \in DOMAIN f /\ f[k + s] = g[k] /\ k + s # 1
  BY <1>4
<1>6. SUFFICES ASSUME NEW k \in DOMAIN f, k # 1, NEW x, x = f[k], x.how # "open", Permitted(x)
               PROVE  Permitted(x)'
  <2>1. \A k \in DOMAIN g : \A x : x = g[k] /\ x.how # "open" /\ Permitted(x) => Permitted(x)'
    BY <1>5, <1>6
  <2>2. \A k \in DOMAIN g : g[k].how # "open" => k + s \in DOMAIN f /\ f[k + s] = g[k]
    BY <1>5
  <2>3. QED BY <1>2, <1>4, <2>1, <2>2, LegalMoves
<1>7. x.name \in Given /\ x.name # NoName
  BY <1>4, <1>6, GivenNames
<1>8. c \in CallType
  BY <1>1, <1>3, CallTypes DEF MakeCall, CallOperation, CallInstance, CallTemporary, CallInput,
     CallOutput, CallFf, Next1
<1>9. CASE ~CallOutput
  <2>1. intended' = intended
    BY <1>9 DEF MakeCall, CallOperation, CallInstance, CallTemporary, CallInput, CallFf
  <2>2. QED BY <1>6, <2>1, StillPermitted
<1>10. CASE CallOutput
  <2>1. PICK n \in {operation, instance}, name \in Names, domain \in Domain \cup {Comb} :
          /\ AddNodeOutput(n, name) /\ Intend(name, NextOutput(n), domain)
          /\ \/ Next1("output") /\ n = operation /\ name = Arg /\ domain = Head(calls).domain
                  /\ name # NoName
             \/ domain = Comb /\ Next1("instance_output") /\ n = instance /\ name = Arg
             \/ domain = Comb /\ Fresh /\ name = Tmp /\ ~Driven(name) /\ name # NoName
                  /\ \/ Next1("temporary_output") /\ n = operation
                     \/ Next1("instance_temporary") /\ n = instance
    BY <1>1, <1>10, OutputCall
  <2>2. PICK new : new = [name |-> name, ref |-> NextOutput(n), domain |-> domain]
    OBVIOUS
  <2>3. /\ intended' = IF name = NoName THEN intended ELSE intended \cup {new}
        /\ new.name = name /\ new.domain = domain /\ new.ref = NextOutput(n)
    BY <2>1, <2>2 DEF Intend
  <2>4. \A d \in intended : d \in intended'
    BY <2>3
  <2>5. CASE name = NoName \/ name # x.name
    <3>1. \A d \in intended' : d \in intended \/ d.name # x.name
      BY <1>7, <2>3, <2>5
    <3>2. QED BY <1>6, <2>4, <3>1, StillPermitted
  <2>6. CASE name # NoName /\ name = x.name
    <3>1. first.how # "open" => Apart(x, first)
      BY <1>2, <1>3, <1>4, <1>6 DEF Legal
    <3>2. CASE Next1("output") /\ n = operation /\ name = Arg /\ domain = Head(calls).domain
      <4>1. first = Demand(name, domain, "expr")
        BY <1>3, <1>4, <1>8, <3>2, DemandOfCall DEF Next1, Arg
      <4>2. first.how = "expr" /\ first.name = name /\ first.domain = domain
        BY <4>1 DEF Demand
      <4>3. x.how = "expr" /\ x.domain = domain
        BY <2>6, <3>1, <4>2 DEF Apart
      <4>4. nodes'[n].kind = "op" /\ NextOutput(n).node = n
        <5>1. Builds(n) /\ TigTypeOK
          BY <1>1, <2>1, DriverEffect DEF IInv, Typed
        <5>2. n \in DOMAIN nodes /\ n # 0 /\ NextOutput(n).node = n
          BY <5>1, BuildsNode
        <5>3. nodes[n].kind = "op"
          BY <3>2, <5>2 DEF Locals
        <5>4. QED BY <5>2, <5>3 DEF Kept
      <4>5. \A d \in intended' :
              d \in intended \/ (d.domain = x.domain /\ nodes'[d.ref.node].kind # "instance")
        BY <2>3, <4>3, <4>4
      <4>6. QED BY <1>6, <2>4, <4>3, <4>5, StillPermittedBeside
    <3>3. CASE Next1("instance_output") /\ name = Arg
      <4>1. first = Demand(name, Comb, "name")
        BY <1>3, <1>4, <1>8, <2>6, <3>3, DemandOfCall DEF Next1, Arg
      <4>2. first.how = "name" /\ first.name = name
        BY <4>1 DEF Demand
      <4>3. QED BY <2>6, <3>1, <4>2 DEF Apart
    <3>4. CASE Fresh /\ name = Tmp
      BY <1>1, <1>7, <2>6, <3>4, FreshTemporary
    <3>5. QED BY <2>1, <3>2, <3>3, <3>4
  <2>7. QED BY <2>5, <2>6
<1>11. QED BY <1>9, <1>10

LEMMA LegalSteps ==
  ASSUME LowerInv, Handlers', Legal, Intents, Locals, [Next]_vars
  PROVE  Legal'
<1>1. Kept /\ Handlers
  BY StepsKeep DEF LowerInv
<1>2. CASE UNCHANGED <<calls, ports, intended>>
  BY <1>1, <1>2, StillLegal
<1>3. CASE \E p \in Processes : VisitProcess(p)
  <2>1. PICK p \in Processes : VisitProcess(p)
    BY <1>3
  <2>2. LegalProcess(p) /\ intended' = intended /\ ports = <<>> /\ calls' = ProcessCalls(p)
        /\ ports' = ports
    BY <2>1 DEF VisitProcess, Visiting, Idle
  <2>3. QED BY <1>1, <2>2, LegalProcessCalls
<1>4. CASE \E i \in Instances : VisitInstance(i)
  <2>1. PICK i \in Instances : VisitInstance(i)
    BY <1>4
  <2>2. LegalInstance(i) /\ intended' = intended /\ calls' = <<Call("instance", NoName)>>
        /\ ports' = InstancePorts(i)
    BY <2>1 DEF VisitInstance
  <2>3. QED BY <1>1, <2>2, LegalInstancePorts
<1>5. CASE VisitPortConnection
  BY <1>1, <1>5, LegalPort
<1>6. CASE MakeCall
  BY <1>1, <1>6, LegalCall
<1>7. CASE \/ \E name \in InputPorts \cup OutputPorts : VisitPort(name)
           \/ FinishModule \/ UNCHANGED vars
  BY <1>2, <1>7 DEF VisitPort, FinishModule, lowerVars, vars
<1>8. QED BY <1>3, <1>4, <1>5, <1>6, <1>7 DEF Next, Done

LEMMA LocalsSteps ==
  ASSUME LowerInv, Locals, [Next]_vars
  PROVE  Locals'
<1>1. Kept /\ IInv /\ Handlers /\ Len(nodes) \in Nat /\ DOMAIN nodes = 1..Len(nodes)
  BY StepsKeep, Facts, Domains DEF LowerInv, IInv, Typed
<1>2. CASE UNCHANGED <<operation, instance>>
  BY <1>1, <1>2 DEF Locals, Kept
<1>3. CASE CallOperation
  <2>1. CreateOperation /\ operation' = Len(nodes) + 1 /\ instance' = instance
    BY <1>3 DEF CallOperation
  <2>2. Len(nodes') = Len(nodes) + 1 /\ nodes'[Len(nodes) + 1].kind = "op"
    BY <1>1, <2>1, CreatingCalm
  <2>3. Len(nodes) + 1 \in DOMAIN nodes'
    BY <2>1 DEF CreateOperation, CreateNode
  <2>4. QED BY <1>1, <2>1, <2>2, <2>3 DEF Locals, Kept
<1>4. CASE CallInstance
  <2>1. CreateInstance /\ instance' = Len(nodes) + 1 /\ operation' = operation
    BY <1>4 DEF CallInstance
  <2>2. Len(nodes') = Len(nodes) + 1 /\ nodes'[Len(nodes) + 1].kind = "instance"
    BY <1>1, <2>1, CreatingCalm
  <2>3. Len(nodes) + 1 \in DOMAIN nodes'
    BY <2>1 DEF CreateInstance, CreateNode
  <2>4. QED BY <1>1, <2>1, <2>2, <2>3 DEF Locals, Kept
<1>5. CASE MakeCall /\ ~CallOperation /\ ~CallInstance
  BY <1>2, <1>5 DEF MakeCall, CallTemporary, CallInput, CallOutput, CallFf
<1>6. CASE ~MakeCall
  <2>1. UNCHANGED <<operation, instance>>
    BY <1>6 DEF Next, VisitPort, VisitProcess, VisitInstance, VisitPortConnection, FinishModule,
       Done, lowerVars, vars
  <2>2. QED BY <1>2, <2>1
<1>7. QED BY <1>3, <1>4, <1>5, <1>6

(* A call is made in the visit only.                                       *)
LEMMA CallsInVisit ==
  ASSUME InTurn, MakeCall
  PROVE  /\ phase = "visit" /\ phase' = phase /\ members # 0 /\ members' = members
<1>1. calls # <<>>
  BY DEF MakeCall, CallOperation, CallInstance, CallTemporary, CallInput, CallOutput, CallFf, Next1
<1>2. phase = "visit" /\ members # 0
  BY <1>1 DEF InTurn, Idle
<1>3. phase' = phase
  BY DEF MakeCall, CallOperation, CallInstance, CallTemporary, CallInput, CallOutput, CallFf,
     CreateOperation, CreateInstance, AddNodeInput, AddNodeInputSpec, FinalizeNodeInput,
     ConnectInput, AddNodeOutput, AddFirstDriver, AddSecondDriver, AddLaterDriver, RecordFf,
     tigVars
<1>4. QED BY <1>2, <1>3 DEF MakeCall

LEMMA InTurnSteps ==
  ASSUME InTurn, [Next]_vars
  PROVE  InTurn'
<1>1. CASE \E name \in InputPorts \cup OutputPorts : VisitPort(name)
  <2>1. UNCHANGED <<calls, ports, members>> /\ phase = "visit" /\ phase' = phase
    BY <1>1 DEF VisitPort, lowerVars, CreateModuleInput, CreateModuleOutput
  <2>2. QED BY <2>1 DEF InTurn, Idle
<1>2. CASE \/ \E p \in Processes : VisitProcess(p)
           \/ \E i \in Instances : VisitInstance(i)
  <2>1. members' = members + 1 /\ phase = "visit" /\ phase' = phase
    BY <1>2 DEF VisitProcess, VisitInstance, Visiting, tigVars
  <2>2. QED BY <2>1 DEF InTurn
<1>3. CASE VisitPortConnection
  <2>1. members' = members /\ phase' = phase /\ ~Idle
    BY <1>3 DEF VisitPortConnection, Idle, tigVars
  <2>2. QED BY <2>1 DEF InTurn
<1>4. CASE MakeCall
  BY <1>4, CallsInVisit DEF InTurn
<1>5. CASE FinishModule
  <2>1. Idle /\ UNCHANGED <<calls, ports, members>>
    BY <1>5 DEF FinishModule, lowerVars
  <2>2. QED BY <2>1 DEF InTurn, Idle
<1>6. CASE UNCHANGED vars
  <2>1. UNCHANGED <<calls, ports, members, phase>>
    BY <1>6 DEF vars, lowerVars, tigVars
  <2>2. QED BY <2>1 DEF InTurn, Idle
<1>7. QED BY <1>1, <1>2, <1>3, <1>4, <1>5, <1>6 DEF Next, Done

LEMMA MembersSteps ==
  ASSUME LowerInv, Handlers', Members, Intents, [Next]_vars
  PROVE  Members'
BY LegalSteps, LocalsSteps, InTurnSteps DEF Members

-----------------------------------------------------------------------------
(* What the steps do to the drivers and the netlist.                       *)

QuietStep ==
  /\ Calm
  /\ intended' = intended
  /\ Waiting' = Waiting
  /\ phase' = "visit" => phase = "visit"

PortStep ==
  /\ \E name \in Name \cap InputPorts : CreateModuleInput(name)
  /\ intended' = intended
  /\ Waiting' = Waiting

(* A driver is added for a name that may have it.                          *)
DriverStep(n, name, domain) ==
  /\ AddNodeOutput(n, name)
  /\ name \in Names \ InputPorts /\ domain \in Domain \cup {Comb}
  /\ name # NoName =>
       /\ MayDrive(name, domain)
       /\ nodes[n].kind = "instance" => domain = Comb /\ ~Driven(name)
  /\ intended' = IF name = NoName THEN intended
                 ELSE intended \cup {Output(name, NextOutput(n), domain)}
  /\ Waiting' = IF name = NoName \/ domain = Comb THEN Waiting
                ELSE Waiting \cup {Output(name, NextOutput(n), domain)}

RegisterStep ==
  /\ InsertStep
  /\ intended' = intended
  /\ Waiting = pendingFfs /\ Waiting' = pendingFfs'

LEMMA NothingToRecord ==
  /\ ~Next1("ff") => Waiting = pendingFfs
  /\ calls = <<>> => Waiting = pendingFfs
BY DEF Waiting, Next1

LEMMA FfComesFirst ==
  ASSUME Handlers, MakeCall, ~Clocking
  PROVE  ~Next1("ff")'
<1>1. calls # <<>> /\ calls' = Tail(calls)
  BY DEF MakeCall, CallOperation, CallInstance, CallTemporary, CallInput, CallOutput, CallFf, Next1
<1>2. /\ Tail(calls) \in Seq(CallType)
      /\ \A k \in DOMAIN Tail(calls) :
           k \in Nat /\ k >= 1 /\ k + 1 \in DOMAIN calls /\ Tail(calls)[k] = calls[k + 1]
  BY <1>1, Rest DEF Handlers, LowerTypeOK
<1>3. CASE calls' # <<>>
  <2>1. Head(calls') = calls'[1] /\ 1 \in DOMAIN calls'
    BY <1>1, <1>2, <1>3, Rest
  <2>2. 2 \in DOMAIN calls /\ calls'[1] = calls[2]
    BY <1>1, <1>2, <2>1
  <2>3. calls[2].call # "ff"
    BY <2>2 DEF Handlers, Sequenced
  <2>4. QED BY <2>1, <2>2, <2>3 DEF Next1
<1>4. QED BY <1>3 DEF Next1

LEMMA OnlyOutputsClock ==
  ASSUME MakeCall, ~CallOutput
  PROVE  ~Clocking
BY DEF MakeCall, CallOperation, CallInstance, CallTemporary, CallInput, CallFf, Clocking, Next1

LEMMA QuietCalls ==
  ASSUME LowerInv, InTurn, MakeCall, ~CallOutput
  PROVE  QuietStep
<1>1. IInv /\ Handlers /\ ~Next1("ff")' /\ phase' = phase
  BY OnlyOutputsClock, FfComesFirst, CallsInVisit DEF LowerInv
<1>2. Waiting' = pendingFfs'
  BY <1>1 DEF Waiting
<1>3. CASE CallFf
  <2>1. /\ Next1("ff") /\ UNCHANGED <<nodes, inputSpecs, signalMap, ffMerge, intended>>
        /\ pendingFfs' = pendingFfs \cup {[name |-> Arg, domain |-> Head(calls).domain,
                                          ref |-> Ref(operation, Len(nodes[operation].outputs))]}
    BY <1>3 DEF CallFf, RecordFf
  <2>2. Waiting = pendingFfs'
    BY <2>1 DEF Waiting, Output
  <2>3. Calm
    BY <1>1, <2>1, StillCalm
  <2>4. QED BY <1>1, <1>2, <2>1, <2>2, <2>3 DEF QuietStep
<1>4. CASE ~CallFf
  <2>1. CalmStep
    BY <1>1, <1>4, CalmCalls
  <2>2. ~Next1("ff")
    BY <1>4 DEF MakeCall, CallOperation, CallInstance, CallTemporary, CallInput, CallOutput, Next1
  <2>3. QED BY <1>1, <1>2, <2>1, <2>2, NothingToRecord DEF CalmStep, QuietStep
<1>5. QED BY <1>3, <1>4

LEMMA DriverCalls ==
  ASSUME LowerInv, Members, MakeCall, CallOutput
  PROVE  \E n, name, domain : DriverStep(n, name, domain)
<1>1. IInv /\ TigTypeOK /\ Handlers
  BY DEF LowerInv, IInv, Typed
<1>2. PICK n \in {operation, instance}, name \in Names, domain \in Domain \cup {Comb} :
        /\ AddNodeOutput(n, name) /\ Intend(name, NextOutput(n), domain)
        /\ name \notin InputPorts
        /\ \/ Next1("output") /\ n = operation /\ name = Arg /\ domain = Head(calls).domain
                /\ name # NoName
           \/ domain = Comb /\ Next1("instance_output") /\ n = instance /\ name = Arg
           \/ domain = Comb /\ Fresh /\ name = Tmp /\ ~Driven(name) /\ name # NoName
                /\ \/ Next1("temporary_output") /\ n = operation
                   \/ Next1("instance_temporary") /\ n = instance
  BY <1>1, OutputCall
<1>3. /\ n \in DOMAIN nodes /\ n # 0
      /\ NextOutput(n) = Ref(n, Len(nodes[n].outputs) + 1)
      /\ Len(nodes'[n].outputs) = Len(nodes[n].outputs) + 1
      /\ pendingFfs' = pendingFfs
  <2>1. Builds(n)
    BY <1>1, <1>2, DriverEffect
  <2>2. n \in DOMAIN nodes /\ n # 0
    BY <1>1, <2>1, BuildsNode
  <2>3. Len(nodes'[n].outputs) = Len(nodes[n].outputs) + 1
    BY <1>1, <1>2, <2>2, DriverEffect
  <2>4. pendingFfs' = pendingFfs
    BY <1>1, <1>2, DriverEffect
  <2>5. QED BY <2>2, <2>3, <2>4 DEF NextOutput
<1>4. /\ intended' = IF name = NoName THEN intended
                     ELSE intended \cup {Output(name, NextOutput(n), domain)}
  BY <1>2 DEF Intend, Output
<1>5. name # NoName =>
        /\ MayDrive(name, domain)
        /\ nodes[n].kind = "instance" => domain = Comb /\ ~Driven(name)
  <2>1. PICK f, first, c : f = Coming /\ first = f[1] /\ c = Head(calls)
    OBVIOUS
  <2>2. /\ calls \in Seq(CallType) /\ ports \in Seq(PortType) /\ calls # <<>>
    BY <1>1, <1>2 DEF Handlers, LowerTypeOK, Next1
  <2>3. c \in CallType /\ c = calls[1] /\ 1 \in DOMAIN calls
    BY <2>1, <2>2, Rest
  <2>4. Listed(f, calls, ports)
    BY <2>1, <2>2, DemandList DEF Coming
  <2>5. 1 \in DOMAIN f /\ first = CallDemand(c)
    BY <2>1, <2>3, <2>4 DEF Listed
  <2>6. first.how # "open" => Permitted(first)
    BY <2>1, <2>5 DEF Members, Legal
  <2>7. CASE Next1("output") /\ n = operation /\ name = Arg /\ domain = Head(calls).domain
    <3>1. first = Demand(name, domain, "expr")
      BY <2>1, <2>3, <2>5, <2>7, DemandOfCall DEF Next1, Arg
    <3>2. first.how = "expr" /\ first.name = name /\ first.domain = domain
      BY <3>1 DEF Demand
    <3>3. MayDrive(name, domain)
      BY <2>6, <3>2 DEF Permitted
    <3>4. nodes[n].kind = "op"
      BY <1>3, <2>7 DEF Members, Locals
    <3>5. QED BY <3>3, <3>4
  <2>8. CASE domain = Comb /\ Next1("instance_output") /\ n = instance /\ name = Arg
    <3>1. SUFFICES ASSUME name # NoName PROVE MayDrive(name, domain) /\ ~Driven(name)
      BY <2>8
    <3>2. first = Demand(name, Comb, "name")
      BY <2>1, <2>3, <2>5, <2>8, <3>1, DemandOfCall DEF Next1, Arg
    <3>3. first.how = "name" /\ first.name = name
      BY <3>2 DEF Demand
    <3>4. ~Driven(name)
      BY <2>6, <3>3 DEF Permitted
    <3>5. QED BY <3>4 DEF MayDrive, ByInstance, Clocked, Unclocked, Driven
  <2>9. CASE domain = Comb /\ ~Driven(name)
    BY <2>9 DEF MayDrive, ByInstance, Clocked, Unclocked, Driven
  <2>10. QED BY <1>2, <2>7, <2>8, <2>9
<1>6. Waiting = pendingFfs
  BY NothingToRecord DEF CallOutput, Next1
<1>7. Waiting' = IF name = NoName \/ domain = Comb THEN Waiting
                 ELSE Waiting \cup {Output(name, NextOutput(n), domain)}
  <2>1. CASE name = NoName \/ domain = Comb
    <3>1. ~Clocking
      <4>1. CASE Next1("output")
        BY <1>2, <2>1, <4>1 DEF Clocking, Next1
      <4>2. QED BY <4>1 DEF Clocking
    <3>2. ~Next1("ff")'
      BY <1>1, <3>1, FfComesFirst
    <3>3. QED BY <1>3, <1>6, <2>1, <3>2 DEF Waiting
  <2>2. CASE name # NoName /\ domain # Comb
    <3>1. Next1("output") /\ n = operation /\ name = Arg /\ domain = Head(calls).domain
      BY <1>2, <2>2
    <3>2. Clocking
      BY <2>2, <3>1 DEF Clocking
    <3>3. PICK ff : ff = [Head(calls) EXCEPT !.call = "ff"]
      OBVIOUS
    <3>4. calls' = <<ff>> \o Tail(calls)
      BY <3>2, <3>3 DEF MakeCall
    <3>5. Head(calls) \in CallType /\ Head(calls).call = "output"
      BY <1>1, <3>1, CallTypes DEF Next1
    <3>6. ff \in CallType /\ ff.call = "ff" /\ ff.name = name /\ ff.domain = domain
      BY <2>2, <3>1, <3>3, <3>5, CallFields DEF Arg
    <3>7. Head(calls') = ff /\ calls' # <<>>
      <4>1. Tail(calls) \in Seq(CallType)
        BY <1>1, <3>1, Rest DEF Handlers, LowerTypeOK, Next1
      <4>2. PICK rest : rest = Tail(calls)
        OBVIOUS
      <4>3. QED BY <3>4, <3>6, <4>1, <4>2
    <3>8. Next1("ff")' /\ Arg' = name
      BY <3>6, <3>7 DEF Next1, Arg
    <3>9. operation' = operation
      BY DEF CallOutput
    <3>10. Ref(operation', Len(nodes'[operation'].outputs)) = NextOutput(n)
      BY <1>3, <3>1, <3>9
    <3>11. Waiting' = pendingFfs' \cup {Output(name, NextOutput(n), domain)}
      <4>1. Waiting' = pendingFfs' \cup {Output(Arg', Ref(operation', Len(nodes'[operation'].outputs)),
                                               Head(calls').domain)}
        BY <3>8 DEF Waiting
      <4>2. QED BY <3>6, <3>7, <3>8, <3>10, <4>1
    <3>12. QED BY <1>3, <1>6, <2>2, <3>11
  <2>3. QED BY <2>1, <2>2
<1>8. DriverStep(n, name, domain)
  BY <1>2, <1>4, <1>5, <1>7 DEF DriverStep
<1>9. QED BY <1>8

LEMMA FirstOfProcess ==
  ASSUME NEW p \in Processes
  PROVE  ProcessCalls(p) # <<>> => Head(ProcessCalls(p)).call # "ff"
<1>1. PICK q : q = ProcessCalls(p)
  OBVIOUS
<1>2. q \in Seq(CallType) /\ \A k \in DOMAIN q : q[k].call \in {"operation", "spec", "output"}
  BY <1>1, Processed
<1>3. q # <<>> => Head(q) = q[1] /\ 1 \in DOMAIN q
  BY <1>2, Rest
<1>4. QED BY <1>1, <1>2, <1>3

LEMMA VisitsAreQuiet ==
  ASSUME LowerInv, InTurn,
         \/ \E p \in Processes : VisitProcess(p)
         \/ \E i \in Instances : VisitInstance(i)
         \/ VisitPortConnection
  PROVE  QuietStep
<1>1. IInv /\ Handlers
  BY DEF LowerInv
<1>2. calls = <<>> /\ UNCHANGED <<tigVars, intended>>
  BY DEF VisitProcess, VisitInstance, VisitPortConnection, Visiting, Idle
<1>3. Calm /\ phase' = phase
  BY <1>1, <1>2, StillCalm DEF tigVars
<1>4. ~Next1("ff")'
  <2>1. CASE \E p \in Processes : VisitProcess(p)
    <3>1. PICK p \in Processes : calls' = ProcessCalls(p)
      BY <2>1 DEF VisitProcess
    <3>2. QED BY <3>1, FirstOfProcess DEF Next1
  <2>2. CASE \E i \in Instances : VisitInstance(i)
    <3>1. PICK q : q = <<Call("instance", NoName)>> /\ calls' = q
      BY <2>2 DEF VisitInstance
    <3>2. Head(q).call = "instance"
      BY <3>1 DEF Call
    <3>3. QED BY <3>1, <3>2 DEF Next1
  <2>3. CASE VisitPortConnection
    <3>1. PICK p, q : p = Head(ports) /\ q = PortCalls(p)
      OBVIOUS
    <3>2. calls' = q /\ ports # <<>> /\ ports \in Seq(PortType)
      BY <1>1, <2>3, <3>1 DEF VisitPortConnection, Handlers, LowerTypeOK
    <3>3. p \in PortType
      BY <3>1, <3>2, Rest
    <3>4. q \in Seq(CallType) /\ \A k \in DOMAIN q : q[k].call # "ff"
      BY <3>1, <3>3, DemandsOfPortCalls
    <3>5. q # <<>> => Head(q) = q[1] /\ 1 \in DOMAIN q
      BY <3>4, Rest
    <3>6. QED BY <3>2, <3>4, <3>5 DEF Next1
  <2>4. QED BY <2>1, <2>2, <2>3
<1>5. Waiting = pendingFfs /\ Waiting' = pendingFfs'
  BY <1>2, <1>4, NothingToRecord DEF Waiting
<1>6. QED BY <1>2, <1>3, <1>5 DEF QuietStep, tigVars

LEMMA StepKinds ==
  ASSUME LowerInv, Members, [Next]_vars
  PROVE  \/ QuietStep
         \/ PortStep
         \/ \E n, name, domain : DriverStep(n, name, domain)
         \/ RegisterStep
<1>1. IInv /\ Handlers /\ InTurn
  BY DEF LowerInv, Members
<1>2. ASSUME Idle, UNCHANGED lowerVars
      PROVE  intended' = intended /\ Waiting = pendingFfs /\ Waiting' = pendingFfs'
  <2>1. calls = <<>> /\ calls' = <<>> /\ intended' = intended
    BY <1>2 DEF Idle, lowerVars
  <2>2. ~Next1("ff") /\ ~Next1("ff")'
    BY <2>1 DEF Next1
  <2>3. QED BY <2>1, <2>2 DEF Waiting
<1>3. CASE \E name \in InputPorts \cup OutputPorts : VisitPort(name)
  <2>1. PICK name \in InputPorts \cup OutputPorts : VisitPort(name)
    BY <1>3
  <2>2. /\ intended' = intended /\ Waiting = pendingFfs /\ Waiting' = pendingFfs'
        /\ phase = "visit" /\ name \in Name
    BY <1>1, <1>2, <2>1, MembersAreOverNames DEF VisitPort, InTurn
  <2>3. CASE name \in InputPorts /\ CreateModuleInput(name)
    BY <1>1, <2>2, <2>3 DEF PortStep, CreateModuleInput
  <2>4. CASE CreateModuleOutput(name)
    <3>1. Calm /\ pendingFfs' = pendingFfs
      BY <1>1, <2>2, <2>4, CreatingCalm
    <3>2. QED BY <2>2, <3>1 DEF QuietStep
  <2>5. QED BY <2>1, <2>3, <2>4 DEF VisitPort
<1>4. CASE \/ \E p \in Processes : VisitProcess(p)
           \/ \E i \in Instances : VisitInstance(i)
           \/ VisitPortConnection
  BY <1>1, <1>4, VisitsAreQuiet
<1>5. CASE MakeCall /\ CallOutput
  BY <1>5, DriverCalls
<1>6. CASE MakeCall /\ ~CallOutput
  BY <1>1, <1>6, QuietCalls
<1>7. CASE FinishModule
  <2>1. intended' = intended /\ Waiting = pendingFfs /\ Waiting' = pendingFfs'
    BY <1>2, <1>7 DEF FinishModule
  <2>2. CASE InsertFfs
    <3>1. Calm
      BY <1>1, <2>2, StillCalm DEF InsertFfs
    <3>2. QED BY <2>1, <2>2, <3>1 DEF QuietStep, InsertFfs
  <2>3. CASE WireConnections
    <3>1. Calm /\ phase' = "wired" /\ pendingFfs' = pendingFfs
      BY <1>1, <2>3, WiringCalm
    <3>2. QED BY <2>1, <3>1 DEF QuietStep
  <2>4. CASE InsertStep
    BY <2>1, <2>4 DEF RegisterStep
  <2>5. QED BY <1>7, <2>2, <2>3, <2>4 DEF FinishModule, InsertStep
<1>8. CASE UNCHANGED vars
  <2>1. UNCHANGED <<nodes, inputSpecs, signalMap, pendingFfs, ffMerge, phase, calls, operation, intended>>
    BY <1>8 DEF vars, tigVars, lowerVars
  <2>2. Calm /\ Waiting' = Waiting
    BY <1>1, <2>1, StillCalm DEF Waiting, Next1, Arg
  <2>3. QED BY <2>1, <2>2 DEF QuietStep
<1>9. QED BY <1>3, <1>4, <1>5, <1>6, <1>7, <1>8 DEF Next, Done

-----------------------------------------------------------------------------
(* The steps that neither drive nor register anything.                     *)

LEMMA DrivenMapped ==
  ASSUME IInv, Sourced, NEW name \in Name, Driven(name), NEW ref, ref = signalMap[name]
  PROVE  /\ ref \in Reference /\ ref # Unconnected /\ Existing(ref)
         /\ ref.node \in DOMAIN nodes /\ ref.port \in DOMAIN nodes[ref.node].outputs
         /\ ref = Ref(ref.node, ref.port)
<1>1. ref # Unconnected
  BY DEF Sourced
<1>2. ref.node \in DOMAIN nodes /\ ref.port \in DOMAIN nodes[ref.node].outputs
      /\ ref = Ref(ref.node, ref.port) /\ ref \in Reference
  BY <1>1, MappedOutput
<1>3. QED BY <1>1, <1>2 DEF Existing

LEMMA SameBehind ==
  ASSUME Kept, NEW ref, ref.node \in DOMAIN nodes,
         nodes[ref.node].kind = "merge" => nodes'[ref.node].inputs = nodes[ref.node].inputs
  PROVE  Behind(ref)' = Behind(ref)
<1>1. nodes'[ref.node].kind = nodes[ref.node].kind
  BY DEF Kept
<1>2. QED BY <1>1 DEF Behind

(* What the register of a name and a clock is behind.                      *)
LEMMA RegisterData ==
  ASSUME IInv, NEW n \in DOMAIN nodes, nodes[n].kind = "ff", NEW ref, ref = nodes[n].inputs[1]
  PROVE  /\ ref # Unconnected /\ Existing(ref) /\ ref.node \in DOMAIN nodes
         /\ ref.port \in DOMAIN nodes[ref.node].outputs
         /\ nodes[ref.node].kind \in {"op", "merge"}
<1>1. Sound(n) /\ TigTypeOK
  BY Facts DEF IInv, Structure, Typed
<1>2. Len(nodes[n].inputs) \in {2, 3} /\ Driver(ref, {"op", "merge"})
  BY <1>1 DEF Sound, Shaped, Layered
<1>3. 1 \in DOMAIN nodes[n].inputs
  BY <1>1, <1>2, Domains
<1>4. Existing(ref)
  BY <1>1, <1>3 DEF Sound
<1>5. QED BY <1>2, <1>4 DEF Driver, Existing

LEMMA RegisterStays ==
  ASSUME IInv, Kept, NEW n \in DOMAIN nodes, NEW name, NEW domain, Registers(n, name, domain),
         intended' = intended,
         nodes'[n].inputs[1] = nodes[n].inputs[1],
         nodes'[n].clkEdge = nodes[n].clkEdge, nodes'[n].rstEdge = nodes[n].rstEdge,
         inputSpecs'[n] = inputSpecs[n],
         \A m \in DOMAIN nodes : nodes[m].kind = "merge" =>
           /\ nodes'[m].inputs = nodes[m].inputs
           /\ \A k \in DOMAIN nodes[m].outputs :
                nodes'[m].outputs[k] = nodes[m].outputs[k] \/ nodes'[m].outputs[k] = NoName,
         Named(n, name)'
  PROVE  Registers(n, name, domain)'
<1>1. PICK ref : ref = nodes[n].inputs[1]
  OBVIOUS
<1>2. nodes[n].kind = "ff" /\ nodes'[n].kind = "ff" /\ nodes'[n].inputs[1] = ref
  BY <1>1 DEF Registers, Kept
<1>3. /\ ref.node \in DOMAIN nodes /\ ref.port \in DOMAIN nodes[ref.node].outputs
      /\ nodes'[ref.node].kind = nodes[ref.node].kind
  BY <1>1, <1>2, RegisterData DEF Kept
<1>4. Behind(ref)' = Behind(ref) /\ Behind(ref) = RefsUnder(name, domain)
  BY <1>1, <1>3, SameBehind DEF Registers
<1>5. Behind(nodes[n].inputs[1])' = RefsUnder(name, domain)'
  BY <1>2, <1>4 DEF Behind, RefsUnder
<1>6. nodes'[ref.node].kind = "merge" => nodes'[ref.node].outputs[ref.port] = NoName
  BY <1>1, <1>3 DEF Registers, Carried
<1>7. /\ nodes'[n].clkEdge = domain.clkEdge /\ nodes'[n].rstEdge = domain.rstEdge
      /\ inputSpecs'[n] = FfSpecs(domain)
  BY DEF Registers
<1>8. QED BY <1>2, <1>5, <1>6, <1>7 DEF Registers, Carried

Undisturbed ==
  /\ Kept
  /\ \A m \in DOMAIN nodes :
       /\ nodes[m].kind \in {"merge", "ff_merge"} => nodes'[m].inputs = nodes[m].inputs
       /\ nodes[m].kind = "ff" =>
            /\ nodes'[m].inputs[1] = nodes[m].inputs[1]
            /\ nodes'[m].clkEdge = nodes[m].clkEdge /\ nodes'[m].rstEdge = nodes[m].rstEdge
            /\ inputSpecs'[m] = inputSpecs[m]
       /\ \A k \in DOMAIN nodes[m].outputs : nodes'[m].outputs[k] = nodes[m].outputs[k]
  /\ \A m \in DOMAIN nodes' :
       /\ m \in DOMAIN nodes \/ nodes'[m].kind \in {"pi", "po", "op", "instance"}
       /\ nodes'[m].kind = "instance" =>
            \A k \in DOMAIN nodes'[m].outputs :
              \/ m \in DOMAIN nodes /\ k \in DOMAIN nodes[m].outputs
              \/ nodes'[m].outputs[k] = NoName
  /\ \A name \in Name : Driven(name) => signalMap'[name] = signalMap[name]
  /\ ffMerge' = ffMerge /\ intended' = intended /\ Waiting' = Waiting
  /\ phase' = "visit" => phase = "visit"

LEMMA QuietIsUndisturbed ==
  ASSUME QuietStep
  PROVE  Undisturbed
<1>1. /\ Kept
      /\ \A m \in DOMAIN nodes :
           /\ nodes'[m].outputs = nodes[m].outputs
           /\ nodes[m].kind \in {"merge", "ff_merge"} => nodes'[m].inputs = nodes[m].inputs
           /\ nodes[m].kind = "ff" =>
                /\ nodes'[m].inputs[1] = nodes[m].inputs[1]
                /\ nodes'[m].clkEdge = nodes[m].clkEdge /\ nodes'[m].rstEdge = nodes[m].rstEdge
                /\ inputSpecs'[m] = inputSpecs[m]
      /\ \A m \in DOMAIN nodes' :
           m \notin DOMAIN nodes =>
             nodes'[m].kind \in {"po", "op", "instance"} /\ nodes'[m].outputs = <<>>
      /\ UNCHANGED <<signalMap, ffMerge>>
  BY DEF QuietStep, Calm
<1>2. QED BY <1>1 DEF Undisturbed, QuietStep

LEMMA PortIsUndisturbed ==
  ASSUME IInv, Sourced, PortStep
  PROVE  Undisturbed
<1>1. PICK name \in Name \cap InputPorts : CreateModuleInput(name)
  BY DEF PortStep
<1>2. /\ Kept /\ UNCHANGED <<ffMerge, phase>>
      /\ signalMap[name] = Unconnected
      /\ \A m \in DOMAIN nodes : nodes'[m] = nodes[m] /\ inputSpecs'[m] = inputSpecs[m]
      /\ \E new \in DOMAIN nodes' :
           /\ \A m \in DOMAIN nodes' : m \in DOMAIN nodes \/ m = new
           /\ nodes'[new].kind = "pi"
      /\ \A x \in Name : x # name => signalMap'[x] = signalMap[x]
  BY <1>1, InputEffect
<1>3. ~Driven(name)
  BY <1>1, <1>2 DEF Sourced
<1>4. QED BY <1>2, <1>3 DEF Undisturbed, PortStep

(* An output nobody named.                                                 *)
LEMMA UnnamedIsUndisturbed ==
  ASSUME IInv, NEW n, NEW domain, DriverStep(n, NoName, domain)
  PROVE  Undisturbed
<1>1. AddFirstDriver(n, NoName) /\ intended' = intended /\ Waiting' = Waiting /\ NoName \in Names
  BY DEF DriverStep, AddNodeOutput, Names
<1>2. /\ Kept /\ nodes' \in Seq(NodeType) /\ Len(nodes') = Len(nodes)
      /\ \A m \in DOMAIN nodes :
           /\ nodes'[m].kind = nodes[m].kind
           /\ nodes'[m].inputs = nodes[m].inputs
           /\ nodes'[m].outputs = IF m = n THEN Append(nodes[n].outputs, NoName) ELSE nodes[m].outputs
  BY <1>1, AddFirstDriverEffect DEF IInv, Typed
<1>3. DOMAIN nodes' = DOMAIN nodes
  BY <1>2 DEF IInv, Typed, TigTypeOK
<1>4. /\ phase = "visit" /\ UNCHANGED <<inputSpecs, signalMap, ffMerge, phase>>
      /\ n \in DOMAIN nodes /\ nodes[n].kind \in {"op", "instance"}
  BY <1>1 DEF AddFirstDriver, Builds
<1>5. nodes' = WithOutput(n, NoName)
  BY <1>1 DEF AddFirstDriver
<1>6. \A m \in DOMAIN nodes :
        /\ nodes'[m].clkEdge = nodes[m].clkEdge /\ nodes'[m].rstEdge = nodes[m].rstEdge
  <2>1. \A m \in DOMAIN nodes : m # n => nodes'[m] = nodes[m]
    BY <1>5 DEF WithOutput
  <2>2. nodes[n] \in NodeType
    BY <1>4, Domains DEF IInv, Typed
  <2>3. nodes'[n] = [nodes[n] EXCEPT !.outputs = Append(@, NoName)]
    BY <1>4, <1>5 DEF WithOutput
  <2>4. QED BY <2>1, <2>2, <2>3 DEF NodeType
<1>7. ASSUME NEW m \in DOMAIN nodes
      PROVE  /\ \A k \in DOMAIN nodes[m].outputs : nodes'[m].outputs[k] = nodes[m].outputs[k]
             /\ \A k \in DOMAIN nodes'[m].outputs :
                  k \in DOMAIN nodes[m].outputs \/ nodes'[m].outputs[k] = NoName
  <2>1. CASE m = n
    <3>1. PICK q : q = nodes[n].outputs
      OBVIOUS
    <3>2. q \in Seq(Names) /\ nodes'[n].outputs = Append(q, NoName)
      BY <1>2, <1>4, <3>1, Domains DEF IInv, Typed, Specs
    <3>3. QED BY <1>1, <2>1, <3>1, <3>2
  <2>2. CASE m # n
    BY <1>2, <2>2
  <2>3. QED BY <2>1, <2>2
<1>8. QED BY <1>1, <1>2, <1>3, <1>4, <1>6, <1>7 DEF Undisturbed

LEMMA UndisturbedEmission ==
  ASSUME IInv, Sourced, Emission, Undisturbed
  PROVE  Emission'
<1>1. /\ Kept /\ TigTypeOK /\ ffMerge' = ffMerge /\ intended' = intended /\ Waiting' = Waiting
      /\ phase' = "visit" => phase = "visit"
      /\ Intents /\ Alone /\ Recorded /\ Mapped /\ Registering
  BY DEF Undisturbed, Emission, IInv, Typed
<1>2. \A d \in intended :
        /\ d.ref.node \in DOMAIN nodes /\ d.ref.port \in DOMAIN nodes[d.ref.node].outputs
        /\ nodes'[d.ref.node].kind = nodes[d.ref.node].kind
        /\ nodes'[d.ref.node].outputs[d.ref.port] = nodes[d.ref.node].outputs[d.ref.port]
  BY <1>1 DEF Intents, Existing, Driver, Kept, Undisturbed
<1>3. Intents'
  <2>1. \A d \in intended : Existing(d.ref)' /\ Driver(d.ref, {"op", "instance"})'
    BY <1>1, KeptReferences DEF Intents
  <2>2. QED BY <1>1, <2>1 DEF Intents
<1>4. Alone'
  <2>1. \A d \in intended : nodes'[d.ref.node].kind = "instance" =>
          /\ d.domain = Comb
          /\ \A e \in intended : e.name = d.name => e = d
          /\ nodes'[d.ref.node].outputs[d.ref.port] = d.name
    BY <1>1, <1>2 DEF Alone, Carried
  <2>2. ASSUME NEW m \in DOMAIN nodes', NEW k \in DOMAIN nodes'[m].outputs,
               nodes'[m].kind = "instance", nodes'[m].outputs[k] # NoName
        PROVE  Output(nodes'[m].outputs[k], Ref(m, k), Comb) \in intended
    <3>1. m \in DOMAIN nodes /\ k \in DOMAIN nodes[m].outputs
      BY <2>2 DEF Undisturbed
    <3>2. nodes[m].kind = "instance" /\ nodes'[m].outputs[k] = nodes[m].outputs[k]
      BY <1>1, <2>2, <3>1 DEF Undisturbed, Kept
    <3>3. QED BY <1>1, <2>2, <3>1, <3>2 DEF Alone
  <2>3. QED BY <1>1, <2>1, <2>2 DEF Alone, Carried
<1>5. Recorded'
  BY <1>1 DEF Recorded, Clocked
<1>6. Mapped'
  <2>1. ASSUME NEW name \in Name, Driven(name)'
        PROVE  IF Direct(name)' THEN Behind(signalMap[name])' = Refs(name)'
               ELSE ffMerge'.name = name \/ nodes'[signalMap'[name].node].kind \in {"ff", "ff_merge"}
    <3>1. Driven(name) /\ (Direct(name)' <=> Direct(name)) /\ Refs(name)' = Refs(name)
      BY <1>1, <2>1 DEF Driven, Direct, Unclocked, Refs
    <3>2. PICK ref : ref = signalMap[name]
      OBVIOUS
    <3>3. ref.node \in DOMAIN nodes /\ signalMap'[name] = ref
      BY <3>1, <3>2, DrivenMapped DEF Undisturbed
    <3>4. Behind(ref)' = Behind(ref)
      BY <1>1, <3>3, SameBehind DEF Undisturbed
    <3>5. Behind(signalMap[name])' = Behind(signalMap[name])
      BY <3>2, <3>3, <3>4 DEF Behind
    <3>6. nodes'[signalMap'[name].node].kind = nodes[signalMap[name].node].kind
      BY <1>1, <3>2, <3>3 DEF Kept
    <3>7. QED BY <1>1, <3>1, <3>5, <3>6 DEF Mapped
  <2>2. QED BY <2>1 DEF Mapped
<1>7. Registering'
  <2>1. \A m \in DOMAIN nodes' : \A n \in DOMAIN nodes : Over(m, n)' <=> m \in DOMAIN nodes /\ Over(m, n)
    <3>1. ASSUME NEW m \in DOMAIN nodes', nodes'[m].kind = "ff_merge"
          PROVE  m \in DOMAIN nodes /\ nodes'[m].inputs = nodes[m].inputs /\ nodes[m].kind = "ff_merge"
      BY <3>1 DEF Undisturbed, Kept
    <3>2. ASSUME NEW m \in DOMAIN nodes, nodes[m].kind = "ff_merge"
          PROVE  nodes'[m].kind = "ff_merge" /\ nodes'[m].inputs = nodes[m].inputs
      BY <3>2 DEF Undisturbed, Kept
    <3>3. QED BY <3>1, <3>2 DEF Over
  <2>2. \A m \in DOMAIN nodes : nodes[m].kind \in {"ff", "ff_merge"} =>
          nodes'[m].outputs[1] = nodes[m].outputs[1]
    <3>1. ASSUME NEW m \in DOMAIN nodes, nodes[m].kind \in {"ff", "ff_merge"}
          PROVE  1 \in DOMAIN nodes[m].outputs
      <4>1. Len(nodes[m].outputs) = 1
        BY <3>1, Facts DEF IInv, Structure, Sound, Shaped
      <4>2. QED BY <1>1, <4>1, Domains
    <3>2. QED BY <3>1 DEF Undisturbed
  <2>3. ASSUME NEW n \in DOMAIN nodes, NEW name, NEW domain, Registers(n, name, domain)
        PROVE  Registers(n, name, domain)'
    <3>1. nodes[n].kind = "ff" /\ Named(n, name)
      BY <2>3 DEF Registers
    <3>2. nodes'[n].outputs[1] = nodes[n].outputs[1]
      BY <2>2, <3>1
    <3>3. Named(n, name)'
      <4>1. CASE nodes[n].outputs[1] = name
        BY <3>2, <4>1 DEF Named
      <4>2. CASE /\ nodes[n].outputs[1] = NoName
                 /\ \A m \in DOMAIN nodes : Over(m, n) => nodes[m].outputs[1] = name
                 /\ Ref(n, 1) \in Range(ffMerge.ffs) => ffMerge.name = name
                 /\ Ref(n, 1) \in Range(ffMerge.ffs) \/ \E m \in DOMAIN nodes : Over(m, n)
        <5>1. \A m \in DOMAIN nodes' : Over(m, n)' => nodes'[m].outputs[1] = name
          BY <2>1, <2>2, <4>2 DEF Over
        <5>2. (\E m \in DOMAIN nodes : Over(m, n)) => \E m \in DOMAIN nodes' : Over(m, n)'
          BY <1>1, <2>1 DEF Kept
        <5>3. Ref(n, 1) \in Range(ffMerge'.ffs) <=> Ref(n, 1) \in Range(ffMerge.ffs)
          BY <1>1
        <5>4. QED BY <1>1, <3>2, <4>2, <5>1, <5>2, <5>3 DEF Named
      <4>3. QED BY <3>1, <4>1, <4>2 DEF Named
    <3>4. /\ nodes'[n].inputs[1] = nodes[n].inputs[1]
          /\ nodes'[n].clkEdge = nodes[n].clkEdge /\ nodes'[n].rstEdge = nodes[n].rstEdge
          /\ inputSpecs'[n] = inputSpecs[n]
      BY <3>1 DEF Undisturbed
    <3>5. \A m \in DOMAIN nodes : nodes[m].kind = "merge" =>
            /\ nodes'[m].inputs = nodes[m].inputs
            /\ \A k \in DOMAIN nodes[m].outputs :
                 nodes'[m].outputs[k] = nodes[m].outputs[k] \/ nodes'[m].outputs[k] = NoName
      BY DEF Undisturbed
    <3>6. QED BY <1>1, <2>3, <3>3, <3>4, <3>5, RegisterStays
  <2>4. ASSUME NEW n \in DOMAIN nodes', nodes'[n].kind = "ff"
        PROVE  \E d \in intended : d.domain # Comb /\ Registers(n, d.name, Normal(d.domain))'
    <3>1. n \in DOMAIN nodes /\ nodes[n].kind = "ff"
      BY <2>4 DEF Undisturbed, Kept
    <3>2. PICK d \in intended : d.domain # Comb /\ Registers(n, d.name, Normal(d.domain))
      BY <1>1, <3>1 DEF Registering
    <3>3. PICK domain : domain = Normal(d.domain)
      OBVIOUS
    <3>4. Registers(n, d.name, domain)'
      BY <2>3, <3>1, <3>2, <3>3
    <3>5. QED BY <3>2, <3>3, <3>4
  <2>5. ASSUME NEW d \in intended, d.domain # Comb, d \notin Waiting
        PROVE  \E n \in DOMAIN nodes' : Registers(n, d.name, Normal(d.domain))'
    <3>1. PICK n \in DOMAIN nodes : Registers(n, d.name, Normal(d.domain))
      BY <1>1, <2>5 DEF Registering
    <3>2. PICK domain : domain = Normal(d.domain)
      OBVIOUS
    <3>3. Registers(n, d.name, domain)'
      BY <2>3, <3>1, <3>2
    <3>4. n \in DOMAIN nodes'
      BY <1>1 DEF Kept
    <3>5. QED BY <3>2, <3>3, <3>4
  <2>6. QED BY <1>1, <2>4, <2>5 DEF Registering
<1>8. QED BY <1>3, <1>4, <1>5, <1>6, <1>7 DEF Emission

-----------------------------------------------------------------------------
(* A driver of a name is added.                                            *)

LEMMA DriverFacts ==
  ASSUME LowerInv, Sourced, Emission, NEW n, NEW name \in Name, NEW domain,
         DriverStep(n, name, domain), NEW ref, ref = NextOutput(n)
  PROVE  /\ phase = "visit" /\ phase' = "visit" /\ ffMerge = NoMerge /\ ffMerge' = NoMerge
         /\ n \in DOMAIN nodes /\ nodes[n].kind \in {"op", "instance"}
         /\ ref \in Reference /\ ref # Unconnected /\ ref.node = n
         /\ ref.port = Len(nodes[n].outputs) + 1 /\ ref = Ref(ref.node, ref.port)
         /\ ref.port \in DOMAIN nodes'[n].outputs /\ ref.port \notin DOMAIN nodes[n].outputs
         /\ Kept
         /\ \A m \in DOMAIN nodes' : nodes'[m].kind = "instance" =>
              /\ m \in DOMAIN nodes
              /\ \A k \in DOMAIN nodes'[m].outputs :
                   \/ k \in DOMAIN nodes[m].outputs /\ nodes'[m].outputs[k] = nodes[m].outputs[k]
                   \/ m = n /\ k = ref.port
         /\ signalMap[name] # Unconnected <=> Driven(name)
         /\ \A x \in Name : x # name => signalMap'[x] = signalMap[x]
<1>1. IInv /\ TigTypeOK /\ Naming /\ AddNodeOutput(n, name) /\ name \in Names /\ name # NoName
      /\ name \notin InputPorts
  BY NoNameIsNoName DEF LowerInv, DriverStep, IInv, Typed
<1>2. /\ Builds(n) /\ Kept /\ UNCHANGED <<pendingFfs, ffMerge, phase>>
      /\ nodes' \in Seq(NodeType) /\ Len(nodes') >= Len(nodes)
      /\ \A m \in DOMAIN nodes :
           /\ nodes'[m].kind = nodes[m].kind
           /\ Len(nodes'[m].outputs) = Len(nodes[m].outputs) + (IF m = n THEN 1 ELSE 0)
           /\ nodes[m].kind # "op" =>
                \A k \in DOMAIN nodes[m].outputs : nodes'[m].outputs[k] = nodes[m].outputs[k]
      /\ \A m \in DOMAIN nodes' : m \notin DOMAIN nodes => nodes'[m].kind = "merge"
      /\ \A x \in Name : x # name => signalMap'[x] = signalMap[x]
  BY <1>1, DriverEffect
<1>3. /\ n \in DOMAIN nodes /\ nodes[n].kind \in {"op", "instance"} /\ phase = "visit"
      /\ ref \in Reference /\ ref # Unconnected /\ ref.node = n
      /\ ref.port = Len(nodes[n].outputs) + 1
  BY <1>1, <1>2, BuildsNode
<1>4. ffMerge = NoMerge
  BY <1>1, <1>3, NotSplitting
<1>5. /\ nodes[n].outputs \in Specs /\ nodes'[n].outputs \in Specs
      /\ DOMAIN nodes[n].outputs = 1..Len(nodes[n].outputs) /\ Len(nodes[n].outputs) \in Nat
      /\ DOMAIN nodes'[n].outputs = 1..(Len(nodes[n].outputs) + 1)
  <2>1. nodes[n].outputs \in Specs
    BY <1>1, <1>3, Domains
  <2>2. nodes'[n] \in NodeType
    BY <1>2, <1>3 DEF Kept
  <2>3. nodes'[n].outputs \in Specs
    BY <2>2, NodeFields DEF Specs
  <2>4. Len(nodes'[n].outputs) = Len(nodes[n].outputs) + 1
    BY <1>2, <1>3
  <2>5. QED BY <2>1, <2>3, <2>4 DEF Specs
<1>6. ref.port \in DOMAIN nodes'[n].outputs /\ ref.port \notin DOMAIN nodes[n].outputs
  BY <1>3, <1>5
<1>7. ref = Ref(ref.node, ref.port)
  BY <1>3 DEF Reference, Ref
<1>8. ASSUME NEW m \in DOMAIN nodes', nodes'[m].kind = "instance",
             NEW k \in DOMAIN nodes'[m].outputs
      PROVE  /\ m \in DOMAIN nodes
             /\ \/ k \in DOMAIN nodes[m].outputs /\ nodes'[m].outputs[k] = nodes[m].outputs[k]
                \/ m = n /\ k = ref.port
  <2>1. m \in DOMAIN nodes /\ nodes[m].kind # "op"
    BY <1>2, <1>8
  <2>2. CASE k \in DOMAIN nodes[m].outputs
    BY <1>2, <2>1, <2>2
  <2>3. CASE k \notin DOMAIN nodes[m].outputs /\ m = n
    BY <1>3, <1>5, <1>8, <2>1, <2>3
  <2>4. CASE k \notin DOMAIN nodes[m].outputs /\ m # n
    <3>1. Len(nodes'[m].outputs) = Len(nodes[m].outputs)
      <4>1. Len(nodes'[m].outputs) = Len(nodes[m].outputs) + 0
        BY <1>2, <2>1, <2>4
      <4>2. QED BY <1>1, <2>1, <4>1, Domains DEF Specs
    <3>2. nodes'[m].outputs \in Seq(Names) /\ nodes[m].outputs \in Seq(Names)
      BY <1>1, <1>2, <1>8, <2>1, NodeFields, Domains DEF Specs
    <3>3. QED BY <1>8, <2>4, <3>1, <3>2
  <2>5. QED BY <2>1, <2>2, <2>3, <2>4
<1>9. signalMap[name] # Unconnected <=> Driven(name)
  <2>1. ~IsInput(name)
    BY <1>1 DEF Sourced, InputsNamed, IsInput
  <2>2. QED BY <2>1 DEF Sourced
<1>10. \A m \in DOMAIN nodes' : nodes'[m].kind = "instance" => m \in DOMAIN nodes
  BY <1>2
<1>11. QED BY <1>2, <1>3, <1>4, <1>6, <1>7, <1>8, <1>9, <1>10

(* In the visit a driven name is mapped to its drivers.                    *)
LEMMA VisitMapped ==
  ASSUME Emission, phase = "visit", ffMerge = NoMerge, NEW name \in Name, Driven(name)
  PROVE  Behind(signalMap[name]) = Refs(name)
<1>1. PICK d \in intended : d.name = name
  BY DEF Driven
<1>2. Direct(name)
  <2>1. CASE d.domain = Comb
    BY <1>1, <2>1 DEF Direct, Unclocked
  <2>2. CASE d.domain # Comb
    <3>1. d \in Waiting
      BY <2>2 DEF Emission, Recorded
    <3>2. ffMerge.name # name
      BY NoNameIsNoName DEF NoMerge
    <3>3. QED BY <1>1, <3>1, <3>2 DEF Direct
  <2>3. QED BY <2>1, <2>2
<1>3. QED BY <1>2 DEF Emission, Mapped

LEMMA FirstBehind ==
  ASSUME LowerInv, Sourced, Emission, NEW n, NEW name \in Name, NEW domain,
         DriverStep(n, name, domain), NEW ref, ref = NextOutput(n), AddFirstDriver(n, name)
  PROVE  /\ Behind(signalMap[name])' = Refs(name) \cup {ref}
         /\ nodes'[n].outputs[ref.port] = name
         /\ \A m \in DOMAIN nodes : nodes'[m].inputs = nodes[m].inputs
<1>1. IInv /\ TigTypeOK /\ name \in Names /\ name # NoName
  BY NoNameIsNoName DEF LowerInv, IInv, Typed, Names
<1>2. /\ n \in DOMAIN nodes /\ nodes[n].kind \in {"op", "instance"} /\ ref.node = n
      /\ ref.port = Len(nodes[n].outputs) + 1
      /\ signalMap[name] # Unconnected <=> Driven(name)
      /\ nodes'[n].kind = nodes[n].kind
  BY DriverFacts DEF Kept
<1>3. Refs(name) = {}
  BY <1>1, <1>2 DEF AddFirstDriver, Refs, Driven
<1>4. /\ signalMap'[name] = ref
      /\ \A m \in DOMAIN nodes :
           /\ nodes'[m].inputs = nodes[m].inputs
           /\ nodes'[m].outputs = IF m = n THEN Append(nodes[n].outputs, name) ELSE nodes[m].outputs
  <2>1. signalMap' = [signalMap EXCEPT ![name] = ref]
    BY <1>1 DEF AddFirstDriver
  <2>2. signalMap'[name] = ref
    BY <1>1, <2>1 DEF TigTypeOK
  <2>3. QED BY <1>1, <2>2, AddFirstDriverEffect
<1>5. Behind(signalMap[name])' = {ref}
  BY <1>2, <1>4 DEF Behind
<1>6. nodes'[n].outputs[ref.port] = name
  <2>1. PICK q : q = nodes[n].outputs
    OBVIOUS
  <2>2. q \in Seq(Names) /\ nodes'[n].outputs = Append(q, name) /\ ref.port = Len(q) + 1
    BY <1>1, <1>2, <1>4, <2>1, Domains DEF Specs
  <2>3. QED BY <1>1, <2>2
<1>7. QED BY <1>3, <1>4, <1>5, <1>6

LEMMA SecondBehind ==
  ASSUME LowerInv, Sourced, Emission, NEW n, NEW name \in Name, NEW domain,
         DriverStep(n, name, domain), NEW ref, ref = NextOutput(n), AddSecondDriver(n, name)
  PROVE  /\ Behind(signalMap[name])' = Refs(name) \cup {ref}
         /\ \A m \in DOMAIN nodes : nodes'[m].inputs = nodes[m].inputs
<1>1. IInv /\ TigTypeOK /\ Held
  BY Facts DEF LowerInv, IInv, Typed, Structure
<1>2. PICK old, new : old = signalMap[name] /\ new = Len(nodes) + 1
  OBVIOUS
<1>3. /\ phase = "visit" /\ ffMerge = NoMerge
      /\ signalMap[name] # Unconnected <=> Driven(name)
  BY DriverFacts
<1>4. /\ old # Unconnected /\ nodes[old.node].kind # "merge"
      /\ signalMap' = [signalMap EXCEPT ![name] = Ref(new, 1)]
  BY <1>2 DEF AddSecondDriver
<1>5. Refs(name) = {old}
  <2>1. Driven(name) /\ Behind(signalMap[name]) = {old}
    BY <1>2, <1>3, <1>4 DEF Behind
  <2>2. Behind(signalMap[name]) = Refs(name)
    BY <1>3, <2>1, VisitMapped
  <2>3. QED BY <2>1, <2>2
<1>6. /\ \A m \in DOMAIN nodes : nodes'[m].inputs = nodes[m].inputs
      /\ nodes'[new].kind = "merge"
      /\ nodes'[new].inputs = <<old, ref>>
  BY <1>1, <1>2, AddSecondDriverEffect
<1>7. signalMap'[name].node = new
  BY <1>1, <1>4 DEF TigTypeOK, Ref
<1>8. PICK q : q = <<old, ref>>
  OBVIOUS
<1>9. Range(q) = {old, ref}
  <2>1. DOMAIN q = {1, 2} /\ q[1] = old /\ q[2] = ref
    BY <1>8
  <2>2. QED BY <2>1 DEF Range
<1>10. Behind(signalMap[name])' = {old, ref}
  BY <1>6, <1>7, <1>8, <1>9 DEF Behind
<1>11. QED BY <1>5, <1>6, <1>10

LEMMA LaterBehind ==
  ASSUME LowerInv, Sourced, Emission, NEW n, NEW name \in Name, NEW domain,
         DriverStep(n, name, domain), NEW ref, ref = NextOutput(n), AddLaterDriver(n, name)
  PROVE  /\ Behind(signalMap[name])' = Refs(name) \cup {ref}
         /\ \A m \in DOMAIN nodes :
              m # signalMap[name].node => nodes'[m].inputs = nodes[m].inputs
         /\ nodes[signalMap[name].node].kind = "merge"
<1>1. IInv /\ TigTypeOK /\ Held /\ Len(inputSpecs) = Len(nodes)
  BY Facts DEF LowerInv, IInv, Typed, Structure
<1>2. PICK old, merge : old = signalMap[name] /\ merge = old.node
  OBVIOUS
<1>3. /\ phase = "visit" /\ ffMerge = NoMerge
      /\ signalMap[name] # Unconnected <=> Driven(name)
      /\ ref \in Reference /\ n \in DOMAIN nodes /\ nodes[n].kind \in {"op", "instance"}
  BY DriverFacts
<1>4. old # Unconnected /\ nodes[merge].kind = "merge" /\ signalMap' = signalMap
  BY <1>2 DEF AddLaterDriver
<1>5. merge \in DOMAIN nodes /\ Driven(name)
  BY <1>1, <1>2, <1>3, <1>4, MappedOutput
<1>6. Range(nodes[merge].inputs) = Refs(name)
  <2>1. Behind(signalMap[name]) = Range(nodes[merge].inputs)
    BY <1>2, <1>4 DEF Behind
  <2>2. QED BY <1>3, <1>5, <2>1, VisitMapped
<1>7. /\ nodes'[merge].inputs = Append(nodes[merge].inputs, ref)
      /\ \A m \in DOMAIN nodes : m # merge => nodes'[m].inputs = nodes[m].inputs
      /\ nodes'[merge].kind = "merge"
  <2>1. PICK base : base = [nodes EXCEPT ![n].outputs = Append(@, NoName)]
    OBVIOUS
  <2>2. nodes' = [base EXCEPT ![merge].inputs = Append(@, ref)]
    BY <1>2, <2>1 DEF AddLaterDriver
  <2>3. base = WithOut(nodes, n, NoName)
    BY <2>1 DEF WithOut
  <2>4. NoName \in Names
    BY DEF Names
  <2>5. base \in Seq(NodeType) /\ Len(base) = Len(nodes)
        /\ \A m \in DOMAIN nodes : base[m].inputs = nodes[m].inputs /\ base[m].kind = nodes[m].kind
    <3>1. nodes \in Seq(NodeType) /\ n \in DOMAIN nodes
      BY <1>1, <1>3 DEF TigTypeOK
    <3>2. /\ base \in Seq(NodeType)
          /\ Len(base) = Len(nodes)
          /\ \A m \in DOMAIN nodes :
               /\ base[m].kind = nodes[m].kind
               /\ base[m].inputs = nodes[m].inputs
               /\ base[m].outputs = IF m = n THEN Append(nodes[n].outputs, NoName) ELSE nodes[m].outputs
      BY <2>3, <2>4, <3>1, OutputAdded
    <3>3. QED BY <3>2
  <2>6. DOMAIN base = DOMAIN nodes
    BY <1>1, <2>5 DEF TigTypeOK
  <2>7. nodes' = WithIn(base, merge, ref)
    BY <2>2 DEF WithIn
  <2>8. \A m \in DOMAIN base :
          /\ nodes'[m].kind = base[m].kind
          /\ nodes'[m].inputs = IF m = merge THEN Append(base[merge].inputs, ref) ELSE base[m].inputs
    BY <1>3, <1>5, <2>5, <2>6, <2>7, InputAdded
  <2>9. QED BY <1>4, <1>5, <2>5, <2>6, <2>8
<1>8. Range(nodes'[merge].inputs) = Refs(name) \cup {ref}
  <2>1. PICK q, r : q = nodes[merge].inputs /\ r = nodes'[merge].inputs
    OBVIOUS
  <2>2. q \in Seq(Reference) /\ r = Append(q, ref)
    BY <1>1, <1>5, <1>7, <2>1, Domains
  <2>3. /\ DOMAIN r = 1..(Len(q) + 1) /\ r[Len(q) + 1] = ref /\ \A k \in DOMAIN q : r[k] = q[k]
        /\ DOMAIN q = 1..Len(q) /\ Len(q) \in Nat
    BY <1>3, <2>2, Appended
  <2>4. Range(r) = Range(q) \cup {ref}
    <3>1. \A x \in Range(r) : x \in Range(q) \/ x = ref
      BY <2>3 DEF Range
    <3>2. \A x \in Range(q) : x \in Range(r)
      BY <2>3 DEF Range
    <3>3. Len(q) + 1 \in DOMAIN r
      BY <2>3
    <3>4. ref \in Range(r)
      BY <2>3, <3>3 DEF Range
    <3>5. QED BY <3>1, <3>2, <3>4
  <2>5. QED BY <1>6, <2>1, <2>4
<1>9. Behind(signalMap[name])' = Refs(name) \cup {ref}
  BY <1>2, <1>4, <1>7, <1>8 DEF Behind
<1>10. QED BY <1>2, <1>4, <1>7, <1>9

(* What else is driven is mapped as it was: a merge has one output, which  *)
(* carries one name.                                                       *)
LEMMA OthersBehind ==
  ASSUME LowerInv, Sourced, Emission, NEW n, NEW name \in Name, NEW domain,
         DriverStep(n, name, domain), NEW x \in Name, x # name, Driven(x)
  PROVE  Behind(signalMap[x])' = Behind(signalMap[x])
<1>1. IInv /\ TigTypeOK /\ Naming
  BY DEF LowerInv, IInv, Typed
<1>2. PICK ref : ref = signalMap[x]
  OBVIOUS
<1>3. /\ ref \in Reference /\ ref # Unconnected /\ ref.node \in DOMAIN nodes
      /\ ref.port \in DOMAIN nodes[ref.node].outputs /\ ref = Ref(ref.node, ref.port)
  BY <1>1, <1>2, DrivenMapped
<1>4. Kept /\ signalMap'[x] = ref /\ ffMerge = NoMerge
  <2>1. PICK out : out = NextOutput(n)
    OBVIOUS
  <2>2. Kept
    BY <2>1, DriverFacts
  <2>3. ffMerge = NoMerge
    BY <2>1, DriverFacts
  <2>4. signalMap'[x] = signalMap[x]
    <3>1. name \in Names /\ AddNodeOutput(n, name)
      BY DEF Names, DriverStep
    <3>2. QED BY <1>1, <3>1, DriverEffect
  <2>5. QED BY <1>2, <2>2, <2>3, <2>4
<1>5. nodes[ref.node].kind = "merge" => nodes'[ref.node].inputs = nodes[ref.node].inputs
  <2>1. PICK out : out = NextOutput(n)
    OBVIOUS
  <2>2. CASE AddFirstDriver(n, name)
    BY <1>3, <2>1, <2>2, FirstBehind
  <2>3. CASE AddSecondDriver(n, name)
    BY <1>3, <2>1, <2>3, SecondBehind
  <2>4. CASE AddLaterDriver(n, name)
    <3>1. SUFFICES ASSUME nodes[ref.node].kind = "merge" PROVE ref.node # signalMap[name].node
      BY <1>3, <2>1, <2>4, LaterBehind
    <3>2. PICK old : old = signalMap[name]
      OBVIOUS
    <3>3. old # Unconnected
      BY <2>4, <3>2 DEF AddLaterDriver
    <3>4. /\ old.node \in DOMAIN nodes /\ old.port \in DOMAIN nodes[old.node].outputs
          /\ old = Ref(old.node, old.port)
      BY <1>1, <3>2, <3>3, MappedOutput
    <3>5. Carried(old) = name /\ Carried(ref) = x
      BY <1>1, <1>2, <1>3, <1>4, <3>2, <3>3, NoNameIsNoName DEF Naming, MappedNameIsCarried, NoMerge
    <3>6. DOMAIN nodes[ref.node].outputs = {1}
      <4>1. Len(nodes[ref.node].outputs) = 1
        BY <1>1, <1>3, <3>1, Facts DEF IInv, Structure, Sound, Shaped
      <4>2. QED BY <1>1, <1>3, <4>1, Domains
    <3>7. SUFFICES ASSUME ref.node = old.node PROVE FALSE
      BY <3>2
    <3>8. ref.port = 1 /\ old.port = 1
      BY <1>3, <3>4, <3>6, <3>7
    <3>9. ref = old
      BY <1>3, <3>4, <3>7, <3>8
    <3>10. QED BY <3>5, <3>9
  <2>5. QED BY <2>2, <2>3, <2>4 DEF DriverStep, AddNodeOutput
<1>6. Behind(ref)' = Behind(ref)
  BY <1>3, <1>4, <1>5, SameBehind
<1>7. QED BY <1>2, <1>4, <1>6 DEF Behind

LEMMA DriverEmission ==
  ASSUME ~MixedDrivers, LowerInv, IInv', Sourced, Emission, NEW n, NEW name \in Name, NEW domain,
         DriverStep(n, name, domain)
  PROVE  Emission'
<1>1. PICK ref, new : ref = NextOutput(n) /\ new = Output(name, ref, domain)
  OBVIOUS
<1>2. /\ phase = "visit" /\ phase' = "visit" /\ ffMerge = NoMerge /\ ffMerge' = NoMerge
      /\ n \in DOMAIN nodes /\ nodes[n].kind \in {"op", "instance"}
      /\ ref \in Reference /\ ref # Unconnected /\ ref.node = n
      /\ ref.port = Len(nodes[n].outputs) + 1 /\ ref = Ref(ref.node, ref.port)
      /\ ref.port \in DOMAIN nodes'[n].outputs /\ ref.port \notin DOMAIN nodes[n].outputs
      /\ Kept
      /\ \A m \in DOMAIN nodes' : nodes'[m].kind = "instance" =>
           /\ m \in DOMAIN nodes
           /\ \A k \in DOMAIN nodes'[m].outputs :
                \/ k \in DOMAIN nodes[m].outputs /\ nodes'[m].outputs[k] = nodes[m].outputs[k]
                \/ m = n /\ k = ref.port
      /\ signalMap[name] # Unconnected <=> Driven(name)
      /\ \A x \in Name : x # name => signalMap'[x] = signalMap[x]
  BY <1>1, DriverFacts
<1>3. /\ IInv /\ TigTypeOK /\ Naming /\ Intents /\ Alone /\ Recorded /\ Mapped /\ Registering
  BY DEF LowerInv, IInv, Typed, Emission
<1>4. name # NoName /\ NoName \notin Name
  BY NoNameIsNoName
<1>5. /\ intended' = intended \cup {new}
      /\ domain = Comb => Waiting' = Waiting
      /\ domain # Comb => Waiting' = Waiting \cup {new}
      /\ MayDrive(name, domain) /\ (nodes[n].kind = "instance" => domain = Comb /\ ~Driven(name))
      /\ name \notin InputPorts /\ domain \in Domain \cup {Comb}
  BY <1>1, <1>4 DEF DriverStep
<1>6. new.name = name /\ new.ref = ref /\ new.domain = domain
  BY <1>1 DEF Output
<1>7. ASSUME NEW d \in intended
      PROVE  /\ d.ref # ref /\ d.ref.node \in DOMAIN nodes
             /\ d.ref.port \in DOMAIN nodes[d.ref.node].outputs
             /\ nodes'[d.ref.node].kind = nodes[d.ref.node].kind
             /\ d.name = name => (d.domain = Comb <=> domain = Comb) /\ nodes[d.ref.node].kind # "instance"
             /\ d.domain # Comb => d \in Waiting
  <2>1. /\ d.ref.node \in DOMAIN nodes /\ d.ref.port \in DOMAIN nodes[d.ref.node].outputs
    BY <1>3 DEF Intents, Existing, Driver
  <2>2. d.ref # ref
    BY <1>2, <2>1
  <2>3. d.name = name => (d.domain = Comb <=> domain = Comb) /\ nodes[d.ref.node].kind # "instance"
    BY <1>5 DEF MayDrive, Clocked, Unclocked, ByInstance
  <2>4. d.domain # Comb => d \in Waiting
    BY <1>2, <1>3 DEF Recorded
  <2>5. QED BY <1>2, <2>1, <2>2, <2>3, <2>4 DEF Kept
<1>8. Intents'
  <2>1. \A d \in intended : Existing(d.ref)' /\ Driver(d.ref, {"op", "instance"})'
    BY <1>2, <1>3, KeptReferences DEF Intents
  <2>2. /\ new = Output(new.name, new.ref, new.domain)
        /\ new.name \in Name \ InputPorts /\ new.domain \in Domain \cup {Comb}
        /\ new.ref \in Reference
    BY <1>1, <1>2, <1>5, <1>6
  <2>3. Existing(ref)' /\ Driver(ref, {"op", "instance"})'
    BY <1>2 DEF Existing, Driver, Kept
  <2>4. \A d \in intended' :
          /\ d = Output(d.name, d.ref, d.domain)
          /\ d.name \in Name \ InputPorts /\ d.domain \in Domain \cup {Comb}
          /\ d.ref \in Reference /\ Existing(d.ref)' /\ Driver(d.ref, {"op", "instance"})'
    BY <1>3, <1>5, <1>6, <2>1, <2>2, <2>3 DEF Intents
  <2>5. \A d, e \in intended' : d.ref = e.ref => d = e
    BY <1>3, <1>5, <1>6, <1>7 DEF Intents
  <2>6. \A d, e \in intended' : d.name = e.name => (d.domain = Comb <=> e.domain = Comb)
    BY <1>3, <1>5, <1>6, <1>7 DEF Intents
  <2>7. QED BY <2>4, <2>5, <2>6 DEF Intents
<1>9. Alone'
  <2>1. nodes[n].kind = "instance" => nodes'[n].outputs[ref.port] = name
    <3>1. SUFFICES ASSUME nodes[n].kind = "instance" PROVE nodes'[n].outputs[ref.port] = name
      OBVIOUS
    <3>2. signalMap[name] = Unconnected
      BY <1>2, <1>5, <3>1
    <3>3. AddFirstDriver(n, name)
      BY <3>2 DEF DriverStep, AddNodeOutput, AddSecondDriver, AddLaterDriver
    <3>4. QED BY <1>1, <3>3, FirstBehind
  <2>2. ASSUME NEW d \in intended', nodes'[d.ref.node].kind = "instance"
        PROVE  /\ d.domain = Comb
               /\ \A e \in intended' : e.name = d.name => e = d
               /\ nodes'[d.ref.node].outputs[d.ref.port] = d.name
    <3>1. CASE d = new
      <4>1. nodes[n].kind = "instance"
        BY <1>2, <1>6, <2>2, <3>1 DEF Kept
      <4>2. QED BY <1>2, <1>5, <1>6, <2>1, <3>1, <4>1 DEF Driven
    <3>2. CASE d \in intended
      <4>1. nodes[d.ref.node].kind = "instance" /\ d.name # name
        BY <1>7, <2>2, <3>2
      <4>2. /\ d.domain = Comb
            /\ \A e \in intended : e.name = d.name => e = d
            /\ nodes[d.ref.node].outputs[d.ref.port] = d.name
        BY <1>3, <3>2, <4>1 DEF Alone, Carried
      <4>3. nodes'[d.ref.node].outputs[d.ref.port] = nodes[d.ref.node].outputs[d.ref.port]
        <5>1. /\ d.ref.node \in DOMAIN nodes' /\ d.ref.port \in DOMAIN nodes'[d.ref.node].outputs
              /\ d.ref.port \in DOMAIN nodes[d.ref.node].outputs
          BY <1>2, <1>7, <3>2 DEF Kept
        <5>2. QED BY <1>2, <2>2, <5>1
      <4>4. QED BY <1>5, <1>6, <4>1, <4>2, <4>3
    <3>3. QED BY <1>5, <2>2, <3>1, <3>2
  <2>3. ASSUME NEW m \in DOMAIN nodes', NEW k \in DOMAIN nodes'[m].outputs,
               nodes'[m].kind = "instance", nodes'[m].outputs[k] # NoName
        PROVE  Output(nodes'[m].outputs[k], Ref(m, k), Comb) \in intended'
    <3>1. m \in DOMAIN nodes /\ nodes[m].kind = "instance"
      BY <1>2, <2>3 DEF Kept
    <3>2. CASE k \in DOMAIN nodes[m].outputs /\ nodes'[m].outputs[k] = nodes[m].outputs[k]
      <4>1. Output(nodes[m].outputs[k], Ref(m, k), Comb) \in intended
        BY <1>3, <2>3, <3>1, <3>2 DEF Alone
      <4>2. QED BY <1>5, <3>2, <4>1
    <3>3. CASE m = n /\ k = ref.port
      <4>1. nodes'[m].outputs[k] = name /\ Ref(m, k) = ref /\ domain = Comb
        BY <1>2, <1>5, <2>1, <3>1, <3>3
      <4>2. QED BY <1>1, <1>5, <4>1
    <3>4. QED BY <1>2, <2>3, <3>2, <3>3
  <2>4. QED BY <2>2, <2>3 DEF Alone, Carried
<1>10. \A d \in intended' : d.domain # Comb => d \in Waiting'
  BY <1>5, <1>6, <1>7
<1>11. Recorded'
  <2>1. \A f \in Waiting' : f \in intended' /\ f.domain # Comb
    BY <1>3, <1>5, <1>6 DEF Recorded
  <2>2. QED BY <1>2, <1>10, <2>1 DEF Recorded
<1>12. Mapped'
  <2>1. Behind(signalMap[name])' = Refs(name) \cup {ref}
    <3>1. CASE AddFirstDriver(n, name)
      BY <1>1, <3>1, FirstBehind
    <3>2. CASE AddSecondDriver(n, name)
      BY <1>1, <3>2, SecondBehind
    <3>3. CASE AddLaterDriver(n, name)
      BY <1>1, <3>3, LaterBehind
    <3>4. QED BY <3>1, <3>2, <3>3 DEF DriverStep, AddNodeOutput
  <2>2. ASSUME NEW x \in Name, Driven(x)'
        PROVE  Behind(signalMap[x])' = Refs(x)'
    <3>1. CASE x = name
      <4>1. Refs(x)' = Refs(name) \cup {ref}
        BY <1>5, <1>6, <3>1 DEF Refs
      <4>2. QED BY <2>1, <3>1, <4>1
    <3>2. CASE x # name
      <4>1. Refs(x)' = Refs(x) /\ Driven(x)
        BY <1>5, <1>6, <2>2, <3>2 DEF Refs, Driven
      <4>2. Behind(signalMap[x]) = Refs(x)
        BY <1>2, <4>1, VisitMapped
      <4>3. QED BY <3>2, <4>1, <4>2, OthersBehind
    <3>3. QED BY <3>1, <3>2
  <2>3. ASSUME NEW x \in Name, Driven(x)'
        PROVE  Direct(x)'
    <3>1. PICK d \in intended' : d.name = x
      BY <2>3 DEF Driven
    <3>2. CASE d.domain = Comb
      BY <3>1, <3>2 DEF Direct, Unclocked
    <3>3. CASE d.domain # Comb
      <4>1. d \in Waiting' /\ ffMerge'.name # x
        BY <1>2, <1>4, <1>10, <3>3 DEF NoMerge
      <4>2. QED BY <3>1, <4>1 DEF Direct
    <3>4. QED BY <3>2, <3>3
  <2>4. QED BY <2>2, <2>3 DEF Mapped
<1>13. Registering'
  <2>1. \A m \in DOMAIN nodes' : nodes'[m].kind # "ff"
    BY <1>2 DEF IInv, Structure, Visited
  <2>2. QED BY <1>10, <2>1 DEF Registering
<1>14. QED BY <1>8, <1>9, <1>11, <1>12, <1>13 DEF Emission

-----------------------------------------------------------------------------
(* insert_ffs puts registers behind the drivers of a name.                 *)

(* Nothing refers to a node that is not there yet.                         *)
LEMMA Unseen ==
  ASSUME IInv, NEW new, new \notin DOMAIN nodes
  PROVE  /\ \A m \in DOMAIN nodes : Ref(new, 1) \notin Range(nodes[m].inputs)
         /\ Ref(new, 1) \notin Range(ffMerge.ffs)
<1>1. ~Existing(Ref(new, 1))
  BY DEF Existing, Ref, Unconnected
<1>2. \A m \in DOMAIN nodes : \A k \in DOMAIN nodes[m].inputs : Existing(nodes[m].inputs[k])
  BY Facts DEF Sound
<1>3. \A k \in DOMAIN ffMerge.ffs : Existing(ffMerge.ffs[k])
  BY DEF IInv, Structure, Held
<1>4. ASSUME NEW m \in DOMAIN nodes, Ref(new, 1) \in Range(nodes[m].inputs) PROVE FALSE
  <2>1. PICK k \in DOMAIN nodes[m].inputs : nodes[m].inputs[k] = Ref(new, 1)
    BY <1>4 DEF Range
  <2>2. QED BY <1>1, <1>2, <2>1
<1>5. ASSUME Ref(new, 1) \in Range(ffMerge.ffs) PROVE FALSE
  <2>1. PICK k \in DOMAIN ffMerge.ffs : ffMerge.ffs[k] = Ref(new, 1)
    BY <1>5 DEF Range
  <2>2. QED BY <1>1, <1>3, <2>1
<1>6. QED BY <1>4, <1>5

LEMMA InsertingBehind ==
  ASSUME NEW x, Inserting(x), NEW ref, ref.node \in DOMAIN nodes
  PROVE  Behind(ref)' = Behind(ref)
<1>1. Kept /\ nodes'[ref.node].inputs = nodes[ref.node].inputs
  BY DEF Inserting
<1>2. QED BY <1>1, SameBehind

LEMMA InsertingIntents ==
  ASSUME IInv, Intents, Alone, NEW x, Inserting(x), intended' = intended
  PROVE  Intents' /\ Alone'
<1>1. Kept /\ TigTypeOK
  BY DEF Inserting, IInv, Typed
<1>2. Intents'
  <2>1. \A d \in intended : Existing(d.ref)' /\ Driver(d.ref, {"op", "instance"})'
    BY <1>1, KeptReferences DEF Intents
  <2>2. QED BY <2>1 DEF Intents
<1>3. \A m \in DOMAIN nodes' : nodes'[m].kind = "instance" =>
        m \in DOMAIN nodes /\ nodes[m].kind = "instance" /\ nodes'[m].outputs = nodes[m].outputs
  BY <1>1 DEF Inserting, Kept
<1>4. Alone'
  <2>1. \A d \in intended : d.ref.node \in DOMAIN nodes'
    BY <1>2 DEF Intents, Existing, Driver
  <2>2. \A d \in intended : nodes'[d.ref.node].kind = "instance" =>
          /\ d.domain = Comb
          /\ \A e \in intended : e.name = d.name => e = d
          /\ nodes'[d.ref.node].outputs[d.ref.port] = d.name
    BY <1>3, <2>1 DEF Alone, Carried
  <2>3. \A m \in DOMAIN nodes' : \A k \in DOMAIN nodes'[m].outputs :
          nodes'[m].kind = "instance" /\ nodes'[m].outputs[k] # NoName
            => Output(nodes'[m].outputs[k], Ref(m, k), Comb) \in intended
    BY <1>3 DEF Alone
  <2>4. QED BY <2>2, <2>3 DEF Alone, Carried
<1>5. QED BY <1>2, <1>4

(* The other names stand for what they stood for.                          *)
LEMMA InsertingMapped ==
  ASSUME IInv, Sourced, Mapped, NEW x, Inserting(x), intended' = intended,
         Waiting' \subseteq Waiting, \A d \in Waiting : d.name # x => d \in Waiting',
         ffMerge.name \in {NoName, x}, ffMerge'.name \in {NoName, x},
         \A y \in Name : y # x => signalMap'[y] = signalMap[y],
         ~Direct(x)',
         ffMerge'.name = x \/ nodes'[signalMap'[x].node].kind \in {"ff", "ff_merge"}
  PROVE  Mapped'
<1>1. ASSUME NEW y \in Name, Driven(y)'
      PROVE  IF Direct(y)' THEN Behind(signalMap[y])' = Refs(y)'
             ELSE ffMerge'.name = y \/ nodes'[signalMap'[y].node].kind \in {"ff", "ff_merge"}
  <2>1. CASE y = x
    BY <2>1
  <2>2. CASE y # x
    <3>1. Driven(y) /\ Refs(y)' = Refs(y) /\ (Unclocked(y)' <=> Unclocked(y))
      BY <1>1 DEF Driven, Refs, Unclocked
    <3>2. ffMerge.name # y /\ ffMerge'.name # y
      BY <2>2, NoNameIsNoName
    <3>3. (\E d \in Waiting' : d.name = y) <=> (\E d \in Waiting : d.name = y)
      BY <2>2
    <3>4. Direct(y)' <=> Direct(y)
      BY <3>1, <3>2, <3>3 DEF Direct
    <3>5. PICK ref : ref = signalMap[y]
      OBVIOUS
    <3>6. ref.node \in DOMAIN nodes /\ signalMap'[y] = ref
      BY <2>2, <3>1, <3>5, DrivenMapped
    <3>7. Behind(ref)' = Behind(ref) /\ nodes'[ref.node].kind = nodes[ref.node].kind
      BY <3>6, InsertingBehind DEF Inserting, Kept
    <3>8. Behind(signalMap[y])' = Behind(signalMap[y])
      BY <3>5, <3>6, <3>7 DEF Behind
    <3>9. IF Direct(y) THEN Behind(signalMap[y]) = Refs(y)
          ELSE ffMerge.name = y \/ nodes[signalMap[y].node].kind \in {"ff", "ff_merge"}
      BY <3>1 DEF Mapped
    <3>10. QED BY <3>1, <3>2, <3>4, <3>5, <3>6, <3>7, <3>8, <3>9
  <2>3. QED BY <2>1, <2>2
<1>2. QED BY <1>1 DEF Mapped

(* A register there was keeps its name until its kFfMerge node comes.      *)
LEMMA InsertingNamed ==
  ASSUME IInv, NEW x, Inserting(x), NEW n \in DOMAIN nodes, nodes[n].kind = "ff",
         NEW name, Named(n, name),
         \A m \in DOMAIN nodes' : m \in DOMAIN nodes \/ nodes'[m].kind # "ff_merge",
         Ref(n, 1) \in Range(ffMerge'.ffs) <=> Ref(n, 1) \in Range(ffMerge.ffs),
         Ref(n, 1) \in Range(ffMerge.ffs) => ffMerge'.name = ffMerge.name
  PROVE  Named(n, name)'
<1>1. \A m \in DOMAIN nodes : nodes[m].kind \in {"ff", "ff_merge"} =>
        nodes'[m].outputs = nodes[m].outputs
  BY DEF Inserting
<1>2. \A m \in DOMAIN nodes' : Over(m, n)' => m \in DOMAIN nodes /\ Over(m, n)
  <2>1. ASSUME NEW m \in DOMAIN nodes', Over(m, n)' PROVE m \in DOMAIN nodes /\ Over(m, n)
    <3>1. m \in DOMAIN nodes
      BY <2>1 DEF Over
    <3>2. nodes'[m].kind = nodes[m].kind /\ nodes'[m].inputs = nodes[m].inputs
      BY <3>1 DEF Inserting, Kept
    <3>3. QED BY <2>1, <3>1, <3>2 DEF Over
  <2>2. QED BY <2>1
<1>3. \A m \in DOMAIN nodes : Over(m, n) => m \in DOMAIN nodes' /\ Over(m, n)'
  <2>1. ASSUME NEW m \in DOMAIN nodes, Over(m, n) PROVE m \in DOMAIN nodes' /\ Over(m, n)'
    <3>1. m \in DOMAIN nodes' /\ nodes'[m].kind = nodes[m].kind /\ nodes'[m].inputs = nodes[m].inputs
      BY DEF Inserting, Kept
    <3>2. QED BY <2>1, <3>1 DEF Over
  <2>2. QED BY <2>1
<1>4. CASE nodes[n].outputs[1] = name
  BY <1>1, <1>4 DEF Named
<1>5. CASE /\ nodes[n].outputs[1] = NoName
           /\ \A m \in DOMAIN nodes : Over(m, n) => nodes[m].outputs[1] = name
           /\ Ref(n, 1) \in Range(ffMerge.ffs) => ffMerge.name = name
           /\ Ref(n, 1) \in Range(ffMerge.ffs) \/ \E m \in DOMAIN nodes : Over(m, n)
  <2>1. nodes'[n].outputs[1] = NoName
    BY <1>1, <1>5
  <2>2. \A m \in DOMAIN nodes' : Over(m, n)' => nodes'[m].outputs[1] = name
    BY <1>1, <1>2, <1>5 DEF Over
  <2>3. (\E m \in DOMAIN nodes : Over(m, n)) => \E m \in DOMAIN nodes' : Over(m, n)'
    BY <1>3
  <2>4. QED BY <1>5, <2>1, <2>2, <2>3 DEF Named
<1>6. QED BY <1>4, <1>5 DEF Named

LEMMA InsertingRegisters ==
  ASSUME IInv, NEW x, Inserting(x), intended' = intended,
         NEW n \in DOMAIN nodes, NEW name, NEW domain, Registers(n, name, domain),
         Named(n, name)'
  PROVE  Registers(n, name, domain)'
<1>1. /\ Kept /\ nodes'[n].inputs[1] = nodes[n].inputs[1]
      /\ nodes'[n].clkEdge = nodes[n].clkEdge /\ nodes'[n].rstEdge = nodes[n].rstEdge
      /\ inputSpecs'[n] = inputSpecs[n]
  BY DEF Inserting
<1>2. \A m \in DOMAIN nodes : nodes[m].kind = "merge" =>
        /\ nodes'[m].inputs = nodes[m].inputs
        /\ \A k \in DOMAIN nodes[m].outputs :
             nodes'[m].outputs[k] = nodes[m].outputs[k] \/ nodes'[m].outputs[k] = NoName
  BY DEF Inserting
<1>3. QED BY <1>1, <1>2, RegisterStays

(* The registers there were stay, and those that come are for the clocked  *)
(* drivers that go.                                                        *)
LEMMA InsertingRegistering ==
  ASSUME IInv, Registering, NEW x, Inserting(x), intended' = intended,
         \A n \in DOMAIN nodes : \A name :
           nodes[n].kind = "ff" /\ Named(n, name) => Named(n, name)',
         \A n \in DOMAIN nodes' : nodes'[n].kind = "ff" =>
           \/ n \in DOMAIN nodes
           \/ \E d \in intended : d.domain # Comb /\ Registers(n, d.name, Normal(d.domain))',
         \A d \in Waiting :
           \/ d \in Waiting'
           \/ \E n \in DOMAIN nodes' : Registers(n, d.name, Normal(d.domain))'
  PROVE  Registering'
<1>1. ASSUME NEW n \in DOMAIN nodes, NEW name, NEW domain, Registers(n, name, domain)
      PROVE  Registers(n, name, domain)'
  <2>1. Named(n, name)'
    BY <1>1 DEF Registers
  <2>2. QED BY <1>1, <2>1, InsertingRegisters
<1>2. ASSUME NEW n \in DOMAIN nodes', nodes'[n].kind = "ff"
      PROVE  \E d \in intended : d.domain # Comb /\ Registers(n, d.name, Normal(d.domain))'
  <2>1. CASE n \in DOMAIN nodes
    <3>1. nodes[n].kind = "ff"
      BY <1>2, <2>1 DEF Inserting, Kept
    <3>2. PICK d \in intended : d.domain # Comb /\ Registers(n, d.name, Normal(d.domain))
      BY <2>1, <3>1 DEF Registering
    <3>3. PICK domain : domain = Normal(d.domain)
      OBVIOUS
    <3>4. Registers(n, d.name, domain)'
      BY <1>1, <2>1, <3>2, <3>3
    <3>5. QED BY <3>2, <3>3, <3>4
  <2>2. QED BY <1>2, <2>1
<1>3. ASSUME NEW d \in intended, d.domain # Comb, d \notin Waiting'
      PROVE  \E n \in DOMAIN nodes' : Registers(n, d.name, Normal(d.domain))'
  <2>1. CASE d \notin Waiting
    <3>1. PICK n \in DOMAIN nodes : Registers(n, d.name, Normal(d.domain))
      BY <1>3, <2>1 DEF Registering
    <3>2. PICK domain : domain = Normal(d.domain)
      OBVIOUS
    <3>3. Registers(n, d.name, domain)'
      BY <1>1, <3>1, <3>2
    <3>4. n \in DOMAIN nodes'
      BY DEF Inserting, Kept
    <3>5. QED BY <3>2, <3>3, <3>4
  <2>2. QED BY <1>3, <2>1
<1>4. QED BY <1>2, <1>3 DEF Registering

(* The drivers a register is made for are clocked, as all of their name.   *)
LEMMA PendingDrivers ==
  ASSUME Sourced, Intents, Recorded, Waiting = pendingFfs,
         NEW x \in Name, NEW domain \in Clusters(x)
  PROVE  /\ \E d \in intended :
              d \in Cluster(x, domain) /\ d.name = x /\ d.domain # Comb /\ Normal(d.domain) = domain
         /\ \A e \in intended : e.name = x => e.domain # Comb
         /\ Clocked(x) /\ ~Unclocked(x) /\ Driven(x)
<1>1. PICK d \in pendingFfs : d.name = x /\ Normal(d.domain) = domain
  BY DEF Clusters, PendingOf
<1>2. d \in intended /\ d.domain # Comb
  BY <1>1 DEF Recorded
<1>3. d \in Cluster(x, domain)
  BY <1>1 DEF Cluster, PendingOf
<1>4. \A e \in intended : e.name = x => e.domain # Comb
  BY <1>1, <1>2 DEF Intents
<1>5. Clocked(x) /\ ~Unclocked(x) /\ Driven(x)
  BY <1>1, <1>2, <1>4 DEF Clocked, Unclocked, Driven
<1>6. QED BY <1>1, <1>2, <1>3, <1>4, <1>5

(* One register for all the drivers of a name.                             *)
LEMMA OneRegisterEmission ==
  ASSUME LowerInv, Sourced, Emission, NEW x \in Name, InsertFf(x),
         intended' = intended, Waiting = pendingFfs, Waiting' = pendingFfs'
  PROVE  Emission'
<1>1. IInv /\ Intents /\ Alone /\ Recorded /\ Mapped /\ Registering
  BY DEF LowerInv, Emission
<1>2. /\ Inserting(x) /\ ffMerge = NoMerge /\ ffMerge' = NoMerge
      /\ Waiting' = Waiting \ PendingOf(x)
      /\ \A y \in Name : y # x => signalMap'[y] = signalMap[y]
      /\ nodes'[signalMap[x].node].outputs[signalMap[x].port] = NoName
  BY <1>1, RegisterEffect
<1>3. PICK domain \in DomainType, new \in DOMAIN nodes' :
        /\ Clusters(x) = {domain}
        /\ NewFf(new, signalMap[x], domain, x)
        /\ \A m \in DOMAIN nodes' : m \in DOMAIN nodes \/ m = new
        /\ signalMap'[x] = Ref(new, 1) /\ signalMap'[x] # Unconnected
  BY <1>1, RegisterEffect
<1>4. domain \in Clusters(x)
  BY <1>3
<1>5. /\ \A e \in intended : e.name = x => e.domain # Comb
      /\ Clocked(x) /\ ~Unclocked(x) /\ Driven(x)
  BY <1>1, <1>4, PendingDrivers
<1>6. PICK d \in intended : d.name = x /\ d.domain # Comb /\ Normal(d.domain) = domain
                             /\ d \in Cluster(x, domain)
  BY <1>1, <1>4, PendingDrivers
<1>7. d \in Waiting /\ NoMerge.name # x
  BY <1>6, NoNameIsNoName DEF Cluster, PendingOf, NoMerge
<1>8. PICK ref : ref = signalMap[x]
  OBVIOUS
<1>9. ref.node \in DOMAIN nodes /\ ref.port \in DOMAIN nodes[ref.node].outputs
  BY <1>1, <1>5, <1>8, DrivenMapped
<1>10. \A e \in intended : e.name = x => e \in Waiting /\ Normal(e.domain) = domain
  <2>1. ASSUME NEW e \in intended, e.name = x PROVE e \in Waiting /\ Normal(e.domain) = domain
    <3>1. e \in Waiting
      BY <1>1, <1>2, <1>5, <1>6, <1>7, <2>1 DEF Recorded
    <3>2. Normal(e.domain) \in Clusters(x)
      BY <2>1, <3>1 DEF Clusters, PendingOf
    <3>3. QED BY <1>3, <3>1, <3>2
  <2>2. QED BY <2>1
<1>11. RefsUnder(x, domain) = Refs(x)
  BY <1>5, <1>10 DEF RefsUnder, Refs
<1>12. Behind(ref)' = RefsUnder(x, domain)
  <2>1. Direct(x)
    BY <1>2, <1>6, <1>7 DEF Direct
  <2>2. Behind(ref) = Refs(x)
    BY <1>1, <1>5, <1>8, <2>1 DEF Mapped
  <2>3. QED BY <1>2, <1>9, <1>11, <2>2, InsertingBehind
<1>13. Registers(new, x, domain)'
  <2>1. /\ nodes'[new].kind = "ff" /\ nodes'[new].outputs = <<x>> /\ nodes'[new].inputs[1] = ref
        /\ nodes'[new].clkEdge = domain.clkEdge /\ nodes'[new].rstEdge = domain.rstEdge
        /\ inputSpecs'[new] = FfSpecs(domain)
    BY <1>3, <1>8 DEF NewFf
  <2>2. Named(new, x)'
    BY <2>1 DEF Named
  <2>3. RefsUnder(x, domain)' = RefsUnder(x, domain)
    BY DEF RefsUnder
  <2>4. Behind(nodes[new].inputs[1])' = RefsUnder(x, domain)'
    BY <1>12, <2>1, <2>3 DEF Behind
  <2>5. Carried(nodes[new].inputs[1])' = NoName
    BY <1>2, <1>8, <2>1 DEF Carried
  <2>6. QED BY <2>1, <2>2, <2>4, <2>5 DEF Registers
<1>14. Intents' /\ Alone'
  BY <1>1, <1>2, InsertingIntents
<1>15. Recorded'
  <2>1. \A f \in Waiting' : f \in intended' /\ f.domain # Comb
    BY <1>1, <1>2 DEF Recorded
  <2>2. ASSUME NEW c \in intended, c.domain # Comb, c \notin Waiting',
               NEW e \in Waiting', e.name = c.name
        PROVE  FALSE
    <3>1. c \notin Waiting
      BY <1>2, <2>2 DEF PendingOf
    <3>2. ffMerge.name = c.name
      BY <1>1, <1>2, <2>2, <3>1 DEF Recorded
    <3>3. QED BY <1>1, <1>2, <3>2, NoNameIsNoName DEF Intents, NoMerge
  <2>3. phase' # "visit"
    BY <1>2 DEF Inserting
  <2>4. QED BY <1>2, <2>1, <2>2, <2>3 DEF Recorded
<1>16. Mapped'
  <2>1. ~Direct(x)'
    BY <1>2, <1>5 DEF Direct, Unclocked, PendingOf
  <2>2. nodes'[signalMap'[x].node].kind = "ff"
    BY <1>3 DEF Ref, NewFf
  <2>3. \A c \in Waiting : c.name # x => c \in Waiting'
    BY <1>2 DEF PendingOf
  <2>4. ffMerge.name \in {NoName, x} /\ ffMerge'.name \in {NoName, x}
    BY <1>2 DEF NoMerge
  <2>5. QED BY <1>1, <1>2, <2>1, <2>2, <2>3, <2>4, InsertingMapped
<1>17. Registering'
  <2>1. \A m \in DOMAIN nodes' : m \in DOMAIN nodes \/ nodes'[m].kind # "ff_merge"
    BY <1>3 DEF NewFf
  <2>2. \A n \in DOMAIN nodes : \A name :
          nodes[n].kind = "ff" /\ Named(n, name) => Named(n, name)'
    BY <1>1, <1>2, <2>1, InsertingNamed
  <2>3. \A n \in DOMAIN nodes' : nodes'[n].kind = "ff" =>
          \/ n \in DOMAIN nodes
          \/ \E c \in intended : c.domain # Comb /\ Registers(n, c.name, Normal(c.domain))'
    BY <1>3, <1>6, <1>13
  <2>4. \A c \in Waiting :
          \/ c \in Waiting'
          \/ \E n \in DOMAIN nodes' : Registers(n, c.name, Normal(c.domain))'
    <3>1. ASSUME NEW c \in Waiting, c \notin Waiting' PROVE c.name = x /\ Normal(c.domain) = domain
      BY <1>1, <1>2, <1>10, <3>1 DEF PendingOf, Recorded
    <3>2. QED BY <1>13, <3>1
  <2>5. QED BY <1>1, <1>2, <2>2, <2>3, <2>4, InsertingRegistering
<1>18. QED BY <1>14, <1>15, <1>16, <1>17 DEF Emission

LEMMA RangeOfMore ==
  ASSUME NEW q, NEW r, NEW x, DOMAIN q = 1..Len(q), Len(q) \in Nat,
         DOMAIN r = 1..(Len(q) + 1), r[Len(q) + 1] = x, \A k \in DOMAIN q : r[k] = q[k]
  PROVE  Range(r) = Range(q) \cup {x}
<1>1. \A y \in Range(r) : y \in Range(q) \/ y = x
  BY DEF Range
<1>2. \A y \in Range(q) : y \in Range(r)
  BY DEF Range
<1>3. Len(q) + 1 \in DOMAIN r
  OBVIOUS
<1>4. x \in Range(r)
  BY <1>3 DEF Range
<1>5. QED BY <1>1, <1>2, <1>4

(* The drivers of a cluster are all that the name has under its clock.     *)
LEMMA ClusterIsAll ==
  ASSUME Sourced, Intents, Recorded, Waiting = pendingFfs,
         NEW x \in Name, NEW domain \in Clusters(x)
  PROVE  {f.ref : f \in Cluster(x, domain)} = RefsUnder(x, domain)
<1>1. PICK e \in intended : e \in Cluster(x, domain) /\ e.name = x /\ Normal(e.domain) = domain
  BY PendingDrivers
<1>2. e \in Waiting
  BY <1>1 DEF Cluster, PendingOf
<1>3. ASSUME NEW f \in Cluster(x, domain)
      PROVE  f \in intended /\ f.name = x /\ f.domain # Comb /\ Normal(f.domain) = domain
  BY <1>3 DEF Cluster, PendingOf, Recorded
<1>4. ASSUME NEW d \in intended, d.name = x, d.domain # Comb, Normal(d.domain) = domain
      PROVE  d \in Cluster(x, domain)
  <2>1. d \in Waiting
    BY <1>1, <1>2, <1>4 DEF Recorded
  <2>2. QED BY <1>4, <2>1 DEF Cluster, PendingOf
<1>5. QED BY <1>3, <1>4 DEF RefsUnder

(* The register of a cluster is behind its drivers.                        *)
LEMMA ClusterBehind ==
  ASSUME IInv, Kept, Sourced, Intents, Recorded, Waiting = pendingFfs,
         NEW x \in Name, NEW domain \in Clusters(x), NEW new, NEW data \in Reference,
         ClusterMade(x, domain, new, data)
  PROVE  /\ Behind(data)' = RefsUnder(x, domain)
         /\ nodes'[data.node].kind = "merge" => Carried(data)' = NoName
<1>1. {f.ref : f \in Cluster(x, domain)} = RefsUnder(x, domain)
  BY ClusterIsAll
<1>2. CASE RefsUnder(x, domain) = {data}
  <2>1. PICK f \in pendingFfs : f.ref = data
    BY <1>1, <1>2 DEF Cluster, PendingOf
  <2>2. data.node \in DOMAIN nodes /\ nodes[data.node].kind = "op"
    BY <2>1 DEF IInv, Structure, Held, Existing, Driver
  <2>3. nodes'[data.node].kind = "op"
    BY <2>2 DEF Kept
  <2>4. QED BY <1>2, <2>3 DEF Behind
<1>3. CASE /\ data.port = 1
           /\ nodes'[data.node].kind = "merge" /\ nodes'[data.node].outputs = <<NoName>>
           /\ Range(nodes'[data.node].inputs) = RefsUnder(x, domain)
  BY <1>3 DEF Behind, Carried
<1>4. QED BY <1>1, <1>2, <1>3 DEF ClusterMade

(* One register for the drivers a name has under one clock domain.         *)
LEMMA ClusterEmission ==
  ASSUME LowerInv, IInv', Sourced, Emission, NEW x \in Name, NEW domain,
         InsertClusterFf(x, domain),
         intended' = intended, Waiting = pendingFfs, Waiting' = pendingFfs'
  PROVE  Emission'
<1>1. IInv /\ Naming /\ Intents /\ Alone /\ Recorded /\ Mapped /\ Registering
  BY DEF LowerInv, Emission
<1>2. /\ Inserting(x) /\ domain \in Clusters(x)
      /\ signalMap' = signalMap /\ Waiting' = Waiting \ Cluster(x, domain)
      /\ ffMerge = NoMerge \/ ffMerge.name = x
      /\ ffMerge'.name = x
  BY <1>1, ClusterEffect
<1>3. PICK new \in DOMAIN nodes', data \in Reference : ClusterMade(x, domain, new, data)
  BY <1>1, ClusterEffect
<1>4. /\ \A e \in intended : e.name = x => e.domain # Comb
      /\ Clocked(x) /\ ~Unclocked(x)
  BY <1>1, <1>2, PendingDrivers
<1>5. PICK d \in intended : d.name = x /\ d.domain # Comb /\ Normal(d.domain) = domain
                             /\ d \in Cluster(x, domain)
  BY <1>1, <1>2, PendingDrivers
<1>6. /\ new \notin DOMAIN nodes /\ Range(ffMerge'.ffs) = Range(ffMerge.ffs) \cup {Ref(new, 1)}
      /\ \A m \in DOMAIN nodes' : m \in DOMAIN nodes \/ m = new \/ nodes'[m].kind = "merge"
      /\ nodes'[new].kind = "ff" /\ nodes'[new].outputs = <<NoName>>
      /\ nodes'[new].inputs[1] = data
      /\ nodes'[new].clkEdge = domain.clkEdge /\ nodes'[new].rstEdge = domain.rstEdge
      /\ inputSpecs'[new] = FfSpecs(domain)
  <2>1. ffMerge.ffs \in Seq(Reference)
    BY <1>1, Facts
  <2>2. new \in Nat
    <3>1. PICK q : q = nodes'
      OBVIOUS
    <3>2. q \in Seq(NodeType)
      BY <3>1 DEF IInv, Typed, TigTypeOK
    <3>3. DOMAIN q = 1..Len(q) /\ Len(q) \in Nat
      BY <3>2, Elements
    <3>4. QED BY <1>3, <3>1, <3>3
  <2>3. PICK ref, ffs, old : ref = Ref(new, 1) /\ ffs = ffMerge'.ffs /\ old = ffMerge.ffs
    OBVIOUS
  <2>4. ref \in Reference
    BY <2>2, <2>3, RefType
  <2>5. old \in Seq(Reference) /\ ffs = Append(old, ref)
    BY <1>3, <2>1, <2>3 DEF ClusterMade
  <2>6. Range(ffs) = Range(old) \cup {ref}
    <3>1. /\ DOMAIN ffs = 1..(Len(old) + 1) /\ ffs[Len(old) + 1] = ref
          /\ \A k \in DOMAIN old : ffs[k] = old[k]
          /\ DOMAIN old = 1..Len(old) /\ Len(old) \in Nat
      BY <2>4, <2>5, Appended
    <3>2. QED BY <3>1, RangeOfMore
  <2>7. QED BY <1>3, <2>3, <2>6 DEF ClusterMade, NewFf
<1>7. Registers(new, x, domain)'
  <2>1. Kept
    BY <1>2 DEF Inserting
  <2>2. /\ Behind(data)' = RefsUnder(x, domain)
        /\ nodes'[data.node].kind = "merge" => Carried(data)' = NoName
    BY <1>1, <1>2, <1>3, <2>1, ClusterBehind
  <2>3. RefsUnder(x, domain)' = RefsUnder(x, domain)
    BY DEF RefsUnder
  <2>4. Behind(nodes[new].inputs[1])' = RefsUnder(x, domain)'
    BY <1>6, <2>2, <2>3 DEF Behind
  <2>5. nodes'[nodes'[new].inputs[1].node].kind = "merge" => Carried(nodes[new].inputs[1])' = NoName
    BY <1>6, <2>2 DEF Carried
  <2>6. ASSUME NEW m \in DOMAIN nodes', Over(m, new)' PROVE FALSE
    <3>1. m \in DOMAIN nodes /\ nodes'[m].inputs = nodes[m].inputs
      BY <1>2, <1>6, <2>6 DEF Over, Inserting
    <3>2. QED BY <1>1, <1>6, <2>6, <3>1, Unseen DEF Over
  <2>7. Named(new, x)'
    <3>1. nodes'[new].outputs[1] = NoName
      BY <1>6
    <3>2. Ref(new, 1) \in Range(ffMerge'.ffs)
      BY <1>6
    <3>3. QED BY <1>2, <2>6, <3>1, <3>2 DEF Named
  <2>8. QED BY <1>6, <2>4, <2>5, <2>7 DEF Registers
<1>8. Intents' /\ Alone'
  BY <1>1, <1>2, InsertingIntents
<1>9. Recorded'
  <2>1. \A f \in Waiting' : f \in intended' /\ f.domain # Comb
    BY <1>1, <1>2 DEF Recorded
  <2>2. ASSUME NEW c \in intended, c.domain # Comb, c \notin Waiting',
               NEW e \in Waiting', e.name = c.name
        PROVE  ffMerge'.name = c.name /\ Normal(c.domain) # Normal(e.domain)
    <3>1. CASE c \notin Waiting
      <4>1. e \in Waiting
        BY <1>2
      <4>2. ffMerge.name = c.name /\ Normal(c.domain) # Normal(e.domain)
        BY <1>1, <2>2, <3>1, <4>1 DEF Recorded
      <4>3. c.name # NoName
        BY <1>1, NoNameIsNoName DEF Intents
      <4>4. QED BY <1>2, <4>2, <4>3 DEF NoMerge
    <3>2. CASE c \in Waiting
      <4>1. c.name = x /\ Normal(c.domain) = domain
        BY <1>2, <2>2, <3>2 DEF Cluster, PendingOf
      <4>2. Normal(e.domain) # domain
        BY <1>1, <1>2, <2>2, <4>1 DEF Cluster, PendingOf
      <4>3. QED BY <1>2, <4>1, <4>2
    <3>3. QED BY <3>1, <3>2
  <2>3. phase' # "visit"
    BY <1>2 DEF Inserting
  <2>4. Clocked(ffMerge.name)'
    BY <1>2, <1>4 DEF Clocked
  <2>5. QED BY <2>1, <2>2, <2>3, <2>4 DEF Recorded
<1>10. Mapped'
  <2>1. ~Direct(x)'
    BY <1>2, <1>4 DEF Direct, Unclocked
  <2>2. \A c \in Waiting : c.name # x => c \in Waiting'
    BY <1>2 DEF Cluster, PendingOf
  <2>3. ffMerge.name \in {NoName, x} /\ ffMerge'.name \in {NoName, x}
    BY <1>2 DEF NoMerge
  <2>4. QED BY <1>1, <1>2, <2>1, <2>2, <2>3, InsertingMapped
<1>11. Registering'
  <2>1. \A m \in DOMAIN nodes' : m \in DOMAIN nodes \/ nodes'[m].kind # "ff_merge"
    BY <1>6
  <2>2. \A n \in DOMAIN nodes : Ref(n, 1) \in Range(ffMerge'.ffs) <=> Ref(n, 1) \in Range(ffMerge.ffs)
    BY <1>6 DEF Ref
  <2>3. ffMerge # NoMerge => ffMerge'.name = ffMerge.name
    BY <1>2
  <2>4. \A n : Ref(n, 1) \in Range(ffMerge.ffs) => ffMerge # NoMerge
    BY DEF NoMerge, Range
  <2>5. \A n \in DOMAIN nodes : \A name :
          nodes[n].kind = "ff" /\ Named(n, name) => Named(n, name)'
    <3>1. ASSUME NEW n \in DOMAIN nodes, NEW name, nodes[n].kind = "ff", Named(n, name)
          PROVE  Named(n, name)'
      BY <1>1, <1>2, <2>1, <2>2, <2>3, <2>4, <3>1, InsertingNamed
    <3>2. QED BY <3>1
  <2>6. \A n \in DOMAIN nodes' : nodes'[n].kind = "ff" =>
          \/ n \in DOMAIN nodes
          \/ \E c \in intended : c.domain # Comb /\ Registers(n, c.name, Normal(c.domain))'
    BY <1>5, <1>6, <1>7
  <2>7. \A c \in Waiting :
          \/ c \in Waiting'
          \/ \E n \in DOMAIN nodes' : Registers(n, c.name, Normal(c.domain))'
    <3>1. ASSUME NEW c \in Waiting, c \notin Waiting' PROVE c.name = x /\ Normal(c.domain) = domain
      BY <1>2, <3>1 DEF Cluster, PendingOf
    <3>2. QED BY <1>7, <3>1
  <2>8. QED BY <1>1, <1>2, <2>5, <2>6, <2>7, InsertingRegistering
<1>12. QED BY <1>8, <1>9, <1>10, <1>11 DEF Emission

(* The kFfMerge node over the registers of a name.                         *)
LEMMA FfMergeEmission ==
  ASSUME LowerInv, Sourced, Emission, InsertFfMerge,
         intended' = intended, Waiting = pendingFfs, Waiting' = pendingFfs'
  PROVE  Emission'
<1>1. IInv /\ Naming /\ Intents /\ Alone /\ Recorded /\ Mapped /\ Registering
  BY DEF LowerInv, Emission
<1>2. PICK x : x = ffMerge.name
  OBVIOUS
<1>3. /\ Inserting(x) /\ x \in Name /\ ffMerge # NoMerge /\ ffMerge' = NoMerge
      /\ PendingOf(x) = {} /\ Waiting' = Waiting
      /\ \A m \in DOMAIN nodes : nodes'[m] = nodes[m]
      /\ \A y \in Name : y # x => signalMap'[y] = signalMap[y]
  BY <1>1, <1>2, FfMergeEffect DEF Inserting
<1>4. PICK new \in DOMAIN nodes' :
        /\ new \notin DOMAIN nodes
        /\ nodes'[new].kind = "ff_merge" /\ nodes'[new].outputs = <<x>>
        /\ nodes'[new].inputs = ffMerge.ffs
        /\ \A m \in DOMAIN nodes' : m \in DOMAIN nodes \/ m = new
        /\ signalMap'[x] = Ref(new, 1)
  BY <1>1, <1>2, FfMergeEffect
<1>5. ~Unclocked(x)
  BY <1>1, <1>2, <1>3 DEF Recorded, Intents, Clocked, Unclocked
<1>6. NoMerge.name = NoName /\ Range(NoMerge.ffs) = {} /\ NoName # x
  BY <1>3, NoNameIsNoName DEF NoMerge, Range
<1>7. Intents' /\ Alone'
  BY <1>1, <1>3, InsertingIntents
<1>8. Recorded'
  <2>1. \A f \in Waiting' : f \in intended' /\ f.domain # Comb
    BY <1>1, <1>3 DEF Recorded
  <2>2. ASSUME NEW c \in intended, c.domain # Comb, c \notin Waiting',
               NEW e \in Waiting', e.name = c.name
        PROVE  FALSE
    <3>1. ffMerge.name = c.name
      BY <1>1, <1>3, <2>2 DEF Recorded
    <3>2. QED BY <1>2, <1>3, <2>2, <3>1 DEF PendingOf
  <2>3. phase' # "visit"
    BY <1>3 DEF Inserting
  <2>4. QED BY <1>3, <2>1, <2>2, <2>3 DEF Recorded
<1>9. Mapped'
  <2>1. ~Direct(x)'
    BY <1>3, <1>5 DEF Direct, Unclocked, PendingOf
  <2>2. nodes'[signalMap'[x].node].kind = "ff_merge"
    BY <1>4 DEF Ref
  <2>3. QED BY <1>1, <1>2, <1>3, <1>6, <2>1, <2>2, InsertingMapped
<1>10. Registering'
  <2>1. ASSUME NEW n \in DOMAIN nodes, NEW name, nodes[n].kind = "ff", Named(n, name)
        PROVE  Named(n, name)'
    <3>1. nodes'[n].outputs[1] = nodes[n].outputs[1]
      BY <1>3
    <3>2. Ref(n, 1) \notin Range(ffMerge'.ffs)
      BY <1>3, <1>6
    <3>3. CASE nodes[n].outputs[1] = name
      BY <3>1, <3>3 DEF Named
    <3>4. CASE /\ nodes[n].outputs[1] = NoName
               /\ \A m \in DOMAIN nodes : Over(m, n) => nodes[m].outputs[1] = name
               /\ Ref(n, 1) \in Range(ffMerge.ffs) => ffMerge.name = name
               /\ Ref(n, 1) \in Range(ffMerge.ffs) \/ \E m \in DOMAIN nodes : Over(m, n)
      <4>1. \A m \in DOMAIN nodes : m \in DOMAIN nodes' /\ (Over(m, n)' <=> Over(m, n))
        BY <1>3 DEF Over, Inserting, Kept
      <4>2. Over(new, n)' <=> Ref(n, 1) \in Range(ffMerge.ffs)
        BY <1>4 DEF Over
      <4>3. \A m \in DOMAIN nodes' : Over(m, n)' => nodes'[m].outputs[1] = name
        <5>1. ASSUME NEW m \in DOMAIN nodes', Over(m, n)' PROVE nodes'[m].outputs[1] = name
          <6>1. CASE m \in DOMAIN nodes
            BY <1>3, <3>4, <4>1, <5>1, <6>1
          <6>2. CASE m = new
            BY <1>2, <1>4, <3>4, <4>2, <5>1, <6>2
          <6>3. QED BY <1>4, <6>1, <6>2
        <5>2. QED BY <5>1
      <4>4. \E m \in DOMAIN nodes' : Over(m, n)'
        BY <3>4, <4>1, <4>2
      <4>5. QED BY <3>1, <3>2, <3>4, <4>3, <4>4 DEF Named
    <3>5. QED BY <2>1, <3>3, <3>4 DEF Named
  <2>2. \A n \in DOMAIN nodes' : nodes'[n].kind = "ff" => n \in DOMAIN nodes
    BY <1>4
  <2>3. QED BY <1>1, <1>3, <2>1, <2>2, InsertingRegistering
<1>11. QED BY <1>7, <1>8, <1>9, <1>10 DEF Emission

LEMMA RegisterEmission ==
  ASSUME LowerInv, IInv', Sourced, Emission, RegisterStep
  PROVE  Emission'
BY OneRegisterEmission, ClusterEmission, FfMergeEmission DEF RegisterStep, InsertStep

-----------------------------------------------------------------------------
(* The invariant.                                                          *)

EmissionInv == ReaderInv /\ Members /\ Emission

LEMMA EmissionStarts == Init => Members /\ Emission
<1>1. SUFFICES ASSUME Init PROVE Members /\ Emission
  OBVIOUS
<1>2. /\ calls = <<>> /\ ports = <<>> /\ intended = {} /\ members = 0 /\ operation = 0
      /\ instance = 0 /\ nodes = <<>> /\ pendingFfs = {} /\ ffMerge = NoMerge /\ phase = "visit"
  BY <1>1 DEF Init, TigInit
<1>3. Waiting = {}
  BY <1>2, NothingToRecord
<1>4. Members
  <2>1. DOMAIN Coming = {}
    BY <1>2 DEF Coming, Demands
  <2>2. QED BY <1>2, <2>1 DEF Members, Legal, Locals, InTurn, Idle
<1>5. Emission
  BY <1>2, <1>3 DEF Emission, Intents, Alone, Recorded, Mapped, Registering, Driven
<1>6. QED BY <1>4, <1>5

LEMMA EmissionSteps ==
  ASSUME ~MixedDrivers, ReaderInv, IInv', Handlers', Members, Emission, [Next]_vars
  PROVE  Members' /\ Emission'
<1>1. LowerInv /\ IInv /\ Sourced
  BY DEF ReaderInv, LowerInv
<1>2. Members'
  BY <1>1, MembersSteps DEF Emission
<1>3. CASE QuietStep
  BY <1>1, <1>2, <1>3, QuietIsUndisturbed, UndisturbedEmission
<1>4. CASE PortStep
  BY <1>1, <1>2, <1>4, PortIsUndisturbed, UndisturbedEmission
<1>5. ASSUME NEW n, NEW name, NEW domain, DriverStep(n, name, domain)
      PROVE  Emission'
  <2>1. name \in Name \/ name = NoName
    BY <1>5 DEF DriverStep, Names
  <2>2. CASE name \in Name
    BY <1>1, <1>5, <2>2, DriverEmission
  <2>3. CASE name = NoName
    BY <1>1, <1>5, <2>3, UnnamedIsUndisturbed, UndisturbedEmission
  <2>4. QED BY <2>1, <2>2, <2>3
<1>6. CASE RegisterStep
  BY <1>1, <1>2, <1>6, RegisterEmission
<1>7. QED BY <1>1, <1>2, <1>3, <1>4, <1>5, <1>6, StepKinds

LEMMA EmissionHolds ==
  ASSUME ~MixedDrivers
  PROVE  Spec => []EmissionInv
<1>1. Init /\ ReaderInv => EmissionInv
  BY EmissionStarts DEF EmissionInv
<1>2. ReaderInv /\ ReaderInv' /\ EmissionInv /\ [Next]_vars => EmissionInv'
  BY EmissionSteps DEF EmissionInv, ReaderInv, LowerInv
<1>3. QED BY <1>1, <1>2, ReaderInvHolds, PTL DEF Spec

-----------------------------------------------------------------------------
(* What is dumped.                                                         *)

(* Everything is registered, and a name means one output.                  *)
Finished ==
  /\ EmissionInv /\ phase = "wired"
  /\ ffMerge = NoMerge /\ Waiting = {}
  /\ \A name \in Name : Direct(name) <=> Unclocked(name)
  /\ \A name \in Name : signalMap[name] # Unconnected => Carried(signalMap[name]) = name
  /\ ClocksAreDriven

LEMMA WiredIsFinished ==
  ASSUME EmissionInv, phase = "wired", ClocksAreDriven
  PROVE  Finished
<1>1. pendingFfs = {} /\ ffMerge = NoMerge
  BY DEF EmissionInv, ReaderInv, Wired
<1>2. Waiting = {}
  BY <1>1, NothingToRecord DEF EmissionInv, Members, InTurn, Idle
<1>3. \A name \in Name : Direct(name) <=> Unclocked(name)
  BY <1>2 DEF Direct
<1>4. \A name \in Name : signalMap[name] # Unconnected => Carried(signalMap[name]) = name
  BY <1>1, NoNameIsNoName DEF EmissionInv, ReaderInv, LowerInv, Naming, MappedNameIsCarried, NoMerge
<1>5. QED BY <1>1, <1>2, <1>3, <1>4 DEF Finished

LEMMA FinishedFacts ==
  ASSUME Finished
  PROVE  /\ IInv /\ Naming /\ Sourced /\ Intents /\ Alone /\ Mapped /\ Registering /\ Wired
         /\ TigTypeOK /\ NoMerge.name = NoName /\ Range(NoMerge.ffs) = {}
<1>1. NoMerge.name = NoName /\ Range(NoMerge.ffs) = {}
  BY DEF NoMerge, Range
<1>2. QED BY <1>1 DEF Finished, EmissionInv, ReaderInv, LowerInv, Emission, IInv, Typed

(* A carrier that is no input and no instance is mapped to its name, and   *)
(* stands for the drivers of the name when it is no register.              *)
LEMMA CarrierFacts ==
  ASSUME Finished, NEW n \in DOMAIN nodes, NEW p \in DOMAIN nodes[n].outputs,
         nodes[n].kind \in {"op", "merge"}, NEW name, name = nodes[n].outputs[p], name # NoName
  PROVE  /\ name \in Name /\ Behind(Ref(n, p)) = Refs(name)
         /\ \A d \in intended : d.name = name => d.domain = Comb
<1>1. /\ IInv /\ Naming /\ Sourced /\ Intents /\ Mapped /\ TigTypeOK /\ ffMerge = NoMerge
      /\ NoMerge.name = NoName
  BY FinishedFacts DEF Finished
<1>2. name \in Name
  BY <1>1, Domains DEF Names, Specs
<1>3. signalMap[name] = Ref(n, p)
  BY <1>1 DEF Naming, OneCarrier
<1>4. n \in Nat /\ p \in Nat /\ n # 0
  BY <1>1, Domains
<1>5. Ref(n, p) # Unconnected /\ Ref(n, p).node = n
  BY <1>4, RefType
<1>6. Driven(name)
  BY <1>1, <1>2, <1>3, <1>5 DEF Sourced
<1>7. Direct(name)
  BY <1>1, <1>2, <1>3, <1>5, <1>6, NoNameIsNoName DEF Mapped
<1>8. Behind(Ref(n, p)) = Refs(name)
  BY <1>1, <1>2, <1>3, <1>6, <1>7 DEF Mapped
<1>9. \A d \in intended : d.name = name => d.domain = Comb
  BY <1>1, <1>2, <1>7 DEF Finished, Unclocked, Intents
<1>10. QED BY <1>2, <1>8, <1>9

(* The drivers without a clock, as the text has them.                      *)
Unregistered == {d \in intended : d.domain = Comb}

LEMMA PlainIsWritten ==
  ASSUME Finished, NEW x \in EmittedPlain \cup EmittedMerges
  PROVE  x \in Unregistered
<1>1. Intents /\ Alone /\ TigTypeOK
  BY FinishedFacts
<1>2. ASSUME NEW n \in DOMAIN nodes, NEW p \in DOMAIN nodes[n].outputs,
             nodes[n].kind \in {"op", "merge"}, NEW name, name = nodes[n].outputs[p], name # NoName,
             NEW ref \in Behind(Ref(n, p))
      PROVE  Output(name, ref, Comb) \in Unregistered
  <2>1. PICK d \in intended : d.name = name /\ d.ref = ref
    BY <1>2, CarrierFacts DEF Refs
  <2>2. d.domain = Comb
    BY <1>2, <2>1, CarrierFacts
  <2>3. d = Output(name, ref, Comb)
    BY <1>1, <2>1, <2>2 DEF Intents
  <2>4. QED BY <2>2, <2>3 DEF Unregistered
<1>3. CASE x \in EmittedPlain
  <2>0. PICK n \in DOMAIN nodes : \E p \in DOMAIN nodes[n].outputs :
          /\ nodes[n].kind \in {"op", "instance"} /\ nodes[n].outputs[p] # NoName
          /\ x = Output(nodes[n].outputs[p], Ref(n, p), Comb)
    BY <1>3 DEF EmittedPlain
  <2>1. PICK p \in DOMAIN nodes[n].outputs :
          /\ nodes[n].kind \in {"op", "instance"} /\ nodes[n].outputs[p] # NoName
          /\ x = Output(nodes[n].outputs[p], Ref(n, p), Comb)
    BY <2>0
  <2>2. CASE nodes[n].kind = "instance"
    <3>1. x \in intended
      BY <1>1, <2>1, <2>2 DEF Alone
    <3>2. x.domain = Comb
      BY <2>1 DEF Output
    <3>3. QED BY <3>1, <3>2 DEF Unregistered
  <2>3. CASE nodes[n].kind = "op"
    <3>1. PICK ref, name : ref = Ref(n, p) /\ name = nodes[n].outputs[p]
      OBVIOUS
    <3>2. ref \in Behind(Ref(n, p))
      BY <2>3, <3>1 DEF Behind, Ref
    <3>3. QED BY <1>2, <2>1, <2>3, <3>1, <3>2
  <2>4. QED BY <2>1, <2>2, <2>3
<1>4. CASE x \in EmittedMerges
  <2>0. PICK n \in DOMAIN nodes :
          /\ nodes[n].kind = "merge" /\ nodes[n].outputs[1] # NoName
          /\ \E ref \in Range(nodes[n].inputs) : x = Output(nodes[n].outputs[1], ref, Comb)
    BY <1>4 DEF EmittedMerges
  <2>1. PICK ref \in Range(nodes[n].inputs) :
          /\ nodes[n].kind = "merge" /\ nodes[n].outputs[1] # NoName
          /\ x = Output(nodes[n].outputs[1], ref, Comb)
    BY <2>0
  <2>2. 1 \in DOMAIN nodes[n].outputs
    <3>1. Len(nodes[n].outputs) = 1
      BY <2>1, Facts, FinishedFacts DEF Sound, Shaped
    <3>2. QED BY <1>1, <3>1, Domains
  <2>3. ref \in Behind(Ref(n, 1))
    BY <2>1 DEF Behind, Ref
  <2>4. PICK name : name = nodes[n].outputs[1]
    OBVIOUS
  <2>5. QED BY <1>2, <2>1, <2>2, <2>3, <2>4
<1>5. QED BY <1>3, <1>4

LEMMA PlainIsDumped ==
  ASSUME Finished, NEW d \in Unregistered
  PROVE  d \in EmittedPlain \cup EmittedMerges
<1>1. /\ IInv /\ Sourced /\ Intents /\ Alone /\ Mapped /\ TigTypeOK
      /\ d \in intended /\ d.domain = Comb
  BY FinishedFacts DEF Unregistered
<1>2. PICK name, ref : name = d.name /\ ref = d.ref
  OBVIOUS
<1>3. /\ d = Output(name, ref, Comb) /\ name \in Name /\ name # NoName
      /\ ref \in Reference /\ ref.node \in DOMAIN nodes /\ ref.port \in DOMAIN nodes[ref.node].outputs
      /\ nodes[ref.node].kind \in {"op", "instance"} /\ ref = Ref(ref.node, ref.port)
  <2>1. /\ d = Output(d.name, d.ref, d.domain) /\ d.name \in Name
        /\ d.ref \in Reference /\ Existing(d.ref) /\ Driver(d.ref, {"op", "instance"})
    BY <1>1 DEF Intents
  <2>2. QED BY <1>1, <1>2, <2>1, NoNameIsNoName, ExistingDriver DEF Driver
<1>4. nodes[ref.node].outputs[ref.port] = name => d \in EmittedPlain
  BY <1>3 DEF EmittedPlain
<1>5. CASE nodes[ref.node].kind = "instance"
  <2>1. Carried(ref) = name
    BY <1>1, <1>2, <1>5 DEF Alone
  <2>2. QED BY <1>4, <2>1 DEF Carried
<1>6. CASE nodes[ref.node].kind = "op"
  <2>1. Driven(name) /\ Unclocked(name)
    BY <1>1, <1>2 DEF Driven, Unclocked
  <2>2. PICK old : old = signalMap[name]
    OBVIOUS
  <2>3. /\ old # Unconnected /\ old.node \in DOMAIN nodes
        /\ old.port \in DOMAIN nodes[old.node].outputs /\ old = Ref(old.node, old.port)
    BY <1>1, <1>3, <2>1, <2>2, DrivenMapped
  <2>4. Carried(old) = name
    BY <1>3, <2>2, <2>3 DEF Finished
  <2>5. ref \in Behind(old)
    BY <1>1, <1>2, <1>3, <2>1, <2>2 DEF Mapped, Finished, Refs
  <2>6. CASE nodes[old.node].kind = "merge"
    <3>1. Len(nodes[old.node].outputs) = 1
      BY <1>1, <2>3, <2>6, Facts DEF Sound, Shaped
    <3>2. old.port = 1
      BY <1>1, <2>3, <3>1, Domains
    <3>3. nodes[old.node].outputs[1] = name
      BY <2>4, <3>2 DEF Carried
    <3>4. ref \in Range(nodes[old.node].inputs)
      BY <2>5, <2>6 DEF Behind
    <3>5. QED BY <1>3, <1>6, <2>3, <2>6, <3>3, <3>4 DEF EmittedMerges
  <2>7. CASE nodes[old.node].kind # "merge"
    BY <1>4, <2>4, <2>5, <2>7 DEF Behind, Carried
  <2>8. QED BY <2>6, <2>7
<1>7. QED BY <1>3, <1>5, <1>6

(* What the dump says of a register.                                       *)
LEMMA RegisterName ==
  ASSUME Finished, NEW n \in DOMAIN nodes, NEW name \in Name, Named(n, name)
  PROVE  FfName(n) = name
<1>1. name # NoName /\ ~(Ref(n, 1) \in Range(ffMerge.ffs))
  BY NoNameIsNoName, FinishedFacts DEF Finished
<1>2. CASE nodes[n].outputs[1] = name
  BY <1>1, <1>2 DEF FfName
<1>3. CASE /\ nodes[n].outputs[1] = NoName
           /\ \A m \in DOMAIN nodes : Over(m, n) => nodes[m].outputs[1] = name
           /\ \E m \in DOMAIN nodes : Over(m, n)
  <2>1. PICK over : over = CHOOSE m \in DOMAIN nodes :
                      nodes[m].kind = "ff_merge" /\ Ref(n, 1) \in Range(nodes[m].inputs)
    OBVIOUS
  <2>2. over \in DOMAIN nodes /\ Over(over, n)
    BY <1>3, <2>1 DEF Over
  <2>3. FfName(n) = nodes[over].outputs[1]
    BY <1>3, <2>1 DEF FfName
  <2>4. QED BY <1>3, <2>2, <2>3
<1>4. QED BY <1>1, <1>2, <1>3 DEF Named

LEMMA NormalDomain ==
  ASSUME NEW domain \in Domain, NEW d, d = Normal(domain)
  PROVE  d \in DomainType /\ d.clk \in Name /\ (d.rst = NoName => d.rstEdge = AnyEdge)
<1>1. domain \in DomainType
  BY DomainsAreClocks DEF DomainType, Names
<1>2. CASE domain.rst = NoName
  <2>1. d = [domain EXCEPT !.rstEdge = AnyEdge]
    BY <1>2 DEF Normal
  <2>2. AnyEdge \in Edge
    BY EdgesExist DEF AnyEdge
  <2>3. QED BY <1>1, <2>1, <2>2 DEF DomainType
<1>3. CASE domain.rst # NoName
  BY <1>1, <1>3 DEF Normal, DomainType
<1>4. QED BY <1>2, <1>3

LEMMA RegisterDomain ==
  ASSUME Finished, NEW n \in DOMAIN nodes, NEW name, NEW domain \in DomainType,
         domain.rst = NoName => domain.rstEdge = AnyEdge, Registers(n, name, domain)
  PROVE  FfDomain(n) = domain
<1>1. IInv /\ Wired /\ TigTypeOK /\ nodes[n].kind = "ff"
  BY FinishedFacts DEF Registers
<1>2. PICK specs, ins : specs = inputSpecs[n] /\ ins = nodes[n].inputs
  OBVIOUS
<1>3. /\ specs = FfSpecs(domain) /\ Len(specs) = Len(ins) /\ n \in DOMAIN inputSpecs
      /\ DOMAIN ins = 1..Len(ins)
  BY <1>1, <1>2, Facts, Domains DEF Registers, Sound, Aligned
<1>4. ASSUME NEW k \in DOMAIN specs, specs[k] # NoName, specs[k] \in Name
      PROVE  Carried(ins[k]) = specs[k]
  <2>1. k \in DOMAIN ins /\ ins[k] = signalMap[specs[k]]
    BY <1>1, <1>2, <1>3, <1>4 DEF Wired, Finished
  <2>2. ins[k] # Unconnected
    BY <1>1, <1>2, <2>1 DEF Finished, ClocksAreDriven
  <2>3. QED BY <1>4, <2>1, <2>2 DEF Finished
<1>5. domain.clk \in Name /\ domain.clk # NoName /\ (domain.rst = NoName \/ domain.rst \in Name)
  BY NoNameIsNoName DEF DomainType, Names
<1>6. CASE domain.rst = NoName
  <2>1. specs = <<NoName, domain.clk>>
    BY <1>3, <1>6 DEF FfSpecs
  <2>2. Len(ins) = 2 /\ 2 \in DOMAIN specs /\ specs[2] = domain.clk
    BY <1>3, <2>1
  <2>3. Carried(ins[2]) = domain.clk
    BY <1>4, <1>5, <2>2
  <2>4. FfDomain(n) = [clk |-> domain.clk, clkEdge |-> domain.clkEdge,
                       rst |-> NoName, rstEdge |-> AnyEdge]
    BY <1>2, <2>2, <2>3 DEF FfDomain, Registers
  <2>5. QED BY <1>6, <2>4 DEF DomainType
<1>7. CASE domain.rst # NoName
  <2>1. specs = <<NoName, domain.clk, domain.rst>>
    BY <1>3, <1>7 DEF FfSpecs
  <2>2. /\ Len(ins) = 3 /\ 2 \in DOMAIN specs /\ specs[2] = domain.clk
        /\ 3 \in DOMAIN specs /\ specs[3] = domain.rst
    BY <1>3, <2>1
  <2>3. Carried(ins[2]) = domain.clk
    BY <1>4, <1>5, <2>2
  <2>4. Carried(ins[3]) = domain.rst
    BY <1>4, <1>5, <1>7, <2>2
  <2>5. FfDomain(n) = [clk |-> domain.clk, clkEdge |-> domain.clkEdge,
                       rst |-> domain.rst, rstEdge |-> domain.rstEdge]
    BY <1>2, <2>2, <2>3, <2>4 DEF FfDomain, Registers
  <2>6. QED BY <2>5 DEF DomainType
<1>8. QED BY <1>6, <1>7

(* The clocked drivers, each under the clock and reset it has.             *)
LEMMA RegisterDump ==
  ASSUME Finished, NEW n \in DOMAIN nodes, NEW d \in intended, d.domain # Comb,
         NEW domain, domain = Normal(d.domain), Registers(n, d.name, domain)
  PROVE  /\ FfName(n) = d.name /\ FfDomain(n) = domain
         /\ FfData(nodes[n].inputs[1]) = RefsUnder(d.name, domain)
<1>1. d.name \in Name /\ d.domain \in Domain
  BY FinishedFacts DEF Intents
<1>2. domain \in DomainType /\ (domain.rst = NoName => domain.rstEdge = AnyEdge)
  BY <1>1, NormalDomain
<1>3. FfName(n) = d.name
  BY <1>1, RegisterName DEF Registers
<1>4. FfDomain(n) = domain
  BY <1>2, RegisterDomain
<1>5. FfData(nodes[n].inputs[1]) = Behind(nodes[n].inputs[1])
  BY DEF FfData, Behind, Registers
<1>6. QED BY <1>3, <1>4, <1>5 DEF Registers

Registered1(d) == Output(d.name, d.ref, Normal(d.domain))
Clocks == {Registered1(d) : d \in {e \in intended : e.domain # Comb}}

LEMMA FfsAreWritten ==
  ASSUME Finished
  PROVE  EmittedFfs = Clocks
<1>1. ASSUME NEW x \in EmittedFfs PROVE x \in Clocks
  <2>0. PICK n \in DOMAIN nodes :
          /\ nodes[n].kind = "ff"
          /\ \E ref \in FfData(nodes[n].inputs[1]) : x = Output(FfName(n), ref, FfDomain(n))
    BY <1>1 DEF EmittedFfs
  <2>1. PICK ref \in FfData(nodes[n].inputs[1]) :
          nodes[n].kind = "ff" /\ x = Output(FfName(n), ref, FfDomain(n))
    BY <2>0
  <2>2. PICK d \in intended : d.domain # Comb /\ Registers(n, d.name, Normal(d.domain))
    BY <2>1, FinishedFacts DEF Registering
  <2>3. PICK domain : domain = Normal(d.domain)
    OBVIOUS
  <2>4. FfName(n) = d.name /\ FfDomain(n) = domain /\ ref \in RefsUnder(d.name, domain)
    BY <2>1, <2>2, <2>3, RegisterDump
  <2>5. PICK e \in intended :
          e.ref = ref /\ e.name = d.name /\ e.domain # Comb /\ Normal(e.domain) = domain
    BY <2>4 DEF RefsUnder
  <2>6. x = Registered1(e)
    BY <2>1, <2>4, <2>5 DEF Registered1
  <2>7. QED BY <2>5, <2>6 DEF Clocks
<1>2. ASSUME NEW x \in Clocks PROVE x \in EmittedFfs
  <2>1. PICK d \in intended : d.domain # Comb /\ x = Registered1(d)
    BY <1>2 DEF Clocks
  <2>2. PICK n \in DOMAIN nodes : Registers(n, d.name, Normal(d.domain))
    BY <2>1, FinishedFacts DEF Registering, Finished
  <2>3. PICK domain : domain = Normal(d.domain)
    OBVIOUS
  <2>4. /\ FfName(n) = d.name /\ FfDomain(n) = domain
        /\ FfData(nodes[n].inputs[1]) = RefsUnder(d.name, domain)
    BY <2>1, <2>2, <2>3, RegisterDump
  <2>5. d.ref \in RefsUnder(d.name, domain)
    BY <2>1, <2>3 DEF RefsUnder
  <2>6. nodes[n].kind = "ff" /\ x = Output(FfName(n), d.ref, FfDomain(n))
    BY <2>1, <2>2, <2>3, <2>4 DEF Registered1, Registers
  <2>7. QED BY <2>4, <2>5, <2>6 DEF EmittedFfs
<1>3. QED BY <1>1, <1>2

LEMMA FinishedEmission ==
  ASSUME Finished
  PROVE  Emitted = {[d EXCEPT !.domain = IF @ = Comb THEN Comb ELSE Normal(@)] : d \in intended}
<1>1. DEFINE asWritten(d) == [d EXCEPT !.domain = IF @ = Comb THEN Comb ELSE Normal(@)]
<1>2. ASSUME NEW d \in intended
      PROVE  /\ d.domain = Comb => asWritten(d) = d
             /\ d.domain # Comb => asWritten(d) = Registered1(d)
  <2>1. d = Output(d.name, d.ref, d.domain)
    BY FinishedFacts DEF Intents
  <2>2. PICK name, ref, domain : name = d.name /\ ref = d.ref /\ domain = d.domain
    OBVIOUS
  <2>3. d = [name |-> name, ref |-> ref, domain |-> domain]
    BY <2>1, <2>2 DEF Output
  <2>4. asWritten(d) = [name |-> name, ref |-> ref,
                        domain |-> IF domain = Comb THEN Comb ELSE Normal(domain)]
    BY <2>3
  <2>5. QED BY <2>2, <2>3, <2>4 DEF Registered1, Output
<1>3. EmittedPlain \cup EmittedMerges = Unregistered
  BY PlainIsWritten, PlainIsDumped
<1>4. Emitted = Unregistered \cup Clocks
  BY <1>3, FfsAreWritten DEF Emitted
<1>5. {asWritten(d) : d \in intended} = Unregistered \cup Clocks
  <2> HIDE DEF asWritten
  <2>1. \A d \in intended : asWritten(d) \in Unregistered \cup Clocks
    BY <1>2 DEF Unregistered, Clocks
  <2>2. \A d \in Unregistered : d \in intended /\ d = asWritten(d)
    BY <1>2 DEF Unregistered
  <2>3. \A x \in Clocks : \E d \in intended : x = asWritten(d)
    BY <1>2 DEF Clocks
  <2>4. QED BY <2>1, <2>2, <2>3
<1>6. QED BY <1>4, <1>5

-----------------------------------------------------------------------------
(* The theorem.                                                            *)

(* However many drivers a name has, in whatever order and by however many  *)
(* members they come: the dump has every driver of the text once, under    *)
(* the clock and reset it was written with, and no other.  The hypothesis  *)
(* is that no name is assigned both under a clock and without one: without *)
(* it the statement is wrong (run tig_mixed_drivers).                      *)
THEOREM DumpIsAsWritten ==
  ASSUME ~MixedDrivers
  PROVE  Spec => []EmittedAsWritten
<1>1. EmissionInv => EmittedAsWritten
  BY WiredIsFinished, FinishedEmission DEF EmittedAsWritten
<1>2. QED BY <1>1, EmissionHolds, PTL

-----------------------------------------------------------------------------
(* The inputs of instances: emit_instances takes them by position, and     *)
(* they are connected while the handler goes through the ports, at once,   *)
(* by name, or through an operation of their own.                          *)

(* The calls that connect an input of the instance in progress, and        *)
(* whether there is still one to make.                                     *)
InputWork == {"instance_spec", "instance_open", "instance_input"}
Working == \E k \in DOMAIN calls : calls[k].call \in InputWork
Newest == placed[Len(placed)]

(* How many inputs the newest instance has, and how many it has once the   *)
(* calls are made.                                                         *)
Got == IF Next1("instance") THEN 0 ELSE Len(nodes[Newest.node].inputs)
Offset == IF Working THEN Got + 1 ELSE Got

(* Input k of node n is for connection c, by its name, or through an       *)
(* operation that reads what the text connects.                            *)
ConnectedTo(n, k, c) ==
  /\ c.how = "name" => k \in DOMAIN inputSpecs[n] /\ inputSpecs[n][k] = c.name
  /\ c.how # "name" => (k \in DOMAIN inputSpecs[n] => inputSpecs[n][k] = NoName)
  /\ c.how = "open" => nodes[n].inputs[k] = Unconnected
  /\ c.how = "expr" =>
       /\ nodes[n].inputs[k] # Unconnected
       /\ nodes[nodes[n].inputs[k].node].kind = "op"
       /\ inputSpecs[nodes[n].inputs[k].node] = <<c.name>>

(* What is left of the calls for connection c.                             *)
InputRest(c) ==
  CASE c.how = "open" -> calls = <<Call("instance_open", NoName)>>
    [] c.how = "name" -> calls = <<Call("instance_spec", c.name)>>
    [] c.how = "expr" ->
         \/ calls = InputCalls(c)
         \/ calls = <<Call("operation", NoName), Call("spec", c.name),
                      Call("temporary_output", NoName), Call("instance_input", NoName)>>
         \/ /\ calls = <<Call("spec", c.name), Call("temporary_output", NoName),
                         Call("instance_input", NoName)>>
            /\ inputSpecs[operation] = <<>>
         \/ /\ calls = <<Call("temporary_output", NoName), Call("instance_input", NoName)>>
            /\ inputSpecs[operation] = <<c.name>>
         \/ /\ calls = <<Call("instance_input", NoName)>>
            /\ inputSpecs[operation] = <<c.name>>

(* An operation asks for its inputs before it has an output: whoever reads *)
(* from it finds all that it reads.                                        *)
Reads == {"spec", "from_instance", "from_conversion"}
Asking ==
  \A k \in DOMAIN calls :
    calls[k].call \in Reads =>
      \/ \E j \in 1..(k - 1) : calls[j].call = "operation"
      \/ operation \in DOMAIN nodes /\ nodes[operation].outputs = <<>>
AskedFirst ==
  \A j, k \in DOMAIN calls :
    calls[j].call \in {"output", "temporary_output", "ff"} /\ calls[k].call \in Reads /\ j < k =>
      \E l \in (j + 1)..(k - 1) : calls[l].call = "operation"

(* What instance n has of its inputs is right.                             *)
Fitted(n, ins) ==
  /\ n \in DOMAIN nodes /\ nodes[n].kind = "instance"
  /\ \A k \in DOMAIN nodes[n].inputs : k \in DOMAIN ins /\ ConnectedTo(n, k, ins[k])

(* The instances of the body so far; the newest has to be created first.   *)
Begun(j) == j # Len(placed) \/ ~Next1("instance")

Placings == [node: Nat, ins: Seq(Connection)]

InPlace ==
  /\ placed \in Seq(Placings)
  /\ \A j, l \in DOMAIN placed : j < l => placed[j].node < placed[l].node
  /\ \A j \in DOMAIN placed : Begun(j) =>
       /\ Fitted(placed[j].node, placed[j].ins)
       /\ j # Len(placed) => Len(nodes[placed[j].node].inputs) = Len(placed[j].ins)

(* What is left of the ports of the newest.                                *)
Remaining ==
  /\ Offset <= Len(Newest.ins)
  /\ \A k \in DOMAIN Newest.ins : k > Offset =>
       k - Offset \in DOMAIN ports /\ ports[k - Offset] = Port("in", Newest.ins[k])
  /\ \A k \in DOMAIN ports : ports[k].port = "in" => k + Offset \in DOMAIN Newest.ins
  /\ Working => InputRest(Newest.ins[Offset])

InProgress ==
  /\ \A k \in DOMAIN calls : calls[k].call = "instance" => k = 1
  /\ IF placed = <<>> THEN ports = <<>> /\ ~Working /\ ~Next1("instance")
     ELSE /\ IF Next1("instance") THEN Newest.node = Len(nodes) + 1 /\ Len(calls) = 1
             ELSE instance = Newest.node
          /\ Remaining

Placement == Asking /\ AskedFirst /\ InPlace /\ InProgress

-----------------------------------------------------------------------------
(* What is connected stays connected.                                      *)

(* The inputs an instance has keep what they are for; only an input asked  *)
(* for by name changes, and the names an operation reads are final once it *)
(* has an output.                                                          *)
ByName(m, k) == k \in DOMAIN inputSpecs[m] /\ inputSpecs[m][k] # NoName

Steady ==
  /\ Kept
  /\ \A m \in DOMAIN nodes :
       /\ nodes[m].kind = "op" /\ nodes[m].outputs # <<>> => inputSpecs'[m] = inputSpecs[m]
       /\ nodes[m].kind = "instance" =>
            \A k \in DOMAIN nodes[m].inputs :
              /\ k \in DOMAIN nodes'[m].inputs
              /\ ByName(m, k) => k \in DOMAIN inputSpecs'[m]
              /\ k \in DOMAIN inputSpecs'[m] =>
                   k \in DOMAIN inputSpecs[m] /\ inputSpecs'[m][k] = inputSpecs[m][k]
              /\ ByName(m, k) \/ nodes'[m].inputs[k] = nodes[m].inputs[k]

LEMMA StillConnected ==
  ASSUME IInv, Steady, NEW n \in DOMAIN nodes, nodes[n].kind = "instance",
         NEW k \in DOMAIN nodes[n].inputs, NEW c \in Connection, ConnectedTo(n, k, c)
  PROVE  ConnectedTo(n, k, c)'
<1>1. /\ k \in DOMAIN nodes'[n].inputs
      /\ ByName(n, k) => k \in DOMAIN inputSpecs'[n]
      /\ k \in DOMAIN inputSpecs'[n] =>
           k \in DOMAIN inputSpecs[n] /\ inputSpecs'[n][k] = inputSpecs[n][k]
      /\ ByName(n, k) \/ nodes'[n].inputs[k] = nodes[n].inputs[k]
  BY DEF Steady
<1>2. CASE c.how = "name"
  <2>1. c.name # NoName
    BY <1>2, Connections, NoNameIsNoName
  <2>2. QED BY <1>1, <1>2, <2>1 DEF ConnectedTo, ByName
<1>3. CASE c.how = "open"
  BY <1>1, <1>3 DEF ConnectedTo, ByName
<1>4. CASE c.how = "expr"
  <2>1. PICK ref : ref = nodes[n].inputs[k]
    OBVIOUS
  <2>2. /\ nodes'[n].inputs[k] = ref /\ ref # Unconnected
        /\ nodes[ref.node].kind = "op" /\ inputSpecs[ref.node] = <<c.name>>
        /\ k \in DOMAIN inputSpecs[n] => inputSpecs[n][k] = NoName
    BY <1>1, <1>4, <2>1 DEF ConnectedTo, ByName
  <2>3. Existing(ref)
    BY <2>1 DEF IInv, Structure, Sound
  <2>4. ref.node \in DOMAIN nodes /\ nodes[ref.node].outputs # <<>>
    BY <2>2, <2>3 DEF Existing
  <2>5. nodes'[ref.node].kind = "op" /\ inputSpecs'[ref.node] = <<c.name>>
    BY <2>2, <2>4 DEF Steady, Kept
  <2>6. QED BY <1>1, <1>4, <2>2, <2>5 DEF ConnectedTo
<1>5. QED BY <1>2, <1>3, <1>4, Connections

LEMMA StillFitted ==
  ASSUME IInv, Steady, NEW n, NEW ins \in Seq(Connection), Fitted(n, ins),
         \A k \in DOMAIN nodes'[n].inputs :
           k \in DOMAIN nodes[n].inputs \/ (k \in DOMAIN ins /\ ConnectedTo(n, k, ins[k])')
  PROVE  Fitted(n, ins)'
<1>1. /\ n \in DOMAIN nodes /\ nodes[n].kind = "instance"
      /\ n \in DOMAIN nodes' /\ nodes'[n].kind = "instance"
  BY DEF Fitted, Steady, Kept
<1>2. ASSUME NEW k \in DOMAIN nodes[n].inputs
      PROVE  k \in DOMAIN ins /\ ConnectedTo(n, k, ins[k])'
  <2>1. PICK c : c = ins[k]
    OBVIOUS
  <2>2. k \in DOMAIN ins /\ ConnectedTo(n, k, c) /\ c \in Connection
    BY <1>2, <2>1 DEF Fitted
  <2>3. ConnectedTo(n, k, c)'
    BY <1>1, <1>2, <2>2, StillConnected
  <2>4. QED BY <2>1, <2>2, <2>3
<1>3. QED BY <1>1, <1>2 DEF Fitted

LEMMA SameLength ==
  ASSUME IInv, IInv', NEW n \in DOMAIN nodes, n \in DOMAIN nodes',
         Len(nodes'[n].inputs) = Len(nodes[n].inputs)
  PROVE  DOMAIN nodes'[n].inputs = DOMAIN nodes[n].inputs
<1>1. nodes' \in Seq(NodeType)
  BY DEF IInv, Typed, TigTypeOK
<1>2. nodes'[n] \in NodeType
  BY <1>1
<1>3. nodes'[n].inputs \in Seq(Reference)
  BY <1>2, NodeFields
<1>4. nodes[n].inputs \in Seq(Reference)
  BY Facts, Domains
<1>5. QED BY <1>3, <1>4

(* The newest instance may get an input, if it is the right one.           *)
LEMMA StaysInPlace ==
  ASSUME IInv, IInv', InPlace, Steady, placed' = placed,
         Next1("instance") => Next1("instance")',
         \A m \in DOMAIN nodes : nodes[m].kind = "instance" =>
           (placed # <<>> /\ m = Newest.node) \/ Len(nodes'[m].inputs) = Len(nodes[m].inputs),
         NEW newest, newest = Newest,
         placed # <<>> => \A k \in DOMAIN nodes'[newest.node].inputs :
           \/ k \in DOMAIN nodes[newest.node].inputs
           \/ k \in DOMAIN newest.ins /\ ConnectedTo(newest.node, k, newest.ins[k])'
  PROVE  InPlace'
<1>1. /\ placed \in Seq(Placings) /\ DOMAIN placed = 1..Len(placed)
      /\ Len(placed) \in Nat /\ \A j \in DOMAIN placed : placed[j] \in Placings
  BY Elements DEF InPlace
<1>2. ASSUME NEW j \in DOMAIN placed, Begun(j)', NEW n, NEW ins, n = placed[j].node, ins = placed[j].ins
      PROVE  Fitted(n, ins)' /\ (j # Len(placed) => Len(nodes'[n].inputs) = Len(ins))
  <2>1. Begun(j)
    BY <1>2 DEF Begun
  <2>2. Fitted(n, ins) /\ (j # Len(placed) => Len(nodes[n].inputs) = Len(ins))
    BY <1>2, <2>1 DEF InPlace
  <2>3. n \in Nat /\ ins \in Seq(Connection)
    <3>1. placed[j] \in Placings
      BY <1>1, <1>2
    <3>2. QED BY <1>2, <3>1 DEF Placings
  <2>4. /\ n \in DOMAIN nodes /\ nodes[n].kind = "instance" /\ n \in DOMAIN nodes'
    BY <2>2 DEF Fitted, Steady, Kept
  <2>5. CASE j = Len(placed)
    <3>1. newest.node = n /\ newest.ins = ins /\ placed # <<>>
      BY <1>1, <1>2, <2>5 DEF Newest
    <3>2. Fitted(n, ins)'
      BY <2>2, <2>3, <3>1, StillFitted
    <3>3. QED BY <2>5, <3>2
  <2>6. CASE j # Len(placed)
    <3>1. PICK last : last = Len(placed)
      OBVIOUS
    <3>2. last \in DOMAIN placed /\ j < last
      BY <1>1, <1>2, <2>6, <3>1
    <3>3. placed[last] \in Placings /\ Newest = placed[last]
      BY <1>1, <3>1, <3>2 DEF Newest
    <3>4. n < placed[last].node
      BY <1>2, <3>2 DEF InPlace
    <3>5. n # Newest.node
      BY <2>3, <3>3, <3>4
    <3>6. Len(nodes'[n].inputs) = Len(nodes[n].inputs)
      BY <2>4, <3>5
    <3>7. DOMAIN nodes'[n].inputs = DOMAIN nodes[n].inputs
      BY <2>4, <3>6, SameLength
    <3>8. Fitted(n, ins)'
      BY <2>2, <2>3, <3>7, StillFitted
    <3>9. QED BY <2>2, <3>6, <3>8
  <2>7. QED BY <2>5, <2>6
<1>3. QED BY <1>1, <1>2 DEF InPlace

-----------------------------------------------------------------------------
(* What the steps do to the inputs of operations and instances.            *)

(* No instance gets an input.                                              *)
Resting ==
  /\ Steady
  /\ \A m \in DOMAIN nodes :
       nodes[m].kind = "instance" => Len(nodes'[m].inputs) = Len(nodes[m].inputs)

(* The operations read what they read.                                     *)
SameReads == \A m \in DOMAIN nodes : nodes[m].kind = "op" => inputSpecs'[m] = inputSpecs[m]

Unmoved ==
  /\ Kept
  /\ \A m \in DOMAIN nodes : nodes[m].kind \in {"op", "instance"} =>
       nodes'[m].inputs = nodes[m].inputs /\ inputSpecs'[m] = inputSpecs[m]

LEMMA UnmovedRests ==
  ASSUME Unmoved
  PROVE  Resting /\ SameReads
BY DEF Unmoved, Resting, SameReads, Steady, ByName

LEMMA CreatedUnmoved ==
  ASSUME IInv, NEW x \in NodeType, NEW specs \in Specs, CreateNode(x, specs)
  PROVE  /\ Unmoved
         /\ Len(nodes) + 1 \in DOMAIN nodes' /\ nodes'[Len(nodes) + 1] = x
         /\ inputSpecs'[Len(nodes) + 1] = specs
<1>1. /\ nodes' \in Seq(NodeType) /\ Len(nodes') = Len(nodes) + 1
      /\ \A m \in DOMAIN nodes : nodes'[m] = nodes[m]
      /\ \A m \in DOMAIN inputSpecs : inputSpecs'[m] = inputSpecs[m]
      /\ nodes'[Len(nodes) + 1] = x
      /\ inputSpecs'[Len(inputSpecs) + 1] = specs
      /\ Kept
  BY Facts, CreateNodeEffect
<1>2. Len(nodes) \in Nat /\ Len(inputSpecs) = Len(nodes) /\ DOMAIN inputSpecs = DOMAIN nodes
  BY Facts, Domains
<1>3. Len(nodes) + 1 \in DOMAIN nodes'
  BY <1>1, <1>2
<1>4. QED BY <1>1, <1>2, <1>3 DEF Unmoved

LEMMA PortUnmoved ==
  ASSUME IInv, NEW name \in Name, CreateModuleInput(name) \/ CreateModuleOutput(name)
  PROVE  Unmoved
<1>1. PICK ins, outs, floating : ins = <<>> /\ outs = <<name>> /\ floating = <<Unconnected>>
  OBVIOUS
<1>2. /\ ins \in Seq(Reference) /\ ins \in Specs /\ outs \in Specs
      /\ floating \in Seq(Reference)
  BY <1>1, NameTypes, RefType DEF Specs
<1>3. Plain("pi", ins, outs) \in NodeType /\ Plain("po", floating, ins) \in NodeType
  BY <1>2, PlainType DEF PlainKinds
<1>4. \/ CreateNode(Plain("pi", ins, outs), ins)
      \/ CreateNode(Plain("po", floating, ins), outs)
  BY <1>1 DEF CreateModuleInput, CreateModuleOutput
<1>5. QED BY <1>2, <1>3, <1>4, CreatedUnmoved

LEMMA EmptyNode ==
  ASSUME IInv, NEW kind \in {"op", "instance"}, CreateNode(Plain(kind, <<>>, <<>>), <<>>),
         NEW new, new = Len(nodes) + 1
  PROVE  /\ Unmoved
         /\ new \in DOMAIN nodes' /\ nodes'[new].kind = kind /\ nodes'[new].outputs = <<>>
         /\ nodes'[new].inputs = <<>> /\ inputSpecs'[new] = <<>>
<1>1. PICK empty : empty = <<>>
  OBVIOUS
<1>2. empty \in Seq(Reference) /\ empty \in Specs /\ kind \in PlainKinds
  BY <1>1 DEF Specs, PlainKinds
<1>3. PICK x : x = Plain(kind, empty, empty)
  OBVIOUS
<1>4. x \in NodeType /\ x.kind = kind /\ x.inputs = empty /\ x.outputs = empty
  BY <1>2, <1>3, PlainType
<1>5. CreateNode(x, empty)
  BY <1>1, <1>3
<1>6. QED BY <1>1, <1>2, <1>4, <1>5, CreatedUnmoved

LEMMA DriverUnmoved ==
  ASSUME IInv, NEW n, NEW name \in Names, AddNodeOutput(n, name)
  PROVE  Unmoved
<1>1. TigTypeOK /\ Held /\ Len(inputSpecs) = Len(nodes) /\ DOMAIN inputSpecs = DOMAIN nodes
  BY Facts
<1>2. CASE AddFirstDriver(n, name)
  <2>1. inputSpecs' = inputSpecs
    BY <1>2 DEF AddFirstDriver
  <2>2. QED BY <1>1, <1>2, <2>1, AddFirstDriverEffect DEF Unmoved
<1>3. CASE name # NoName /\ AddSecondDriver(n, name)
  <2>1. name \in Name
    BY <1>3 DEF Names
  <2>2. \A m \in DOMAIN nodes : inputSpecs'[m] = inputSpecs[m]
    <3>1. PICK blank : blank = <<NoName, NoName>>
      OBVIOUS
    <3>2. blank \in Specs /\ inputSpecs \in Seq(Specs)
      BY <3>1, Facts, NameTypes DEF Specs
    <3>3. inputSpecs' = Append(inputSpecs, blank)
      BY <1>3, <3>1 DEF AddSecondDriver
    <3>4. QED BY <1>1, <3>2, <3>3, Appended
  <2>3. QED BY <1>1, <1>3, <2>1, <2>2, AddSecondDriverEffect DEF Unmoved
<1>4. CASE name # NoName /\ AddLaterDriver(n, name)
  <2>1. name \in Name
    BY <1>4 DEF Names
  <2>2. PICK merge \in DOMAIN nodes :
          /\ nodes[merge].kind = "merge"
          /\ \A m \in DOMAIN nodes :
               nodes'[m].inputs =
                 IF m = merge THEN Append(nodes[m].inputs, NextOutput(n)) ELSE nodes[m].inputs
          /\ \A m \in DOMAIN inputSpecs :
               inputSpecs'[m] =
                 IF m = merge THEN Append(inputSpecs[m], NoName) ELSE inputSpecs[m]
          /\ Kept
    BY <1>1, <1>4, <2>1, AddLaterDriverEffect
  <2>3. ASSUME NEW m \in DOMAIN nodes, nodes[m].kind \in {"op", "instance"}
        PROVE  nodes'[m].inputs = nodes[m].inputs /\ inputSpecs'[m] = inputSpecs[m]
    <3>1. m # merge
      BY <2>2, <2>3
    <3>2. QED BY <1>1, <2>2, <2>3, <3>1
  <2>4. QED BY <2>2, <2>3 DEF Unmoved
<1>5. QED BY <1>2, <1>3, <1>4 DEF AddNodeOutput

LEMMA StillUnmoved ==
  ASSUME UNCHANGED <<nodes, inputSpecs>>
  PROVE  Unmoved
BY DEF Unmoved, Kept

(* The calls and visits that connect no input of an operation or instance. *)
LEMMA CallsUnmoved ==
  ASSUME LowerInv, MakeCall, ~CallInput
  PROVE  Unmoved
<1>1. IInv /\ Handlers
  BY DEF LowerInv
<1>2. CASE CallOperation \/ CallInstance
  BY <1>1, <1>2, EmptyNode DEF CallOperation, CallInstance, CreateOperation, CreateInstance
<1>3. CASE CallTemporary \/ CallFf
  BY <1>3, StillUnmoved DEF CallTemporary, CallFf, RecordFf, tigVars
<1>4. CASE CallOutput
  <2>1. PICK n \in {operation, instance}, name \in Names, domain \in Domain \cup {Comb} :
          AddNodeOutput(n, name)
    BY <1>1, <1>4, OutputCall
  <2>2. QED BY <1>1, <2>1, DriverUnmoved
<1>5. QED BY <1>2, <1>3, <1>4 DEF MakeCall

LEMMA FinishingUnmoved ==
  ASSUME LowerInv, FinishModule, ~WireConnections
  PROVE  Unmoved
<1>1. IInv /\ Naming
  BY DEF LowerInv
<1>2. CASE InsertFfs
  BY <1>2, StillUnmoved DEF InsertFfs
<1>3. CASE InsertStep
  <2>1. \E name : Inserting(name)
    BY <1>1, <1>3, RegisterEffect, ClusterEffect, FfMergeEffect DEF InsertStep
  <2>2. QED BY <2>1 DEF Inserting, Unmoved
<1>4. QED BY <1>2, <1>3 DEF FinishModule, InsertStep

LEMMA WiringRests ==
  ASSUME IInv, WireConnections
  PROVE  Resting /\ SameReads
<1>1. /\ Calm /\ UNCHANGED inputSpecs /\ DOMAIN nodes' = DOMAIN nodes
      /\ \A m \in DOMAIN nodes :
           /\ Len(nodes'[m].inputs) = Len(nodes[m].inputs)
           /\ \A k \in DOMAIN nodes[m].inputs :
                nodes'[m].inputs[k] =
                  IF k \in DOMAIN inputSpecs[m] /\ inputSpecs[m][k] # NoName
                  THEN signalMap[inputSpecs[m][k]] ELSE nodes[m].inputs[k]
  BY WiringCalm
<1>2. Kept
  BY <1>1 DEF Calm
<1>3. IInv'
  BY Wires
<1>4. \A m \in DOMAIN nodes : DOMAIN nodes'[m].inputs = DOMAIN nodes[m].inputs
  BY <1>1, <1>3, SameLength
<1>5. QED BY <1>1, <1>2, <1>4 DEF Resting, Steady, SameReads, ByName

(* A node that is still built gets an input.                               *)
Fed(n, ref, name) ==
  /\ n \in DOMAIN nodes
  /\ nodes'[n].inputs = Append(nodes[n].inputs, ref)
  /\ inputSpecs'[n] = Append(inputSpecs[n], name)
  /\ Len(inputSpecs[n]) = Len(nodes[n].inputs)
  /\ \A m \in DOMAIN nodes : m # n => nodes'[m] = nodes[m] /\ inputSpecs'[m] = inputSpecs[m]

LEMMA Feeding ==
  ASSUME IInv, NEW n, Builds(n), NEW ref \in Reference, NEW name \in Names,
         ConnectInput(n, ref, name), nodes[n].kind = "op" => nodes[n].outputs = <<>>
  PROVE  Steady /\ Fed(n, ref, name)
<1>1. /\ Calm
      /\ \A m \in DOMAIN nodes : m # n => nodes'[m] = nodes[m] /\ inputSpecs'[m] = inputSpecs[m]
      /\ nodes'[n].inputs = Append(nodes[n].inputs, ref)
      /\ inputSpecs'[n] = Append(inputSpecs[n], name)
  BY ConnectingCalm
<1>2. n \in DOMAIN nodes /\ Len(inputSpecs[n]) = Len(nodes[n].inputs)
  BY DEF Builds, ConnectInput
<1>3. nodes[n].inputs \in Seq(Reference) /\ inputSpecs[n] \in Seq(Names) /\ n \in DOMAIN inputSpecs
  BY <1>2, Facts, Domains DEF Specs
<1>4. PICK ins, specs : ins = nodes[n].inputs /\ specs = inputSpecs[n]
  OBVIOUS
<1>5. /\ DOMAIN ins = DOMAIN specs
      /\ \A k \in DOMAIN ins :
           /\ k \in DOMAIN Append(ins, ref) /\ Append(ins, ref)[k] = ins[k]
           /\ k \in DOMAIN Append(specs, name) /\ Append(specs, name)[k] = specs[k]
  <2>1. Len(specs) = Len(ins) /\ ins \in Seq(Reference) /\ specs \in Seq(Names)
    BY <1>2, <1>3, <1>4
  <2>2. QED BY <2>1, Elements, Appended
<1>6. \A k \in DOMAIN nodes[n].inputs :
        /\ k \in DOMAIN nodes'[n].inputs
        /\ k \in DOMAIN inputSpecs[n] /\ k \in DOMAIN inputSpecs'[n]
        /\ inputSpecs'[n][k] = inputSpecs[n][k]
        /\ nodes'[n].inputs[k] = nodes[n].inputs[k]
  BY <1>1, <1>4, <1>5
<1>7. Steady
  <2>1. Kept
    BY <1>1 DEF Calm
  <2>2. ASSUME NEW m \in DOMAIN nodes
        PROVE  /\ nodes[m].kind = "op" /\ nodes[m].outputs # <<>> => inputSpecs'[m] = inputSpecs[m]
               /\ nodes[m].kind = "instance" =>
                    \A k \in DOMAIN nodes[m].inputs :
                      /\ k \in DOMAIN nodes'[m].inputs
                      /\ ByName(m, k) => k \in DOMAIN inputSpecs'[m]
                      /\ k \in DOMAIN inputSpecs'[m] =>
                           k \in DOMAIN inputSpecs[m] /\ inputSpecs'[m][k] = inputSpecs[m][k]
                      /\ ByName(m, k) \/ nodes'[m].inputs[k] = nodes[m].inputs[k]
    BY <1>1, <1>6 DEF ByName
  <2>3. QED BY <2>1, <2>2 DEF Steady
<1>8. QED BY <1>1, <1>2, <1>7 DEF Fed

(* The specs of an instance are dropped only if none is a name.            *)
LEMMA FinalizingRests ==
  ASSUME IInv, NEW n, nodes[n].kind = "instance", FinalizeNodeInput(n)
  PROVE  Resting /\ SameReads
<1>1. /\ Calm /\ nodes' = nodes
      /\ \A m \in DOMAIN nodes :
           inputSpecs'[m] = inputSpecs[m] \/ (m = n /\ inputSpecs'[m] = <<>>)
  BY FinalizingCalm
<1>2. Kept
  BY <1>1 DEF Calm
<1>3. (\A k \in DOMAIN inputSpecs[n] : inputSpecs[n][k] = NoName) \/ inputSpecs' = inputSpecs
  BY DEF FinalizeNodeInput
<1>4. \A m \in DOMAIN nodes : m # n => inputSpecs'[m] = inputSpecs[m]
  BY <1>1
<1>5. CASE inputSpecs' = inputSpecs
  BY <1>1, <1>5, StillUnmoved, UnmovedRests
<1>6. CASE \A k \in DOMAIN inputSpecs[n] : inputSpecs[n][k] = NoName
  <2>1. \A k : ~ByName(n, k)
    BY <1>6 DEF ByName
  <2>2. n \in DOMAIN nodes => \/ inputSpecs'[n] = inputSpecs[n]
                              \/ \A k : k \notin DOMAIN inputSpecs'[n]
    BY <1>1
  <2>3. ASSUME NEW m \in DOMAIN nodes, nodes[m].kind = "instance"
        PROVE  \A k \in DOMAIN nodes[m].inputs :
                 /\ ByName(m, k) => k \in DOMAIN inputSpecs'[m]
                 /\ k \in DOMAIN inputSpecs'[m] =>
                      k \in DOMAIN inputSpecs[m] /\ inputSpecs'[m][k] = inputSpecs[m][k]
    <3>1. CASE m = n
      BY <2>1, <2>2, <2>3, <3>1
    <3>2. CASE m # n
      BY <1>4, <2>3, <3>2 DEF ByName
    <3>3. QED BY <3>1, <3>2
  <2>4. \A m \in DOMAIN nodes : nodes[m].kind = "op" => m # n
    OBVIOUS
  <2>5. QED BY <1>1, <1>2, <1>4, <2>3, <2>4 DEF Resting, SameReads, Steady
<1>7. QED BY <1>3, <1>5, <1>6

-----------------------------------------------------------------------------
(* The calls still to make.                                                *)

Drives1 == {"output", "temporary_output", "ff"}

WellAsked(q) ==
  /\ \A k \in DOMAIN q :
       /\ q[k].call \in Reads => \E j \in 1..(k - 1) : q[j].call = "operation"
       /\ q[k].call # "instance"
  /\ \A j, k \in DOMAIN q :
       q[j].call \in Drives1 /\ q[k].call \in Reads /\ j < k =>
         \E l \in (j + 1)..(k - 1) : q[l].call = "operation"

LEMMA WellAskedCalls ==
  ASSUME NEW q, WellAsked(q), calls' = q
  PROVE  Asking' /\ AskedFirst' /\ \A k \in DOMAIN calls' : calls'[k].call # "instance"
BY DEF WellAsked, Asking, AskedFirst, Drives1

(* A call made: the rest are left, or the record_ff of a clocked output    *)
(* comes before them.                                                      *)
LEMMA CallsLeft ==
  ASSUME Handlers, MakeCall
  PROVE  /\ calls # <<>> /\ 1 \in DOMAIN calls /\ Head(calls) = calls[1]
         /\ \A k \in DOMAIN calls : k \in Nat /\ k >= 1
         /\ \A what : Next1(what) <=> calls[1].call = what
         /\ \A k \in DOMAIN calls' : k \in Nat /\ k >= 1
         /\ Clocking =>
              \A k \in DOMAIN calls' :
                \/ k = 1 /\ calls'[k].call = "ff"
                \/ k > 1 /\ k \in DOMAIN calls /\ calls'[k] = calls[k]
         /\ ~Clocking =>
              /\ calls' = Tail(calls)
              /\ \A k \in DOMAIN calls' : k + 1 \in DOMAIN calls /\ calls'[k] = calls[k + 1]
<1>1. calls # <<>> /\ calls \in Seq(CallType)
  BY DEF MakeCall, CallOperation, CallInstance, CallTemporary, CallInput, CallOutput, CallFf, Next1,
     Handlers, LowerTypeOK
<1>2. PICK q, head, tail : q = calls /\ head = Head(calls) /\ tail = Tail(calls)
  OBVIOUS
<1>3. /\ head = q[1] /\ head \in CallType /\ 1 \in DOMAIN q /\ tail \in Seq(CallType)
      /\ \A k \in DOMAIN tail : k \in Nat /\ k >= 1 /\ k + 1 \in DOMAIN q /\ tail[k] = q[k + 1]
      /\ \A k \in DOMAIN q : k \in Nat /\ k >= 1
  BY <1>1, <1>2, Rest, Elements
<1>4. \A what : Next1(what) <=> head.call = what
  BY <1>1, <1>2 DEF Next1
<1>5. CASE Clocking
  <2>1. head.call = "output" /\ head.domain # Comb
    BY <1>2, <1>4, <1>5 DEF Clocking
  <2>2. PICK first : first = [head EXCEPT !.call = "ff"]
    OBVIOUS
  <2>3. first \in CallType /\ first.call = "ff"
    BY <1>3, <2>1, <2>2, CallFields
  <2>4. PICK one : one = <<first>>
    OBVIOUS
  <2>5. one \in Seq(CallType) /\ Len(one) = 1 /\ one[1] = first /\ DOMAIN one = {1}
    BY <2>3, <2>4
  <2>6. calls' = one \o tail
    BY <1>2, <1>5, <2>2, <2>4 DEF MakeCall
  <2>7. Joined(one, tail, calls') /\ calls' \in Seq(CallType)
    BY <1>3, <2>5, <2>6, Catenated
  <2>8. \A k \in DOMAIN calls' : k \in Nat /\ k >= 1
    BY <2>7, Elements
  <2>9. \A k \in DOMAIN calls' : \/ k = 1 /\ calls'[k].call = "ff"
                                 \/ k > 1 /\ k \in DOMAIN calls /\ calls'[k] = calls[k]
    <3>1. ASSUME NEW k \in DOMAIN calls', NEW l \in DOMAIN tail, k = 1 + l, calls'[k] = tail[l]
          PROVE  k > 1 /\ k \in DOMAIN q /\ calls'[k] = q[k]
      BY <1>3, <3>1
    <3>2. QED BY <1>2, <2>3, <2>5, <2>7, <3>1 DEF Joined
  <2>10. QED BY <1>1, <1>2, <1>3, <1>4, <1>5, <2>8, <2>9
<1>6. CASE ~Clocking
  <2>1. calls' = tail
    BY <1>2, <1>6 DEF MakeCall
  <2>2. QED BY <1>1, <1>2, <1>3, <1>4, <1>6, <2>1
<1>7. QED BY <1>5, <1>6

(* While an operation is asked for inputs nothing else comes between.      *)
LEMMA OperationStays ==
  ASSUME LowerInv, IInv', Locals, MakeCall, operation' = operation,
         operation \in DOMAIN nodes, nodes[operation].outputs = <<>>,
         ~Next1("output"), ~Next1("temporary_output")
  PROVE  operation \in DOMAIN nodes' /\ nodes'[operation].outputs = <<>>
<1>1. IInv /\ Handlers /\ Kept /\ operation # 0
  BY StepsKeep, Facts, Domains DEF LowerInv, Next
<1>2. operation \in DOMAIN nodes'
  BY <1>1 DEF Kept
<1>3. CASE CalmStep
  BY <1>2, <1>3 DEF CalmStep, Calm
<1>4. CASE CallFf
  BY <1>2, <1>4 DEF CallFf, RecordFf
<1>5. CASE CallOutput
  <2>1. PICK n \in {operation, instance}, name \in Names, domain \in Domain \cup {Comb} :
           /\ AddNodeOutput(n, name) /\ Intend(name, NextOutput(n), domain)
           /\ name \notin InputPorts
           /\ \/ Next1("output") /\ n = operation /\ name = Arg /\ domain = Head(calls).domain
                   /\ name # NoName
              \/ domain = Comb /\ Next1("instance_output") /\ n = instance /\ name = Arg
              \/ domain = Comb /\ Fresh /\ name = Tmp /\ ~Driven(name) /\ name # NoName
                   /\ \/ Next1("temporary_output") /\ n = operation
                      \/ Next1("instance_temporary") /\ n = instance
    BY <1>1, <1>5, OutputCall
  <2>2. nodes[n].kind = "instance"
    <3>1. n \in DOMAIN nodes /\ n # 0
      BY <1>1, <2>1, DriverEffect, BuildsNode, Facts
    <3>2. n = instance
      BY <2>1
    <3>3. QED BY <3>1, <3>2 DEF Locals
  <2>3. nodes[operation].kind = "op" /\ operation # n
    BY <1>1, <2>2 DEF Locals
  <2>4. Len(nodes'[operation].outputs) = 0
    <3>1. Len(nodes'[operation].outputs) = Len(nodes[operation].outputs) + (IF operation = n THEN 1 ELSE 0)
      BY <1>1, <2>1, DriverEffect
    <3>2. QED BY <2>3, <3>1
  <2>5. nodes'[operation].outputs \in Seq(Names)
    <3>1. nodes' \in Seq(NodeType)
      BY DEF IInv, Typed, TigTypeOK
    <3>2. nodes'[operation] \in NodeType
      BY <1>2, <3>1
    <3>3. QED BY <3>2, NodeFields
  <2>6. QED BY <1>2, <2>4, <2>5
<1>6. QED BY <1>1, <1>3, <1>4, <1>5, CalmCalls

LEMMA AskingSteps ==
  ASSUME LowerInv, IInv', Locals, Asking, AskedFirst, MakeCall
  PROVE  Asking' /\ AskedFirst'
<1>1. IInv /\ Handlers
  BY DEF LowerInv
<1>2. /\ calls # <<>> /\ 1 \in DOMAIN calls /\ Head(calls) = calls[1]
      /\ \A k \in DOMAIN calls : k \in Nat /\ k >= 1
      /\ \A what : Next1(what) <=> calls[1].call = what
      /\ \A k \in DOMAIN calls' : k \in Nat /\ k >= 1
  BY <1>1, CallsLeft
<1>6. \A k \in DOMAIN calls' : \A l \in 1..k : l \in DOMAIN calls'
  <2>1. calls' \in Seq(CallType)
    BY <1>1, HandlersStep DEF Next, Handlers, LowerTypeOK
  <2>2. DOMAIN calls' = 1..Len(calls') /\ Len(calls') \in Nat
    BY <2>1, Elements
  <2>3. QED BY <2>2
<1>3. CASE Clocking
  <2>1. \A k \in DOMAIN calls' :
          \/ k = 1 /\ calls'[k].call = "ff"
          \/ k > 1 /\ k \in DOMAIN calls /\ calls'[k] = calls[k]
    BY <1>1, <1>3, CallsLeft
  <2>2. calls[1].call = "output"
    BY <1>2, <1>3 DEF Clocking
  <2>3. \A k \in DOMAIN calls' : k # 1 =>
          /\ k > 1 /\ k \in DOMAIN calls /\ calls'[k] = calls[k]
          /\ \A l \in 2..(k - 1) : l \in DOMAIN calls' /\ calls'[l] = calls[l]
    BY <1>2, <1>6, <2>1
  <2>4. ASSUME NEW k \in DOMAIN calls', calls'[k].call \in Reads,
               NEW j \in DOMAIN calls, j < k, calls[j].call \in {"output", "temporary_output", "ff"}
        PROVE  \E l \in (j + 1)..(k - 1) : calls'[l].call = "operation"
    <3>1. k # 1 /\ k \in DOMAIN calls /\ calls[k].call \in Reads /\ j >= 1
      BY <1>2, <2>1, <2>3, <2>4 DEF Reads
    <3>2. PICK l \in (j + 1)..(k - 1) : calls[l].call = "operation"
      BY <2>4, <3>1 DEF AskedFirst
    <3>3. l \in 2..(k - 1)
      BY <1>2, <2>4, <3>1, <3>2
    <3>4. QED BY <2>3, <3>1, <3>2, <3>3
  <2>5. Asking'
    <3>1. ASSUME NEW k \in DOMAIN calls', calls'[k].call \in Reads
          PROVE  \E l \in 1..(k - 1) : calls'[l].call = "operation"
      <4>1. k > 1
        BY <2>1, <3>1 DEF Reads
      <4>2. PICK l \in 2..(k - 1) : calls'[l].call = "operation"
        BY <1>2, <2>2, <2>4, <3>1, <4>1
      <4>3. QED BY <1>2, <4>2
    <3>2. QED BY <3>1 DEF Asking
  <2>6. AskedFirst'
    <3>1. ASSUME NEW j \in DOMAIN calls', NEW k \in DOMAIN calls', j < k, calls'[k].call \in Reads,
                 calls'[j].call \in {"output", "temporary_output", "ff"}
          PROVE  \E l \in (j + 1)..(k - 1) : calls'[l].call = "operation"
      <4>1. j \in DOMAIN calls /\ calls[j].call \in {"output", "temporary_output", "ff"}
        BY <1>2, <2>1, <2>2, <3>1
      <4>2. QED BY <2>4, <3>1, <4>1
    <3>2. QED BY <3>1 DEF AskedFirst
  <2>7. QED BY <2>5, <2>6
<1>4. CASE ~Clocking
  <2>1. \A k \in DOMAIN calls' : k + 1 \in DOMAIN calls /\ calls'[k] = calls[k + 1]
    BY <1>1, <1>4, CallsLeft
  <2>2. AskedFirst'
    <3>1. ASSUME NEW j \in DOMAIN calls', NEW k \in DOMAIN calls', j < k, calls'[k].call \in Reads,
                 calls'[j].call \in {"output", "temporary_output", "ff"}
          PROVE  \E l \in (j + 1)..(k - 1) : calls'[l].call = "operation"
      <4>1. PICK l \in ((j + 1) + 1)..((k + 1) - 1) : calls[l].call = "operation"
        <5>1. j + 1 < k + 1 /\ j + 1 \in DOMAIN calls /\ k + 1 \in DOMAIN calls
          BY <1>2, <2>1, <3>1
        <5>2. QED BY <2>1, <3>1, <5>1 DEF AskedFirst
      <4>2. l - 1 \in (j + 1)..(k - 1) /\ l - 1 \in 1..k /\ (l - 1) + 1 = l
        BY <1>2, <4>1
      <4>3. l - 1 \in DOMAIN calls' /\ calls'[l - 1] = calls[l]
        BY <1>6, <2>1, <4>2
      <4>4. QED BY <4>1, <4>2, <4>3
    <3>2. QED BY <3>1 DEF AskedFirst
  <2>3. ASSUME NEW k \in DOMAIN calls', calls'[k].call \in Reads
        PROVE  \/ \E j \in 1..(k - 1) : calls'[j].call = "operation"
               \/ operation' \in DOMAIN nodes' /\ nodes'[operation'].outputs = <<>>
    <3>1. CASE CallOperation
      <4>1. CreateNode(Plain("op", <<>>, <<>>), <<>>) /\ operation' = Len(nodes) + 1
        BY <3>1 DEF CallOperation, CreateOperation
      <4>2. QED BY <1>1, <4>1, EmptyNode
    <3>2. CASE ~CallOperation
      <4>1. operation' = operation /\ calls[1].call # "operation"
        <5>1. operation' = operation
          BY <3>2 DEF MakeCall, CallInstance, CallTemporary, CallInput, CallOutput, CallFf
        <5>2. ~Next1("operation")
          BY <1>2, <3>2 DEF MakeCall, CallInstance, CallTemporary, CallInput, CallOutput, CallFf
        <5>3. QED BY <1>2, <5>1, <5>2
      <4>2. k \in Nat /\ k >= 1 /\ k + 1 \in DOMAIN calls /\ calls[k + 1].call \in Reads
        BY <1>2, <2>1, <2>3
      <4>3. CASE \E j \in 1..((k + 1) - 1) : calls[j].call = "operation"
        <5>1. PICK j \in 1..((k + 1) - 1) : calls[j].call = "operation"
          BY <4>3
        <5>2. j # 1 /\ j - 1 \in 1..(k - 1)
          BY <4>1, <4>2, <5>1
        <5>3. j - 1 \in DOMAIN calls'
          BY <1>2, <1>6, <2>3, <5>2
        <5>4. calls'[j - 1] = calls[(j - 1) + 1] /\ (j - 1) + 1 = j
          BY <2>1, <5>2, <5>3
        <5>5. QED BY <5>1, <5>2, <5>4
      <4>4. CASE operation \in DOMAIN nodes /\ nodes[operation].outputs = <<>>
        <5>1. CASE calls[1].call \in {"output", "temporary_output", "ff"}
          <6>1. PICK j \in (1 + 1)..((k + 1) - 1) : calls[j].call = "operation"
            BY <1>2, <4>2, <5>1 DEF AskedFirst
          <6>2. j - 1 \in 1..(k - 1) /\ j - 1 \in 1..k /\ (j - 1) + 1 = j
            BY <4>2, <6>1
          <6>3. j - 1 \in DOMAIN calls' /\ calls'[j - 1] = calls[j]
            BY <1>6, <2>1, <6>2
          <6>4. QED BY <6>1, <6>2, <6>3
        <5>2. CASE calls[1].call \notin {"output", "temporary_output", "ff"}
          <6>1. ~Next1("output") /\ ~Next1("temporary_output")
            BY <1>2, <5>2
          <6>2. QED BY <4>1, <4>4, <6>1, OperationStays
        <5>3. QED BY <5>1, <5>2
      <4>5. QED BY <4>2, <4>3, <4>4 DEF Asking
    <3>3. QED BY <3>1, <3>2
  <2>4. Asking'
    BY <2>3 DEF Asking
  <2>5. QED BY <2>2, <2>4
<1>5. QED BY <1>3, <1>4

LEMMA ProcessAsks ==
  ASSUME NEW p \in Processes, NEW q, q = ProcessCalls(p)
  PROVE  WellAsked(q) /\ \A k \in DOMAIN q : q[k].call \notin InputWork
<1>1. PICK reads, writes, domain : reads = p.reads /\ writes = p.writes /\ domain = p.domain
  OBVIOUS
<1>2. reads \in Seq(Name) /\ writes \in Seq(Name)
  BY <1>1, MembersAreOverNames
<1>3. PICK first, asks, drivers, front :
        /\ first = <<Call("operation", NoName)>>
        /\ asks = Asks(reads) /\ drivers = Drivers(writes, domain) /\ front = first \o asks
  OBVIOUS
<1>4. PICK c : c = Call("operation", NoName)
  OBVIOUS
<1> DEFINE S == {c} \cup {asks[k] : k \in DOMAIN asks} \cup {drivers[k] : k \in DOMAIN drivers}
<1>5. /\ asks = [k \in 1..Len(reads) |-> Call("spec", reads[k])] /\ Len(reads) \in Nat
      /\ drivers = [k \in 1..Len(writes) |->
                      [call |-> "output", name |-> writes[k], domain |-> domain]]
      /\ Len(writes) \in Nat
  BY <1>2, <1>3 DEF Asks, Drivers
<1>6. /\ c.call = "operation" /\ \A k \in DOMAIN asks : asks[k].call = "spec"
      /\ \A k \in DOMAIN drivers : drivers[k].call = "output"
  BY <1>4, <1>5 DEF Call
<1>7. /\ c \in S /\ \A k \in DOMAIN asks : asks[k] \in S
      /\ \A k \in DOMAIN drivers : drivers[k] \in S
  OBVIOUS
<1> HIDE DEF S
<1>8. /\ first \in Seq(S) /\ Len(first) = 1 /\ first[1] = c /\ DOMAIN first = {1}
  BY <1>3, <1>4, <1>7
<1>9. asks \in Seq(S) /\ DOMAIN asks = 1..Len(asks) /\ Len(asks) \in Nat
  BY <1>5, <1>7
<1>10. drivers \in Seq(S) /\ DOMAIN drivers = 1..Len(drivers) /\ Len(drivers) \in Nat
  BY <1>5, <1>7
<1>11. front \in Seq(S) /\ Joined(first, asks, front)
  BY <1>3, <1>8, <1>9, Catenated
<1>12. q \in Seq(S) /\ Joined(front, drivers, q)
  <2>1. q = front \o drivers
    BY <1>1, <1>3 DEF ProcessCalls
  <2>2. QED BY <1>10, <1>11, <2>1, Catenated
<1>13. DOMAIN front = 1..Len(front) /\ Len(front) = Len(asks) + 1 /\ DOMAIN q = 1..Len(q)
  BY <1>8, <1>11, <1>12, Elements DEF Joined
<1>14. /\ q[1].call = "operation" /\ 1 \in DOMAIN q
       /\ \A k \in DOMAIN q : /\ k \in Nat /\ k >= 1
                              /\ k = 1 => q[k].call = "operation"
                              /\ k > 1 /\ k <= Len(front) => q[k].call = "spec"
                              /\ k > Len(front) => q[k].call = "output"
  <2>1. 1 \in DOMAIN front /\ front[1] = c
    BY <1>8, <1>11 DEF Joined
  <2>2. 1 \in DOMAIN q /\ q[1] = c
    BY <1>12, <2>1 DEF Joined
  <2>3. ASSUME NEW k \in DOMAIN q, k > 1, k <= Len(front)
        PROVE  q[k].call = "spec"
    <3>1. k \in DOMAIN front /\ q[k] = front[k]
      BY <1>12, <1>13, <2>3 DEF Joined
    <3>2. PICK l \in DOMAIN asks : front[k] = asks[l]
      BY <1>8, <1>11, <2>3, <3>1 DEF Joined
    <3>3. QED BY <1>6, <3>1, <3>2
  <2>4. ASSUME NEW k \in DOMAIN q, k > Len(front)
        PROVE  q[k].call = "output"
    <3>1. k \notin DOMAIN front
      BY <1>13, <2>4
    <3>2. PICK l \in DOMAIN drivers : q[k] = drivers[l]
      BY <1>12, <3>1 DEF Joined
    <3>3. QED BY <1>6, <3>2
  <2>5. QED BY <1>6, <1>13, <2>2, <2>3, <2>4
<1>15. ASSUME NEW k \in DOMAIN q
       PROVE  /\ q[k].call \in Reads => \E j \in 1..(k - 1) : q[j].call = "operation"
              /\ q[k].call \in {"operation", "spec", "output"}
  <2>1. Len(front) \in Nat
    BY <1>9, <1>13
  <2>2. CASE k = 1
    BY <1>14, <2>2 DEF Reads
  <2>3. CASE k # 1
    <3>1. 1 \in 1..(k - 1)
      BY <1>14, <2>3
    <3>2. k <= Len(front) \/ k > Len(front)
      BY <1>14, <2>1
    <3>3. QED BY <1>14, <2>3, <3>1, <3>2
  <2>4. QED BY <2>2, <2>3
<1>16. ASSUME NEW j \in DOMAIN q, NEW k \in DOMAIN q, q[j].call \in Drives1, q[k].call \in Reads
       PROVE  ~(j < k)
  <2>1. Len(front) \in Nat /\ Len(front) >= 1
    BY <1>9, <1>13
  <2>2. j > Len(front)
    BY <1>14, <1>16, <2>1 DEF Drives1
  <2>3. k <= Len(front)
    BY <1>14, <1>16, <2>1 DEF Reads
  <2>4. QED BY <1>14, <2>1, <2>2, <2>3
<1>17. QED BY <1>15, <1>16 DEF WellAsked, InputWork

LEMMA PortAsks ==
  ASSUME NEW p \in PortType, NEW q, q = PortCalls(p)
  PROVE  /\ WellAsked(q)
         /\ IF p.port = "in"
            THEN q = InputCalls(p.conn) /\ \E k \in DOMAIN q : q[k].call \in InputWork
            ELSE \A k \in DOMAIN q : q[k].call \notin InputWork
<1>1. PICK c : c = p.conn
  OBVIOUS
<1>2. c \in Connection /\ p.port \in {"in", "out", "end"}
  BY <1>1 DEF PortType
<1>3. PICK a1, a2, a3, a4, a5, b2, b4, b5, b8, e, open, spec, out :
        /\ a1 = Call("temporary", NoName) /\ a2 = Call("operation", NoName)
        /\ a3 = Call("spec", c.name) /\ a4 = Call("temporary_output", NoName)
        /\ a5 = Call("instance_input", NoName) /\ b2 = Call("instance_temporary", NoName)
        /\ b4 = Call("from_instance", NoName) /\ b8 = Call("from_conversion", NoName)
        /\ b5 = [call |-> "output", name |-> c.name, domain |-> Comb]
        /\ e = Call("finalize", NoName) /\ open = Call("instance_open", NoName)
        /\ spec = Call("instance_spec", c.name)
        /\ out = Call("instance_output", IF c.how = "open" THEN NoName ELSE c.name)
  OBVIOUS
<1>4. /\ a1.call = "temporary" /\ a2.call = "operation" /\ a3.call = "spec"
      /\ a4.call = "temporary_output" /\ a5.call = "instance_input"
      /\ b2.call = "instance_temporary" /\ b4.call = "from_instance" /\ b5.call = "output"
      /\ b8.call = "from_conversion"
      /\ e.call = "finalize" /\ open.call = "instance_open" /\ spec.call = "instance_spec"
      /\ out.call = "instance_output"
  BY <1>3 DEF Call
<1>5. CASE p.port = "end"
  <2>1. q = <<e>>
    BY <1>3, <1>5 DEF PortCalls
  <2>2. DOMAIN q = {1} /\ q[1] = e
    BY <2>1
  <2>3. QED BY <1>4, <1>5, <2>2 DEF WellAsked, InputWork, Reads, Drives1
<1>6. CASE p.port = "out"
  <2>0. q = OutputCalls(c)
    BY <1>1, <1>6 DEF PortCalls
  <2>1. CASE c.how # "expr"
    <3>1. q = <<out>>
      BY <1>2, <1>3, <2>0, <2>1, Connections DEF OutputCalls
    <3>2. DOMAIN q = {1} /\ q[1] = out
      BY <3>1
    <3>3. QED BY <1>4, <1>6, <3>2 DEF WellAsked, InputWork, Reads, Drives1
  <2>2. CASE c.how = "expr"
    <3>1. q = <<a1, b2, a2, b4, b5>> \/ q = <<a1, b2, a2, b4, a1, a4, a2, b8, b5>>
      BY <1>3, <2>0, <2>2 DEF OutputCalls
    <3>2. CASE q = <<a1, b2, a2, b4, b5>>
      <4>1. /\ DOMAIN q = 1..5 /\ q[1] = a1 /\ q[2] = b2 /\ q[3] = a2 /\ q[4] = b4 /\ q[5] = b5
        BY <3>2
      <4>2. \A k \in DOMAIN q : q[k].call \in Reads => k = 4
        BY <1>4, <4>1 DEF Reads
      <4>3. \A k \in DOMAIN q : q[k].call \in Drives1 => k = 5
        BY <1>4, <4>1 DEF Drives1
      <4>4. \A k \in DOMAIN q : q[k].call # "instance" /\ q[k].call \notin InputWork
        BY <1>4, <4>1 DEF InputWork
      <4>5. \A k \in DOMAIN q : q[k].call \in Reads => \E j \in 1..(k - 1) : q[j].call = "operation"
        BY <1>4, <4>1, <4>2
      <4>6. \A j, k \in DOMAIN q : q[j].call \in Drives1 /\ q[k].call \in Reads => ~(j < k)
        BY <4>2, <4>3
      <4>7. QED BY <1>6, <4>4, <4>5, <4>6 DEF WellAsked
    <3>3. CASE q = <<a1, b2, a2, b4, a1, a4, a2, b8, b5>>
      <4>1. /\ DOMAIN q = 1..9 /\ q[1] = a1 /\ q[2] = b2 /\ q[3] = a2 /\ q[4] = b4 /\ q[5] = a1
            /\ q[6] = a4 /\ q[7] = a2 /\ q[8] = b8 /\ q[9] = b5
        BY <3>3
      <4>2. \A k \in DOMAIN q : q[k].call \in Reads => k \in {4, 8}
        BY <1>4, <4>1 DEF Reads
      <4>3. \A k \in DOMAIN q : q[k].call \in Drives1 => k \in {6, 9}
        BY <1>4, <4>1 DEF Drives1
      <4>4. \A k \in DOMAIN q : q[k].call # "instance" /\ q[k].call \notin InputWork
        BY <1>4, <4>1 DEF InputWork
      <4>5. q[3].call = "operation" /\ q[7].call = "operation"
        BY <1>4, <4>1
      <4>6. ASSUME NEW k \in DOMAIN q, q[k].call \in Reads
            PROVE  \E j \in 1..(k - 1) : q[j].call = "operation"
        <5>1. 3 \in 1..(k - 1)
          BY <4>2, <4>6
        <5>2. QED BY <4>5, <5>1
      <4>7. ASSUME NEW j \in DOMAIN q, NEW k \in DOMAIN q, q[j].call \in Drives1,
                   q[k].call \in Reads, j < k
            PROVE  \E l \in (j + 1)..(k - 1) : q[l].call = "operation"
        <5>1. 7 \in (j + 1)..(k - 1)
          BY <4>2, <4>3, <4>7
        <5>2. QED BY <4>5, <5>1
      <4>8. QED BY <1>6, <4>4, <4>6, <4>7 DEF WellAsked
    <3>4. QED BY <3>1, <3>2, <3>3
  <2>3. QED BY <2>1, <2>2
<1>7. CASE p.port = "in"
  <2>0. q = InputCalls(c)
    BY <1>1, <1>7 DEF PortCalls
  <2>1. CASE c.how # "expr"
    <3>1. PICK x : x.call \in {"instance_open", "instance_spec"} /\ q = <<x>>
      BY <1>2, <1>3, <1>4, <2>0, <2>1, Connections DEF InputCalls
    <3>2. DOMAIN q = {1} /\ q[1] = x
      BY <3>1
    <3>3. WellAsked(q)
      BY <3>1, <3>2 DEF WellAsked, Reads, Drives1
    <3>4. \E k \in DOMAIN q : q[k].call \in InputWork
      BY <3>1, <3>2 DEF InputWork
    <3>5. QED BY <1>1, <1>7, <2>0, <3>3, <3>4
  <2>2. CASE c.how = "expr"
    <3>1. q = <<a1, a2, a3, a4, a5>>
      BY <1>3, <2>0, <2>2 DEF InputCalls
    <3>2. /\ DOMAIN q = 1..5 /\ q[1] = a1 /\ q[2] = a2 /\ q[3] = a3 /\ q[4] = a4 /\ q[5] = a5
      BY <3>1
    <3>3. \A k \in DOMAIN q : q[k].call \in Reads => k = 3
      BY <1>4, <3>2 DEF Reads
    <3>4. \A k \in DOMAIN q : q[k].call \in Drives1 => k = 4
      BY <1>4, <3>2 DEF Drives1
    <3>5. \A k \in DOMAIN q : q[k].call # "instance"
      BY <1>4, <3>2
    <3>6. \A j, k \in DOMAIN q : q[j].call \in Drives1 /\ q[k].call \in Reads => ~(j < k)
      BY <3>3, <3>4
    <3>7. \A k \in DOMAIN q : q[k].call \in Reads => \E j \in 1..(k - 1) : q[j].call = "operation"
      BY <1>4, <3>2, <3>3
    <3>8. \E k \in DOMAIN q : q[k].call \in InputWork
      BY <1>4, <3>2 DEF InputWork
    <3>9. QED BY <1>1, <1>7, <2>0, <3>4, <3>5, <3>6, <3>7, <3>8 DEF WellAsked
  <2>3. QED BY <2>1, <2>2
<1>8. QED BY <1>2, <1>5, <1>6, <1>7

-----------------------------------------------------------------------------
(* The newest instance.                                                    *)

LEMMA NewestFitted ==
  ASSUME InPlace, placed # <<>>, NEW newest, newest = Newest
  PROVE  /\ newest \in Placings /\ newest.node \in Nat /\ newest.ins \in Seq(Connection)
         /\ Len(newest.ins) \in Nat /\ DOMAIN newest.ins = 1..Len(newest.ins)
         /\ Len(placed) \in DOMAIN placed /\ newest = placed[Len(placed)]
         /\ ~Next1("instance") => Fitted(newest.node, newest.ins)
<1>1. placed \in Seq(Placings)
  BY DEF InPlace
<1>2. PICK last : last = Len(placed)
  OBVIOUS
<1>3. last \in DOMAIN placed /\ newest = placed[last]
  BY <1>1, <1>2 DEF Newest
<1>4. newest \in Placings
  BY <1>1, <1>3, Elements
<1>5. newest.node \in Nat /\ newest.ins \in Seq(Connection)
  BY <1>4 DEF Placings
<1>6. ~Next1("instance") => Fitted(newest.node, newest.ins)
  BY <1>2, <1>3 DEF InPlace, Begun
<1>7. QED BY <1>2, <1>3, <1>4, <1>5, <1>6, Elements

LEMMA InputsOfNewest ==
  ASSUME IInv, InPlace, placed # <<>>, ~Next1("instance"), NEW newest, newest = Newest
  PROVE  /\ newest.node \in DOMAIN nodes /\ nodes[newest.node].kind = "instance"
         /\ Got = Len(nodes[newest.node].inputs) /\ Got \in Nat
         /\ DOMAIN nodes[newest.node].inputs = 1..Got
<1>1. Fitted(newest.node, newest.ins)
  BY NewestFitted
<1>2. newest.node \in DOMAIN nodes /\ nodes[newest.node].kind = "instance"
  BY <1>1 DEF Fitted
<1>3. nodes[newest.node].inputs \in Seq(Reference)
  BY <1>2, Facts, Domains
<1>4. QED BY <1>2, <1>3, Elements DEF Got

LEMMA RestingInPlace ==
  ASSUME IInv, IInv', InPlace, Resting, placed' = placed,
         ~Next1("instance"), ~Next1("instance")'
  PROVE  InPlace' /\ (placed # <<>> => Got' = Got /\ Got \in Nat)
<1>1. PICK newest : newest = Newest
  OBVIOUS
<1>2. Steady
  BY DEF Resting
<1>3. ASSUME placed # <<>>
      PROVE  /\ DOMAIN nodes'[newest.node].inputs = DOMAIN nodes[newest.node].inputs
             /\ Got' = Got /\ Got \in Nat
  <2>1. /\ newest.node \in DOMAIN nodes /\ nodes[newest.node].kind = "instance"
        /\ Got = Len(nodes[newest.node].inputs) /\ Got \in Nat
    BY <1>1, <1>3, InputsOfNewest
  <2>2. Len(nodes'[newest.node].inputs) = Len(nodes[newest.node].inputs)
    BY <2>1 DEF Resting
  <2>3. newest.node \in DOMAIN nodes'
    BY <1>2, <2>1 DEF Steady, Kept
  <2>4. Got' = Len(nodes'[newest.node].inputs)
    BY <1>1 DEF Got, Newest
  <2>5. QED BY <2>1, <2>2, <2>3, <2>4, SameLength
<1>4. QED BY <1>1, <1>2, <1>3, StaysInPlace DEF Resting

LEMMA NoInstanceNext ==
  ASSUME NEW q \in Seq(CallType), \A k \in DOMAIN q : q[k].call # "instance", q # <<>>
  PROVE  Head(q).call # "instance"
<1>1. Head(q) = q[1] /\ 1 \in DOMAIN q
  BY Rest
<1>2. QED BY <1>1

(* Nothing is connected to the newest instance, and nothing was going to   *)
(* be.                                                                     *)
LEMMA QuietPlacement ==
  ASSUME IInv, IInv', InPlace, InProgress, Resting, UNCHANGED <<placed, ports, instance>>,
         ~Next1("instance"), ~Working, ~Working',
         calls' \in Seq(CallType), \A k \in DOMAIN calls' : calls'[k].call # "instance"
  PROVE  InPlace' /\ InProgress'
<1>1. ~Next1("instance")'
  BY NoInstanceNext DEF Next1
<1>2. InPlace' /\ (placed # <<>> => Got' = Got)
  BY <1>1, RestingInPlace
<1>3. placed # <<>> => Offset' = Offset
  BY <1>2 DEF Offset
<1>4. placed # <<>> => Remaining'
  BY <1>3 DEF InProgress, Remaining, Newest
<1>5. placed # <<>> => instance' = Newest'.node
  BY DEF InProgress, Newest
<1>6. QED BY <1>1, <1>2, <1>4, <1>5 DEF InProgress

(* The calls that do not connect an input of an instance.                  *)
LEMMA CallsRest ==
  ASSUME LowerInv, Locals, Asking, MakeCall, Head(calls).call \notin InputWork
  PROVE  /\ Resting
         /\ SameReads \/ Next1("spec") \/ Next1("from_instance") \/ Next1("from_conversion")
         /\ Next1("spec") => Fed(operation, Unconnected, Arg)
<1>1. IInv /\ Handlers
  BY DEF LowerInv
<1>2. /\ calls # <<>> /\ 1 \in DOMAIN calls /\ Head(calls) = calls[1]
      /\ \A what : Next1(what) <=> calls[1].call = what
  BY <1>1, CallsLeft
<1>3. CASE ~CallInput
  <2>1. ~Next1("spec")
    BY <1>2, <1>3 DEF MakeCall, CallOperation, CallInstance, CallTemporary, CallOutput, CallFf
  <2>2. QED BY <1>3, <2>1, CallsUnmoved, UnmovedRests
<1>4. CASE Next1("finalize") /\ FinalizeNodeInput(instance)
  <2>1. nodes[instance].kind = "instance"
    <3>1. instance \in DOMAIN nodes /\ instance # 0
      BY <1>1, <1>4, Facts, BuildsNode DEF FinalizeNodeInput
    <3>2. QED BY <3>1 DEF Locals
  <2>2. ~Next1("spec")
    BY <1>2, <1>4
  <2>3. QED BY <1>1, <1>4, <2>1, <2>2, FinalizingRests
<1>5. ASSUME Next1("spec") \/ Next1("from_instance") \/ Next1("from_conversion")
      PROVE  operation \in DOMAIN nodes /\ nodes[operation].outputs = <<>> /\ nodes[operation].kind = "op"
  <2>1. operation \in DOMAIN nodes /\ nodes[operation].outputs = <<>>
    BY <1>2, <1>5 DEF Asking, Reads
  <2>2. operation # 0
    BY <1>1, <2>1, Facts, Domains
  <2>3. QED BY <2>1, <2>2 DEF Locals
<1>6. ASSUME NEW ref, NEW name, Fed(operation, ref, name), Steady, nodes[operation].kind = "op"
      PROVE  Resting
  <2>1. \A m \in DOMAIN nodes : nodes[m].kind = "instance" => m # operation
    BY <1>6
  <2>2. QED BY <1>6, <2>1 DEF Resting, Fed
<1>7. CASE Next1("spec") /\ AddNodeInputSpec(operation, Arg)
  <2>1. Arg \in Names
    BY <1>1, <1>2, <1>7, CallTypes, CallFields, NameTypes DEF Arg
  <2>2. Builds(operation) /\ ConnectInput(operation, Unconnected, Arg) /\ Unconnected \in Reference
    BY <1>7, RefType DEF AddNodeInputSpec
  <2>3. Steady /\ Fed(operation, Unconnected, Arg)
    BY <1>1, <1>5, <1>7, <2>1, <2>2, Feeding
  <2>4. QED BY <1>5, <1>6, <1>7, <2>3
<1>8. CASE \/ /\ Next1("from_instance")
              /\ AddNodeInput(operation, Ref(instance, Len(nodes[instance].outputs)))
           \/ Next1("from_conversion") /\ AddNodeInput(operation, Ref(instance, 1))
  <2>1. PICK p, ref : /\ ref = Ref(instance, p) /\ p \in {1, Len(nodes[instance].outputs)}
                      /\ AddNodeInput(operation, ref)
    BY <1>8
  <2>2. /\ Builds(operation) /\ Existing(ref) /\ ConnectInput(operation, ref, NoName)
        /\ NoName \in Names
    BY <2>1, NameTypes DEF AddNodeInput
  <2>3. ref \in Reference
    <3>1. CASE ref = Unconnected
      BY <3>1, RefType
    <3>2. CASE ref # Unconnected
      <4>1. ref.node = instance
        BY <2>1 DEF Ref
      <4>2. instance \in DOMAIN nodes
        BY <2>2, <3>2, <4>1 DEF Existing
      <4>3. instance \in Nat /\ p \in Nat
        BY <1>1, <2>1, <4>2, Facts, Domains DEF Specs
      <4>4. QED BY <2>1, <4>3, RefType
    <3>3. QED BY <3>1, <3>2
  <2>4. Steady /\ Fed(operation, ref, NoName)
    BY <1>1, <1>5, <1>8, <2>2, <2>3, Feeding
  <2>5. ~Next1("spec")
    BY <1>2, <1>8
  <2>6. QED BY <1>5, <1>6, <1>8, <2>4, <2>5
<1>9. CASE /\ CallInput /\ ~Next1("finalize") /\ ~Next1("spec")
           /\ ~Next1("from_instance") /\ ~Next1("from_conversion")
  <2>1. Next1("instance_spec") \/ Next1("instance_open") \/ Next1("instance_input")
    BY <1>9 DEF CallInput
  <2>2. QED BY <1>2, <2>1 DEF InputWork
<1>10. QED
  <2>1. CASE CallInput
    <3>1. \/ Next1("finalize") /\ FinalizeNodeInput(instance)
          \/ Next1("spec") /\ AddNodeInputSpec(operation, Arg)
          \/ /\ Next1("from_instance")
             /\ AddNodeInput(operation, Ref(instance, Len(nodes[instance].outputs)))
          \/ Next1("from_conversion") /\ AddNodeInput(operation, Ref(instance, 1))
          \/ /\ ~Next1("finalize") /\ ~Next1("spec")
             /\ ~Next1("from_instance") /\ ~Next1("from_conversion")
      BY <1>2, <2>1 DEF CallInput
    <3>2. QED BY <1>4, <1>7, <1>8, <1>9, <2>1, <3>1
  <2>2. QED BY <1>3, <2>1

-----------------------------------------------------------------------------
(* The steps that visit.                                                   *)

(* Nothing is left of the newest instance when its ports are visited.      *)
LEMMA IdleFacts ==
  ASSUME calls = <<>>
  PROVE  ~Working /\ ~Next1("instance")
BY DEF Working, Next1

LEMMA IdlePlacement ==
  ASSUME IInv, IInv', Placement, Idle, UNCHANGED lowerVars, Resting
  PROVE  Placement'
<1>1. /\ calls = <<>> /\ calls' = <<>> /\ UNCHANGED <<placed, ports, instance>>
      /\ calls' \in Seq(CallType)
  BY DEF Idle, lowerVars
<1>2. ~Working /\ ~Next1("instance") /\ ~Working'
  BY <1>1, IdleFacts DEF Working
<1>3. \A k \in DOMAIN calls' : FALSE
  BY <1>1
<1>4. Asking' /\ AskedFirst'
  BY <1>3 DEF Asking, AskedFirst
<1>5. InPlace' /\ InProgress'
  BY <1>1, <1>2, <1>3, QuietPlacement DEF Placement
<1>6. QED BY <1>4, <1>5 DEF Placement

LEMMA ProcessPlacement ==
  ASSUME IInv, IInv', Placement, NEW p \in Processes, VisitProcess(p)
  PROVE  Placement'
<1>1. /\ calls = <<>> /\ UNCHANGED <<nodes, inputSpecs, placed, ports, instance>>
  BY DEF VisitProcess, Visiting, Idle, tigVars
<1>2. PICK q : q = ProcessCalls(p)
  OBVIOUS
<1>3. /\ calls' = q /\ q \in Seq(CallType) /\ WellAsked(q)
      /\ \A k \in DOMAIN q : q[k].call \notin InputWork
  BY <1>2, Processed, ProcessAsks DEF VisitProcess
<1>4. ~Working /\ ~Next1("instance") /\ ~Working'
  BY <1>1, <1>3, IdleFacts DEF Working
<1>5. Asking' /\ AskedFirst' /\ \A k \in DOMAIN calls' : calls'[k].call # "instance"
  BY <1>3, WellAskedCalls
<1>6. Resting
  BY <1>1, StillUnmoved, UnmovedRests
<1>7. InPlace' /\ InProgress'
  BY <1>1, <1>3, <1>4, <1>5, <1>6, QuietPlacement DEF Placement
<1>8. QED BY <1>5, <1>7 DEF Placement

(* An instance is begun when the one before it has all its inputs.         *)
LEMMA InstancePlacement ==
  ASSUME IInv, IInv', Placement, NEW i \in Instances, VisitInstance(i)
  PROVE  Placement'
<1>1. PICK ins, outs, this, len : /\ ins = i.ins /\ outs = i.outs /\ len = Len(placed)
                                  /\ this = [node |-> Len(nodes) + 1, ins |-> ins]
  OBVIOUS
<1>2. /\ calls = <<>> /\ ports = <<>> /\ UNCHANGED <<nodes, inputSpecs, operation, instance>>
      /\ calls' = <<Call("instance", NoName)>> /\ ports' = InstancePorts(i)
      /\ placed' = Append(placed, this)
  BY <1>1 DEF VisitInstance, Visiting, Idle, tigVars
<1>3. ~Working /\ ~Next1("instance")
  BY <1>2, IdleFacts
<1>4. /\ Len(nodes) \in Nat /\ DOMAIN nodes = 1..Len(nodes)
      /\ ins \in Seq(Connection) /\ Len(ins) \in Nat /\ DOMAIN ins = 1..Len(ins)
      /\ PortsListed(ports', ins, outs)
  <2>1. PICK q : q = InstancePorts(i)
    OBVIOUS
  <2>2. PortsListed(q, i.ins, i.outs)
    BY <2>1, InstancePortList
  <2>3. PortsListed(ports', ins, outs)
    BY <1>1, <1>2, <2>1, <2>2
  <2>4. ins \in Seq(Connection)
    BY <2>3 DEF PortsListed
  <2>5. QED BY <2>3, <2>4, Facts, Domains, Elements
<1>5. this \in Placings /\ this.node = Len(nodes) + 1 /\ this.ins = ins
  BY <1>1, <1>4 DEF Placings
<1>6. /\ placed \in Seq(Placings) /\ len \in Nat /\ DOMAIN placed = 1..len
      /\ placed' \in Seq(Placings) /\ Len(placed') = len + 1 /\ DOMAIN placed' = 1..(len + 1)
      /\ \A j \in DOMAIN placed : placed'[j] = placed[j]
      /\ placed'[len + 1] = this
  BY <1>1, <1>2, <1>5, Elements, Appended DEF Placement, InPlace
<1>7. PICK c : c = Call("instance", NoName)
  OBVIOUS
<1>8. /\ c.call = "instance" /\ calls' = <<c>>
      /\ DOMAIN calls' = {1} /\ calls'[1] = c /\ Len(calls') = 1 /\ calls' # <<>>
      /\ Head(calls') = c
  BY <1>2, <1>7 DEF Call
<1>9. Asking' /\ AskedFirst' /\ ~Working' /\ Next1("instance")'
  BY <1>8 DEF Asking, AskedFirst, Reads, Working, InputWork, Next1
<1>10. ASSUME NEW j \in DOMAIN placed, NEW n, NEW old, n = placed[j].node, old = placed[j].ins
       PROVE  /\ Fitted(n, old) /\ Fitted(n, old)' /\ n < this.node
              /\ Len(nodes'[n].inputs) = Len(old)
  <2>1. Fitted(n, old) /\ (j # Len(placed) => Len(nodes[n].inputs) = Len(old))
    BY <1>3, <1>10 DEF Placement, InPlace, Begun
  <2>2. Fitted(n, old)'
    BY <1>2, <2>1 DEF Fitted, ConnectedTo
  <2>3. n \in DOMAIN nodes
    BY <2>1 DEF Fitted
  <2>4. n < this.node
    BY <1>4, <1>5, <2>3
  <2>5. CASE j = Len(placed)
    <3>1. PICK newest : newest = Newest
      OBVIOUS
    <3>2. placed # <<>> /\ newest = placed[j]
      BY <1>6, <2>5, <3>1 DEF Newest
    <3>3. Len(newest.ins) \in Nat /\ DOMAIN newest.ins = 1..Len(newest.ins)
      BY <3>1, <3>2, NewestFitted DEF Placement
    <3>4. Got = Len(nodes[n].inputs) /\ Got \in Nat
      BY <1>3, <1>10, <3>1, <3>2, InputsOfNewest DEF Placement
    <3>5. /\ Got <= Len(old)
          /\ \A k \in DOMAIN old : k > Got => k - Got \in DOMAIN ports
      BY <1>3, <1>10, <3>1, <3>2 DEF Placement, InProgress, Remaining, Offset
    <3>6. \A k \in DOMAIN old : k <= Got
      <4>1. DOMAIN ports = {}
        BY <1>2
      <4>2. QED BY <1>10, <3>2, <3>3, <3>4, <3>5, <4>1
    <3>7. Len(old) <= Got
      BY <1>10, <3>2, <3>3, <3>4, <3>6
    <3>8. QED BY <1>2, <1>10, <2>1, <2>2, <2>4, <3>2, <3>3, <3>4, <3>5, <3>7
  <2>6. CASE j # Len(placed)
    BY <1>2, <2>1, <2>2, <2>4, <2>6
  <2>7. QED BY <2>5, <2>6
<1>11. InPlace'
  <2>1. ASSUME NEW j \in DOMAIN placed', NEW l \in DOMAIN placed', j < l
        PROVE  placed'[j].node < placed'[l].node
    <3>1. CASE l = len + 1
      <4>1. j \in DOMAIN placed
        BY <1>6, <2>1, <3>1
      <4>2. placed[j].node < this.node
        BY <1>10, <4>1
      <4>3. QED BY <1>6, <3>1, <4>1, <4>2
    <3>2. CASE l # len + 1
      <4>1. j \in DOMAIN placed /\ l \in DOMAIN placed
        BY <1>6, <2>1, <3>2
      <4>2. placed[j].node < placed[l].node
        BY <2>1, <4>1 DEF Placement, InPlace
      <4>3. QED BY <1>6, <4>1, <4>2
    <3>3. QED BY <3>1, <3>2
  <2>2. ASSUME NEW j \in DOMAIN placed', Begun(j)', NEW n, NEW old,
               n = placed'[j].node, old = placed'[j].ins
        PROVE  Fitted(n, old)' /\ (j # Len(placed') => Len(nodes'[n].inputs) = Len(old))
    <3>1. j # Len(placed')
      BY <1>9, <2>2 DEF Begun
    <3>2. j \in DOMAIN placed
      BY <1>6, <2>2, <3>1
    <3>3. QED BY <1>6, <1>10, <2>2, <3>2
  <2>3. QED BY <1>6, <2>1, <2>2 DEF InPlace
<1>12. InProgress'
  <2>1. Newest' = this /\ placed' # <<>>
    BY <1>6 DEF Newest
  <2>2. Got' = 0 /\ Offset' = 0
    BY <1>9 DEF Got, Offset
  <2>3. /\ \A k \in DOMAIN ins : k > 0 => k - 0 \in DOMAIN ports' /\ ports'[k - 0] = Port("in", ins[k])
        /\ \A k \in DOMAIN ports' : ports'[k].port = "in" => k + 0 \in DOMAIN ins
    <3>1. ASSUME NEW k \in DOMAIN ins
          PROVE  k - 0 \in DOMAIN ports' /\ ports'[k - 0] = Port("in", ins[k])
      BY <1>4, <3>1 DEF PortsListed
    <3>2. ASSUME NEW k \in DOMAIN ports', ports'[k].port = "in"
          PROVE  k + 0 \in DOMAIN ins
      <4>1. k \in Nat
        BY <1>4, <3>2, Elements DEF PortsListed
      <4>2. k \in DOMAIN ins
        <5>1. \A x : Port("out", x).port = "out"
          BY DEF Port
        <5>2. QED BY <1>4, <3>2, <5>1 DEF PortsListed
      <4>3. QED BY <4>1, <4>2
    <3>3. QED BY <3>1, <3>2
  <2>4. Remaining'
    BY <1>4, <1>5, <1>9, <2>1, <2>2, <2>3 DEF Remaining
  <2>5. Newest'.node = Len(nodes') + 1 /\ Len(calls') = 1
    BY <1>2, <1>5, <1>8, <2>1
  <2>6. \A k \in DOMAIN calls' : k = 1
    BY <1>8
  <2>7. QED BY <1>9, <2>1, <2>4, <2>5, <2>6 DEF InProgress
<1>13. QED BY <1>9, <1>11, <1>12 DEF Placement

(* The next port: an input is going to be connected, or all of them are.   *)
LEMMA PortPlacement ==
  ASSUME IInv, IInv', Handlers, Placement, VisitPortConnection
  PROVE  Placement'
<1>1. PICK p, rest, q : p = Head(ports) /\ rest = Tail(ports) /\ q = PortCalls(p)
  OBVIOUS
<1>2. /\ calls = <<>> /\ ports # <<>> /\ calls' = q /\ ports' = rest
      /\ UNCHANGED <<nodes, inputSpecs, operation, instance, placed>>
  BY <1>1 DEF VisitPortConnection, tigVars
<1>3. /\ p \in PortType /\ p = ports[1] /\ 1 \in DOMAIN ports
      /\ \A k \in DOMAIN rest : k \in Nat /\ k >= 1 /\ k + 1 \in DOMAIN ports /\ rest[k] = ports[k + 1]
      /\ DOMAIN ports = 1..Len(ports) /\ DOMAIN rest = 1..Len(rest)
      /\ Len(ports) \in Nat /\ Len(rest) = Len(ports) - 1
  <2>1. ports \in Seq(PortType)
    BY DEF Handlers, LowerTypeOK
  <2>2. rest \in Seq(PortType) /\ Len(rest) = Len(ports) - 1
    BY <1>1, <1>2, <2>1
  <2>3. QED BY <1>1, <1>2, <2>1, <2>2, Rest, Elements
<1>4. q \in Seq(CallType) /\ WellAsked(q)
  BY <1>1, <1>3, CallsOfPorts, PortAsks
<1>5. IF p.port = "in" THEN q = InputCalls(p.conn) /\ \E k \in DOMAIN q : q[k].call \in InputWork
      ELSE \A k \in DOMAIN q : q[k].call \notin InputWork
  BY <1>1, <1>3, PortAsks
<1>6. Asking' /\ AskedFirst' /\ \A k \in DOMAIN calls' : calls'[k].call # "instance"
  BY <1>2, <1>4, WellAskedCalls
<1>7. ~Working /\ ~Next1("instance") /\ ~Next1("instance")'
  BY <1>2, <1>4, <1>6, IdleFacts, NoInstanceNext DEF Next1
<1>8. Resting
  BY <1>2, StillUnmoved, UnmovedRests
<1>9. placed # <<>>
  BY <1>2 DEF Placement, InProgress
<1>10. InPlace' /\ Got' = Got /\ Got \in Nat /\ Offset = Got
  BY <1>2, <1>7, <1>8, <1>9, RestingInPlace DEF Placement, Offset
<1>11. PICK newest, ins, got : newest = Newest /\ ins = newest.ins /\ got = Got
  OBVIOUS
<1>12. /\ ins \in Seq(Connection) /\ Len(ins) \in Nat /\ DOMAIN ins = 1..Len(ins)
  BY <1>9, <1>11, NewestFitted DEF Placement
<1>13. /\ got \in Nat /\ got <= Len(ins)
       /\ \A k \in DOMAIN ins : k > got => k - got \in DOMAIN ports /\ ports[k - got] = Port("in", ins[k])
       /\ \A k \in DOMAIN ports : ports[k].port = "in" => k + got \in DOMAIN ins
  BY <1>9, <1>10, <1>11 DEF Placement, InProgress, Remaining
<1>14. instance' = Newest'.node /\ Newest' = newest
  BY <1>2, <1>7, <1>9, <1>11 DEF Placement, InProgress, Newest
<1>15. CASE p.port = "in"
  <2>1. got + 1 \in DOMAIN ins /\ p = Port("in", ins[got + 1])
    <3>1. 1 + got \in DOMAIN ins
      BY <1>3, <1>13, <1>15
    <3>2. got + 1 \in DOMAIN ins /\ got + 1 > got /\ (got + 1) - got = 1
      BY <1>13, <3>1
    <3>3. QED BY <1>3, <1>13, <3>2
  <2>2. PICK c : c = ins[got + 1]
    OBVIOUS
  <2>3. c \in Connection /\ q = InputCalls(c)
    <3>1. p.conn = c
      BY <2>1, <2>2 DEF Port
    <3>2. QED BY <1>5, <1>12, <1>15, <2>1, <2>2, <3>1
  <2>4. Working' /\ Offset' = got + 1
    BY <1>2, <1>5, <1>10, <1>11, <1>15 DEF Working, Offset
  <2>5. InputRest(c)'
    BY <1>2, <2>3, Connections DEF InputRest, InputCalls
  <2>6. \A k \in DOMAIN ins : k > got + 1 =>
          k - (got + 1) \in DOMAIN rest /\ rest[k - (got + 1)] = Port("in", ins[k])
    <3>1. ASSUME NEW k \in DOMAIN ins, k > got + 1
          PROVE  k - (got + 1) \in DOMAIN rest /\ rest[k - (got + 1)] = Port("in", ins[k])
      <4>1. PICK l : l = k - (got + 1)
        OBVIOUS
      <4>2. l \in Nat /\ l >= 1 /\ k - got = l + 1 /\ k > got
        BY <1>12, <1>13, <3>1, <4>1
      <4>3. l + 1 \in DOMAIN ports /\ ports[l + 1] = Port("in", ins[k])
        BY <1>13, <3>1, <4>2
      <4>4. l \in DOMAIN rest
        BY <1>3, <4>2, <4>3
      <4>5. QED BY <1>3, <4>1, <4>3, <4>4
    <3>2. QED BY <3>1
  <2>7. \A k \in DOMAIN rest : rest[k].port = "in" => k + (got + 1) \in DOMAIN ins
    <3>1. ASSUME NEW k \in DOMAIN rest, rest[k].port = "in"
          PROVE  k + (got + 1) \in DOMAIN ins
      <4>1. k \in Nat /\ (k + 1) + got \in DOMAIN ins
        BY <1>3, <1>13, <3>1
      <4>2. (k + 1) + got = k + (got + 1)
        BY <1>13, <4>1
      <4>3. QED BY <4>1, <4>2
    <3>2. QED BY <3>1
  <2>8. got + 1 <= Len(ins)
    BY <1>12, <2>1
  <2>9. Remaining'
    BY <1>2, <1>11, <1>14, <2>2, <2>4, <2>5, <2>6, <2>7, <2>8 DEF Remaining
  <2>10. QED BY <1>2, <1>6, <1>7, <1>9, <1>10, <1>14, <2>9 DEF Placement, InProgress
<1>16. CASE p.port # "in"
  <2>1. ~Working' /\ Offset' = got
    BY <1>2, <1>5, <1>10, <1>11, <1>16 DEF Working, Offset
  <2>2. Len(ins) = got
    <3>1. ASSUME got + 1 \in DOMAIN ins
          PROVE  FALSE
      <4>1. got + 1 > got /\ (got + 1) - got = 1
        BY <1>13
      <4>2. p = Port("in", ins[got + 1])
        BY <1>3, <1>13, <3>1, <4>1
      <4>3. QED BY <1>16, <4>2 DEF Port
    <3>2. PICK len : len = Len(ins)
      OBVIOUS
    <3>3. got + 1 \notin 1..len
      BY <1>12, <3>1, <3>2
    <3>4. got \in Nat /\ len \in Nat /\ got <= len
      BY <1>12, <1>13, <3>2
    <3>5. len = got
      BY <3>3, <3>4
    <3>6. QED BY <3>2, <3>5
  <2>3. \A k \in DOMAIN ins : ~(k > got)
    BY <1>12, <1>13, <2>2
  <2>4. ASSUME NEW k \in DOMAIN rest, rest[k].port = "in"
        PROVE  k + got \in DOMAIN ins
    <3>1. k \in Nat /\ k >= 1 /\ (k + 1) + got \in DOMAIN ins
      BY <1>3, <1>13, <2>4
    <3>2. QED BY <1>12, <1>13, <3>1
  <2>5. Remaining'
    BY <1>2, <1>11, <1>13, <1>14, <2>1, <2>3, <2>4 DEF Remaining
  <2>6. QED BY <1>2, <1>6, <1>7, <1>9, <1>10, <1>14, <2>5 DEF Placement, InProgress
<1>17. QED BY <1>15, <1>16

-----------------------------------------------------------------------------
(* The steps that make a call.                                             *)

LEMMA HeadFacts ==
  ASSUME LowerInv, MakeCall
  PROVE  /\ IInv /\ Handlers /\ calls # <<>> /\ 1 \in DOMAIN calls /\ Head(calls) = calls[1]
         /\ UNCHANGED <<ports, placed>>
         /\ Next1("instance") <=> CallInstance
         /\ ~CallInstance => instance' = instance
         /\ ~Next1("output") => ~Clocking
<1>1. IInv /\ Handlers
  BY DEF LowerInv
<1>2. /\ calls # <<>> /\ 1 \in DOMAIN calls /\ Head(calls) = calls[1]
      /\ \A what : Next1(what) <=> calls[1].call = what
  BY <1>1, CallsLeft
<1>3. Next1("instance") <=> CallInstance
  <2>1. ASSUME Next1("instance"), ~CallInstance
        PROVE  FALSE
    <3>1. calls[1].call = "instance"
      BY <1>2, <2>1
    <3>2. \A what : what # "instance" => ~Next1(what)
      BY <1>2, <3>1
    <3>3. QED
      BY <2>1, <3>2 DEF MakeCall, CallOperation, CallTemporary, CallInput, CallOutput, CallFf
  <2>2. CallInstance => Next1("instance")
    BY DEF CallInstance
  <2>3. QED BY <2>1, <2>2
<1>4. ~CallInstance => instance' = instance
  BY DEF MakeCall, CallOperation, CallTemporary, CallInput, CallOutput, CallFf
<1>5. QED BY <1>1, <1>2, <1>3, <1>4 DEF MakeCall, Clocking

LEMMA NoInstanceLeft ==
  ASSUME LowerInv, Handlers', Placement, MakeCall
  PROVE  /\ calls' \in Seq(CallType) /\ \A k \in DOMAIN calls' : calls'[k].call # "instance"
         /\ ~Next1("instance")'
         /\ ~Working => ~Working'
<1>1. Handlers /\ calls' \in Seq(CallType)
  BY DEF LowerInv, Handlers, LowerTypeOK
<1>2. \A k \in DOMAIN calls' :
        /\ k \in Nat /\ k >= 1
        /\ \/ calls'[k].call = "ff"
           \/ \E l \in DOMAIN calls : l > 1 /\ calls'[k] = calls[l]
  <2>1. ASSUME NEW k \in DOMAIN calls'
        PROVE  \/ calls'[k].call = "ff"
               \/ \E l \in DOMAIN calls : l > 1 /\ calls'[k] = calls[l]
    <3>1. k \in Nat /\ k >= 1
      BY <1>1, <2>1, CallsLeft
    <3>2. CASE Clocking
      BY <1>1, <2>1, <3>2, CallsLeft
    <3>3. CASE ~Clocking
      <4>1. k + 1 \in DOMAIN calls /\ calls'[k] = calls[k + 1]
        BY <1>1, <2>1, <3>3, CallsLeft
      <4>2. k + 1 > 1
        BY <3>1
      <4>3. QED BY <4>1, <4>2
    <3>4. QED BY <3>2, <3>3
  <2>2. QED BY <1>1, <2>1, CallsLeft
<1>3. \A l \in DOMAIN calls : l > 1 => calls[l].call # "instance"
  <2>1. \A l \in DOMAIN calls : l \in Nat
    BY <1>1, CallsLeft
  <2>2. QED BY <2>1 DEF Placement, InProgress
<1>4. \A k \in DOMAIN calls' : calls'[k].call # "instance"
  BY <1>2, <1>3
<1>5. ~Next1("instance")'
  BY <1>1, <1>4, NoInstanceNext DEF Next1
<1>6. ~Working => ~Working'
  BY <1>2 DEF Working, InputWork
<1>7. QED BY <1>1, <1>4, <1>5, <1>6

(* The instance the handler is in is created.                              *)
LEMMA CreationPlacement ==
  ASSUME LowerInv, IInv', Handlers', Locals, Placement, MakeCall, CallInstance
  PROVE  InPlace' /\ InProgress'
<1>1. /\ IInv /\ Handlers /\ Next1("instance") /\ UNCHANGED <<ports, placed>> /\ calls[1].call = "instance"
  BY HeadFacts, CallsLeft DEF CallInstance
<1>2. PICK newest, new, last : newest = Newest /\ new = Len(nodes) + 1 /\ last = Len(placed)
  OBVIOUS
<1>3. /\ placed # <<>> /\ newest.node = new /\ Len(calls) = 1 /\ Remaining
  BY <1>1, <1>2 DEF Placement, InProgress
<1>4. /\ newest \in Placings /\ last \in DOMAIN placed /\ newest = placed[last]
      /\ newest.ins \in Seq(Connection)
      /\ placed \in Seq(Placings) /\ \A j \in DOMAIN placed : placed[j] \in Placings
  BY <1>2, <1>3, NewestFitted, Elements DEF Placement, InPlace
<1>5. /\ Unmoved /\ new \in DOMAIN nodes' /\ nodes'[new].kind = "instance"
      /\ nodes'[new].inputs = <<>>
  <2>1. CreateNode(Plain("instance", <<>>, <<>>), <<>>)
    BY DEF CallInstance, CreateInstance
  <2>2. QED BY <1>1, <1>2, <2>1, EmptyNode
<1>6. Resting /\ Steady /\ instance' = new
  BY <1>2, <1>5, UnmovedRests DEF Resting, CallInstance
<1>7. ~Working
  <2>1. \A k \in DOMAIN calls : k = 1
    <3>1. DOMAIN calls = 1..Len(calls)
      BY <1>1, Elements DEF Handlers, LowerTypeOK
    <3>2. QED BY <1>3, <3>1
  <2>2. QED BY <1>1, <2>1 DEF Working, InputWork
<1>8. /\ ~Working' /\ ~Next1("instance")'
      /\ \A k \in DOMAIN calls' : calls'[k].call # "instance"
  BY <1>7, NoInstanceLeft
<1>9. ASSUME NEW j \in DOMAIN placed, NEW n, NEW ins, n = placed[j].node, ins = placed[j].ins
      PROVE  Fitted(n, ins)' /\ (j # last => Len(nodes'[n].inputs) = Len(ins))
  <2>1. CASE j = last
    <3>1. n = new /\ DOMAIN nodes'[n].inputs = {}
      BY <1>3, <1>4, <1>5, <1>9, <2>1
    <3>2. QED BY <1>5, <2>1, <3>1 DEF Fitted
  <2>2. CASE j # last
    <3>1. Fitted(n, ins) /\ Len(nodes[n].inputs) = Len(ins)
      BY <1>2, <1>9, <2>2 DEF Placement, InPlace, Begun
    <3>2. n \in DOMAIN nodes /\ nodes[n].kind = "instance"
      BY <3>1 DEF Fitted
    <3>3. nodes'[n].inputs = nodes[n].inputs
      BY <1>5, <3>2 DEF Unmoved
    <3>4. placed[j] \in Placings
      BY <1>4, <1>9
    <3>5. ins \in Seq(Connection)
      BY <1>9, <3>4 DEF Placings
    <3>6. Fitted(n, ins)'
      BY <1>1, <1>6, <3>1, <3>3, <3>5, StillFitted
    <3>7. QED BY <3>1, <3>3, <3>6
  <2>3. QED BY <2>1, <2>2
<1>10. InPlace'
  BY <1>1, <1>2, <1>9 DEF Placement, InPlace
<1>11. Newest' = newest /\ placed' # <<>>
  BY <1>1, <1>2, <1>3 DEF Newest
<1>12. Got = 0 /\ Got' = 0 /\ Offset = 0 /\ Offset' = 0
  <2>1. Len(nodes'[new].inputs) = 0
    BY <1>5
  <2>2. Got' = 0
    BY <1>3, <1>8, <1>11, <2>1 DEF Got
  <2>3. QED BY <1>1, <1>7, <1>8, <2>2 DEF Got, Offset
<1>13. Remaining'
  BY <1>1, <1>2, <1>3, <1>8, <1>11, <1>12 DEF Remaining
<1>14. QED BY <1>3, <1>6, <1>8, <1>10, <1>11, <1>13 DEF InProgress

(* A call for the newest instance, or no input, that is none of those      *)
(* which connect an input.                                                 *)
LEMMA OtherPlacement ==
  ASSUME LowerInv, IInv', Handlers', Locals, Placement, MakeCall, ~CallInstance, ~Working
  PROVE  InPlace' /\ InProgress'
<1>1. /\ IInv /\ 1 \in DOMAIN calls /\ Head(calls) = calls[1] /\ ~Next1("instance")
      /\ UNCHANGED <<ports, placed, instance>>
  BY HeadFacts
<1>2. Head(calls).call \notin InputWork
  BY <1>1 DEF Working
<1>3. Resting
  BY <1>2, CallsRest DEF Placement
<1>4. QED BY <1>1, <1>3, NoInstanceLeft, QuietPlacement DEF Placement

(* The calls before the one that connects an input get its operation ready.*)
LEMMA RestAdvances ==
  ASSUME LowerInv, Locals, Asking, MakeCall, NEW c \in Connection, InputRest(c),
         Head(calls).call \notin InputWork
  PROVE  InputRest(c)' /\ Working'
<1>1. PICK a1, a2, a3, a4, a5, open, spec :
        /\ a1 = Call("temporary", NoName) /\ a2 = Call("operation", NoName)
        /\ a3 = Call("spec", c.name) /\ a4 = Call("temporary_output", NoName)
        /\ a5 = Call("instance_input", NoName)
        /\ open = Call("instance_open", NoName) /\ spec = Call("instance_spec", c.name)
  OBVIOUS
<1>2. /\ a1.call = "temporary" /\ a2.call = "operation" /\ a3.call = "spec" /\ a3.name = c.name
      /\ a4.call = "temporary_output" /\ a5.call = "instance_input"
      /\ open.call = "instance_open" /\ spec.call = "instance_spec"
  BY <1>1 DEF Call
<1>3. /\ IInv /\ Handlers /\ calls # <<>> /\ 1 \in DOMAIN calls /\ Head(calls) = calls[1]
      /\ \A what : Next1(what) <=> calls[1].call = what
  BY HeadFacts, CallsLeft
<1>4. c.how = "expr"
  <2>1. CASE c.how = "open"
    <3>1. calls = <<open>>
      BY <1>1, <2>1 DEF InputRest
    <3>2. Head(calls) = open
      BY <3>1
    <3>3. QED BY <1>2, <3>2 DEF InputWork
  <2>2. CASE c.how = "name"
    <3>1. calls = <<spec>>
      BY <1>1, <2>2 DEF InputRest
    <3>2. Head(calls) = spec
      BY <3>1
    <3>3. QED BY <1>2, <3>2 DEF InputWork
  <2>3. QED BY <2>1, <2>2, Connections
<1>5. \/ calls = <<a1, a2, a3, a4, a5>>
      \/ calls = <<a2, a3, a4, a5>>
      \/ calls = <<a3, a4, a5>> /\ inputSpecs[operation] = <<>>
      \/ calls = <<a4, a5>> /\ inputSpecs[operation] = <<c.name>>
  <2>1. calls # <<a5>>
    <3>1. ASSUME calls = <<a5>>
          PROVE  FALSE
      <4>1. Head(calls) = a5
        BY <3>1
      <4>2. QED BY <1>2, <4>1 DEF InputWork
    <3>2. QED BY <3>1
  <2>2. InputCalls(c) = <<a1, a2, a3, a4, a5>>
    BY <1>1, <1>4 DEF InputCalls
  <2>3. QED BY <1>1, <1>4, <2>1, <2>2 DEF InputRest
<1>6. ~Next1("output") => calls' = Tail(calls)
  BY <1>3, HeadFacts, CallsLeft
<1>7. ASSUME NEW q, calls' = q, NEW k \in DOMAIN q, q[k] = a5
      PROVE  Working'
  BY <1>2, <1>7 DEF Working, InputWork
<1>8. CASE calls = <<a1, a2, a3, a4, a5>>
  <2>1. calls[1] = a1
    BY <1>8
  <2>2. calls' = <<a2, a3, a4, a5>>
    <3>1. calls' = Tail(calls)
      BY <1>2, <1>3, <1>6, <2>1
    <3>2. QED BY <1>8, <3>1
  <2>3. InputRest(c)'
    BY <1>1, <1>4, <2>2 DEF InputRest
  <2>4. PICK q : q = <<a2, a3, a4, a5>>
    OBVIOUS
  <2>5. 4 \in DOMAIN q /\ q[4] = a5
    BY <2>4
  <2>6. QED BY <1>7, <2>2, <2>3, <2>4, <2>5
<1>9. CASE calls = <<a2, a3, a4, a5>>
  <2>1. calls[1] = a2
    BY <1>9
  <2>2. calls' = <<a3, a4, a5>>
    <3>1. calls' = Tail(calls)
      BY <1>2, <1>3, <1>6, <2>1
    <3>2. QED BY <1>9, <3>1
  <2>3. \A what : Next1(what) => what = "operation"
    BY <1>2, <1>3, <2>1
  <2>4. CallOperation
    BY <2>3 DEF MakeCall, CallInstance, CallTemporary, CallInput, CallOutput, CallFf
  <2>5. CreateNode(Plain("op", <<>>, <<>>), <<>>) /\ operation' = Len(nodes) + 1
    BY <2>4 DEF CallOperation, CreateOperation
  <2>6. inputSpecs'[operation'] = <<>>
    BY <1>3, <2>5, EmptyNode
  <2>7. InputRest(c)'
    BY <1>1, <1>4, <2>2, <2>6 DEF InputRest
  <2>8. PICK q : q = <<a3, a4, a5>>
    OBVIOUS
  <2>9. 3 \in DOMAIN q /\ q[3] = a5
    BY <2>8
  <2>10. QED BY <1>7, <2>2, <2>7, <2>8, <2>9
<1>10. CASE calls = <<a3, a4, a5>> /\ inputSpecs[operation] = <<>>
  <2>1. calls[1] = a3
    BY <1>10
  <2>2. calls' = <<a4, a5>>
    <3>1. calls' = Tail(calls)
      BY <1>2, <1>3, <1>6, <2>1
    <3>2. QED BY <1>10, <3>1
  <2>3. \A what : Next1(what) => what = "spec"
    BY <1>2, <1>3, <2>1
  <2>4. operation' = operation /\ Next1("spec") /\ Arg = c.name
    BY <1>2, <1>3, <2>1, <2>3
       DEF MakeCall, CallOperation, CallInstance, CallTemporary, CallInput, CallOutput, CallFf, Arg
  <2>5. Fed(operation, Unconnected, Arg)
    BY <2>4, CallsRest
  <2>6. inputSpecs'[operation'] = <<c.name>>
    BY <1>10, <2>4, <2>5 DEF Fed
  <2>7. InputRest(c)'
    BY <1>1, <1>4, <2>2, <2>6 DEF InputRest
  <2>8. PICK q : q = <<a4, a5>>
    OBVIOUS
  <2>9. 2 \in DOMAIN q /\ q[2] = a5
    BY <2>8
  <2>10. QED BY <1>7, <2>2, <2>7, <2>8, <2>9
<1>11. CASE calls = <<a4, a5>> /\ inputSpecs[operation] = <<c.name>>
  <2>1. calls[1] = a4
    BY <1>11
  <2>2. calls' = <<a5>>
    <3>1. calls' = Tail(calls)
      BY <1>2, <1>3, <1>6, <2>1
    <3>2. QED BY <1>11, <3>1
  <2>3. \A what : Next1(what) => what = "temporary_output"
    BY <1>2, <1>3, <2>1
  <2>4. CallOutput /\ AddNodeOutput(operation, Tmp)
    BY <2>3 DEF MakeCall, CallOperation, CallInstance, CallTemporary, CallInput, CallOutput, CallFf
  <2>5. operation' = operation /\ Builds(operation)
    BY <2>4 DEF CallOutput, AddNodeOutput, AddFirstDriver, AddSecondDriver, AddLaterDriver
  <2>6. operation \in DOMAIN nodes /\ operation # 0
    BY <1>3, <2>5, Facts, BuildsNode
  <2>7. SameReads
    <3>1. ~Next1("spec") /\ ~Next1("from_instance") /\ ~Next1("from_conversion")
      BY <2>3
    <3>2. QED BY <3>1, CallsRest
  <2>8. inputSpecs'[operation'] = <<c.name>>
    BY <1>11, <2>5, <2>6, <2>7 DEF SameReads, Locals
  <2>9. InputRest(c)'
    BY <1>1, <1>4, <2>2, <2>8 DEF InputRest
  <2>10. PICK q : q = <<a5>>
    OBVIOUS
  <2>11. 1 \in DOMAIN q /\ q[1] = a5
    BY <2>10
  <2>12. QED BY <1>7, <2>2, <2>9, <2>10, <2>11
<1>12. QED BY <1>5, <1>8, <1>9, <1>10, <1>11

(* A connection is in progress: for input Got + 1 of the newest instance.  *)
LEMMA WorkingFacts ==
  ASSUME LowerInv, Placement, MakeCall, Working, NEW newest, newest = Newest
  PROVE  /\ placed # <<>> /\ ~CallInstance /\ ~Next1("instance") /\ instance' = instance
         /\ instance = newest.node
         /\ Got \in Nat /\ Offset = Got + 1 /\ Offset \in DOMAIN newest.ins
         /\ newest.ins[Offset] \in Connection /\ InputRest(newest.ins[Offset])
<1>1. /\ IInv /\ Handlers /\ (Next1("instance") <=> CallInstance)
      /\ ~CallInstance => instance' = instance
  BY HeadFacts
<1>2. placed # <<>>
  BY DEF Placement, InProgress
<1>3. ~Next1("instance")
  <2>1. ASSUME Next1("instance")
        PROVE  FALSE
    <3>1. Len(calls) = 1 /\ calls[1].call = "instance"
      BY <1>1, <1>2, <2>1, CallsLeft DEF Placement, InProgress
    <3>2. DOMAIN calls = 1..Len(calls)
      BY <1>1, Elements DEF Handlers, LowerTypeOK
    <3>3. QED BY <3>1, <3>2 DEF Working, InputWork
  <2>2. QED BY <2>1
<1>4. Got \in Nat /\ Offset = Got + 1
  BY <1>1, <1>2, <1>3, InputsOfNewest DEF Placement, Offset
<1>5. newest.ins \in Seq(Connection) /\ Len(newest.ins) \in Nat /\ DOMAIN newest.ins = 1..Len(newest.ins)
  BY <1>2, NewestFitted DEF Placement
<1>6. Offset <= Len(newest.ins) /\ InputRest(newest.ins[Offset]) /\ instance = newest.node
  BY <1>2, <1>3 DEF Placement, InProgress, Remaining
<1>7. Offset \in DOMAIN newest.ins
  BY <1>4, <1>5, <1>6
<1>8. newest.ins[Offset] \in Connection
  BY <1>5, <1>7, Elements
<1>9. QED BY <1>1, <1>2, <1>3, <1>4, <1>6, <1>7, <1>8

LEMMA PreparingPlacement ==
  ASSUME LowerInv, IInv', Handlers', Locals, Placement, MakeCall, Working,
         Head(calls).call \notin InputWork
  PROVE  InPlace' /\ InProgress'
<1>1. PICK newest : newest = Newest
  OBVIOUS
<1>2. /\ placed # <<>> /\ ~Next1("instance") /\ instance' = instance /\ instance = newest.node
      /\ Got \in Nat /\ Offset = Got + 1 /\ Offset \in DOMAIN newest.ins
      /\ newest.ins[Offset] \in Connection /\ InputRest(newest.ins[Offset])
  BY <1>1, WorkingFacts
<1>3. PICK c, offset : c = newest.ins[Offset] /\ offset = Offset
  OBVIOUS
<1>4. InputRest(c)' /\ Working'
  BY <1>2, <1>3, RestAdvances DEF Placement
<1>5. Resting /\ IInv /\ UNCHANGED <<ports, placed>>
  BY CallsRest, HeadFacts DEF Placement
<1>6. ~Next1("instance")' /\ \A k \in DOMAIN calls' : calls'[k].call # "instance"
  BY NoInstanceLeft
<1>7. InPlace' /\ Got' = Got
  BY <1>2, <1>5, <1>6, RestingInPlace DEF Placement
<1>8. Offset' = offset /\ Newest' = newest
  BY <1>1, <1>2, <1>3, <1>4, <1>5, <1>7 DEF Offset, Newest
<1>9. Remaining
  BY <1>2 DEF Placement, InProgress
<1>10. Remaining'
  BY <1>1, <1>3, <1>4, <1>5, <1>8, <1>9 DEF Remaining
<1>11. QED BY <1>2, <1>5, <1>6, <1>7, <1>8, <1>10 DEF InProgress

(* The call that connects an input, the last for its port.                 *)
LEMMA ConnectingCall ==
  ASSUME LowerInv, MakeCall, NEW c \in Connection, InputRest(c), Head(calls).call \in InputWork
  PROVE  /\ DOMAIN calls' = {}
         /\ Builds(instance)
         /\ \E ref \in Reference, name \in Names :
              /\ ConnectInput(instance, ref, name)
              /\ c.how = "name" => name = c.name
              /\ c.how # "name" => name = NoName
              /\ c.how = "open" => ref = Unconnected
              /\ c.how = "expr" =>
                   /\ ref # Unconnected /\ ref.node = operation /\ Existing(ref)
                   /\ inputSpecs[operation] = <<c.name>>
<1>1. PICK a1, a2, a3, a4, a5, open, spec :
        /\ a1 = Call("temporary", NoName) /\ a2 = Call("operation", NoName)
        /\ a3 = Call("spec", c.name) /\ a4 = Call("temporary_output", NoName)
        /\ a5 = Call("instance_input", NoName)
        /\ open = Call("instance_open", NoName) /\ spec = Call("instance_spec", c.name)
  OBVIOUS
<1>2. /\ a1.call = "temporary" /\ a2.call = "operation" /\ a3.call = "spec"
      /\ a4.call = "temporary_output" /\ a5.call = "instance_input"
      /\ open.call = "instance_open" /\ spec.call = "instance_spec" /\ spec.name = c.name
  BY <1>1 DEF Call
<1>3. /\ IInv /\ Handlers /\ calls # <<>> /\ 1 \in DOMAIN calls /\ Head(calls) = calls[1]
      /\ \A what : Next1(what) <=> calls[1].call = what
  BY HeadFacts, CallsLeft
<1>4. ~Next1("output") => calls' = Tail(calls)
  BY <1>3, HeadFacts, CallsLeft
<1>5. \/ c.how = "open" /\ calls = <<open>>
      \/ c.how = "name" /\ calls = <<spec>>
      \/ c.how = "expr" /\ calls = <<a5>> /\ inputSpecs[operation] = <<c.name>>
  <2>1. CASE c.how = "open"
    BY <1>1, <2>1 DEF InputRest
  <2>2. CASE c.how = "name"
    BY <1>1, <2>2 DEF InputRest
  <2>3. CASE c.how = "expr"
    <3>1. InputCalls(c) = <<a1, a2, a3, a4, a5>>
      BY <1>1, <2>3 DEF InputCalls
    <3>2. \A q \in {<<a1, a2, a3, a4, a5>>, <<a2, a3, a4, a5>>, <<a3, a4, a5>>, <<a4, a5>>} :
            q[1] \in {a1, a2, a3, a4}
      OBVIOUS
    <3>3. \A x \in {a1, a2, a3, a4} : x.call \notin InputWork
      BY <1>2 DEF InputWork
    <3>4. calls \notin {<<a1, a2, a3, a4, a5>>, <<a2, a3, a4, a5>>, <<a3, a4, a5>>, <<a4, a5>>}
      BY <1>3, <3>2, <3>3
    <3>5. QED BY <1>1, <2>3, <3>1, <3>4 DEF InputRest
  <2>4. QED BY <2>1, <2>2, <2>3, Connections
<1>6. ASSUME NEW x, calls = <<x>>, x.call # "output"
      PROVE  DOMAIN calls' = {} /\ \A what : Next1(what) <=> x.call = what
  <2>1. calls[1] = x
    BY <1>6
  <2>2. calls' = <<>>
    BY <1>3, <1>4, <1>6, <2>1
  <2>3. QED BY <1>3, <2>1, <2>2
<1>7. CASE c.how = "open" /\ calls = <<open>>
  <2>1. DOMAIN calls' = {} /\ \A what : Next1(what) => what = "instance_open"
    BY <1>2, <1>6, <1>7
  <2>2. AddNodeInput(instance, Unconnected)
    BY <2>1 DEF MakeCall, CallOperation, CallInstance, CallTemporary, CallInput, CallOutput, CallFf
  <2>3. Builds(instance) /\ ConnectInput(instance, Unconnected, NoName)
    BY <2>2 DEF AddNodeInput
  <2>4. QED BY <1>7, <2>1, <2>3, RefType, NameTypes
<1>8. CASE c.how = "name" /\ calls = <<spec>>
  <2>1. DOMAIN calls' = {} /\ \A what : Next1(what) => what = "instance_spec"
    BY <1>2, <1>6, <1>8
  <2>2. AddNodeInputSpec(instance, Arg)
    BY <2>1 DEF MakeCall, CallOperation, CallInstance, CallTemporary, CallInput, CallOutput, CallFf
  <2>3. Arg = c.name /\ c.name \in Names
    <3>1. Head(calls) = spec
      BY <1>8
    <3>2. QED BY <1>2, <1>8, <3>1, Connections, NameTypes DEF Arg
  <2>4. Builds(instance) /\ ConnectInput(instance, Unconnected, c.name)
    BY <2>2, <2>3 DEF AddNodeInputSpec
  <2>5. QED BY <1>8, <2>1, <2>3, <2>4, RefType
<1>9. CASE c.how = "expr" /\ calls = <<a5>> /\ inputSpecs[operation] = <<c.name>>
  <2>1. DOMAIN calls' = {} /\ \A what : Next1(what) => what = "instance_input"
    BY <1>2, <1>6, <1>9
  <2>2. AddNodeInput(instance, Ref(operation, 1))
    BY <2>1 DEF MakeCall, CallOperation, CallInstance, CallTemporary, CallInput, CallOutput, CallFf
  <2>3. PICK ref : ref = Ref(operation, 1)
    OBVIOUS
  <2>4. Builds(instance) /\ Existing(ref) /\ ConnectInput(instance, ref, NoName)
    BY <2>2, <2>3 DEF AddNodeInput
  <2>5. ref \in Reference /\ ref # Unconnected /\ ref.node = operation
    <3>1. operation \in Nat
      BY <1>3 DEF Handlers, LowerTypeOK
    <3>2. ref \in Reference /\ ref.node = operation /\ ref.port = 1
      BY <2>3, <3>1, RefType
    <3>3. Unconnected.port = 0
      BY RefType
    <3>4. QED BY <3>2, <3>3
  <2>6. QED BY <1>9, <2>1, <2>4, <2>5, NameTypes
<1>10. QED BY <1>5, <1>7, <1>8, <1>9

LEMMA ConnectingPlacement ==
  ASSUME LowerInv, IInv', Handlers', Locals, Placement, MakeCall, Working,
         Head(calls).call \in InputWork
  PROVE  InPlace' /\ InProgress'
<1>1. PICK newest : newest = Newest
  OBVIOUS
<1>2. /\ placed # <<>> /\ ~Next1("instance") /\ instance' = instance /\ instance = newest.node
      /\ Got \in Nat /\ Offset = Got + 1 /\ Offset \in DOMAIN newest.ins
      /\ newest.ins[Offset] \in Connection /\ InputRest(newest.ins[Offset])
  BY <1>1, WorkingFacts
<1>3. PICK c, got, n : c = newest.ins[Offset] /\ got = Got /\ n = newest.node
  OBVIOUS
<1>4. DOMAIN calls' = {} /\ Builds(n)
  BY <1>2, <1>3, ConnectingCall
<1>5. PICK ref \in Reference, name \in Names :
        /\ ConnectInput(n, ref, name)
        /\ c.how = "name" => name = c.name
        /\ c.how # "name" => name = NoName
        /\ c.how = "open" => ref = Unconnected
        /\ c.how = "expr" =>
             /\ ref # Unconnected /\ ref.node = operation /\ Existing(ref)
             /\ inputSpecs[operation] = <<c.name>>
  BY <1>2, <1>3, ConnectingCall
<1>6. /\ IInv /\ UNCHANGED <<ports, placed>> /\ ~Next1("instance")' /\ ~Working'
      /\ \A k \in DOMAIN calls' : calls'[k].call # "instance"
  BY <1>4, HeadFacts, NoInstanceLeft DEF Working
<1>7. /\ n \in DOMAIN nodes /\ nodes[n].kind = "instance"
      /\ got = Len(nodes[n].inputs) /\ got \in Nat /\ DOMAIN nodes[n].inputs = 1..got
  BY <1>1, <1>2, <1>3, <1>6, InputsOfNewest DEF Placement
<1>8. Steady /\ Fed(n, ref, name)
  BY <1>4, <1>5, <1>6, <1>7, Feeding
<1>9. /\ Len(nodes'[n].inputs) = got + 1 /\ DOMAIN nodes'[n].inputs = 1..(got + 1)
      /\ nodes'[n].inputs[got + 1] = ref
      /\ DOMAIN inputSpecs'[n] = 1..(got + 1) /\ inputSpecs'[n][got + 1] = name
  <2>1. PICK ins, specs : ins = nodes[n].inputs /\ specs = inputSpecs[n]
    OBVIOUS
  <2>2. ins \in Seq(Reference) /\ specs \in Seq(Names) /\ Len(ins) = got /\ Len(specs) = got
    BY <1>6, <1>7, <1>8, <2>1, Facts, Domains DEF Fed, Specs
  <2>3. nodes'[n].inputs = Append(ins, ref) /\ inputSpecs'[n] = Append(specs, name)
    BY <1>8, <2>1 DEF Fed
  <2>4. QED BY <2>2, <2>3, Appended
<1>10. ConnectedTo(n, got + 1, c)'
  <2>1. CASE c.how = "name"
    BY <1>5, <1>7, <1>9, <2>1 DEF ConnectedTo
  <2>2. CASE c.how = "open"
    BY <1>5, <1>9, <2>2 DEF ConnectedTo
  <2>3. CASE c.how = "expr"
    <3>1. ref # Unconnected /\ ref.node = operation /\ inputSpecs[operation] = <<c.name>>
      BY <1>5, <2>3
    <3>2. operation \in DOMAIN nodes /\ operation # 0
      BY <1>5, <1>6, <2>3, <3>1, Facts, Domains DEF Existing
    <3>3. nodes[operation].kind = "op" /\ operation # n
      BY <1>7, <3>2 DEF Locals
    <3>4. nodes'[operation].kind = "op" /\ inputSpecs'[operation] = <<c.name>>
      BY <1>8, <3>1, <3>2, <3>3 DEF Fed
    <3>5. nodes'[ref.node].kind = "op" /\ inputSpecs'[ref.node] = <<c.name>>
      BY <3>1, <3>4
    <3>6. QED BY <1>5, <1>9, <2>3, <3>1, <3>5 DEF ConnectedTo
  <2>4. QED BY <1>2, <1>3, <2>1, <2>2, <2>3, Connections
<1>11. InPlace'
  <2>1. \A m \in DOMAIN nodes : nodes[m].kind = "instance" =>
          (placed # <<>> /\ m = Newest.node) \/ Len(nodes'[m].inputs) = Len(nodes[m].inputs)
    BY <1>1, <1>2, <1>3, <1>8 DEF Fed
  <2>2. \A k \in DOMAIN nodes'[newest.node].inputs :
           \/ k \in DOMAIN nodes[newest.node].inputs
           \/ k \in DOMAIN newest.ins /\ ConnectedTo(newest.node, k, newest.ins[k])'
    <3>1. ASSUME NEW k \in 1..(got + 1), k \notin 1..got
          PROVE  k = got + 1
      BY <1>7, <3>1
    <3>2. got + 1 \in DOMAIN newest.ins /\ newest.ins[got + 1] = c
      BY <1>2, <1>3
    <3>3. QED BY <1>3, <1>7, <1>9, <1>10, <3>1, <3>2
  <2>3. QED BY <1>1, <1>2, <1>6, <1>8, <2>1, <2>2, StaysInPlace DEF Placement
<1>12. Newest' = newest
  BY <1>1, <1>6 DEF Newest
<1>13. Offset' = Offset
  BY <1>2, <1>3, <1>6, <1>9, <1>12 DEF Got, Offset
<1>14. Remaining
  BY <1>2 DEF Placement, InProgress
<1>15. Remaining'
  BY <1>1, <1>6, <1>12, <1>13, <1>14 DEF Remaining
<1>16. QED BY <1>2, <1>6, <1>11, <1>12, <1>15 DEF InProgress

LEMMA CallPlacement ==
  ASSUME LowerInv, IInv', Handlers', Locals, Placement, MakeCall
  PROVE  Placement'
<1>1. Asking' /\ AskedFirst'
  BY AskingSteps DEF Placement
<1>2. InPlace' /\ InProgress'
  BY CreationPlacement, OtherPlacement, PreparingPlacement, ConnectingPlacement
<1>3. QED BY <1>1, <1>2 DEF Placement

-----------------------------------------------------------------------------
(* The theorem.                                                            *)

LEMMA PlacementStarts ==
  ASSUME Init
  PROVE  Placement
<1>1. calls = <<>> /\ ports = <<>> /\ placed = <<>>
  BY DEF Init
<1>2. ~Working /\ ~Next1("instance")
  BY <1>1, IdleFacts
<1>3. DOMAIN calls = {} /\ DOMAIN placed = {} /\ placed \in Seq(Placings)
  BY <1>1
<1>4. QED
  BY <1>1, <1>2, <1>3 DEF Placement, Asking, AskedFirst, InPlace, InProgress

LEMMA PlacementSteps ==
  ASSUME LowerInv, IInv', Handlers', Locals, InTurn, Placement, [Next]_vars
  PROVE  Placement'
<1>1. IInv /\ Handlers
  BY DEF LowerInv
<1>2. ASSUME NEW name \in InputPorts \cup OutputPorts, VisitPort(name)
      PROVE  Placement'
  <2>1. name \in Name
    BY MembersAreOverNames
  <2>2. Idle /\ UNCHANGED lowerVars /\ (CreateModuleInput(name) \/ CreateModuleOutput(name))
    BY <1>2 DEF VisitPort, InTurn
  <2>3. Resting
    BY <1>1, <2>1, <2>2, PortUnmoved, UnmovedRests
  <2>4. QED BY <1>1, <2>2, <2>3, IdlePlacement
<1>3. CASE FinishModule
  <2>1. Idle /\ UNCHANGED lowerVars
    BY <1>3 DEF FinishModule
  <2>2. CASE WireConnections
    BY <1>1, <2>1, <2>2, WiringRests, IdlePlacement
  <2>3. CASE ~WireConnections
    BY <1>1, <1>3, <2>1, <2>3, FinishingUnmoved, UnmovedRests, IdlePlacement
  <2>4. QED BY <2>2, <2>3
<1>4. CASE UNCHANGED vars
  <2>1. UNCHANGED <<nodes, inputSpecs, calls, ports, operation, instance, placed>>
    BY <1>4 DEF vars, lowerVars, tigVars
  <2>2. Asking' /\ AskedFirst'
    BY <2>1 DEF Placement, Asking, AskedFirst
  <2>3. /\ Working' = Working /\ Newest' = Newest /\ Next1("instance")' = Next1("instance")
        /\ \A n, ins : Fitted(n, ins) => Fitted(n, ins)'
        /\ \A c : InputRest(c) => InputRest(c)'
    <3>1. \A n, k, c : ConnectedTo(n, k, c) => ConnectedTo(n, k, c)'
      BY <2>1 DEF ConnectedTo
    <3>2. \A c : InputRest(c) => InputRest(c)'
      BY <2>1 DEF InputRest
    <3>3. QED BY <2>1, <3>1, <3>2 DEF Working, Newest, Next1, Fitted
  <2>4. InPlace'
    BY <2>1, <2>3 DEF Placement, InPlace, Begun
  <2>5. Got' = Got /\ Offset' = Offset
    BY <2>1, <2>3 DEF Got, Offset
  <2>6. Remaining => Remaining'
    BY <2>1, <2>3, <2>5 DEF Remaining
  <2>7. InProgress'
    BY <2>1, <2>3, <2>6 DEF Placement, InProgress
  <2>8. QED BY <2>2, <2>4, <2>7 DEF Placement
<1>5. QED
  BY <1>1, <1>2, <1>3, <1>4, ProcessPlacement, InstancePlacement, PortPlacement, CallPlacement
  DEF Next, Done

PlacementInv == ReaderInv /\ Locals /\ InTurn /\ Placement

LEMMA PlacementHolds == Spec => []PlacementInv
<1>1. Init /\ ReaderInv => PlacementInv
  <2>1. Init => Locals /\ InTurn
    BY DEF Init, Locals, InTurn, Idle
  <2>2. QED BY <2>1, PlacementStarts DEF PlacementInv
<1>2. ReaderInv /\ ReaderInv' /\ PlacementInv /\ [Next]_vars => PlacementInv'
  <2>1. SUFFICES ASSUME ReaderInv, ReaderInv', Locals, InTurn, Placement, [Next]_vars
                 PROVE  PlacementInv'
    BY DEF PlacementInv
  <2>2. LowerInv /\ IInv' /\ Handlers'
    BY <2>1 DEF ReaderInv, LowerInv
  <2>3. QED BY <2>1, <2>2, LocalsSteps, InTurnSteps, PlacementSteps DEF PlacementInv
<1>3. QED BY <1>1, <1>2, ReaderInvHolds, PTL DEF Spec

(* Every instance has all its inputs when the handlers are done.           *)
LEMMA AllInputs ==
  ASSUME PlacementInv, phase = "wired", NEW j \in DOMAIN placed,
         NEW n, n = placed[j].node, NEW ins, ins = placed[j].ins
  PROVE  /\ ins \in Seq(Connection) /\ Fitted(n, ins)
         /\ n \in DOMAIN nodes /\ Len(nodes[n].inputs) = Len(ins)
<1>1. /\ IInv /\ calls = <<>> /\ ports = <<>> /\ InPlace /\ InProgress
  BY DEF PlacementInv, ReaderInv, LowerInv, InTurn, Idle, Placement
<1>2. ~Working /\ ~Next1("instance")
  BY <1>1, IdleFacts
<1>3. placed[j] \in Placings /\ ins \in Seq(Connection)
  <2>1. placed[j] \in Placings
    BY <1>1, Elements DEF InPlace
  <2>2. QED BY <2>1 DEF Placings
<1>4. Fitted(n, ins) /\ (j # Len(placed) => Len(nodes[n].inputs) = Len(ins))
  BY <1>1, <1>2 DEF InPlace, Begun
<1>5. n \in DOMAIN nodes
  BY <1>4 DEF Fitted
<1>6. CASE j = Len(placed)
  <2>1. PICK newest : newest = Newest
    OBVIOUS
  <2>2. placed # <<>> /\ newest = placed[j]
    <3>1. placed # <<>>
      BY <1>1
    <3>2. QED BY <1>6, <2>1, <3>1 DEF Newest
  <2>3. Len(ins) \in Nat /\ DOMAIN ins = 1..Len(ins)
    BY <1>3, Elements
  <2>4. Got = Len(nodes[n].inputs) /\ Got \in Nat
    BY <1>1, <1>2, <2>1, <2>2, InputsOfNewest
  <2>5. /\ Got <= Len(ins)
        /\ \A k \in DOMAIN ins : k > Got => k - Got \in DOMAIN ports
    BY <1>1, <1>2, <2>1, <2>2 DEF InProgress, Remaining, Offset
  <2>6. PICK len : len = Len(ins)
    OBVIOUS
  <2>7. \A k \in 1..len : ~(k > Got)
    <3>1. DOMAIN ports = {}
      BY <1>1
    <3>2. QED BY <2>3, <2>5, <2>6, <3>1
  <2>8. len = Got
    BY <2>3, <2>4, <2>5, <2>6, <2>7
  <2>9. QED BY <1>3, <1>4, <1>5, <2>4, <2>6, <2>8
<1>7. QED BY <1>3, <1>4, <1>5, <1>6

(* What InstanceInputsInOrder says of one input, for connection c.         *)
Fits(ref, c) ==
  CASE c.how = "open" -> ref = Unconnected
    [] c.how = "name" ->
         IF signalMap[c.name] = Unconnected THEN ref = Unconnected
         ELSE ref # Unconnected /\ Carried(ref) = c.name
    [] c.how = "expr" ->
         /\ ref # Unconnected
         /\ nodes[ref.node].kind = "op"
         /\ inputSpecs[ref.node] = <<c.name>>

LEMMA PlacedInOrder ==
  ASSUME PlacementInv
  PROVE  InstanceInputsInOrder
<1>1. SUFFICES ASSUME phase = "wired"
               PROVE  \A j \in DOMAIN placed :
                        /\ Len(nodes[placed[j].node].inputs) = Len(placed[j].ins)
                        /\ \A k \in DOMAIN nodes[placed[j].node].inputs :
                             Fits(nodes[placed[j].node].inputs[k], placed[j].ins[k])
  BY Zenon DEF InstanceInputsInOrder, Fits
<1>2. SUFFICES ASSUME NEW j \in DOMAIN placed,
                      NEW n, n = placed[j].node, NEW ins, ins = placed[j].ins,
                      NEW inputs, inputs = nodes[n].inputs
               PROVE  /\ Len(inputs) = Len(ins)
                      /\ \A k \in DOMAIN inputs : Fits(inputs[k], ins[k])
  OBVIOUS
<1>3. ins \in Seq(Connection) /\ Fitted(n, ins) /\ n \in DOMAIN nodes /\ Len(inputs) = Len(ins)
  BY <1>1, <1>2, AllInputs
<1>4. IInv /\ Naming /\ Wired
  BY DEF PlacementInv, ReaderInv, LowerInv
<1>5. ffMerge.name = NoName
  BY <1>1, <1>4 DEF Wired, NoMerge
<1>6. ASSUME NEW k \in DOMAIN inputs, NEW c, c = ins[k], NEW ref, ref = inputs[k]
      PROVE  Fits(ref, c)
  <2>1. c \in Connection /\ ConnectedTo(n, k, c)
    BY <1>2, <1>3, <1>6, Elements DEF Fitted
  <2>2. c.how \in {"open", "name", "expr"} /\ (c.how = "name" => c.name \in Name)
    BY <2>1 DEF Connection
  <2>3. CASE c.how = "name"
    <3>1. k \in DOMAIN inputSpecs[n] /\ inputSpecs[n][k] = c.name
      BY <2>1, <2>3 DEF ConnectedTo
    <3>2. c.name \in Name /\ c.name # NoName
      BY <2>2, <2>3, NoNameIsNoName
    <3>3. n \in DOMAIN inputSpecs
      BY <1>3, <1>4, Facts
    <3>4. ref = signalMap[c.name]
      BY <1>1, <1>2, <1>4, <1>6, <3>1, <3>2, <3>3 DEF Wired
    <3>5. ref # Unconnected => Carried(ref) = c.name
      BY <1>4, <1>5, <3>2, <3>4 DEF Naming, MappedNameIsCarried
    <3>6. QED BY <2>3, <3>4, <3>5 DEF Fits
  <2>4. CASE c.how = "open"
    BY <1>2, <1>6, <2>1, <2>4 DEF ConnectedTo, Fits
  <2>5. CASE c.how = "expr"
    BY <1>2, <1>6, <2>1, <2>5 DEF ConnectedTo, Fits
  <2>6. QED BY <2>2, <2>3, <2>4, <2>5
<1>7. QED BY <1>3, <1>6

(* However many members drive a signal, and whether they come before or    *)
(* after the instance, the inputs emit_instances takes by position are     *)
(* those of the instance's ports, none missing, none twice: one left open  *)
(* has nothing, one connected to a name the output that carries it, and    *)
(* any other the operation that was made for it.                           *)
THEOREM InstancesAreInOrder == Spec => []InstanceInputsInOrder
<1>1. PlacementInv => InstanceInputsInOrder
  BY PlacedInOrder
<1>2. QED BY <1>1, PlacementHolds, PTL
=============================================================================

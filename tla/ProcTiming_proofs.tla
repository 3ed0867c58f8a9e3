-------------------------- MODULE ProcTiming_proofs --------------------------
(***************************************************************************)
(* Proofs about ProcTiming: for every set of procedural blocks, signals    *)
(* and outputs, the types, the fit of events and policy, and that a block  *)
(* nothing was reported for is dumped as it was written.                   *)
(***************************************************************************)
EXTENDS ProcTiming, SequenceTheorems, TLAPS

LEMMA NoEventIsAnEvent == NoEvent \in Event /\ NoSpec \in [clk: Event, rst: Event]
  BY DEF NoEvent, NoSpec, Event, EventKind, Level

LEMMA TextTypes ==
  ASSUME NEW t \in Texts
  PROVE  /\ t.kind \in {"always_comb", "always_latch", "always_ff", "always"}
         /\ t.timing \in Seq(Timing)
         /\ t.body \in [Output -> Expr]
  BY TextsAreBlocks DEF Text

LEMMA InitialPolicyType ==
  ASSUME NEW k \in {"always_comb", "always_latch", "always_ff", "always"}
  PROVE  /\ InitialPolicy(k) \in {"comb", "latch", "ff", "undecided"}
         /\ k = "always_ff" <=> InitialPolicy(k) = "ff"
  BY DEF InitialPolicy

LEMMA PickType ==
  ASSUME NEW e \in Expr, NEW c, NEW s \in Level, NEW r \in Held
  PROVE  Pick(e, c, s, r) \in Val
  BY DEF Pick, Expr

(* What an expression computes, from the text or from the dump, is a value. *)
LEMMA ValueType ==
  ASSUME NEW e \in Expr, NEW rst \in Event, NEW s \in Level, NEW r \in Held
  PROVE  Value(e, s, r) \in Val /\ RegisterData(e, rst, s, r) \in Val
<1>1. Value(e, s, r) \in Val
  <2>1. e.then[<<s, r>>] \in Val
    BY DEF Expr
  <2> QED
    BY <2>1, PickType DEF Value
<1>2. ASSUME NEW v PROVE Assuming(e, rst.name, v, s, r) \in Val
  BY <1>1, PickType DEF Assuming
<1> QED
  BY <1>1, <1>2 DEF RegisterData

-----------------------------------------------------------------------------
(* Types.                                                                  *)

LEMMA Elements ==
  ASSUME NEW S, NEW s \in Seq(S), NEW k \in 1..Len(s)
  PROVE  s[k] \in S
  OBVIOUS

LEMMA InitTypes == Init => TypeOK
<1> SUFFICES ASSUME Init PROVE TypeOK
  OBVIOUS
<1>1. PICK t \in Texts : t = text
  BY DEF Init
<1>2. text.timing \in Seq(Timing)
  BY <1>1, TextTypes
<1>3. policy \in {"comb", "latch", "ff", "undecided"}
  BY <1>1, TextTypes, InitialPolicyType DEF Init
<1>4. signals \in Level /\ held \in Held /\ dumped \in Held
  BY PowerUpIsAValue DEF Init, Level, Held
<1>5. todo \in Seq(Timing) /\ queue \in Seq(Event) /\ events \in Seq(Event)
  BY <1>2 DEF Init
<1>6. phase = "visit" /\ assigned = FALSE /\ reported = FALSE /\ spec = NoSpec
  BY DEF Init
<1> QED
  BY <1>1, <1>3, <1>4, <1>5, <1>6, NoEventIsAnEvent DEF TypeOK

LEMMA StepTypes == TypeOK /\ [Next]_vars => TypeOK'
<1> SUFFICES ASSUME TypeOK, [Next]_vars PROVE TypeOK'
  OBVIOUS
<1> USE DEF TypeOK
<1>1. CASE IgnoreTimed
  BY <1>1 DEF IgnoreTimed, runVars
<1>2. CASE VisitImplicit
  <2>1. Tail(todo) \in Seq(Timing)
    BY <1>2 DEF VisitImplicit
  <2> QED
    BY <1>2, <2>1 DEF VisitImplicit, runVars
<1>3. CASE VisitEvents
  <2>1. Tail(todo) \in Seq(Timing) /\ Head(todo) \in Timing
    BY <1>3 DEF VisitEvents
  <2>2. Head(todo).events \in Seq(Event)
    BY <2>1 DEF Timing
  <2> QED
    BY <1>3, <2>1, <2>2 DEF VisitEvents, runVars
<1>4. CASE AddTiming
  <2>1. Tail(queue) \in Seq(Event) /\ Head(queue) \in Event
    BY <1>4 DEF AddTiming
  <2>2. Append(events, Head(queue)) \in Seq(Event)
    BY <2>1
  <2> QED
    BY <1>4, <2>1, <2>2 DEF AddTiming, runVars
<1>5. CASE IgnoreTiming
  <2>1. Tail(queue) \in Seq(Event)
    BY <1>5 DEF IgnoreTiming
  <2> QED
    BY <1>5, <2>1 DEF IgnoreTiming, runVars
<1>6. CASE VisitBody
  BY <1>6 DEF VisitBody, runVars
<1>7. CASE SettlePolicy
  BY <1>7 DEF SettlePolicy, runVars
<1>8. CASE FinishCombinational
  BY <1>8 DEF FinishCombinational, runVars
<1>9. CASE FinishClocked
  <2>1. spec' \in [clk: Event, rst: Event]
    <3>1. CASE ClockOnly /\ spec' = [clk |-> events[1], rst |-> NoEvent]
      <4>1. events[1] \in Event
        <5>1. 1 \in 1..Len(events)
          BY <3>1 DEF ClockOnly
        <5> QED
          BY <5>1, Elements
      <4> QED
        BY <3>1, <4>1, NoEventIsAnEvent
    <3>2. CASE \E i \in 1..2 : ResetIs(i) /\ spec' = [clk |-> events[3 - i], rst |-> events[i]]
      <4>1. PICK i \in 1..2 : ResetIs(i) /\ spec' = [clk |-> events[3 - i], rst |-> events[i]]
        BY <3>2
      <4>2. events[i] \in Event /\ events[3 - i] \in Event
        <5>1. i \in 1..Len(events) /\ 3 - i \in 1..Len(events)
          BY <4>1 DEF ResetIs
        <5> QED
          BY <5>1, Elements
      <4> QED
        BY <4>1, <4>2
    <3> QED
      BY <1>9, <3>1, <3>2 DEF FinishClocked
  <2> QED
    BY <1>9, <2>1 DEF FinishClocked, runVars
<1>10. CASE FinishInvalid
  BY <1>10 DEF FinishInvalid, runVars
<1>11. ASSUME NEW x \in Signal, Change(x) PROVE TypeOK'
  <2> DEFINE now == [signals EXCEPT ![x] = ~@]
  <2>1. now \in Level
    BY DEF Level
  <2>2. \A q \in Output : text.body[q] \in Expr
    BY TextTypes
  <2>3. \A q \in Output : Value(text.body[q], now, held) \in Val
    BY <2>1, <2>2, ValueType, NoEventIsAnEvent
  <2>4. \A q \in Output : Dumped(text.body[q], now, dumped) \in Val
    BY <2>1, <2>2, ValueType DEF Dumped
  <2>5. held' \in Held
    BY <1>11, <2>3 DEF Change, Held
  <2>6. dumped' \in Held
    BY <1>11, <2>4 DEF Change, Held
  <2>7. signals' \in Level /\ UNCHANGED loweringVars
    BY <1>11, <2>1 DEF Change
  <2> QED
    BY <2>5, <2>6, <2>7 DEF loweringVars
<1>12. CASE UNCHANGED vars
  BY <1>12 DEF vars, loweringVars, runVars
<1> QED
  BY <1>1, <1>2, <1>3, <1>4, <1>5, <1>6, <1>7, <1>8, <1>9, <1>10, <1>11, <1>12 DEF Next

(* In every reachable state the variables have their types, and a block is *)
(* finished only with its policy settled.                                  *)
THEOREM TypeCorrect == Spec => []TypeOK
  BY InitTypes, StepTypes, PTL DEF Spec

-----------------------------------------------------------------------------
(* The policy and the events that were kept.                               *)

LEMMA AppendElements ==
  ASSUME NEW S, NEW s \in Seq(S), NEW x \in S
  PROVE  /\ DOMAIN Append(s, x) = 1..(Len(s) + 1)
         /\ \A k \in DOMAIN Append(s, x) :
              Append(s, x)[k] = IF k = Len(s) + 1 THEN x ELSE s[k]
  OBVIOUS

(* EventsFitPolicy with what keeps it: no event is kept while the policy   *)
(* is open, and the keyword always_ff is never overruled.                  *)
PolicyInv ==
  /\ EventsFitPolicy
  /\ policy = "undecided" => events = <<>>
  /\ text.kind = "always_ff" => policy = "ff"
  /\ policy = "ff" => text.kind = "always_ff" \/ events # <<>>

LEMMA InitPolicy == Init => PolicyInv
<1> SUFFICES ASSUME Init PROVE PolicyInv
  OBVIOUS
<1>1. /\ text.kind = "always_ff" => policy = "ff"
      /\ policy = "ff" => text.kind = "always_ff"
  BY TextTypes, InitialPolicyType DEF Init
<1> QED
  BY <1>1 DEF Init, PolicyInv, EventsFitPolicy

LEMMA StepPolicy == TypeOK /\ PolicyInv /\ [Next]_vars => PolicyInv'
<1> SUFFICES ASSUME TypeOK, PolicyInv, [Next]_vars PROVE PolicyInv'
  OBVIOUS
<1> USE DEF PolicyInv, EventsFitPolicy
<1>1. CASE IgnoreTimed
  BY <1>1 DEF IgnoreTimed
<1>2. CASE VisitImplicit
  BY <1>2 DEF VisitImplicit
<1>3. CASE VisitEvents
  BY <1>3 DEF VisitEvents
<1>4. CASE AddTiming
  <2>1. events \in Seq(Event) /\ Head(queue) \in Event
    BY <1>4 DEF AddTiming, TypeOK
  <2>2. /\ DOMAIN events' = 1..(Len(events) + 1)
        /\ \A k \in DOMAIN events' :
             events'[k] = IF k = Len(events) + 1 THEN Head(queue) ELSE events[k]
    BY <1>4, <2>1, AppendElements DEF AddTiming
  <2>3. DOMAIN events = 1..Len(events) /\ Len(events) \in Nat /\ events' # <<>>
    BY <2>1, <2>2
  <2>4. text' = text /\ Accepts(Head(queue))
    BY <1>4 DEF AddTiming
  <2>5. policy' = IF Head(queue).edge = "level" THEN "comb_or_latch" ELSE "ff"
    BY <1>4 DEF AddTiming
  <2>6. CASE Head(queue).edge = "level"
    <3>1. policy' = "comb_or_latch" /\ policy # "ff"
      BY <2>4, <2>5, <2>6 DEF Accepts
    <3>2. \A k \in DOMAIN events' : events'[k].edge = "level"
      BY <2>2, <2>3, <2>6, <3>1
    <3> QED
      BY <2>4, <3>1, <3>2
  <2>7. CASE Head(queue).edge # "level"
    <3>1. /\ policy' = "ff" /\ policy \in {"ff", "undecided"}
          /\ Head(queue).edge \in {"posedge", "negedge", "edge"}
      BY <2>4, <2>5, <2>7 DEF Accepts
    <3>2. \A k \in DOMAIN events : events[k].edge \in {"posedge", "negedge", "edge"}
      BY <3>1
    <3>3. \A k \in DOMAIN events' : events'[k].edge \in {"posedge", "negedge", "edge"}
      BY <2>2, <2>3, <3>1, <3>2
    <3> QED
      BY <2>3, <2>4, <3>1, <3>3
  <2> QED
    BY <2>6, <2>7
<1>5. CASE IgnoreTiming
  BY <1>5 DEF IgnoreTiming
<1>6. CASE VisitBody
  BY <1>6 DEF VisitBody
<1>7. CASE SettlePolicy
  BY <1>7 DEF SettlePolicy
<1>8. CASE FinishCombinational
  BY <1>8 DEF FinishCombinational
<1>9. CASE FinishClocked
  BY <1>9 DEF FinishClocked
<1>10. CASE FinishInvalid
  BY <1>10 DEF FinishInvalid
<1>11. ASSUME NEW x \in Signal, Change(x) PROVE PolicyInv'
  BY <1>11 DEF Change, loweringVars
<1>12. CASE UNCHANGED vars
  BY <1>12 DEF vars, loweringVars
<1> QED
  BY <1>1, <1>2, <1>3, <1>4, <1>5, <1>6, <1>7, <1>8, <1>9, <1>10, <1>11, <1>12 DEF Next

(* The events a block keeps are all edges if its policy is ff and all      *)
(* levels otherwise, however its events and timed statements are arranged. *)
THEOREM EventsFit == Spec => []EventsFitPolicy
<1>1. PolicyInv => EventsFitPolicy
  BY DEF PolicyInv
<1> QED
  BY <1>1, InitTypes, StepTypes, InitPolicy, StepPolicy, PTL DEF Spec

-----------------------------------------------------------------------------
(* A block that nothing was reported for.                                  *)

(* What the dumper supports: no iff conditions, and no event on both edges *)
(* beside another one.                                                     *)
SupportedTexts ==
  \A t \in Texts : \A k \in DOMAIN EventsOf(t) :
    /\ \A s \in Level : EventsOf(t)[k].iff[s]
    /\ Len(EventsOf(t)) = 2 => EventsOf(t)[k].edge # "edge"

(* No event has been visited, or exactly the first timing control has been *)
(* entered: a second one would have been reported.                         *)
EventsRead ==
  \/ todo = text.timing /\ queue = <<>> /\ events = <<>>
  \/ /\ text.timing # <<>>
     /\ todo = Tail(text.timing)
     /\ events \o queue = EventsOf(text)
     /\ events # <<>> \/ queue # <<>> \/ policy = "comb_or_latch"

ReadInv ==
  /\ phase # "visit" => queue = <<>>
  /\ ~reported => EventsRead /\ (phase # "visit" => todo = <<>> /\ assigned)

(* The registers' clock and reset are the events of the text.              *)
SpecFits ==
  \/ spec = NoSpec /\ ~Sequential(text)
  \/ EventsOf(text) = <<spec.clk>> /\ spec.rst = NoEvent /\ Named(spec.clk)
  \/ /\ EventsOf(text) = <<spec.clk, spec.rst>> \/ EventsOf(text) = <<spec.rst, spec.clk>>
     /\ Named(spec.clk) /\ Named(spec.rst)
     /\ spec.rst.edge \in {"posedge", "negedge", "edge"}

SpecInv ==
  /\ phase # "run" => spec = NoSpec
  /\ phase = "run" /\ ~reported => SpecFits

SameValues == ~reported => dumped = held

LEMMA EventsOfType == ASSUME TypeOK PROVE EventsOf(text) \in Seq(Event)
<1>1. text.timing \in Seq(Timing)
  BY TextTypes DEF TypeOK
<1>2. CASE text.timing = <<>>
  BY <1>2 DEF EventsOf
<1>3. CASE text.timing # <<>>
  <2>1. 1 \in 1..Len(text.timing)
    BY <1>1, <1>3
  <2>2. text.timing[1] \in Timing
    BY <1>1, <2>1, Elements
  <2> QED
    BY <1>3, <2>2 DEF EventsOf, Timing
<1> QED
  BY <1>2, <1>3

LEMMA FirstControl ==
  ASSUME TypeOK, text.timing # <<>>
  PROVE  /\ Head(text.timing).events = EventsOf(text)
         /\ Head(text.timing).kind = "events" <=> EventsOf(text) # <<>>
<1>1. text.timing \in Seq(Timing) /\ text \in Texts
  BY TextTypes DEF TypeOK
<1>2. 1 \in DOMAIN text.timing /\ Head(text.timing) = text.timing[1]
  BY <1>1
<1> QED
  BY <1>1, <1>2, OnlyEventListsHaveEvents DEF EventsOf

LEMMA InitRead == Init => ReadInv /\ SpecInv /\ SameValues
  BY DEF Init, ReadInv, EventsRead, SpecInv, SameValues

LEMMA StepRead == TypeOK /\ ReadInv /\ [Next]_vars => ReadInv'
<1> SUFFICES ASSUME TypeOK, ReadInv, [Next]_vars PROVE ReadInv'
  OBVIOUS
<1>t. queue \in Seq(Event) /\ events \in Seq(Event)
  BY DEF TypeOK
<1>1. CASE IgnoreTimed
  BY <1>1 DEF IgnoreTimed, ReadInv
<1>2. CASE VisitImplicit
  <2>1. SUFFICES ASSUME ~reported PROVE EventsRead' /\ phase' = "visit"
    BY <1>2, <2>1 DEF VisitImplicit, ReadInv
  <2>2. todo = text.timing /\ events = <<>> /\ queue = <<>>
    BY <1>2, <2>1 DEF VisitImplicit, ReadInv, EventsRead
  <2>3. text.timing # <<>> /\ EventsOf(text) = <<>>
    BY <1>2, <2>2, FirstControl DEF VisitImplicit
  <2> QED
    BY <1>2, <2>2, <2>3 DEF VisitImplicit, EventsRead, EventsOf
<1>3. CASE VisitEvents
  <2>1. SUFFICES ASSUME ~reported PROVE EventsRead' /\ phase' = "visit"
    BY <1>3, <2>1 DEF VisitEvents, ReadInv
  <2>2. todo = text.timing /\ events = <<>> /\ queue = <<>>
    BY <1>3, <2>1 DEF VisitEvents, ReadInv, EventsRead
  <2>3. text.timing # <<>> /\ EventsOf(text) # <<>> /\ queue' = EventsOf(text)
    BY <1>3, <2>2, FirstControl DEF VisitEvents
  <2>4. <<>> \o EventsOf(text) = EventsOf(text)
    BY EventsOfType
  <2>5. text' = text /\ events' = <<>> /\ todo' = Tail(text.timing) /\ phase' = "visit"
    BY <1>3, <2>2 DEF VisitEvents
  <2>6. EventsOf(text)' = EventsOf(text)
    BY <2>5 DEF EventsOf
  <2> QED
    BY <2>3, <2>4, <2>5, <2>6 DEF EventsRead
<1>4. CASE AddTiming
  <2>1. SUFFICES ASSUME ~reported PROVE EventsRead' /\ phase' = "visit"
    BY <1>4, <2>1 DEF AddTiming, ReadInv
  <2>2. /\ text.timing # <<>> /\ todo = Tail(text.timing)
        /\ events \o queue = EventsOf(text)
    BY <1>4, <2>1 DEF AddTiming, ReadInv, EventsRead
  <2>3. Append(events, Head(queue)) \o Tail(queue) = events \o queue
    BY <1>4, <1>t DEF AddTiming
  <2>4. Append(events, Head(queue)) # <<>>
    BY <1>4, <1>t DEF AddTiming
  <2>5. /\ text' = text /\ todo' = todo /\ phase' = "visit"
        /\ events' = Append(events, Head(queue)) /\ queue' = Tail(queue)
    BY <1>4 DEF AddTiming
  <2>6. EventsOf(text)' = EventsOf(text)
    BY <2>5 DEF EventsOf
  <2> QED
    BY <2>2, <2>3, <2>4, <2>5, <2>6 DEF EventsRead
<1>5. CASE IgnoreTiming
  BY <1>5 DEF IgnoreTiming, ReadInv
<1>6. CASE VisitBody
  BY <1>6 DEF VisitBody, ReadInv, EventsRead, EventsOf
<1>7. CASE SettlePolicy
  BY <1>7 DEF SettlePolicy, ReadInv
<1>8. CASE FinishCombinational
  BY <1>8 DEF FinishCombinational, ReadInv, EventsRead, EventsOf
<1>9. CASE FinishClocked
  BY <1>9 DEF FinishClocked, ReadInv, EventsRead, EventsOf
<1>10. CASE FinishInvalid
  BY <1>10 DEF FinishInvalid, ReadInv
<1>11. ASSUME NEW x \in Signal, Change(x) PROVE ReadInv'
  BY <1>11 DEF Change, loweringVars, ReadInv, EventsRead, EventsOf
<1>12. CASE UNCHANGED vars
  BY <1>12 DEF vars, loweringVars, ReadInv, EventsRead, EventsOf
<1> QED
  BY <1>1, <1>2, <1>3, <1>4, <1>5, <1>6, <1>7, <1>8, <1>9, <1>10, <1>11, <1>12 DEF Next

(* Once the block has been visited, nothing of its first timing control is *)
(* missing.                                                                *)
LEMMA AllEventsKept ==
  ASSUME TypeOK, ReadInv, phase # "visit", ~reported
  PROVE  events = EventsOf(text)
<1>1. queue = <<>> /\ todo = <<>> /\ EventsRead /\ events \in Seq(Event)
  BY DEF ReadInv, TypeOK
<1>2. events \o <<>> = events
  BY <1>1
<1> QED
  BY <1>1, <1>2 DEF EventsRead, EventsOf

LEMMA TwoElements ==
  ASSUME NEW s \in Seq(Event), Len(s) = 2
  PROVE  s = <<s[1], s[2]>>
  OBVIOUS

LEMMA StepSpec ==
  TypeOK /\ PolicyInv /\ ReadInv /\ SpecInv /\ [Next]_vars => SpecInv'
<1> SUFFICES ASSUME TypeOK, PolicyInv, ReadInv, SpecInv, [Next]_vars PROVE SpecInv'
  OBVIOUS
<1>1. CASE UNCHANGED <<text, phase, spec, reported>>
  <2>1. (Sequential(text) <=> Sequential(text)') /\ EventsOf(text)' = EventsOf(text)
    BY <1>1 DEF Sequential, EventsOf
  <2>2. SpecFits <=> SpecFits'
    BY <1>1, <2>1 DEF SpecFits
  <2> QED
    BY <1>1, <2>2 DEF SpecInv
<1>2. CASE phase # "run" /\ phase' # "run" /\ UNCHANGED spec
  BY <1>2 DEF SpecInv
<1>3. CASE FinishCombinational
  <2>1. SUFFICES ASSUME ~reported PROVE SpecFits'
    BY <1>3, <2>1 DEF FinishCombinational, SpecInv
  <2>2. events = EventsOf(text) /\ text' = text /\ spec' = NoSpec
    BY <1>3, <2>1, AllEventsKept DEF FinishCombinational, SpecInv
  <2>3. policy # "ff"
    BY <1>3 DEF FinishCombinational
  <2>4. ~Sequential(text)
    BY <2>2, <2>3 DEF PolicyInv, EventsFitPolicy, Sequential
  <2> QED
    BY <2>2, <2>4 DEF SpecFits, Sequential, EventsOf
<1>4. CASE FinishClocked
  <2>1. SUFFICES ASSUME ~reported PROVE SpecFits'
    BY <1>4, <2>1 DEF FinishClocked, SpecInv
  <2>2. events = EventsOf(text) /\ text' = text
    BY <1>4, <2>1, AllEventsKept DEF FinishClocked
  <2>3. events \in Seq(Event) /\ EventsOf(text)' = events
    BY <2>2 DEF TypeOK, EventsOf
  <2>4. CASE ClockOnly /\ spec' = [clk |-> events[1], rst |-> NoEvent]
    <3>1. events = <<events[1]>>
      BY <2>3, <2>4 DEF ClockOnly
    <3> QED
      BY <2>3, <2>4, <3>1 DEF ClockOnly, SpecFits
  <2>5. CASE \E i \in 1..2 : ResetIs(i) /\ spec' = [clk |-> events[3 - i], rst |-> events[i]]
    <3>1. PICK i \in 1..2 : ResetIs(i) /\ spec' = [clk |-> events[3 - i], rst |-> events[i]]
      BY <2>5
    <3>2. events = <<events[1], events[2]>> /\ Named(events[1]) /\ Named(events[2])
      BY <2>3, <3>1, TwoElements DEF ResetIs
    <3>5. /\ events[1].edge \in {"posedge", "negedge", "edge"}
          /\ events[2].edge \in {"posedge", "negedge", "edge"}
      BY <1>4, <2>3, <3>1 DEF PolicyInv, EventsFitPolicy, ResetIs, FinishClocked
    <3>3. CASE i = 1
      BY <2>3, <3>1, <3>2, <3>3, <3>5 DEF SpecFits
    <3>4. CASE i = 2
      BY <2>3, <3>1, <3>2, <3>4, <3>5 DEF SpecFits
    <3> QED
      BY <3>3, <3>4
  <2> QED
    BY <1>4, <2>4, <2>5 DEF FinishClocked
<1>5. CASE FinishInvalid
  BY <1>5 DEF FinishInvalid, SpecInv
<1> QED
  BY <1>1, <1>2, <1>3, <1>4, <1>5 DEF Next, IgnoreTimed, VisitImplicit, VisitEvents, AddTiming,
     IgnoreTiming, VisitBody, SettlePolicy, Change, loweringVars, vars

-----------------------------------------------------------------------------
(* Running.                                                                *)

(* The dump runs a block when the text executes it.                        *)
LEMMA SameEvents ==
  ASSUME SupportedTexts, TypeOK, SpecFits, NEW x \in Signal, NEW s \in Level
  PROVE  Executed(text, x, s) <=> Sensitive(x, s)
<1>t. text \in Texts
  BY DEF TypeOK
<1>1. \A k \in DOMAIN EventsOf(text) : EventsOf(text)[k].iff[s]
  BY <1>t DEF SupportedTexts
<1>2. ~Edge(NoEvent, x, s)
  BY NoNameIsNoSignal DEF Edge, NoEvent
<1>3. CASE spec = NoSpec /\ ~Sequential(text)
  BY <1>3 DEF Executed, Sensitive
<1>4. ASSUME NEW e, Named(e), spec.clk = e PROVE spec # NoSpec
  BY <1>4 DEF Named, NoSpec, NoEvent
<1>5. CASE EventsOf(text) = <<spec.clk>> /\ spec.rst = NoEvent /\ Named(spec.clk)
  <2>1. DOMAIN EventsOf(text) = {1} /\ EventsOf(text)[1] = spec.clk
    BY <1>5
  <2>2. Sequential(text)
    BY <1>5, <2>1 DEF Sequential, Named
  <2>3. Executed(text, x, s) <=> Edge(spec.clk, x, s)
    BY <1>1, <2>1, <2>2 DEF Executed
  <2> QED
    BY <1>2, <1>4, <1>5, <2>3 DEF Sensitive
<1>6. CASE /\ EventsOf(text) = <<spec.clk, spec.rst>> \/ EventsOf(text) = <<spec.rst, spec.clk>>
           /\ Named(spec.clk) /\ Named(spec.rst)
           /\ spec.rst.edge \in {"posedge", "negedge", "edge"}
  <2>1. /\ DOMAIN EventsOf(text) = {1, 2}
        /\ \/ EventsOf(text)[1] = spec.clk /\ EventsOf(text)[2] = spec.rst
           \/ EventsOf(text)[1] = spec.rst /\ EventsOf(text)[2] = spec.clk
    BY <1>6
  <2>2. Sequential(text)
    BY <1>6, <2>1 DEF Sequential, Named
  <2>3. Executed(text, x, s) <=> Edge(spec.clk, x, s) \/ Edge(spec.rst, x, s)
    BY <1>1, <2>1, <2>2 DEF Executed
  <2> QED
    BY <1>4, <1>6, <2>3 DEF Sensitive
<1> QED
  BY <1>3, <1>5, <1>6 DEF SpecFits

(* Leaving out what the reset decides does not change what is computed.    *)
LEMMA SameData ==
  ASSUME SupportedTexts, TypeOK, SpecFits, NEW e, NEW s \in Level, NEW r
  PROVE  Dumped(e, s, r) = Value(e, s, r)
<1>1. CASE spec.rst = NoEvent
  BY <1>1 DEF Dumped, RegisterData
<1>2. CASE spec.rst # NoEvent
  <2> DEFINE rst == spec.rst
  <2>1. /\ EventsOf(text) = <<spec.clk, rst>> \/ EventsOf(text) = <<rst, spec.clk>>
        /\ Named(rst) /\ rst.edge \in {"posedge", "negedge", "edge"}
    BY <1>2 DEF SpecFits, NoSpec
  <2>2. Len(EventsOf(text)) = 2 /\ \E k \in DOMAIN EventsOf(text) : EventsOf(text)[k] = rst
    BY <2>1
  <2>3. rst.edge # "edge" /\ rst.name # NoName
    BY <2>1, <2>2 DEF SupportedTexts, TypeOK, Named
  <2>4. rst \in Event /\ \E k \in DOMAIN EventsOf(text) : EventsOf(text)[k] = rst
    BY <2>2 DEF TypeOK
  <2>5. rst.name \in Signal /\ rst.edge \in {"posedge", "negedge"}
    BY <2>1, <2>3, <2>4 DEF Event
  <2>6. s[rst.name] \in BOOLEAN
    BY <2>5 DEF Level
  <2>7. Assuming(e, rst.name, s[rst.name], s, r) = Value(e, s, r)
    BY <2>3 DEF Assuming, Value
  <2>8. Dumped(e, s, r) = Assuming(e, rst.name, s[rst.name], s, r)
    BY <1>2, <2>5, <2>6 DEF Dumped, RegisterData
  <2> QED
    BY <2>7, <2>8
<1> QED
  BY <1>1, <1>2

LEMMA StepValues ==
  SupportedTexts /\ TypeOK /\ ReadInv /\ SpecInv /\ SameValues /\ [Next]_vars => SameValues'
<1> SUFFICES ASSUME SupportedTexts, TypeOK, ReadInv, SpecInv, SameValues, [Next]_vars PROVE SameValues'
  OBVIOUS
<1>1. CASE UNCHANGED <<reported, held, dumped>>
  BY <1>1 DEF SameValues
<1>2. CASE reported'
  BY <1>2 DEF SameValues
<1>3. ASSUME NEW x \in Signal, Change(x) PROVE SameValues'
  <2> DEFINE now == [signals EXCEPT ![x] = ~@]
  <2>1. SUFFICES ASSUME ~reported PROVE dumped' = held'
    BY <1>3, <2>1 DEF SameValues, Change, loweringVars
  <2>2. SpecFits /\ dumped = held /\ now \in Level
    BY <1>3, <2>1 DEF SpecInv, SameValues, Change, TypeOK, Level
  <2>3. Executed(text, x, now) <=> Sensitive(x, now)
    BY <2>2, SameEvents
  <2>4. \A q \in Output : Dumped(text.body[q], now, dumped) = Value(text.body[q], now, held)
    BY <2>2, SameData
  <2>5. assigned
    BY <1>3, <2>1 DEF Change, ReadInv
  <2>6. held' = IF Executed(text, x, now)
                THEN [q \in Output |-> Value(text.body[q], now, held)] ELSE held
    BY <1>3 DEF Change
  <2>7. dumped' = IF Sensitive(x, now)
                  THEN [q \in Output |-> Dumped(text.body[q], now, dumped)] ELSE dumped
    BY <1>3, <2>5 DEF Change
  <2> QED
    BY <2>2, <2>3, <2>4, <2>6, <2>7
<1> QED
  BY <1>1, <1>2, <1>3 DEF Next, IgnoreTimed, VisitImplicit, VisitEvents, AddTiming, IgnoreTiming,
     VisitBody, SettlePolicy, FinishCombinational, FinishClocked, FinishInvalid, vars, runVars,
     loweringVars

(* If no diagnostic was reported for a block of the supported kind, the    *)
(* dump updates its outputs at the same events and with the same values as *)
(* the text, whatever the body, the order and the polarity of the events.  *)
THEOREM DumpActsAsWritten ==
  ASSUME SupportedTexts
  PROVE  Spec => []ActsAsWritten
<1>1. SameValues => ActsAsWritten
  BY DEF SameValues, ActsAsWritten
<1>2. SupportedTexts /\ TypeOK /\ SpecInv /\ ReadInv /\ SameValues /\ [Next]_vars => SameValues'
  BY StepValues
<1> QED
  BY <1>1, <1>2, InitTypes, StepTypes, InitPolicy, StepPolicy, InitRead, StepRead, StepSpec,
     PTL DEF Spec
=============================================================================

----------------------------- MODULE ProcTiming -----------------------------
(***************************************************************************)
(* The timing of one procedural block, from its keyword and its timing     *)
(* control to the registers the dump has for it, and then the block and    *)
(* the dump side by side while the signals change.                         *)
(*                                                                         *)
(* The events of the timing control are handed to the StmtBuilder one by   *)
(* one; each may settle the block's policy, or be ignored.  When the body  *)
(* has been visited, the clock is told from the asynchronous reset by what *)
(* the outputs depend on.  The dumper prints a register twice, once for    *)
(* each value of the reset, leaving out what that value decides.           *)
(*                                                                         *)
(* Events are about plain signals of one bit.  An output is one            *)
(* multiplexer over two tables; mentions holds the names its expression    *)
(* graph reaches, whether or not its value depends on them.                *)
(*                                                                         *)
(* A definition whose name starts with Bug is not part of the model: it is *)
(* the definition after it with a plausible fault, for the properties to   *)
(* catch.                                                                  *)
(***************************************************************************)
EXTENDS Naturals, Sequences

CONSTANTS Signal,   \* names events and bodies read
          NoName,   \* no signal: an event of some other expression; no condition
          Output,   \* names the body assigns
          Val,      \* their values
          PowerUp,  \* what they hold before the block first runs
          Texts     \* the procedural blocks

Level == [Signal -> BOOLEAN]
Held == [Output -> Val]

Expr == [mentions: SUBSET Signal, cond: Signal \cup {NoName}, inverted: BOOLEAN,
         then: [Level \X Held -> Val], else: [Level \X Held -> Val]]

EventKind == {"level", "posedge", "negedge", "edge", "other"}

Event == [edge: EventKind, name: Signal \cup {NoName}, iff: [Level -> BOOLEAN]]

Timing == [kind: {"events", "implicit", "unsupported", "in_block"}, events: Seq(Event)]

(* timing holds the nested timed statements around the body, outermost     *)
(* first.                                                                  *)
Text == [kind: {"always_comb", "always_latch", "always_ff", "always"},
         timing: Seq(Timing), body: [Output -> Expr]]

ASSUME NoNameIsNoSignal == NoName \notin Signal
ASSUME PowerUpIsAValue == PowerUp \in Val
ASSUME TextsAreBlocks == Texts \subseteq Text
ASSUME OnlyEventListsHaveEvents ==
  \A t \in Texts : \A k \in DOMAIN t.timing :
    (t.timing[k].kind = "events") <=> (t.timing[k].events # <<>>)

VARIABLES
  text,      \* the block
  policy,    \* policy_
  todo,      \* timed statements still to be visited
  queue,     \* events of the timing control in progress
  events,    \* timing_events_
  phase,     \* "visit", "visited", then "run"
  assigned,  \* was the body visited?
  reported,  \* was any diagnostic reported?
  spec,      \* what get_timing_spec found: the clock, and perhaps the reset
  signals,   \* running: the signals
  held,      \* running: what the text makes of the outputs
  dumped     \* running: what the dump makes of them

loweringVars == <<text, policy, todo, queue, events, phase, assigned, reported, spec>>
runVars == <<signals, held, dumped>>
vars == <<loweringVars, runVars>>

NoEvent == [edge |-> "level", name |-> NoName, iff |-> [s \in Level |-> TRUE]]
NoSpec == [clk |-> NoEvent, rst |-> NoEvent]

-----------------------------------------------------------------------------
(* Timed statements.                                                       *)

(* The timed statement is ignored, with the body it holds.                 *)
IgnoreTimed ==
  /\ phase = "visit" /\ queue = <<>> /\ todo # <<>>
  /\ \/ Head(todo).kind \in {"in_block", "unsupported"}
     \/ policy \notin {"ff", "undecided"}
     \/ events # <<>>
     \/ Head(todo).kind = "implicit" /\ policy # "undecided"
  /\ reported' = TRUE
  /\ phase' = "visited"
  /\ UNCHANGED <<text, policy, todo, queue, events, assigned, spec, runVars>>

VisitImplicit ==
  /\ phase = "visit" /\ queue = <<>> /\ todo # <<>>
  /\ Head(todo).kind = "implicit"
  /\ policy = "undecided"
  /\ events = <<>>
  /\ policy' = "comb_or_latch"
  /\ todo' = Tail(todo)
  /\ UNCHANGED <<text, queue, events, phase, assigned, reported, spec, runVars>>

VisitEvents ==
  /\ phase = "visit" /\ queue = <<>> /\ todo # <<>>
  /\ Head(todo).kind = "events"
  /\ policy \in {"ff", "undecided"}
  /\ events = <<>>
  /\ queue' = Head(todo).events
  /\ todo' = Tail(todo)
  /\ UNCHANGED <<text, policy, events, phase, assigned, reported, spec, runVars>>

BugAccepts(e) == e.edge # "other"

(* add_timing takes an event that goes with the policy so far.             *)
Accepts(e) ==
  \/ e.edge = "level" /\ policy \in {"comb_or_latch", "undecided"}
  \/ e.edge \in {"posedge", "negedge", "edge"} /\ policy \in {"ff", "undecided"}

AddTiming ==
  /\ phase = "visit" /\ queue # <<>>
  /\ Accepts(Head(queue))
  /\ policy' = IF Head(queue).edge = "level" THEN "comb_or_latch" ELSE "ff"
  /\ events' = Append(events, Head(queue))
  /\ queue' = Tail(queue)
  /\ UNCHANGED <<text, todo, phase, assigned, reported, spec, runVars>>

IgnoreTiming ==
  /\ phase = "visit" /\ queue # <<>>
  /\ ~Accepts(Head(queue))
  /\ reported' = TRUE
  /\ queue' = Tail(queue)
  /\ UNCHANGED <<text, policy, todo, events, phase, assigned, spec, runVars>>

VisitBody ==
  /\ phase = "visit" /\ queue = <<>> /\ todo = <<>>
  /\ assigned' = TRUE
  /\ phase' = "visited"
  /\ UNCHANGED <<text, policy, todo, queue, events, reported, spec, runVars>>

-----------------------------------------------------------------------------
(* The rest of handle(ProceduralBlockSymbol), and get_timing_spec.         *)

SettlePolicy ==
  /\ phase = "visited"
  /\ policy = "undecided"
  /\ policy' = "comb_or_latch"
  /\ reported' = TRUE
  /\ UNCHANGED <<text, todo, queue, events, phase, assigned, spec, runVars>>

BugFinishCombinational ==
  /\ phase = "visited"
  /\ policy # "ff"
  /\ phase' = "run"
  /\ UNCHANGED <<text, policy, todo, queue, events, assigned, reported, spec, runVars>>

FinishCombinational ==
  /\ phase = "visited"
  /\ policy \notin {"ff", "undecided"}
  /\ phase' = "run"
  /\ UNCHANGED <<text, policy, todo, queue, events, assigned, reported, spec, runVars>>

Named(e) == e.edge # "level" /\ e.name # NoName

IsUsed(e) == assigned /\ \E q \in Output : e.name \in text.body[q].mentions

ClockOnly == Len(events) = 1 /\ Named(events[1])

(* Event i of two is the reset: outputs depend on it, and on it alone.     *)
ResetIs(i) ==
  /\ Len(events) = 2 /\ Named(events[1]) /\ Named(events[2])
  /\ IsUsed(events[i]) /\ ~IsUsed(events[3 - i])

FinishClocked ==
  /\ phase = "visited" /\ policy = "ff"
  /\ \/ ClockOnly /\ spec' = [clk |-> events[1], rst |-> NoEvent]
     \/ \E i \in 1..2 : ResetIs(i) /\ spec' = [clk |-> events[3 - i], rst |-> events[i]]
  /\ phase' = "run"
  /\ UNCHANGED <<text, policy, todo, queue, events, assigned, reported, runVars>>

(* No register: the outputs are dumped as combinational ones.              *)
FinishInvalid ==
  /\ phase = "visited" /\ policy = "ff"
  /\ ~ClockOnly /\ ~ResetIs(1) /\ ~ResetIs(2)
  /\ reported' = TRUE
  /\ phase' = "run"
  /\ UNCHANGED <<text, policy, todo, queue, events, assigned, spec, runVars>>

-----------------------------------------------------------------------------
(* The dump of a register (emit_sequential): one copy of the data for the  *)
(* reset's active value and one for the other, each without the            *)
(* multiplexers that value decides (lookup_assumed_condition).             *)

Pick(e, cond, s, r) == IF cond # e.inverted THEN e.then[<<s, r>>] ELSE e.else[<<s, r>>]

Value(e, s, r) ==
  IF e.cond = NoName THEN e.then[<<s, r>>] ELSE Pick(e, s[e.cond], s, r)

Assuming(e, name, v, s, r) == IF e.cond = name THEN Pick(e, v, s, r) ELSE Value(e, s, r)

BugRegisterData(e, rst, s, r) ==
  LET asserted == rst.edge = "posedge"
  IN  IF rst = NoEvent THEN Value(e, s, r)
      ELSE Assuming(e, rst.name, s[rst.name] = asserted, s, r)

RegisterData(e, rst, s, r) ==
  LET resetValue == rst.edge = "posedge"
      guard == IF rst.edge = "negedge" THEN ~s[rst.name] ELSE s[rst.name]
  IN  IF rst = NoEvent THEN Value(e, s, r)
      ELSE Assuming(e, rst.name, IF guard THEN resetValue ELSE ~resetValue, s, r)

-----------------------------------------------------------------------------
(* Running: one signal changes at a time.                                  *)

Edge(e, x, now) ==
  /\ e.name = x
  /\ \/ e.edge = "posedge" /\ now[x]
     \/ e.edge = "negedge" /\ ~now[x]
     \/ e.edge = "edge"

(* The text.  A block with an edge-sensitive event is executed when one of *)
(* its events occurs, any other whenever a signal changes.                 *)
EventsOf(t) == IF t.timing = <<>> THEN <<>> ELSE t.timing[1].events

Sequential(t) ==
  t.kind = "always_ff" \/ \E k \in DOMAIN EventsOf(t) : EventsOf(t)[k].edge # "level"

Executed(t, x, now) ==
  \/ ~Sequential(t)
  \/ \E k \in DOMAIN EventsOf(t) : Edge(EventsOf(t)[k], x, now) /\ EventsOf(t)[k].iff[now]

(* The dump: always @(clk or rst) for a register, always @( * ) otherwise.  *)
Sensitive(x, now) == spec = NoSpec \/ Edge(spec.clk, x, now) \/ Edge(spec.rst, x, now)

Dumped(e, s, r) == RegisterData(e, spec.rst, s, r)

Change(x) ==
  LET now == [signals EXCEPT ![x] = ~@]
  IN  /\ phase = "run"
      /\ signals' = now
      /\ held' = IF Executed(text, x, now)
                 THEN [q \in Output |-> Value(text.body[q], now, held)] ELSE held
      /\ dumped' = IF assigned /\ Sensitive(x, now)
                   THEN [q \in Output |-> Dumped(text.body[q], now, dumped)] ELSE dumped
      /\ UNCHANGED loweringVars

-----------------------------------------------------------------------------
InitialPolicy(kind) ==
  CASE kind = "always_comb" -> "comb"
    [] kind = "always_latch" -> "latch"
    [] kind = "always_ff" -> "ff"
    [] kind = "always" -> "undecided"

Init ==
  /\ text \in Texts
  /\ policy = InitialPolicy(text.kind)
  /\ todo = text.timing
  /\ queue = <<>>
  /\ events = <<>>
  /\ phase = "visit"
  /\ assigned = FALSE
  /\ reported = FALSE
  /\ spec = NoSpec
  /\ signals = [x \in Signal |-> FALSE]
  /\ held = [q \in Output |-> PowerUp]
  /\ dumped = held

Next ==
  \/ IgnoreTimed
  \/ VisitImplicit
  \/ VisitEvents
  \/ AddTiming
  \/ IgnoreTiming
  \/ VisitBody
  \/ SettlePolicy
  \/ FinishCombinational
  \/ FinishClocked
  \/ FinishInvalid
  \/ \E x \in Signal : Change(x)

Spec == Init /\ [][Next]_vars

-----------------------------------------------------------------------------
(* Properties.                                                             *)

(* The types; and a block is finished only once its policy is settled.     *)
TypeOK ==
  /\ text \in Texts
  /\ policy \in {"comb", "latch", "ff", "comb_or_latch", "undecided"}
  /\ todo \in Seq(Timing)
  /\ queue \in Seq(Event)
  /\ events \in Seq(Event)
  /\ phase \in {"visit", "visited", "run"}
  /\ phase = "run" => policy # "undecided"
  /\ assigned \in BOOLEAN
  /\ reported \in BOOLEAN
  /\ spec \in [clk: Event, rst: Event]
  /\ signals \in Level
  /\ held \in Held
  /\ dumped \in Held

(* The events kept are of one kind, the policy's: get_timing_spec never    *)
(* meets a level among edges, and a block that is dumped as combinational  *)
(* has no edge that would have made it a register, whatever the keyword,   *)
(* the order of the events and the nesting of timed statements.            *)
EventsFitPolicy ==
  /\ policy = "ff" => \A k \in DOMAIN events : events[k].edge \in {"posedge", "negedge", "edge"}
  /\ policy # "ff" => \A k \in DOMAIN events : events[k].edge = "level"

(* Unless something was reported, the dump does what the text does: its    *)
(* registers run at the same events and take the same values, with the     *)
(* multiplexers over the reset left out, whichever event is the reset and  *)
(* whatever its polarity.                                                  *)
ActsAsWritten == phase = "run" /\ ~reported => dumped = held
=============================================================================

---------------------------- MODULE MCProcTiming ----------------------------
(***************************************************************************)
(* Procedural blocks over a clock, a reset and a data signal, all of one   *)
(* bit, with two registers, the second a copy of the first or of the data. *)
(***************************************************************************)
EXTENDS ProcTiming

MCSignal == {"ck", "r", "d"}
MCOutput == {"q", "p"}
MCVal == 0..1

Bit(b) == IF b THEN 1 ELSE 0

Table(f(_, _)) == [x \in Level \X Held |-> f(x[1], x[2]["q"])]

Zero == Table(LAMBDA s, q : 0)
Data == Table(LAMBDA s, q : Bit(s["d"]))
ToggleQ == Table(LAMBDA s, q : 1 - q)
ResetOrData == Table(LAMBDA s, q : Bit(s["r"] \/ s["d"]))
GatedData == Table(LAMBDA s, q : Bit(s["ck"] /\ s["d"]))
Odd == Table(LAMBDA s, q : Bit(s["ck"] # s["r"]))

Mux(mentions, cond, inverted, then, else) ==
  [mentions |-> mentions, cond |-> cond, inverted |-> inverted, then |-> then, else |-> else]

Plain(mentions, table) == Mux(mentions, NoName, FALSE, table, table)

HoldP == [x \in Level \X Held |-> x[2]["p"]]
CopyQ == Table(LAMBDA s, q : q)

BodiesOfQ ==
  {Mux({"r", "d"}, "r", FALSE, Zero, Data),         \* if (r) q <= 0; else q <= d;
   Mux({"r", "d"}, "r", TRUE, Zero, Data),          \* if (!r) q <= 0; else q <= d;
   Mux({"r", "d"}, "r", FALSE, ResetOrData, ToggleQ),
   Mux({"ck", "d"}, "ck", FALSE, GatedData, Data),
   Plain({"d"}, Data), Plain({}, ToggleQ), Plain({"ck", "r"}, Odd)}

BodiesOfP ==
  {Plain({}, CopyQ),
   Mux({"r", "d"}, "r", FALSE, HoldP, Data)}          \* if (!r) p <= d;

MCBodies == {[q |-> b, p |-> c] : b \in BodiesOfQ, c \in BodiesOfP}

On(edge, name) == [edge |-> edge, name |-> name, iff |-> [s \in Level |-> TRUE]]
OnIff(edge, name, x) == [edge |-> edge, name |-> name, iff |-> [s \in Level |-> s[x]]]

Events(list) == [kind |-> "events", events |-> list]
Control(kind) == [kind |-> kind, events |-> <<>>]

Single == {On(k, x) : k \in {"level", "posedge", "negedge", "edge"}, x \in {"ck", "r", NoName}}
          \cup {On("other", NoName)}

Pair == {On(k, x) : k \in {"posedge", "negedge"}, x \in {"ck", "r"}}
        \cup {On("level", "r"), On("posedge", NoName), On("other", NoName)}

Clock == On("posedge", "ck")

MCTimings ==
  {<<>>}
  \cup {<<Control(k)>> : k \in {"implicit", "unsupported", "in_block"}}
  \cup {<<Events(<<e>>)>> : e \in Single}
  \cup {<<Events(<<e, f>>)>> : e \in Pair, f \in Pair}
  \cup {<<Events(<<Clock, On("negedge", "r"), On("posedge", "d")>>)>>,
        <<Events(<<On("other", NoName)>>), Events(<<Clock>>)>>,
        <<Events(<<Clock>>), Events(<<On("posedge", "r")>>)>>,
        <<Control("implicit"), Events(<<Clock>>)>>}

Kinds == {"always_comb", "always_latch", "always_ff", "always"}

MCTexts == [kind: Kinds, timing: MCTimings, body: MCBodies]

(* Texts with an iff condition on the clock.                               *)
MCIffTexts ==
  [kind: {"always_ff", "always"}, body: MCBodies,
   timing: {<<Events(<<OnIff("posedge", "ck", "d")>>)>>, <<Events(<<OnIff("posedge", "ck", "r")>>)>>}]
=============================================================================

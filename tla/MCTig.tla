-------------------------------- MODULE MCTig --------------------------------
(***************************************************************************)
(* Module bodies over an input a, a clock ck, a register q and a net y,    *)
(* with a few members.                                                     *)
(***************************************************************************)
EXTENDS TigLowering

MCName == {"a", "ck", "q", "y", "t0", "t1", "t2", "t3"}
MCEdge == {"pos", "neg"}
MCTemporaries == <<"t0", "t1", "t2", "t3">>
MCInputPorts == {"a", "ck"}
MCOutputPorts == {"q"}

On(clk, edge) == [clk |-> clk, clkEdge |-> edge, rst |-> NoName, rstEdge |-> "pos"]
Resettable(edge) == [clk |-> "ck", clkEdge |-> "pos", rst |-> "a", rstEdge |-> edge]

MCDomain == {On("ck", "pos"), On("ck", "neg"), On("y", "pos"), Resettable("neg")}

Process(reads, writes, domain) == [reads |-> reads, writes |-> writes, domain |-> domain]

(* Two clocked writers of q that agree, two that do not, a clocked writer  *)
(* of both names, a derived clock, and a continuous assignment.            *)
MCProcesses ==
  {Process(<<"a">>, <<"q">>, On("ck", "pos")),
   Process(<<"y">>, <<"q">>, On("ck", "neg")),
   Process(<<"q">>, <<"q", "y">>, Resettable("neg")),
   Process(<<"a">>, <<"q">>, On("y", "pos")),
   Process(<<"q">>, <<"y">>, Comb)}

Conn(how, name) == [how |-> how, name |-> name, converted |-> FALSE]
Converted(name) == [Conn("expr", name) EXCEPT !.converted = TRUE]

MCInstances ==
  {[ins |-> <<Open, Conn("expr", "q")>>, outs |-> <<Conn("expr", "y")>>],
   [ins |-> <<Conn("name", "q"), Open>>, outs |-> <<Open, Conn("name", "y")>>],
   [ins |-> <<>>, outs |-> <<Open, Converted("y")>>]}
=============================================================================

--------------------------- MODULE MCFlattenCalls ---------------------------
(***************************************************************************)
(* Expression graphs with three calls, one in the operands of another, of  *)
(* subroutines that call others, two deep.  Values have two bits.          *)
(***************************************************************************)
EXTENDS FlattenCalls

CONSTANT nothing

MCSignal == {"x", "y"}
MCVal == 0..3
MCFn == {"not", "sub"}

MCApply(f, args) ==
  CASE f = "not" -> 3 - args[1]
    [] f = "sub" -> (4 + args[1] - args[2]) % 4

N(op, ops, what) == [op |-> op, ops |-> ops, width |-> 2, what |-> what]
In == N("input", <<>>, nothing)
Const == N("const", <<>>, nothing)
Do(f, ops) == N("apply", ops, f)
Calling(ops) == N("call", ops, nothing)

(* Every graph starts with the constants zero and one.                     *)
First == <<Const, Const>>

Fn1(rest, inputs, others, called, args, root) ==
  [nodes |-> First \o rest, inputs |-> inputs,
   constants |-> [i \in {1, 2} \cup DOMAIN others |-> IF i \in DOMAIN others THEN others[i] ELSE i - 1],
   calls |-> called, args |-> args, name |-> "result", root |-> root]

NoOthers == [i \in {} |-> 0]
To(id, s) == [id |-> id, sub |-> s]
OfA == [n \in {"a"} |-> 3]

MCSubroutine ==
  [s \in {"pass", "inv", "const", "two", "twice", "unread", "late", "latecall", "missing", "global"} |->
     CASE s = "pass" -> Fn1(<<In>>, OfA, NoOthers, <<>>, <<"a">>, 3)
       [] s = "inv" -> Fn1(<<In, Do("not", <<3>>)>>, OfA, NoOthers, <<>>, <<"a">>, 4)
       [] s = "const" -> Fn1(<<In, Const, Do("sub", <<4, 3>>)>>, OfA, [i \in {4} |-> 3], <<>>, <<"a">>, 5)
       [] s = "two" ->   \* inputs in the order of their first use
            Fn1(<<In, Calling(<<3>>), In, Do("sub", <<4, 5>>), Do("sub", <<6, 3>>)>>,
                [n \in {"a", "b"} |-> IF n = "b" THEN 3 ELSE 5],
                NoOthers, <<To(4, "inv")>>, <<"a", "b">>, 7)
       [] s = "twice" ->
            Fn1(<<In, Calling(<<3>>), Calling(<<4, 3>>)>>, OfA, NoOthers,
                <<To(4, "const"), To(5, "two")>>, <<"a">>, 5)
       [] s = "unread" -> Fn1(<<>>, [n \in {} |-> 0], NoOthers, <<>>, <<"a">>, 2)
       [] s = "late" ->  \* create_logical_binary makes its node before its operands
            Fn1(<<In, Do("sub", <<5, 3>>), Do("not", <<3>>)>>, OfA, NoOthers, <<>>, <<"a">>, 4)
       [] s = "latecall" ->
            Fn1(<<In, Calling(<<3>>), Do("sub", <<7, 4>>), Const, Do("not", <<4>>)>>, OfA,
                [i \in {6} |-> 2], <<To(4, "inv")>>, <<"a">>, 5)
       [] s = "missing" -> Fn1(<<>>, [n \in {} |-> 0], NoOthers, <<>>, <<>>, None)
       [] s = "global" ->  \* reads a signal of the module
            Fn1(<<In, In, Do("sub", <<3, 4>>)>>, [n \in {"a", "y"} |-> IF n = "a" THEN 3 ELSE 4],
                NoOthers, <<>>, <<"a">>, 5)]

MCSub == DOMAIN MCSubroutine

MCDepth == [s \in MCSub |-> IF s = "twice" THEN 2 ELSE IF s \in {"two", "latecall"} THEN 1 ELSE 0]

Call2(s, o, p) == Calling(IF s = "two" THEN <<o, p>> ELSE <<o>>)

GraphOf(s, t, u) ==
  [nodes |-> First \o <<In, In, Call2(s, 3, 4), Call2(t, 5, 4), Call2(u, 4, 6), Do("sub", <<6, 7>>)>>,
   inputs |-> [n \in MCSignal |-> IF n = "x" THEN 3 ELSE 4],
   constants |-> [i \in {1, 2} |-> i - 1],
   calls |-> <<To(5, s), To(6, t), To(7, u)>>]

MCGraphs ==
  LET S == MCSub \ {"global"}
  IN  {GraphOf(s, t, u) : s \in S, t \in S, u \in {"two", "twice", "latecall", "unread"}}

(* A call of a function that reads a signal beside its argument.           *)
MCGlobalGraphs == {GraphOf(s, t, "global") : s \in {"pass", "inv"}, t \in {"pass", "inv"}}
=============================================================================

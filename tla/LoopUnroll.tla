------------------------------ MODULE LoopUnroll ------------------------------
(***************************************************************************)
(* handle(ForLoopStatement): a for loop is unrolled while its process is   *)
(* lowered.  Its condition and its steps are built as expressions of the   *)
(* current values and evaluated as C++ ints; what a step gives is made a   *)
(* constant of the width of its variable.                                  *)
(*                                                                         *)
(* written runs beside it, by the meaning of the text.  The body of the    *)
(* loop does not assign the variables of the loop.                         *)
(***************************************************************************)
EXTENDS ExprNodes

CONSTANTS Var,          \* variables the loop steps
          Type,         \* Type[v]: width and sign
          Loops,        \* the loops that occur
          WarnAt,       \* iterations of a loop that is called large
          MaxIterations \* bound on the iterations followed

VARIABLES
  loop,     \* the statement
  phase,    \* what the handler does next
  at,       \* the initializer or step it is at
  iter,
  contexts, \* contexts it opened and did not merge
  values,   \* name_map_
  written,  \* what the variables hold in the text
  tame,     \* was what it evaluated computed without leaving its type?
  warned,
  reported

vars == <<loop, phase, at, iter, contexts, values, written, tame, warned, reported>>

Final == {"done", "ignored", "aborted"}

-----------------------------------------------------------------------------
(* Expressions: an operator and two operands, variables or literals.  The  *)
(* context of an assignment includes the type of its variable.             *)

IsName(o) == "name" \in DOMAIN o

TypeOf(o) == IF IsName(o) THEN Type[o.name] ELSE [width |-> o.width, sign |-> o.sign]

Context(a, b, w) ==
  [width |-> Wider(w, Wider(TypeOf(a).width, TypeOf(b).width)),
   sign |-> TypeOf(a).sign /\ TypeOf(b).sign]

OperandNode(o, to) ==
  ConvertNode(IF IsName(o) THEN values[o.name] ELSE Const(o.val, o.width, o.sign), to, TRUE)

WrittenOperand(o, to, val) ==
  Converted(IF IsName(o) THEN val[o.name] ELSE o.val, TypeOf(o), to, TRUE)

(* The condition.  (A singleton, as below, to name what is built.)         *)
StopContext == Context(loop.stop.left, loop.stop.right, 1)

StopNodes ==
  {CreateCompare(loop.stop.op, l, r) : l \in {OperandNode(loop.stop.left, StopContext)},
                                       r \in {OperandNode(loop.stop.right, StopContext)}}

Holds(stop, val) ==
  LET to == Context(stop.left, stop.right, 1)
  IN  Compare(stop.op, WrittenOperand(stop.left, to, val), WrittenOperand(stop.right, to, val)) = 1

(* An assignment: the right-hand side in its context ...                   *)
AssignContext(s) == Context(s.left, s.right, Type[s.var].width)

InContextNodes(s) ==
  {CreateBinary(s.op, l, r) : l \in {OperandNode(s.left, AssignContext(s))},
                              r \in {OperandNode(s.right, AssignContext(s))}}

BugRhsNode(s, inner) == inner

(* ... and in the type of the variable.                                    *)
RhsNode(s, inner) == ConvertNode(inner, Type[s.var], FALSE)

WrittenStep(s, val) ==
  LET to == AssignContext(s)
      rhs == Binary(s.op, WrittenOperand(s.left, to, val), WrittenOperand(s.right, to, val),
                    to.width, to.sign)
  IN  [val EXCEPT ![s.var] = Converted(rhs, to, Type[s.var], FALSE)]

(* Operators whose low bits only depend on the low bits of the operands.   *)
Modular == {"+", "-", "*"}

-----------------------------------------------------------------------------
Goto(p, k) == phase' = p /\ at' = k

BugIgnoreLoop == Goto("ignored", 1) /\ reported' = TRUE /\ UNCHANGED contexts

(* Giving up: what is unrolled so far stays, the context is merged.        *)
IgnoreLoop == Goto("ignored", 1) /\ reported' = TRUE /\ contexts' = 0

(* Loop variables get a context and their initial values.                  *)
OpenLoop ==
  /\ phase = "open"
  /\ contexts' = IF loop.declares THEN 1 ELSE 0
  /\ Goto("init", 1)
  /\ UNCHANGED <<loop, iter, values, written, tame, warned, reported>>

(* The value of a variable is the expression itself.                       *)
Initialize ==
  /\ phase = "init"
  /\ at \in DOMAIN loop.inits
  /\ LET s == loop.inits[at] IN
       /\ s.kind = "assign"
       /\ \E inner \in InContextNodes(s) :
            values' = [values EXCEPT ![s.var] = RhsNode(s, inner)]
       /\ written' = WrittenStep(s, written)
  /\ Goto("init", at + 1)
  /\ UNCHANGED <<loop, iter, contexts, tame, warned, reported>>

IgnoreInitializer ==
  /\ phase = "init"
  /\ at \in DOMAIN loop.inits
  /\ loop.inits[at].kind = "other"
  /\ IgnoreLoop
  /\ UNCHANGED <<loop, iter, values, written, tame, warned>>

Initialized ==
  /\ phase = "init"
  /\ at \notin DOMAIN loop.inits
  /\ Goto("warn", 1)
  /\ UNCHANGED <<loop, iter, contexts, values, written, tame, warned, reported>>

-----------------------------------------------------------------------------
IsPowerOfTwo(n) == \E k \in 0 .. n : n = Pow2[k]

Warn ==
  /\ phase = "warn"
  /\ warned' = (warned \/ (iter >= WarnAt /\ IsPowerOfTwo(iter)))
  /\ Goto("stop", 1)
  /\ UNCHANGED <<loop, iter, contexts, values, written, tame, reported>>

IgnoreEndless ==
  /\ phase = "stop"
  /\ ~loop.hasStop
  /\ IgnoreLoop
  /\ UNCHANGED <<loop, iter, values, written, tame, warned>>

(* evaluate asserts on what has no value at compile time.                  *)
Abort(node) == node.known = None /\ Goto("aborted", 1) /\ UNCHANGED <<contexts, tame>>

Test ==
  /\ phase = "stop"
  /\ loop.hasStop
  /\ iter < MaxIterations
  /\ \E stop \in StopNodes :
       \/ Abort(stop)
       \/ /\ stop.known \notin {0, None}
          /\ Goto("body", 1)
          /\ tame' = (tame /\ stop.tame)
          /\ UNCHANGED contexts
       \/ /\ stop.known = 0
          /\ Goto("done", 1)
          /\ tame' = (tame /\ stop.tame)
          /\ contexts' = 0
  /\ UNCHANGED <<loop, iter, values, written, warned, reported>>

VisitBody ==
  /\ phase = "body"
  /\ Goto("step", 1)
  /\ UNCHANGED <<loop, iter, contexts, values, written, tame, warned, reported>>

BugStepValue(rhs) == Const(rhs.known, rhs.width, rhs.sign)

BugUnsignedStepValue(rhs) == Const(Pattern(rhs.known, rhs.width), rhs.width, rhs.sign)

(* The int is cut to the type of the right-hand side (SVInt).              *)
StepValue(rhs) == Const(Fit(rhs.known, rhs.width, rhs.sign), rhs.width, rhs.sign)

Step ==
  /\ phase = "step"
  /\ at \in DOMAIN loop.steps
  /\ loop.steps[at].kind = "assign"
  /\ LET s == loop.steps[at] IN
     \E inner \in InContextNodes(s) : \E rhs \in {RhsNode(s, inner)} :
       \/ /\ Abort(rhs)
          /\ UNCHANGED <<values, written>>
       \/ /\ rhs.known # None
          /\ values' = [values EXCEPT ![s.var] = StepValue(rhs)]
          /\ written' = WrittenStep(s, written)
          /\ tame' = (tame /\ (s.op \in Modular \/ inner.tame))
          /\ Goto("step", at + 1)
          /\ UNCHANGED contexts
  /\ UNCHANGED <<loop, iter, warned, reported>>

(* Anything but an assignment, as i++.                                     *)
IgnoreStep ==
  /\ phase = "step"
  /\ at \in DOMAIN loop.steps
  /\ loop.steps[at].kind = "other"
  /\ IgnoreLoop
  /\ UNCHANGED <<loop, iter, values, written, tame, warned>>

BugStepped ==
  /\ phase = "step"
  /\ at \notin DOMAIN loop.steps
  /\ Goto("warn", 1)
  /\ UNCHANGED <<loop, iter, contexts, values, written, tame, warned, reported>>

Stepped ==
  /\ phase = "step"
  /\ at \notin DOMAIN loop.steps
  /\ iter' = iter + 1
  /\ Goto("warn", 1)
  /\ UNCHANGED <<loop, contexts, values, written, tame, warned, reported>>

-----------------------------------------------------------------------------
(* A variable the loop does not initialize has no value at compile time.   *)
Init ==
  /\ loop \in Loops
  /\ phase = "open"
  /\ at = 1
  /\ iter = 0
  /\ contexts = 0
  /\ values = [v \in Var |-> Opaque(Type[v].width, Type[v].sign, [e \in Env |-> X])]
  /\ written = [v \in Var |-> X]
  /\ tame = TRUE
  /\ warned = FALSE
  /\ reported = FALSE

Next ==
  \/ OpenLoop
  \/ Initialize
  \/ IgnoreInitializer
  \/ Initialized
  \/ Warn
  \/ IgnoreEndless
  \/ Test
  \/ VisitBody
  \/ Step
  \/ IgnoreStep
  \/ Stepped

(* The handler runs until it returns.                                      *)
Spec == Init /\ [][Next]_vars /\ WF_vars(Next)

-----------------------------------------------------------------------------
(* Properties.                                                             *)

LoopTypeOK ==
  /\ phase \in Final \cup {"open", "init", "warn", "stop", "body", "step"}
  /\ at \in Nat /\ iter \in 0 .. MaxIterations /\ contexts \in {0, 1}
  /\ \A v \in Var :
       /\ values[v].width = Type[v].width /\ values[v].sign = Type[v].sign
       /\ \A e \in Env : values[v].val[e] \in Values(Type[v].width, Type[v].sign) \cup {X}
       /\ written[v] \in Values(Type[v].width, Type[v].sign) \cup {X}
  /\ tame \in BOOLEAN /\ warned \in BOOLEAN /\ reported \in BOOLEAN

(* The body is unrolled for the values the text runs it with, and the loop *)
(* is left when the text leaves it: ints that grow beyond a variable wrap  *)
(* around with it.  Claimed as long as no condition, and no step with an   *)
(* operator that looks at high bits, was computed beyond its type.         *)
IterationsAsWritten ==
  tame =>
    /\ \A v \in Var, e \in Env : written[v] # X => values[v].val[e] = written[v]
    /\ phase \in {"body", "done"} => (phase = "body") = Holds(loop.stop, written)

(* The assertion of evaluate is met only if something the condition or a   *)
(* step reads is unknown at compile time or is beyond the int that         *)
(* evaluates it.                                                           *)
AbortsOnlyBeyondInt ==
  phase = "aborted" /\ tame =>
    \E s \in {loop.stop} \cup {loop.steps[k] : k \in DOMAIN loop.steps} :
      \E o \in {s.left, s.right} : (IF IsName(o) THEN written[o.name] ELSE o.val) \notin Ints

(* Every way out of the handler merges the context it opened; an open one  *)
(* would take over the statements after the loop.                          *)
ContextIsClosed == phase \in {"done", "ignored"} => contexts = 0

(* No loop is unrolled for ever in silence: the handler returns, or meets  *)
(* its assertion, or has warned that the loop is large.                    *)
UnrollingEnds == <>(phase \in Final \/ warned)
=============================================================================

------------------------------ MODULE PackedAssign ------------------------------
(***************************************************************************)
(* build_assignment and lower_lhs_assignment for blocking assignments to   *)
(* packed variables: the node of the right-hand side becomes the current   *)
(* value of the variables on the left-hand side.                           *)
(*                                                                         *)
(* A target is a name and the selects applied to it, from the left.  The   *)
(* index of a select is a literal or a name.  Several targets make a       *)
(* concatenation.  A compound assignment reads its target first, as the    *)
(* expression it abbreviates does.                                         *)
(***************************************************************************)
EXTENDS ExprLowering

CONSTANT LeftHandSides \* sequences of targets

-----------------------------------------------------------------------------
(* The types along a target, the whole variable's first.                   *)
Types(t) ==
  LET type[k \in 0 .. Len(t.path)] ==
        IF k = 0 THEN Type[t.name] ELSE SelectType(type[k - 1], t.path[k])
  IN  type

TargetType(t) == Types(t)[Len(t.path)]

IsIndexed(sel) == sel.kind # "simple"

ReadsName(sel) == IsIndexed(sel) /\ "name" \in DOMAIN sel.index

IndexEntry(sel) ==
  IF ~IsIndexed(sel) THEN LiteralEntry([val |-> 0, width |-> 1, sign |-> FALSE])
  ELSE IF ReadsName(sel) THEN NameEntry(sel.index.name)
  ELSE LiteralEntry(sel.index)

IndexNames(t) == {t.path[k].index.name : k \in {k \in DOMAIN t.path : ReadsName(t.path[k])}}

(* Selects slang accepts; the indices of a concatenation are not among its *)
(* targets, the order of their evaluation is open.                         *)
LegalTargets(ts) ==
  /\ \A k \in DOMAIN ts : \A j \in DOMAIN ts[k].path :
       LET type == Types(ts[k])[j - 1] sel == ts[k].path[j]
       IN  LegalSelect(type, sel) /\ (sel.kind # "element" => Head(type.dims).width = 1)
  /\ Len(ts) > 1 => {ts[k].name : k \in DOMAIN ts} \cap UNION {IndexNames(ts[k]) : k \in DOMAIN ts} = {}

ASSUME TargetAssumption ==
  \A ts \in LeftHandSides : LegalTargets(ts) /\ Len(ts) >= 1

-----------------------------------------------------------------------------
(* What is written.                                                        *)

(* The value of a variable that was x after y is written to the target:    *)
(* the value of every selected part, from the innermost, with what is      *)
(* written inside it.                                                      *)
Updated(t, x, y, index) ==
  LET type == Types(t)
      last == Len(t.path)
      pos(k) == WrittenPosition(type[k - 1], t.path[k], index[k])
      part[k \in 0 .. last] ==
        IF k = 0 THEN x
        ELSE Select(part[k - 1], type[k - 1].width, pos(k), type[k].width, type[k].sign)
      new[k \in 0 .. last] ==
        IF k = last THEN y
        ELSE Write(part[k], type[k].width, type[k].sign, pos(k + 1), new[k + 1], type[k + 1].width)
  IN  new[0]

(* Does every select lie inside what it selects from?                      *)
Inside(t, index) ==
  \A k \in DOMAIN t.path :
    LET type == Types(t)[k - 1]
        pos == WrittenPosition(type, t.path[k], index[k])
    IN  pos \in 0 .. type.width - SelectType(type, t.path[k]).width

IsBit(t) == Len(t.path) = 1 /\ t.path[1].kind = "element" /\ TargetType(t).width = 1

WrittenUpdate(t, x, y, index) ==
  IF (\E k \in DOMAIN index : index[k] = X) \/ ~(Inside(t, index) \/ IsBit(t))
  THEN X ELSE Updated(t, x, y, index)

-----------------------------------------------------------------------------
(* The lowering of one target.                                             *)

(* The offset a select adds to the base.                                   *)
SelectOffset(sel, index, type) ==
  LET dim == Head(type.dims)
      pos == NormalizeIndexExpr(index, dim.left, dim.right,
                                IF sel.kind = "element" THEN 0 ELSE IndexOffset(sel, sel.count, dim))
      right == NormalizeIndex(sel.right, dim.left, dim.right)
  IN  IF sel.kind = "simple" THEN Const(right, MinimumUnsignedWidth(right), FALSE)
      ELSE IF sel.kind = "element" /\ dim.width # 1
      THEN CreateBinary("*", pos, Decimal(dim.width, type.width))
      ELSE pos

(* assign_rec goes from the last select to the name.                       *)
TargetBase(t) ==
  LET base[k \in 0 .. Len(t.path)] ==
        IF k = Len(t.path) THEN ConstantZero
        ELSE CreateBinary("+", base[k + 1],
                          SelectOffset(t.path[k + 1], IndexEntry(t.path[k + 1]).node, Types(t)[k]))
  IN  base[0]

BugFinalizePackedUpdate(type, current, next, base) ==
  IF next.width # type.width \/ base.known # 0
  THEN CreateMaskedAssign(current, next, base, type.width, type.sign)
  ELSE next

(* A write of the whole variable keeps nothing of its current value.       *)
FinalizePackedUpdate(type, current, next, base) ==
  IF next.width # type.width \/ base.known # 0
  THEN CreateMaskedAssign(current, next, base, type.width, type.sign)
  ELSE IF next.sign # type.sign THEN CreateConvert(next, type.width, type.sign)
  ELSE next

(* The part of the right-hand side that goes to a target, when its lower   *)
(* bits are still to be consumed.                                          *)
BugRhsNode(rhs, w, remaining) ==
  IF w = rhs.width THEN rhs
  ELSE CreateRange(rhs, Const(rhs.width - remaining, MinimumUnsignedWidth(rhs.width - remaining), FALSE),
                   w, FALSE)

RhsNode(rhs, w, remaining) ==
  IF w = rhs.width THEN rhs
  ELSE CreateRange(rhs, Const(remaining - w, MinimumUnsignedWidth(remaining - w), FALSE), w, FALSE)

InConcat(node, type) == IF node.sign # type.sign THEN CreateConvert(node, type.width, type.sign) ELSE node

(* One round of the loop over the targets: vs and wr are the values so far,*)
(* remaining what is left of the right-hand side.                          *)
AssignTarget(so, t, rhs, in_concat) ==
  LET type == TargetType(t)
      part == RhsNode(rhs.node, type.width, so.remaining)
      next == IF in_concat THEN InConcat(part, type) ELSE part
      y(e) == IF type.width = rhs.src.width THEN rhs.src.val[e]
              ELSE Select(rhs.src.val[e], rhs.src.width, so.remaining - type.width, type.width, FALSE)
      index(e) == [k \in DOMAIN t.path |-> IndexEntry(t.path[k]).src.val[e]]
  IN  [values |-> [so.values EXCEPT ![t.name] =
                     FinalizePackedUpdate(Type[t.name], @, next, TargetBase(t))],
       written |-> [so.written EXCEPT ![t.name] =
                      [e \in Env |-> WrittenUpdate(t, @[e], y(e), index(e))]],
       remaining |-> so.remaining - type.width]

AssignTargets(ts, rhs) ==
  LET after[k \in 0 .. Len(ts)] ==
        IF k = 0 THEN [values |-> values, written |-> written, remaining |-> rhs.src.width]
        ELSE AssignTarget(after[k - 1], ts[k], rhs, Len(ts) > 1)
  IN  after[Len(ts)]

(* The right-hand side has the type of the left-hand side.                 *)
Fits(ts, src) ==
  /\ src.width = MapThenSumSet(LAMBDA k : TargetType(ts[k]).width, DOMAIN ts)
  /\ src.sign = IF Len(ts) = 1 THEN TargetType(ts[1]).sign ELSE FALSE

Assignment ==
  /\ Depth = 1
  /\ \E ts \in LeftHandSides :
       /\ Fits(ts, Top.src)
       /\ \E after \in {AssignTargets(ts, Top)} :
            values' = after.values /\ written' = after.written
  /\ stack' = <<>>
  /\ steps' = steps + 1
  /\ UNCHANGED reported

Next == steps < MaxSteps /\ (LowerExpression \/ Assignment)

Spec == Init /\ [][Next]_vars

-----------------------------------------------------------------------------
(* Properties.                                                             *)

KnownValues(w, s) == Values(w, s) \cup {X}

NodeOK(n) ==
  /\ n.op \in {"input", "const", "temp"}
  /\ n.width \in Nat \ {0}
  /\ n.sign \in BOOLEAN
  /\ \A e \in Env : n.val[e] \in KnownValues(n.width, n.sign)
  /\ n.known \in Ints \cup {None}
  /\ n.tame \in BOOLEAN

(* Temporaries, variables and what is written hold values of their types.  *)
ExprTypeOK ==
  /\ \A k \in DOMAIN stack :
       /\ NodeOK(stack[k].node)
       /\ \A e \in Env : stack[k].src.val[e] \in KnownValues(stack[k].src.width, stack[k].src.sign)
  /\ \A n \in Name : NodeOK(values[n])
  /\ \A n \in Name, e \in Env : written[n][e] \in KnownValues(Type[n].width, Type[n].sign)
  /\ reported \in BOOLEAN
  /\ steps \in 0 .. MaxSteps

(* The width and sign the builder derives for a node from its operands are *)
(* those slang gave the expression, and those of a variable survive every  *)
(* assignment to it or a part of it: expr_builder.cpp derives them by rule *)
(* (the wider operand, signed if all are), nothing in it sees the types.   *)
DerivedTypesAgree ==
  /\ \A k \in DOMAIN stack :
       /\ stack[k].node.width = stack[k].src.width
       /\ stack[k].node.sign = stack[k].src.sign
  /\ \A n \in Name : values[n].width = Type[n].width /\ values[n].sign = Type[n].sign

(* The text printed for an expression computes what the expression means,  *)
(* whatever the inputs are, unless it was reported as replaced with zero:  *)
(* conversions, positions of selects, operand order and the types of the   *)
(* temporaries the text goes through all have to be right at once.         *)
LoweredAsWritten ==
  reported \/
  \A k \in DOMAIN stack, e \in Env :
    stack[k].src.val[e] # X => stack[k].node.val[e] = stack[k].src.val[e]

(* A variable holds what the assignments so far wrote to it: a write of    *)
(* selected bits keeps the other ones, the parts of the right-hand side go *)
(* to their targets of a concatenation in order, and a bit written outside *)
(* of its vector changes nothing.                                          *)
ValuesAsWritten ==
  reported \/
  \A n \in Name, e \in Env : written[n][e] # X => values[n].val[e] = written[n][e]

(* What try_evaluate finds at compile time, to decide an if or to see that *)
(* a select covers its operand, is the value of the expression, as long as *)
(* no int on the way leaves the type of its node.                          *)
FoldedAsWritten ==
  reported \/
  \A k \in DOMAIN stack :
    stack[k].node.known # None /\ stack[k].node.tame =>
      \A e \in Env : stack[k].src.val[e] \in {X, stack[k].node.known}
=============================================================================

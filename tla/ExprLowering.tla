----------------------------- MODULE ExprLowering -----------------------------
(***************************************************************************)
(* SlangExprLoweringVisitor: the expressions of straight-line code are     *)
(* visited in post-order and leave their nodes on a stack.                 *)
(*                                                                         *)
(* An entry of the stack has the node and, beside it, the expression as it *)
(* is written: the type slang gave it and its value for every valuation of *)
(* the inputs.  The tree slang hands over is typed: operands of an         *)
(* operator that are evaluated in one context have one type, by            *)
(* conversions that are nodes of the tree.  The guards say so.             *)
(***************************************************************************)
EXTENDS ExprNodes

CONSTANTS Name,      \* variables of the module
          Type,      \* Type[n]: width, sign and packed dimensions of n
          Literals,  \* literals and parameters: value, width and sign
          Unhandled, \* expressions without a handler: value, width and sign
          Casts,     \* types of conversions: width and sign
          Divergent, \* the forms listed in Forms that occur
          MaxWidth,  \* bound on the widths of concatenations
          MaxDepth,  \* bound on the stack
          MaxSteps   \* bound on the number of expressions and assignments

(* Forms whose dump is known to differ from the source:                    *)
(*   "unsigned >>>"      the arithmetic shift of an unsigned operand       *)
(*   "negated constant"  the minus of a negative constant                  *)
(*   "least constant"    the least value of a signed type as a constant    *)
(*   "whole signed"      a select of all bits of a signed operand          *)
(*   "elements"          a range of elements that are wider than a bit     *)
Forms == {"unsigned >>>", "negated constant", "least constant", "whole signed", "elements"}

(* A dimension has a range and the type of its elements.                   *)
Dimension == [left : Int, right : Int, width : Nat \ {0}, sign : BOOLEAN]

ASSUME TypeAssumption ==
  /\ \A n \in Name : Type[n].width \in Nat \ {0} /\ Type[n].sign \in BOOLEAN
  /\ \A n \in Name : \A k \in DOMAIN Type[n].dims : Type[n].dims[k] \in Dimension
  /\ \A e \in Env, n \in Name : e[n] \in Values(Type[n].width, Type[n].sign)
  /\ Divergent \subseteq Forms

VARIABLES
  stack,    \* expr_stack_, with what is written
  values,   \* name_map_: the current value of every variable
  written,  \* the value every variable has at this point of the source
  reported, \* was an expression replaced with zero?
  steps

vars == <<stack, values, written, reported, steps>>

-----------------------------------------------------------------------------
Depth == Len(stack)
Top == stack[Depth]
Below == stack[Depth - 1]

Source(w, s, dims, val) == [width |-> w, sign |-> s, dims |-> dims, val |-> val]

Plain(w, s, val) == Source(w, s, <<>>, val)

Entry(node, src) == [node |-> node, src |-> src]

SameType(a, b) == a.src.width = b.src.width /\ a.src.sign = b.src.sign

(* The handlers of an expression with n operands replace their entries.    *)
Replace(n, entry) ==
  /\ Depth - n < MaxDepth
  /\ steps' = steps + 1
  /\ stack' = SubSeq(stack, 1, Depth - n) \o <<entry>>
  /\ UNCHANGED <<values, written>>

Lower(n, entry) == Depth >= n /\ Replace(n, entry) /\ UNCHANGED reported

-----------------------------------------------------------------------------
(* Leaves.                                                                 *)

IsLeast(l) == l.sign /\ l.val = -Pow2[l.width - 1]

LiteralEntry(l) ==
  Entry(Const(l.val, l.width, l.sign), Plain(l.width, l.sign, [e \in Env |-> l.val]))

Literal ==
  \E l \in Literals :
    /\ IsLeast(l) => "least constant" \in Divergent
    /\ Lower(0, LiteralEntry(l))

(* A name stands for its current value.                                    *)
NameEntry(n) ==
  Entry(values[n], Source(Type[n].width, Type[n].sign, Type[n].dims, written[n]))

NamedValue == \E n \in Name : Lower(0, NameEntry(n))

(* An expression without a handler, whatever its value is, is replaced     *)
(* with zero and reported.                                                 *)
Unsupported ==
  \E l \in Unhandled :
    /\ Replace(0, Entry(CreateConvert(ConstantZero, l.width, l.sign), LiteralEntry(l).src))
    /\ reported' = TRUE

-----------------------------------------------------------------------------
(* Conversions.                                                            *)

Conversion ==
  /\ Depth >= 1
  /\ \E to \in Casts, propagated \in BOOLEAN :
       /\ propagated => to.width >= Top.src.width
       /\ Lower(1, Entry(ConvertNode(Top.node, to, propagated),
                         Plain(to.width, to.sign,
                               [e \in Env |-> Converted(Top.src.val[e], Top.src, to, propagated)])))

-----------------------------------------------------------------------------
(* Operators.                                                              *)

UnaryNode(op, n) ==
  CASE op \in {"&", "|", "^"} -> CreateReduce(op, n)
    [] op = "~&" -> CreateLogicalNot(CreateReduce("&", n))
    [] op = "~|" -> CreateLogicalNot(CreateReduce("|", n))
    [] op = "~^" -> CreateLogicalNot(CreateReduce("^", n))
    [] op = "!" -> CreateLogicalNot(n)

WrittenUnary(op, x, w) ==
  Strict({x}, CASE op \in {"&", "|", "^"} -> Reduce(op, x, w)
                [] op = "~&" -> 1 - Reduce("&", x, w)
                [] op = "~|" -> 1 - Reduce("|", x, w)
                [] op = "~^" -> 1 - Reduce("^", x, w)
                [] op = "!" -> Truth(x = 0))

(* Reductions and ! give a bit.                                            *)
BitUnary ==
  /\ Depth >= 1
  /\ \E op \in {"&", "|", "^", "~&", "~|", "~^", "!"} :
       Lower(1, Entry(UnaryNode(op, Top.node),
                      Plain(1, FALSE,
                            [e \in Env |-> WrittenUnary(op, Top.src.val[e], Top.src.width)])))

NumberUnary ==
  /\ Depth >= 1
  /\ \E op \in {"-", "~"} :
       /\ PrintsDecrement(op, Top.node) => "negated constant" \in Divergent
       /\ Lower(1, Entry(CreateUnary(op, Top.node),
                         Plain(Top.src.width, Top.src.sign,
                               [e \in Env |->
                                  Unary(op, Top.src.val[e], Top.src.width, Top.src.sign)])))

ContextBinary ==
  /\ Depth >= 2
  /\ SameType(Below, Top)
  /\ \E op \in BitwiseOps \cup NumberOps :
       Lower(2, Entry(CreateBinary(op, Below.node, Top.node),
                      Plain(Top.src.width, Top.src.sign,
                            [e \in Env |-> Binary(op, Below.src.val[e], Top.src.val[e],
                                                  Top.src.width, Top.src.sign)])))

LogicalBinary ==
  /\ Depth >= 2
  /\ \E op \in {"&", "|"} :
       Lower(2, Entry(CreateLogicalBinary(op, Below.node, Top.node),
                      Plain(1, FALSE,
                            [e \in Env |-> LET x == Below.src.val[e] y == Top.src.val[e] IN
                               Strict({x, y}, Truth(IF op = "&" THEN x # 0 /\ y # 0
                                                    ELSE x # 0 \/ y # 0))])))

(* The right operand of a shift has a type of its own.                     *)
ShiftBinary ==
  /\ Depth >= 2
  /\ \E op \in ShiftOps :
       /\ op = ">>>" /\ ~Below.src.sign => "unsigned >>>" \in Divergent
       /\ Lower(2, Entry(CreateShift(op, Below.node, Top.node),
                         Plain(Below.src.width, Below.src.sign,
                               [e \in Env |->
                                  LET y == Top.src.val[e] IN
                                  Shift(op, Below.src.val[e],
                                        Strict({y}, Pattern(y, Top.src.width)),
                                        Below.src.width, Below.src.sign)])))

CompareNode(op, a, b) ==
  CASE op \in CompareOps -> CreateCompare(op, a, b)
    [] op = "!=" -> CreateLogicalNot(CreateCompare("==", a, b))
    [] op = ">" -> CreateCompare("<", b, a)
    [] op = ">=" -> CreateCompare("<=", b, a)

WrittenCompare(op, x, y) ==
  Strict({x, y}, Truth(CASE op = "==" -> x = y
                         [] op = "!=" -> x # y
                         [] op = "<" -> x < y
                         [] op = "<=" -> x <= y
                         [] op = ">" -> x > y
                         [] op = ">=" -> x >= y))

CompareBinary ==
  /\ Depth >= 2
  /\ SameType(Below, Top)
  /\ \E op \in {"==", "!=", "<", "<=", ">", ">="} :
       Lower(2, Entry(CompareNode(op, Below.node, Top.node),
                      Plain(1, FALSE, [e \in Env |->
                         WrittenCompare(op, Below.src.val[e], Top.src.val[e])])))

Conditional ==
  /\ Depth >= 3
  /\ SameType(Below, Top)
  /\ LET cond == stack[Depth - 2]
     IN  Lower(3, Entry(CreateMux(cond.node, Below.node, Top.node),
                        Plain(Top.src.width, Top.src.sign,
                              [e \in Env |-> LET c == cond.src.val[e] IN
                                 Strict({c}, IF c = 0 THEN Top.src.val[e] ELSE Below.src.val[e])])))

(* {a, b}, and {n{a}}.                                                     *)
ConcatEntry(operands) ==
  LET w == MapThenSumSet(LAMBDA k : operands[k].src.width, DOMAIN operands)
      parts(e) == [k \in DOMAIN operands |->
                     [width |-> operands[k].src.width, val |-> operands[k].src.val[e]]]
  IN  Entry(CreateConcat([k \in DOMAIN operands |-> operands[k].node], FALSE),
            Plain(w, FALSE, [e \in Env |-> Concatenation(parts(e))]))

ConcatenationExpression ==
  \E n \in 1 .. Depth :
    LET operands == SubSeq(stack, Depth - n + 1, Depth)
    IN  /\ ConcatEntry(operands).src.width <= MaxWidth
        /\ Lower(n, ConcatEntry(operands))

Replication ==
  /\ Depth >= 1
  /\ \E n \in 1 .. MaxWidth :
       /\ n * Top.src.width <= MaxWidth
       /\ Lower(1, ConcatEntry([k \in 1 .. n |-> Top]))

-----------------------------------------------------------------------------
(* Selects, of a name or of an element of one.  A select has the index or  *)
(* the indices it is written with.                                         *)

SelectKinds == {"element", "simple", "up", "down"}

Descending(dim) == dim.left >= dim.right

(* The number of elements right of the rightmost selected one, when the    *)
(* index has the value i: of a[i +: n] with an ascending range that is the *)
(* element i + n - 1.                                                      *)
Rightmost(sel, i, dim) ==
  CASE sel.kind = "element" -> NormalizeIndex(i, dim.left, dim.right)
    [] sel.kind = "simple" -> NormalizeIndex(sel.right, dim.left, dim.right)
    [] sel.kind = "up" ->
         NormalizeIndex(IF Descending(dim) THEN i ELSE i + sel.count - 1, dim.left, dim.right)
    [] sel.kind = "down" ->
         NormalizeIndex(IF Descending(dim) THEN i - sel.count + 1 ELSE i, dim.left, dim.right)

Count(sel, dim) ==
  CASE sel.kind = "element" -> 1
    [] sel.kind = "simple" ->
         NormalizeIndex(sel.left, dim.left, dim.right)
           - NormalizeIndex(sel.right, dim.left, dim.right) + 1
    [] OTHER -> sel.count

(* The type of a select; a range of elements has no sign and no parts.     *)
SelectType(type, sel) ==
  LET dim == Head(type.dims)
  IN  IF sel.kind = "element"
      THEN [width |-> dim.width, sign |-> dim.sign, dims |-> Tail(type.dims)]
      ELSE [width |-> Count(sel, dim) * dim.width, sign |-> FALSE, dims |-> <<>>]

(* The ranges and counts slang accepts: within the dimension, in its order.*)
Elements(dim) == 1 + Abs(dim.left - dim.right)

LegalSelect(type, sel) ==
  /\ type.dims # <<>>
  /\ LET dim == Head(type.dims) IN
       /\ sel.kind = "simple" =>
            /\ NormalizeIndex(sel.right, dim.left, dim.right) >= 0
            /\ Count(sel, dim) >= 1
            /\ NormalizeIndex(sel.left, dim.left, dim.right) < Elements(dim)
       /\ sel.kind \in {"up", "down"} => sel.count \in 1 .. Elements(dim)

(* Whether the select is among the forms that occur.                       *)
SelectOccurs(type, sel) ==
  LET dim == Head(type.dims) IN
    /\ sel.kind # "element" /\ dim.width > 1 => "elements" \in Divergent
    /\ type.sign /\ Elements(dim) = Count(sel, dim) => "whole signed" \in Divergent

(* The least bit of the select.                                            *)
WrittenPosition(type, sel, i) ==
  LET dim == Head(type.dims) IN Strict({i}, Rightmost(sel, i, dim) * dim.width)

(* The offset that turns the index of an indexed range into its rightmost  *)
(* element.                                                                *)
BugIndexOffset(sel, n, dim) ==
  IF sel.kind = "up" /\ ~Descending(dim) THEN n
  ELSE IF sel.kind = "down" /\ Descending(dim) THEN -n
  ELSE 0

IndexOffset(sel, n, dim) ==
  IF sel.kind = "up" /\ ~Descending(dim) THEN n - 1
  ELSE IF sel.kind = "down" /\ Descending(dim) THEN -(n - 1)
  ELSE 0

(* A decimal literal, which try_evaluate does not read.                    *)
Decimal(v, w) == Node("const", w, FALSE, [e \in Env |-> v], None, TRUE)

ElementNode(data, index, type) ==
  LET dim == Head(type.dims)
      pos == NormalizeIndexExpr(index, dim.left, dim.right, 0)
      bit == CreateBinary("*", pos, Decimal(dim.width, type.width))
  IN  IF type.width = dim.width THEN data
      ELSE IF dim.width = 1 THEN CreateRange(data, pos, 1, FALSE)
      ELSE CreateRange(data, bit, dim.width, dim.sign)

SimpleRangeNode(data, sel, type) ==
  LET dim == Head(type.dims)
      pos == NormalizeIndex(sel.right, dim.left, dim.right)
  IN  IF pos = 0 /\ Count(sel, dim) = data.width THEN data
      ELSE CreateRange(data, Const(pos, MinimumUnsignedWidth(pos), FALSE), Count(sel, dim), FALSE)

IndexedRangeNode(data, index, sel, type) ==
  LET dim == Head(type.dims)
      w == SelectType(type, sel).width
      pos == NormalizeIndexExpr(index, dim.left, dim.right, IndexOffset(sel, w, dim))
  IN  IF w = data.width /\ pos.known = 0 THEN data ELSE CreateRange(data, pos, w, FALSE)

WrittenSelect(src, sel, index) ==
  LET type == SelectType(src, sel)
  IN  Source(type.width, type.sign, type.dims,
             [e \in Env |->
                Select(src.val[e], src.width, WrittenPosition(src, sel, index[e]),
                       type.width, type.sign)])

Selectable(src, sel) == LegalSelect(src, sel) /\ SelectOccurs(src, sel)

ElementSelect ==
  LET sel == [kind |-> "element"] IN
    /\ Depth >= 2
    /\ Selectable(Below.src, sel)
    /\ Lower(2, Entry(ElementNode(Below.node, Top.node, Below.src),
                      WrittenSelect(Below.src, sel, Top.src.val)))

SimpleRangeSelect ==
  /\ Depth >= 1
  /\ Top.src.dims # <<>>
  /\ LET dim == Head(Top.src.dims)
         bounds == IF Descending(dim) THEN dim.right .. dim.left ELSE dim.left .. dim.right
     IN  \E l, r \in bounds :
           LET sel == [kind |-> "simple", left |-> l, right |-> r] IN
             /\ Selectable(Top.src, sel)
             /\ Lower(1, Entry(SimpleRangeNode(Top.node, sel, Top.src),
                               WrittenSelect(Top.src, sel, [e \in Env |-> 0])))

IndexedRangeSelect ==
  /\ Depth >= 2
  /\ Below.src.dims # <<>>
  /\ \E kind \in {"up", "down"}, n \in 1 .. Elements(Head(Below.src.dims)) :
       LET sel == [kind |-> kind, count |-> n] IN
         /\ Selectable(Below.src, sel)
         /\ Lower(2, Entry(IndexedRangeNode(Below.node, Top.node, sel, Below.src),
                           WrittenSelect(Below.src, sel, Top.src.val)))

-----------------------------------------------------------------------------
Init ==
  /\ stack = <<>>
  /\ values = [n \in Name |-> Input(n, Type[n].width, Type[n].sign)]
  /\ written = [n \in Name |-> [e \in Env |-> e[n]]]
  /\ reported = FALSE
  /\ steps = 0

LowerExpression ==
  \/ Literal
  \/ NamedValue
  \/ Unsupported
  \/ Conversion
  \/ BitUnary
  \/ NumberUnary
  \/ ContextBinary
  \/ LogicalBinary
  \/ ShiftBinary
  \/ CompareBinary
  \/ Conditional
  \/ ConcatenationExpression
  \/ Replication
  \/ ElementSelect
  \/ SimpleRangeSelect
  \/ IndexedRangeSelect
=============================================================================

------------------------ MODULE UnpackedArrays_proofs ------------------------
(***************************************************************************)
(* Proofs about UnpackedArrays: a name of Array holds sequences and        *)
(* nothing else, and keeping sequences implements StmtBuilder, which keeps *)
(* whole values; so the process is implemented as well.                    *)
(*                                                                         *)
(* A sequence is Faithful if what it prints is an array.  The sequences of *)
(* an open or parked branch repeat those of the context the branch was     *)
(* opened in (Covers): the writes of the parent can be printed before      *)
(* those of a branch without changing what the branch leaves behind.       *)
(***************************************************************************)
EXTENDS UnpackedArrays, StmtBuilder_proofs, SequenceTheorems, TLAPS

-----------------------------------------------------------------------------
(* What sequences print.                                                   *)

Written(a, writes, p) == IF writes[p] = None THEN Element[a][p] ELSE writes[p]

(* What a name has, when it has an expression at all.                      *)
Faithful(v, id) ==
  IF v \in Array
  THEN /\ id \in Sequence
       /\ \A s \in Sigma :
            /\ Printed(s[v], id[s]) \in Val
            /\ \A p \in Pos : Element[Printed(s[v], id[s])][p] = Written(s[v], id[s], p)
  ELSE id \in Expr

LEMMA PrintedValue ==
  ASSUME NEW a, NEW writes, NEW x \in Val, \A p \in Pos : Written(a, writes, p) = Element[x][p]
  PROVE  Printed(a, writes) = x
<1>1. [p \in Pos |-> IF writes[p] = None THEN Element[a][p] ELSE writes[p]]
        = [p \in Pos |-> Element[x][p]]
  BY DEF Written
<1>2. ArrayOf[[p \in Pos |-> Element[x][p]]] = x
  <2>1. Element[x] \in [Pos -> Val] /\ ArrayOf[Element[x]] = x
    BY ElementsAreValues, ElementsMakeTheArray
  <2>2. [p \in Pos |-> Element[x][p]] = Element[x]
    BY <2>1
  <2>3. QED BY <2>1, <2>2
<1>3. QED BY <1>1, <1>2 DEF Printed

(* A sequence that prints an array whatever the inputs means that array.   *)
LEMMA SequenceOf ==
  ASSUME NEW v \in Array, NEW id \in Sequence, NEW e \in Expr,
         \A s \in Sigma, p \in Pos : Written(s[v], id[s], p) = Element[e[s]][p]
  PROVE  Faithful(v, id) /\ Meaning(v, id) = e
<1>1. \A s \in Sigma : e[s] \in Val
  BY DEF Expr
<1>2. \A s \in Sigma : Printed(s[v], id[s]) = e[s]
  BY <1>1, PrintedValue
<1>3. IsSequence(id)
  BY NothingElseIsNone DEF IsSequence
<1>4. Meaning(v, id) = [s \in Sigma |-> Printed(s[v], id[s])]
  BY <1>3 DEF Meaning
<1>5. [s \in Sigma |-> Printed(s[v], id[s])] = [s \in Sigma |-> e[s]]
  BY <1>2
<1>6. [s \in Sigma |-> e[s]] = e
  BY DEF Expr
<1>7. Faithful(v, id)
  BY <1>1, <1>2 DEF Faithful
<1>8. QED BY <1>4, <1>5, <1>6, <1>7

LEMMA FaithfulMeaning ==
  ASSUME NEW v \in Var, NEW id, Faithful(v, id)
  PROVE  /\ Meaning(v, id) \in Expr /\ Meaning(v, id) # None /\ id # None
         /\ id \in Expr \cup Sequence
         /\ v \in Array => IsSequence(id)
         /\ v \notin Array => Meaning(v, id) = id
<1>1. CASE v \notin Array
  BY <1>1, NoneIsNothing DEF Faithful, Meaning
<1>2. CASE v \in Array
  <2>1. id \in Sequence /\ \A s \in Sigma : Printed(s[v], id[s]) \in Val
    BY <1>2 DEF Faithful
  <2>2. IsSequence(id) /\ id # None
    BY <2>1, NothingElseIsNone DEF IsSequence
  <2>3. Meaning(v, id) = [s \in Sigma |-> Printed(s[v], id[s])]
    BY <1>2, <2>2 DEF Meaning
  <2>4. Meaning(v, id) \in Expr
    BY <2>1, <2>3 DEF Expr
  <2>5. QED BY <1>2, <2>1, <2>2, <2>4, NoneIsNothing
<1>3. QED BY <1>1, <1>2

LEMMA MeaningOfNone ==
  ASSUME NEW v \in Var
  PROVE  Meaning(v, None) = None /\ (v \in Array => Meaning(v, InputNode) = None)
BY DEF Meaning, IsSequence

-----------------------------------------------------------------------------
(* Contexts that hold nodes.                                               *)

Node == Expr \cup Sequence \cup {None, InputNode}

NodeSlot == [id: Expr \cup Sequence, last: BOOLEAN, seen: SUBSET BOOLEAN]

NodeContext == [cur: [Var -> Node], sched: [Var -> Node],
                outs: [Var -> NodeSlot \cup {None}], locals: SUBSET Var]

(* Nothing, or the graph's input of an array.                              *)
Unset(v, id) == id = None \/ (v \in Array /\ id = InputNode)

Sound(ctx) ==
  /\ ctx \in NodeContext
  /\ \A v \in Var :
       /\ Unset(v, ctx.cur[v]) \/ Faithful(v, ctx.cur[v])
       /\ ctx.sched[v] = None \/ Faithful(v, ctx.sched[v])
       /\ v \in Outs(ctx) => Faithful(v, ctx.outs[v].id) /\ ctx.sched[v] = ctx.outs[v].id

LEMMA NodeSlotNotNone == None \notin NodeSlot /\ None \notin Slot
BY NothingElseIsNone, NoneIsNothing DEF NodeSlot

LEMMA FieldsReplaced ==
  ASSUME NEW ctx \in NodeContext, NEW a, NEW b, NEW c
  PROVE  LET new == [ctx EXCEPT !.cur = a, !.sched = b, !.outs = c]
         IN  /\ new.cur = a /\ new.sched = b /\ new.outs = c /\ new.locals = ctx.locals
             /\ new \in [cur: {a}, sched: {b}, outs: {c}, locals: SUBSET Var]
BY DEF NodeContext

ContextFields(cur, sched, outs) ==
  /\ cur \in [Var -> Expr \cup {None}] /\ sched \in [Var -> Expr \cup {None}]
  /\ outs \in [Var -> Slot \cup {None}]

LEMMA MeaningFields ==
  ASSUME NEW ctx \in NodeContext, NEW m, m = MeaningOfContext(ctx)
  PROVE  /\ m.cur = [v \in Var |-> Meaning(v, ctx.cur[v])]
         /\ m.sched = [v \in Var |-> Meaning(v, ctx.sched[v])]
         /\ m.outs = [v \in Var |-> MeaningOfOut(v, ctx.outs[v])]
         /\ m.locals = ctx.locals
         /\ ContextFields(m.cur, m.sched, m.outs) => m \in Context
<1>1. PICK a, b, c : /\ a = [v \in Var |-> Meaning(v, ctx.cur[v])]
                     /\ b = [v \in Var |-> Meaning(v, ctx.sched[v])]
                     /\ c = [v \in Var |-> MeaningOfOut(v, ctx.outs[v])]
  OBVIOUS
<1>2. m = [ctx EXCEPT !.cur = a, !.sched = b, !.outs = c]
  BY <1>1 DEF MeaningOfContext
<1>3. /\ m.cur = a /\ m.sched = b /\ m.outs = c /\ m.locals = ctx.locals
      /\ m \in [cur: {a}, sched: {b}, outs: {c}, locals: SUBSET Var]
  BY ZenonT(30), <1>2, FieldsReplaced
<1>4. ASSUME ContextFields(m.cur, m.sched, m.outs)
      PROVE  m \in Context
  <2>1. PICK l \in SUBSET Var : m = [cur |-> a, sched |-> b, outs |-> c, locals |-> l]
    BY <1>3
  <2>2. QED BY <1>3, <1>4, <2>1 DEF Context, ContextFields
<1>5. m.cur = [v \in Var |-> Meaning(v, ctx.cur[v])]
  BY <1>1, <1>3
<1>6. m.sched = [v \in Var |-> Meaning(v, ctx.sched[v])]
  BY <1>1, <1>3
<1>7. m.outs = [v \in Var |-> MeaningOfOut(v, ctx.outs[v])]
  BY <1>1, <1>3
<1>8. QED BY <1>3, <1>4, <1>5, <1>6, <1>7, Zenon

LEMMA OutFields ==
  ASSUME NEW v \in Var, NEW out \in NodeSlot, Faithful(v, out.id)
  PROVE  /\ MeaningOfOut(v, out) = [id |-> Meaning(v, out.id), last |-> out.last, seen |-> out.seen]
         /\ MeaningOfOut(v, out) \in Slot /\ MeaningOfOut(v, out) # None
<1>1. out # None
  BY NodeSlotNotNone
<1>2. MeaningOfOut(v, out) = [id |-> Meaning(v, out.id), last |-> out.last, seen |-> out.seen]
  BY <1>1 DEF MeaningOfOut, NodeSlot
<1>3. Meaning(v, out.id) \in Expr
  BY FaithfulMeaning
<1>4. QED BY <1>2, <1>3, NodeSlotNotNone DEF Slot, NodeSlot

(* What a context of sequences means, name by name.                        *)
LEMMA MeaningOfSound ==
  ASSUME NEW ctx, Sound(ctx), NEW m, m = MeaningOfContext(ctx)
  PROVE  /\ m \in Context /\ m.locals = ctx.locals /\ Outs(m) = Outs(ctx)
         /\ \A v \in Var : /\ m.cur[v] = Meaning(v, ctx.cur[v])
                           /\ m.sched[v] = Meaning(v, ctx.sched[v])
                           /\ m.outs[v] = MeaningOfOut(v, ctx.outs[v])
                           /\ m.cur[v] = None <=> Unset(v, ctx.cur[v])
                           /\ m.sched[v] = None <=> ctx.sched[v] = None
         /\ \A v \in Outs(ctx) : /\ ctx.outs[v] \in NodeSlot
                                 /\ m.outs[v].id = Meaning(v, ctx.outs[v].id)
                                 /\ m.outs[v].last = ctx.outs[v].last
                                 /\ m.outs[v].seen = ctx.outs[v].seen
<1>1. ctx \in NodeContext
  BY DEF Sound
<1>3. /\ m.cur = [v \in Var |-> Meaning(v, ctx.cur[v])]
      /\ m.sched = [v \in Var |-> Meaning(v, ctx.sched[v])]
      /\ m.outs = [v \in Var |-> MeaningOfOut(v, ctx.outs[v])]
      /\ m.locals = ctx.locals
      /\ ContextFields(m.cur, m.sched, m.outs) => m \in Context
  BY <1>1, MeaningFields
<1>4. ASSUME NEW v \in Var
      PROVE  /\ Meaning(v, ctx.cur[v]) \in Expr \cup {None}
             /\ Meaning(v, ctx.sched[v]) \in Expr \cup {None}
             /\ Meaning(v, ctx.cur[v]) = None <=> Unset(v, ctx.cur[v])
             /\ Meaning(v, ctx.sched[v]) = None <=> ctx.sched[v] = None
  <2>1. Unset(v, ctx.cur[v]) \/ Faithful(v, ctx.cur[v])
    BY DEF Sound
  <2>2. ctx.sched[v] = None \/ Faithful(v, ctx.sched[v])
    BY DEF Sound
  <2>3. ASSUME NEW id, Faithful(v, id)
        PROVE  Meaning(v, id) \in Expr /\ Meaning(v, id) # None /\ id # None /\ ~Unset(v, id)
    <3>1. /\ Meaning(v, id) \in Expr /\ Meaning(v, id) # None /\ id # None
          /\ v \in Array => IsSequence(id)
      BY <2>3, FaithfulMeaning
    <3>2. QED BY <3>1 DEF Unset, IsSequence
  <2>4. \A id : Unset(v, id) => Meaning(v, id) = None
    BY MeaningOfNone DEF Unset
  <2>5. QED BY <2>1, <2>2, <2>3, <2>4, MeaningOfNone
<1>5. ASSUME NEW v \in Var, ctx.outs[v] # None
      PROVE  /\ ctx.outs[v] \in NodeSlot
             /\ MeaningOfOut(v, ctx.outs[v]) =
                  [id |-> Meaning(v, ctx.outs[v].id), last |-> ctx.outs[v].last,
                   seen |-> ctx.outs[v].seen]
             /\ MeaningOfOut(v, ctx.outs[v]) \in Slot /\ MeaningOfOut(v, ctx.outs[v]) # None
  <2>1. ctx.outs[v] \in NodeSlot
    BY <1>1, <1>5 DEF NodeContext
  <2>2. Faithful(v, ctx.outs[v].id)
    BY <1>5 DEF Sound, Outs
  <2>3. PICK out : out = ctx.outs[v]
    OBVIOUS
  <2>4. QED BY <2>1, <2>2, <2>3, OutFields
<1>6. \A v \in Var : ctx.outs[v] = None => MeaningOfOut(v, ctx.outs[v]) = None
  BY DEF MeaningOfOut
<1>7. m \in Context
  <2>1. m.cur \in [Var -> Expr \cup {None}] /\ m.sched \in [Var -> Expr \cup {None}]
    <3>1. /\ \A v \in Var : Meaning(v, ctx.cur[v]) \in Expr \cup {None}
          /\ \A v \in Var : Meaning(v, ctx.sched[v]) \in Expr \cup {None}
      BY <1>4
    <3>2. QED BY <1>3, <3>1
  <2>2. m.outs \in [Var -> Slot \cup {None}]
    <3>1. \A v \in Var : MeaningOfOut(v, ctx.outs[v]) \in Slot \cup {None}
      BY <1>5, <1>6
    <3>2. QED BY <1>3, <3>1
  <2>3. QED BY <1>3, <2>1, <2>2 DEF ContextFields
<1>8. Outs(m) = Outs(ctx)
  <2>1. \A v \in Var : MeaningOfOut(v, ctx.outs[v]) = None <=> ctx.outs[v] = None
    BY <1>5, <1>6
  <2>2. \A v \in Var : m.outs[v] = None <=> ctx.outs[v] = None
    BY <1>3, <2>1
  <2>3. QED BY <2>2 DEF Outs
<1>9. ASSUME NEW v \in Outs(ctx)
      PROVE  /\ ctx.outs[v] \in NodeSlot
             /\ m.outs[v].id = Meaning(v, ctx.outs[v].id)
             /\ m.outs[v].last = ctx.outs[v].last
             /\ m.outs[v].seen = ctx.outs[v].seen
  <2>1. v \in Var /\ ctx.outs[v] # None
    BY DEF Outs
  <2>2. m.outs[v] = [id |-> Meaning(v, ctx.outs[v].id), last |-> ctx.outs[v].last,
                     seen |-> ctx.outs[v].seen]
    BY <1>3, <1>5, <2>1
  <2>3. QED BY <1>5, <2>1, <2>2
<1>10. \A v \in Var : /\ m.cur[v] = Meaning(v, ctx.cur[v])
                      /\ m.sched[v] = Meaning(v, ctx.sched[v])
                      /\ m.outs[v] = MeaningOfOut(v, ctx.outs[v])
  BY <1>3
<1>11. \A v \in Var : /\ m.cur[v] = None <=> Unset(v, ctx.cur[v])
                      /\ m.sched[v] = None <=> ctx.sched[v] = None
  BY <1>4, <1>10
<1>12. QED BY <1>3, <1>7, <1>8, <1>9, <1>10, <1>11

LEMMA SameContext ==
  ASSUME NEW x \in Context, NEW y \in Context, x.locals = y.locals,
         \A v \in Var : x.cur[v] = y.cur[v] /\ x.sched[v] = y.sched[v] /\ x.outs[v] = y.outs[v]
  PROVE  x = y
<1>1. x.cur = y.cur /\ x.sched = y.sched /\ x.outs = y.outs
  BY DEF Context
<1>2. QED BY <1>1 DEF Context

-----------------------------------------------------------------------------
(* Operations on contexts.                                                 *)

(* new is ctx after an output of every name of names, which the names of   *)
(* shown stand for from now on.                                            *)
Update(new, ctx, shown, names, id, nb) ==
  /\ new.locals = ctx.locals
  /\ \A v \in Var :
       /\ new.cur[v] = IF v \in shown THEN id[v] ELSE ctx.cur[v]
       /\ new.sched[v] = IF v \in names THEN id[v] ELSE ctx.sched[v]
       /\ new.outs[v] = IF v \in names THEN AddOutput(ctx.outs[v], nb[v], id[v])
                        ELSE ctx.outs[v]

ContextOf(X, Y) == [cur: [Var -> X], sched: [Var -> X], outs: [Var -> Y], locals: SUBSET Var]

LEMMA ContextsOf ==
  /\ Context = ContextOf(Expr \cup {None}, Slot \cup {None})
  /\ NodeContext = ContextOf(Node, NodeSlot \cup {None})
BY DEF Context, NodeContext, ContextOf

LEMMA RecordUpdates ==
  ASSUME NEW X, NEW Y, NEW ctx \in ContextOf(X, Y), NEW v \in Var, NEW nb, NEW e \in X,
         AddOutput(ctx.outs[v], nb, e) \in Y, NEW new, new = Record(ctx, v, nb, e),
         NEW names, names = {v}, NEW ids, ids[v] = e, NEW nbs, nbs[v] = nb
  PROVE  new \in ContextOf(X, Y) /\ Update(new, ctx, names, names, ids, nbs)
<1>1. PICK out : out = AddOutput(ctx.outs[v], nb, e)
  OBVIOUS
<1>2. PICK a, b, c : /\ a = [ctx.cur EXCEPT ![v] = e]
                     /\ b = [ctx.sched EXCEPT ![v] = e]
                     /\ c = [ctx.outs EXCEPT ![v] = out]
  OBVIOUS
<1>3. a \in [Var -> X] /\ b \in [Var -> X] /\ c \in [Var -> Y]
  BY <1>1, <1>2 DEF ContextOf
<1>4. new = [ctx EXCEPT !.cur = a, !.sched = b, !.outs = c]
  BY <1>1, <1>2 DEF Record, ContextOf
<1>5. new.cur = a /\ new.sched = b /\ new.outs = c /\ new.locals = ctx.locals
  BY <1>4 DEF ContextOf
<1>6. new \in ContextOf(X, Y)
  BY <1>3, <1>4 DEF ContextOf
<1>7. \A w \in Var : /\ a[w] = IF w = v THEN e ELSE ctx.cur[w]
                     /\ b[w] = IF w = v THEN e ELSE ctx.sched[w]
                     /\ c[w] = IF w = v THEN out ELSE ctx.outs[w]
  BY <1>2 DEF ContextOf
<1>8. QED BY <1>1, <1>5, <1>6, <1>7 DEF Update

LEMMA TransferUpdates ==
  ASSUME NEW X, NEW Y, NEW ctx \in ContextOf(X, Y), NEW names \in SUBSET Var,
         NEW id, NEW nb, \A v \in names : id[v] \in X,
         \A v \in names : AddOutput(ctx.outs[v], nb[v], id[v]) \in Y,
         NEW new, new = Transfer(ctx, names, id, nb)
  PROVE  /\ new \in ContextOf(X, Y)
         /\ Update(new, ctx, {v \in names : ~nb[v]}, names, id, nb)
<1>1. PICK a, b, c :
        /\ a = [v \in Var |-> IF v \in names /\ ~nb[v] THEN id[v] ELSE ctx.cur[v]]
        /\ b = [v \in Var |-> IF v \in names THEN id[v] ELSE ctx.sched[v]]
        /\ c = [v \in Var |-> IF v \in names THEN AddOutput(ctx.outs[v], nb[v], id[v])
                              ELSE ctx.outs[v]]
  OBVIOUS
<1>2. a \in [Var -> X] /\ b \in [Var -> X] /\ c \in [Var -> Y]
  BY <1>1 DEF ContextOf
<1>3. new = [ctx EXCEPT !.cur = a, !.sched = b, !.outs = c]
  BY <1>1 DEF Transfer
<1>4. new.cur = a /\ new.sched = b /\ new.outs = c /\ new.locals = ctx.locals
  BY <1>3 DEF ContextOf
<1>5. new \in ContextOf(X, Y)
  BY <1>2, <1>3 DEF ContextOf
<1>6. QED BY <1>1, <1>4, <1>5 DEF Update

(* The writes of x repeat those of y.                                      *)
WritesOver(x, y) ==
  IsSequence(y) => /\ IsSequence(x)
                   /\ \A s \in Sigma, p \in Pos : y[s][p] # None => x[s][p] # None

Covers(child, parent) ==
  \A v \in Array : WritesOver(FallbackNode(child, v), FallbackNode(parent, v))

LEMMA CoversItself ==
  ASSUME NEW ctx, NEW other, NEW third
  PROVE  /\ Covers(ctx, ctx)
         /\ Covers(ctx, other) /\ Covers(other, third) => Covers(ctx, third)
BY DEF Covers, WritesOver

LEMMA AddedOutput ==
  ASSUME NEW v \in Var, NEW out \in NodeSlot \cup {None}, out # None => Faithful(v, out.id),
         NEW nb \in BOOLEAN, NEW id, Faithful(v, id), NEW new, new = AddOutput(out, nb, id)
  PROVE  /\ new \in NodeSlot /\ new # None /\ new.id = id
         /\ MeaningOfOut(v, new) = AddOutput(MeaningOfOut(v, out), nb, Meaning(v, id))
         /\ AddOutput(MeaningOfOut(v, out), nb, Meaning(v, id)) \in Slot
<1>1. id \in Expr \cup Sequence
  BY FaithfulMeaning
<1>2. new \in NodeSlot /\ new.id = id /\ new.last = nb
  BY <1>1, NodeSlotNotNone DEF AddOutput, NodeSlot
<1>3. new # None
  BY <1>2, NodeSlotNotNone
<1>4. PICK m : m = MeaningOfOut(v, out)
  OBVIOUS
<1>5. /\ out = None => m = None
      /\ out # None => m # None /\ m.seen = out.seen
  <2>1. CASE out = None
    BY <1>4, <2>1 DEF MeaningOfOut
  <2>2. CASE out # None
    <3>1. m = [id |-> Meaning(v, out.id), last |-> out.last, seen |-> out.seen] /\ m # None
      BY <1>4, <2>2, OutFields
    <3>2. QED BY <2>2, <3>1
  <2>3. QED BY <2>1, <2>2
<1>6. AddOutput(m, nb, Meaning(v, id)) = [id |-> Meaning(v, id), last |-> nb, seen |-> new.seen]
  BY <1>5 DEF AddOutput
<1>7. /\ MeaningOfOut(v, new) = [id |-> Meaning(v, new.id), last |-> new.last, seen |-> new.seen]
      /\ MeaningOfOut(v, new) \in Slot
  BY <1>2, OutFields
<1>8. QED BY <1>2, <1>3, <1>4, <1>6, <1>7

(* An output of sequences is an output of what they mean.                  *)
LEMMA UpdateMeans ==
  ASSUME NEW ctx, Sound(ctx), NEW new \in NodeContext, NEW names \in SUBSET Var,
         NEW shown \in SUBSET names, NEW id, NEW nb,
         \A v \in names : Faithful(v, id[v]) /\ nb[v] \in BOOLEAN,
         Update(new, ctx, shown, names, id, nb),
         NEW m, m = MeaningOfContext(ctx), NEW mid, \A v \in names : mid[v] = Meaning(v, id[v]),
         NEW result \in Context, Update(result, m, shown, names, mid, nb)
  PROVE  /\ Sound(new) /\ MeaningOfContext(new) = result
         /\ (\A v \in names \cap Array : WritesOver(id[v], FallbackNode(ctx, v)))
              => Covers(new, ctx)
<1>1. ctx \in NodeContext
  BY DEF Sound
<1>2. ASSUME NEW v \in names
      PROVE  /\ new.outs[v] # None /\ new.outs[v].id = id[v]
             /\ MeaningOfOut(v, new.outs[v]) = result.outs[v]
  <2>1. v \in Var /\ Faithful(v, id[v]) /\ nb[v] \in BOOLEAN /\ mid[v] = Meaning(v, id[v])
    OBVIOUS
  <2>2. PICK out, i, n, o : /\ out = ctx.outs[v] /\ i = id[v] /\ n = nb[v]
                            /\ o = AddOutput(out, n, i)
    OBVIOUS
  <2>3. out \in NodeSlot \cup {None} /\ (out # None => Faithful(v, out.id))
    BY <1>1, <2>1, <2>2 DEF Sound, NodeContext, Outs
  <2>4. /\ o # None /\ o.id = i
        /\ MeaningOfOut(v, o) = AddOutput(MeaningOfOut(v, out), n, Meaning(v, i))
    BY <2>1, <2>2, <2>3, AddedOutput
  <2>5. new.outs[v] = o
    BY <2>1, <2>2 DEF Update
  <2>6. m.outs[v] = MeaningOfOut(v, out)
    BY <2>1, <2>2, MeaningOfSound
  <2>7. result.outs[v] = AddOutput(m.outs[v], n, Meaning(v, i))
    BY <2>1, <2>2 DEF Update
  <2>8. QED BY <2>2, <2>4, <2>5, <2>6, <2>7
<1>3. Sound(new)
  <2>1. ASSUME NEW v \in Var
        PROVE  /\ Unset(v, new.cur[v]) \/ Faithful(v, new.cur[v])
               /\ new.sched[v] = None \/ Faithful(v, new.sched[v])
               /\ v \in Outs(new) => Faithful(v, new.outs[v].id) /\ new.sched[v] = new.outs[v].id
    <3>1. CASE v \in names
      <4>1. new.sched[v] = id[v] /\ Faithful(v, id[v]) /\ new.outs[v].id = id[v]
        BY <1>2, <3>1 DEF Update
      <4>2. new.cur[v] = id[v] \/ new.cur[v] = ctx.cur[v]
        BY DEF Update
      <4>3. Unset(v, ctx.cur[v]) \/ Faithful(v, ctx.cur[v])
        BY DEF Sound
      <4>4. QED BY <4>1, <4>2, <4>3
    <3>2. CASE v \notin names
      <4>1. new.cur[v] = ctx.cur[v] /\ new.sched[v] = ctx.sched[v] /\ new.outs[v] = ctx.outs[v]
        BY <3>2 DEF Update
      <4>2. /\ Unset(v, ctx.cur[v]) \/ Faithful(v, ctx.cur[v])
            /\ ctx.sched[v] = None \/ Faithful(v, ctx.sched[v])
            /\ ctx.outs[v] # None => Faithful(v, ctx.outs[v].id) /\ ctx.sched[v] = ctx.outs[v].id
        BY DEF Sound, Outs
      <4>3. QED BY <4>1, <4>2 DEF Outs
    <3>3. QED BY <3>1, <3>2
  <2>2. QED BY <2>1 DEF Sound
<1>4. PICK r : r = MeaningOfContext(new)
  OBVIOUS
<1>5. /\ r \in Context /\ r.locals = new.locals
      /\ \A v \in Var : /\ r.cur[v] = Meaning(v, new.cur[v])
                        /\ r.sched[v] = Meaning(v, new.sched[v])
                        /\ r.outs[v] = MeaningOfOut(v, new.outs[v])
  BY <1>3, <1>4, MeaningOfSound
<1>6. /\ m.locals = ctx.locals
      /\ \A v \in Var : /\ m.cur[v] = Meaning(v, ctx.cur[v])
                        /\ m.sched[v] = Meaning(v, ctx.sched[v])
                        /\ m.outs[v] = MeaningOfOut(v, ctx.outs[v])
  BY MeaningOfSound
<1>7. ASSUME NEW v \in Var
      PROVE  r.cur[v] = result.cur[v] /\ r.sched[v] = result.sched[v] /\ r.outs[v] = result.outs[v]
  <2>1. r.cur[v] = result.cur[v]
    BY <1>5, <1>6 DEF Update
  <2>2. r.sched[v] = result.sched[v]
    BY <1>5, <1>6 DEF Update
  <2>3. r.outs[v] = result.outs[v]
    BY <1>2, <1>5, <1>6 DEF Update
  <2>4. QED BY <2>1, <2>2, <2>3
<1>8. r.locals = result.locals
  BY <1>5, <1>6 DEF Update
<1>9. r = result
  BY <1>5, <1>7, <1>8, SameContext
<1>10. ASSUME \A v \in names \cap Array : WritesOver(id[v], FallbackNode(ctx, v))
       PROVE  Covers(new, ctx)
  <2>1. ASSUME NEW v \in Array
        PROVE  WritesOver(FallbackNode(new, v), FallbackNode(ctx, v))
    <3>1. v \in Var
      BY ArraysAreNames
    <3>2. CASE v \in names
      <4>1. new.sched[v] = id[v] /\ id[v] # None
        BY <3>1, <3>2, FaithfulMeaning DEF Update
      <4>2. FallbackNode(new, v) = id[v]
        BY <4>1 DEF FallbackNode
      <4>3. QED BY <1>10, <3>2, <4>2
    <3>3. CASE v \notin names
      <4>1. new.cur[v] = ctx.cur[v] /\ new.sched[v] = ctx.sched[v]
        BY <3>1, <3>3 DEF Update
      <4>2. FallbackNode(new, v) = FallbackNode(ctx, v)
        BY <4>1 DEF FallbackNode
      <4>3. QED BY <4>2 DEF WritesOver
    <3>4. QED BY <3>2, <3>3
  <2>2. QED BY <2>1 DEF Covers
<1>11. QED BY <1>3, <1>4, <1>9, <1>10

(* A recorded value is scheduled, and nothing that was is taken back.      *)
LEMMA ScheduleGrows ==
  ASSUME NEW ctx, Sound(ctx), NEW v \in Var, NEW nb, NEW id, Faithful(v, id),
         NEW new, new = Record(ctx, v, nb, id), NEW x \in Var, new.sched[x] = None
  PROVE  ctx.sched[x] = None
<1>1. ctx \in NodeContext /\ id # None
  BY FaithfulMeaning DEF Sound
<1>2. new.sched = [ctx.sched EXCEPT ![v] = id]
  BY <1>1 DEF Record, NodeContext
<1>3. QED BY <1>1, <1>2 DEF NodeContext

LEMMA RecordMeans ==
  ASSUME NEW ctx, Sound(ctx), NEW v \in Var, NEW nb \in BOOLEAN, NEW id, Faithful(v, id),
         NEW new, new = Record(ctx, v, nb, id),
         NEW m, m = MeaningOfContext(ctx), NEW e, e = Meaning(v, id)
  PROVE  /\ Sound(new) /\ MeaningOfContext(new) = Record(m, v, nb, e)
         /\ (v \in Array => WritesOver(id, FallbackNode(ctx, v))) => Covers(new, ctx)
<1>1. ctx \in NodeContext /\ m \in Context
  BY MeaningOfSound DEF Sound
<1>2. PICK result : result = Record(m, v, nb, e)
  OBVIOUS
<1>3. PICK out : out = ctx.outs[v]
  OBVIOUS
<1>4. out \in NodeSlot \cup {None} /\ (out # None => Faithful(v, out.id))
  BY <1>1, <1>3 DEF Sound, NodeContext, Outs
<1>5. AddOutput(out, nb, id) \in NodeSlot /\ AddOutput(MeaningOfOut(v, out), nb, e) \in Slot
  BY <1>4, AddedOutput
<1>6. m.outs[v] = MeaningOfOut(v, out)
  BY <1>3, MeaningOfSound
<1>7. id \in Node /\ e \in Expr
  BY FaithfulMeaning DEF Node
<1>8. PICK names, ids, nbs, mids : /\ names = {v} /\ ids = [w \in {v} |-> id]
                                   /\ nbs = [w \in {v} |-> nb] /\ mids = [w \in {v} |-> e]
  OBVIOUS
<1>9. new \in NodeContext /\ Update(new, ctx, names, names, ids, nbs)
  <2>1. AddOutput(ctx.outs[v], nb, id) \in NodeSlot \cup {None}
    BY <1>3, <1>5
  <2>2. PICK X, Y : X = Node /\ Y = NodeSlot \cup {None}
    OBVIOUS
  <2>3. ctx \in ContextOf(X, Y) /\ id \in X
    BY <1>1, <1>7, <2>2, ContextsOf
  <2>4. AddOutput(ctx.outs[v], nb, id) \in Y
    BY <2>1, <2>2
  <2>5. new \in ContextOf(X, Y) /\ Update(new, ctx, names, names, ids, nbs)
    BY <1>8, <2>3, <2>4, RecordUpdates
  <2>6. QED BY <2>2, <2>5, ContextsOf
<1>10. result \in Context /\ Update(result, m, names, names, mids, nbs)
  <2>1. AddOutput(m.outs[v], nb, e) \in Slot \cup {None}
    BY <1>5, <1>6
  <2>2. PICK X, Y : X = Expr \cup {None} /\ Y = Slot \cup {None}
    OBVIOUS
  <2>3. m \in ContextOf(X, Y) /\ e \in X
    BY <1>1, <1>7, <2>2, ContextsOf
  <2>4. AddOutput(m.outs[v], nb, e) \in Y
    BY <2>1, <2>2
  <2>5. result \in ContextOf(X, Y) /\ Update(result, m, names, names, mids, nbs)
    BY <1>2, <1>8, <2>3, <2>4, RecordUpdates
  <2>6. QED BY <2>2, <2>5, ContextsOf
<1>11. /\ names \in SUBSET Var /\ names \in SUBSET names
       /\ \A w \in names : Faithful(w, ids[w]) /\ nbs[w] \in BOOLEAN
       /\ \A w \in names : mids[w] = Meaning(w, ids[w])
  BY <1>8
<1>12. /\ Sound(new) /\ MeaningOfContext(new) = result
       /\ (\A w \in names \cap Array : WritesOver(ids[w], FallbackNode(ctx, w))) => Covers(new, ctx)
  BY <1>9, <1>10, <1>11, UpdateMeans
<1>13. ASSUME v \in Array => WritesOver(id, FallbackNode(ctx, v))
       PROVE  \A w \in names \cap Array : WritesOver(ids[w], FallbackNode(ctx, w))
  BY <1>8, <1>13
<1>14. \A x \in Var : new.sched[x] = None => ctx.sched[x] = None
  BY <1>1, <1>10, <1>11, ScheduleGrows
<1>15. QED BY <1>2, <1>12, <1>13, <1>14

LEMMA TransferMeans ==
  ASSUME NEW ctx, Sound(ctx), NEW names \in SUBSET Var, NEW id, NEW nb,
         \A v \in names : Faithful(v, id[v]) /\ nb[v] \in BOOLEAN,
         NEW new, new = Transfer(ctx, names, id, nb),
         NEW m, m = MeaningOfContext(ctx), NEW mid, \A v \in names : mid[v] = Meaning(v, id[v])
  PROVE  /\ Sound(new) /\ MeaningOfContext(new) = Transfer(m, names, mid, nb)
         /\ (\A v \in names \cap Array : WritesOver(id[v], FallbackNode(ctx, v)))
              => Covers(new, ctx)
<1>1. ctx \in NodeContext /\ m \in Context
  BY MeaningOfSound DEF Sound
<1>2. PICK result : result = Transfer(m, names, mid, nb)
  OBVIOUS
<1>3. ASSUME NEW v \in names
      PROVE  /\ AddOutput(ctx.outs[v], nb[v], id[v]) \in NodeSlot
             /\ AddOutput(m.outs[v], nb[v], mid[v]) \in Slot
             /\ id[v] \in Node /\ mid[v] \in Expr
  <2>1. v \in Var /\ Faithful(v, id[v]) /\ nb[v] \in BOOLEAN /\ mid[v] = Meaning(v, id[v])
    OBVIOUS
  <2>2. PICK out, i, n, e : out = ctx.outs[v] /\ i = id[v] /\ n = nb[v] /\ e = mid[v]
    OBVIOUS
  <2>3. out \in NodeSlot \cup {None} /\ (out # None => Faithful(v, out.id))
    BY <1>1, <2>1, <2>2 DEF Sound, NodeContext, Outs
  <2>4. AddOutput(out, n, i) \in NodeSlot /\ AddOutput(MeaningOfOut(v, out), n, e) \in Slot
    BY <2>1, <2>2, <2>3, AddedOutput
  <2>5. m.outs[v] = MeaningOfOut(v, out)
    BY <2>1, <2>2, MeaningOfSound
  <2>6. i \in Node /\ e \in Expr
    BY <2>1, <2>2, FaithfulMeaning DEF Node
  <2>7. QED BY <2>2, <2>4, <2>5, <2>6
<1>4. PICK shown : shown = {v \in names : ~nb[v]}
  OBVIOUS
<1>5. new \in NodeContext /\ Update(new, ctx, shown, names, id, nb)
  <2>1. PICK X, Y : X = Node /\ Y = NodeSlot \cup {None}
    OBVIOUS
  <2>2. ctx \in ContextOf(X, Y)
    BY <1>1, <2>1, ContextsOf
  <2>3. \A v \in names : id[v] \in X /\ AddOutput(ctx.outs[v], nb[v], id[v]) \in Y
    BY <1>3, <2>1
  <2>4. new \in ContextOf(X, Y) /\ Update(new, ctx, {v \in names : ~nb[v]}, names, id, nb)
    BY <2>2, <2>3, TransferUpdates
  <2>5. QED BY <1>4, <2>1, <2>4, ContextsOf
<1>6. result \in Context /\ Update(result, m, shown, names, mid, nb)
  <2>1. PICK X, Y : X = Expr \cup {None} /\ Y = Slot \cup {None}
    OBVIOUS
  <2>2. m \in ContextOf(X, Y)
    BY <1>1, <2>1, ContextsOf
  <2>3. \A v \in names : mid[v] \in X /\ AddOutput(m.outs[v], nb[v], mid[v]) \in Y
    BY <1>3, <2>1
  <2>4. result \in ContextOf(X, Y) /\ Update(result, m, {v \in names : ~nb[v]}, names, mid, nb)
    BY <1>2, <2>2, <2>3, TransferUpdates
  <2>5. QED BY <1>4, <2>1, <2>4, ContextsOf
<1>7. shown \in SUBSET names
  BY <1>4
<1>8. QED BY <1>2, <1>5, <1>6, <1>7, UpdateMeans

(* Changing what a context shows, and nothing it has scheduled.            *)
LEMMA Reshown ==
  ASSUME NEW ctx, Sound(ctx), NEW cur \in [Var -> Node], NEW mcur \in [Var -> Expr \cup {None}],
         \A v \in Var : /\ Unset(v, cur[v]) \/ Faithful(v, cur[v])
                        /\ mcur[v] = Meaning(v, cur[v]),
         NEW new, new = [ctx EXCEPT !.cur = cur],
         NEW m, m = MeaningOfContext(ctx)
  PROVE  /\ Sound(new) /\ MeaningOfContext(new) = [m EXCEPT !.cur = mcur]
         /\ new.cur = cur /\ new.sched = ctx.sched /\ new.outs = ctx.outs
<1>1. ctx \in NodeContext /\ m \in Context
  BY MeaningOfSound DEF Sound
<1>2. /\ new \in NodeContext /\ new.cur = cur /\ new.sched = ctx.sched /\ new.outs = ctx.outs
      /\ new.locals = ctx.locals
  BY <1>1 DEF NodeContext
<1>3. Sound(new)
  BY <1>2 DEF Sound, Outs
<1>4. PICK r : r = MeaningOfContext(new)
  OBVIOUS
<1>5. /\ [m EXCEPT !.cur = mcur] \in Context /\ [m EXCEPT !.cur = mcur].cur = mcur
      /\ [m EXCEPT !.cur = mcur].sched = m.sched /\ [m EXCEPT !.cur = mcur].outs = m.outs
      /\ [m EXCEPT !.cur = mcur].locals = m.locals
  BY <1>1 DEF Context
<1> DEFINE result == [m EXCEPT !.cur = mcur]
<1> HIDE DEF result
<1>6. /\ r \in Context /\ r.locals = new.locals
      /\ \A v \in Var : /\ r.cur[v] = Meaning(v, new.cur[v])
                        /\ r.sched[v] = Meaning(v, new.sched[v])
                        /\ r.outs[v] = MeaningOfOut(v, new.outs[v])
  BY ONLY <1>3, <1>4, MeaningOfSound
<1>7. /\ m.locals = ctx.locals
      /\ \A v \in Var : /\ m.sched[v] = Meaning(v, ctx.sched[v])
                        /\ m.outs[v] = MeaningOfOut(v, ctx.outs[v])
  BY MeaningOfSound
<1>8. /\ result \in Context /\ result.cur = mcur /\ result.sched = m.sched
      /\ result.outs = m.outs /\ result.locals = m.locals
  BY <1>5 DEF result
<1>9. r.locals = result.locals /\ \A v \in Var :
        r.cur[v] = result.cur[v] /\ r.sched[v] = result.sched[v] /\ r.outs[v] = result.outs[v]
  BY <1>2, <1>6, <1>7, <1>8
<1>10. r = result
  BY <1>6, <1>8, <1>9, SameContext
<1>11. QED BY <1>2, <1>3, <1>4, <1>10 DEF result

(* Restoring what was shown before a nonblocking assignment.               *)
LEMMA RestoreMeans ==
  ASSUME NEW ctx, Sound(ctx), NEW before, Sound(before),
         NEW new, new = [ctx EXCEPT !.cur = before.cur]
  PROVE  /\ Sound(new)
         /\ MeaningOfContext(new)
              = [MeaningOfContext(ctx) EXCEPT !.cur = MeaningOfContext(before).cur]
         /\ new.cur = before.cur /\ new.sched = ctx.sched /\ new.outs = ctx.outs
<1>1. PICK cur, b, mcur : cur = before.cur /\ b = MeaningOfContext(before) /\ mcur = b.cur
  OBVIOUS
<1>2. cur \in [Var -> Node] /\ \A v \in Var : Unset(v, cur[v]) \/ Faithful(v, cur[v])
  BY <1>1 DEF Sound, NodeContext
<1>3. b \in Context /\ \A v \in Var : b.cur[v] = Meaning(v, before.cur[v])
  BY <1>1, MeaningOfSound
<1>4. mcur \in [Var -> Expr \cup {None}] /\ \A v \in Var : mcur[v] = Meaning(v, cur[v])
  BY <1>1, <1>3 DEF Context
<1>5. PICK m : m = MeaningOfContext(ctx)
  OBVIOUS
<1>6. new = [ctx EXCEPT !.cur = cur]
  BY <1>1
<1>7. \A v \in Var : (Unset(v, cur[v]) \/ Faithful(v, cur[v])) /\ mcur[v] = Meaning(v, cur[v])
  BY <1>2, <1>4
<1>8. cur \in [Var -> Node] /\ mcur \in [Var -> Expr \cup {None}]
  BY <1>2, <1>4
<1>9. /\ Sound(new) /\ MeaningOfContext(new) = [m EXCEPT !.cur = mcur]
      /\ new.cur = cur /\ new.sched = ctx.sched /\ new.outs = ctx.outs
  BY ONLY Sound(ctx), <1>5, <1>6, <1>7, <1>8, Reshown
<1>10. QED BY <1>1, <1>5, <1>9

(* The view of a target: what it has scheduled, or else what it shows.     *)
LEMMA ViewMeans ==
  ASSUME NEW ctx, Sound(ctx), NEW v \in Var, NEW view, view = ScheduledView(ctx, v)
  PROVE  /\ Sound(view)
         /\ MeaningOfContext(view) = ScheduledView(MeaningOfContext(ctx), v)
         /\ view.cur[v] = FallbackNode(ctx, v)
<1>1. PICK m : m = MeaningOfContext(ctx)
  OBVIOUS
<1>2. /\ m \in Context /\ m.sched[v] = Meaning(v, ctx.sched[v])
      /\ m.sched[v] = None <=> ctx.sched[v] = None
      /\ \A w \in Var : m.cur[w] = Meaning(w, ctx.cur[w])
  BY <1>1, MeaningOfSound
<1>3. CASE ctx.sched[v] = None
  BY <1>1, <1>2, <1>3 DEF ScheduledView, FallbackNode
<1>4. CASE ctx.sched[v] # None
  <2>1. PICK e, cur, mcur : /\ e = ctx.sched[v] /\ cur = [ctx.cur EXCEPT ![v] = e]
                            /\ mcur = [m.cur EXCEPT ![v] = m.sched[v]]
    OBVIOUS
  <2>2. Faithful(v, e) /\ e \in Node
    BY <1>4, <2>1 DEF Sound, NodeContext
  <2>3. ctx.cur \in [Var -> Node] /\ \A w \in Var : Unset(w, ctx.cur[w]) \/ Faithful(w, ctx.cur[w])
    BY DEF Sound, NodeContext
  <2>4. cur \in [Var -> Node] /\ cur[v] = e /\ \A w \in Var : w # v => cur[w] = ctx.cur[w]
    BY <2>1, <2>2, <2>3
  <2>5. m.cur \in [Var -> Expr \cup {None}] /\ m.sched[v] \in Expr \cup {None}
    BY <1>2 DEF Context
  <2>6. /\ mcur \in [Var -> Expr \cup {None}] /\ mcur[v] = m.sched[v]
        /\ \A w \in Var : w # v => mcur[w] = m.cur[w]
    BY <2>1, <2>5
  <2>7. \A w \in Var : /\ Unset(w, cur[w]) \/ Faithful(w, cur[w])
                       /\ mcur[w] = Meaning(w, cur[w])
    BY <1>2, <2>1, <2>2, <2>3, <2>4, <2>6
  <2>8. view = [ctx EXCEPT !.cur = cur]
    BY <1>4, <2>1 DEF ScheduledView, Sound, NodeContext
  <2>9. ScheduledView(m, v) = [m EXCEPT !.cur = mcur]
    BY <1>2, <1>4, <2>1 DEF ScheduledView, Context
  <2>10. /\ Sound(view) /\ MeaningOfContext(view) = [m EXCEPT !.cur = mcur] /\ view.cur = cur
    BY <1>1, <2>4, <2>6, <2>7, <2>8, Reshown
  <2>11. QED BY <1>1, <1>4, <2>1, <2>4, <2>9, <2>10 DEF FallbackNode
<1>5. QED BY <1>3, <1>4

LEMMA ChildMeans ==
  ASSUME NEW ctx, Sound(ctx), NEW new, new = Child(ctx)
  PROVE  /\ Sound(new) /\ MeaningOfContext(new) = Child(MeaningOfContext(ctx))
         /\ Covers(new, ctx)
<1>1. ctx \in NodeContext
  BY DEF Sound
<1>2. /\ new \in NodeContext /\ new.cur = ctx.cur /\ new.sched = ctx.sched
      /\ new.outs = NoOuts /\ new.locals = {}
  BY <1>1 DEF Child, NodeContext, NoOuts
<1>3. Sound(new)
  BY <1>2 DEF Sound, Outs, NoOuts
<1>4. PICK m, r, c : m = MeaningOfContext(ctx) /\ r = MeaningOfContext(new) /\ c = Child(m)
  OBVIOUS
<1>5. /\ m \in Context
      /\ \A v \in Var : m.cur[v] = Meaning(v, ctx.cur[v]) /\ m.sched[v] = Meaning(v, ctx.sched[v])
  BY <1>4, MeaningOfSound
<1>6. /\ c \in Context /\ c.cur = m.cur /\ c.sched = m.sched /\ c.outs = NoOuts /\ c.locals = {}
  BY <1>4, <1>5 DEF Child, Context, NoOuts
<1>7. /\ r \in Context /\ r.locals = new.locals
      /\ \A v \in Var : /\ r.cur[v] = Meaning(v, new.cur[v])
                        /\ r.sched[v] = Meaning(v, new.sched[v])
                        /\ r.outs[v] = MeaningOfOut(v, new.outs[v])
  BY ONLY <1>3, <1>4, MeaningOfSound
<1>8. \A v \in Var : r.cur[v] = c.cur[v] /\ r.sched[v] = c.sched[v] /\ r.outs[v] = c.outs[v]
  BY <1>2, <1>5, <1>6, <1>7 DEF MeaningOfOut, NoOuts
<1>9. r = c
  <2>1. r \in Context /\ c \in Context /\ r.locals = c.locals
    BY <1>2, <1>6, <1>7
  <2>2. QED BY ONLY <1>8, <2>1, SameContext
<1>10. Covers(new, ctx)
  BY <1>2 DEF Covers, WritesOver, FallbackNode
<1>11. QED BY <1>3, <1>4, <1>9, <1>10

(* The first read of an array shows the graph's input instead of nothing.  *)
LEMMA InputsMean ==
  ASSUME NEW ctx, Sound(ctx), NEW names \in SUBSET Array, NEW new,
         new = FindOrCreateInputs(ctx, names)
  PROVE  /\ Sound(new) /\ MeaningOfContext(new) = MeaningOfContext(ctx)
         /\ Covers(new, ctx) /\ Covers(ctx, new)
         /\ new.sched = ctx.sched /\ new.outs = ctx.outs
<1>1. PICK m : m = MeaningOfContext(ctx)
  OBVIOUS
<1>2. m \in Context /\ \A v \in Var : m.cur[v] = Meaning(v, ctx.cur[v])
  BY <1>1, MeaningOfSound
<1>3. PICK cur : cur = [v \in Var |->
        IF v \in names \ inputs /\ ctx.cur[v] = None THEN InputNode ELSE ctx.cur[v]]
  OBVIOUS
<1>4. ctx \in NodeContext /\ \A v \in Var : Unset(v, ctx.cur[v]) \/ Faithful(v, ctx.cur[v])
  BY DEF Sound
<1>5. cur \in [Var -> Node]
  BY <1>3, <1>4 DEF NodeContext, Node
<1>6. ASSUME NEW v \in Var
      PROVE  (Unset(v, cur[v]) \/ Faithful(v, cur[v])) /\ m.cur[v] = Meaning(v, cur[v])
  <2>1. CASE cur[v] = ctx.cur[v]
    BY <1>2, <1>4, <2>1
  <2>2. CASE cur[v] # ctx.cur[v]
    <3>1. v \in Array /\ ctx.cur[v] = None /\ cur[v] = InputNode
      BY <1>3, <2>2
    <3>2. Meaning(v, cur[v]) = None /\ m.cur[v] = None
      BY <1>2, <3>1, MeaningOfNone
    <3>3. QED BY <3>1, <3>2 DEF Unset
  <2>3. QED BY <2>1, <2>2
<1>7. new = [ctx EXCEPT !.cur = cur]
  BY <1>3 DEF FindOrCreateInputs
<1>8. m.cur \in [Var -> Expr \cup {None}] /\ [m EXCEPT !.cur = m.cur] = m
  BY <1>2 DEF Context
<1>9. PICK mcur : mcur = m.cur
  OBVIOUS
<1>10. /\ mcur \in [Var -> Expr \cup {None}]
       /\ \A v \in Var : (Unset(v, cur[v]) \/ Faithful(v, cur[v])) /\ mcur[v] = Meaning(v, cur[v])
  BY <1>6, <1>8, <1>9
<1>11. /\ Sound(new) /\ MeaningOfContext(new) = [m EXCEPT !.cur = mcur]
       /\ new.cur = cur /\ new.sched = ctx.sched /\ new.outs = ctx.outs
  BY ONLY Sound(ctx), <1>1, <1>5, <1>7, <1>10, Reshown
<1>12. ASSUME NEW v \in Array
       PROVE  /\ WritesOver(FallbackNode(new, v), FallbackNode(ctx, v))
              /\ WritesOver(FallbackNode(ctx, v), FallbackNode(new, v))
  <2>1. cur[v] = ctx.cur[v] \/ (cur[v] = InputNode /\ ctx.cur[v] = None)
    BY <1>3, ArraysAreNames
  <2>2. \/ FallbackNode(new, v) = FallbackNode(ctx, v)
        \/ ~IsSequence(FallbackNode(new, v)) /\ ~IsSequence(FallbackNode(ctx, v))
    BY <1>11, <2>1 DEF FallbackNode, IsSequence
  <2>3. QED BY <2>2 DEF WritesOver
<1>13. QED BY <1>1, <1>8, <1>9, <1>11, <1>12 DEF Covers

-----------------------------------------------------------------------------
(* Continuing a sequence.                                                  *)

(* What a node stands for before the next write.                           *)
Base(v, id) == IF Unset(v, id) THEN Input(v) ELSE Meaning(v, id)

LEMMA BaseType ==
  ASSUME NEW v \in Var, NEW id, Unset(v, id) \/ Faithful(v, id)
  PROVE  /\ Base(v, id) \in Expr
         /\ v \in Array => \A s \in Sigma, p \in Pos :
              Element[Base(v, id)[s]][p] = IF IsSequence(id) THEN Written(s[v], id[s], p)
                                           ELSE Element[s[v]][p]
<1>1. CASE Unset(v, id)
  <2>1. Base(v, id) = [s \in Sigma |-> s[v]]
    BY <1>1 DEF Base, Input
  <2>2. \A s \in Sigma : s[v] \in Val
    BY ValuationsAreStores DEF Store
  <2>3. v \in Array => ~IsSequence(id)
    BY <1>1 DEF Unset, IsSequence
  <2>4. QED BY <2>1, <2>2, <2>3 DEF Expr
<1>2. CASE ~Unset(v, id)
  <2>1. Base(v, id) = Meaning(v, id) /\ Faithful(v, id)
    BY <1>2 DEF Base
  <2>2. Meaning(v, id) \in Expr /\ (v \in Array => IsSequence(id))
    BY <2>1, FaithfulMeaning
  <2>3. ASSUME v \in Array, NEW s \in Sigma, NEW p \in Pos
        PROVE  Element[Meaning(v, id)[s]][p] = Written(s[v], id[s], p)
    <3>1. Element[Printed(s[v], id[s])][p] = Written(s[v], id[s], p)
      BY <2>1, <2>3 DEF Faithful
    <3>2. Meaning(v, id)[s] = Printed(s[v], id[s])
      BY <2>2, <2>3 DEF Meaning
    <3>3. QED BY <3>1, <3>2
  <2>4. QED BY <2>1, <2>2, <2>3
<1>3. QED BY <1>1, <1>2

LEMMA ContinuedMeans ==
  ASSUME NEW v \in Array, NEW current, Unset(v, current) \/ Faithful(v, current),
         NEW next \in Sequence, NEW e \in Expr,
         \A s \in Sigma, p \in Pos :
           Element[e[s]][p] = IF next[s][p] = None THEN Element[Base(v, current)[s]][p]
                              ELSE next[s][p],
         NEW id, id = Continued(current, next)
  PROVE  Faithful(v, id) /\ Meaning(v, id) = e /\ WritesOver(id, current)
<1>1. v \in Var
  BY ArraysAreNames
<1>2. IsSequence(current) => current \in Sequence
  BY DEF Faithful, Unset, IsSequence
<1>3. id \in Sequence
  <2>1. CASE ~IsSequence(current)
    BY <2>1 DEF Continued
  <2>2. CASE IsSequence(current)
    BY <1>2, <2>2 DEF Continued, Sequence
  <2>3. QED BY <2>1, <2>2
<1>4. ASSUME NEW s \in Sigma, NEW p \in Pos
      PROVE  id[s][p] = IF next[s][p] # None THEN next[s][p]
                        ELSE IF IsSequence(current) THEN current[s][p] ELSE None
  BY DEF Continued
<1>5. ASSUME NEW s \in Sigma, NEW p \in Pos
      PROVE  Written(s[v], id[s], p) = Element[e[s]][p]
  <2>1. Element[Base(v, current)[s]][p] = IF IsSequence(current) THEN Written(s[v], current[s], p)
                                          ELSE Element[s[v]][p]
    BY <1>1, BaseType
  <2>2. CASE next[s][p] # None
    BY <1>4, <2>2 DEF Written
  <2>3. CASE next[s][p] = None
    <3>1. id[s][p] = IF IsSequence(current) THEN current[s][p] ELSE None
      BY <1>4, <2>3
    <3>2. Written(s[v], id[s], p) = IF IsSequence(current) THEN Written(s[v], current[s], p)
                                    ELSE Element[s[v]][p]
      BY <3>1 DEF Written
    <3>3. QED BY <2>1, <2>3, <3>2
  <2>4. QED BY <2>2, <2>3
<1>6. Faithful(v, id) /\ Meaning(v, id) = e
  BY <1>3, <1>5, SequenceOf
<1>7. IsSequence(id)
  BY <1>1, <1>6, FaithfulMeaning
<1>8. QED BY <1>4, <1>6, <1>7 DEF WritesOver

-----------------------------------------------------------------------------
(* Writing an element.                                                     *)

Patched(a, d, b) == Patch[a, d, b]

Replaced(e, d, b) == Replace[e, d, b]

LEMMA PatchedElement ==
  ASSUME NEW a \in Val, NEW d \in Val, NEW b \in Val, NEW p \in Pos
  PROVE  /\ Patched(a, d, b) \in Val
         /\ Replaced(Element[a][p], d, b) \in Val /\ Replaced(Element[a][p], d, b) # None
         /\ Element[Patched(a, d, b)][p] =
              IF Position[b] = p THEN Replaced(Element[a][p], d, b) ELSE Element[a][p]
<1>1. <<a, d, b>> \in Val \X Val \X Val
  OBVIOUS
<1>2. Patched(a, d, b) \in Val
  BY <1>1, PatchYieldsValues, Zenon DEF Patched
<1>3. Element[a][p] \in Val
  BY ElementsAreValues
<1>4. PICK x : x = Element[a][p]
  OBVIOUS
<1>5. <<x, d, b>> \in Val \X Val \X Val
  BY <1>3, <1>4
<1>6. Replaced(x, d, b) \in Val
  BY <1>5, ReplaceYieldsValues, Zenon DEF Replaced
<1>7. Replaced(x, d, b) # None
  BY <1>6, NothingElseIsNone
<1>8. Element[Patched(a, d, b)][p] =
        IF Position[b] = p THEN Replaced(Element[a][p], d, b) ELSE Element[a][p]
  <2>1. Element[Patch[a, d, b]][p] =
          IF Position[b] = p THEN Replace[Element[a][p], d, b] ELSE Element[a][p]
    <3> DEFINE Elementwise(i, y, z, q) ==
          Element[Patch[i, y, z]][q] =
            IF Position[z] = q THEN Replace[Element[i][q], y, z] ELSE Element[i][q]
    <3>1. \A i \in Val, y \in Val, z \in Val, q \in Pos : Elementwise(i, y, z, q)
      BY PatchIsElementwise, Zenon
    <3>2. HIDE DEF Elementwise
    <3>3. Elementwise(a, d, b, p)
      BY <3>1
    <3>4. QED BY <3>3, Zenon DEF Elementwise
  <2>2. Position[b] = p => Element[Patched(a, d, b)][p] = Replaced(Element[a][p], d, b)
    BY <2>1, Zenon DEF Patched, Replaced
  <2>3. Position[b] # p => Element[Patched(a, d, b)][p] = Element[a][p]
    BY <2>1, Zenon DEF Patched
  <2>4. QED BY <2>2, <2>3
<1>9. QED BY <1>2, <1>4, <1>6, <1>7, <1>8

ElementsWritten(old, rhs, base) ==
  [s \in Sigma |-> [p \in Pos |->
     IF Position[base[s]] = p THEN Replaced(Element[old[s]][p], rhs[s], base[s]) ELSE None]]

(* Patching a value is writing one of its elements.                        *)
LEMMA ElementsOfPatched ==
  ASSUME NEW old \in Expr, NEW rhs \in Expr, NEW base \in Expr, NEW next,
         next = ElementsWritten(old, rhs, base), NEW e, e = MaskedAssign(old, rhs, base)
  PROVE  /\ next \in Sequence /\ e \in Expr
         /\ \A s \in Sigma, p \in Pos :
              Element[e[s]][p] = IF next[s][p] = None THEN Element[old[s]][p] ELSE next[s][p]
<1>1. e = [s \in Sigma |-> Patched(old[s], rhs[s], base[s])]
  BY Zenon DEF MaskedAssign, Patched
<1>2. ASSUME NEW s \in Sigma, NEW p \in Pos
      PROVE  /\ Patched(old[s], rhs[s], base[s]) \in Val
             /\ next[s][p] \in Val \cup {None}
             /\ Element[e[s]][p] = IF next[s][p] = None THEN Element[old[s]][p] ELSE next[s][p]
  <2>1. PICK a, d, b : a = old[s] /\ d = rhs[s] /\ b = base[s]
    OBVIOUS
  <2>2. a \in Val /\ d \in Val /\ b \in Val
    BY <2>1 DEF Expr
  <2>3. e[s] = Patched(a, d, b)
    BY <1>1, <2>1
  <2>4. next[s][p] = IF Position[b] = p THEN Replaced(Element[a][p], d, b) ELSE None
    BY <2>1 DEF ElementsWritten
  <2>5. /\ Patched(a, d, b) \in Val
        /\ Replaced(Element[a][p], d, b) \in Val /\ Replaced(Element[a][p], d, b) # None
        /\ Element[Patched(a, d, b)][p] =
             IF Position[b] = p THEN Replaced(Element[a][p], d, b) ELSE Element[a][p]
    BY <2>2, PatchedElement
  <2>6. QED BY <2>1, <2>3, <2>4, <2>5
<1>3. e \in Expr
  <2>1. \A s \in Sigma : Patched(old[s], rhs[s], base[s]) \in Val
    <3>1. ASSUME NEW s \in Sigma
          PROVE  Patched(old[s], rhs[s], base[s]) \in Val
      <4>1. PICK a, d, b : a = old[s] /\ d = rhs[s] /\ b = base[s]
        OBVIOUS
      <4>2. a \in Val /\ d \in Val /\ b \in Val
        BY <4>1 DEF Expr
      <4>3. <<a, d, b>> \in Val \X Val \X Val
        BY <4>2
      <4>4. Patched(a, d, b) \in Val
        BY <4>3, PatchYieldsValues, Zenon DEF Patched
      <4>5. QED BY <4>1, <4>4
    <3>2. QED BY <3>1
  <2>2. QED BY <1>1, <2>1 DEF Expr
<1>4. next \in Sequence
  BY <1>2 DEF Sequence, ElementsWritten
<1>5. QED BY <1>2, <1>3, <1>4

LEMMA CurrentMeans ==
  ASSUME NEW ctx, Sound(ctx), NEW v \in Var
  PROVE  /\ Current(MeaningOfContext(ctx), v) = Base(v, ctx.cur[v])
         /\ Fallback(MeaningOfContext(ctx), v) = Base(v, FallbackNode(ctx, v))
         /\ Unset(v, ctx.cur[v]) \/ Faithful(v, ctx.cur[v])
         /\ Unset(v, FallbackNode(ctx, v)) \/ Faithful(v, FallbackNode(ctx, v))
         /\ Current(MeaningOfContext(ctx), v) \in Expr
         /\ Fallback(MeaningOfContext(ctx), v) \in Expr
<1>1. PICK m : m = MeaningOfContext(ctx)
  OBVIOUS
<1>2. /\ m.cur[v] = Meaning(v, ctx.cur[v]) /\ m.sched[v] = Meaning(v, ctx.sched[v])
      /\ m.cur[v] = None <=> Unset(v, ctx.cur[v])
      /\ m.sched[v] = None <=> ctx.sched[v] = None
  BY <1>1, MeaningOfSound
<1>3. /\ Unset(v, ctx.cur[v]) \/ Faithful(v, ctx.cur[v])
      /\ ctx.sched[v] = None \/ Faithful(v, ctx.sched[v])
  BY DEF Sound
<1>4. Current(m, v) = Base(v, ctx.cur[v])
  BY <1>2 DEF Current, Base
<1>5. CASE ctx.sched[v] = None
  <2>1. Fallback(m, v) = Current(m, v) /\ FallbackNode(ctx, v) = ctx.cur[v]
    BY <1>2, <1>5 DEF Fallback, FallbackNode
  <2>2. QED BY <1>1, <1>3, <1>4, <2>1, BaseType
<1>6. CASE ctx.sched[v] # None
  <2>1. Fallback(m, v) = m.sched[v] /\ FallbackNode(ctx, v) = ctx.sched[v]
    BY <1>2, <1>6 DEF Fallback, FallbackNode
  <2>2. Faithful(v, ctx.sched[v])
    BY <1>3, <1>6
  <2>3. \A id : Faithful(v, id) => ~Unset(v, id)
    BY FaithfulMeaning DEF Unset, IsSequence
  <2>4. Base(v, ctx.sched[v]) = m.sched[v]
    BY <1>2, <2>2, <2>3 DEF Base
  <2>5. QED BY <1>1, <1>3, <1>4, <2>1, <2>2, <2>4, BaseType
<1>7. QED BY <1>5, <1>6

(* What the elements to write and the index are in the view of a target.   *)
LEMMA ElementWriteIs ==
  ASSUME NEW ctx, Sound(ctx), NEW t \in Target, t.idx # None, NEW rhs, NEW m,
         m = ScheduledView(MeaningOfContext(ctx), t.var)
  PROVE  /\ ElementWrite(t, rhs, ctx)
              = ElementsWritten(Current(m, t.var), rhs, BuildExpr(t.idx, m))
         /\ Current(m, t.var) \in Expr /\ BuildExpr(t.idx, m) \in Expr
<1>1. t.var \in Var /\ t.idx \in [Store -> Val]
  BY DEF Target
<1>2. PICK view : view = ScheduledView(ctx, t.var)
  OBVIOUS
<1>3. Sound(view) /\ MeaningOfContext(view) = m
  BY <1>1, <1>2, ViewMeans
<1>4. m \in Context
  BY <1>3, MeaningOfSound
<1>5. Current(m, t.var) \in Expr /\ BuildExpr(t.idx, m) \in Expr
  BY <1>1, <1>4, CurrentType, BuildExprType
<1>6. ReadIn([n \in Store |-> n[t.var]], view) = Current(m, t.var)
  <2>1. \A s \in Sigma : StoreAt(m, s) \in Store
    BY <1>4, StoreAtType
  <2>2. \A s \in Sigma : StoreAt(m, s)[t.var] = Current(m, t.var)[s]
    BY <1>1 DEF StoreAt
  <2>3. ReadIn([n \in Store |-> n[t.var]], view) = [s \in Sigma |-> Current(m, t.var)[s]]
    BY <1>3, <2>1, <2>2 DEF ReadIn, BuildExpr
  <2>4. QED BY <1>5, <2>3 DEF Expr
<1>7. ReadIn(t.idx, view) = BuildExpr(t.idx, m)
  BY <1>3 DEF ReadIn
<1>8. ElementWrite(t, rhs, ctx)
        = ElementsWritten(ReadIn([n \in Store |-> n[t.var]], view), rhs, ReadIn(t.idx, view))
  BY <1>2, Zenon DEF ElementWrite, ElementsWritten, Replaced
<1>9. QED BY <1>5, <1>6, <1>7, <1>8

(* A write to an element of an array is a write to a part of its value.    *)
LEMMA RecordArrayMeans ==
  ASSUME NEW ctx, Sound(ctx), NEW t \in Target, t.var \in Array, t.idx # None,
         NEW rhs \in Expr, NEW nb \in BOOLEAN, NEW new, new = RecordArray(ctx, t, rhs, nb)
  PROVE  /\ Sound(new)
         /\ MeaningOfContext(new) = RecordTarget(MeaningOfContext(ctx), t, rhs, nb)
         /\ Covers(new, ctx)
         /\ \A x \in Var : new.sched[x] = None => ctx.sched[x] = None
<1>1. t.var \in Var
  BY DEF Target
<1>2. PICK m : m = MeaningOfContext(ctx)
  OBVIOUS
<1>3. PICK view : view = ScheduledView(m, t.var)
  OBVIOUS
<1>4. PICK old, base : old = Current(view, t.var) /\ base = BuildExpr(t.idx, view)
  OBVIOUS
<1>5. PICK current : current = FallbackNode(ctx, t.var)
  OBVIOUS
<1>6. /\ ElementWrite(t, rhs, ctx) = ElementsWritten(old, rhs, base)
      /\ old \in Expr /\ base \in Expr
  BY <1>2, <1>3, <1>4, ElementWriteIs
<1>7. old = Base(t.var, current) /\ (Unset(t.var, current) \/ Faithful(t.var, current))
  <2>1. PICK shown : shown = ScheduledView(ctx, t.var)
    OBVIOUS
  <2>2. Sound(shown) /\ MeaningOfContext(shown) = view /\ shown.cur[t.var] = current
    BY <1>1, <1>2, <1>3, <1>5, <2>1, ViewMeans
  <2>3. QED BY <1>1, <1>4, <2>2, CurrentMeans
<1>8. PICK next, e : next = ElementsWritten(old, rhs, base) /\ e = MaskedAssign(old, rhs, base)
  OBVIOUS
<1>9. /\ next \in Sequence /\ e \in Expr
      /\ \A s \in Sigma, p \in Pos :
           Element[e[s]][p] = IF next[s][p] = None THEN Element[old[s]][p] ELSE next[s][p]
  BY <1>6, <1>8, ElementsOfPatched
<1>10. PICK id : id = Continued(current, next)
  OBVIOUS
<1>11. Faithful(t.var, id) /\ Meaning(t.var, id) = e /\ WritesOver(id, current)
  BY <1>7, <1>9, <1>10, ContinuedMeans
<1>12. new = Record(ctx, t.var, nb, id)
  <2>1. ScheduledView(ctx, t.var).cur[t.var] = current
    BY <1>1, <1>5, ViewMeans
  <2>2. new = Record(ctx, t.var, nb, Continued(current, ElementWrite(t, rhs, ctx)))
    BY <2>1 DEF RecordArray
  <2>3. QED BY <1>6, <1>8, <1>10, <2>2
<1>13. RecordTarget(m, t, rhs, nb) = Record(m, t.var, nb, e)
  BY <1>3, <1>4, <1>8 DEF RecordTarget
<1>14. Sound(new) /\ MeaningOfContext(new) = Record(m, t.var, nb, e) /\ Covers(new, ctx)
  BY <1>1, <1>2, <1>5, <1>11, <1>12, RecordMeans
<1>15. \A x \in Var : new.sched[x] = None => ctx.sched[x] = None
  BY <1>1, <1>11, <1>12, ScheduleGrows
<1>16. QED BY <1>2, <1>13, <1>14, <1>15

(* Nothing changes for a name that stands for whole values.                *)
LEMMA RecordScalarMeans ==
  ASSUME NEW ctx, Sound(ctx), NEW t \in Target, t.var \notin Array,
         NEW rhs \in Expr, NEW nb \in BOOLEAN, NEW new, new = RecordScalar(ctx, t, rhs, nb)
  PROVE  /\ Sound(new)
         /\ MeaningOfContext(new) = RecordTarget(MeaningOfContext(ctx), t, rhs, nb)
         /\ Covers(new, ctx)
         /\ \A x \in Var : new.sched[x] = None => ctx.sched[x] = None
<1>1. t.var \in Var /\ t.idx \in [Store -> Val] \cup {None}
  BY DEF Target
<1>2. PICK m : m = MeaningOfContext(ctx)
  OBVIOUS
<1>3. PICK view : view = ScheduledView(ctx, t.var)
  OBVIOUS
<1>4. Sound(view) /\ MeaningOfContext(view) = ScheduledView(m, t.var)
  BY <1>1, <1>2, <1>3, ViewMeans
<1>5. PICK seen : seen = ScheduledView(m, t.var)
  OBVIOUS
<1>6. seen \in Context /\ seen.cur[t.var] = view.cur[t.var]
  <2>1. seen = MeaningOfContext(view)
    BY <1>4, <1>5
  <2>2. seen \in Context /\ seen.cur[t.var] = Meaning(t.var, view.cur[t.var])
    BY <1>1, <1>4, <2>1, MeaningOfSound
  <2>3. QED BY <2>2 DEF Meaning
<1>7. Current(view, t.var) = Current(seen, t.var) /\ ReadIn(t.idx, view) = BuildExpr(t.idx, seen)
  BY <1>4, <1>5, <1>6 DEF Current, ReadIn
<1>8. PICK value : value = IF t.idx = None THEN rhs
                           ELSE MaskedAssign(Current(seen, t.var), rhs, BuildExpr(t.idx, seen))
  OBVIOUS
<1>9. value \in Expr
  <2>1. CASE t.idx = None
    BY <1>8, <2>1
  <2>2. CASE t.idx # None
    <3>1. Current(seen, t.var) \in Expr /\ BuildExpr(t.idx, seen) \in Expr
      BY <1>1, <1>6, <2>2, CurrentType, BuildExprType
    <3>2. QED BY <1>8, <2>2, <3>1, MaskedAssignType
  <2>3. QED BY <2>1, <2>2
<1>10. Faithful(t.var, value) /\ Meaning(t.var, value) = value
  BY <1>9 DEF Faithful, Meaning
<1>11. new = Record(ctx, t.var, nb, value)
  BY <1>3, <1>7, <1>8 DEF RecordScalar
<1>12. RecordTarget(m, t, rhs, nb) = Record(m, t.var, nb, value)
  BY <1>5, <1>8 DEF RecordTarget
<1>13. /\ Sound(new) /\ MeaningOfContext(new) = Record(m, t.var, nb, value)
       /\ Covers(new, ctx)
  BY <1>1, <1>2, <1>10, <1>11, RecordMeans
<1>14. \A x \in Var : new.sched[x] = None => ctx.sched[x] = None
  BY <1>1, <1>10, <1>11, ScheduleGrows
<1>15. QED BY <1>2, <1>12, <1>13, <1>14

-----------------------------------------------------------------------------
(* Merging branches.                                                       *)

(* The writes of next, over the array b, leave e.                          *)
Leaves(next, b, e) ==
  /\ next \in Sequence /\ e \in Expr
  /\ \A s \in Sigma, p \in Pos :
       Element[e[s]][p] = IF next[s][p] = None THEN Element[b[s]][p] ELSE next[s][p]

(* What a context has scheduled for an output is what it falls back to.    *)
LEMMA OutputNode ==
  ASSUME NEW ctx, Sound(ctx), NEW v \in Outs(ctx), NEW m, m = MeaningOfContext(ctx)
  PROVE  /\ v \in Var /\ v \in Outs(m)
         /\ Faithful(v, ctx.outs[v].id) /\ FallbackNode(ctx, v) = ctx.outs[v].id
         /\ m.outs[v].id = Meaning(v, ctx.outs[v].id)
         /\ LastNb(m.outs[v]) = LastNb(ctx.outs[v]) /\ m.outs[v].last = ctx.outs[v].last
         /\ LastNb(ctx.outs[v]) \in BOOLEAN /\ ctx.outs[v].last \in BOOLEAN
         /\ m.outs[v].seen = ctx.outs[v].seen
<1>1. v \in Var
  BY DEF Outs
<1>2. Faithful(v, ctx.outs[v].id) /\ ctx.sched[v] = ctx.outs[v].id
  BY <1>1 DEF Sound
<1>3. ctx.sched[v] # None
  BY <1>1, <1>2, FaithfulMeaning
<1>4. FallbackNode(ctx, v) = ctx.outs[v].id
  BY <1>2, <1>3 DEF FallbackNode
<1>5. /\ Outs(m) = Outs(ctx)
      /\ ctx.outs[v] \in NodeSlot
      /\ m.outs[v].id = Meaning(v, ctx.outs[v].id)
      /\ m.outs[v].last = ctx.outs[v].last /\ m.outs[v].seen = ctx.outs[v].seen
  BY MeaningOfSound
<1>6. ctx.outs[v].last \in BOOLEAN
  BY <1>5 DEF NodeSlot
<1>7. QED BY <1>1, <1>2, <1>4, <1>5, <1>6 DEF LastNb

(* The writes of a branch, over what the parent has, leave the array the   *)
(* branch leaves; a branch without one leaves what the parent has.         *)
LEMMA BranchWritten ==
  ASSUME NEW parent, Sound(parent), NEW branch, Sound(branch), Covers(branch, parent),
         NEW v \in Array, NEW w, w = BranchWrites(parent, branch, v),
         NEW e, e = BranchValue(MeaningOfContext(parent), MeaningOfContext(branch), v)
  PROVE  Leaves(w, Base(v, FallbackNode(parent, v)), e)
<1>1. v \in Var
  BY ArraysAreNames
<1>2. PICK current : current = FallbackNode(parent, v)
  OBVIOUS
<1>3. /\ Unset(v, current) \/ Faithful(v, current)
      /\ Fallback(MeaningOfContext(parent), v) = Base(v, current)
  BY <1>1, <1>2, CurrentMeans
<1>4. /\ Base(v, current) \in Expr
      /\ \A s \in Sigma, p \in Pos :
           Element[Base(v, current)[s]][p] = IF IsSequence(current) THEN Written(s[v], current[s], p)
                                             ELSE Element[s[v]][p]
  BY <1>1, <1>3, BaseType
<1>5. Outs(MeaningOfContext(branch)) = Outs(branch)
  BY MeaningOfSound
<1>6. CASE v \in Outs(branch)
  <2>1. /\ Faithful(v, branch.outs[v].id) /\ FallbackNode(branch, v) = branch.outs[v].id
        /\ MeaningOfContext(branch).outs[v].id = Meaning(v, branch.outs[v].id)
    BY <1>6, OutputNode
  <2>2. w = branch.outs[v].id /\ e = Meaning(v, w)
    BY <1>5, <1>6, <2>1 DEF BranchWrites, BranchValue
  <2>3. WritesOver(w, current)
    BY <1>2, <2>1, <2>2 DEF Covers
  <2>4. w \in Sequence /\ e \in Expr /\ IsSequence(w)
    BY <1>1, <2>1, <2>2, FaithfulMeaning DEF Faithful
  <2>5. \A s \in Sigma, p \in Pos : Element[e[s]][p] = Written(s[v], w[s], p)
    BY <2>1, <2>2, <2>4 DEF Faithful, Meaning
  <2>6. \A s \in Sigma, p \in Pos :
          IsSequence(current) /\ w[s][p] = None => current[s][p] = None
    BY <2>3 DEF WritesOver
  <2>7. \A s \in Sigma, p \in Pos :
          Element[e[s]][p] = IF w[s][p] = None THEN Element[Base(v, current)[s]][p] ELSE w[s][p]
    BY <1>4, <2>5, <2>6 DEF Written
  <2>8. QED BY <1>2, <2>4, <2>7 DEF Leaves
<1>7. CASE v \notin Outs(branch)
  <2>1. w = Nothing /\ e = Base(v, current)
    BY <1>3, <1>5, <1>7 DEF BranchWrites, BranchValue
  <2>2. Nothing \in Sequence /\ \A s \in Sigma, p \in Pos : Nothing[s][p] = None
    BY DEF Nothing, Sequence
  <2>3. QED BY <1>2, <1>4, <2>1, <2>2 DEF Leaves
<1>8. QED BY <1>6, <1>7

LEMMA BranchScalar ==
  ASSUME NEW parent, Sound(parent), NEW branch, Sound(branch), NEW v \in Var, v \notin Array,
         NEW e, e = BranchValue(MeaningOfContext(parent), MeaningOfContext(branch), v)
  PROVE  BranchValue(parent, branch, v) = e /\ e \in Expr
<1>1. PICK m, n : m = MeaningOfContext(parent) /\ n = MeaningOfContext(branch)
  OBVIOUS
<1>2. m \in Context /\ n \in Context /\ Outs(n) = Outs(branch)
      /\ m.cur[v] = Meaning(v, parent.cur[v]) /\ m.sched[v] = Meaning(v, parent.sched[v])
  BY <1>1, MeaningOfSound
<1>3. m.cur[v] = parent.cur[v] /\ m.sched[v] = parent.sched[v]
  BY <1>2 DEF Meaning
<1>4. v \in Outs(branch) => n.outs[v].id = branch.outs[v].id
  <2>1. v \in Outs(branch) => n.outs[v].id = Meaning(v, branch.outs[v].id)
    BY <1>1, OutputNode
  <2>2. QED BY <2>1 DEF Meaning
<1>5. e \in Expr
  BY <1>1, <1>2, BranchValueType
<1>6. Fallback(parent, v) = Fallback(m, v)
  BY <1>3 DEF Fallback, Current
<1>7. QED BY <1>1, <1>2, <1>4, <1>5, <1>6 DEF BranchValue

(* The node a merge gives a name: next, over what the parent has.          *)
LEMMA MergedNode ==
  ASSUME NEW parent, Sound(parent), NEW v \in Array, NEW next, NEW e,
         Leaves(next, Base(v, FallbackNode(parent, v)), e),
         NEW id, id = Continued(FallbackNode(parent, v), next)
  PROVE  Faithful(v, id) /\ Meaning(v, id) = e /\ WritesOver(id, FallbackNode(parent, v))
<1>1. v \in Var
  BY ArraysAreNames
<1>2. PICK current : current = FallbackNode(parent, v)
  OBVIOUS
<1>3. Unset(v, current) \/ Faithful(v, current)
  BY <1>1, <1>2, CurrentMeans
<1>4. QED BY <1>2, <1>3, ContinuedMeans DEF Leaves

LEMMA ScalarNode ==
  ASSUME NEW v \in Var, v \notin Array, NEW e \in Expr
  PROVE  Faithful(v, e) /\ Meaning(v, e) = e
BY DEF Faithful, Meaning

LEMMA MuxLeaves ==
  ASSUME NEW b, NEW w1, NEW e1, Leaves(w1, b, e1), NEW w2, NEW e2, Leaves(w2, b, e2),
         NEW cond \in [Sigma -> BOOLEAN],
         NEW w, w = CreateMux(cond, w1, w2), NEW e, e = CreateMux(cond, e1, e2)
  PROVE  Leaves(w, b, e)
<1>1. w \in Sequence
  BY DEF Leaves, CreateMux, Sequence
<1>2. e \in Expr
  BY DEF Leaves, CreateMux, Expr
<1>3. \A s \in Sigma : IF cond[s] THEN w[s] = w1[s] /\ e[s] = e1[s]
                       ELSE w[s] = w2[s] /\ e[s] = e2[s]
  BY DEF CreateMux
<1>4. QED BY <1>1, <1>2, <1>3 DEF Leaves

LEMMA ConditionalMeans ==
  ASSUME NEW parent, Sound(parent), NEW then, Sound(then), NEW else, Sound(else),
         Covers(then, parent), Covers(else, parent), NEW cond \in [Sigma -> BOOLEAN],
         NEW new, new = MergeArrayConditional(parent, cond, then, else)
  PROVE  /\ Sound(new) /\ Covers(new, parent)
         /\ MeaningOfContext(new) = MergeConditional(MeaningOfContext(parent), cond,
                                      MeaningOfContext(then), MeaningOfContext(else))
<1>1. PICK m, mt, me : /\ m = MeaningOfContext(parent)
                       /\ mt = MeaningOfContext(then) /\ me = MeaningOfContext(else)
  OBVIOUS
<1>2. PICK names : names = Outs(then) \cup Outs(else)
  OBVIOUS
<1>3. names \in SUBSET Var /\ Outs(mt) = Outs(then) /\ Outs(me) = Outs(else)
  BY <1>1, <1>2, MeaningOfSound DEF Outs
<1> DEFINE Nb(branch, v) == v \in Outs(branch) /\ LastNb(branch.outs[v])
           node(v) ==
             IF v \in Array
             THEN Continued(FallbackNode(parent, v),
                            CreateMux(cond, BranchWrites(parent, then, v),
                                            BranchWrites(parent, else, v)))
             ELSE CreateMux(cond, BranchValue(parent, then, v), BranchValue(parent, else, v))
           value(v) == CreateMux(cond, BranchValue(m, mt, v), BranchValue(m, me, v))
<1>4. ASSUME NEW v \in names
      PROVE  /\ Faithful(v, node(v)) /\ Meaning(v, node(v)) = value(v)
             /\ v \in Array => WritesOver(node(v), FallbackNode(parent, v))
             /\ Nb(then, v) = Nb(mt, v) /\ Nb(else, v) = Nb(me, v)
             /\ (Nb(then, v) \/ Nb(else, v)) \in BOOLEAN
  <2>1. v \in Var
    BY <1>3
  <2>2. /\ v \in Outs(then) => LastNb(mt.outs[v]) = LastNb(then.outs[v])
        /\ v \in Outs(else) => LastNb(me.outs[v]) = LastNb(else.outs[v])
    BY <1>1, OutputNode
  <2>3. Nb(then, v) = Nb(mt, v) /\ Nb(else, v) = Nb(me, v)
    BY <1>3, <2>2
  <2>4. PICK e1, e2 : e1 = BranchValue(m, mt, v) /\ e2 = BranchValue(m, me, v)
    OBVIOUS
  <2>5. CASE v \in Array
    <3>1. PICK w1, w2 : /\ w1 = BranchWrites(parent, then, v)
                        /\ w2 = BranchWrites(parent, else, v)
      OBVIOUS
    <3>2. PICK b, w, e : /\ b = Base(v, FallbackNode(parent, v))
                         /\ w = CreateMux(cond, w1, w2) /\ e = CreateMux(cond, e1, e2)
      OBVIOUS
    <3>3. Leaves(w1, b, e1) /\ Leaves(w2, b, e2)
      BY <1>1, <2>4, <2>5, <3>1, <3>2, BranchWritten
    <3>4. Leaves(w, b, e)
      BY <3>2, <3>3, MuxLeaves
    <3>5. node(v) = Continued(FallbackNode(parent, v), w)
      BY <2>5, <3>1, <3>2
    <3>6. PICK id : id = node(v)
      OBVIOUS
    <3>7. Faithful(v, id) /\ Meaning(v, id) = e /\ WritesOver(id, FallbackNode(parent, v))
      BY <2>5, <3>2, <3>4, <3>5, <3>6, MergedNode
    <3>8. value(v) = e
      BY <2>4, <3>2
    <3>9. QED BY <2>3, <3>6, <3>7, <3>8
  <2>6. CASE v \notin Array
    <3>1. /\ BranchValue(parent, then, v) = e1 /\ e1 \in Expr
          /\ BranchValue(parent, else, v) = e2 /\ e2 \in Expr
      BY <1>1, <2>1, <2>4, <2>6, BranchScalar
    <3>2. PICK e : e = CreateMux(cond, e1, e2)
      OBVIOUS
    <3>3. e \in Expr
      BY <3>1, <3>2 DEF CreateMux, Expr
    <3>4. node(v) = e /\ value(v) = e
      BY <2>4, <2>6, <3>1, <3>2
    <3>5. Faithful(v, e) /\ Meaning(v, e) = e
      BY <2>1, <2>6, <3>3, ScalarNode
    <3>6. QED BY <2>3, <2>6, <3>4, <3>5
  <2>7. QED BY <2>5, <2>6
<1>5. PICK ids, nbs, mids : /\ ids = [v \in names |-> node(v)]
                            /\ nbs = [v \in names |-> Nb(then, v) \/ Nb(else, v)]
                            /\ mids = [v \in names |-> value(v)]
  OBVIOUS
<1>6. new = Transfer(parent, names, ids, nbs)
  BY <1>2, <1>5 DEF MergeArrayConditional
<1>7. MergeConditional(m, cond, mt, me) = Transfer(m, names, mids, nbs)
  <2>1. nbs = [v \in names |-> Nb(mt, v) \/ Nb(me, v)]
    BY <1>4, <1>5
  <2>2. QED BY <1>2, <1>3, <1>5, <2>1 DEF MergeConditional
<1>8. /\ \A v \in names : Faithful(v, ids[v]) /\ nbs[v] \in BOOLEAN /\ mids[v] = Meaning(v, ids[v])
      /\ \A v \in names \cap Array : WritesOver(ids[v], FallbackNode(parent, v))
  BY <1>4, <1>5
<1>9. Sound(new) /\ MeaningOfContext(new) = Transfer(m, names, mids, nbs) /\ Covers(new, parent)
  BY <1>1, <1>3, <1>6, <1>8, TransferMeans
<1>10. QED BY <1>1, <1>7, <1>9

-----------------------------------------------------------------------------
(* Merging the branches of a case.                                         *)


(* The branches of a case and what they mean, index by index.              *)
LEMMA BranchesMean ==
  ASSUME NEW branches, NEW n \in Nat, DOMAIN branches = 1..n, branches \in Seq(NodeContext),
         \A k \in 1..n : Sound(branches[k]), NEW means, means = MeaningOfContexts(branches)
  PROVE  /\ means \in Seq(Context) /\ Len(means) = n /\ DOMAIN means = 1..n
         /\ \A k \in 1..n : means[k] = MeaningOfContext(branches[k])
         /\ BranchOuts(means) = BranchOuts(branches)
         /\ \A v : Writers(means, v) = Writers(branches, v)
<1>1. DOMAIN means = 1..n /\ \A k \in 1..n : means[k] = MeaningOfContext(branches[k])
  BY DEF MeaningOfContexts
<1>2. \A k \in 1..n : means[k] \in Context /\ Outs(means[k]) = Outs(branches[k])
  BY <1>1, MeaningOfSound
<1>3. means = [k \in 1..n |-> MeaningOfContext(branches[k])]
  BY DEF MeaningOfContexts
<1>4. means \in Seq(Context) /\ Len(means) = n
  BY <1>1, <1>2, <1>3
<1>5. BranchOuts(means) = BranchOuts(branches)
  BY <1>1, <1>2 DEF BranchOuts
<1>6. \A v : Writers(means, v) = Writers(branches, v)
  BY <1>1, <1>2 DEF Writers
<1>7. QED BY <1>1, <1>4, <1>5, <1>6

LEMMA CaseFlagMeans ==
  ASSUME NEW branches, NEW n \in Nat, DOMAIN branches = 1..n, branches \in Seq(NodeContext),
         \A k \in 1..n : Sound(branches[k]), NEW means, means = MeaningOfContexts(branches),
         NEW v \in BranchOuts(branches)
  PROVE  /\ v \in Var
         /\ CaseFlag(means, v) = CaseFlag(branches, v) /\ CaseFlag(branches, v) \in BOOLEAN
<1>1. /\ means \in Seq(Context)
      /\ \A k \in 1..n : means[k] = MeaningOfContext(branches[k])
      /\ v \in BranchOuts(means) /\ Writers(means, v) = Writers(branches, v)
  <2>1. /\ means \in Seq(Context)
        /\ \A k \in 1..n : means[k] = MeaningOfContext(branches[k])
        /\ BranchOuts(means) = BranchOuts(branches)
        /\ \A x : Writers(means, x) = Writers(branches, x)
    BY BranchesMean
  <2>2. QED BY <2>1
<1>2. v \in Var /\ Writers(means, v) # {} /\ Writers(means, v) \in SUBSET Nat
  BY <1>1, WritersProperties
<1>3. PICK S : S = Writers(branches, v)
  OBVIOUS
<1>4. PICK first : first = CHOOSE k \in S : \A m \in S : k <= m
  OBVIOUS
<1>5. first \in S
  <2>1. \E k \in S : \A m \in S : k <= m
    BY <1>1, <1>2, <1>3, LeastIndex
  <2>2. QED BY <1>4, <2>1
<1>6. first \in 1..n /\ v \in Outs(branches[first])
  BY <1>3, <1>5 DEF Writers
<1>7. means[first].outs[v].last = branches[first].outs[v].last
  BY <1>1, <1>6, OutputNode
<1>8. CaseFlag(branches, v) = branches[first].outs[v].last
  BY <1>3, <1>4 DEF CaseFlag
<1>9. CaseFlag(means, v) = means[first].outs[v].last
  BY <1>1, <1>3, <1>4 DEF CaseFlag
<1>10. CaseFlag(means, v) \in BOOLEAN
  BY <1>1, CaseFlagType
<1>11. QED BY <1>2, <1>7, <1>8, <1>9, <1>10

LEMMA CaseAssertionMeans ==
  ASSUME NEW branches, NEW n \in Nat, DOMAIN branches = 1..n, branches \in Seq(NodeContext),
         \A k \in 1..n : Sound(branches[k]), NEW means, means = MeaningOfContexts(branches)
  PROVE  CaseAssertion(means) <=> CaseAssertion(branches)
<1>1. /\ \A k \in 1..n : means[k] = MeaningOfContext(branches[k])
      /\ BranchOuts(means) = BranchOuts(branches)
      /\ \A v : Writers(means, v) = Writers(branches, v)
  BY BranchesMean
<1>2. ASSUME NEW v \in BranchOuts(branches), NEW k \in Writers(branches, v)
      PROVE  /\ means[k].outs[v].last = branches[k].outs[v].last
             /\ CaseFlag(means, v) = CaseFlag(branches, v)
  <2>1. k \in 1..n /\ v \in Outs(branches[k])
    BY <1>2 DEF Writers
  <2>2. means[k].outs[v].last = branches[k].outs[v].last
    BY <1>1, <2>1, OutputNode
  <2>3. CaseFlag(means, v) = CaseFlag(branches, v)
    BY CaseFlagMeans
  <2>4. QED BY <2>2, <2>3
<1>3. QED BY <1>1, <1>2 DEF CaseAssertion

(* A run takes the same operand whatever the operands are: one of them, or *)
(* the value left open (0).                                                *)
LEMMA OperandTaken ==
  ASSUME NEW sel, NEW labels \in Seq(LabelList), NEW full \in BOOLEAN, NEW s \in Sigma
  PROVE  \E c \in 0..Len(labels) + 1 :
           /\ c = 0 => full
           /\ \A data, other :
                CreateCase(sel, labels, data, full, other)[s] = IF c = 0 THEN other ELSE data[c][s]
<1>1. Len(labels) \in Nat /\ DOMAIN labels = 1..Len(labels)
  OBVIOUS
<1>2. PICK S : S = Matches(sel, labels, s)
  OBVIOUS
<1>3. S \in SUBSET (1..Len(labels))
  BY <1>1, <1>2 DEF Matches
<1>4. CASE S # {}
  <2>1. PICK first : first = CHOOSE k \in S : \A m \in S : k <= m
    OBVIOUS
  <2>2. first \in S
    <3>1. \E k \in S : \A m \in S : k <= m
      BY <1>3, <1>4, LeastIndex
    <3>2. QED BY <2>1, <3>1
  <2>3. FirstMatch(sel, labels, s) = first
    BY <1>2, <2>1 DEF FirstMatch
  <2>4. \A data, other : CreateCase(sel, labels, data, full, other)[s] = data[first][s]
    BY <1>2, <1>4, <2>3 DEF CreateCase
  <2>5. first \in 0..Len(labels) + 1 /\ first # 0
    BY <1>1, <1>3, <2>2
  <2>6. QED BY <2>4, <2>5
<1>5. CASE S = {} /\ full
  <2>1. \A data, other : CreateCase(sel, labels, data, full, other)[s] = other
    BY <1>2, <1>5 DEF CreateCase
  <2>2. 0 \in 0..Len(labels) + 1
    BY <1>1
  <2>3. QED BY <1>5, <2>1, <2>2
<1>6. CASE S = {} /\ ~full
  <2>1. PICK c : c = Len(labels) + 1
    OBVIOUS
  <2>2. \A data, other : CreateCase(sel, labels, data, full, other)[s] = data[c][s]
    BY <1>2, <1>6, <2>1 DEF CreateCase
  <2>3. c \in 0..Len(labels) + 1 /\ c # 0
    BY <1>1, <2>1
  <2>4. QED BY <2>2, <2>3
<1>7. QED BY <1>4, <1>5, <1>6

LEMMA CaseLeaves ==
  ASSUME NEW b, NEW sel, NEW labels \in Seq(LabelList), NEW n \in Nat, n = Len(labels) + 1,
         NEW ws, NEW es, \A k \in 1..n : Leaves(ws[k], b, es[k]),
         NEW full \in BOOLEAN, NEW other, full => other \in Val,
         NEW w, w = CreateCase(sel, labels, ws, full, Element[other]),
         NEW e, e = CreateCase(sel, labels, es, full, other)
  PROVE  Leaves(w, b, e)
<1>1. ASSUME NEW s \in Sigma
      PROVE  /\ w[s] \in [Pos -> Val \cup {None}] /\ e[s] \in Val
             /\ \A p \in Pos : Element[e[s]][p] = IF w[s][p] = None THEN Element[b[s]][p]
                                                  ELSE w[s][p]
  <2>1. PICK c \in 0..n : /\ c = 0 => full
                          /\ w[s] = IF c = 0 THEN Element[other] ELSE ws[c][s]
                          /\ e[s] = IF c = 0 THEN other ELSE es[c][s]
    BY OperandTaken
  <2>2. CASE c = 0
    <3>1. w[s] = Element[other] /\ e[s] = other /\ other \in Val
      BY <2>1, <2>2
    <3>2. Element[other] \in [Pos -> Val]
      BY <3>1, ElementsAreValues
    <3>3. \A p \in Pos : Element[other][p] # None
      BY <3>2, NothingElseIsNone
    <3>4. QED BY <3>1, <3>2, <3>3
  <2>3. CASE c # 0
    <3>1. c \in 1..n /\ w[s] = ws[c][s] /\ e[s] = es[c][s]
      BY <2>1, <2>3
    <3>2. PICK wk, ek : wk = ws[c] /\ ek = es[c]
      OBVIOUS
    <3>3. Leaves(wk, b, ek)
      BY <3>1, <3>2
    <3>4. QED BY <3>1, <3>2, <3>3 DEF Leaves, Sequence, Expr
  <2>4. QED BY <2>2, <2>3
<1>2. w \in Sequence
  BY <1>1 DEF CreateCase, Sequence
<1>3. e \in Expr
  BY <1>1 DEF CreateCase, Expr
<1>4. QED BY <1>1, <1>2, <1>3 DEF Leaves

LEMMA CaseMeans ==
  ASSUME NEW parent, Sound(parent),
         NEW branches, NEW n \in Nat, DOMAIN branches = 1..n, branches \in Seq(NodeContext),
         \A k \in 1..n : Sound(branches[k]) /\ Covers(branches[k], parent),
         NEW sel, NEW labels \in Seq(LabelList), n = Len(labels) + 1,
         NEW full \in BOOLEAN, NEW other, full => other \in Val,
         NEW new, new = MergeArrayCase(parent, sel, labels, branches, full, other)
  PROVE  /\ Sound(new) /\ Covers(new, parent)
         /\ MeaningOfContext(new) = MergeCase(MeaningOfContext(parent), sel, labels,
                                      MeaningOfContexts(branches), full, other)
<1>1. PICK m, means : m = MeaningOfContext(parent) /\ means = MeaningOfContexts(branches)
  OBVIOUS
<1>2. PICK names : names = BranchOuts(branches)
  OBVIOUS
<1>3. /\ means \in Seq(Context) /\ Len(means) = n /\ DOMAIN means = 1..n
      /\ \A k \in 1..n : means[k] = MeaningOfContext(branches[k])
      /\ BranchOuts(means) = names
  <2>1. \A k \in 1..n : Sound(branches[k])
    OBVIOUS
  <2>2. QED BY <1>1, <1>2, <2>1, BranchesMean
<1>4. \A v \in names : /\ v \in Var /\ CaseFlag(means, v) = CaseFlag(branches, v)
                       /\ CaseFlag(branches, v) \in BOOLEAN
  <2>1. \A k \in 1..n : Sound(branches[k])
    OBVIOUS
  <2>2. QED BY <1>1, <1>2, <2>1, CaseFlagMeans
<1> DEFINE open(v) == IF v \in Array THEN Element[other] ELSE other
           data(v) == [k \in DOMAIN branches |->
                         IF v \in Array THEN BranchWrites(parent, branches[k], v)
                         ELSE BranchValue(parent, branches[k], v)]
           mdata(v) == [k \in DOMAIN means |-> BranchValue(m, means[k], v)]
           node(v) ==
             LET next == CreateCase(sel, labels, data(v), full, open(v))
             IN  IF v \in Array THEN Continued(FallbackNode(parent, v), next) ELSE next
           value(v) == CreateCase(sel, labels, mdata(v), full, other)
<1>5. ASSUME NEW v \in names
      PROVE  /\ Faithful(v, node(v)) /\ Meaning(v, node(v)) = value(v)
             /\ v \in Array => WritesOver(node(v), FallbackNode(parent, v))
  <2>1. v \in Var
    BY <1>4
  <2>2. PICK ws, es : ws = data(v) /\ es = mdata(v)
    OBVIOUS
  <2>3. \A k \in 1..n : es[k] = BranchValue(m, MeaningOfContext(branches[k]), v)
    BY <1>3, <2>2
  <2>4. CASE v \in Array
    <3>1. \A k \in 1..n : ws[k] = BranchWrites(parent, branches[k], v)
      BY <2>2, <2>4
    <3>2. PICK b, w, e : /\ b = Base(v, FallbackNode(parent, v))
                         /\ w = CreateCase(sel, labels, ws, full, Element[other])
                         /\ e = CreateCase(sel, labels, es, full, other)
      OBVIOUS
    <3>3. ASSUME NEW k \in 1..n
          PROVE  Leaves(ws[k], b, es[k])
      <4>1. PICK branch, wk, ek : branch = branches[k] /\ wk = ws[k] /\ ek = es[k]
        OBVIOUS
      <4>2. Sound(branch) /\ Covers(branch, parent)
        BY <4>1
      <4>3. wk = BranchWrites(parent, branch, v) /\ ek = BranchValue(m, MeaningOfContext(branch), v)
        BY <2>3, <3>1, <4>1
      <4>4. Leaves(wk, b, ek)
        BY <1>1, <2>4, <3>2, <4>2, <4>3, BranchWritten
      <4>5. QED BY <4>1, <4>4
    <3>4. Leaves(w, b, e)
      BY <3>2, <3>3, CaseLeaves
    <3>5. node(v) = Continued(FallbackNode(parent, v), w) /\ value(v) = e
      BY <2>2, <2>4, <3>2
    <3>6. PICK id : id = node(v)
      OBVIOUS
    <3>7. Faithful(v, id) /\ Meaning(v, id) = e /\ WritesOver(id, FallbackNode(parent, v))
      BY <2>4, <3>2, <3>4, <3>5, <3>6, MergedNode
    <3>8. QED BY <3>5, <3>6, <3>7
  <2>5. CASE v \notin Array
    <3>1. \A k \in 1..n : ws[k] = BranchValue(parent, branches[k], v)
      BY <2>2, <2>5
    <3>2. ASSUME NEW k \in 1..n
          PROVE  ws[k] = es[k] /\ es[k] \in Expr
      <4>1. PICK branch, ek : branch = branches[k] /\ ek = es[k]
        OBVIOUS
      <4>2. Sound(branch)
        BY <4>1
      <4>3. BranchValue(parent, branch, v) = ek /\ ek \in Expr
        BY <1>1, <2>1, <2>3, <2>5, <4>1, <4>2, BranchScalar
      <4>4. QED BY <3>1, <4>1, <4>3
    <3>3. ws = es /\ es \in [1..n -> Expr]
      <4>1. ws = [k \in 1..n |-> ws[k]] /\ es = [k \in 1..n |-> es[k]]
        BY <1>3, <2>2
      <4>2. QED BY <3>2, <4>1
    <3>4. PICK e : e = CreateCase(sel, labels, es, full, other)
      OBVIOUS
    <3>5. e \in Expr
      BY <3>3, <3>4, CreateCaseType
    <3>6. node(v) = e /\ value(v) = e
      BY <2>2, <2>5, <3>3, <3>4
    <3>7. Faithful(v, e) /\ Meaning(v, e) = e
      BY <2>1, <2>5, <3>5, ScalarNode
    <3>8. QED BY <2>5, <3>6, <3>7
  <2>6. QED BY <2>4, <2>5
<1>6. PICK ids, nbs, mids : /\ ids = [v \in names |-> node(v)]
                            /\ nbs = [v \in names |-> CaseFlag(branches, v)]
                            /\ mids = [v \in names |-> value(v)]
  OBVIOUS
<1>7. new = Transfer(parent, names, ids, nbs)
  BY <1>2, <1>6 DEF MergeArrayCase
<1>8. MergeCase(m, sel, labels, means, full, other) = Transfer(m, names, mids, nbs)
  <2>1. nbs = [v \in names |-> CaseFlag(means, v)]
    BY <1>4, <1>6
  <2>2. QED BY <1>3, <1>6, <2>1 DEF MergeCase
<1>9. /\ \A v \in names : Faithful(v, ids[v]) /\ nbs[v] \in BOOLEAN /\ mids[v] = Meaning(v, ids[v])
      /\ \A v \in names \cap Array : WritesOver(ids[v], FallbackNode(parent, v))
      /\ names \in SUBSET Var
  BY <1>4, <1>5, <1>6
<1>10. Sound(new) /\ MeaningOfContext(new) = Transfer(m, names, mids, nbs) /\ Covers(new, parent)
  <2>1. Sound(parent)
    OBVIOUS
  <2>2. \A v \in names : Faithful(v, ids[v]) /\ nbs[v] \in BOOLEAN
    BY <1>9
  <2>3. \A v \in names : mids[v] = Meaning(v, ids[v])
    BY <1>9
  <2>4. \A v \in names \cap Array : WritesOver(ids[v], FallbackNode(parent, v))
    BY <1>9
  <2>5. names \in SUBSET Var
    BY <1>9
  <2>6. QED BY ONLY <1>1, <1>7, <2>1, <2>2, <2>3, <2>4, <2>5, TransferMeans
<1>11. QED BY <1>1, <1>8, <1>10

-----------------------------------------------------------------------------
(* The statements' effects on a context.                                   *)

LEMMA BlockMeans ==
  ASSUME NEW parent, Sound(parent), NEW child, Sound(child), Covers(child, parent),
         NEW new, new = MergeContext(parent, child)
  PROVE  /\ Sound(new) /\ Covers(new, parent)
         /\ MeaningOfContext(new) = MergeContext(MeaningOfContext(parent), MeaningOfContext(child))
<1>1. PICK m, mc : m = MeaningOfContext(parent) /\ mc = MeaningOfContext(child)
  OBVIOUS
<1>2. PICK names : names = Outs(child) \ child.locals
  OBVIOUS
<1>3. names \in SUBSET Var /\ Outs(mc) = Outs(child) /\ mc.locals = child.locals
  BY <1>1, <1>2, MeaningOfSound DEF Outs
<1>4. ASSUME NEW v \in names
      PROVE  /\ Faithful(v, child.outs[v].id) /\ mc.outs[v].id = Meaning(v, child.outs[v].id)
             /\ LastNb(mc.outs[v]) = LastNb(child.outs[v]) /\ LastNb(child.outs[v]) \in BOOLEAN
             /\ v \in Array => WritesOver(child.outs[v].id, FallbackNode(parent, v))
  <2>1. v \in Outs(child)
    BY <1>2
  <2>2. /\ Faithful(v, child.outs[v].id) /\ FallbackNode(child, v) = child.outs[v].id
        /\ mc.outs[v].id = Meaning(v, child.outs[v].id)
        /\ LastNb(mc.outs[v]) = LastNb(child.outs[v]) /\ LastNb(child.outs[v]) \in BOOLEAN
    BY <1>1, <2>1, OutputNode
  <2>3. QED BY <2>2 DEF Covers
<1>5. PICK ids, nbs, mids : /\ ids = [v \in names |-> child.outs[v].id]
                            /\ nbs = [v \in names |-> LastNb(child.outs[v])]
                            /\ mids = [v \in names |-> mc.outs[v].id]
  OBVIOUS
<1>6. new = Transfer(parent, names, ids, nbs)
  BY <1>2, <1>5 DEF MergeContext
<1>7. MergeContext(m, mc) = Transfer(m, names, mids, nbs)
  <2>1. nbs = [v \in names |-> LastNb(mc.outs[v])]
    BY <1>4, <1>5
  <2>2. QED BY <1>2, <1>3, <1>5, <2>1 DEF MergeContext
<1>8. /\ \A v \in names : Faithful(v, ids[v]) /\ nbs[v] \in BOOLEAN /\ mids[v] = Meaning(v, ids[v])
      /\ \A v \in names \cap Array : WritesOver(ids[v], FallbackNode(parent, v))
  BY <1>4, <1>5
<1>9. Sound(new) /\ MeaningOfContext(new) = Transfer(m, names, mids, nbs) /\ Covers(new, parent)
  <2>1. Sound(parent)
    OBVIOUS
  <2>2. QED BY ONLY <1>1, <1>3, <1>6, <1>8, <2>1, TransferMeans
<1>10. QED BY <1>1, <1>7, <1>9

LEMMA MixesMean ==
  ASSUME NEW then, Sound(then), NEW else, Sound(else), NEW mt, mt = MeaningOfContext(then),
         NEW me, me = MeaningOfContext(else)
  PROVE  /\ MixedOuts(mt) = MixedOuts(then) /\ MixedOuts(me) = MixedOuts(else)
         /\ ConditionalMixes(mt, me) = ConditionalMixes(then, else)
<1>1. /\ Outs(mt) = Outs(then) /\ Outs(me) = Outs(else)
      /\ \A v \in Outs(then) : mt.outs[v].seen = then.outs[v].seen
      /\ \A v \in Outs(else) : me.outs[v].seen = else.outs[v].seen
  BY MeaningOfSound
<1>2. /\ \A v \in Outs(then) : LastNb(mt.outs[v]) = LastNb(then.outs[v])
      /\ \A v \in Outs(else) : LastNb(me.outs[v]) = LastNb(else.outs[v])
  BY <1>1 DEF LastNb
<1>3. MixedOuts(mt) = MixedOuts(then) /\ MixedOuts(me) = MixedOuts(else)
  BY <1>1 DEF MixedOuts
<1>4. QED BY <1>1, <1>2, <1>3 DEF ConditionalMixes

(* A nonblocking statement shows again what was shown before it.           *)
LEMMA RestoredCovers ==
  ASSUME NEW start, Sound(start), NEW written, Sound(written), Covers(written, start),
         \A x \in Var : written.sched[x] = None => start.sched[x] = None,
         NEW new, new = [written EXCEPT !.cur = start.cur]
  PROVE  Covers(new, start)
<1>1. new.cur = start.cur /\ new.sched = written.sched
  BY RestoreMeans
<1>2. ASSUME NEW v \in Array
      PROVE  WritesOver(FallbackNode(new, v), FallbackNode(start, v))
  <2>1. v \in Var
    BY ArraysAreNames
  <2>2. CASE written.sched[v] = None
    <3>1. FallbackNode(new, v) = start.cur[v] /\ FallbackNode(start, v) = start.cur[v]
      BY <1>1, <2>1, <2>2 DEF FallbackNode
    <3>2. QED BY <3>1 DEF WritesOver
  <2>3. CASE written.sched[v] # None
    <3>1. FallbackNode(new, v) = FallbackNode(written, v)
      BY <1>1, <2>3 DEF FallbackNode
    <3>2. QED BY <3>1 DEF Covers
  <2>4. QED BY <2>2, <2>3
<1>3. QED BY <1>2 DEF Covers

LEMMA ReadsAreArrays ==
  /\ \A f \in Expressions \cup {None} : Reads[f] \in SUBSET Array
  /\ \A c \in Tests : TestReads[c] \in SUBSET Array
  /\ \A f \in Selectors : Reads[f] \in SUBSET Array
  /\ \A g \in Labels : LabelReads[g] \in SUBSET Array
<1>1. \A f \in Expressions \cup {None} : Reads[f] \in SUBSET Array
  BY DEF Reads, ArraysOf
<1>2. \A c \in Tests : TestReads[c] \in SUBSET Array
  BY DEF TestReads, ArraysOf
<1>3. \A f \in Selectors : f \in Expressions \cup {None}
  BY DEF Expressions
<1>4. \A g \in Labels : LabelReads[g] \in SUBSET Array
  BY DEF LabelReads, ArraysOf
<1>5. QED BY <1>1, <1>2, <1>3, <1>4

LEMMA TargetReads ==
  ASSUME NEW a \in Assigns, Len(a.lhs) = 1, NEW t, t = a.lhs[1]
  PROVE  /\ t \in Target /\ t.var \in Var /\ t.var \notin Local /\ a.nb \in BOOLEAN
         /\ t.var \in Array => t.idx # None
         /\ t.rhs \in [Store -> Val]
         /\ Reads[t.rhs] \cup Reads[t.idx] \cup ({t.var} \cap Array) \in SUBSET Array
<1>1. a.lhs \in Seq(Target) /\ a.nb \in BOOLEAN
  BY AssignsAreOneOrTwoTargets
<1>2. 1 \in DOMAIN a.lhs /\ t \in Range(a.lhs)
  BY <1>1 DEF Range
<1>3. t \in Target
  BY <1>1, <1>2
<1>4. t.rhs \in Expressions \cup {None} /\ t.idx \in Expressions \cup {None}
  BY <1>2 DEF Expressions
<1>5. Reads[t.rhs] \in SUBSET Array /\ Reads[t.idx] \in SUBSET Array
  BY <1>4, ReadsAreArrays
<1>6. (t.var \in Array => t.idx # None) /\ t.var \notin Local
  BY <1>2, ArraysAreWrittenByElement, NoLocals
<1>7. QED BY <1>1, <1>3, <1>5, <1>6 DEF Target

(* What an assignment leaves in the context of arrays, and in that of      *)
(* whole values.                                                           *)
ArrayWritten(start, a) ==
  LET t == a.lhs[1]
      rhs == ReadIn(t.rhs, start)
      written == IF t.var \in Array THEN RecordArray(start, t, rhs, a.nb)
                 ELSE RecordScalar(start, t, rhs, a.nb)
  IN  IF a.nb THEN [written EXCEPT !.cur = start.cur] ELSE written

WholeWritten(ctx, a) ==
  LET written == RecordTargets(ctx, a)
  IN  IF a.nb THEN [written EXCEPT !.cur = ctx.cur] ELSE written

LEMMA AssignmentMeans ==
  ASSUME NEW ctx, Sound(ctx), NEW a \in Assigns, Len(a.lhs) = 1,
         NEW names \in SUBSET Array, NEW start, start = FindOrCreateInputs(ctx, names),
         NEW new, new = ArrayWritten(start, a)
  PROVE  /\ Sound(new) /\ Covers(new, ctx)
         /\ MeaningOfContext(new) = WholeWritten(MeaningOfContext(ctx), a)
<1>1. PICK t, m : t = a.lhs[1] /\ m = MeaningOfContext(ctx)
  OBVIOUS
<1>2. /\ t \in Target /\ a.nb \in BOOLEAN /\ t.rhs \in [Store -> Val]
      /\ t.var \in Array => t.idx # None
  BY <1>1, TargetReads
<1>3. /\ Sound(start) /\ MeaningOfContext(start) = m /\ Covers(start, ctx)
  BY <1>1, InputsMean
<1>4. m \in Context
  BY <1>1, MeaningOfSound
<1>5. PICK rhs : rhs = BuildExpr(t.rhs, m)
  OBVIOUS
<1>6. rhs \in Expr /\ ReadIn(t.rhs, start) = rhs
  BY <1>2, <1>3, <1>4, <1>5, BuildExprType DEF ReadIn
<1>7. PICK written : written = IF t.var \in Array THEN RecordArray(start, t, rhs, a.nb)
                               ELSE RecordScalar(start, t, rhs, a.nb)
  OBVIOUS
<1>8. /\ Sound(written) /\ Covers(written, start)
      /\ MeaningOfContext(written) = RecordTarget(m, t, rhs, a.nb)
      /\ \A x \in Var : written.sched[x] = None => start.sched[x] = None
  <2>1. CASE t.var \in Array
    <3>1. written = RecordArray(start, t, rhs, a.nb) /\ t.idx # None
      BY <1>2, <1>7, <2>1
    <3>2. QED BY <1>2, <1>3, <1>6, <2>1, <3>1, RecordArrayMeans
  <2>2. CASE t.var \notin Array
    <3>1. written = RecordScalar(start, t, rhs, a.nb)
      BY <1>7, <2>2
    <3>2. QED BY <1>2, <1>3, <1>6, <2>2, <3>1, RecordScalarMeans
  <2>3. QED BY <2>1, <2>2
<1>9. RecordTargets(m, a) = RecordTarget(m, t, rhs, a.nb)
  BY <1>1, <1>5 DEF RecordTargets
<1>10. new = IF a.nb THEN [written EXCEPT !.cur = start.cur] ELSE written
  BY <1>1, <1>6, <1>7 DEF ArrayWritten
<1>11. CASE a.nb
  <2>1. new = [written EXCEPT !.cur = start.cur]
    BY <1>10, <1>11
  <2>2. /\ Sound(new)
        /\ MeaningOfContext(new)
             = [MeaningOfContext(written) EXCEPT !.cur = MeaningOfContext(start).cur]
    BY ONLY <1>3, <1>8, <2>1, RestoreMeans
  <2>3. MeaningOfContext(new) = WholeWritten(m, a)
    BY <1>3, <1>8, <1>9, <1>11, <2>2 DEF WholeWritten
  <2>4. Covers(new, start)
    BY ONLY <1>3, <1>8, <2>1, RestoredCovers
  <2>5. Covers(new, ctx)
    BY <1>3, <2>4, CoversItself
  <2>6. QED BY <1>1, <2>2, <2>3, <2>5
<1>12. CASE ~a.nb
  <2>1. new = written
    BY <1>10, <1>12
  <2>2. MeaningOfContext(new) = WholeWritten(m, a)
    BY <1>8, <1>9, <1>12, <2>1 DEF WholeWritten
  <2>3. Covers(new, ctx)
    BY <1>3, <1>8, <2>1, CoversItself
  <2>4. QED BY <1>1, <1>8, <2>1, <2>2, <2>3
<1>13. QED BY <1>2, <1>11, <1>12

-----------------------------------------------------------------------------
(* The two stacks of contexts, and the statements they belong to.          *)

(* Every context is sound, and the writes of an open or parked branch      *)
(* repeat those of the context around it.                                  *)
Layered(cs, st, fs) ==
  /\ cs \in Seq(NodeContext) /\ st \in Seq(NodeContext) /\ fs \in Seq(FrameType)
  /\ Len(cs) = Len(fs) + 1
  /\ \A k \in 1..Len(cs) : Sound(cs[k])
  /\ \A k \in 1..Len(st) : Sound(st[k])
  /\ \A j \in 1..Len(fs) : Covers(cs[j + 1], cs[j])
  /\ \A j \in 1..Len(fs) : \A i \in fs[j].base + 1..fs[j].base + Parked(fs[j]) :
       Covers(st[i], cs[j])

(* The branches parked by statements around the innermost are below m.     *)
ParkedWithin(fs, m) ==
  \A j \in 1..Len(fs) - 1 : \A i \in fs[j].base + 1..fs[j].base + Parked(fs[j]) : i \in 1..m

LEMMA SoundNode ==
  ASSUME NEW ctx, Sound(ctx)
  PROVE  ctx \in NodeContext
BY DEF Sound

LEMMA LayersSwap ==
  ASSUME NEW cs, NEW st, NEW fs, Layered(cs, st, fs), NEW n \in 1..Len(cs), NEW x, Sound(x),
         Covers(x, cs[n]), n < Len(cs) => Covers(cs[n], x),
         NEW cs2, cs2 = [cs EXCEPT ![n] = x]
  PROVE  Layered(cs2, st, fs)
<1>1. /\ cs2 \in Seq(NodeContext) /\ Len(cs2) = Len(cs)
      /\ \A k \in 1..Len(cs) : cs2[k] = IF k = n THEN x ELSE cs[k]
  BY SoundNode DEF Layered
<1>2. Len(fs) \in Nat /\ Len(cs) = Len(fs) + 1
  BY DEF Layered
<1>3. \A k \in 1..Len(cs2) : Sound(cs2[k])
  BY <1>1 DEF Layered
<1>4. ASSUME NEW j \in 1..Len(fs)
      PROVE  /\ Covers(cs2[j], cs[j]) /\ Covers(cs[j], cs2[j]) /\ Covers(cs2[j + 1], cs[j + 1])
             /\ Covers(cs[j + 1], cs[j])
  <2>1. /\ j \in 1..Len(cs) /\ j < Len(cs) /\ j + 1 \in 1..Len(cs)
    BY <1>2
  <2>2. PICK l : l = j + 1
    OBVIOUS
  <2>3. /\ cs2[j] = IF j = n THEN x ELSE cs[j]
        /\ cs2[l] = IF l = n THEN x ELSE cs[l]
    BY <1>1, <2>1, <2>2
  <2>4. Covers(cs[j + 1], cs[j])
    BY DEF Layered
  <2>5. Covers(cs2[j], cs[j]) /\ Covers(cs[j], cs2[j]) /\ Covers(cs2[l], cs[l])
    BY <2>1, <2>3, CoversItself
  <2>6. QED BY <2>2, <2>4, <2>5
<1>5. ASSUME NEW j \in 1..Len(fs)
      PROVE  Covers(cs2[j + 1], cs2[j])
  BY <1>4, CoversItself
<1>6. ASSUME NEW j \in 1..Len(fs), NEW i \in fs[j].base + 1..fs[j].base + Parked(fs[j])
      PROVE  Covers(st[i], cs2[j])
  <2>1. Covers(st[i], cs[j])
    BY DEF Layered
  <2>2. QED BY <1>4, <2>1, CoversItself
<1>7. QED BY <1>1, <1>2, <1>3, <1>5, <1>6 DEF Layered

LEMMA LayersOpen ==
  ASSUME NEW cs, NEW st, NEW fs, Layered(cs, st, fs), NEW fr \in FrameType, Parked(fr) = 0,
         NEW cs2, cs2 = Append(cs, Child(cs[Len(cs)])), NEW fs2, fs2 = Append(fs, fr)
  PROVE  Layered(cs2, st, fs2)
<1>1. PICK n : n = Len(fs)
  OBVIOUS
<1>2. n \in Nat /\ Len(cs) = n + 1 /\ n + 1 \in 1..Len(cs)
  BY <1>1 DEF Layered
<1>3. PICK top, x : top = cs[n + 1] /\ x = Child(top)
  OBVIOUS
<1>4. Sound(top)
  BY <1>2, <1>3 DEF Layered
<1>5. Sound(x) /\ Covers(x, top)
  BY <1>3, <1>4, ChildMeans
<1>6. /\ cs2 \in Seq(NodeContext) /\ Len(cs2) = n + 2
      /\ \A k \in 1..n + 2 : cs2[k] = IF k = n + 2 THEN x ELSE cs[k]
  BY <1>2, <1>3, <1>5, SoundNode DEF Layered
<1>7. /\ fs2 \in Seq(FrameType) /\ Len(fs2) = n + 1
      /\ \A k \in 1..n + 1 : fs2[k] = IF k = n + 1 THEN fr ELSE fs[k]
  BY <1>1, <1>2 DEF Layered
<1>8. ASSUME NEW k \in 1..n + 2
      PROVE  Sound(cs2[k])
  <2>1. k # n + 2 => k \in 1..Len(cs)
    BY <1>2
  <2>2. QED BY <1>5, <1>6, <2>1 DEF Layered
<1>9. ASSUME NEW j \in 1..n + 1
      PROVE  Covers(cs2[j + 1], cs2[j])
  <2>1. PICK l : l = j + 1
    OBVIOUS
  <2>2. /\ l \in 1..n + 2 /\ j \in 1..n + 2 /\ j # n + 2 /\ (l = n + 2 <=> j = n + 1)
        /\ (j # n + 1 => j \in 1..n)
    BY <1>2, <2>1
  <2>3. /\ cs2[l] = IF j = n + 1 THEN x ELSE cs[l]
        /\ cs2[j] = cs[j]
    BY <1>6, <2>2
  <2>4. j # n + 1 => Covers(cs[l], cs[j])
    BY <1>1, <2>1, <2>2 DEF Layered
  <2>5. QED BY <1>3, <1>5, <2>1, <2>3, <2>4
<1>10. ASSUME NEW j \in 1..n + 1, NEW i \in fs2[j].base + 1..fs2[j].base + Parked(fs2[j])
       PROVE  Covers(st[i], cs2[j])
  <2>1. j # n + 1
    <3>1. SUFFICES ASSUME j = n + 1 PROVE FALSE
      OBVIOUS
    <3>2. fs2[j] = fr /\ fr.base \in Nat
      BY <1>7, <3>1 DEF FrameType
    <3>3. i \in fr.base + 1..fr.base + 0
      BY <3>2
    <3>4. QED BY <3>2, <3>3
  <2>2. j \in 1..n /\ j \in 1..n + 2 /\ j # n + 2
    BY <1>2, <2>1
  <2>3. fs2[j] = fs[j] /\ cs2[j] = cs[j]
    BY <1>6, <1>7, <2>1, <2>2
  <2>4. i \in fs[j].base + 1..fs[j].base + Parked(fs[j])
    BY ONLY <1>10, <2>3
  <2>5. \A jj \in 1..n : \A ii \in fs[jj].base + 1..fs[jj].base + Parked(fs[jj]) :
          Covers(st[ii], cs[jj])
    BY <1>1, Zenon DEF Layered
  <2>6. Covers(st[i], cs[j])
    BY ONLY <2>2, <2>4, <2>5, Zenon
  <2>7. QED BY ONLY <2>3, <2>6, Zenon
<1>11. /\ st \in Seq(NodeContext) /\ \A k \in 1..Len(st) : Sound(st[k])
  BY DEF Layered
<1>12. Len(cs2) = Len(fs2) + 1
  BY <1>2, <1>6, <1>7
<1>13. QED BY ONLY <1>6, <1>7, <1>8, <1>9, <1>10, <1>11, <1>12, Zenon DEF Layered

LEMMA LayersBranch ==
  ASSUME NEW cs, NEW st, NEW fs, Layered(cs, st, fs), NEW n, n = Len(fs), n >= 1,
         NEW fr \in FrameType, fr.base = fs[n].base, Parked(fr) = Parked(fs[n]) + 1,
         Parked(fs[n]) \in Nat, fs[n].base + Parked(fs[n]) = Len(st), ParkedWithin(fs, Len(st)),
         NEW cs2, cs2 = [cs EXCEPT ![n + 1] = Child(cs[n])],
         NEW st2, st2 = Append(st, cs[n + 1]), NEW fs2, fs2 = [fs EXCEPT ![n] = fr]
  PROVE  Layered(cs2, st2, fs2)
<1>1. /\ n \in Nat /\ Len(cs) = n + 1 /\ n \in 1..n /\ n \in 1..n + 1 /\ n + 1 \in 1..n + 1
      /\ n # n + 1
  BY DEF Layered
<1>2. PICK parent, top, x : parent = cs[n] /\ top = cs[n + 1] /\ x = Child(parent)
  OBVIOUS
<1>3. Sound(parent) /\ Sound(top) /\ Covers(top, parent)
  BY <1>1, <1>2 DEF Layered
<1>4. Sound(x) /\ Covers(x, parent)
  BY <1>2, <1>3, ChildMeans
<1>5. /\ cs2 \in Seq(NodeContext) /\ Len(cs2) = n + 1
      /\ \A k \in 1..n + 1 : cs2[k] = IF k = n + 1 THEN x ELSE cs[k]
  BY <1>1, <1>2, <1>4, SoundNode DEF Layered
<1>6. PICK m : m = Len(st)
  OBVIOUS
<1>7. /\ m \in Nat /\ st2 \in Seq(NodeContext) /\ Len(st2) = m + 1
      /\ \A i \in 1..m + 1 : st2[i] = IF i = m + 1 THEN top ELSE st[i]
  BY <1>2, <1>3, <1>6, SoundNode DEF Layered
<1>8. /\ fs2 \in Seq(FrameType) /\ Len(fs2) = n
      /\ \A k \in 1..n : fs2[k] = IF k = n THEN fr ELSE fs[k]
  BY <1>1 DEF Layered
<1>9. \A k \in 1..n + 1 : Sound(cs2[k])
  BY <1>1, <1>4, <1>5 DEF Layered
<1>10. ASSUME NEW i \in 1..m + 1
       PROVE  Sound(st2[i])
  <2>1. i # m + 1 => i \in 1..Len(st)
    BY <1>6, <1>7
  <2>2. QED BY <1>3, <1>7, <2>1 DEF Layered
<1>11. ASSUME NEW j \in 1..n
       PROVE  Covers(cs2[j + 1], cs2[j])
  <2>1. PICK l : l = j + 1
    OBVIOUS
  <2>2. l \in 1..n + 1 /\ j \in 1..n + 1 /\ j # n + 1 /\ (l = n + 1 <=> j = n)
    BY <1>1, <2>1
  <2>3. cs2[l] = (IF j = n THEN x ELSE cs[l]) /\ cs2[j] = cs[j]
    BY <1>5, <2>2
  <2>4. Covers(cs[l], cs[j])
    BY <2>1 DEF Layered
  <2>5. QED BY <1>2, <1>4, <2>1, <2>3, <2>4
<1>12. ASSUME NEW j \in 1..n, NEW i \in fs2[j].base + 1..fs2[j].base + Parked(fs2[j])
       PROVE  Covers(st2[i], cs2[j])
  <2>1. cs2[j] = cs[j]
    BY <1>1, <1>5
  <2>2. CASE j # n
    <3>1. fs2[j] = fs[j] /\ j \in 1..Len(fs) - 1
      BY <1>1, <1>8, <2>2
    <3>2. i \in 1..m
      BY <1>6, <3>1 DEF ParkedWithin
    <3>3. st2[i] = st[i]
      BY <1>7, <3>2
    <3>4. QED BY <2>1, <3>1, <3>3 DEF Layered
  <2>3. CASE j = n
    <3>1. PICK b, p : b = fs[n].base /\ p = Parked(fs[n])
      OBVIOUS
    <3>2. fs2[j] = fr /\ b \in Nat /\ p \in Nat /\ b + p = m
      BY <1>1, <1>6, <1>8, <2>3, <3>1 DEF FrameType, Layered
    <3>3. i \in b + 1..b + (p + 1)
      BY <3>1, <3>2
    <3>4. i = m + 1 \/ (i \in b + 1..b + p /\ i \in 1..m)
      BY ONLY <3>2, <3>3
    <3>5. CASE i = m + 1
      BY <1>2, <1>3, <1>7, <2>1, <2>3, <3>5
    <3>6. CASE i \in b + 1..b + p /\ i \in 1..m
      <4>1. Covers(st[i], cs[n])
        BY <1>1, <3>1, <3>6 DEF Layered
      <4>2. st2[i] = st[i]
        BY <1>7, <3>6
      <4>3. QED BY <2>1, <2>3, <4>1, <4>2
    <3>7. QED BY <3>4, <3>5, <3>6
  <2>4. QED BY <2>2, <2>3
<1>13. QED BY <1>1, <1>5, <1>7, <1>8, <1>9, <1>10, <1>11, <1>12 DEF Layered

LEMMA LayersClose ==
  ASSUME NEW cs, NEW st, NEW fs, Layered(cs, st, fs), NEW n, n = Len(fs), n >= 1,
         NEW x, Sound(x), Covers(x, cs[n]), NEW m \in Nat, m <= Len(st), ParkedWithin(fs, m),
         NEW cs2, cs2 = [SubSeq(cs, 1, n) EXCEPT ![n] = x],
         NEW st2, st2 = SubSeq(st, 1, m), NEW fs2, fs2 = SubSeq(fs, 1, n - 1)
  PROVE  Layered(cs2, st2, fs2)
<1>1. n \in Nat /\ Len(cs) = n + 1 /\ n \in 1..n
  BY DEF Layered
<1>2. /\ cs2 \in Seq(NodeContext) /\ Len(cs2) = n
      /\ \A k \in 1..n : cs2[k] = IF k = n THEN x ELSE cs[k]
  <2>1. PICK q : q = SubSeq(cs, 1, n)
    OBVIOUS
  <2>2. q \in Seq(NodeContext) /\ Len(q) = n /\ \A k \in 1..n : q[k] = cs[k]
    BY <1>1, <2>1 DEF Layered
  <2>3. cs2 = [q EXCEPT ![n] = x] /\ x \in NodeContext
    BY <2>1, SoundNode
  <2>4. QED BY ONLY <1>1, <2>2, <2>3
<1>3. /\ st2 \in Seq(NodeContext) /\ Len(st2) = m
      /\ \A i \in 1..m : st2[i] = st[i] /\ i \in 1..Len(st)
  BY DEF Layered
<1>4. /\ fs2 \in Seq(FrameType) /\ Len(fs2) = n - 1
      /\ \A j \in 1..n - 1 : fs2[j] = fs[j]
  BY <1>1 DEF Layered
<1>5. ASSUME NEW k \in 1..n
      PROVE  Sound(cs2[k])
  <2>1. k \in 1..Len(cs)
    BY <1>1
  <2>2. QED BY <1>2, <2>1 DEF Layered
<1>6. \A i \in 1..m : Sound(st2[i])
  BY <1>3 DEF Layered
<1>7. ASSUME NEW j \in 1..n - 1
      PROVE  /\ Covers(cs2[j + 1], cs2[j]) /\ cs2[j] = cs[j] /\ j \in 1..n
  <2>1. PICK l : l = j + 1
    OBVIOUS
  <2>2. l \in 1..n /\ j \in 1..n /\ j # n
    BY <1>1, <2>1
  <2>3. cs2[l] = (IF l = n THEN x ELSE cs[l]) /\ cs2[j] = cs[j]
    BY <1>2, <2>2
  <2>4. Covers(cs[l], cs[j])
    BY <2>1, <2>2 DEF Layered
  <2>5. l = n => Covers(x, cs[l])
    OBVIOUS
  <2>6. Covers(cs2[l], cs[j])
    BY <2>3, <2>4, <2>5, CoversItself
  <2>7. QED BY <2>1, <2>2, <2>3, <2>6
<1>8. ASSUME NEW j \in 1..n - 1, NEW i \in fs2[j].base + 1..fs2[j].base + Parked(fs2[j])
      PROVE  Covers(st2[i], cs2[j])
  <2>1. fs2[j] = fs[j] /\ cs2[j] = cs[j] /\ j \in 1..Len(fs)
    BY <1>4, <1>7
  <2>2. i \in 1..m
    BY <2>1 DEF ParkedWithin
  <2>3. st2[i] = st[i]
    BY <1>3, <2>2
  <2>4. QED BY <2>1, <2>3 DEF Layered
<1>9. Len(cs2) = Len(fs2) + 1
  BY <1>1, <1>2, <1>4
<1>10. QED BY ONLY <1>2, <1>3, <1>4, <1>5, <1>6, <1>7, <1>8, <1>9 DEF Layered

(* What a stack means, through the operations on it.                       *)
Meanings == {MeaningOfContext(ctx) : ctx \in NodeContext}

LEMMA MeaningOfStack ==
  ASSUME NEW cs \in Seq(NodeContext), NEW ms, ms = MeaningOfContexts(cs)
  PROVE  /\ ms \in Seq(Meanings)
         /\ Len(ms) = Len(cs) /\ DOMAIN ms = DOMAIN cs /\ DOMAIN cs = 1..Len(cs)
         /\ \A k \in 1..Len(cs) : ms[k] = MeaningOfContext(cs[k])
         /\ ms = [k \in 1..Len(cs) |-> MeaningOfContext(cs[k])]
<1>1. DOMAIN cs = 1..Len(cs) /\ Len(cs) \in Nat
  OBVIOUS
<1>2. ms = [k \in 1..Len(cs) |-> MeaningOfContext(cs[k])]
  BY <1>1 DEF MeaningOfContexts
<1>3. \A k \in 1..Len(cs) : MeaningOfContext(cs[k]) \in Meanings
  BY <1>1 DEF Meanings
<1>4. ms \in Seq(Meanings) /\ Len(ms) = Len(cs)
  BY <1>1, <1>2, <1>3
<1>5. QED BY <1>1, <1>2, <1>4

Put(cs, n, x) == [cs EXCEPT ![n] = x]

LEMMA MeaningReplaced ==
  ASSUME NEW cs \in Seq(NodeContext), NEW n \in 1..Len(cs), NEW x \in NodeContext,
         NEW cs2, cs2 = Put(cs, n, x)
  PROVE  MeaningOfContexts(cs2) = Put(MeaningOfContexts(cs), n, MeaningOfContext(x))
<1>1. PICK ms, y : ms = MeaningOfContexts(cs) /\ y = MeaningOfContext(x)
  OBVIOUS
<1>2. ms = [k \in 1..Len(cs) |-> MeaningOfContext(cs[k])]
  BY <1>1, MeaningOfStack
<1>3. DOMAIN cs2 = 1..Len(cs) /\ \A k \in 1..Len(cs) : cs2[k] = IF k = n THEN x ELSE cs[k]
  BY DEF Put
<1>4. MeaningOfContexts(cs2) = [k \in 1..Len(cs) |-> IF k = n THEN y ELSE ms[k]]
  BY <1>1, <1>2, <1>3 DEF MeaningOfContexts
<1>5. Put(ms, n, y) = [k \in 1..Len(cs) |-> IF k = n THEN y ELSE ms[k]]
  BY <1>2 DEF Put
<1>6. QED BY <1>1, <1>4, <1>5

LEMMA MeaningAppended ==
  ASSUME NEW cs \in Seq(NodeContext), NEW x \in NodeContext, NEW cs2, cs2 = Append(cs, x)
  PROVE  MeaningOfContexts(cs2) = Append(MeaningOfContexts(cs), MeaningOfContext(x))
<1>1. PICK ms, y : ms = MeaningOfContexts(cs) /\ y = MeaningOfContext(x)
  OBVIOUS
<1>2. /\ ms \in Seq(Meanings) /\ y \in Meanings
      /\ Len(ms) = Len(cs) /\ Len(cs) \in Nat
      /\ \A k \in 1..Len(cs) : ms[k] = MeaningOfContext(cs[k])
  BY <1>1, MeaningOfStack DEF Meanings
<1>3. /\ DOMAIN cs2 = 1..Len(cs) + 1
      /\ \A k \in 1..Len(cs) + 1 : cs2[k] = IF k = Len(cs) + 1 THEN x ELSE cs[k]
  OBVIOUS
<1>4. ASSUME NEW k \in 1..Len(cs) + 1
      PROVE  MeaningOfContext(cs2[k]) = IF k = Len(cs) + 1 THEN y ELSE ms[k]
  <2>1. k # Len(cs) + 1 => k \in 1..Len(cs)
    BY <1>2
  <2>2. QED BY <1>1, <1>2, <1>3, <2>1
<1>5. MeaningOfContexts(cs2)
        = [k \in 1..Len(cs) + 1 |-> IF k = Len(cs) + 1 THEN y ELSE ms[k]]
  BY <1>3, <1>4 DEF MeaningOfContexts
<1>6. Append(ms, y) = [k \in 1..Len(cs) + 1 |-> IF k = Len(cs) + 1 THEN y ELSE ms[k]]
  <2>1. PICK r, n : r = Append(ms, y) /\ n = Len(cs)
    OBVIOUS
  <2>2. /\ n \in Nat /\ r \in Seq(Meanings) /\ Len(r) = n + 1 /\ DOMAIN r = 1..n + 1
        /\ \A k \in 1..n + 1 : r[k] = IF k = n + 1 THEN y ELSE ms[k]
    BY <1>2, <2>1
  <2>3. r = [k \in 1..n + 1 |-> r[k]]
    BY <2>2
  <2>4. QED BY <2>1, <2>2, <2>3
<1>7. QED BY <1>1, <1>5, <1>6

Cut(cs, a, b) == SubSeq(cs, a, b)

LEMMA MeaningOfCut ==
  ASSUME NEW cs \in Seq(NodeContext), NEW a \in Nat, a >= 1, NEW b \in Nat, b <= Len(cs)
  PROVE  MeaningOfContexts(Cut(cs, a, b)) = Cut(MeaningOfContexts(cs), a, b)
<1>1. PICK ms, cs2 : ms = MeaningOfContexts(cs) /\ cs2 = SubSeq(cs, a, b)
  OBVIOUS
<1>2. /\ ms \in Seq(Meanings) /\ Len(ms) = Len(cs) /\ Len(cs) \in Nat
      /\ \A k \in 1..Len(cs) : ms[k] = MeaningOfContext(cs[k])
  BY <1>1, MeaningOfStack
<1>3. cs2 = [k \in 1..b - a + 1 |-> cs[k + a - 1]]
  BY <1>1
<1>4. SubSeq(ms, a, b) = [k \in 1..b - a + 1 |-> ms[k + a - 1]]
  BY <1>2
<1>5. \A k \in 1..b - a + 1 : k + a - 1 \in 1..Len(cs)
  BY <1>2
<1>6. DOMAIN cs2 = 1..b - a + 1 /\ \A k \in 1..b - a + 1 : cs2[k] = cs[k + a - 1]
  BY <1>3
<1>7. MeaningOfContexts(cs2) = [k \in 1..b - a + 1 |-> MeaningOfContext(cs[k + a - 1])]
  BY <1>6 DEF MeaningOfContexts
<1>8. MeaningOfContexts(cs2) = SubSeq(ms, a, b)
  BY <1>2, <1>4, <1>5, <1>7
<1>9. QED BY <1>1, <1>8 DEF Cut

LEMMA MeaningJoined ==
  ASSUME NEW cs \in Seq(NodeContext), NEW ds \in Seq(NodeContext), NEW cs2, cs2 = cs \o ds
  PROVE  MeaningOfContexts(cs2) = MeaningOfContexts(cs) \o MeaningOfContexts(ds)
<1>1. PICK ms, ns : ms = MeaningOfContexts(cs) /\ ns = MeaningOfContexts(ds)
  OBVIOUS
<1>2. PICK a, b : a = Len(cs) /\ b = Len(ds)
  OBVIOUS
<1>3. /\ ms \in Seq(Meanings) /\ ns \in Seq(Meanings)
      /\ Len(ms) = a /\ a \in Nat /\ \A k \in 1..a : ms[k] = MeaningOfContext(cs[k])
      /\ Len(ns) = b /\ b \in Nat /\ \A k \in 1..b : ns[k] = MeaningOfContext(ds[k])
  <2>1. ms \in Seq(Meanings) /\ Len(ms) = a /\ a \in Nat /\ \A k \in 1..a : ms[k] = MeaningOfContext(cs[k])
    BY <1>1, <1>2, MeaningOfStack
  <2>2. ns \in Seq(Meanings) /\ Len(ns) = b /\ b \in Nat /\ \A k \in 1..b : ns[k] = MeaningOfContext(ds[k])
    BY <1>1, <1>2, MeaningOfStack
  <2>3. QED BY <2>1, <2>2
<1>4. /\ DOMAIN cs2 = 1..a + b
      /\ \A k \in 1..a + b : cs2[k] = IF k <= a THEN cs[k] ELSE ds[k - a]
  BY <1>2
<1>5. ASSUME NEW k \in 1..a + b
      PROVE  MeaningOfContext(cs2[k]) = IF k <= a THEN ms[k] ELSE ns[k - a]
  <2>1. (k <= a => k \in 1..a) /\ (~(k <= a) => k - a \in 1..b)
    BY <1>3
  <2>2. QED BY <1>3, <1>4, <2>1
<1>6. MeaningOfContexts(cs2) = [k \in 1..a + b |-> IF k <= a THEN ms[k] ELSE ns[k - a]]
  BY <1>4, <1>5 DEF MeaningOfContexts
<1>7. ms \o ns = [k \in 1..a + b |-> IF k <= a THEN ms[k] ELSE ns[k - a]]
  <2>1. PICK r : r = ms \o ns
    OBVIOUS
  <2>2. /\ r \in Seq(Meanings) /\ Len(r) = a + b /\ DOMAIN r = 1..a + b
        /\ \A k \in 1..a + b : r[k] = IF k <= a THEN ms[k] ELSE ns[k - a]
    <3>1. /\ r \in Seq(Meanings) /\ Len(r) = Len(ms) + Len(ns)
          /\ \A k \in 1..Len(ms) + Len(ns) :
               r[k] = IF k <= Len(ms) THEN ms[k] ELSE ns[k - Len(ms)]
      <4>1. ms \in Seq(Meanings) /\ ns \in Seq(Meanings)
        BY <1>3
      <4>2. QED BY ONLY <2>1, <4>1
    <3>2. QED BY <1>3, <3>1
  <2>3. r = [k \in 1..a + b |-> r[k]]
    BY <2>2
  <2>4. QED BY <2>1, <2>2, <2>3
<1>8. QED BY <1>1, <1>6, <1>7

LEMMA MeaningShort ==
  ASSUME NEW x, NEW y
  PROVE  /\ MeaningOfContexts(<<>>) = <<>>
         /\ MeaningOfContexts(<<x>>) = <<MeaningOfContext(x)>>
         /\ MeaningOfContexts(<<x, y>>) = <<MeaningOfContext(x), MeaningOfContext(y)>>
BY DEF MeaningOfContexts

-----------------------------------------------------------------------------
(* StmtBuilder on what the stacks mean.                                    *)

(* Its operators on contexts are this module's.                            *)
LEMMA SameReading ==
  /\ Builder!Local = Local
  /\ \A ctx : Builder!Child(ctx) = Child(ctx) /\ Builder!Outs(ctx) = Outs(ctx)
              /\ Builder!MixedOuts(ctx) = MixedOuts(ctx)
  /\ \A ctx, s : Builder!StoreAt(ctx, s) = StoreAt(ctx, s)
  /\ \A f, ctx : Builder!BuildExpr(f, ctx) = BuildExpr(f, ctx)
  /\ \A fr : Builder!Parked(fr) = Parked(fr)
<1>1. Builder!Local = Local
  BY DEF Builder!Local, Local
<1>2. \A ctx : Builder!Child(ctx) = Child(ctx) /\ Builder!Outs(ctx) = Outs(ctx)
               /\ Builder!MixedOuts(ctx) = MixedOuts(ctx)
  BY DEF Builder!Child, Child, Builder!NoOuts, NoOuts, Builder!Outs, Outs,
         Builder!MixedOuts, MixedOuts
<1>3. \A ctx, s : Builder!StoreAt(ctx, s) = StoreAt(ctx, s)
  BY DEF Builder!StoreAt, StoreAt, Builder!Current, Current, Builder!Input, Input
<1>4. \A f, ctx : Builder!BuildExpr(f, ctx) = BuildExpr(f, ctx)
  BY <1>3 DEF Builder!BuildExpr, BuildExpr
<1>5. \A fr : Builder!Parked(fr) = Parked(fr)
  BY DEF Builder!Parked, Parked
<1>6. QED BY <1>1, <1>2, <1>3, <1>4, <1>5

LEMMA SameWriting ==
  /\ \A ctx, names, id, nb : Builder!Transfer(ctx, names, id, nb) = Transfer(ctx, names, id, nb)
  /\ \A ctx, v, nb, id : Builder!Record(ctx, v, nb, id) = Record(ctx, v, nb, id)
  /\ \A ctx, t, rhs, nb : Builder!RecordTarget(ctx, t, rhs, nb) = RecordTarget(ctx, t, rhs, nb)
  /\ \A ctx, a : Builder!RecordTargets(ctx, a) = RecordTargets(ctx, a)
<1>1. \A ctx, names, id, nb :
        Builder!Transfer(ctx, names, id, nb) = Transfer(ctx, names, id, nb)
  BY DEF Builder!Transfer, Transfer, Builder!AddOutput, AddOutput
<1>2. \A ctx, v, nb, id : Builder!Record(ctx, v, nb, id) = Record(ctx, v, nb, id)
  BY DEF Builder!Record, Record, Builder!AddOutput, AddOutput
<1>3. \A x, y, z : Builder!MaskedAssign(x, y, z) = MaskedAssign(x, y, z)
  BY Zenon DEF Builder!MaskedAssign, MaskedAssign
<1>4. \A ctx, v : /\ Builder!ScheduledView(ctx, v) = ScheduledView(ctx, v)
                  /\ Builder!Current(ctx, v) = Current(ctx, v)
  BY DEF Builder!ScheduledView, ScheduledView, Builder!Current, Current, Builder!Input, Input
<1>5. ASSUME NEW ctx, NEW t, NEW rhs, NEW nb
      PROVE  Builder!RecordTarget(ctx, t, rhs, nb) = RecordTarget(ctx, t, rhs, nb)
  <2>1. PICK view : view = ScheduledView(ctx, t.var)
    OBVIOUS
  <2>2. PICK index, old : index = BuildExpr(t.idx, view) /\ old = Current(view, t.var)
    OBVIOUS
  <2>3. Builder!BuildExpr(t.idx, view) = index
    BY <2>2, SameReading
  <2>4. Builder!RecordTarget(ctx, t, rhs, nb)
          = Record(ctx, t.var, nb, IF t.idx = None THEN rhs ELSE MaskedAssign(old, rhs, index))
    BY <1>2, <1>3, <1>4, <2>1, <2>2, <2>3 DEF Builder!RecordTarget
  <2>5. RecordTarget(ctx, t, rhs, nb)
          = Record(ctx, t.var, nb, IF t.idx = None THEN rhs ELSE MaskedAssign(old, rhs, index))
    BY <2>1, <2>2 DEF RecordTarget
  <2>6. QED BY <2>4, <2>5
<1>6. \A ctx, a : Builder!RecordTargets(ctx, a) = RecordTargets(ctx, a)
  BY <1>5, SameReading DEF Builder!RecordTargets, RecordTargets
<1>7. QED BY <1>1, <1>2, <1>5, <1>6

LEMMA SameMerges ==
  /\ \A parent, child : Builder!MergeContext(parent, child) = MergeContext(parent, child)
  /\ \A parent, cond, then, else :
       Builder!MergeConditional(parent, cond, then, else)
         = MergeConditional(parent, cond, then, else)
  /\ \A then, else : Builder!ConditionalMixes(then, else) = ConditionalMixes(then, else)
  /\ \A branches : Builder!CaseAssertion(branches) = CaseAssertion(branches)
  /\ \A parent, sel, labels, branches, full, other :
       Builder!MergeCase(parent, sel, labels, branches, full, other)
         = MergeCase(parent, sel, labels, branches, full, other)
<1>1. \A out : Builder!LastNb(out) = LastNb(out)
  BY DEF Builder!LastNb, LastNb
<1>2. \A parent, branch, v : Builder!BranchValue(parent, branch, v) = BranchValue(parent, branch, v)
  BY SameReading DEF Builder!BranchValue, BranchValue, Builder!Fallback, Fallback,
     Builder!Current, Current, Builder!Input, Input
<1>3. \A parent, child : Builder!MergeContext(parent, child) = MergeContext(parent, child)
  BY <1>1, SameReading, SameWriting DEF Builder!MergeContext, MergeContext
<1>4. \A cond, x, y : Builder!CreateMux(cond, x, y) = CreateMux(cond, x, y)
  BY DEF Builder!CreateMux, CreateMux
<1>5. ASSUME NEW parent, NEW cond, NEW then, NEW else
      PROVE  Builder!MergeConditional(parent, cond, then, else)
               = MergeConditional(parent, cond, then, else)
  <2>1. PICK names : names = Outs(then) \cup Outs(else)
    OBVIOUS
  <2>2. PICK ids : ids = [v \in names |-> CreateMux(cond, BranchValue(parent, then, v),
                                                         BranchValue(parent, else, v))]
    OBVIOUS
  <2>3. PICK nbs : nbs = [v \in names |-> (v \in Outs(then) /\ LastNb(then.outs[v]))
                                           \/ (v \in Outs(else) /\ LastNb(else.outs[v]))]
    OBVIOUS
  <2>4. \A v : Builder!CreateMux(cond, Builder!BranchValue(parent, then, v),
                                       Builder!BranchValue(parent, else, v))
                 = CreateMux(cond, BranchValue(parent, then, v), BranchValue(parent, else, v))
    BY <1>2, <1>4
  <2>5. Builder!MergeConditional(parent, cond, then, else) = Transfer(parent, names, ids, nbs)
    BY <1>1, <2>1, <2>2, <2>3, <2>4, SameReading, SameWriting DEF Builder!MergeConditional
  <2>6. MergeConditional(parent, cond, then, else) = Transfer(parent, names, ids, nbs)
    BY <2>1, <2>2, <2>3 DEF MergeConditional
  <2>7. QED BY <2>5, <2>6
<1>6. \A then, else : Builder!ConditionalMixes(then, else) = ConditionalMixes(then, else)
  BY <1>1, SameReading DEF Builder!ConditionalMixes, ConditionalMixes
<1>7. \A branches, v : /\ Builder!BranchOuts(branches) = BranchOuts(branches)
                       /\ Builder!Writers(branches, v) = Writers(branches, v)
                       /\ Builder!CaseFlag(branches, v) = CaseFlag(branches, v)
  BY SameReading DEF Builder!BranchOuts, BranchOuts, Builder!Writers, Writers,
     Builder!CaseFlag, CaseFlag
<1>8. \A branches : Builder!CaseAssertion(branches) = CaseAssertion(branches)
  BY <1>7 DEF Builder!CaseAssertion, CaseAssertion
<1>9. \A sel, labels, data, full, other :
        Builder!CreateCase(sel, labels, data, full, other)
          = CreateCase(sel, labels, data, full, other)
  BY DEF Builder!CreateCase, CreateCase, Builder!Matches, Matches, Builder!FirstMatch, FirstMatch
<1>10. ASSUME NEW parent, NEW sel, NEW labels, NEW branches, NEW full, NEW other
       PROVE  Builder!MergeCase(parent, sel, labels, branches, full, other)
                = MergeCase(parent, sel, labels, branches, full, other)
  <2> DEFINE data(v) == [k \in DOMAIN branches |-> BranchValue(parent, branches[k], v)]
  <2>1. PICK names : names = BranchOuts(branches)
    OBVIOUS
  <2>2. PICK ids : ids = [v \in names |-> CreateCase(sel, labels, data(v), full, other)]
    OBVIOUS
  <2>3. PICK nbs : nbs = [v \in names |-> CaseFlag(branches, v)]
    OBVIOUS
  <2>4. \A v : [k \in DOMAIN branches |-> Builder!BranchValue(parent, branches[k], v)] = data(v)
    BY <1>2
  <2>5. Builder!MergeCase(parent, sel, labels, branches, full, other)
          = Transfer(parent, names, ids, nbs)
    <3>1. [v \in names |-> Builder!CreateCase(sel, labels,
             [k \in DOMAIN branches |-> Builder!BranchValue(parent, branches[k], v)],
             full, other)] = ids
      BY <1>9, <2>2, <2>4
    <3>2. [v \in names |-> Builder!CaseFlag(branches, v)] = nbs
      BY <1>7, <2>3
    <3>3. Builder!BranchOuts(branches) = names
      BY <1>7, <2>1
    <3>4. Builder!MergeCase(parent, sel, labels, branches, full, other)
            = Builder!Transfer(parent, names, ids, nbs)
      BY <3>1, <3>2, <3>3, Zenon DEF Builder!MergeCase
    <3>5. QED BY <3>4, SameWriting
  <2>6. MergeCase(parent, sel, labels, branches, full, other) = Transfer(parent, names, ids, nbs)
    BY <2>1, <2>2, <2>3, Zenon DEF MergeCase
  <2>7. QED BY <2>5, <2>6
<1>11. QED BY <1>3, <1>5, <1>6, <1>8, <1>10

-----------------------------------------------------------------------------
(* What a step needs to find: the contexts are layered, and the parked     *)
(* branches are those of the open statements, from the outermost in.       *)

Layers == Layered(contexts, contextStack, frames) /\ inputs \subseteq Array

Nesting ==
  /\ \A j \in 1..Len(frames) : FrameGood(frames[j])
  /\ ParkedWithin(frames, Len(contextStack))
  /\ frames # <<>> => /\ Inner.base + Parked(Inner) = Len(contextStack)
                     /\ ParkedWithin(frames, Inner.base)

LInv == Layers /\ Nesting

LEMMA StackShape ==
  ASSUME LInv
  PROVE  /\ Len(frames) \in Nat /\ Len(contexts) = Len(frames) + 1 /\ Len(contextStack) \in Nat
         /\ contexts \in Seq(NodeContext) /\ contextStack \in Seq(NodeContext)
         /\ frames \in Seq(FrameType)
         /\ Len(MeaningOfContexts(contexts)) = Len(contexts)
         /\ Len(MeaningOfContexts(contextStack)) = Len(contextStack)
         /\ Top = contexts[Len(frames) + 1] /\ Sound(Top) /\ Top \in NodeContext
         /\ Builder!Top = MeaningOfContext(Top)
<1>1. /\ contexts \in Seq(NodeContext) /\ contextStack \in Seq(NodeContext)
      /\ frames \in Seq(FrameType) /\ Len(contexts) = Len(frames) + 1
  BY DEF LInv, Layers, Layered
<1>2. Len(frames) \in Nat /\ Len(contextStack) \in Nat /\ Len(frames) + 1 \in 1..Len(contexts)
  BY <1>1
<1>3. /\ Len(MeaningOfContexts(contexts)) = Len(contexts)
      /\ \A k \in 1..Len(contexts) :
           MeaningOfContexts(contexts)[k] = MeaningOfContext(contexts[k])
  BY <1>1, MeaningOfStack
<1>4. Len(MeaningOfContexts(contextStack)) = Len(contextStack)
  BY <1>1, MeaningOfStack
<1>5. Top = contexts[Len(frames) + 1] /\ Sound(Top)
  BY <1>1, <1>2 DEF LInv, Layers, Layered, Top
<1>6. Builder!Top = MeaningOfContext(Top)
  BY <1>1, <1>2, <1>3, <1>5 DEF Builder!Top
<1>7. QED BY <1>1, <1>2, <1>3, <1>4, <1>5, <1>6, SoundNode

(* Inside an open statement.                                               *)
LEMMA StatementShape ==
  ASSUME LInv, frames # <<>>
  PROVE  /\ Len(frames) >= 1 /\ Inner = frames[Len(frames)]
         /\ Parent = contexts[Len(frames)] /\ Sound(Parent) /\ Parent \in NodeContext
         /\ Builder!Parent = MeaningOfContext(Parent)
         /\ Covers(Top, Parent)
         /\ FrameGood(Inner) /\ Inner \in FrameType /\ Inner.labels \in Seq(LabelList)
         /\ Inner.base \in Nat /\ Inner.base + Parked(Inner) = Len(contextStack)
         /\ \A i \in Inner.base + 1..Inner.base + Parked(Inner) : Covers(contextStack[i], Parent)
         /\ Builder!Inner = Inner
<1>1. /\ Len(frames) \in Nat /\ Len(contexts) = Len(frames) + 1
      /\ contexts \in Seq(NodeContext) /\ frames \in Seq(FrameType)
      /\ Len(MeaningOfContexts(contexts)) = Len(contexts)
      /\ Len(MeaningOfContexts(contextStack)) = Len(contextStack)
      /\ Top = contexts[Len(frames) + 1]
  BY StackShape
<1>2. PICK n : n = Len(frames)
  OBVIOUS
<1>3. n \in Nat /\ n >= 1 /\ Len(contexts) = n + 1 /\ n \in 1..Len(contexts) /\ n \in 1..n
  BY <1>1, <1>2
<1>4. Parent = contexts[n] /\ Inner = frames[n]
  BY <1>2, <1>3 DEF Parent, Inner
<1>5. Sound(Parent) /\ Covers(Top, Parent)
  BY <1>1, <1>2, <1>3, <1>4 DEF LInv, Layers, Layered
<1>6. Builder!Parent = MeaningOfContext(Parent)
  <2>1. MeaningOfContexts(contexts)[n] = MeaningOfContext(contexts[n])
    BY <1>1, <1>3, MeaningOfStack
  <2>2. QED BY <1>1, <1>3, <1>4, <2>1 DEF Builder!Parent
<1>7. Builder!Inner = Inner
  BY DEF Builder!Inner, Inner
<1>8. FrameGood(Inner) /\ Inner.base + Parked(Inner) = Len(contextStack)
  BY <1>2, <1>3, <1>4 DEF LInv, Nesting
<1>9. Inner \in FrameType
  BY <1>8 DEF FrameGood
<1>10. Inner.base \in Nat /\ Inner.labels \in Seq(LabelList)
  BY <1>9 DEF FrameType
<1>11. \A i \in Inner.base + 1..Inner.base + Parked(Inner) : Covers(contextStack[i], Parent)
  BY <1>2, <1>3, <1>4 DEF LInv, Layers, Layered
<1>12. QED BY <1>2, <1>3, <1>4, <1>5, <1>6, <1>7, <1>8, <1>9, <1>10, <1>11, SoundNode

(* The branches of the statements around the innermost.                    *)
LEMMA ParkedOutside ==
  ASSUME LInv
  PROVE  /\ ParkedWithin(frames, Len(contextStack))
         /\ frames # <<>> => ParkedWithin(frames, Inner.base)
BY DEF LInv, Nesting

-----------------------------------------------------------------------------
(* The shapes of step.                                                     *)

(* A statement that may be visited, or a frame that is closed, is one for  *)
(* StmtBuilder as well.                                                    *)
LEMMA SameGuards ==
  /\ Running => Builder!Running
  /\ CanVisit => Builder!CanVisit
  /\ \A kind : In(kind) => Builder!In(kind)
  /\ Builder!Visited = Visited
<1>1. Running => Builder!Running
  BY DEF Running, Builder!Running, MeaningOfOutputs
<1>2. CanVisit => Builder!CanVisit
  BY <1>1 DEF CanVisit, Builder!CanVisit
<1>3. \A kind : In(kind) => Builder!In(kind)
  BY DEF In, Builder!In, Inner, Builder!Inner
<1>4. Builder!Visited = Visited
  BY DEF Visited, Builder!Visited
<1>5. QED BY <1>1, <1>2, <1>3, <1>4

LEMMA StayingMeans ==
  ASSUME LInv, NEW x, Sound(x), Covers(x, Top),
         contexts' = [contexts EXCEPT ![Len(contexts)] = x],
         UNCHANGED <<contextStack, frames>>
  PROVE  /\ Layered(contexts', contextStack', frames')
         /\ MeaningOfContexts(contexts')
              = [MeaningOfContexts(contexts) EXCEPT ![Len(MeaningOfContexts(contexts))]
                   = MeaningOfContext(x)]
<1>1. PICK l : l = Len(contexts)
  OBVIOUS
<1>2. /\ l \in 1..Len(contexts) /\ Top = contexts[l] /\ contexts \in Seq(NodeContext)
      /\ Len(MeaningOfContexts(contexts)) = l
  BY <1>1, StackShape
<1>3. Layered(contexts, contextStack, frames)
  BY DEF LInv, Layers
<1>4. PICK cs2 : cs2 = [contexts EXCEPT ![l] = x]
  OBVIOUS
<1>5. Layered(cs2, contextStack, frames)
  <2>1. Sound(x) /\ Covers(x, contexts[l]) /\ (l < Len(contexts) => Covers(contexts[l], x))
    BY <1>1, <1>2
  <2>2. QED BY ONLY <1>2, <1>3, <1>4, <2>1, LayersSwap
<1>6. contexts' = cs2
  BY <1>1, <1>4
<1>7. MeaningOfContexts(cs2) = [MeaningOfContexts(contexts) EXCEPT ![l] = MeaningOfContext(x)]
  <2>1. cs2 = Put(contexts, l, x) /\ x \in NodeContext
    BY <1>4, SoundNode DEF Put
  <2>2. MeaningOfContexts(cs2) = Put(MeaningOfContexts(contexts), l, MeaningOfContext(x))
    BY ONLY <1>2, <2>1, MeaningReplaced
  <2>3. QED BY <2>2 DEF Put
<1>8. QED BY <1>2, <1>5, <1>6, <1>7

LEMMA OpeningMeans ==
  ASSUME LInv, NEW x, Sound(x), Covers(x, Top), MeaningOfContext(x) = MeaningOfContext(Top),
         NEW frame \in FrameType, Parked(frame) = 0, NEW cs,
         cs = [contexts EXCEPT ![Len(contexts)] = x],
         contexts' = Append(cs, Child(x)), frames' = Append(frames, frame),
         UNCHANGED contextStack
  PROVE  /\ Layered(contexts', contextStack', frames')
         /\ MeaningOfContexts(contexts')
              = Append(MeaningOfContexts(contexts), Child(MeaningOfContext(Top)))
<1>1. PICK l : l = Len(contexts)
  OBVIOUS
<1>2. /\ l \in 1..Len(contexts) /\ Top = contexts[l] /\ contexts \in Seq(NodeContext)
      /\ Sound(Top) /\ Len(MeaningOfContexts(contexts)) = l
  BY <1>1, StackShape
<1>3. Layered(contexts, contextStack, frames)
  BY DEF LInv, Layers
<1>4. cs = [contexts EXCEPT ![l] = x]
  BY <1>1
<1>5. Layered(cs, contextStack, frames)
  <2>1. Sound(x) /\ Covers(x, contexts[l]) /\ (l < Len(contexts) => Covers(contexts[l], x))
    BY <1>1, <1>2
  <2>2. QED BY ONLY <1>2, <1>3, <1>4, <2>1, LayersSwap
<1>6. cs \in Seq(NodeContext) /\ Len(cs) = l /\ cs[Len(cs)] = x
  <2>1. x \in NodeContext
    BY SoundNode
  <2>2. QED BY ONLY <1>1, <1>2, <1>4, <2>1
<1>7. PICK cs2, fs2 : cs2 = Append(cs, Child(cs[Len(cs)])) /\ fs2 = Append(frames, frame)
  OBVIOUS
<1>8. Layered(cs2, contextStack, fs2)
  <2>1. frame \in FrameType /\ Parked(frame) = 0
    OBVIOUS
  <2>2. QED BY ONLY <1>5, <1>7, <2>1, LayersOpen
<1>9. contexts' = cs2 /\ frames' = fs2
  BY <1>6, <1>7
<1>10. PICK ms, top : ms = MeaningOfContexts(contexts) /\ top = MeaningOfContext(Top)
  OBVIOUS
<1>11. MeaningOfContexts(cs) = ms
  <2>1. /\ MeaningOfContexts(contexts) \in Seq(Meanings)
        /\ Len(MeaningOfContexts(contexts)) = l /\ MeaningOfContexts(contexts)[l] = top
    BY <1>2, <1>10, MeaningOfStack
  <2>2. MeaningOfContexts(cs) = [MeaningOfContexts(contexts) EXCEPT ![l] = MeaningOfContext(x)]
    <3>1. cs = Put(contexts, l, x) /\ x \in NodeContext
      BY <1>4, SoundNode DEF Put
    <3>2. MeaningOfContexts(cs) = Put(MeaningOfContexts(contexts), l, MeaningOfContext(x))
      BY ONLY <1>2, <3>1, MeaningReplaced
    <3>3. QED BY <3>2 DEF Put
  <2>3. [MeaningOfContexts(contexts) EXCEPT ![l] = MeaningOfContext(x)]
          = MeaningOfContexts(contexts)
    <3>1. MeaningOfContext(x) = MeaningOfContexts(contexts)[l]
      BY <1>10, <2>1
    <3>2. QED BY ONLY <2>1, <3>1
  <2>4. QED BY <1>10, <2>2, <2>3
<1>12. Child(x) \in NodeContext /\ MeaningOfContext(Child(x)) = Child(top)
  BY <1>10, ChildMeans, SoundNode
<1>13. PICK y : y = Child(x)
  OBVIOUS
<1>14. cs2 = Append(cs, y) /\ y \in NodeContext /\ MeaningOfContext(y) = Child(top)
  BY <1>6, <1>7, <1>12, <1>13
<1>15. MeaningOfContexts(cs2) = Append(ms, Child(top))
  BY <1>6, <1>11, <1>14, MeaningAppended
<1>16. QED BY <1>8, <1>9, <1>10, <1>15

(* The next branch, of a parent that may show new inputs.                  *)
LEMMA BranchingMeans ==
  ASSUME LInv, frames # <<>>, NEW x, Sound(x), Covers(x, Parent), Covers(Parent, x),
         MeaningOfContext(x) = MeaningOfContext(Parent),
         NEW frame \in FrameType, frame.base = Inner.base, Parked(frame) = Parked(Inner) + 1,
         Parked(Inner) \in Nat,
         NEW cs, cs = [contexts EXCEPT ![Len(contexts) - 1] = x],
         contexts' = [cs EXCEPT ![Len(contexts)] = Child(x)],
         contextStack' = Append(contextStack, Top),
         frames' = [frames EXCEPT ![Len(frames)] = frame]
  PROVE  /\ Layered(contexts', contextStack', frames')
         /\ MeaningOfContexts(contexts')
              = [MeaningOfContexts(contexts) EXCEPT ![Len(MeaningOfContexts(contexts))]
                   = Child(MeaningOfContext(Parent))]
         /\ MeaningOfContexts(contextStack')
              = Append(MeaningOfContexts(contextStack), MeaningOfContext(Top))
<1>1. PICK n : n = Len(frames)
  OBVIOUS
<1>2. /\ n \in Nat /\ n >= 1 /\ Len(contexts) = n + 1 /\ n \in 1..Len(contexts)
      /\ contexts \in Seq(NodeContext) /\ contextStack \in Seq(NodeContext)
      /\ Len(MeaningOfContexts(contexts)) = n + 1
      /\ Top = contexts[n + 1] /\ Top \in NodeContext
      /\ Parent = contexts[n] /\ Inner = frames[n]
      /\ Inner.base + Parked(Inner) = Len(contextStack)
  BY <1>1, StackShape, StatementShape
<1>3. Layered(contexts, contextStack, frames) /\ ParkedWithin(frames, Len(contextStack))
  BY ParkedOutside DEF LInv, Layers
<1>4. cs = [contexts EXCEPT ![n] = x] /\ x \in NodeContext
  BY <1>2, SoundNode
<1>5. Layered(cs, contextStack, frames)
  <2>1. Sound(x) /\ Covers(x, contexts[n]) /\ (n < Len(contexts) => Covers(contexts[n], x))
    BY <1>2
  <2>2. QED BY ONLY <1>2, <1>3, <1>4, <2>1, LayersSwap
<1>6. cs \in Seq(NodeContext) /\ Len(cs) = n + 1 /\ cs[n] = x /\ cs[n + 1] = Top
  BY ONLY <1>2, <1>4
<1>7. PICK cs2, st2, fs2 : /\ cs2 = [cs EXCEPT ![n + 1] = Child(cs[n])]
                           /\ st2 = Append(contextStack, cs[n + 1])
                           /\ fs2 = [frames EXCEPT ![n] = frame]
  OBVIOUS
<1>8. Layered(cs2, st2, fs2)
  <2>1. /\ frame \in FrameType /\ frame.base = frames[n].base
        /\ Parked(frame) = Parked(frames[n]) + 1 /\ Parked(frames[n]) \in Nat
        /\ frames[n].base + Parked(frames[n]) = Len(contextStack)
    BY <1>2
  <2>2. QED BY ONLY <1>1, <1>2, <1>3, <1>5, <1>7, <2>1, LayersBranch
<1>9. contexts' = cs2 /\ contextStack' = st2 /\ frames' = fs2
  BY <1>1, <1>2, <1>6, <1>7
<1>10. PICK ms, parent, y : /\ ms = MeaningOfContexts(contexts)
                            /\ parent = MeaningOfContext(Parent) /\ y = Child(x)
  OBVIOUS
<1>11. MeaningOfContexts(cs) = ms
  <2>1. /\ MeaningOfContexts(contexts) \in Seq(Meanings)
        /\ Len(MeaningOfContexts(contexts)) = n + 1 /\ MeaningOfContexts(contexts)[n] = parent
    BY <1>2, <1>10, MeaningOfStack
  <2>2. MeaningOfContexts(cs) = [MeaningOfContexts(contexts) EXCEPT ![n] = MeaningOfContext(x)]
    <3>1. cs = Put(contexts, n, x) /\ x \in NodeContext
      BY <1>4 DEF Put
    <3>2. MeaningOfContexts(cs) = Put(MeaningOfContexts(contexts), n, MeaningOfContext(x))
      BY ONLY <1>2, <3>1, MeaningReplaced
    <3>3. QED BY <3>2 DEF Put
  <2>3. [MeaningOfContexts(contexts) EXCEPT ![n] = MeaningOfContext(x)]
          = MeaningOfContexts(contexts)
    <3>1. MeaningOfContext(x) = MeaningOfContexts(contexts)[n]
      BY <1>10, <2>1
    <3>2. QED BY ONLY <1>2, <2>1, <3>1
  <2>4. QED BY <1>10, <2>2, <2>3
<1>12. y \in NodeContext /\ MeaningOfContext(y) = Child(parent)
  BY <1>10, ChildMeans, SoundNode
<1>13. MeaningOfContexts(cs2) = [ms EXCEPT ![n + 1] = Child(parent)]
  <2>1. cs2 = Put(cs, n + 1, y)
    BY <1>6, <1>7, <1>10 DEF Put
  <2>2. n + 1 \in 1..Len(cs)
    BY <1>2, <1>6
  <2>3. PICK l : l = n + 1
    OBVIOUS
  <2>4. cs2 = Put(cs, l, y) /\ l \in 1..Len(cs)
    BY <2>1, <2>2, <2>3
  <2>5. MeaningOfContexts(cs2) = Put(MeaningOfContexts(cs), l, MeaningOfContext(y))
    BY ONLY <1>6, <1>12, <2>4, MeaningReplaced
  <2>6. MeaningOfContexts(cs2) = Put(ms, n + 1, Child(parent))
    BY <1>11, <1>12, <2>3, <2>5
  <2>7. QED BY <2>6 DEF Put
<1>14. MeaningOfContexts(st2) = Append(MeaningOfContexts(contextStack), MeaningOfContext(Top))
  BY <1>2, <1>6, <1>7, MeaningAppended
<1>15. QED BY <1>2, <1>8, <1>9, <1>10, <1>13, <1>14

LEMMA ClosingMeans ==
  ASSUME LInv, frames # <<>>, NEW x, Sound(x), Covers(x, Parent), CloseContext(x),
         NEW m \in Nat, m <= Len(contextStack), ParkedWithin(frames, m),
         contextStack' = SubSeq(contextStack, 1, m)
  PROVE  /\ Layered(contexts', contextStack', frames')
         /\ Builder!CloseContext(MeaningOfContext(x))
         /\ MeaningOfContexts(contextStack') = SubSeq(MeaningOfContexts(contextStack), 1, m)
<1>1. PICK n : n = Len(frames)
  OBVIOUS
<1>2. /\ n \in Nat /\ n >= 1 /\ Len(contexts) = n + 1 /\ Len(contexts) - 1 = n
      /\ contexts \in Seq(NodeContext) /\ contextStack \in Seq(NodeContext)
      /\ Len(MeaningOfContexts(contexts)) = n + 1
      /\ Parent = contexts[n]
  BY <1>1, StackShape, StatementShape
<1>3. Layered(contexts, contextStack, frames)
  BY DEF LInv, Layers
<1>4. PICK cs2, st2, fs2 : /\ cs2 = [SubSeq(contexts, 1, n) EXCEPT ![n] = x]
                           /\ st2 = SubSeq(contextStack, 1, m)
                           /\ fs2 = SubSeq(frames, 1, n - 1)
  OBVIOUS
<1>5. Layered(cs2, st2, fs2)
  <2>1. /\ Sound(x) /\ Covers(x, contexts[n]) /\ m \in Nat /\ m <= Len(contextStack)
        /\ ParkedWithin(frames, m)
    BY <1>2
  <2>2. QED BY ONLY <1>1, <1>2, <1>3, <1>4, <2>1, LayersClose
<1>6. contexts' = cs2 /\ contextStack' = st2 /\ frames' = fs2
  BY <1>1, <1>2, <1>4 DEF CloseContext, Front
<1>7. PICK ms, y : ms = MeaningOfContexts(contexts) /\ y = MeaningOfContext(x)
  OBVIOUS
<1>8. MeaningOfContexts(cs2) = [SubSeq(ms, 1, n) EXCEPT ![n] = y]
  <2>1. PICK q : q = SubSeq(contexts, 1, n)
    OBVIOUS
  <2>2. q \in Seq(NodeContext) /\ n \in 1..Len(q)
    BY ONLY <1>2, <2>1
  <2>3. MeaningOfContexts(q) = SubSeq(MeaningOfContexts(contexts), 1, n)
    <3>1. contexts \in Seq(NodeContext) /\ n \in Nat /\ n <= Len(contexts) /\ 1 \in Nat /\ 1 >= 1
      BY <1>2
    <3>2. MeaningOfContexts(Cut(contexts, 1, n)) = Cut(MeaningOfContexts(contexts), 1, n)
      BY ONLY <3>1, MeaningOfCut
    <3>3. QED BY <2>1, <3>2 DEF Cut
  <2>4. cs2 = Put(q, n, x) /\ x \in NodeContext
    BY <1>4, <2>1, SoundNode DEF Put
  <2>5. MeaningOfContexts(cs2) = Put(MeaningOfContexts(q), n, MeaningOfContext(x))
    BY ONLY <2>2, <2>4, MeaningReplaced
  <2>6. MeaningOfContexts(cs2) = Put(SubSeq(ms, 1, n), n, y)
    BY <1>7, <2>3, <2>5
  <2>7. QED BY <2>6 DEF Put
<1>9. MeaningOfContexts(st2) = SubSeq(MeaningOfContexts(contextStack), 1, m)
  <2>1. m \in Nat /\ m <= Len(contextStack)
    BY Zenon
  <2>2. 1 \in Nat /\ 1 >= 1
    BY ONLY SMT
  <2>3. contextStack \in Seq(NodeContext)
    BY <1>2
  <2>4. MeaningOfContexts(Cut(contextStack, 1, m)) = Cut(MeaningOfContexts(contextStack), 1, m)
    BY ONLY <2>1, <2>2, <2>3, MeaningOfCut
  <2>5. QED BY <1>4, <2>4 DEF Cut
<1>10. Builder!CloseContext(y)
  <2>1. Len(ms) - 1 = n
    BY <1>2, <1>7
  <2>2. MeaningOfContexts(contexts)' = [SubSeq(ms, 1, Len(ms) - 1) EXCEPT ![Len(ms) - 1] = y]
    BY <1>6, <1>8, <2>1
  <2>3. frames' = Front(frames) /\ room' = Front(room)
    BY DEF CloseContext
  <2>4. QED BY <1>7, <2>2, <2>3, Zenon DEF Builder!CloseContext, Builder!Front, Front
<1>11. QED BY <1>5, <1>6, <1>7, <1>9, <1>10

-----------------------------------------------------------------------------
(* Every step is one of StmtBuilder's.                                     *)

LEMMA LayersOf ==
  ASSUME Layered(contexts', contextStack', frames'), NEW names \in SUBSET Array,
         inputs \subseteq Array, inputs' = inputs \cup names
  PROVE  Layers'
BY DEF Layers

LEMMA SameOutputs ==
  /\ UNCHANGED exported => UNCHANGED MeaningOfOutputs
  /\ UNCHANGED contexts => UNCHANGED MeaningOfContexts(contexts)
  /\ UNCHANGED contextStack => UNCHANGED MeaningOfContexts(contextStack)
<1>1. UNCHANGED exported => UNCHANGED MeaningOfOutputs
  BY DEF MeaningOfOutputs, Meaning
<1>2. UNCHANGED contexts => UNCHANGED MeaningOfContexts(contexts)
  OBVIOUS
<1>3. UNCHANGED contextStack => UNCHANGED MeaningOfContexts(contextStack)
  OBVIOUS
<1>4. QED BY <1>1, <1>2, <1>3

LEMMA ArrayAssignmentStep ==
  ASSUME LInv, NEW a \in Assigns, ArrayAssignment(a)
  PROVE  Builder!Assignment(a) /\ Layers'
<1>1. PICK names, start, new :
        /\ names = Reads[a.lhs[1].rhs] \cup Reads[a.lhs[1].idx] \cup ({a.lhs[1].var} \cap Array)
        /\ start = FindOrCreateInputs(Top, names) /\ new = ArrayWritten(start, a)
  OBVIOUS
<1>2. /\ CanVisit /\ Len(a.lhs) = 1
      /\ contexts' = [contexts EXCEPT ![Len(contexts)] = new]
      /\ room' = Visited /\ stmts' = stmts + 1 /\ inputs' = inputs \cup names
      /\ UNCHANGED <<contextStack, frames, exported, mixed, aborted>>
  BY <1>1, Zenon DEF ArrayAssignment, ArrayWritten
<1>3. names \in SUBSET Array /\ a.lhs[1].var \notin Local
  BY <1>1, <1>2, TargetReads
<1>4. Sound(Top) /\ Builder!Top = MeaningOfContext(Top)
  BY StackShape
<1>5. PICK top : top = Top
  OBVIOUS
<1>6. /\ Sound(new) /\ Covers(new, Top)
      /\ MeaningOfContext(new) = WholeWritten(MeaningOfContext(Top), a)
  <2>1. Sound(top) /\ Len(a.lhs) = 1 /\ start = FindOrCreateInputs(top, names)
    BY <1>1, <1>2, <1>4, <1>5
  <2>2. /\ Sound(new) /\ Covers(new, top)
        /\ MeaningOfContext(new) = WholeWritten(MeaningOfContext(top), a)
    BY <1>1, <1>3, <2>1, AssignmentMeans
  <2>3. QED BY <1>5, <2>2
<1>7. /\ Layered(contexts', contextStack', frames')
      /\ MeaningOfContexts(contexts')
           = [MeaningOfContexts(contexts) EXCEPT ![Len(MeaningOfContexts(contexts))]
                = MeaningOfContext(new)]
  BY <1>2, <1>6, StayingMeans
<1>8. Layers'
  <2>1. inputs \subseteq Array
    BY DEF LInv, Layers
  <2>2. QED BY <1>2, <1>3, <1>7, <2>1, LayersOf
<1>9. \A k \in DOMAIN a.lhs : Builder!InScope(a.lhs[k].var)
  <2>1. \A k \in DOMAIN a.lhs : k = 1
    BY <1>2, AssignsAreOneOrTwoTargets
  <2>2. QED BY <1>3, <2>1, SameReading DEF Builder!InScope
<1>10. PICK whole : whole = WholeWritten(Builder!Top, a)
  OBVIOUS
<1>11. (IF a.nb THEN [Builder!RecordTargets(Builder!Top, a) EXCEPT !.cur = Builder!Top.cur]
        ELSE Builder!RecordTargets(Builder!Top, a)) = whole
  <2>1. Builder!RecordTargets(Builder!Top, a) = RecordTargets(Builder!Top, a)
    BY SameWriting
  <2>2. QED BY <1>10, <2>1 DEF WholeWritten
<1>12. MeaningOfContexts(contexts)'
         = [MeaningOfContexts(contexts) EXCEPT ![Len(MeaningOfContexts(contexts))] = whole]
  BY <1>4, <1>6, <1>7, <1>10
<1>13. Builder!CanVisit /\ room' = Builder!Visited
  BY <1>2, SameGuards
<1>14. /\ MeaningOfContexts(contextStack)' = MeaningOfContexts(contextStack)
       /\ MeaningOfOutputs' = MeaningOfOutputs
  BY <1>2, SameOutputs
<1>15. Builder!Assignment(a)
  BY <1>2, <1>9, <1>11, <1>12, <1>13, <1>14, Zenon DEF Builder!Assignment
<1>16. QED BY <1>8, <1>15

(* A branch opened in a context that may show new inputs.                  *)
LEMMA ArrayOpenStep ==
  ASSUME LInv, NEW names \in SUBSET Array, NEW start, start = FindOrCreateInputs(Top, names),
         NEW frame \in FrameType, Parked(frame) = 0, OpenBranch(frame, start),
         inputs' = inputs \cup names
  PROVE  /\ Builder!CanVisit /\ Builder!OpenContext(frame, "one")
         /\ UNCHANGED <<MeaningOfContexts(contextStack), MeaningOfOutputs, mixed, aborted>>
         /\ Layers'
<1>1. PICK cs : cs = [contexts EXCEPT ![Len(contexts)] = start]
  OBVIOUS
<1>2. /\ CanVisit /\ Len(frames) < MaxDepth
      /\ contexts' = Append(cs, Child(start)) /\ frames' = Append(frames, frame)
      /\ room' = Append(Visited, "one") /\ stmts' = stmts + 1
      /\ UNCHANGED <<contextStack, exported, mixed, aborted>>
  BY <1>1 DEF OpenBranch
<1>3. Sound(Top) /\ Builder!Top = MeaningOfContext(Top)
  BY StackShape
<1>4. PICK top : top = Top
  OBVIOUS
<1>5. Sound(start) /\ MeaningOfContext(start) = MeaningOfContext(Top) /\ Covers(start, Top)
  <2>1. Sound(top) /\ start = FindOrCreateInputs(top, names)
    BY <1>3, <1>4
  <2>2. Sound(start) /\ MeaningOfContext(start) = MeaningOfContext(top) /\ Covers(start, top)
    BY <2>1, InputsMean
  <2>3. QED BY <1>4, <2>2
<1>6. /\ Layered(contexts', contextStack', frames')
      /\ MeaningOfContexts(contexts')
           = Append(MeaningOfContexts(contexts), Child(MeaningOfContext(Top)))
  BY <1>1, <1>2, <1>5, OpeningMeans
<1>7. Layers'
  <2>1. inputs \subseteq Array
    BY DEF LInv, Layers
  <2>2. QED BY <1>6, <2>1, LayersOf
<1>8. Builder!CanVisit /\ Builder!Visited = Visited
  BY <1>2, SameGuards
<1>9. MeaningOfContexts(contexts)' = Append(MeaningOfContexts(contexts), Builder!Child(Builder!Top))
  BY <1>3, <1>6, SameReading
<1>10. Builder!OpenContext(frame, "one")
  BY <1>2, <1>8, <1>9 DEF Builder!OpenContext
<1>11. /\ MeaningOfContexts(contextStack)' = MeaningOfContexts(contextStack)
       /\ MeaningOfOutputs' = MeaningOfOutputs
  BY <1>2, SameOutputs
<1>12. QED BY <1>2, <1>7, <1>8, <1>10, <1>11

(* The frame of a statement, in both builders.                             *)
LEMMA SameFrame ==
  ASSUME LInv
  PROVE  \A kind, cond, sel, labels, full :
           Builder!Frame(kind, cond, sel, labels, full) = Frame(kind, cond, sel, labels, full)
<1>1. Len(MeaningOfContexts(contextStack)) = Len(contextStack)
  BY StackShape
<1>2. QED BY <1>1 DEF Builder!Frame, Frame

LEMMA FrameMeans ==
  ASSUME LInv, NEW kind \in {"then", "case", "block"}, NEW cond \in [Sigma -> BOOLEAN] \cup {None},
         NEW sel \in Expr \cup {None}, NEW labels \in Seq(LabelList), NEW full \in BOOLEAN,
         NEW frame, frame = Frame(kind, cond, sel, labels, full)
  PROVE  frame \in FrameType
<1>1. Len(contextStack) \in Nat
  BY StackShape
<1>2. QED BY <1>1 DEF Frame, FrameType

LEMMA ArrayConditionalStep ==
  ASSUME LInv, NEW c \in Tests, ArrayConditional(c)
  PROVE  Builder!Conditional(c) /\ Layers'
<1>1. PICK start, cond :
        /\ start = FindOrCreateInputs(Top, TestReads[c])
        /\ cond = [s \in Sigma |-> c[StoreAt(MeaningOfContext(start), s)]]
  OBVIOUS
<1>2. PICK frame, full : full = FALSE /\ frame = Frame("then", cond, None, <<>>, full)
  OBVIOUS
<1>3. OpenBranch(frame, start) /\ inputs' = inputs \cup TestReads[c]
  <2>1. frame = Frame("then", cond, None, <<>>, FALSE)
    BY <1>2, Zenon
  <2>2. QED BY <1>1, <2>1, Zenon DEF ArrayConditional
<1>4. TestReads[c] \in SUBSET Array
  BY ReadsAreArrays
<1>5. Sound(Top) /\ Builder!Top = MeaningOfContext(Top)
  BY StackShape
<1>6. PICK top : top = Top
  OBVIOUS
<1>7. MeaningOfContext(start) = MeaningOfContext(Top)
  <2>1. Sound(top) /\ start = FindOrCreateInputs(top, TestReads[c])
    BY <1>1, <1>5, <1>6
  <2>2. QED BY <1>4, <1>6, <2>1, InputsMean
<1>8. PICK m : m = MeaningOfContext(Top)
  OBVIOUS
<1>9. m \in Context
  BY <1>5, <1>8, MeaningOfSound
<1>10. cond = [s \in Sigma |-> c[StoreAt(m, s)]]
  BY <1>1, <1>7, <1>8
<1>11. cond \in [Sigma -> BOOLEAN]
  BY <1>9, <1>10, StoreAtType, TestsAreBoolean
<1>12. frame \in FrameType /\ Parked(frame) = 0
  <2>1. PICK labels : labels = <<>>
    OBVIOUS
  <2>2. /\ labels \in Seq(LabelList) /\ None \in Expr \cup {None}
        /\ cond \in [Sigma -> BOOLEAN] \cup {None} /\ "then" \in {"then", "case", "block"}
        /\ frame = Frame("then", cond, None, labels, full)
    BY <1>2, <1>11, <2>1
  <2>3. frame \in FrameType /\ frame.kind = "then"
    <3>1. full \in BOOLEAN
      BY <1>2, Zenon
    <3>2. frame \in FrameType
      BY <2>2, <3>1, FrameMeans
    <3>3. frame.kind = "then"
      BY <2>2 DEF Frame
    <3>4. QED BY <3>2, <3>3
  <2>4. QED BY <2>3 DEF Parked
<1>13. /\ Builder!CanVisit /\ Builder!OpenContext(frame, "one")
       /\ UNCHANGED <<MeaningOfContexts(contextStack), MeaningOfOutputs, mixed, aborted>>
       /\ Layers'
  BY <1>1, <1>3, <1>4, <1>12, ArrayOpenStep
<1>14. frame = Builder!Frame("then", [s \in Sigma |-> c[Builder!StoreAt(Builder!Top, s)]], None, <<>>, full)
  <2>1. [s \in Sigma |-> c[Builder!StoreAt(Builder!Top, s)]] = cond
    BY <1>5, <1>8, <1>10, SameReading
  <2>2. Builder!Frame("then", cond, None, <<>>, full) = frame
    BY <1>2, <1>11, SameFrame
  <2>3. QED BY <2>1, <2>2
<1>15. Builder!Conditional(c)
  <2>1. frame = Builder!Frame("then", [s \in Sigma |-> c[Builder!StoreAt(Builder!Top, s)]],
                              None, <<>>, FALSE)
    BY <1>2, <1>14, Zenon
  <2>2. QED BY <1>13, <2>1, Zenon DEF Builder!Conditional
<1>16. QED BY <1>13, <1>15

LEMMA ArrayCaseItemStep ==
  ASSUME LInv, NEW f \in Selectors, NEW g \in Labels, NEW full \in FullCases,
         ArrayCaseItem(f, g, full)
  PROVE  Builder!CaseItem(f, g, full) /\ Layers'
<1>1. PICK names, start, m :
        /\ names = Reads[f] \cup LabelReads[g] /\ start = FindOrCreateInputs(Top, names)
        /\ m = MeaningOfContext(Top)
  OBVIOUS
<1>2. PICK sel, label : sel = BuildExpr(f, m) /\ label = BuildExpr(g, m)
  OBVIOUS
<1>3. names \in SUBSET Array
  BY <1>1, ReadsAreArrays
<1>4. Sound(Top) /\ Builder!Top = m
  BY <1>1, StackShape
<1>5. PICK top : top = Top
  OBVIOUS
<1>6. MeaningOfContext(start) = m
  <2>1. Sound(top) /\ start = FindOrCreateInputs(top, names)
    BY <1>1, <1>4, <1>5
  <2>2. MeaningOfContext(start) = MeaningOfContext(top)
    BY <1>3, <2>1, InputsMean
  <2>3. QED BY <1>1, <1>5, <2>2
<1>7. PICK labels, frame : labels = <<label>> /\ frame = Frame("case", None, sel, labels, full)
  OBVIOUS
<1>8. OpenBranch(frame, start) /\ inputs' = inputs \cup names
  <2>1. ReadIn(f, start) = sel /\ ReadIn(g, start) = label
    BY <1>2, <1>6 DEF ReadIn
  <2>2. /\ OpenBranch(Frame("case", None, ReadIn(f, start), <<ReadIn(g, start)>>, full), start)
        /\ inputs' = inputs \cup Reads[f] \cup LabelReads[g]
    BY <1>1, Zenon DEF ArrayCaseItem
  <2>3. Frame("case", None, ReadIn(f, start), <<ReadIn(g, start)>>, full) = frame
    BY <1>7, <2>1
  <2>4. QED BY <1>1, <2>2, <2>3
<1>9. sel \in Expr /\ label \in LabelList
  <2>1. m \in Context
    BY <1>1, <1>4, MeaningOfSound
  <2>2. f \in [Store -> Val] /\ g \in [Store -> SUBSET Val]
    BY SelectorsAreExpressions, LabelsAreExpressions
  <2>3. QED BY <1>2, <2>1, <2>2, BuildExprType, BuildLabelsType
<1>10. frame \in FrameType /\ Parked(frame) = 0
  <2>1. /\ labels \in Seq(LabelList) /\ Len(labels) = 1 /\ "case" \in {"then", "case", "block"}
        /\ None \in [Sigma -> BOOLEAN] \cup {None} /\ sel \in Expr \cup {None}
        /\ full \in BOOLEAN
    BY <1>7, <1>9, FullCasesAreBoolean
  <2>2. frame \in FrameType
    BY <1>7, <2>1, FrameMeans
  <2>3. frame.kind = "case" /\ frame.labels = labels
    BY <1>7 DEF Frame
  <2>4. QED BY <2>1, <2>2, <2>3 DEF Parked
<1>11. /\ Builder!CanVisit /\ Builder!OpenContext(frame, "one")
       /\ UNCHANGED <<MeaningOfContexts(contextStack), MeaningOfOutputs, mixed, aborted>>
       /\ Layers'
  BY <1>1, <1>3, <1>8, <1>10, ArrayOpenStep
<1>12. Builder!Frame("case", None, Builder!BuildExpr(f, Builder!Top),
                     <<Builder!BuildExpr(g, Builder!Top)>>, full) = frame
  <2>1. Builder!BuildExpr(f, Builder!Top) = sel /\ Builder!BuildExpr(g, Builder!Top) = label
    BY <1>2, <1>4, SameReading
  <2>2. Builder!Frame("case", None, sel, labels, full) = frame
    BY <1>7, SameFrame
  <2>3. QED BY <1>7, <2>1, <2>2
<1>13. Builder!CaseItem(f, g, full)
  BY <1>11, <1>12, Zenon DEF Builder!CaseItem
<1>14. QED BY <1>11, <1>13

LEMMA ArrayBlockStep ==
  ASSUME LInv, ArrayBlock
  PROVE  Builder!BlockStatement /\ Layers'
<1>1. PICK frame, full, cs, top : /\ full = FALSE /\ frame = Frame("block", None, None, <<>>, full)
                                  /\ cs = contexts /\ top = Top
  OBVIOUS
<1>2. /\ CanVisit /\ Len(frames) < MaxDepth
      /\ contexts' = Append(contexts, Child(top)) /\ frames' = Append(frames, frame)
      /\ room' = Append(Visited, "many") /\ stmts' = stmts + 1 /\ inputs' = inputs
      /\ UNCHANGED <<contextStack, exported, mixed, aborted>>
  <2>1. frame = Frame("block", None, None, <<>>, FALSE)
    BY <1>1, Zenon
  <2>2. QED BY <1>1, <2>1 DEF ArrayBlock, BlockStatement, OpenContext
<1>3. /\ Sound(top) /\ Builder!Top = MeaningOfContext(top) /\ contexts \in Seq(NodeContext)
      /\ Len(contexts) \in 1..Len(contexts) /\ contexts[Len(contexts)] = top
  BY <1>1, StackShape DEF Top
<1>4. cs = [contexts EXCEPT ![Len(contexts)] = top]
  BY <1>1, <1>3
<1>5. frame \in FrameType /\ Parked(frame) = 0
  <2>1. PICK labels : labels = <<>>
    OBVIOUS
  <2>2. /\ labels \in Seq(LabelList) /\ "block" \in {"then", "case", "block"}
        /\ None \in [Sigma -> BOOLEAN] \cup {None} /\ None \in Expr \cup {None}
        /\ frame = Frame("block", None, None, labels, full)
    BY <1>1, <2>1
  <2>3. frame \in FrameType
    <3>1. full \in BOOLEAN
      BY <1>1, Zenon
    <3>2. QED BY <2>2, <3>1, FrameMeans
  <2>4. frame.kind = "block"
    BY <2>2 DEF Frame
  <2>5. QED BY <2>3, <2>4 DEF Parked
<1>6. /\ Layered(contexts', contextStack', frames')
      /\ MeaningOfContexts(contexts')
           = Append(MeaningOfContexts(contexts), Child(MeaningOfContext(Top)))
  <2>1. Covers(top, Top) /\ MeaningOfContext(top) = MeaningOfContext(Top)
    BY <1>1, CoversItself
  <2>2. contexts' = Append(cs, Child(top)) /\ UNCHANGED contextStack
    BY <1>1, <1>2
  <2>3. QED BY <1>2, <1>3, <1>4, <1>5, <2>1, <2>2, OpeningMeans
<1>7. Layers'
  BY <1>2, <1>6 DEF LInv, Layers
<1>8. Builder!CanVisit /\ Builder!Visited = Visited
  BY <1>2, SameGuards
<1>9. MeaningOfContexts(contexts)' = Append(MeaningOfContexts(contexts), Builder!Child(Builder!Top))
  BY <1>1, <1>3, <1>6, SameReading
<1>10. Builder!OpenContext(frame, "many")
  BY <1>2, <1>8, <1>9 DEF Builder!OpenContext
<1>11. /\ MeaningOfContexts(contextStack)' = MeaningOfContexts(contextStack)
       /\ MeaningOfOutputs' = MeaningOfOutputs
  BY <1>2, SameOutputs
<1>12. Builder!Frame("block", None, None, <<>>, FALSE) = frame
  <2>1. Builder!Frame("block", None, None, <<>>, full) = frame
    BY <1>1, SameFrame
  <2>2. QED BY <1>1, <2>1, Zenon
<1>13. Builder!BlockStatement
  BY <1>2, <1>8, <1>10, <1>11, <1>12 DEF Builder!BlockStatement
<1>14. QED BY <1>7, <1>13

(* The next branch of the innermost statement.                             *)
LEMMA ArrayBranchStep ==
  ASSUME LInv, frames # <<>>, NEW x, Sound(x), Covers(x, Parent), Covers(Parent, x),
         MeaningOfContext(x) = MeaningOfContext(Parent),
         NEW frame \in FrameType, frame.base = Inner.base, Parked(frame) = Parked(Inner) + 1,
         NEW cs, cs = [contexts EXCEPT ![Len(contexts) - 1] = x],
         contexts' = [cs EXCEPT ![Len(contexts)] = Child(x)],
         contextStack' = Append(contextStack, Top),
         frames' = [frames EXCEPT ![Len(frames)] = frame],
         room' = [room EXCEPT ![Len(room)] = "one"]
  PROVE  Builder!NextBranch(frame) /\ Layered(contexts', contextStack', frames')
<1>1. PICK n : n = Len(frames)
  OBVIOUS
<1>2. /\ n \in Nat /\ n >= 1 /\ Len(contexts) = n + 1
      /\ contexts \in Seq(NodeContext)
      /\ Len(MeaningOfContexts(contexts)) = n + 1
      /\ Builder!Top = MeaningOfContext(Top)
      /\ FrameGood(Inner) /\ Inner.labels \in Seq(LabelList)
      /\ Parent = contexts[n]
  BY <1>1, StackShape, StatementShape
<1>3. Parked(Inner) \in Nat
  <2>1. Inner.kind = "case" => Inner.labels # <<>>
    BY <1>2 DEF FrameGood
  <2>2. Len(Inner.labels) \in Nat /\ (Inner.kind = "case" => Len(Inner.labels) >= 1)
    BY <1>2, <2>1
  <2>3. QED BY <2>2 DEF Parked
<1>4. /\ Layered(contexts', contextStack', frames')
      /\ MeaningOfContexts(contexts')
           = [MeaningOfContexts(contexts) EXCEPT ![Len(MeaningOfContexts(contexts))]
                = Child(MeaningOfContext(Parent))]
      /\ MeaningOfContexts(contextStack')
           = Append(MeaningOfContexts(contextStack), MeaningOfContext(Top))
  BY <1>3, BranchingMeans
<1>5. MeaningOfContexts(contexts)[Len(MeaningOfContexts(contexts)) - 1] = MeaningOfContext(Parent)
  <2>1. MeaningOfContexts(contexts)[n] = MeaningOfContext(contexts[n])
    <3>1. contexts \in Seq(NodeContext) /\ n \in 1..Len(contexts)
      BY <1>2
    <3>2. QED BY ONLY <3>1, MeaningOfStack
  <2>2. Len(MeaningOfContexts(contexts)) - 1 = n
    BY <1>2
  <2>3. QED BY <1>2, <2>1, <2>2
<1>6. Builder!Child(MeaningOfContexts(contexts)[Len(MeaningOfContexts(contexts)) - 1])
        = Child(MeaningOfContext(Parent))
  BY <1>5, SameReading
<1>7. MeaningOfContexts(contexts)'
        = [MeaningOfContexts(contexts) EXCEPT ![Len(MeaningOfContexts(contexts))]
             = Builder!Child(MeaningOfContexts(contexts)[Len(MeaningOfContexts(contexts)) - 1])]
  BY <1>4, <1>6
<1>8. MeaningOfContexts(contextStack)' = Append(MeaningOfContexts(contextStack), Builder!Top)
  BY <1>2, <1>4
<1>9. Builder!NextBranch(frame)
  BY <1>7, <1>8, Zenon DEF Builder!NextBranch
<1>10. QED BY <1>4, <1>9

(* The next branch, of the parent as it is.                                *)
LEMMA SameParentStep ==
  ASSUME LInv, frames # <<>>,
         NEW frame \in FrameType, frame.base = Inner.base, Parked(frame) = Parked(Inner) + 1,
         NextBranch(frame), inputs' = inputs
  PROVE  Builder!NextBranch(frame) /\ Layers'
<1>1. PICK parent, cs : parent = Parent /\ cs = contexts
  OBVIOUS
<1>2. PICK n : n = Len(frames)
  OBVIOUS
<1>3. /\ n \in Nat /\ n >= 1 /\ Len(contexts) = n + 1 /\ contexts \in Seq(NodeContext)
      /\ Parent = contexts[n] /\ Sound(Parent)
  BY <1>2, StackShape, StatementShape
<1>4. cs = [contexts EXCEPT ![Len(contexts) - 1] = parent]
  <2>1. Len(contexts) - 1 = n /\ n \in 1..Len(contexts) /\ parent = contexts[n]
    BY <1>1, <1>3
  <2>2. QED BY <1>1, <1>3, <2>1
<1>5. /\ contexts' = [cs EXCEPT ![Len(contexts)] = Child(parent)]
      /\ contextStack' = Append(contextStack, Top)
      /\ frames' = [frames EXCEPT ![Len(frames)] = frame]
      /\ room' = [room EXCEPT ![Len(room)] = "one"]
  BY <1>1 DEF NextBranch, Parent
<1>6. /\ Sound(parent) /\ Covers(parent, Parent) /\ Covers(Parent, parent)
      /\ MeaningOfContext(parent) = MeaningOfContext(Parent)
  BY <1>1, <1>3, CoversItself
<1>7. Builder!NextBranch(frame) /\ Layered(contexts', contextStack', frames')
  BY <1>4, <1>5, <1>6, ArrayBranchStep
<1>8. Layers'
  BY <1>7 DEF LInv, Layers
<1>9. QED BY <1>7, <1>8

LEMMA ArrayElseStep ==
  ASSUME LInv, ArrayConditionalElse
  PROVE  Builder!ConditionalElse /\ Layers'
<1>1. PICK frame : frame = [Inner EXCEPT !.kind = "else"]
  OBVIOUS
<1>2. /\ Running /\ In("then") /\ NextBranch(frame) /\ inputs' = inputs
      /\ UNCHANGED <<exported, mixed, aborted, stmts>>
  BY <1>1 DEF ArrayConditionalElse, ConditionalElse
<1>3. frames # <<>> /\ Inner.kind = "then"
  BY <1>2 DEF In
<1>4. Inner \in FrameType /\ Builder!Inner = Inner
  BY <1>3, StatementShape
<1>5. frame \in FrameType /\ frame.base = Inner.base /\ Parked(frame) = Parked(Inner) + 1
  <2>1. frame \in FrameType /\ frame.base = Inner.base /\ frame.kind = "else"
    BY <1>1, <1>4 DEF FrameType
  <2>2. QED BY <1>3, <2>1 DEF Parked
<1>6. Builder!NextBranch(frame) /\ Layers'
  BY <1>2, <1>3, <1>5, SameParentStep
<1>7. MeaningOfOutputs' = MeaningOfOutputs
  BY <1>2, SameOutputs
<1>8. frame = [Builder!Inner EXCEPT !.kind = "else"]
  BY <1>1, <1>4
<1>9. Builder!Running /\ Builder!In("then")
  BY <1>2, SameGuards
<1>10. Builder!ConditionalElse
  BY <1>2, <1>6, <1>7, <1>8, <1>9 DEF Builder!ConditionalElse
<1>11. QED BY <1>6, <1>10

LEMMA ArrayDefaultStep ==
  ASSUME LInv, ArrayCaseDefault
  PROVE  Builder!CaseDefault /\ Layers'
<1>1. PICK frame : frame = [Inner EXCEPT !.kind = "default", !.full = FALSE]
  OBVIOUS
<1>2. /\ Running /\ In("case") /\ NextBranch(frame) /\ inputs' = inputs
      /\ UNCHANGED <<exported, mixed, aborted, stmts>>
  BY <1>1 DEF ArrayCaseDefault, CaseDefault
<1>3. frames # <<>> /\ Inner.kind = "case"
  BY <1>2 DEF In
<1>4. Inner \in FrameType /\ Inner.labels \in Seq(LabelList) /\ Builder!Inner = Inner
  BY <1>3, StatementShape
<1>5. frame \in FrameType /\ frame.base = Inner.base /\ Parked(frame) = Parked(Inner) + 1
  <2>1. /\ frame \in FrameType /\ frame.base = Inner.base /\ frame.kind = "default"
        /\ frame.labels = Inner.labels
    BY <1>1, <1>4 DEF FrameType
  <2>2. Len(Inner.labels) \in Nat
    BY <1>4
  <2>3. QED BY <1>3, <2>1, <2>2 DEF Parked
<1>6. Builder!NextBranch(frame) /\ Layers'
  BY <1>2, <1>3, <1>5, SameParentStep
<1>7. MeaningOfOutputs' = MeaningOfOutputs
  BY <1>2, SameOutputs
<1>8. frame = [Builder!Inner EXCEPT !.kind = "default", !.full = FALSE]
  BY <1>1, <1>4, Zenon
<1>9. Builder!Running /\ Builder!In("case")
  BY <1>2, SameGuards
<1>10. Builder!CaseDefault
  BY <1>2, <1>6, <1>7, <1>8, <1>9 DEF Builder!CaseDefault
<1>11. QED BY <1>6, <1>10

LEMMA ArrayNextItemStep ==
  ASSUME LInv, NEW g \in Labels, ArrayCaseNextItem(g)
  PROVE  Builder!CaseNextItem(g) /\ Layers'
<1>1. PICK start, m : /\ start = FindOrCreateInputs(Parent, LabelReads[g])
                      /\ m = MeaningOfContext(Parent)
  OBVIOUS
<1>2. PICK label : label = BuildExpr(g, m)
  OBVIOUS
<1>3. Running /\ In("case")
  BY DEF ArrayCaseNextItem
<1>4. frames # <<>> /\ Inner.kind = "case"
  BY <1>3 DEF In
<1>5. /\ Inner \in FrameType /\ Inner.labels \in Seq(LabelList) /\ Builder!Inner = Inner
      /\ Sound(Parent) /\ Builder!Parent = m /\ FrameGood(Inner)
      /\ frames \in Seq(FrameType) /\ Len(frames) \in 1..Len(frames)
      /\ Inner = frames[Len(frames)]
  BY <1>1, <1>4, StatementShape, StackShape
<1>6. LabelReads[g] \in SUBSET Array
  BY ReadsAreArrays
<1>7. PICK parent : parent = Parent
  OBVIOUS
<1>8. /\ Sound(start) /\ MeaningOfContext(start) = m
      /\ Covers(start, Parent) /\ Covers(Parent, start)
  <2>1. Sound(parent) /\ start = FindOrCreateInputs(parent, LabelReads[g])
    BY <1>1, <1>5, <1>7
  <2>2. /\ Sound(start) /\ MeaningOfContext(start) = MeaningOfContext(parent)
        /\ Covers(start, parent) /\ Covers(parent, start)
    BY <1>6, <2>1, InputsMean
  <2>3. QED BY <1>1, <1>7, <2>2
<1>9. label \in LabelList /\ ReadIn(g, start) = label
  <2>1. m \in Context
    BY <1>1, <1>5, MeaningOfSound
  <2>2. g \in [Store -> SUBSET Val]
    BY LabelsAreExpressions
  <2>3. QED BY <1>2, <1>8, <2>1, <2>2, BuildLabelsType DEF ReadIn
<1>10. PICK labels, frame : /\ labels = Append(Inner.labels, label)
                            /\ frame = [Inner EXCEPT !.labels = labels]
  OBVIOUS
<1>11. frame \in FrameType /\ frame.base = Inner.base /\ Parked(frame) = Parked(Inner) + 1
  <2>1. labels \in Seq(LabelList) /\ Len(labels) = Len(Inner.labels) + 1 /\ Len(Inner.labels) \in Nat
    BY <1>5, <1>9, <1>10
  <2>2. /\ frame \in FrameType /\ frame.base = Inner.base /\ frame.kind = Inner.kind
        /\ frame.labels = labels
    BY <1>5, <1>10, <2>1 DEF FrameType
  <2>3. QED BY <1>4, <2>1, <2>2 DEF Parked
<1>12. PICK cs : cs = [contexts EXCEPT ![Len(contexts) - 1] = start]
  OBVIOUS
<1>13. /\ Len(Inner.labels) < MaxDepth
       /\ contextStack' = Append(contextStack, Top)
       /\ contexts' = [cs EXCEPT ![Len(contexts)] = Child(start)]
       /\ frames' = [frames EXCEPT ![Len(frames)].labels = Append(@, ReadIn(g, start))]
       /\ room' = [room EXCEPT ![Len(room)] = "one"]
       /\ inputs' = inputs \cup LabelReads[g]
       /\ UNCHANGED <<exported, mixed, aborted, stmts>>
  BY <1>1, <1>12 DEF ArrayCaseNextItem
<1>14. frames' = [frames EXCEPT ![Len(frames)] = frame]
  <2>1. Append(frames[Len(frames)].labels, ReadIn(g, start)) = labels
    BY <1>5, <1>9, <1>10
  <2>2. frame = [frames[Len(frames)] EXCEPT !.labels = labels]
    BY <1>5, <1>10
  <2>3. QED BY <1>5, <1>13, <2>1, <2>2
<1>15. Builder!NextBranch(frame) /\ Layered(contexts', contextStack', frames')
  BY <1>1, <1>4, <1>8, <1>11, <1>12, <1>13, <1>14, ArrayBranchStep
<1>16. Layers'
  <2>1. inputs \subseteq Array
    BY DEF LInv, Layers
  <2>2. QED BY <1>6, <1>13, <1>15, <2>1, LayersOf
<1>17. MeaningOfOutputs' = MeaningOfOutputs
  BY <1>13, SameOutputs
<1>18. [Builder!Inner EXCEPT !.labels = Append(@, Builder!BuildExpr(g, Builder!Parent))] = frame
  <2>1. Builder!BuildExpr(g, Builder!Parent) = label
    BY <1>2, <1>5, SameReading
  <2>2. QED BY <1>5, <1>10, <2>1
<1>19. Builder!Running /\ Builder!In("case") /\ Len(Builder!Inner.labels) < MaxDepth
  BY <1>3, <1>5, <1>13, SameGuards
<1>20. Builder!CaseNextItem(g)
  BY <1>13, <1>15, <1>17, <1>18, <1>19 DEF Builder!CaseNextItem
<1>21. QED BY <1>16, <1>20

-----------------------------------------------------------------------------
(* The ends of statements.  In a build with assertions a merge may stop    *)
(* the program instead.                                                    *)

Aborts == Asserts /\ Abort

LEMMA AbortKeepsLayers ==
  ASSUME LInv, Abort
  PROVE  Layers'
BY DEF LInv, Layers, Layered, ParkedWithin, Abort

LEMMA OnlyAssertsStop ==
  ASSUME NEW parent, NEW names, ~CanContinue(parent, names), Abort
  PROVE  Aborts
BY AssertsIsBoolean DEF Aborts, CanContinue

LEMMA ArrayConditionalEndStep ==
  ASSUME LInv, ArrayConditionalEnd
  PROVE  Layers' /\ (Builder!ConditionalEnd \/ Aborts)
<1>1. PICK then, parent, top, cond :
        /\ then = contextStack[Len(contextStack)] /\ parent = Parent /\ top = Top
        /\ cond = Inner.cond
  OBVIOUS
<1>2. /\ Running /\ In("else")
      /\ \/ /\ contextStack' = Front(contextStack)
            /\ CloseContext(MergeArrayConditional(parent, cond, then, top))
            /\ mixed' = mixed \cup ConditionalMixes(then, top)
            /\ UNCHANGED <<exported, aborted, stmts, inputs>>
         \/ ~CanContinue(parent, Outs(then) \cup Outs(top)) /\ Abort
  BY <1>1, Zenon DEF ArrayConditionalEnd
<1>3. CASE ~CanContinue(parent, Outs(then) \cup Outs(top)) /\ Abort
  BY <1>3, AbortKeepsLayers, OnlyAssertsStop
<1>4. CASE /\ contextStack' = Front(contextStack)
           /\ CloseContext(MergeArrayConditional(parent, cond, then, top))
           /\ mixed' = mixed \cup ConditionalMixes(then, top)
           /\ UNCHANGED <<exported, aborted, stmts, inputs>>
  <2>1. frames # <<>> /\ Inner.kind = "else"
    BY <1>2 DEF In
  <2>2. /\ Sound(parent) /\ Builder!Parent = MeaningOfContext(parent)
        /\ Covers(top, parent) /\ Sound(top) /\ Builder!Top = MeaningOfContext(top)
        /\ FrameGood(Inner) /\ Inner.base \in Nat /\ Builder!Inner = Inner
        /\ Inner.base + Parked(Inner) = Len(contextStack)
        /\ \A i \in Inner.base + 1..Inner.base + Parked(Inner) : Covers(contextStack[i], parent)
        /\ Len(contextStack) \in Nat /\ contextStack \in Seq(NodeContext)
        /\ Len(MeaningOfContexts(contextStack)) = Len(contextStack)
    BY <1>1, <2>1, StackShape, StatementShape
  <2>3. PICK m : m = Inner.base
    OBVIOUS
  <2>4. /\ Len(contextStack) = m + 1 /\ m \in Nat /\ m <= Len(contextStack)
        /\ Len(contextStack) - 1 = m /\ m + 1 \in 1..Len(contextStack)
    BY <2>1, <2>2, <2>3 DEF Parked
  <2>5. Sound(then) /\ Covers(then, parent) /\ then = contextStack[m + 1]
    <3>1. Parked(Inner) = 1
      BY <2>1 DEF Parked
    <3>2. Layered(contexts, contextStack, frames)
      BY DEF LInv, Layers
    <3>3. Sound(contextStack[m + 1])
      BY <2>4, <3>2 DEF Layered
    <3>4. QED BY <1>1, <2>2, <2>3, <2>4, <3>1, <3>3
  <2>6. cond \in [Sigma -> BOOLEAN]
    BY <1>1, <2>1, <2>2 DEF FrameGood
  <2>7. PICK new, mt, me, mp : /\ new = MergeArrayConditional(parent, cond, then, top)
                               /\ mt = MeaningOfContext(then) /\ me = MeaningOfContext(top)
                               /\ mp = MeaningOfContext(parent)
    OBVIOUS
  <2>8. /\ Sound(new) /\ Covers(new, parent)
        /\ MeaningOfContext(new) = MergeConditional(mp, cond, mt, me)
    BY <2>2, <2>5, <2>6, <2>7, ConditionalMeans
  <2>9. contextStack' = SubSeq(contextStack, 1, m)
    BY <1>4, <2>4 DEF Front
  <2>10. CloseContext(new) /\ Covers(new, Parent) /\ ParkedWithin(frames, m)
    BY <1>1, <1>4, <2>1, <2>3, <2>7, <2>8, ParkedOutside
  <2>11. /\ Layered(contexts', contextStack', frames')
         /\ Builder!CloseContext(MeaningOfContext(new))
         /\ MeaningOfContexts(contextStack') = SubSeq(MeaningOfContexts(contextStack), 1, m)
    BY <2>1, <2>4, <2>8, <2>9, <2>10, ClosingMeans
  <2>12. Layers'
    BY <1>4, <2>11 DEF LInv, Layers
  <2>13. MeaningOfContexts(contextStack)[Len(MeaningOfContexts(contextStack))] = mt
    <3>1. MeaningOfContexts(contextStack)[m + 1] = MeaningOfContext(contextStack[m + 1])
      BY <2>2, <2>4, MeaningOfStack
    <3>2. QED BY <2>2, <2>4, <2>5, <2>7, <3>1
  <2>14. Builder!ConditionalEnd
    <3>1. Builder!MergeConditional(mp, cond, mt, me) = MeaningOfContext(new)
      BY <2>8, SameMerges
    <3>2. Builder!ConditionalMixes(mt, me) = ConditionalMixes(then, top)
      <4>1. ConditionalMixes(mt, me) = ConditionalMixes(then, top)
        BY <2>2, <2>5, <2>7, MixesMean
      <4>2. QED BY <4>1, SameMerges
    <3>3. /\ Builder!Parent = mp /\ Builder!Top = me /\ Builder!Inner.cond = cond
      BY <1>1, <2>2, <2>7
    <3>4. Builder!Running /\ Builder!In("else")
      BY <1>2, SameGuards
    <3>5. MeaningOfContexts(contextStack)' = Builder!Front(MeaningOfContexts(contextStack))
      BY <2>2, <2>4, <2>11 DEF Builder!Front
    <3>6. MeaningOfOutputs' = MeaningOfOutputs
      BY <1>4, SameOutputs
    <3>7. Builder!CloseContext(Builder!MergeConditional(Builder!Parent, Builder!Inner.cond,
            MeaningOfContexts(contextStack)[Len(MeaningOfContexts(contextStack))], Builder!Top))
      BY <2>11, <2>13, <3>1, <3>3
    <3>8. mixed' = mixed \cup Builder!ConditionalMixes(
            MeaningOfContexts(contextStack)[Len(MeaningOfContexts(contextStack))], Builder!Top)
      BY <1>4, <2>13, <3>2, <3>3
    <3>9. UNCHANGED <<aborted, stmts>>
      BY <1>4
    <3>10. QED BY <3>4, <3>5, <3>6, <3>7, <3>8, <3>9, Zenon DEF Builder!ConditionalEnd
  <2>15. QED BY <2>12, <2>14
<1>5. QED BY <1>2, <1>3, <1>4

(* The branches of a case: those it has parked, and the last.              *)
LEMMA CaseBranches ==
  ASSUME LInv, frames # <<>>, NEW last \in Seq(NodeContext),
         \A k \in 1..Len(last) : Sound(last[k]) /\ Covers(last[k], Parent),
         NEW n, n = Len(Inner.labels) + 1, Parked(Inner) \in Nat, Parked(Inner) + Len(last) = n,
         NEW branches,
         branches = SubSeq(contextStack, Inner.base + 1, Len(contextStack)) \o last
  PROVE  /\ n \in Nat /\ DOMAIN branches = 1..n /\ branches \in Seq(NodeContext)
         /\ \A k \in 1..n : Sound(branches[k]) /\ Covers(branches[k], Parent)
         /\ MeaningOfContexts(branches)
              = SubSeq(MeaningOfContexts(contextStack), Inner.base + 1,
                       Len(MeaningOfContexts(contextStack))) \o MeaningOfContexts(last)
<1>1. /\ Inner.base \in Nat /\ Inner.base + Parked(Inner) = Len(contextStack)
      /\ Inner.labels \in Seq(LabelList)
      /\ \A i \in Inner.base + 1..Inner.base + Parked(Inner) : Covers(contextStack[i], Parent)
      /\ Len(contextStack) \in Nat /\ contextStack \in Seq(NodeContext)
      /\ Len(MeaningOfContexts(contextStack)) = Len(contextStack)
  BY StackShape, StatementShape
<1>2. PICK b, l, p, parked, parent :
        /\ b = Inner.base /\ l = Len(contextStack) /\ p = Parked(Inner)
        /\ parked = SubSeq(contextStack, b + 1, l) /\ parent = Parent
  OBVIOUS
<1>3. /\ b \in Nat /\ l \in Nat /\ p \in Nat /\ b + p = l /\ Len(last) \in Nat
      /\ n \in Nat /\ p + Len(last) = n
  <2>1. b \in Nat /\ l \in Nat /\ b + p = l /\ p \in Nat /\ p + Len(last) = n
    BY <1>1, <1>2, Zenon
  <2>2. Len(last) \in Nat /\ Len(Inner.labels) \in Nat
    BY <1>1
  <2>3. n \in Nat
    BY <2>2
  <2>4. QED BY <2>1, <2>2, <2>3
<1>4. /\ parked \in Seq(NodeContext) /\ Len(parked) = p
      /\ \A k \in 1..p : parked[k] = contextStack[b + k]
  <2>1. PICK c : c = b + 1
    OBVIOUS
  <2>2. /\ c \in Nat /\ c >= 1 /\ l \in Nat /\ l - c + 1 = p
        /\ IF c <= l THEN l - c + 1 = p ELSE p = 0
    BY ONLY <1>3, <2>1
  <2>3. parked = SubSeq(contextStack, c, l) /\ l = Len(contextStack)
    BY <1>2, <2>1
  <2>4. /\ parked \in Seq(NodeContext) /\ Len(parked) = p
        /\ \A k \in 1..p : parked[k] = contextStack[c + k - 1]
    <3>1. c \in Int /\ l \in Int /\ \A i \in c..l : contextStack[i] \in NodeContext
      BY <1>1, <2>2, <2>3
    <3>2. /\ SubSeq(contextStack, c, l) \in Seq(NodeContext)
          /\ Len(SubSeq(contextStack, c, l)) = IF c <= l THEN l - c + 1 ELSE 0
          /\ \A i \in 1..l - c + 1 : SubSeq(contextStack, c, l)[i] = contextStack[c + i - 1]
      BY ONLY <3>1, SubSeqProperties
    <3>3. QED BY ONLY <1>3, <2>2, <2>3, <3>2
  <2>5. \A k \in 1..p : c + k - 1 = b + k
    BY <1>3, <2>1
  <2>6. QED BY <2>4, <2>5
<1>5. \A k \in 1..p : Sound(parked[k]) /\ Covers(parked[k], parent)
  <2>1. Layered(contexts, contextStack, frames)
    BY DEF LInv, Layers
  <2>2. ASSUME NEW k \in 1..p
        PROVE  Sound(parked[k]) /\ Covers(parked[k], parent)
    <3>1. b + k \in 1..l /\ b + k \in b + 1..b + p
      BY <1>3
    <3>2. Sound(contextStack[b + k])
      BY <1>2, <2>1, <3>1 DEF Layered
    <3>3. Covers(contextStack[b + k], parent)
      BY <1>1, <1>2, <3>1
    <3>4. QED BY <1>4, <3>2, <3>3
  <2>3. QED BY <2>2
<1>6. branches = parked \o last
  BY <1>2
<1>7. /\ branches \in Seq(NodeContext) /\ Len(branches) = n /\ DOMAIN branches = 1..n
      /\ \A k \in 1..n : branches[k] = IF k <= p THEN parked[k] ELSE last[k - p]
  <2>1. PICK q : q = parked
    OBVIOUS
  <2>2. q \in Seq(NodeContext) /\ last \in Seq(NodeContext) /\ Len(q) = p /\ branches = q \o last
    BY <1>4, <1>6, <2>1
  <2>3. branches \in Seq(NodeContext) /\ Len(branches) = Len(q) + Len(last)
    BY <2>2, ConcatProperties
  <2>4. \A k \in 1..Len(q) + Len(last) :
          (q \o last)[k] = IF k <= Len(q) THEN q[k] ELSE last[k - Len(q)]
    BY ONLY <2>2, ConcatProperties, SMTT(30)
  <2>5. DOMAIN branches = 1..Len(branches)
    BY <2>3
  <2>6. QED BY <1>3, <2>1, <2>2, <2>3, <2>4, <2>5
<1>8. \A k \in 1..n : Sound(branches[k]) /\ Covers(branches[k], Parent)
  <2>1. ASSUME NEW k \in 1..n
        PROVE  Sound(branches[k]) /\ Covers(branches[k], Parent)
    <3>1. CASE k <= p
      <4>1. k \in 1..p /\ branches[k] = parked[k]
        BY ONLY <1>3, <1>7, <2>1, <3>1, SMTT(30)
      <4>2. QED BY <1>2, <1>5, <4>1
    <3>2. CASE k > p
      <4>1. k - p \in 1..Len(last) /\ branches[k] = last[k - p]
        BY ONLY <1>3, <1>7, <2>1, <3>2, SMTT(30)
      <4>2. PICK j : j = k - p
        OBVIOUS
      <4>3. Sound(last[j]) /\ Covers(last[j], Parent)
        BY <4>1, <4>2
      <4>4. QED BY <4>1, <4>2, <4>3
    <3>3. k <= p \/ k > p
      BY <1>3
    <3>4. QED BY <3>1, <3>2, <3>3
  <2>2. QED BY <2>1
<1>9. MeaningOfContexts(parked) = SubSeq(MeaningOfContexts(contextStack), b + 1, l)
  <2>1. PICK c : c = b + 1
    OBVIOUS
  <2>2. contextStack \in Seq(NodeContext) /\ c \in Nat /\ c >= 1 /\ l \in Nat
    BY <1>1, <1>3, <2>1
  <2>3. l <= Len(contextStack)
    BY ONLY <1>2, <1>3
  <2>4. MeaningOfContexts(Cut(contextStack, c, l)) = Cut(MeaningOfContexts(contextStack), c, l)
    BY ONLY <2>2, <2>3, MeaningOfCut
  <2>5. parked = Cut(contextStack, c, l)
    BY <1>2, <2>1 DEF Cut
  <2>6. Cut(MeaningOfContexts(contextStack), c, l) = SubSeq(MeaningOfContexts(contextStack), b + 1, l)
    BY <2>1 DEF Cut
  <2>7. QED BY ONLY <2>4, <2>5, <2>6
<1>10. MeaningOfContexts(branches) = MeaningOfContexts(parked) \o MeaningOfContexts(last)
  BY <1>4, <1>6, MeaningJoined
<1>11. QED BY <1>1, <1>2, <1>3, <1>7, <1>8, <1>9, <1>10

LEMMA ArrayEndCaseStep ==
  ASSUME LInv, frames # <<>>, NEW last \in Seq(NodeContext),
         \A k \in 1..Len(last) : Sound(last[k]) /\ Covers(last[k], Parent),
         Parked(Inner) \in Nat, Parked(Inner) + Len(last) = Len(Inner.labels) + 1,
         NEW full \in BOOLEAN, EndArrayCase(last, full)
  PROVE  Layers' /\ (Builder!EndCase(MeaningOfContexts(last), full) \/ Aborts)
<1>1. PICK n, branches, parent, means :
        /\ n = Len(Inner.labels) + 1 /\ parent = Parent
        /\ branches = SubSeq(contextStack, Inner.base + 1, Len(contextStack)) \o last
        /\ means = MeaningOfContexts(branches)
  OBVIOUS
<1>2. /\ n \in Nat /\ DOMAIN branches = 1..n /\ branches \in Seq(NodeContext)
      /\ \A k \in 1..n : Sound(branches[k]) /\ Covers(branches[k], Parent)
      /\ MeaningOfContexts(branches)
           = SubSeq(MeaningOfContexts(contextStack), Inner.base + 1,
                    Len(MeaningOfContexts(contextStack))) \o MeaningOfContexts(last)
  BY <1>1, CaseBranches, ZenonT(40)
<1>3. Builder!CaseAssertion(means) <=> CaseAssertion(branches)
  <2>1. CaseAssertion(means) <=> CaseAssertion(branches)
    BY <1>1, <1>2, CaseAssertionMeans
  <2>2. QED BY <2>1, SameMerges
<1>4. /\ Sound(parent) /\ Builder!Parent = MeaningOfContext(parent) /\ Builder!Inner = Inner
      /\ Inner.labels \in Seq(LabelList) /\ Inner.base \in Nat /\ Inner.base <= Len(contextStack)
      /\ ParkedWithin(frames, Inner.base)
  <2>1. Inner.base + Parked(Inner) = Len(contextStack) /\ Inner.base \in Nat
    BY StatementShape
  <2>2. QED BY <1>1, <2>1, StatementShape, ParkedOutside
<1>5. means = SubSeq(MeaningOfContexts(contextStack), Builder!Inner.base + 1,
                     Len(MeaningOfContexts(contextStack))) \o MeaningOfContexts(last)
  BY <1>1, <1>2, <1>4
<1>6. \/ /\ Asserts => CaseAssertion(branches)
         /\ \E other \in IF full THEN Val ELSE {CHOOSE x \in Val : TRUE} :
              CloseContext(MergeArrayCase(parent, Inner.sel, Inner.labels, branches, full, other))
         /\ ReleaseBranches
         /\ UNCHANGED <<exported, mixed, aborted, stmts, inputs>>
      \/ /\ ~((Asserts => CaseAssertion(branches)) /\ CanContinue(parent, BranchOuts(branches)))
         /\ Abort
  BY <1>1 DEF EndArrayCase
<1>7. CASE /\ ~((Asserts => CaseAssertion(branches)) /\ CanContinue(parent, BranchOuts(branches)))
           /\ Abort
  <2>1. Layers'
    BY <1>7, AbortKeepsLayers
  <2>2. CASE Asserts
    BY <1>7, <2>1, <2>2 DEF Aborts
  <2>3. CASE ~CanContinue(parent, BranchOuts(branches))
    BY <1>7, <2>1, <2>3, OnlyAssertsStop
  <2>4. QED BY <1>7, <2>2, <2>3, AssertsIsBoolean
<1>8. CASE /\ Asserts => CaseAssertion(branches)
           /\ \E other \in IF full THEN Val ELSE {CHOOSE x \in Val : TRUE} :
                CloseContext(MergeArrayCase(parent, Inner.sel, Inner.labels, branches, full, other))
           /\ ReleaseBranches
           /\ UNCHANGED <<exported, mixed, aborted, stmts, inputs>>
  <2>1. PICK other \in IF full THEN Val ELSE {CHOOSE x \in Val : TRUE} :
          CloseContext(MergeArrayCase(parent, Inner.sel, Inner.labels, branches, full, other))
    BY <1>8
  <2>2. PICK sel, labels, new, mp, m :
          /\ sel = Inner.sel /\ labels = Inner.labels /\ mp = MeaningOfContext(parent)
          /\ new = MergeArrayCase(parent, sel, labels, branches, full, other)
          /\ m = Inner.base
    OBVIOUS
  <2>3. full => other \in Val
    BY <2>1
  <2>4. \A k \in 1..n : Sound(branches[k]) /\ Covers(branches[k], parent)
    BY <1>1, <1>2
  <2>5. labels \in Seq(LabelList) /\ n = Len(labels) + 1
    BY <1>1, <1>4, <2>2
  <2>6. /\ Sound(new) /\ Covers(new, parent)
        /\ MeaningOfContext(new) = MergeCase(mp, sel, labels, means, full, other)
    <3>1. \A k \in 1..n : Sound(branches[k]) /\ Covers(branches[k], parent)
      BY <2>4
    <3>2. /\ Sound(parent) /\ n \in Nat /\ DOMAIN branches = 1..n /\ branches \in Seq(NodeContext)
      BY <1>2, <1>4
    <3>3. PICK sole : sole = other
      OBVIOUS
    <3>4. full => sole \in Val
      BY <2>3, <3>3
    <3>5. new = MergeArrayCase(parent, sel, labels, branches, full, sole)
      BY <2>2, <3>3
    <3>6. full \in BOOLEAN
      OBVIOUS
    <3>7. /\ Sound(new) /\ Covers(new, parent)
          /\ MeaningOfContext(new) = MergeCase(MeaningOfContext(parent), sel, labels,
                                       MeaningOfContexts(branches), full, sole)
      BY ONLY <2>5, <3>1, <3>2, <3>4, <3>5, <3>6, CaseMeans
    <3>8. QED BY <1>1, <2>2, <3>3, <3>7
  <2>7. CloseContext(new) /\ Covers(new, Parent)
    BY <1>1, <2>1, <2>2, <2>6
  <2>8. contextStack' = SubSeq(contextStack, 1, m)
    BY <1>8, <2>2 DEF ReleaseBranches
  <2>9. m \in Nat /\ m <= Len(contextStack) /\ ParkedWithin(frames, m)
    BY <1>4, <2>2
  <2>10. /\ Layered(contexts', contextStack', frames')
         /\ Builder!CloseContext(MeaningOfContext(new))
         /\ MeaningOfContexts(contextStack') = SubSeq(MeaningOfContexts(contextStack), 1, m)
    BY <2>6, <2>7, <2>8, <2>9, ClosingMeans
  <2>11. Layers'
    BY <1>8, <2>10 DEF LInv, Layers
  <2>12. Builder!EndCase(MeaningOfContexts(last), full)
    <3>1. Builder!MergeCase(Builder!Parent, Builder!Inner.sel, Builder!Inner.labels, means,
                            full, other) = MeaningOfContext(new)
      <4>1. Builder!MergeCase(mp, sel, labels, means, full, other) = MeaningOfContext(new)
        BY <2>6, SameMerges
      <4>2. Builder!Parent = mp /\ Builder!Inner.sel = sel /\ Builder!Inner.labels = labels
        BY <1>4, <2>2
      <4>3. QED BY <4>1, <4>2
    <3>2. Builder!CloseContext(Builder!MergeCase(Builder!Parent, Builder!Inner.sel,
            Builder!Inner.labels, means, full, other))
      BY <2>10, <3>1
    <3>3. Builder!ReleaseBranches
      BY <1>4, <2>2, <2>10 DEF Builder!ReleaseBranches
    <3>4. MeaningOfOutputs' = MeaningOfOutputs /\ UNCHANGED <<mixed, aborted, stmts>>
      BY <1>8, SameOutputs
    <3>5. Asserts => Builder!CaseAssertion(means)
      BY <1>3, <1>8
    <3>6. other \in IF full THEN Val ELSE {CHOOSE x \in Val : TRUE}
      OBVIOUS
    <3>7. QED BY <1>5, <3>2, <3>3, <3>4, <3>5, <3>6, Zenon DEF Builder!EndCase
  <2>13. QED BY <2>11, <2>12
<1>9. QED BY <1>6, <1>7, <1>8

LEMMA ArrayCaseEndDefaultStep ==
  ASSUME LInv, ArrayCaseEndAfterDefault
  PROVE  Layers' /\ (Builder!CaseEndAfterDefault \/ Aborts)
<1>1. PICK last, top : top = Top /\ last = <<top>>
  OBVIOUS
<1>2. Running /\ In("default") /\ EndArrayCase(last, FALSE)
  BY <1>1 DEF ArrayCaseEndAfterDefault
<1>3. frames # <<>> /\ Inner.kind = "default"
  BY <1>2 DEF In
<1>4. /\ Sound(top) /\ top \in NodeContext /\ Builder!Top = MeaningOfContext(top)
      /\ Covers(top, Parent) /\ Inner.labels \in Seq(LabelList)
  BY <1>1, <1>3, StackShape, StatementShape
<1>5. last \in Seq(NodeContext) /\ Len(last) = 1 /\ last[1] = top
  BY <1>1, <1>4
<1>6. \A k \in 1..Len(last) : Sound(last[k]) /\ Covers(last[k], Parent)
  BY <1>4, <1>5
<1>7. Parked(Inner) \in Nat /\ Parked(Inner) + Len(last) = Len(Inner.labels) + 1
  BY <1>3, <1>4, <1>5 DEF Parked
<1>8. Layers' /\ (Builder!EndCase(MeaningOfContexts(last), FALSE) \/ Aborts)
  BY <1>2, <1>3, <1>5, <1>6, <1>7, ArrayEndCaseStep
<1>9. MeaningOfContexts(last) = <<Builder!Top>>
  BY <1>1, <1>4, MeaningShort
<1>10. Builder!Running /\ Builder!In("default")
  BY <1>2, SameGuards
<1>11. Builder!EndCase(MeaningOfContexts(last), FALSE) => Builder!CaseEndAfterDefault
  BY <1>9, <1>10, Zenon DEF Builder!CaseEndAfterDefault
<1>12. QED BY <1>8, <1>11

LEMMA ArrayCaseEndStep ==
  ASSUME LInv, ArrayCaseEndNoDefault
  PROVE  Layers' /\ (Builder!CaseEndNoDefault \/ Aborts)
<1>1. PICK last, top, child, full :
        top = Top /\ child = Child(Parent) /\ last = <<top, child>> /\ full = Inner.full
  OBVIOUS
<1>2. Running /\ In("case") /\ EndArrayCase(last, full)
  BY <1>1 DEF ArrayCaseEndNoDefault
<1>3. frames # <<>> /\ Inner.kind = "case"
  BY <1>2 DEF In
<1>4. /\ Sound(top) /\ top \in NodeContext /\ Builder!Top = MeaningOfContext(top)
      /\ Covers(top, Parent) /\ Inner.labels \in Seq(LabelList) /\ FrameGood(Inner)
      /\ Sound(Parent) /\ Builder!Parent = MeaningOfContext(Parent)
      /\ Inner \in FrameType /\ Builder!Inner = Inner
  BY <1>1, <1>3, StackShape, StatementShape
<1>5. /\ Sound(child) /\ child \in NodeContext /\ Covers(child, Parent)
      /\ MeaningOfContext(child) = Child(MeaningOfContext(Parent))
  <2>1. PICK parent : parent = Parent
    OBVIOUS
  <2>2. Sound(parent) /\ child = Child(parent)
    BY <1>1, <1>4, <2>1
  <2>3. /\ Sound(child) /\ MeaningOfContext(child) = Child(MeaningOfContext(parent))
        /\ Covers(child, parent)
    BY <2>2, ChildMeans
  <2>4. QED BY <2>1, <2>3, SoundNode
<1>6. last \in Seq(NodeContext) /\ Len(last) = 2 /\ last[1] = top /\ last[2] = child
  BY <1>1, <1>4, <1>5
<1>7. \A k \in 1..Len(last) : Sound(last[k]) /\ Covers(last[k], Parent)
  <2>1. \A k \in 1..Len(last) : k = 1 \/ k = 2
    BY <1>6
  <2>2. QED BY <1>4, <1>5, <1>6, <2>1
<1>8. Parked(Inner) \in Nat /\ Parked(Inner) + Len(last) = Len(Inner.labels) + 1
  <2>1. Inner.labels # <<>>
    BY <1>3, <1>4 DEF FrameGood
  <2>2. Len(Inner.labels) \in Nat /\ Len(Inner.labels) >= 1
    BY <1>4, <2>1
  <2>3. Parked(Inner) = Len(Inner.labels) - 1
    BY <1>3 DEF Parked
  <2>4. QED BY <1>6, <2>2, <2>3
<1>9. full \in BOOLEAN
  BY <1>1, <1>4 DEF FrameType
<1>10. Layers' /\ (Builder!EndCase(MeaningOfContexts(last), full) \/ Aborts)
  BY <1>2, <1>3, <1>6, <1>7, <1>8, <1>9, ArrayEndCaseStep
<1>11. MeaningOfContexts(last) = <<Builder!Top, Builder!Child(Builder!Parent)>>
  <2>1. MeaningOfContexts(last) = <<MeaningOfContext(top), MeaningOfContext(child)>>
    BY <1>1, MeaningShort
  <2>2. MeaningOfContext(child) = Builder!Child(Builder!Parent)
    BY <1>4, <1>5, SameReading
  <2>3. QED BY <1>4, <2>1, <2>2
<1>12. Builder!Running /\ Builder!In("case")
  BY <1>2, SameGuards
<1>13. Builder!EndCase(MeaningOfContexts(last), full) => Builder!CaseEndNoDefault
  <2>1. Builder!Inner.full = full
    BY <1>1, <1>4
  <2>2. QED BY <1>11, <1>12, <2>1, Zenon DEF Builder!CaseEndNoDefault
<1>14. QED BY <1>10, <1>13

LEMMA ArrayBlockEndStep ==
  ASSUME LInv, ArrayBlockEnd
  PROVE  Builder!BlockEnd /\ Layers'
<1>1. PICK parent, top, new, mp, mt, m :
        /\ parent = Parent /\ top = Top /\ new = MergeContext(parent, top)
        /\ mp = MeaningOfContext(parent) /\ mt = MeaningOfContext(top) /\ m = Len(contextStack)
  OBVIOUS
<1>2. /\ Running /\ In("block") /\ CloseContext(new) /\ mixed' = mixed \cup MixedOuts(top)
      /\ UNCHANGED <<contextStack, exported, aborted, stmts, inputs>>
  BY <1>1 DEF ArrayBlockEnd, BlockEnd
<1>3. frames # <<>>
  BY <1>2 DEF In
<1>4. /\ Sound(parent) /\ Builder!Parent = mp /\ Sound(top) /\ Builder!Top = mt
      /\ Covers(top, parent) /\ contextStack \in Seq(NodeContext) /\ m \in Nat
  BY <1>1, <1>3, StackShape, StatementShape
<1>5. Sound(new) /\ Covers(new, parent) /\ MeaningOfContext(new) = MergeContext(mp, mt)
  BY <1>1, <1>4, BlockMeans
<1>6. contextStack' = SubSeq(contextStack, 1, m)
  BY <1>1, <1>2, <1>4
<1>7. Covers(new, Parent) /\ ParkedWithin(frames, m) /\ m <= Len(contextStack)
  BY <1>1, <1>4, <1>5, ParkedOutside
<1>8. /\ Layered(contexts', contextStack', frames')
      /\ Builder!CloseContext(MeaningOfContext(new))
  BY <1>2, <1>3, <1>4, <1>5, <1>6, <1>7, ClosingMeans
<1>9. Layers'
  BY <1>2, <1>8 DEF LInv, Layers
<1>10. Builder!CloseContext(Builder!MergeContext(Builder!Parent, Builder!Top))
  BY <1>4, <1>5, <1>8, SameMerges
<1>11. Builder!MixedOuts(Builder!Top) = MixedOuts(top)
  <2>1. MixedOuts(mt) = MixedOuts(top)
    BY <1>1, <1>4, MixesMean
  <2>2. QED BY <1>4, <2>1, SameReading
<1>12. /\ MeaningOfContexts(contextStack)' = MeaningOfContexts(contextStack)
       /\ MeaningOfOutputs' = MeaningOfOutputs
  BY <1>2, SameOutputs
<1>13. Builder!Running /\ Builder!In("block")
  BY <1>2, SameGuards
<1>14. Builder!BlockEnd
  BY <1>2, <1>10, <1>11, <1>12, <1>13 DEF Builder!BlockEnd
<1>15. QED BY <1>9, <1>14

LEMMA ArrayFinishStep ==
  ASSUME LInv, ArrayFinish
  PROVE  Builder!Finish /\ Layers'
<1>1. PICK top, mt : top = Top /\ mt = MeaningOfContext(top)
  OBVIOUS
<1>2. /\ Running /\ frames = <<>>
      /\ exported' = [v \in Var |-> IF v \in Outs(top) THEN top.outs[v].id ELSE None]
      /\ mixed' = mixed \cup MixedOuts(top)
      /\ UNCHANGED <<contexts, contextStack, frames, room, aborted, stmts, inputs>>
  BY <1>1 DEF ArrayFinish, Finish
<1>3. Sound(top) /\ Builder!Top = mt
  BY <1>1, StackShape
<1>4. Layers'
  BY <1>2 DEF LInv, Layers, Layered, ParkedWithin
<1>5. Outs(mt) = Outs(top) /\ Outs(top) \subseteq Var
  BY <1>1, <1>3, MeaningOfSound DEF Outs
<1>6. \A v \in Outs(top) : /\ top.outs[v].id \in Expr \cup Sequence
                           /\ mt.outs[v].id = Meaning(v, top.outs[v].id)
  <2>1. ASSUME NEW v \in Outs(top)
        PROVE  /\ top.outs[v].id \in Expr \cup Sequence
               /\ mt.outs[v].id = Meaning(v, top.outs[v].id)
    <3>1. /\ v \in Var /\ Faithful(v, top.outs[v].id)
          /\ mt.outs[v].id = Meaning(v, top.outs[v].id)
      BY <1>1, <1>3, OutputNode
    <3>2. QED BY <3>1, FaithfulMeaning
  <2>2. QED BY <2>1
<1>7. PICK out : out = [v \in Var |-> IF v \in Outs(top) THEN top.outs[v].id ELSE None]
  OBVIOUS
<1>8. exported' = out /\ out # None
  <2>1. out \in [Var -> Expr \cup Sequence \cup {None}]
    BY <1>6, <1>7
  <2>2. QED BY <1>2, <1>7, <2>1, NothingElseIsNone
<1>9. [v \in Var |-> Meaning(v, out[v])]
        = [v \in Var |-> IF v \in Builder!Outs(Builder!Top) THEN Builder!Top.outs[v].id ELSE None]
  <2>1. Builder!Outs(Builder!Top) = Outs(top)
    BY <1>3, <1>5, SameReading
  <2>2. ASSUME NEW v \in Var
        PROVE  Meaning(v, out[v]) = IF v \in Outs(top) THEN mt.outs[v].id ELSE None
    <3>1. CASE v \in Outs(top)
      BY <1>6, <1>7, <3>1
    <3>2. CASE v \notin Outs(top)
      BY <1>7, <3>2, MeaningOfNone
    <3>3. QED BY <3>1, <3>2
  <2>3. QED BY <1>3, <2>1, <2>2
<1>10. MeaningOfOutputs' = [v \in Var |-> Meaning(v, out[v])]
  BY <1>8 DEF MeaningOfOutputs, Meaning
<1>11. Builder!MixedOuts(Builder!Top) = MixedOuts(top)
  <2>1. MixedOuts(mt) = MixedOuts(top)
    BY <1>1, <1>3, MixesMean
  <2>2. QED BY <1>3, <2>1, SameReading
<1>12. /\ MeaningOfContexts(contextStack)' = MeaningOfContexts(contextStack)
       /\ MeaningOfContexts(contexts)' = MeaningOfContexts(contexts)
  BY <1>2, SameOutputs
<1>13. Builder!Running
  BY <1>2, SameGuards
<1>14. Builder!Finish
  <2>1. MeaningOfOutputs' = [v \in Var |-> IF v \in Builder!Outs(Builder!Top)
                                           THEN Builder!Top.outs[v].id ELSE None]
    BY <1>9, <1>10
  <2>2. mixed' = mixed \cup Builder!MixedOuts(Builder!Top)
    BY <1>2, <1>11
  <2>3. QED BY <1>2, <1>12, <1>13, <2>1, <2>2, Zenon DEF Builder!Finish
<1>15. QED BY <1>4, <1>14

-----------------------------------------------------------------------------
(* The steps, and the first state.                                        *)

LEMMA NextMeans ==
  ASSUME LInv, [ArrayNext]_arrayVars
  PROVE  Layers' /\ ([Builder!Next]_(Builder!vars) \/ Aborts)
<1>1. CASE \E a \in Assigns : ArrayAssignment(a)
  BY <1>1, ArrayAssignmentStep DEF Builder!Next
<1>2. CASE \E c \in Tests : ArrayConditional(c)
  BY <1>2, ArrayConditionalStep DEF Builder!Next, Builder!Structure
<1>3. CASE ArrayConditionalElse
  BY <1>3, ArrayElseStep DEF Builder!Next, Builder!Structure
<1>4. CASE ArrayConditionalEnd
  BY <1>4, ArrayConditionalEndStep DEF Builder!Next, Builder!Structure
<1>5. CASE \E f \in Selectors, g \in Labels, full \in FullCases : ArrayCaseItem(f, g, full)
  BY <1>5, ArrayCaseItemStep DEF Builder!Next, Builder!Structure
<1>6. CASE \E g \in Labels : ArrayCaseNextItem(g)
  BY <1>6, ArrayNextItemStep DEF Builder!Next, Builder!Structure
<1>7. CASE ArrayCaseDefault
  BY <1>7, ArrayDefaultStep DEF Builder!Next, Builder!Structure
<1>8. CASE ArrayCaseEndAfterDefault
  BY <1>8, ArrayCaseEndDefaultStep DEF Builder!Next, Builder!Structure
<1>9. CASE ArrayCaseEndNoDefault
  BY <1>9, ArrayCaseEndStep DEF Builder!Next, Builder!Structure
<1>10. CASE ArrayBlock
  BY <1>10, ArrayBlockStep DEF Builder!Next, Builder!Structure
<1>11. CASE ArrayBlockEnd
  BY <1>11, ArrayBlockEndStep DEF Builder!Next, Builder!Structure
<1>12. CASE ArrayFinish
  BY <1>12, ArrayFinishStep DEF Builder!Next, Builder!Structure
<1>13. CASE ArrayStopped \/ UNCHANGED arrayVars
  <2>1. UNCHANGED <<vars, inputs>>
    BY <1>13 DEF ArrayStopped, Stopped, arrayVars
  <2>2. /\ UNCHANGED <<contexts, contextStack, frames, room>>
        /\ UNCHANGED <<exported, mixed, aborted, stmts, inputs>>
    BY <2>1 DEF vars
  <2>3. Layers'
    BY <2>2 DEF LInv, Layers, Layered, ParkedWithin
  <2>4. UNCHANGED Builder!vars
    BY <2>2, SameOutputs DEF Builder!vars
  <2>5. QED BY <2>3, <2>4
<1>14. QED
  BY <1>1, <1>2, <1>3, <1>4, <1>5, <1>6, <1>7, <1>8, <1>9, <1>10, <1>11, <1>12, <1>13
     DEF ArrayNext

(* Before the first step.                                                  *)
LEMMA RootMeans ==
  /\ Sound(RootContext) /\ MeaningOfContext(RootContext) = RootContext
<1>1. RootContext \in NodeContext /\ Outs(RootContext) = {} /\ RootContext \in Context
  BY DEF RootContext, NoOuts, NodeContext, Node, Context, Outs
<1>2. \A v \in Var : RootContext.cur[v] = None /\ RootContext.sched[v] = None
                     /\ RootContext.outs[v] = None
  BY DEF RootContext, NoOuts
<1>3. Sound(RootContext)
  BY <1>1, <1>2 DEF Sound, Unset
<1>4. PICK root, m : root = RootContext /\ m = MeaningOfContext(root)
  OBVIOUS
<1>5. /\ m \in Context /\ m.locals = root.locals
      /\ \A v \in Var : /\ m.cur[v] = Meaning(v, root.cur[v])
                        /\ m.sched[v] = Meaning(v, root.sched[v])
                        /\ m.outs[v] = MeaningOfOut(v, root.outs[v])
  BY <1>3, <1>4, MeaningOfSound
<1>6. \A v \in Var : m.cur[v] = root.cur[v] /\ m.sched[v] = root.sched[v]
                     /\ m.outs[v] = root.outs[v]
  <2>1. ASSUME NEW v \in Var
        PROVE  m.cur[v] = root.cur[v] /\ m.sched[v] = root.sched[v] /\ m.outs[v] = root.outs[v]
    <3>1. root.cur[v] = None /\ root.sched[v] = None /\ root.outs[v] = None
      BY <1>2, <1>4
    <3>2. Meaning(v, None) = None /\ MeaningOfOut(v, None) = None
      BY MeaningOfNone DEF MeaningOfOut
    <3>3. QED BY <1>5, <3>1, <3>2
  <2>2. QED BY <2>1
<1>7. m = root
  BY <1>1, <1>4, <1>5, <1>6, SameContext
<1>8. QED BY <1>3, <1>4, <1>7

LEMMA LayersAreSequences == Layers => ArraysTypeOK
<1> SUFFICES ASSUME Layers PROVE ArraysTypeOK
  OBVIOUS
<1>1. ASSUME NEW ctx, Sound(ctx)
      PROVE  HoldsSequences(ctx)
  <2>1. ASSUME NEW v \in Array
        PROVE  /\ ctx.cur[v] \in Sequence \cup {None, InputNode}
               /\ ctx.sched[v] \in Sequence \cup {None}
               /\ ctx.outs[v] # None => ctx.outs[v].id \in Sequence
    <3>1. v \in Var
      BY ArraysAreNames
    <3>2. v \in Outs(ctx) <=> ctx.outs[v] # None
      BY <3>1 DEF Outs
    <3>3. QED BY <1>1, <3>1, <3>2 DEF Sound, Faithful, Unset
  <2>2. QED BY <2>1 DEF HoldsSequences
<1>2. /\ \A k \in DOMAIN contexts : Sound(contexts[k])
      /\ \A k \in DOMAIN contextStack : Sound(contextStack[k])
  <2>1. /\ contexts \in Seq(NodeContext) /\ contextStack \in Seq(NodeContext)
        /\ \A k \in 1..Len(contexts) : Sound(contexts[k])
        /\ \A k \in 1..Len(contextStack) : Sound(contextStack[k])
    BY DEF Layers, Layered
  <2>2. QED BY <2>1
<1>3. QED BY <1>1, <1>2 DEF Layers, ArraysTypeOK

-----------------------------------------------------------------------------
(* What is proved of StmtBuilder, for the values the sequences mean.       *)
B == INSTANCE StmtRefinement_proofs WITH
  contexts <- MeaningOfContexts(contexts),
  contextStack <- MeaningOfContexts(contextStack),
  exported <- MeaningOfOutputs

(* Its assumptions are those of this module.                               *)
LEMMA Rules ==
  /\ Sigma \subseteq B!Store
  /\ Patch \in [Val \X Val \X Val -> Val]
  /\ \A a \in Assigns : /\ a.nb \in BOOLEAN
                        /\ a.lhs \in Seq(B!Target)
                        /\ Len(a.lhs) \in {1, 2}
  /\ \A d \in Decls : d.var \in Var /\ d.init \in [B!Store -> Val] \cup {None}
  /\ Tests \subseteq [B!Store -> BOOLEAN]
  /\ Selectors \subseteq [B!Store -> Val]
  /\ Labels \subseteq [B!Store -> SUBSET Val]
  /\ Like \in [Val -> SUBSET Val]
  /\ FullCases \subseteq BOOLEAN /\ Asserts \in BOOLEAN
  /\ None \notin B!Expr \cup B!Slot \cup [Var -> B!Expr \cup {None}]
  /\ MaxStmts \in Nat /\ MaxDepth \in Nat
BY ValuationsAreStores, PatchYieldsValues, AssignsAreOneOrTwoTargets, DeclsAreBlocking,
   TestsAreBoolean, SelectorsAreExpressions, LabelsAreExpressions, LikeRelatesValues,
   FullCasesAreBoolean, AssertsIsBoolean, NoneIsNothing, BoundsAreNatural
DEF Store, Expr, Slot, Target, B!Store, B!Expr, B!Slot, B!Target

(* Builder and B instantiate the same definitions, which a prover has to   *)
(* be shown: the invariants are proved of B, the steps of Builder.         *)

LEMMA SameTargets ==
  \A ctx, a : B!RecordTargets(ctx, a) = Builder!RecordTargets(ctx, a)
<1>1. \A f, ctx : B!BuildExpr(f, ctx) = Builder!BuildExpr(f, ctx)
  BY Zenon DEF B!BuildExpr, Builder!BuildExpr, B!StoreAt, Builder!StoreAt,
     B!Current, Builder!Current, B!Input, Builder!Input
<1>2. ASSUME NEW ctx, NEW t, NEW rhs, NEW nb
      PROVE  B!RecordTarget(ctx, t, rhs, nb) = Builder!RecordTarget(ctx, t, rhs, nb)
  <2>1. \A v : B!ScheduledView(ctx, v) = Builder!ScheduledView(ctx, v)
    BY Zenon DEF B!ScheduledView, Builder!ScheduledView
  <2>2. \A view, v : B!Current(view, v) = Builder!Current(view, v)
    BY Zenon DEF B!Current, Builder!Current, B!Input, Builder!Input
  <2>3. \A x, y, z : B!MaskedAssign(x, y, z) = Builder!MaskedAssign(x, y, z)
    BY Zenon DEF B!MaskedAssign, Builder!MaskedAssign
  <2>4. \A id : B!Record(ctx, t.var, nb, id) = Builder!Record(ctx, t.var, nb, id)
    BY Zenon DEF B!Record, Builder!Record, B!AddOutput, Builder!AddOutput
  <2>5. QED BY <1>1, <2>1, <2>2, <2>3, <2>4 DEF B!RecordTarget, Builder!RecordTarget
<1>3. QED BY <1>1, <1>2 DEF B!RecordTargets, Builder!RecordTargets

LEMMA SameAssignments ==
  ASSUME NEW a, Builder!Assignment(a)
  PROVE  B!Assignment(a)
<1>1. PICK top, written : top = Builder!Top /\ written = Builder!RecordTargets(top, a)
  OBVIOUS
<1>2. B!Top = top
  BY <1>1, Zenon DEF B!Top, Builder!Top
<1>3. B!RecordTargets(top, a) = written
  BY <1>1, SameTargets
<1>4. PICK restored : restored = IF a.nb THEN [written EXCEPT !.cur = top.cur] ELSE written
  OBVIOUS
<1>5. /\ Builder!CanVisit /\ \A k \in DOMAIN a.lhs : Builder!InScope(a.lhs[k].var)
      /\ room' = Builder!Visited /\ stmts' = stmts + 1
      /\ UNCHANGED <<frames, MeaningOfOutputs, mixed, aborted, MeaningOfContexts(contextStack)>>
      /\ MeaningOfContexts(contexts)'
           = [MeaningOfContexts(contexts) EXCEPT ![Len(MeaningOfContexts(contexts))] = restored]
  BY <1>1, <1>4, Zenon DEF Builder!Assignment
<1>6. B!CanVisit
  BY <1>5, Zenon DEF B!CanVisit, Builder!CanVisit, B!Running, Builder!Running
<1>7. \A v : Builder!InScope(v) => B!InScope(v)
  BY Zenon DEF B!InScope, Builder!InScope, B!Local, Builder!Local
<1>8. B!Visited = Builder!Visited
  BY Zenon DEF B!Visited, Builder!Visited
<1>9. QED BY <1>2, <1>3, <1>4, <1>5, <1>6, <1>7, <1>8, Zenon DEF B!Assignment

LEMMA SameMoves ==
  /\ \A d : Builder!VariableDecl(d) => B!VariableDecl(d)
  /\ \A c : Builder!Conditional(c) => B!Conditional(c)
  /\ \A f, g, full : Builder!CaseItem(f, g, full) => B!CaseItem(f, g, full)
  /\ \A f : Builder!CaseWithoutItems(f) => B!CaseWithoutItems(f)
  /\ Builder!BlockStatement => B!BlockStatement
  /\ Builder!ForLoopUnroll => B!ForLoopUnroll
  /\ Builder!ConditionalElse => B!ConditionalElse
  /\ \A g : Builder!CaseNextItem(g) => B!CaseNextItem(g)
  /\ Builder!CaseDefault => B!CaseDefault
  /\ Builder!CaseEndAfterDefault => B!CaseEndAfterDefault
  /\ Builder!CaseEndNoDefault => B!CaseEndNoDefault
  /\ Builder!ConditionalEnd => B!ConditionalEnd
  /\ Builder!BlockEnd => B!BlockEnd
  /\ Builder!Finish => B!Finish
  /\ Builder!Stopped => B!Stopped
<1>1. \A d : Builder!VariableDecl(d) => B!VariableDecl(d)
  BY Zenon DEF B!VariableDecl, Builder!VariableDecl, B!Top, Builder!Top, B!CanVisit,
     Builder!CanVisit, B!In, Builder!In, B!Record, Builder!Record, B!BuildExpr,
     Builder!BuildExpr, B!Running, Builder!Running, B!Inner, Builder!Inner,
     B!AddOutput, Builder!AddOutput, B!StoreAt, Builder!StoreAt, B!Current,
     Builder!Current, B!Input, Builder!Input
<1>2. \A c : Builder!Conditional(c) => B!Conditional(c)
  BY Zenon DEF B!Conditional, Builder!Conditional, B!CanVisit, Builder!CanVisit,
     B!OpenContext, Builder!OpenContext, B!Frame, Builder!Frame, B!StoreAt,
     Builder!StoreAt, B!Top, Builder!Top, B!Running, Builder!Running, B!Visited,
     Builder!Visited, B!Child, Builder!Child, B!Current, Builder!Current, B!NoOuts,
     Builder!NoOuts, B!Input, Builder!Input
<1>3. \A f, g, full : Builder!CaseItem(f, g, full) => B!CaseItem(f, g, full)
  BY Zenon DEF B!CaseItem, Builder!CaseItem, B!CanVisit, Builder!CanVisit,
     B!OpenContext, Builder!OpenContext, B!Frame, Builder!Frame, B!BuildExpr,
     Builder!BuildExpr, B!Top, Builder!Top, B!Running, Builder!Running, B!Visited,
     Builder!Visited, B!Child, Builder!Child, B!StoreAt, Builder!StoreAt, B!NoOuts,
     Builder!NoOuts, B!Current, Builder!Current, B!Input, Builder!Input
<1>4. \A f : Builder!CaseWithoutItems(f) => B!CaseWithoutItems(f)
  BY Zenon DEF B!CaseWithoutItems, Builder!CaseWithoutItems, B!CanVisit,
     Builder!CanVisit, B!OpenContext, Builder!OpenContext, B!Frame, Builder!Frame,
     B!BuildExpr, Builder!BuildExpr, B!Top, Builder!Top, B!Running, Builder!Running,
     B!Visited, Builder!Visited, B!Child, Builder!Child, B!StoreAt, Builder!StoreAt,
     B!NoOuts, Builder!NoOuts, B!Current, Builder!Current, B!Input, Builder!Input
<1>5. Builder!BlockStatement => B!BlockStatement
  BY Zenon DEF B!BlockStatement, Builder!BlockStatement, B!CanVisit,
     Builder!CanVisit, B!OpenContext, Builder!OpenContext, B!Frame, Builder!Frame,
     B!Running, Builder!Running, B!Visited, Builder!Visited, B!Child, Builder!Child,
     B!Top, Builder!Top, B!NoOuts, Builder!NoOuts
<1>6. Builder!ForLoopUnroll => B!ForLoopUnroll
  BY Zenon DEF B!ForLoopUnroll, Builder!ForLoopUnroll, B!CanVisit, Builder!CanVisit,
     B!Running, Builder!Running
<1>7. Builder!ConditionalElse => B!ConditionalElse
  BY Zenon DEF B!ConditionalElse, Builder!ConditionalElse, B!Running,
     Builder!Running, B!In, Builder!In, B!NextBranch, Builder!NextBranch, B!Inner,
     Builder!Inner, B!Top, Builder!Top, B!Child, Builder!Child, B!NoOuts,
     Builder!NoOuts
<1>8. \A g : Builder!CaseNextItem(g) => B!CaseNextItem(g)
  BY Zenon DEF B!CaseNextItem, Builder!CaseNextItem, B!Running, Builder!Running,
     B!In, Builder!In, B!Inner, Builder!Inner, B!NextBranch, Builder!NextBranch,
     B!BuildExpr, Builder!BuildExpr, B!Parent, Builder!Parent, B!Top, Builder!Top,
     B!Child, Builder!Child, B!StoreAt, Builder!StoreAt, B!NoOuts, Builder!NoOuts,
     B!Current, Builder!Current, B!Input, Builder!Input
<1>9. Builder!CaseDefault => B!CaseDefault
  BY Zenon DEF B!CaseDefault, Builder!CaseDefault, B!Running, Builder!Running, B!In,
     Builder!In, B!NextBranch, Builder!NextBranch, B!Inner, Builder!Inner, B!Top,
     Builder!Top, B!Child, Builder!Child, B!NoOuts, Builder!NoOuts
<1>10. Builder!CaseEndAfterDefault => B!CaseEndAfterDefault
  BY Zenon DEF B!CaseEndAfterDefault, Builder!CaseEndAfterDefault, B!Running,
     Builder!Running, B!In, Builder!In, B!EndCase, Builder!EndCase, B!Top,
     Builder!Top, B!Inner, Builder!Inner, B!CaseAssertion, Builder!CaseAssertion,
     B!CloseContext, Builder!CloseContext, B!MergeCase, Builder!MergeCase, B!Parent,
     Builder!Parent, B!ReleaseBranches, Builder!ReleaseBranches, B!BranchOuts,
     Builder!BranchOuts, B!Writers, Builder!Writers, B!CaseFlag, Builder!CaseFlag,
     B!Front, Builder!Front, B!BranchValue, Builder!BranchValue, B!Transfer,
     Builder!Transfer, B!CreateCase, Builder!CreateCase, B!Outs, Builder!Outs,
     B!Fallback, Builder!Fallback, B!AddOutput, Builder!AddOutput, B!Matches,
     Builder!Matches, B!FirstMatch, Builder!FirstMatch, B!Current, Builder!Current,
     B!Input, Builder!Input
<1>11. Builder!CaseEndNoDefault => B!CaseEndNoDefault
  BY Zenon DEF B!CaseEndNoDefault, Builder!CaseEndNoDefault, B!Running,
     Builder!Running, B!In, Builder!In, B!EndCase, Builder!EndCase, B!Top,
     Builder!Top, B!Child, Builder!Child, B!Parent, Builder!Parent, B!Inner,
     Builder!Inner, B!CaseAssertion, Builder!CaseAssertion, B!CloseContext,
     Builder!CloseContext, B!MergeCase, Builder!MergeCase, B!ReleaseBranches,
     Builder!ReleaseBranches, B!NoOuts, Builder!NoOuts, B!BranchOuts,
     Builder!BranchOuts, B!Writers, Builder!Writers, B!CaseFlag, Builder!CaseFlag,
     B!Front, Builder!Front, B!BranchValue, Builder!BranchValue, B!Transfer,
     Builder!Transfer, B!CreateCase, Builder!CreateCase, B!Outs, Builder!Outs,
     B!Fallback, Builder!Fallback, B!AddOutput, Builder!AddOutput, B!Matches,
     Builder!Matches, B!FirstMatch, Builder!FirstMatch, B!Current, Builder!Current,
     B!Input, Builder!Input
<1>12. Builder!ConditionalEnd => B!ConditionalEnd
  BY Zenon DEF B!ConditionalEnd, Builder!ConditionalEnd, B!Running, Builder!Running,
     B!In, Builder!In, B!Front, Builder!Front, B!CloseContext, Builder!CloseContext,
     B!MergeConditional, Builder!MergeConditional, B!Parent, Builder!Parent,
     B!Inner, Builder!Inner, B!Top, Builder!Top, B!ConditionalMixes,
     Builder!ConditionalMixes, B!Outs, Builder!Outs, B!LastNb, Builder!LastNb,
     B!Transfer, Builder!Transfer, B!CreateMux, Builder!CreateMux, B!BranchValue,
     Builder!BranchValue, B!MixedOuts, Builder!MixedOuts, B!AddOutput,
     Builder!AddOutput, B!Fallback, Builder!Fallback, B!Current, Builder!Current,
     B!Input, Builder!Input
<1>13. Builder!BlockEnd => B!BlockEnd
  BY Zenon DEF B!BlockEnd, Builder!BlockEnd, B!Running, Builder!Running, B!In,
     Builder!In, B!CloseContext, Builder!CloseContext, B!MergeContext,
     Builder!MergeContext, B!Parent, Builder!Parent, B!Top, Builder!Top,
     B!MixedOuts, Builder!MixedOuts, B!Inner, Builder!Inner, B!Front, Builder!Front,
     B!Outs, Builder!Outs, B!Transfer, Builder!Transfer, B!LastNb, Builder!LastNb,
     B!AddOutput, Builder!AddOutput
<1>14. Builder!Finish => B!Finish
  BY Zenon DEF B!Finish, Builder!Finish, B!Running, Builder!Running, B!Outs,
     Builder!Outs, B!Top, Builder!Top, B!MixedOuts, Builder!MixedOuts
<1>15. Builder!Stopped => B!Stopped
  BY Zenon DEF B!Stopped, Builder!Stopped, B!vars, Builder!vars
<1>16. QED
  BY <1>1, <1>2, <1>3, <1>4, <1>5, <1>6, <1>7, <1>8, <1>9, <1>10, <1>11, <1>12,
     <1>13, <1>14, <1>15

LEMMA SameSteps == [Builder!Next]_(Builder!vars) => [B!Next]_(B!vars)
<1>1. Builder!vars = B!vars /\ (Builder!vars)' = (B!vars)'
  BY DEF B!vars, Builder!vars
<1>2. Builder!Structure => B!Structure
  BY SameMoves, Zenon DEF B!Structure, Builder!Structure
<1>3. Builder!Next => B!Next
  BY <1>2, SameMoves, SameAssignments DEF B!Next, Builder!Next
<1>4. QED BY <1>1, <1>3

-----------------------------------------------------------------------------
(* The inductive invariant: the contexts are layered, and what they mean   *)
(* satisfies StmtBuilder's invariants.                                     *)

AInv == Layers /\ B!IInv /\ B!BasesGrow /\ B!LocalsInv

LEMMA InvNests == AInv => LInv
<1> SUFFICES ASSUME AInv PROVE LInv
  OBVIOUS
<1>1. /\ contexts \in Seq(NodeContext) /\ contextStack \in Seq(NodeContext)
      /\ frames \in Seq(FrameType)
  BY DEF AInv, Layers, Layered
<1>2. Len(MeaningOfContexts(contextStack)) = Len(contextStack)
  BY <1>1, MeaningOfStack
<1>3. Len(frames) \in Nat /\ Len(contextStack) \in Nat
  BY <1>1
<1>4. B!Core /\ B!IInv /\ B!BasesGrow
  BY DEF AInv, B!IInv
<1>5. \A fr : B!Parked(fr) = Parked(fr) /\ B!FrameGood(fr) = FrameGood(fr)
  BY DEF B!Parked, Parked, B!FrameGood, FrameGood, B!FrameType, FrameType, B!Expr, Expr,
         B!LabelList, LabelList
<1>6. B!Inner = Inner
  BY DEF B!Inner, Inner
<1>7. \A j \in 1..Len(frames) : FrameGood(frames[j])
  BY <1>4, <1>5 DEF B!Core
<1>8. ASSUME frames # <<>>
      PROVE  Inner.base + Parked(Inner) = Len(contextStack) /\ Inner.base \in Nat
  <2>1. PICK n : n = Len(frames)
    OBVIOUS
  <2>2. n \in 1..Len(frames) /\ Inner = frames[n]
    BY <1>1, <1>8, <2>1 DEF Inner
  <2>3. frames[n].base + B!Parked(frames[n]) = Len(MeaningOfContexts(contextStack))
    BY <1>4, <2>1, <2>2 DEF B!Core, B!StackDiscipline
  <2>4. Inner.base \in Nat
    BY <1>7, <2>2 DEF FrameGood, FrameType
  <2>5. QED BY <1>2, <1>5, <2>2, <2>3, <2>4
<1>9. ASSUME NEW j \in 1..Len(frames) - 1,
             NEW i \in frames[j].base + 1..frames[j].base + Parked(frames[j])
      PROVE  i \in 1..Len(contextStack) /\ i <= Inner.base /\ i \in Nat /\ i >= 1
  <2>1. j \in 1..Len(frames) /\ j < Len(frames)
    BY <1>3
  <2>2. i \in frames[j].base + 1..frames[j].base + B!Parked(frames[j])
    BY <1>5
  <2>3. /\ i \in 1..Len(MeaningOfContexts(contextStack))
        /\ j < Len(frames) => i <= B!Inner.base
    BY <1>4, <2>1, <2>2, B!ParkedBelow, Rules
  <2>4. QED BY <1>2, <1>3, <1>6, <2>1, <2>3
<1>10. ParkedWithin(frames, Len(contextStack))
  BY <1>9 DEF ParkedWithin
<1>11. frames # <<>> => ParkedWithin(frames, Inner.base)
  BY <1>8, <1>9 DEF ParkedWithin
<1>12. QED BY <1>7, <1>8, <1>10, <1>11 DEF AInv, LInv, Nesting


(* An assertion that fails stops the builder where it stands.              *)
LEMMA AbortsStay ==
  ASSUME AInv, Abort
  PROVE  B!IInv' /\ B!BasesGrow' /\ B!LocalsInv'
<1>1. /\ aborted' = TRUE
      /\ UNCHANGED <<contexts, contextStack, frames, room, exported, mixed, stmts>>
  BY DEF Abort
<1>2. /\ UNCHANGED MeaningOfContexts(contexts) /\ UNCHANGED MeaningOfContexts(contextStack)
      /\ UNCHANGED MeaningOfOutputs
  BY <1>1, SameOutputs
<1>3. B!Core'
  <2>1. B!Core
    BY DEF AInv, B!IInv
  <2>2. B!StackDiscipline'
    BY <1>1, <1>2, <2>1 DEF B!Core, B!StackDiscipline, B!Parked
  <2>3. QED BY <1>1, <1>2, <2>1, <2>2 DEF B!Core, B!Good, B!Outs, B!Context, B!Slot, B!FrameGood,
            B!FrameType
<1>4. B!Outcome'
  BY <1>1, <1>2 DEF AInv, B!IInv, B!Outcome
<1>5. B!BasesGrow' /\ B!LocalsInv'
  <2>1. B!IInv /\ B!BasesGrow /\ B!LocalsInv
    BY DEF AInv
  <2>2. /\ UNCHANGED <<MeaningOfContexts(contextStack), frames>>
        /\ UNCHANGED <<MeaningOfContexts(contexts), MeaningOfOutputs>>
    BY <1>1, <1>2
  <2>3. QED BY <2>1, <2>2, B!StackUnchanged, Rules
<1>6. QED BY <1>3, <1>4, <1>5 DEF B!IInv

LEMMA NextKeepsAInv ==
  ASSUME AInv, [ArrayNext]_arrayVars
  PROVE  AInv'
<1>1. Layers' /\ ([Builder!Next]_(Builder!vars) \/ Aborts)
  BY InvNests, NextMeans
<1>2. CASE Aborts
  BY <1>1, <1>2, AbortsStay DEF Aborts, AInv
<1>3. CASE [Builder!Next]_(Builder!vars)
  <2>1. B!IInv /\ B!BasesGrow /\ B!LocalsInv /\ [B!Next]_(B!vars)
    BY <1>3, SameSteps DEF AInv
  <2>2. B!IInv'
    BY <2>1, B!NextKeepsIInv, Rules
  <2>3. B!BasesGrow' /\ B!LocalsInv'
    BY <2>1, B!LocalsNext, Rules
  <2>4. QED BY <1>1, <2>2, <2>3 DEF AInv
<1>4. QED BY <1>1, <1>2, <1>3

LEMMA InitMeans == ArrayInit => Builder!Init /\ B!Init /\ AInv
<1> SUFFICES ASSUME ArrayInit PROVE Builder!Init /\ B!Init /\ AInv
  OBVIOUS
<1>1. PICK root : root = RootContext
  OBVIOUS
<1>2. /\ contexts = <<root>> /\ contextStack = <<>> /\ frames = <<>> /\ room = <<"one">>
      /\ exported = None /\ mixed = {} /\ aborted = FALSE /\ stmts = 0 /\ inputs = {}
  BY <1>1 DEF ArrayInit, Init
<1>3. Sound(root) /\ MeaningOfContext(root) = root /\ root \in NodeContext
  BY <1>1, RootMeans, SoundNode
<1>4. /\ MeaningOfContexts(contexts) = <<root>> /\ MeaningOfContexts(contextStack) = <<>>
      /\ MeaningOfOutputs = None
  BY <1>2, <1>3, MeaningShort DEF MeaningOfOutputs
<1>5. Builder!RootContext = root /\ B!RootContext = root
  BY <1>1 DEF Builder!RootContext, RootContext, Builder!NoOuts, NoOuts, B!RootContext, B!NoOuts
<1>6. Builder!Init /\ B!Init
  BY <1>2, <1>4, <1>5 DEF Builder!Init, B!Init
<1>7. Layers
  <2>1. contexts \in Seq(NodeContext) /\ Len(contexts) = 1 /\ contexts[1] = root
    BY <1>2, <1>3
  <2>2. contextStack \in Seq(NodeContext) /\ Len(contextStack) = 0
    BY <1>2
  <2>3. frames \in Seq(FrameType) /\ Len(frames) = 0
    BY <1>2
  <2>4. QED BY <1>2, <1>3, <2>1, <2>2, <2>3 DEF Layers, Layered
<1>8. B!IInv /\ B!BasesGrow /\ B!LocalsInv
  BY <1>6, B!InitEstablishes, B!LocalsInit, Rules
<1>9. QED BY <1>6, <1>7, <1>8 DEF AInv

(* A name of Array never holds an expression of another kind: what the     *)
(* assertions in merge_conditional and merge_case ask of the outputs.      *)
THEOREM SequencesOnly == ArraySpec => []ArraysTypeOK
<1>1. ArrayInit => AInv
  BY InitMeans
<1>2. AInv /\ [ArrayNext]_arrayVars => AInv'
  BY NextKeepsAInv
<1>3. AInv => ArraysTypeOK
  BY LayersAreSequences DEF AInv
<1>4. QED BY <1>1, <1>2, <1>3, PTL DEF ArraySpec

(* In a build without assertions every step on sequences of writes is the  *)
(* step of StmtBuilder on the values they mean, for every text and every   *)
(* array: merging branches as lists of writes loses and moves none.        *)
THEOREM BuilderImplemented ==
  ASSUME ~Asserts
  PROVE  ArraySpec => ImplementsBuilder
<1>1. ArrayInit => Builder!Init /\ AInv
  BY InitMeans
<1>2. AInv /\ [ArrayNext]_arrayVars => [Builder!Next]_(Builder!vars) /\ AInv'
  BY InvNests, NextMeans, NextKeepsAInv DEF Aborts
<1>3. QED BY <1>1, <1>2, PTL DEF ArraySpec, ImplementsBuilder, Builder!Spec

(* So what is printed for a process with arrays is what the process leaves *)
(* behind, for the texts of which that is proved of StmtBuilder.           *)
THEOREM ArraysImplementProcess ==
  ASSUME ~Asserts, SupportedTexts
  PROVE  ArraySpec => B!ImplementsProcess
<1>1. B!SupportedTexts
  BY DEF SupportedTexts, B!SupportedTexts, OneWay, B!OneWay, Way, B!Way, Targets, B!Targets,
     LikeIsEquality, B!LikeIsEquality, FixedIndices, B!FixedIndices, Ignores, B!Ignores,
     Rewritten, B!Rewritten, Store, B!Store
<1>2. B!Spec => B!ImplementsProcess
  BY <1>1, B!ProcessImplemented, Rules
<1>3. ArrayInit => B!Init /\ AInv
  BY InitMeans
<1>4. AInv /\ [ArrayNext]_arrayVars => [B!Next]_(B!vars) /\ AInv'
  BY InvNests, NextMeans, NextKeepsAInv, SameSteps DEF Aborts
<1>5. ArraySpec => B!Spec
  BY <1>3, <1>4, PTL DEF ArraySpec, B!Spec
<1>6. QED BY <1>2, <1>5, PTL
=============================================================================

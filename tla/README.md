# A TLA+ model of abys

abys reads SystemVerilog through the slang front end, lowers every module of
the elaborated design to a netlist (`Tig`), and dumps the netlists as plain
Verilog. `scripts/check_equivalence.sh` asserts, with yosys, that source and dump
are equivalent. That claim is what most of this model is about: at every stage
between the source text and the dump, is the behaviour still the one the text
has, or was the user told that it is not?

abys has no threads, no I/O that can fail half way and nothing it persists. What
makes it hard is *order*: the visitor meets statements, drivers and readers in
the order of the text, the builders keep half-finished structures between calls
(scheduled values, parked branches, unresolved names, registers to be inserted),
and each later call has to find them as the earlier ones left them. A test sees
one order; a model checker sees them all.

- [Inventory](#inventory)
- [Modules and code](#modules-and-code)
- [Runs](#runs)
- [Bounds, fairness, deadlock](#bounds-fairness-deadlock)
- [Proofs](#proofs)
- [Findings](#findings)
- [What is not modelled](#what-is-not-modelled)
- [Plan](#plan)

Paths below are relative to the repository (`src/ir/...` is the C++ tree);
`PROJECT.json` gives the lines each definition translates. To repeat a run or a
proof, in this directory:

    tlc -workers 2 -config MCTig.cfg MCTig
    tlapm StmtBuilder_proofs.tla

## Inventory

| component | state | operations | talks to |
|---|---|---|---|
| statement lowering (`slang_stmt_lowering.cpp`, `stmt_builder.cpp`) | `contexts_`, `context_stack_`: per open statement the current value of every name and the outputs recorded for it; `policy_`, `timing_events_` | one handler per statement; `add_context`, `stack_context`, `merge_context`, `merge_conditional`, `merge_case`, `record_output`, `for_each_output` | expression builder (every node), module lowering (outputs, timing) |
| for loops (`SlangStmtLoweringVisitor::handle(ForLoopStatement)`) | the loop's context, current values of its variables, the iteration | one handler that initialises, tests, visits the body and steps until the condition evaluates to 0 | expression builder (`evaluate`), statement lowering |
| left-hand sides (`slang_lowering_internal.h`) | the scheduled view of a target while it is lowered, the bits of the right-hand side left over | `lower_lhs_assignment` with `assign_rec`, `finalize_packed_update`, `get_rhs_id` | statement and module lowering, expression builder |
| unpacked arrays (in `stmt_builder.cpp`, `expr_builder.cpp`, `slang_lowering_internal.h`) | per array a sequence of element writes instead of one expression; `graph_.inputs` | `create_sequence`, `unpacked_assign_select`, the merges, `emit_expr_unpacked` | statement lowering, dumper |
| expression builder (`expr_builder.cpp`) | `ExprGraph`: nodes with width and sign, inputs by name, constants, calls; the current values of names | `create_*`, `find_or_create_input`, `normalize_index_expr`, `try_evaluate`, `evaluate`, `check_dependency` | everyone that builds expressions |
| timing inference (`stmt_builder.cpp`, `slang_stmt_lowering.cpp`) | `policy_`, `timing_events_` | `add_timing`, `get_timing_spec` | module lowering (which register), dumper (reset branch) |
| netlist builder (`tig_builder.cpp`) | `Module::nodes`, `input_specs_`, `signal_maps_`, `pending_ffs_` | `create_*`, `add_node_input[_spec]`, `finalize_node_input`, `add_node_output`, `record_ff`, `insert_ffs`, `wire_connections` | module lowering |
| module lowering (`slang_lowering.cpp`) | the module, node and scope in progress | one handler per member of a module body | netlist builder, statement lowering |
| function inlining (`TigBuilder::flatten_calls`) | the list of calls of each expression graph, while it grows | one pass at the end | expression graphs of nodes and of subroutines |
| dumper (`tig_dumper.cpp`) | output stream only | `emit_instances`, `emit_combinational`, `emit_sequential` | reads the finished netlist |
| expression lowering (`slang_expr_lowering.cpp`) | `expr_stack_` | one handler per kind of slang expression, in post-order | expression builder |
| pragmas, diagnostics, command line, scripts | trivial | | |

What makes each of them correct, and what is hard about it:

- **Statement lowering** never runs a process. It builds one expression per name
  such that, whatever the inputs, the expression has the value an execution would
  leave. Nonblocking assignments must be scheduled without becoming visible; a
  branch that leaves a name alone stands for the value *scheduled* before it, not
  the current one; a case parks its finished branches on a vector that nested
  statements use too. Correct means: it implements the process (`ImplementsProcess`),
  every merge pops its own branches and nothing else (`StackDiscipline`), names
  assigned both with `=` and `<=` are reported.
- **For loops** are executed while they are lowered, with C++ ints for values that
  have a width and a sign. Correct means: unrolled for the values the text runs the
  body with (`IterationsAsWritten`), every way out merges the context the loop
  opened (`ContextIsClosed`), and nothing is unrolled for ever in silence
  (`UnrollingEnds`).
- **Unpacked arrays** have no expression for their whole value. A merge prefixes
  the writes of the parent, a branch that writes nothing contributes an invalid
  operand. Correct means: the lists mean what a whole value would have meant
  (`ImplementsBuilder`).
- **Expressions and packed targets.** slang has typed the tree; the builder derives
  widths and signs of its own, and the dump is one temporary per node, so that the
  language computes each operator again in the context of *its* operands. Correct
  means: the derived types are slang's (`DerivedTypesAgree`), the text computes the
  value of the source (`LoweredAsWritten`, `ValuesAsWritten`), and what is folded is
  that value too (`FoldedAsWritten`).
- **Timing inference** has to decide from the event list and from what the body
  reads which event is the clock and which the reset, and the dumper later splits
  the data by the reset's value. Correct means: if nothing was reported, registers
  are updated at the same moments, to the same values (`ActsAsWritten`).
- **The netlist builder** moves a name from node to node: the first driver carries it, a
  second one puts a merge in front, clocked drivers put a register, or several and
  a `kFfMerge`, in front of that, and only then are the readers, who asked by
  name at any time before, connected. Correct means: what a reader is connected to is what
  the dump calls by the name the reader asked for (`MappedNameIsCarried`), and
  no other node still carries it (`OneCarrier`).
- **Module lowering and dumper** together: the dump gives every name the drivers,
  clocks and resets the text gave it, and nothing else (`EmittedAsWritten`);
  the inputs of an instance stay in the order of its ports.
- **Function inlining** appends to the list it iterates over and copies nodes in
  the order of identifiers. Correct means: it ends, no call and no cycle is left,
  and every node keeps its value unless the call was reported.

`PROJECT.json` lists the hazards at their lines, those no property covers yet
with the reason.

## Modules and code

    ProcSemantics <--implemented by-- StmtBuilder <--implemented by-- UnpackedArrays
                                          ^
                                          +--extended by-- StmtMixing

    VerilogValues <-- ExprNodes <-- ExprLowering <-- PackedAssign     (an arrow: is extended by)
                          ^
                          +-- LoopUnroll

    ProcTiming            (clocks and resets of a process and its dump)

    TigBuilder <-- TigLowering        FlattenCalls

Definitions keep the names of the functions, handlers and fields they translate.
A definition whose name starts with `Bug` is not part of any model: it is the
definition after it with a plausible fault, kept to show that the property named
for it in `PROJECT.json` notices.

**ProcSemantics** is the abstract specification of one activation of a process:
for every valuation of the signals there is one run, which executes the branches
its own conditions select (`path` tells which valuations execute the current
branch and which have taken none yet). It has no contexts, merges or expressions.
A case item has a set of labels; `Like[x]` is the set of labels the selector `x` matches: `x`
itself for `case`, more for `casez`. A run that matches no item keeps its values (`EndCase`);
only a case that says `full_case` leaves them open (`EndFullCase`).

**StmtBuilder** is the statement visitor with the builder it drives. The
visitor's recursion is the sequence `frames`; `contexts` and `contextStack` are the
fields of the same name. An expression node is modelled by its *denotation*, the
table of its values over the tracked valuations, so that `create_mux`,
`create_case` and `masked_assign` are functions on tables. A context keeps, per
name, the current value (`cur`), and of its outputs the last expression, its flag
and the flags seen, which is what the merges read. Each statement of the text is one
action, or one action per branch boundary: `Assignment` covers record, restore and
the scheduled view; `ConditionalEnd`, `CaseEnd*` and `BlockEnd` perform the whole
merge; `ForLoopUnroll` is a further copy of a loop's body in the loop's context;
`Finish` is `for_each_output`. Which text it is, is chosen along the way
(`room` says what may still follow), so one run covers all texts within the bounds.
`Asserts` says whether assertions are compiled in: only then can the end of a case stop at one (`aborted`);
without them `merge_case` goes on with the flag of the first branch.
An `if` whose condition `try_evaluate` knows is lowered as its branch alone, without a
context: such a text is, for this module, the text with the branch in its place.

**UnpackedArrays** refines StmtBuilder. A node of an array is modelled by the element
writes it prints, per valuation: `Continued` is `create_sequence`, `Nothing` what an
invalid operand prints. `Meaning` maps such a list to the value of the whole array,
and under that mapping every step is a step of StmtBuilder (`ImplementsBuilder`), and
so of ProcSemantics. Reading an array makes its `kInput` node the current value
(`FindOrCreateInputs`), the one node of an array that is no sequence. The constants' assumptions say what an array is: an
element of a written array is the old one or the written part of it (`PatchIsElementwise`),
an array is its elements (`ElementsMakeTheArray`), blocks declare nothing (`NoLocals`), and
no identifier is the invalid one (`NothingElseIsNone`). Computing the writes' indices and data before the first write
is printed is what the dumper's two streams (`os`, `assign_os`) do; it is why the
parent's writes may be printed again in each branch (as the fixture
`conditional_unpacked_array_write` expects) without harm, except that *n* `if`s
in a row on one array print on the order of 2^*n* writes.

**VerilogValues** is the language: the values of a width and a sign and the operators
on them. A value with an unknown bit is unknown as a whole.

**ExprNodes** has one operator per `create_*`: the type derived for the node, the
value of the temporary the dumper declares for it (every operand in the context the
printed operator gives it), and what `try_evaluate` makes of it, an int of `IntWidth` bits.
`tame` remembers whether an int on the way left the type of its node.

**ExprLowering** is the visitor with its stack. Each entry has, beside the node, the
expression as it is written with the type slang gave it; each action is a handler,
guarded by what slang's tree guarantees of the operands' types. The switches
`kUsePartialAssignmentForMaskedAssign` and `kUseShiftMaskForExpressionSelects`
(`tig_dumper.h:25-26`) are on, as in the source.

**PackedAssign** adds assignments: the recursion over a target with its offsets, the
read-modify-write, concatenations as targets. A compound assignment is the assignment it abbreviates.

**LoopUnroll** is the `for` handler, an action per stage, beside the loop as the text
executes it (`written`). The body is a visit of StmtBuilder's and does not assign the loop's variables.

**StmtMixing** adds a history of how each name was assigned and states the
reports about mixed assignments.

**ProcTiming** is one procedural block with its timing controls: the policy, the
events kept, the inference of clock and reset, and then the *running* block and
its dump side by side under the same changes of signals. `Value` and `Executed` are what
the text means; `RegisterData`, `Assuming` and `Sensitive` what `emit_sequential`
prints: two copies of the data, one with the multiplexers on the reset decided
for its active value, one for the other. Blocks without an edge are executed at every change, the
synthesis view of `always @(...)` that abys takes.

**TigBuilder** is the netlist of one module, one action per call of the API:
nodes, specs, the map from names to outputs, pending registers. `insert_ffs` is
a phase with an action per name or per cluster of one clock domain; `WireConnections` is
`wire_connections`. `std::sort` is not stable, so the order of names and of the drivers
of one cluster is left open.

**TigLowering** is its client and its reader: the handlers of module members as
the calls they make, in order, and the dump as the set of drivers it has for each
name. `intended` is a history variable: the drivers the text has.
Each handler's call is an action of TigBuilder or leaves the netlist alone, so what
holds of every client holds here; a call TigBuilder does not allow would be a deadlock,
which TLC checks for. An output connection that is converted and goes to more than a name
makes two operations, the second of them connected to the instance, as the code has it
(`slang_lowering.cpp:282`). The ports of an instance are visited one by one, as
by the loop of its handler (`VisitPortConnection`).

**FlattenCalls** is `flatten_calls` on one expression graph, an action per call:
inlined, replaced with zero before anything was copied, or replaced half way.
`Values` is what an expression graph means; `Returned` what its subroutines return.

MC modules give the constants values: `MCStmtRefine`, `MCStmtCasez`, `MCStmtMixing`,
`MCArrays`, `MCExpr`, `MCLoop`, `MCTig`, `MCProcTiming`, `MCFlattenCalls`.

## Runs

Passing runs:

| run | states | shows |
|---|---|---|
| `stmt_refine` | 11,890 | The expressions built for a process implement it (`ImplementsProcess`, a refinement with ProcSemantics as property): whole and part assignments, a concatenation as target, a block local, if/else, case with two labels per item, with and without default and `full_case`, loops. A run that matches no item has what was scheduled before the case, unless `full_case` is given. The assertion of `merge_case` holds where no name is assigned both ways; no local escapes its block. |
| `stmt_mixing` | 196,692 | With names assigned both ways: every one is reported (`MixingIsReported`), nothing else is (`ReportsAreTrue`), and a nonblocking value is never read early (`NonblockingStaysInvisible`). |
| `tig_netlist` | 325,792 | Bodies of up to four members in any order, with names clocked by several processes in one or several domains, a derived clock, resets, and instances with open, whole-name, expression and converted connections: the netlist invariants, the dump against the text, and the order of instance inputs. Deadlock is checked, so no handler makes a call the builder does not allow. |
| `proc_timing` | 109,430 | Blocks of every keyword, with every kind of event, up to three events, nested timed statements, and bodies that read reset, clock and data in different ways: a block without a report is dumped with the behaviour it was written with. |
| `flatten_calls` | 2,385 | Graphs with three calls nested in each other, of subroutines that call others, have constants, unread arguments, or nodes out of order. |
| `array_refine` | 15,233 | An array of two elements, read and written whole and in bits, `=` and `<=`, under if and case: the lists of writes implement StmtBuilder. |
| `expr_lowering` | 49,262 | Expressions and assignments of up to four handlers over a signed vector `[3:1]`, an ascending vector and a packed array: types, values and folding against the language. |
| `loop_unroll` | 52,220 | Loops with every comparison and operator, over an unsigned vector, an int and an unsigned int, that count up, down, wrap around or never end: iterations, reports and contexts; under fairness, no endless silence. |

Runs that end in a violation are the findings: `stmt_casez`, `array_assert`,
`tig_mixed_drivers`, `flatten_global`. Each checks one property of the model on inputs
the passing runs leave out, which is how the passing runs are to be read:

- `stmt_refine` and `stmt_casez`: the passing run has plain `case` statements. Nor does an
  index of a target read the target itself: while a target is lowered its name
  stands for the scheduled value in its selectors as well
  (`slang_lowering_internal.h:359`), and `q[q] <= c` after `q <= ~q` writes the
  wrong bit. Nor is a name assigned both ways in the items of a case: the assertion at
  `stmt_builder.cpp:319` fails, while the same text as if/else is reported and goes on.
- `stmt_mixing`: a loop declares its own variable. A loop without one owns no context;
  as a case item it leaves several outputs of one name, `merge_case` reads the last
  flag only, and mixing goes unreported (`stmt_builder.cpp:291`).
- `array_refine` and `array_assert`: the passing run is a build with `NDEBUG`.
- `expr_lowering`: five forms are left out (`Divergent`), for each of which a property
  fails: the minus of a negative constant is printed as `--`, a decrement, because the
  constant's text starts with a minus (`slang_expr_lowering.cpp:95`, `tig_dumper.cpp:575`); the arithmetic shift of an unsigned operand is printed as a signed one
  (`tig_dumper.cpp:688`); the least value of a signed type, printed as a minus before a
  constant, changes its sign when it is widened; a select of all bits of a signed
  operand stays signed (`slang_expr_lowering.cpp:310`); a range of elements wider
  than a bit is taken for a range of bits (`slang_expr_lowering.cpp:295`).
- `tig_netlist` and `tig_mixed_drivers`: no name has clocked and unclocked
  drivers, and (by the rules of the language for variables) a name connected
  whole to an output of an instance has no other driver. `EmittedAsWritten` asks
  nothing when a clock floats: a clock nothing drives is left unconnected with a
  warning, and the dumper looks it up all the same (`tig_dumper.cpp:249`).
- `proc_timing`: events have no iff condition, which is kept and never used
  (`stmt_builder.cpp:437`). A reset with both edges is left out too, which the
  dumper marks as a TODO.
- `flatten_calls` and `flatten_global`: subroutines read their arguments only.

## Bounds, fairness, deadlock

- **Statements** (`MaxStmts` 4 and 5, `MaxDepth` 2 and 3). A merge looks at one
  context, its parent and the parked branches; two levels make a merge inside a
  branch of another, with an assignment before and after. Three levels let a
  flag pass through a merge that does not report. A process has one value per
  name and valuation, so one bit per name already tells the scheduled from the current value.
- **Valuations** (`Sigma`): all valuations of the names the text reads.
- **Members** (`MaxMembers` 4; 2 in the violation runs). Three drivers of one name are
  the most the code tells apart (first, second, later), the fourth member reads or
  clocks. Two edges of one clock, a derived clock and a reset make up to four domains.
- **Events**: up to three; `get_timing_spec` accepts one or two.
- **Calls**: three in the graph and up to two in a subroutine, two deep:
  calls in a copy of a copy, and an operand that is a call.
- **Expressions** (`MaxDepth` 3 operands on the stack, `MaxSteps` 4 handlers,
  `MaxWidth` 5). An operator over an operator over names, assigned to a target, is
  four handlers; types are lost at one boundary between two nodes. Valuations are the
  corners of the types, ints have 4 bits, so that a signed vector of three bits fits
  and sums, products and conversions overflow. One literal stands for everything
  that has no handler.
- **Arrays** (`MaxStmts` 5, `MaxDepth` 2): two elements of two bits, two valuations
  that tell the branches apart, indices inside the array and outside.
- **Loops**: `MaxIterations` 20 exceeds the 16 values of a variable of four bits, so
  that a loop that repeats itself has been seen to; `WarnAt` 4 stands for the 1024 of the source.
- **Fairness.** `FlattenCalls!FairSpec` assumes it of each of its actions and
  `LoopUnroll!Spec` of the whole step: both are the body of a sequential
  loop, which runs on without waiting for anything. Everything else is safety;
  nothing in abys waits.
- **Deadlock** is not checked in `flatten_calls` and `loop_unroll`, whose loops end, nor
  in `expr_lowering`, whose texts end (`MaxSteps`). The other
  specifications end in a self-loop or can always go on.

## Proofs

TLAPS checks the theorems below for every value of the constants that satisfies
the assumptions (`ASSUME`) of the modules; TLC evaluates these assumptions in every run.
A theorem that needs a hypothesis beside them has it in its statement; each such
hypothesis leaves out texts for which a run shows the property to fail.

**StmtBuilder_proofs.** `IInv` is `Core` and `Outcome`: types, good contexts and
frames, and `StackDiscipline`. `TypeOK` alone is not inductive: that `merge_case` pops
contexts at all, and that a frame's labels match its branches, needs
the partition of `contextStack` among the open statements, and that a merged
output has an expression needs the agreement of outputs and scheduled values
(`Good`) in open and parked contexts alike. There is a step lemma per action.
`InvariantHolds`, `TypeCorrect`, `StackDisciplineHolds`, `OutputsScheduled`.
On top of `IInv`:

- `LocalsInside` (`LocalsStayInside`). `LocalsInv` says of every open and every parked
  context, at its depth, that a local is an output only inside the block that
  declared it. All actions have one of four shapes: the top context changes
  (`Stays`), a statement opens, branches or closes; the shape lemmas say what
  happens to the two stacks, and `BlockEnd` is the one shape that drops names.
- `BranchesAgree` (`CaseBranchesAgree`, the assertion at `stmt_builder.cpp:319`).
  `FlagsInv`: with the hypothesis `OneWay`, that each name is always assigned with
  `=` or always with `<=`, the flags of an output are those of its name, in parked
  branches too. Without it the assertion fails, see [Runs](#runs).

**StmtRefinement_proofs.** `ProcessImplemented` is the refinement: for every valuation,
however statements nest, each step of the visitor is a step of ProcSemantics or leaves it alone,
so what the builder hands over (`exported`) is what the process computes. The argument is
about where a run stands: the context that holds its values (`Holder`) is the top one if the run
executes the current branches, else a parked branch, or the context around a branch not
yet visited. The lemmas `HolderStays`, `HolderOpens`, `HolderBranches`, `HolderCloses` say
how it moves under each shape of step. `ViewsInv`, beside the invariants above, says what a context
has: what a run reads follows from what it has scheduled (`Ways`), and a branch has
scheduled what its parent has, outputs apart (`Keeps`). A merge then gives each run what
its own branch left (`MergedConditional`, `MergedCase`, `MergedContext`).
The hypothesis is `SupportedTexts` of StmtBuilder, which TLC evaluates for the texts
of `stmt_refine`. It has three parts: names are assigned in one way (`OneWay`); a case item is taken
when its label equals the selector (`LikeIsEquality`; see `stmt_casez`); and no index of a
target reads a name that its statement has scheduled by then (`FixedIndices`): in `q[q] <= x` the
index is built from the scheduled `q`, see [Runs](#runs).

**StmtMixing_proofs** is about texts that do mix. `Seen` (flags come from assignments
that were visited), `Hidden` (a name whose outputs are all nonblocking has the
current value it has outside the statement) and `Lone` (an output whose names have
one flag has it in every context and branch that leads there) are the invariants behind
`ReportsTrue`, `NonblockingInvisible` and `MixingReported`. `AbortsOnlyWhenMixed` says when
the assertion of `merge_case` can fail at all. `MixingReported` has the hypothesis
`~BareLoops`: a loop without a variable of its own leaves several outputs
of one name in a branch, and `merge_case` reads the last. Its other one is `Asserts`:
nothing else in `merge_case` compares the flags of its items. A variable declared
in the process is not among the names reported: it never leaves its block
(`LocalsInside`), so the report at the end of the process does not see it.

**ProcTiming_proofs.** `TypeCorrect`; `EventsFit` from `PolicyInv`, which ties
the events kept to the policy; `DumpActsAsWritten` needs three more together:
without a report, exactly the events of the first timing control were read
(`ReadInv`), so the spec found is made of the text's events (`SpecInv`), so text
and dump are executed at the same changes and compute the same data
(`SameValues`). Its hypothesis `SupportedTexts` (no iff, no event on both edges
beside another) is needed, see [Runs](#runs).

**TigLowering_proofs, the builder.** The first part is about `TigSpec`, the builder with *any*
client: `TypesAreRight`, `InputsStayAligned`, `ReferencesStayResolved`,
`RegistersAreLayered`. None of the four properties is inductive. `IInv` adds, per node
(`Sound`), that only a node still being built can have lost its specs (a merge that had
lost them would get out of step with its next driver) and that no name decides
an input of a merge or the data of a register, so that `wire_connections` leaves
the layers alone; per phase (`Visited`), that registers come after the visit; and for what
the builder holds (`Held`), that a name with a pending register is driven by
an operation or a merge, which is what puts `InsertFf` behind the right kind of
node. There is an effect lemma and a step lemma per action; the number of drivers of a
cluster is a natural number because `pendingFfs` is finite, which is part of `IInv`.
`MappedNamesCarried` and `OneCarrierHolds` are about names.
A name passes from the output that carried it to the one that now stands for it, in one
step (`Passes`), except while `insert_ffs` splits it over several clock domains, when
nothing may carry it until its `kFfMerge` does (`Splitting`); the two
properties and `Splitting` are inductive only together (`Naming`).

**TigLowering_proofs, the visitor.** `ImplementsTig` (`Spec => TigSpec`) only links the two modules: each step of TigLowering
is, by its shape, a step of `TigSpec` or leaves the netlist alone, so everything proved of
any client holds for every module body. What makes the calls legal is `Handlers`, which says of the calls a handler
has still to make that the node they are about is of the kind they need
(a temporary is created just before it is driven, `finalize` comes last).
The constants' assumptions are rules of the elaborated text: no driver of an
input port (`InputsAreNotWritten`), temporaries are new names (`TemporariesAreNew`), a name
connected whole to an output of an instance has no second driver in it
(`WholeConnectionsAreAlone`). `ReadersConnected` is from `Sourced` (what
`signal_maps_` has: the drivers of the text and the inputs, no more, no less) and
`Wired` (what `wire_connections` leaves of the specs).

**TigEmission_proofs.** `DumpIsAsWritten`: the drivers the dump has for each name are
exactly those of the text, each once, under its clock and reset. `EmissionInv`
has what readers need (`ReaderInv`), what the text may still drive (`Members`: it is
legal and in turn), and `Emission`, where a driver is at each moment: recorded and waiting
(`Recorded`), behind what `signal_maps_` has for its name (`Mapped`), behind one
of the registers being inserted (`Registering`), and in one place only (`Alone`,
`Intents`). There is one lemma per kind of step; when registers are in
place nothing waits, and what is behind each name is what the dumper prints. The
hypothesis `~MixedDrivers` is that no name has clocked and unclocked drivers, for
which the run `tig_mixed_drivers` shows the dump to be wrong. The invariant was
model-checked before it was proved.

`InstancesAreInOrder` is about the inputs of instances: `emit_instances` takes them by position,
while the visitor connects each at once, later by name, or through an operation
of its own. `Placement` says what the inputs of the newest instance are when its
handler is half way (`AskedFirst`, `InProgress`) and that those of earlier ones stay
(`InPlace`). No hypothesis on drivers is needed.

**FlattenCalls_proofs.** `FlatTypes`, `CallsLeftListed`, `StaysAcyclic`. The assumption
`GraphsAreBuilt` is what `ExprBuilder` guarantees of any graph: it starts with its two
constants, its tables list its nodes of that kind once, and what it is built from exists
already (`Grounded`). Operands created first would
be an easy argument for `Acyclic`, but inlining turns a call node, which is older, into a
conversion of a newer copy. `Grounded` says instead that every non-empty set
of nodes has one that reads no other of the set; a set of old nodes and copies
has a least copy, or else its old nodes do it. From `Grounded` there
is a numbering that falls along operands, so no node reads itself.

**UnpackedArrays_proofs.** `BuilderImplemented` is the refinement: in a build without
assertions, every step on lists of element writes is the step of StmtBuilder on the values they mean
(`Meaning`), for every text, array and nesting; `ArraysImplementProcess` adds
`ProcessImplemented`, and `SequencesOnly` says that an array has sequences, beside its input node, and
nothing else, in either build. `Faithful` is what a list of writes has to have to mean a value: for each
valuation it prints an array whose elements are those written, or those before
the process. A branch is merged as the list of its own writes, with *nothing* for a
branch that leaves the array alone, and the parent's list is printed before it. That this
gives what merging whole values gives is the argument of the proof: the list of an open or parked branch
repeats the writes of its parent (`Covers`), so each element is either written in the branch
or is what the parent's list has left. `Layers` says so of every context
(`Sound`) and of every branch, at its depth, and is inductive together with the
invariants of StmtBuilder for the values meant (`AInv`): which parked branch belongs to which
statement is StackDiscipline. There is a lemma per operation on contexts (`RecordMeans`,
`TransferMeans`, `RestoreMeans`, `ConditionalMeans`, `CaseMeans`, ...) that its result means what
StmtBuilder's operation makes of the meaning, a lemma per shape of step, and one per action.
The steps are those of the instance `Builder`, the invariants are proved of `B`, an instance of
StmtRefinement_proofs; `SameSteps` shows that their definitions agree.
With assertions (`Asserts`) the one step that is none of StmtBuilder's is `Abort`, see
`array_assert`, so the two refinements have the hypothesis `~Asserts`. `ArraysImplementProcess`
needs `SupportedTexts` as well; `BuilderImplemented` does not, and holds of texts that
assign an array both ways.

**Only model-checked.** The module LoopUnroll; expressions and packed assignments
(ExprLowering, PackedAssign), whose values are sums over bits, and `ValuesKept` of
FlattenCalls, which evaluates graphs by recursion: what these compute for every input needs an
induction that the installed provers cannot instantiate. Liveness
(`Terminates`, `UnrollingEnds`) is out of their reach as well.

## Findings

Each is a run that ends in a violation; `PROJECT.json` quotes the text it contradicts.

| run | where | what happens |
|---|---|---|
| `stmt_casez` | `slang_stmt_lowering.cpp:160` | The kind of a case statement is not looked at: `casez`, `casex` and `case inside` are lowered and printed as `case`, where a label with `?` never matches. Nothing is reported. |
| `array_assert` | `expr_builder.cpp:621` | `x = mem[a]; if (we) mem[a] = d;` stops at an assertion: the read made the array's input its current value, and the merge takes that for a sequence. |
| `tig_mixed_drivers` | `tig_builder.cpp:297` | A name with clocked and unclocked drivers: all of it becomes clocked, or with two clocks the unclocked part is lost, without a report. |
| `flatten_global` | `tig_builder.cpp:488` | A function that reads a signal of its module: the copied input has no name, and the dump has an empty operand. |

Seen while modelling and, where they concern a modelled part, left out of its
inputs; none of these is reported to the user either:

- Several conditions of one `if` (`a &&& b`) are combined with a bitwise and
  (`slang_stmt_lowering.cpp:137`), so that 2 and 1 give 0; a pattern among them is dropped.
- Folding uses ints and does not truncate (`expr_builder.cpp:883`); shift counts beyond
  an int are undefined (`expr_builder.cpp:947-950`, `968`); the n-ary or of a label list
  is evaluated from two operands (`expr_builder.cpp:1059-1064`).
- Constant bases of targets beyond their range wrap (`slang_lowering_internal.h:216-223`,
  `311-313`); a constant range below the right bound, and a replication with count 0, meet
  assertions (`expr_builder.cpp:166`, `433`).
- An output connection that is converted and goes to more than a name: the second operation
  is connected to the instance with the port number the conversion has there
  (`slang_lowering.cpp:282`); the dump does not print that connection.
- Assignment patterns: operand *i* of a `kGather` goes to position *i* of a descending
  array (`tig_dumper.cpp:382-387`). Ranges of ascending unpacked arrays are written
  reversed (`expr_builder.cpp:683-701`).

## What is not modelled

- The order in which outputs of *different* names are exported (the order of a
  map, without effect on the netlist's meaning).
- Slices and whole unpacked arrays, assignment patterns, arrays declared in a block, structures.
- Calls in expressions (FlattenCalls has them as nodes), powers, reversed ranges.
- `remove_input` and the bookkeeping of an expression's inputs, beyond which names it reads.
- Recursive functions: `flatten_calls` does not end on them (assumption
  `NoRecursion` of FlattenCalls).
- Events on anything but a plain one-bit signal; they count as events without a name.
- Hierarchy, scopes, the names of symbols, module variants and temporaries, and their collisions.
- Null connections of instances, and two outputs of instances on one variable,
  which the language forbids.
- Pragmas: one pass over the text without state. A case that has the full_case pragma is an
  input of StmtBuilder (`FullCases`); parallel_case is accepted and never used.
- Diagnostics, the command line, and everything under `src/fixtures` and
  `src/scripts`, apart from the claims quoted above.

## Plan

The order built so far was that of the risk: what a process means (ProcSemantics,
StmtBuilder), then which netlist it ends up in (TigBuilder, TigLowering), then
when its registers are updated (ProcTiming), then functions (FlattenCalls), then the
data below the statements: expressions and packed targets (ExprNodes, ExprLowering,
PackedAssign), loops (LoopUnroll) and arrays (UnpackedArrays).
Abstract specifications: ProcSemantics for a process, StmtBuilder for one with arrays;
the history `intended` for a module's drivers; the text's own execution in ProcTiming
and LoopUnroll; VerilogValues for expressions; `Values` for an expression graph.

Left, in this order:

1. LoopUnroll: `LoopTypeOK` and `ContextIsClosed`; PackedAssign: `ExprTypeOK` and
   `DerivedTypesAgree`, which needs the types only and no values.
2. Hierarchy: module variants, scopes and generated names, and that no
   two symbols get one name.

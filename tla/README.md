# Verification of HexCore-Helix

HexCore-Helix turns LLVM IR, lifted by Remill from machine code, into pseudo-C
and a serialized syntax tree (HAST). This directory is a verification
development kept beside that code: TLA+ modules translated from the source, TLC
configurations that check them on small instances, and theorems proved with
TLAPS for every instance. Paths are relative to the root of the repository.

1. [The system](#1-the-system) — inventory of its parts
2. [Modules](#2-modules) — what each models, and how it corresponds to the code
3. [Runs](#3-runs) — what is checked, bounds, fairness
4. [Findings](#4-findings) — where the code and its own words disagree
5. [Proofs](#5-proofs) — what is proved, from what, along which argument
6. [Not modelled](#6-not-modelled)
7. [Plan](#7-plan)

## 1. The system

A decompile goes down through these layers. All calls are synchronous and
nothing calls back up; one engine belongs to one thread, but several engines may
run on several threads.

| part | code | state it keeps | operations |
|---|---|---|---|
| JavaScript addon | `crates/hexcore-helix/src/engine.rs` | `HelixEngine.handle: Option<EngineHandle>`, the architecture, the deprecated Rust pipeline | `new`, setters, `decompile`, `decompile_ir`, `dispose`; finalisation by the collector |
| Rust FFI | `crates/helix-core/src/ffi.rs` | the engine pointer; per call, a buffer that grows | one wrapper per C function, two retry loops, take-over of the combined output |
| C API | `engine/src/CApi.cpp` | nothing; allocates the combined output | create/destroy, setters, decompile calls, free |
| Engine | `engine/src/Engine.cpp` | last error, CFG preservation, debug-type JSON, data sections, the `Pipeline` | setters, three decompile calls, string-section registration, the scoped data provider |
| Pipeline | `engine/src/Pipeline.cpp`, `engine/include/helix/Pipeline.h` | option fields, renames, function starts, the lazily built pass manager | option setters, parse, translate, build, run, emit |
| Audit | `engine/src/diagnostics/VerifyAudit.cpp` | run directory, sequence number, first failure | per-pass hooks, dumps |
| Lifting and lowering passes | `engine/src/passes/{RemillToHelixLow,HelixLowToMid,HelixMidToHigh,…}.cpp` | the MLIR module | one `runOnOperation` per pass, each over the whole module |
| Register SSA | `engine/src/passes/RegisterSSARename.cpp` | per function: block order, versions at block exits, next version | order, reconcile, rename |
| Control-flow structuring | `engine/src/passes/StructureControlFlow.cpp` | the function, a trial clone, process-wide name counters | trial, commit, bridge SCF to HelixHigh, legacy structurer, goto fallback |
| Types | `engine/src/analysis/{TypeEvidence,TypeLattice}.cpp`, `engine/src/passes/{PropagateTypes,InterProceduralTypePropagation,ApplyDebugTypes,…}.cpp` | type attributes on operations; a table of parameter types | propose, copy; collect, sweep, refine |
| Stack, returns, dead code | `engine/src/passes/{RecoverStackLayout,BindReturnValues,EliminateDeadCode,MemorySlotPilot}.cpp` | the function | words to variables, the returned variable, removal, promotion of slots |
| Simplifiers | `engine/src/passes/{HelixLowSimplify,HelixMidSimplify,ConstantFoldingPass,RecoverMagicDivision}.cpp`, `patterns/` | the function | rewrite values until nothing applies or the rounds are used up |
| C-AST | `engine/src/cast/*` | the tree of a module, side tables of the builder | build, optimize in rounds, print |
| Emission | `engine/src/emit/*` | none | pseudo-C text, HAST FlatBuffer |
| Tools | `engine/tools/*` | none | one request per process |

State crosses calls in four places: the options in `Pipeline`; the sections and
the last error in `Engine`; the process-wide counters of
`StructureControlFlow.cpp`; and environment variables, read when the pass
manager is built. State crosses *passes* in the module's attributes: register
versions, type evidence, structured regions.

### What is hard about it

* **Stale state.** The pass manager is cached; options, renames, sections and the
  audit outlive the call that set them; a whole `Pipeline` is replaced while its
  settings should survive.
* **Partial failure.** Any stage may fail between two others; either of two
  allocations may fail; output is checked after it was handed over.
* **Retries.** A buffer that is too small costs another run of the whole
  pipeline, whose product may have another size.
* **Ordering.** Five environment variables and three options order the passes;
  ten passes propose types for the same value in an order that depends on the
  program; a simultaneous assignment becomes a sequence of assignments.
* **Loops.** Versions, types and carried values all have to be right around back
  edges, where a predecessor has not been seen yet.
* **Widths.** Versions are cut to 16 bits, shifts reach the word size, buffer
  sizes are compared to the byte.

There is little concurrency inside one engine: MLIR's multithreading is disabled
(`Pipeline.cpp:726`). `PROJECT.json` lists each hazard at its line with
the properties that would catch it.

### What makes each part correct

| part | it is correct when |
|---|---|
| session | a call depends on the settings at its start and on nothing an earlier call left; a failed call leaves no product and no provider |
| pipeline | each emitter gets the form it was lowered for; nothing live is deleted; invalid IR is never emitted |
| buffers | a product arrives whole, after at most one retry if it is stable, and every call ends |
| ownership | every block and every engine is released exactly once |
| register SSA | a stamp names a definition that may reach the read, and no two definitions share one |
| types | the strongest evidence wins in whatever order it comes; propagation converges and invents nothing |
| structuring | the emitted statements compute what the structured loop computes |
| values | every conversion between the dialects, every rewriting and the C expression keep the bits |
| stack, dead code, C-AST | each pass leaves the calls, the stores and the result of the function as they were, and what is printed reads back in C as the tree it was printed from |

## 2. Modules

| module | models | built on |
|---|---|---|
| `EngineData` | settings, sections, products and their sizes | |
| `HelixEngine` | every setter of an engine and its pipeline, and a decompile call stage by stage | `EngineData` |
| `EngineContract` | the abstract session | `EngineData` |
| `PassPipeline` | the pass list, the run, verifier and audit | |
| `GrowingBuffer` | the retry loops around a lent buffer | |
| `AddonSession` | the JavaScript object, its engine, the combined output | |
| `RegisterSSARename` | numbering one register of one function | |
| `TypeArbitration` | one proposal against the evidence there is | |
| `TypeEvidence` | many proposals and copies in any order | `TypeArbitration` |
| `InterProcTypes` | collection, sweeps and refinement across functions | `TypeArbitration` |
| `ScfProgram` | structured loops as data | |
| `ScfLoop` | what such a loop means (abstract) | `ScfProgram` |
| `ScfBridge` | the statements it is turned into | `ScfProgram`, refines `ScfLoop` |
| `TierValue` | the value of an operation of any dialect tier, and its bits (abstract) | |
| `LowToMid`, `MidSimplify`, `HighToC` | the rules on instructions and their conversion with flags, loads, stores and calls; algebraic rules, common subexpressions, folding, division recovery; the C expression and what a compiler makes of it | `TierValue` |
| `ValueTiers` | the values of a function on their way through all of these | the three above |
| `CAst` | expressions, statements, what occurs in them | |
| `CAstMeaning` | what a call of a function does (abstract) | `CAst` |
| `CAstWalk` | the two walks most passes share, over lists and over expressions | `CAst` |
| `CAstPasses`, `CAstDataflow`, `CAstNames`, `CAstIdioms` | the passes: local rewrites; copies, dead stores and selector chains; names and declarations; what a machine and a compiler leave in the tree | `CAst` |
| `CAstConfidence` | the defects a function is searched for, and its score | `CAstIdioms` |
| `CAstBuilder` | from the operations of a function to its tree | `CAstConfidence` |
| `DeadOperations` | binding of return values, dead-code elimination and the pilot for slots, on the operations of a function | `CAstBuilder` |
| `StackLayout` | the words of the frame that become variables and parameters | `DeadOperations` |
| `CAstPrinter` | the text of a function, and how C takes a text apart (abstract) | `CAst` |
| `CAstOptimizer` | the passes before the builder, building, the production schedule and the text, over one function | all of the above from `CAst` on |

Where the constants need more than a .cfg can give, an `MC…` module has the
instance TLC checks; `…Proofs` holds the theorems of a module. Mutants — definitions whose comment begins with "Mutant:" — stand
before the definition they would replace; each is a plausible slip in that code
that one of the properties rules out. Nothing else uses them.

**`HelixEngine`.** `pipe` holds the fields of `Pipeline`, `manager` the options
the cached pass manager was built from (or that there is none), `engine` what
`Engine` keeps itself, `run` the call in progress, `outcome` what the last call
returned. A call runs through the stages of `Pipeline::decompile`: `ParseLLVMIR`,
`TranslateToMLIR`, `EnsurePipelineBuilt` with `RunPasses`, `EmitPseudoC`,
`EmitFlatBuffer`, `Deliver`; `StageFails` may end any of them. What a stage does
to the IR is reduced to which settings its product depends on, since that is
what staleness is about. `EngineContract` has no pipeline object and no stages:
a call takes one snapshot of the settings and returns what they make of its IR,
or nothing. One setting is not taken from the snapshot, and the contract says so:
which passes were selected by name. `enablePass` (`Pipeline.cpp:449`) does not
drop the cached manager, so the first call that lowers a module fixes the
selection (`inForce`, action `Fix`) and a later one waits until the emitter, the
CFG mode or the optimisation level is set again; `Engine.h:113` asks callers to
"call before first decompile". A contract without `inForce` is refuted by
exactly that sequence. That `setSkipOptimization` forgets renames and function starts is in
the contract as `Reset`, because it is what the code does, although
`Engine.h:295` says of renames that "they accumulate until cleared".

**`PassPipeline`.** `BuildPassPipeline` is `buildPassPipeline` with its
conditions, as a sequence of pass names. A module is reduced to its dialect
tier, the form of its structured control flow, whether it verifies and which
passes it went through. A bridge may decline a loop (`declines`): of a shape it
does not handle it leaves the `scf.while` in place
(`StructureControlFlow.cpp:483-539`), and the pass neither checks for one nor
fails (3984). The form is then `"declined"`, and the properties about the order of
passes claim nothing of such a loop; the legacy emitter writes it as an unhandled
operation. How loops are bridged or declined is `ScfBridge`. A pass may succeed, fail, or leave invalid IR; the
per-pass verifier runs when the audit is on, the final one always.

**`GrowingBuffer`.** `phase`, `cap` and `attempt` are the locals of the loops in
`ffi.rs` and `helix_tool.cpp`; the engine's answer is the capacity protocol of
`Engine::decompileIR` and `decompileIRText` (the text needs a byte more than its
length). The size of the product is chosen again at every engine run.

**`AddonSession`.** A heap of blocks, the two pointers as C++ locals and as the
output struct in Rust's frame; each allocation may fail, the engine may fail,
the text may not be UTF-8, the HAST may be empty or without identity. Disposal,
a second disposal and collection of the object may come between any two calls.

**`RegisterSSARename`.** The control-flow graph is a successor list per block.
`Visit` pops the worklist (from its end, as `pop_back_val` does), `Rename`
reconciles the predecessors of the next block and numbers its write. Registers
do not interact, so one is followed; several writes of a block are one, since
only the last one leaves it. `Slot` is the packing of `HelixLowToMid.cpp:376-396`
with `SlotWidth` for 2^16.

**`TypeEvidence`.** `Apply` is `applyTypeEvidence`: the attributes of an
operation against a proposal with a source and a strength, with the pointer
refinement and the conflict mark. Every caller in the tree proposes with the
default strength of its source; a copy proposes what is selected elsewhere.

**`InterProcTypes`.** The three phases of the pass: collection (only reads of
the entry block), at most `kMaxIter` sweeps over all arguments of all calls, and
a proposal for every read. Types are kinds with a width, conversion from and to
spellings is modelled by what it does (unknown spellings read as no type).

**`ScfBridge`.** A loop of `scf.while` around one `scf.if` or `scf.index_switch`
is data (`ScfProgram`); the emitted C program is run statement by statement, one
assignment per step, with `carried`, `held`, `taken` and `guard` for its
variables `scf_w…`/`scf_r…`. `route` says which of the three emitters wrote it:
the two forms of `bridgeSCFWhileToHelixHigh` or `CAstBuilder`. Decisions made
while emitting — `Agreed` results, `Invariant` components, shapes it `Declines`
— are operators of the loop. Operands are read when a statement runs, because
the emitters print them as variables by name; that is what makes the order of
the assignments matter. `ScfLoop` runs the loop as MLIR defines it, one
iteration per step.

**`ValueTiers`.** `values` are the trees of operations that the variables of a
function are assigned, `stage` the tier or the pass that ran last, `round` the
rounds of the simplifier, `asked` the optional passes of the session. One step
is one pass over all values, in the order of `buildPassPipeline`: `LowSimplify`
(the greedy rewriting of instructions, to the point where nothing applies),
`LowToMid`, `Simplify` (once per round, as `runOnOperation` loops), `ConstantFold`,
`RecoverMagicDivision`, `MidToHigh`; `BuildC` is `CAstBuilder::buildExpression`.
A rule of the simplifier is an operator that offers replacements; `FirstOf` keeps
the order of the `if`s in `trySimplifyBinExpr`, so the two rules that can never
apply (467-552) are visible as such. Equal trees are one SSA value, so what
`tryEliminateCSE` does to pure operations is nothing; what it does to loads is
`EliminateCSE`. Widths are
scaled: `NarrowW` (3 bits) stands for i8 and i16, `IntW` (4) for i32, C's int, and
`LongW` (6) for i64, so that all sign and top bits are reached by few patterns.
`Meaning` (the bits the machine computes) and `EvalC` (the value a C compiler
computes, with promotions and conversions, for every choice of declared signs)
are references, not code. Operations of the LLVM dialect that reach the builder
unconverted (arithmetic, comparisons, addresses, floats, vector lanes, a few
intrinsics) go through its expressions only; a float is a number scaled to a bit
pattern, a vector has one lane.

Memory is in it as a value. A load or a store names the memory it works on, which
is the effect before it in program order, or the memory of the start; so two loads
are one SSA value exactly if no effect is between them, and a rule that moves or
merges a load has to say on which memory it works then. `Meaning` looks a word up
by walking back through the stores, with the addresses compared as numbers; other
effects (calls, string instructions, pushes) leave a memory in which everything is
unknown but reproducible. An effect keeps its value when it keeps its parts —
address and stored value, or target and arguments (`Parts`). In C, where nothing
names a memory, a load reads the one at the statement it stands in (`here`).

Where the code is known to lose a value the property
says so by a named predicate instead of leaving the case out of the inputs: see
[below](#4-findings).

**`CAstOptimizer`.** `fn` is one function (parameters, locals, those declared with
a zero and those declared only because the body names them, variables no pass may
take a store from, body, whether a jump was dropped, the defects known of it and
its score), `step` the number of passes that have run; one step of the
specification is one call of `run(name, pass)` in `optimizeWithObserver`, in the
order of `Schedule`: of its 64 entries the first four are passes on operations
(`StackLayout`, `DeadOperations`), the fifth is `buildFunction`, and the others are
the C++ schedule. A run begins with the operations of a function, or behind the
builder with a tree, and ends with the text (`Write`). A pass is an
operator on a statement list or a function, in the module of its kind. A pass
whose C++ recurses into every nested list and then rewrites the list it is at
gives `CAstWalk` the rewriting as `Here`, one that rewrites expressions bottom-up
as `Node`; a pass with a traversal of its own
(copies, dead stores, selectors) has its own recursion. The uniform node of
`CAst` — a kind, a name, a number, operands, nested lists — stands for the class
hierarchy of `CExpr.h` and `CStmt.h`; fields and subscripts behave as a
dereference, types are reduced to the width of a cast. `CAstMeaning` is no part of
the program: it is an interpreter for the printed C, the reference every pass is
held to. Its observations are the calls with their arguments, the stores to
memory and the end; what a call returns is an input. The same call from the same
machine address twice in a row is one call, an opcode's intrinsic and the name it
is given are one callee, flag intrinsics are silent, and the stack canary is a
constant: these are what the tree means before the idiom passes have run, and
without them those passes would be held to change it. A run that loads through
null, or takes `__helix_unknown` for a value, is undefined, and what follows is free.

**`CAstBuilder`.** `BuildFunction` walks the operations of a function, which stand in
the same tree shape as the statements they become, with the builder's side tables
as the record `b`: what each variable and each temporary last held, the values
already stored in one (`stored`, `legal`), the statements made, the defects met. A
statement operation has an operator named for its case in `buildStatement`; an
expression is built where its value is used, as `buildExpression` does, so that the
order of reads can change in the building. Copies between temporaries are followed
(`ResolveTransitive`), a store overwritten before it is read is skipped
(`PrecomputeDeadStores`), the results of `scf.if` and `scf.index_switch` become
variables assigned in the arms, and what remains of `cf.br`, `cf.cond_br` and
`cf.switch` becomes assignments to block arguments before a `goto`. An address that
lies in the function becomes a label, one where a function starts a name
(`BuildIntegerConstant`, `GateCalleeName`). `CAstMeaning` runs the operations as
they stand, values computed where they are defined and block arguments passed all
at once; the tree has to make the same observations. What a register, a flag or an
address means to the low operations is given by the constants.

**`CAstConfidence`.** The score, given by the builder (`AnalyzeConfidence`) and again
by the last step, `reanalyzeConfidence`: what is deducted, what
caps the score, and the analyses of `DamningDefect.h` on which the caps rest
(definite assignment, null accesses, invalid shifts and pointer arithmetic,
unreachable code). A run of `CAstMeaning` remembers which variables it read
without a value, and which of them it returned, so that the score can be compared
with what happens.

**`DeadOperations`.** Each of the removals of `eliminateDeadCode` is an operator from
function to function, composed in `EliminateDeadCode` in the order and with the
repetitions of `eliminateDeadCode`. Registers have lanes (`PartOf`), a write is dead
if every way on comes to a covering write before a read that overlaps
(`IsDeadRegisterWrite`), a variable is live if one of the consumers the code lists
reads it (`IsLiveConsumer`, `LiveNames`). `BindReturnValues` and `MemorySlotPilot` are
passes of their own; the pilot's second half is what MLIR's promotion makes of the
interfaces in `HelixMidOps.cpp`, for slots used in one block. `CAstMeaning` runs the
operations before and after, so a removal has to leave calls, stores and the result
as they were.

**`StackLayout`.** `Accessed` finds the words reached from the stack or frame pointer
at a constant offset, `FollowStackPointer` tracks the stack pointer to where the
frame pointer is set from it, `IsParameter` decides what the caller put there, and
`Replaced` writes variables in place of accesses. Offsets are the real ones, and
the layout of the two conventions is. Variable recovery, which lies between this
pass and the next ones, is not modelled; the functions already use the variables it
would make of their registers.

**`CAstPrinter`.** `PrintFunction` is `CAstPrinter::print` as a sequence of tokens,
with a space as a token where the code writes one that keeps two signs apart. The
second half is the reference: a lexer that joins adjacent signs, and a recursive
descent by the grammar of C, not by the printer's table. `PrintsAsC` asks that what
is read is what was printed, except where the tree has one of the shapes the
printer writes wrongly (`Misprinted`).

## 3. Runs

| run | states | question |
|---|---|---|
| `engine_session` | 1.5 M | does any order of settings, calls and failures make a call depend on what is stale? |
| `pass_pipeline` | 1.4 M | does some setting order the passes wrongly, and does the audit name the right pass? |
| `growing_buffer` | 6 k | does every call end with a whole product? |
| `addon_session` | 1 k | is everything released once? |
| `register_ssa` | 1.7 M | are stamps sound on every small control-flow graph? |
| `type_evidence` | 0.3 M | does the order of proposals matter? |
| `interproc_types` | 0.6 M | do the sweeps converge, whatever the types and calls? |
| `scf_bridge` | 0.2 M | do the emitted assignments mean the loop? |
| `value_tiers` | 167 k | does every conversion and rewriting leave a value its bits, and an effect what it depends on, in every dialect and in C? |
| `cast_optimizer` | 0.58 M | does a pass on operations, the builder, a pass on the tree or the text change what a function does, after all the steps before it, and does the score hide what is wrong with it? |
| `register_ssa_loop`, `dead_store` | | two statements of the repository the code does not keep |

### Bounds

* `engine_session`: two IR texts, of which one carries strings and the other
  function starts, two addresses, two overlapping sections, one rename, one
  debug payload, one enabled pass, buffers of none and of two bytes. A stale
  value needs one setting before and one after a call; two of each suffice to
  tell them apart.
* `pass_pipeline`: all 2 × 2 × 3 option sets and all environments that decide the
  list. Of the gates that each add single passes, either the generic ones and
  escape analysis are on together or the slot pilot is on without them, so every
  one of them is met on and off; `MaxRuns = 2` decompiles on
  one pass manager in the default environment, enough for a record of the first
  to reach the second.
* `growing_buffer`: the code's eight attempts; `Initial = 4`, `Max = 16` and sizes
  0 to 18, so that a product may outgrow every buffer and the maximum itself. The
  proofs have no bound.
* `addon_session`: three blocks, one more than a call holds.
* `register_ssa`: every graph of four blocks with at most two successors each,
  irreducible ones included, and every set of writing blocks. Four blocks are
  the least with a loop of two entries beside an entry block. With `SlotWidth = 6`
  the versions of three writes have slots of their own and the fourth falls on the
  slot of the join marker, so `SlotsKeepVersionsApart` is tried on both sides of its
  limit. Versions beyond the width, which are cut to it, are past that limit and not
  reached here; `SlotsInjective` proves the property for every width and any number
  of versions. `Merge` is a model value.
* `type_evidence`: two operations, two scalar and two pointer spellings, three
  sources, five proposals (`MaxOffers`): select, rival, stronger, renewed, rival.
* `interproc_types`: two functions, four reads and up to two arguments, with every
  assignment of five spellings to the reads; one spelling is unknown to the
  pass. A chain through both functions, a cycle and a call to itself are among
  them. The proof of convergence has no bound.
* `scf_bridge`: up to two carried values and one branch result; permuted,
  duplicated, dropped and constant components; poison as initial value and in an
  arm; one computed value. Two components are the least that can be swapped. A
  shape that is declined is tried with one loop only, as nothing else is looked
  at. The proofs have no bound.
* `value_tiers`: one instruction of every kind with each of its flags, one on top of
  another with constants, the condition codes from one and from two comparisons,
  changes of width, reciprocals and remainders, at three widths, under the five
  sets of optional passes. Operands take the eight patterns around zero, the sign
  and the top of their width (`Edges`); every subset of the variables is declared
  unsigned. No rule looks deeper than the operands of its operands; nests of up to five
  operations (a shift over masks, sums of products, differences) show the rules
  advance a level per round. `SimplifierSettles` bounds the rounds by the depth of the
  nest. It does not say that the 16 rounds of `HelixMidSimplify.cpp:980` are enough,
  and for a shift over 17 nested masks they are not: what is left is correct and not
  simplified to the end. Of memory: a load
and a store, two loads around every kind of effect, with addresses that are a base,
two bases, and a base with an offset. Addresses and memory take three values
(`Places`): that makes two bases the same, or apart, or one word apart after an
offset, with the top of the range.
* `cast_optimizer`: the functions of fifteen families — a decision recorded in
  selectors and asked later; stores, copies and reads around a branch, a loop or a
  switch; jumps, returns and conditions of odd shapes; three variables under every
  choice of names; frame, flags, canary, native opcodes, casts and repeated calls as
  the lifter leaves them; locals that are given a value on no path, on some, or only
  by address, and what a score looks for; and of operations: a block of copies, calls,
  stores and merged branches; blocks with jumps and arguments, permuted ones
  included; the operands of the lower tiers with addresses inside and outside the
  function; callees in and outside the table of functions; stubs; machine code with
  bookkeeping, saved registers, partial registers and dead values; the arguments and
  results of two conventions; frames with slots reached from both pointers; and 5,565
  trees of every expression and statement kind two deep, which are only printed. `CodeBase` is 128
  and `Window` 64, so that a folded address, a small constant and an address of code
  are told apart by few numbers. Each is run with every argument in 0..1 and three lists of
  answers before and after every pass. `Fuel = 6` jumps or iterations are more
  than any function of the families makes before it repeats itself;
  `MaxSimpleDepth` and `MaxTotalDepth` are the code's limits of `propagateCopies`,
  `MaxRounds` and `MaxIterations` its round limits. Each of the 64 entries changes
  some function of the families.
* `dead_store`: three functions, two loops and a `switch` whose stores are read after them.

### Fairness and deadlock

`GrowingBuffer!FairSpec` has weak fairness on `Work`, the steps of a call in
progress: the caller is one sequential function and the engine's termination is
assumed; no caller is obliged to make a call. `RegisterSSARename!FairSpec` has
weak fairness on the two loops of one function. `ScfBridge!Spec` has weak
fairness on the steps of the emitted program, which runs alone;
`KeepsUpWithScfLoop` is the fairness of the abstract loop, so it holds because
each iteration takes finitely many statements, and says nothing about loops that
never end in the source.

Deadlock is checked except where the modelled thing ends: `PassPipeline` (bound on
runs), `AddonSession` (the object is collected), `TypeEvidence` (bound on
proposals), `ScfBridge` (the program has ended), `ValueTiers` (C has been built), `CAstOptimizer` (the schedule has
ended), and in the runs of findings.

## 4. Findings

| run | the code | what it says |
|---|---|---|
| `register_ssa_loop` | `RegisterSSARename.cpp:190` counts a predecessor that is not renamed yet as live-in, so a loop entered with the live-in value gets version 0 at its header | `RegisterSSARename.cpp:25-27`: "we conservatively stamp `kMergeVersion` for that case" |
| `dead_store` | `CAstOptimizer.cpp:5609` judges the stores of a loop body by the reads of the body alone, so one read only after the loop is removed; the arms of a `switch` (5621) likewise | `CAstOptimizer.cpp:5589`: "The loop cases right below already avoid the equivalent mistake" |

`StampMayReachRead`, which does hold, is the weaker statement that survives
`register_ssa_loop`: the stamp is a definition that may reach the read, not the
only one.
`JoinsMerged` proves that the documented merge does happen in every part of a function
whose blocks all come after their predecessors in the order. Loops are not the only
blocks outside such a part: the worklist is a stack, so of a branch 1 to 2 and 3 that join in 4
the order is 1, 3, 4, 2, and a join after a write in 2 alone is stamped live-in too.

Not run, but read in the code and listed among the hazards: `Engine.cpp:401`
appends the strings of every IR and nothing removes them; `Engine.cpp:147` ignores
an empty table where `ffi.rs:258` says it clears one; `Engine.cpp:108` replaces the
`Pipeline` and with it the renames; `SubRegisterSSA.cpp:144` renames a written EAX to
`rax`, which no pass that compares names takes for RAX.

The predicates of `ValueTiers` name where a value loses bits, each of which TLC
shows as soon as its predicate is taken out: the zero flag of a narrow addition,
once simplified, prints as `!((uint8_t)a + (uint8_t)b)`, which C computes in int
(`SeesUpperBits`); an i1 `true` prints as -1 (`TrueAsMinusOne`); `>>` and `%` are those
of the declared type, and `Sar` prints as `Shr` does (`ByDeclaredType`); narrow
equalities compare operands of mixed signs (`MixedSigns`); two shifts that shift
everything out become one by the sum of both (`ShiftsEverythingOut`); a mask is
moved out of an arithmetic shift without its sign (`MasksSign`); a shifted product
is taken for a division (`LooksDivided`); the remainder of an unsigned division
becomes the signed `%` (`UnsignedRemainder`). Of the LLVM dialect: what is added to a
variable of pointer type, or indexes it, is scaled by the size of what it points to,
once more (`ScalesTwice`); an address made of fewer than 64 bits, or of an aggregate
element, has not the bits it should (`LosesAddress`); `uitofp` prints as a signed
cast, `fptoui` as a C conversion that is undefined above the signed range, `umax` and
`smax` both as `max`, `abs` as the function on int (`LosesSign`); an unordered
comparison prints as the ordered one, and floats have no `%` (`LosesFloat`); the
number of a lane is dropped (`LosesLane`). Of memory: `tryEliminateCSE` merges two
loads across the store of a nested region, of the LLVM dialect, or a push, since
line 904 does not count them (`LosesEffect`); `CAstBuilder` writes a load where its
value is used, behind whatever was stored since, and leaves the object of a virtual
call out (`LosesMoment`); the computed target of an indirect call is no operand of
the call of the Mid dialect (`HelixLowToMid.cpp:1017`, `LosesTarget`); and a field has
the width of its address (`LosesWidth`). `StoreAfterStore`
(`patterns/MemoryPatterns.cpp`) asks for a stored value without uses, while the store
is one, so it never applies.

Dead-code elimination goes by lists of operations. A variable that only a string
instruction, a call of the LLVM dialect, a branch, a push or an assignment through a
pointer reads is dead to it (`EliminateDeadCode.cpp:572`); an assignment of the result
of an LLVM or a variable-argument Mid call goes with the call (626); a register read in
a nested region and overwritten behind it is dead (951). A machine intrinsic whose
value nobody uses is dropped by the builder. The stack layout
names a word by the size of its offset: a word below and one above a register, or one
from RSP and one from RBP at equal offsets, share a name (`RecoverStackLayout.cpp:459`,
again in `HelixMidToHigh.cpp:268`), while one word reached through both registers, or
before and after the stack pointer moved, is two variables; words that overlap are
independent; an argument read through a moved stack pointer becomes a local without a
value (199); on Win64 an access in a later block is taken for an argument whatever
happened before. The printer writes `- -x` and `-(-5)` as `--x` and `--5`, `&(&x)` as
`&&x`, and a cast or a unary operator before `->` or `[]` without parentheses
(`CAstPrinter.cpp:271`, 303). `>>` is printed for both shifts; a label before a closing
brace is C only since C23.

In the C-AST optimizer, some
rewrites are right only for what the builder usually hands over, and the families
of `cast_optimizer` keep to that: selectors of a `switch` are skipped when names
are collected or changed (951, 1262); a conditional overwrite becomes `min`/`max`
whatever it assigns (9253-9257); `x += x + c` becomes `x += c` (9811); a name
inferred from a callee is not compared with undeclared ones; a dead compound
assignment of a call loses the read of its target (5408-5437); `!!x` becomes `x`
and `&` of comparisons `&&`; a `continue` inside a `switch` inside an unwrapped
loop; labels behind a `return` are dropped with the dead code. The idiom passes
go by names: `x = f(y) + _promoted_1` loses its call with the flag (5029); any
`*p + 8` is a canary read (2017); an `if` that compares the Win64 cookie in one arm
only loses that arm (2134); any declared `vN` is a frame pointer (4643), and a store
to `var_8` goes before `v3 - 8` is seen to read it; the zero of a float is looked
for by the name of its target (9112); `x ^ 0xFFFFFFFF` becomes `~x` at 64 bits
(7553); `*0 + 40` that is no canary becomes `__helix_unknown`.

The builder, too, is held to the operations only where its inputs are the usual
ones; the families leave out, because TLC shows each at once: a variable that an arm
of a branch copies and that is followed behind the branch, or in the condition of a
loop or the selector of a `switch`; a jump to a label with only a return behind it,
which returns `result` whatever that label returns (2566); a call whose value is only
used inside arithmetic, or twice, which is printed at each use; a virtual call whose
value is not used, printed without its object although the comment at 2392 says
`base->vfunc`; a store overwritten later that a memory access or a call of the low
tier reads in between (5260); jumps of the low tier, which are dropped; and a value
computed from variables that change before it is used, which is built at its use.
An opaque LLVM call shows the state pointer as `__undef`.

Of the score: `initializeReadBeforeWriteVars` gives a variable that is read too
early a zero, so the scorer no longer sees it; a placeholder renamed after
`declareUndeclaredVars` no longer counts as made up; `scanForUnhandledCF` looks
neither at loop conditions nor at switch selectors (`DamningDefect.h:750`); in
a body with jumps or switches only a returned local that nothing assigns is looked
for. `ScoreIsHonest` asks for what the scorer promises on the tree it is given.

## 5. Proofs

All theorems hold for every value of the constants under the named assumptions
of the modules (sets of values do not contain their sentinels, sizes are
naturals, the buffer policy allows two attempts, an option is on or off). Each is proved from an
inductive invariant, one lemma per action.

* **`HelixEngineProofs`** — type correctness, the four session invariants,
  and `ImplementsContract`. Type correctness and the four invariants are
  inductive together (`Safety`); for the refinement, `Gathered` adds that what the
  stages have made so far was made from the settings, which no stage changes.
  The mapping shows the contract the options of the pipeline (`Options`), the
  selection of the cached manager (`InForce`) and the request in progress (`Busy`).
  `EnsurePipelineBuilt` is the contract's `Fix` when it builds, the last stage is
  its `Finish`, and the other stages stutter. The lemma it turns on is
  `ManagerIsLowered`: a cached manager has the options of the pipeline in all but
  the selection.
* **`PassPipelineProofs`** — the three properties of the pipeline, for every set of
  options and environment a process can be started with. `PassOrder` is about the
  list alone: it is put together from a dozen optional passes, a late
  bridge and the fixed passes between them, and is `WellOrdered` whichever are there. The lemmas on lists (`Appended`, `InFirst`,
  `InSecond`) say where a pass of a concatenation stands and what comes before it,
  so that the proof follows the parts and does not enumerate the lists. `PInv` then ties the
  module to the position: the passes done are those before the next one (`Ran`), and
  tier and SCF form follow from them (`FormOf`). `EmitterServed` says of the SCF form
  that the bridge has run before the legacy emitter, not that it took every
  loop. `NothingFailedYet` carries the audit:
  a run that goes on has recorded no failure, its own or of an earlier run.
  `LoweredInOrder` asks the same of each single pass, optional or not: it finds a
  module of the tier it is written for, and slots are made only of numbered
  registers. `TiersOrdered` says it of the list: a lowering stands before every pass
  of the tier it makes and behind every pass of the tier it takes (`TierPositions`);
  `TierInv` carries it to the run.
* **`GrowingBufferProofs`** — the four safety properties for any policy.
  `AnswerFits` says that an "ok" answer was given for the present buffer;
  `StableCapacity` that after one refusal of a stable product the buffer already
  has the size asked for. Without it "at most two runs" is not inductive.
  `CallTerminates`: each step of a call lowers `StepsLeft`, at most twice the
  attempts allowed, whatever the engine answers.
* **`AddonSessionProofs`** — ownership of blocks and engine. `FrameOfPhase` says
  which of the two frames may hold pointers at each point of a call.
  `OutputComplete` adds that both buffers of a combined output exist or neither does, so
  the pointer check of `ffi.rs:449` guards against a state the C++ side never makes;
  `EngineStaysGone` is the action property that nothing revives an engine or object.
* **`RegisterSSARenameProofs`** — versions are injective on every graph, stamps
  may reach their read, slots are injective below the width. `OrderConnected`
  (each ordered block but the entry has a predecessor ordered before it),
  `NextFits` (versions given out are below the next one) and `ExitFlows` (a block
  that does not write hands on what it got) carry the second. `KnownInv` — what is
  ordered or waiting is closed under successors, and is reachable — gives
  `RenamesWhatIsReachable`: exactly the reachable blocks are renamed. That no block is
  ordered twice bounds the order by the function, and `WorkLeft` with it:
  `PassTerminates` for any bound k on the successors of a terminator. `StampedOnce` is
  the action property that a stamp is final. `Dense` (the versions given out are 1
  to `next - 1`, one for each writing block) counts versions by blocks, so
  `SmallFunctionsKeepSlots` bounds a function's size where `SlotsInjective` needs
  to know `next`: 65533 blocks, for slot ids of 16 bits and a write in each at most.
  `StampsExact` is the converse of `StampsReach`: what reaches a read is what it is
  stamped with, or it is stamped with the join marker. The code does not do this on
  every graph (section 4), so the theorem says where it does: in every part of the
  renamed blocks in which each block comes after all of its predecessors
  (`OrderedFirst`). `EdgeInv` gives the stamp of a block from those of its
  predecessors as they are now, which `StampedOnce` keeps, and `FlowIsStamped` takes it
  along a definition's flow. `JoinsMerged` follows: there, the documented merge happens.
* **`TypeEvidenceProofs`** — the three properties of arbitration for any number of
  proposals. `Sound` is the conjunction of `Typed`, `Strongest`, `Honest` and
  `Refinable`, each stated for one operation; a copy is a proposal, so one lemma
  about `Apply` serves both actions. From the same invariant, `OrderDoesNotMatter`:
  what is selected depends on what was offered and not on the order of the passes, but
  for the spelling where two preferred proposals of one strength disagree (the first of
  them stays, and the operation is marked). `ChangesAreProgress`: a change of type makes it stronger or
  a data-flow scalar a pointer, and what was offered before changes nothing
  (`ProposalIdempotent` says so of `Apply` alone, the mark included, for
  any evidence), so an operation changes at most once for each source and once more
  for the data flow.
* **`InterProcTypesProofs`** — convergence. The first sweep settles an argument's
  parameter up to integers, the second makes it quiet, the third changes
  nothing; so four sweeps are never cut short. `Sweeps` says which arguments are
  `Settled` and which are `Quiet` at each point of each sweep; merging another
  argument keeps both, which is what the lemmas about `Merge` are for.
  `ReadsInv` adds the other half of the pass: a parameter's type is one that can be
  spelt (`Spelt`), and every read the last phase has passed is answered by its
  parameter (`Answers`); the round trip of `SpellingRoundTrip` and `MergeTakesOne` (a
  merge is one of its two operands) keep them. From it follow `TypeCorrect`,
  `ReadsAnswered`, `TypesAreSaid` (the witness for a parameter, a read or an argument
  that says its type, survives every merge of the others), the action property
  `NeverDowngraded`, and `PassTerminates`: at most three sweeps, so what is left to
  do (`WorkLeft`) is linear in the arguments and reads and every step lowers it.
* **`ScfBridgeProofs`** — type correctness, `ReadsAreAssigned` and
  `ImplementsScfLoop` for any number of values. The invariant says, for each group
  of assignments, which of them have been done up to the program counter and what
  they hold (`InitsTo`, `HeldTo`, `TakenTo`, `CommittedTo`). The refinement mapping
  shows the arguments of the iteration until guard and snapshot are complete and
  those of the next one from then on: that step is the abstract iteration, and
  committing stutters. It is the point of no return because no expression is read
  after it. `TestIsReached` counts the statements left (`StatementsLeft`): all but the
  jump back to a further iteration lower it.

Left to TLC:

* Liveness. `EveryCallEnds`, `PassEnds` and `KeepsUpWithScfLoop` rest on fairness and
  on steps being enabled, which this prover does not reason about. What can be proved
  of them is proved: the measures of `CallTerminates`, `PassTerminates` and
  `TestIsReached` allow no infinite sequence of steps (of one iteration, in the last), so what TLC adds on its
  instances is that a step is always there to be taken.
* `CAstOptimizer` (`TypeOK`, `PrintsAsC`, `NoRegisterShown`, `MeaningKept`,
  `ScoreIsHonest`) and `ValueTiers` (`TypeOK`, `SimplifierSettles`, `TiersKeepValues`,
  `CKeepsValues`). Their state is a tree or an expression, the passes walk it with
  recursive operators, and what such a walk yields for every tree is an
  induction over data; even typing a step needs it, since each step is a whole
  pass. The same holds for the modules they are built on: `StackLayout`,
  `DeadOperations`, `CAstBuilder`, `CAstPrinter`.

## 6. Not modelled

`PROJECT.json` lists every component with its status. In short: instruction
patterns of the lifter, tables of conventions and
intrinsics, text layout, encodings, generated code, and the deprecated Rust
pipeline are out, because they are data or pure rewriting without state. Within
modelled parts:

* `HelixEngine`: an exception that leaves a stage ends the process; only error
  returns are failures.
* `InterProcTypes`: the walk over HelixMid calls finds none where the pass stands
  in the pipeline, and the return types it reads are never set; it is left out.
* `RegisterSSARename`: the name hash of the slot id.
* `ValueTiers`: registers, returns, exchanges and control; 128-bit values and vectors of
  more than one lane; `buildDebugIndexedField` and constants read from relocated data;
  the table of known reciprocals (its entries are exact divisors, tried before the
  reconstruction); literals that are recognised as addresses or strings. The patterns
  for the Mid dialect under `passes/patterns/` are registered by no pass.
* `CAstBuilder`: `for` loops, the names of fields,
  parameters and aliases, and the module around the function; ternaries, floats and
  vectors are in `HighToC` only. `MeaningKept` exempts a build that carries
  `hasDamningHonestyDefect`.
* `DeadOperations`: functions of the Mid dialect (`EliminateDeadCode.cpp:2131-2372`),
  which no pass of the repository creates; assignments marked as infrastructure; single
  flags of a comparison; the counters.
* `StackLayout`: the width of a slot and the type proposed for it, the marks for later
  passes, the convention chosen from the triple.
* `CAstPrinter`: comments, indentation, the spelling of numbers, texts and types, `asm`,
  structures, and the truncation of an expression deeper than 128.
* `CAstOptimizer`: ternaries, `for` loops, subscripts and struct field names;
  `splitVariablesByType`, which nothing calls. `MeaningKept` exempts a step that
  drops a jump to nowhere and says so in `droppedDanglingGoto`.
* `ScfBridge`: nesting of loops, the residual `cf.*` edges (`CAstBuilder` has them),
  early returns inside a region, and the lifting of branches to SCF by MLIR. That the after region of a
  loop with as many values as results yields its arguments in order is what
  `createStructuredDoWhileLoopOp` builds, and is assumed (`Meets`).

## 7. Plan

In order:

1. *Structuring by trial and commit* (`StructureControlFlow.cpp:832-1155`, driver
   2371-2700): a function, its clone, the fallback; a failed trial leaves the function
   and its labels as they were; deletion of unreachable blocks is all or nothing
   only on the clone. Abstract specification: an atomic rewrite. Two engines
   drawing names from the process-wide counters.
2. *Nesting*: loops in loops through `ScfBridge`, and one abstract parallel copy for
   its emitters and for the block arguments of `CAstBuilder`.
3. *Data-flow types* (`PropagateTypes.cpp`, `TypeLattice.cpp`): the lattice laws proved,
   the worklist shown monotone, its results replacing the arbitrary types that
   enter `TypeEvidence` and `InterProcTypes`.
4. *Variables* (`RecoverVariables.cpp`): which registers and slots become one variable,
   between `StackLayout` and `DeadOperations`, so that one run leads from the lifted
   function to the text.
5. *Sub-registers* (`SubRegisterMap.cpp`, `SubRegisterSSA.cpp`) composed with
   `RegisterSSARename`.
6. *Canonical requests* (`CanonicalRequest.cpp`): validation, the order of setters on
   `HelixEngine`, three output files.
7. *The lifter* (`RemillToHelixLow.cpp`): a block of reads, writes and branches of the
   machine's state, without the patterns of single instructions.

Theorems to add: the laws of `TypeArbitration` (proved for evidence) for parameters too; a failed trial changes nothing (1); parallel copies are correct
for any emitter that snapshots first (2), stated once and used by `ScfBridge`;
lattice laws (3). Weaker properties of the present modules make room for those of
new ones, so that a reader always finds the few that matter.

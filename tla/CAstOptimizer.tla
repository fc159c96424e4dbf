---------------------------- MODULE CAstOptimizer ----------------------------
(***************************************************************************)
(* The C-AST of a function, from its operations to what is printed: dead   *)
(* ones are removed (see DeadOperations), the builder makes the tree (see  *)
(* CAstBuilder), then optimizeWithObserver of                              *)
(* src/engine/src/cast/CAstOptimizer.cpp runs one pass after the other in  *)
(* the production order, each rewriting the tree the one before left.      *)
(* A run may also begin at the builder, or with a tree that is built.  No  *)
(* pass checks what it did, and nothing downstream can: what is printed is *)
(* what the last pass left.                                                *)
(*                                                                         *)
(* A function is its parameters, its locals, the locals declared with a    *)
(* zero and those declared because the body names them, the variables      *)
(* whose definitions no pass may take, its body, whether a jump of it was  *)
(* dropped, and what the engine says of its quality.                       *)
(***************************************************************************)
EXTENDS StackLayout
CONSTANTS Functions,    \* trees that are built, of the shapes the passes are for
          Operations,   \* functions that are not: what the lowering may leave
          Lifted,       \* functions whose dead operations are still there
          Framed,       \* functions whose frame is still memory
          Printable,    \* any trees the printer has to print
          Inputs,       \* the arguments a function is called with
          Answers,      \* what the functions it calls return
          Fuel,         \* jumps and iterations one call may make
          PassedOnStack,\* parameter -> its value, if a caller puts it on the stack
          StackHome,    \* convention -> parameter -> its place above the return address
          CodeBase      \* what a code address lacks when its upper half is gone

VARIABLES fn,     \* the function as the last pass left it
          step,   \* the passes that have run
          text    \* what is printed, as soon as it is
vars == <<fn, step, text>>

\* calls that are bookkeeping, the comparison of the stack cookie included
Silent == FlagCalls \cup PostCalls \cup {"__security_check_cookie"}

\* a call through a number, or through a table, calls the function behind it
Callee(f) ==
  LET behind == {g \in DOMAIN Indirect : Indirect[g] = f} \cup
                {g \in DOMAIN Virtual : Virtual[g] = f}
  IN IF behind = {} THEN NativeName(f) ELSE CHOOSE g \in behind : TRUE
M == INSTANCE CAstMeaning WITH NativeName <- Callee

P == INSTANCE CAstPrinter

Same(e) == e
Dissolve         == INSTANCE CAstWalk WITH Here <- DissolveDispatchersHere, Node <- Same
SelfAssignments  == INSTANCE CAstWalk WITH Here <- RemoveSelfAssignmentsHere, Node <- Same
NullStores       == INSTANCE CAstWalk WITH Here <- EliminateNullStoresHere, Node <- Same
Simplify         == INSTANCE CAstWalk WITH Here <- SimplifyHere, Node <- Same
Compounds        == INSTANCE CAstWalk WITH Here <- CompoundHere, Node <- Same
ConstBranches    == INSTANCE CAstWalk WITH Here <- EliminateConstBranchesHere, Node <- Same
IdenticalArms    == INSTANCE CAstWalk WITH Here <- FoldIdenticalNestedSCFArmsHere, Node <- Same
EmptyIfs         == INSTANCE CAstWalk WITH Here <- RemoveEmptyIfsHere, Node <- Same
MinMax           == INSTANCE CAstWalk WITH Here <- CollapseMinMaxHere, Node <- Same
RedundantReturns == INSTANCE CAstWalk WITH Here <- FoldRedundantReturnHere, Node <- Same
InvertedIfs      == INSTANCE CAstWalk WITH Here <- InvertEmptyIfHere, Node <- Same
Polarity         == INSTANCE CAstWalk WITH Here <- SimplifyConditionPolarityHere, Node <- Same
Degenerate       == INSTANCE CAstWalk WITH Here <- FoldDegenerateCompoundsHere, Node <- Same
DeadCalls        == INSTANCE CAstWalk WITH Here <- DowngradeDeadAssignedCallsHere, Node <- Same
DeadCode         == INSTANCE CAstWalk WITH Here <- RemoveDeadAfterReturnHere, Node <- Same
OneShotLoops     == INSTANCE CAstWalk WITH Here <- UnwrapTrivialDoWhileHere, Node <- Same
Returns          == INSTANCE CAstWalk WITH Here <- CollapseAssignBeforeReturnHere, Node <- Same
Infrastructure   == INSTANCE CAstWalk WITH Here <- FilterStatementsHere, Node <- Same
NativeOpcodes    == INSTANCE CAstWalk WITH Here <- DecomposeNativeHere, Node <- Same
XorPatterns      == INSTANCE CAstWalk WITH Here <- Same, Node <- XorNode
FieldAccess      == INSTANCE CAstWalk WITH Here <- Same, Node <- FieldNode
RedundantCasts   == INSTANCE CAstWalk WITH Here <- StripRedundantCastsHere, Node <- Same
FloatZeros       == INSTANCE CAstWalk WITH Here <- CleanupFloatZerosHere, Node <- Same
Duplicates       == INSTANCE CAstWalk WITH Here <- RemoveDuplicatesHere, Node <- Same

Schedule ==
  << "RecoverStackLayout", "BindReturnValues", "EliminateDeadCode", "MemorySlotPilot",
     "buildFunction", "dissolveExitDispatchers", "removeDanglingGotos", "coalesceSelectorChains",
     "eliminateDeadSelectorStores", "foldBooleanExitSelectors",
     "removePrologueEpilogue", "eliminateInfrastructure",
     "eliminateNullPtrStores", "recognizeStackCanary", "inferSemanticNames",
     "renameRemainingRegisterVars", "decomposeNativeOpcodes",
     "eliminateDeadStores", "propagateCopies", "canonicalizeXorPatterns",
     "recoverStructFieldAccess", "simplifyExpressions",
     "eliminateRedundantCasts", "synthesizeCompoundAssign",
     "eliminateConstantBranches", "foldIdenticalNestedSCFArms",
     "removeEmptyIfStatements", "cleanupFloatZeros", "collapseMinMaxPatterns",
     "foldRedundantReturnAfterElse", "invertEmptyIfThen",
     "simplifyConditionPolarity", "foldDegenerateCompounds",
     "downgradeDeadAssignedCalls", "eliminateInfrastructure",
     "declareUndeclaredVars", "removeSelfAssignments", "removeDanglingGotos",
     "removeDeadCodeAfterReturn", "removeEmptyIfStatements",
     "unwrapTrivialDoWhile", "cleanupParameterSSASuffixes",
     "resolveFramePointerLeaks", "removeAdjacentDuplicateStmts",
     "removeDeadStoresBeforeReturn", "collapseAssignBeforeReturn",
     "initializeReadBeforeWriteVars", "removeNullDerefPlaceholderStores",
     "removeUnreachableAfterFirstReturn", "removeGloballyDeadStores",
     "coalesceSelectorChains", "removeSelfAssignments",
     "removeGloballyDeadStores", "foldIdenticalNestedSCFArms",
     "removeEmptyIfStatements", "removeGloballyDeadStores",
     "foldIdenticalNestedSCFArms", "removeEmptyIfStatements",
     "invertEmptyIfThen", "simplifyConditionPolarity",
     "foldBooleanExitSelectors", "removeEmptyIfStatements",
     "removeUnusedDeclarations", "reanalyzeConfidence" >>

\* what a pass makes of a statement list
Rewritten(pass, body) ==
  CASE pass = "dissolveExitDispatchers"      -> Dissolve!Pass(body)
    [] pass = "eliminateDeadSelectorStores"  -> EliminateDeadSelectorStores(body)
    [] pass = "foldBooleanExitSelectors"     -> FoldBooleanExitSelectors(body)
    [] pass = "removePrologueEpilogue"       -> RemovePrologueEpilogue(body)
    [] pass = "eliminateInfrastructure"      -> Infrastructure!Pass(body)
    [] pass = "decomposeNativeOpcodes"       -> NativeOpcodes!Pass(body)
    [] pass = "canonicalizeXorPatterns"      -> XorPatterns!Rewrite(body)
    [] pass = "recoverStructFieldAccess"     -> FieldAccess!Rewrite(body)
    [] pass = "eliminateRedundantCasts"      -> RedundantCasts!Pass(body)
    [] pass = "cleanupFloatZeros"            -> FloatZeros!Pass(body)
    [] pass = "removeAdjacentDuplicateStmts" -> Duplicates!Pass(body)
    [] pass = "propagateCopies"              -> PropagateCopies(body)
    [] pass = "simplifyExpressions"          -> Simplify!Pass(body)
    [] pass = "synthesizeCompoundAssign"     -> Compounds!Pass(body)
    [] pass = "eliminateConstantBranches"    -> ConstBranches!Pass(body)
    [] pass = "foldIdenticalNestedSCFArms"   -> IdenticalArms!Pass(body)
    [] pass = "removeEmptyIfStatements"      -> EmptyIfs!Pass(body)
    [] pass = "collapseMinMaxPatterns"       -> MinMax!Pass(body)
    [] pass = "foldRedundantReturnAfterElse" -> RedundantReturns!Pass(body)
    [] pass = "invertEmptyIfThen"            -> InvertedIfs!Pass(body)
    [] pass = "simplifyConditionPolarity"    -> Polarity!Pass(body)
    [] pass = "foldDegenerateCompounds"      -> Degenerate!Pass(body)
    [] pass = "downgradeDeadAssignedCalls"   -> DeadCalls!Pass(body)
    [] pass = "removeSelfAssignments"        -> SelfAssignments!Pass(body)
    [] pass = "removeDeadCodeAfterReturn"    -> DeadCode!Pass(body)
    [] pass = "unwrapTrivialDoWhile"         -> OneShotLoops!Pass(body)
    [] pass = "removeDeadStoresBeforeReturn" -> RemoveDeadStoresBeforeReturn(body)
    [] pass = "collapseAssignBeforeReturn"   -> Returns!Pass(body)
    [] pass = "removeUnreachableAfterFirstReturn" ->
         RemoveUnreachableAfterFirstReturn(body)
    [] pass = "removeGloballyDeadStores"     -> RemoveGloballyDeadStores(body)

\* the passes that change declarations, or need them, and the others
Optimized(pass, f) ==
  CASE pass = "RecoverStackLayout"          -> RecoverStackLayout(f)
    [] pass = "BindReturnValues"            -> BindReturnValues(f)
    [] pass = "EliminateDeadCode"           -> EliminateDeadCode(f)
    [] pass = "MemorySlotPilot"             -> MemorySlotPilot(f)
    [] pass = "buildFunction"               -> BuildFunction(f)
    [] pass = "removeDanglingGotos"         -> RemoveDanglingGotos(f)
    [] pass = "coalesceSelectorChains"      -> CoalesceSelectorChains(f)
    [] pass = "eliminateNullPtrStores"      ->
         [f EXCEPT !.body = NullStores!Pass(@),
                   !.locals = SelectSeq(@, LAMBDA n : n \notin Promoted)]
    [] pass = "recognizeStackCanary"        -> RecognizeStackCanary(f)
    [] pass = "eliminateDeadStores"         ->
         [f EXCEPT !.body = EliminateDeadStores(@, f.protected)]
    [] pass = "resolveFramePointerLeaks"    -> ResolveFramePointerLeaks(f)
    [] pass = "inferSemanticNames"          -> InferSemanticNames(f)
    [] pass = "renameRemainingRegisterVars" -> RenameRemainingRegisterVars(f)
    [] pass = "declareUndeclaredVars"       -> DeclareUndeclaredVars(f)
    [] pass = "cleanupParameterSSASuffixes" -> CleanupParameterSSASuffixes(f)
    [] pass = "initializeReadBeforeWriteVars" ->
         [f EXCEPT !.zero = @ \cup ReadBeforeWrite(f)]
    [] pass = "removeNullDerefPlaceholderStores" ->
         [f EXCEPT !.body = RemoveNullDerefPlaceholderStores(f)]
    [] pass = "removeUnusedDeclarations"    -> RemoveUnusedDeclarations(f)
    [] pass = "reanalyzeConfidence"         -> ReanalyzeConfidence(f)
    [] OTHER -> [f EXCEPT !.body = Rewritten(pass, @)]

-----------------------------------------------------------------------------
\* the steps before there is a tree
BuilderStep == 5

Init == /\ text = <<>>
        /\ \/ fn \in Framed /\ step = 0
           \/ fn \in Lifted /\ step = 1
           \/ fn \in Operations /\ step = BuilderStep - 1
           \/ fn \in Functions /\ step = BuilderStep
           \/ fn \in Printable /\ step = Len(Schedule)

\* the passes before the builder, buildFunction, and then run(name, pass)
Run == /\ step < Len(Schedule)
       /\ fn' = Optimized(Schedule[step + 1], fn)
       /\ step' = step + 1
       /\ UNCHANGED text

\* CAstPrinter::print, after the last pass
Write == /\ step = Len(Schedule)
         /\ text = <<>>
         /\ text' = P!PrintFunction(fn)
         /\ UNCHANGED <<fn, step>>

Next == Run \/ Write
Spec == Init /\ [][Next]_vars

-----------------------------------------------------------------------------
TypeOK ==
  /\ step \in 0 .. Len(Schedule)
  /\ DOMAIN fn = {"params", "locals", "zero", "synthesized", "protected", "body",
                  "droppedDanglingGoto", "defects", "outOfTableCalls",
                  "confidenceScore", "source"}
  /\ fn.droppedDanglingGoto \in BOOLEAN
  /\ fn.confidenceScore \in 0 .. 10000
  /\ fn.zero \subseteq Declared(fn) \/ step >= Len(Schedule) - 1
  /\ \A i, j \in DOMAIN fn.locals : fn.locals[i] = fn.locals[j] => i = j

\* Whatever the function is called with, and whatever the functions it calls
\* return, a pass leaves the calls it makes, the memory it writes and the
\* value it returns as they were: no pass drops a store that is read, moves a
\* read over a write, merges two variables that are both live or loses a path.
\* Removing dead operations and building the tree are steps, too.  The exceptions are the pass that
\* drops a jump to nowhere and says so, and a build that says it cannot be trusted.
MeaningKept ==
  [][\/ fn'.body = fn.body
     \/ fn'.droppedDanglingGoto /\ Schedule[step + 1] = "removeDanglingGotos"
     \/ step' = BuilderStep /\ "hasDamningHonestyDefect" \in fn'.defects
     \/ \A args \in Inputs, answers \in Answers :
          M!Keeps(M!Observed(fn, args, answers), M!Observed(fn', args, answers))
    ]_vars

\* A store that eliminateDeadStores removes is not needed: its comment says the
\* sets of live variables it starts from err in the safe direction only.
RemovedStoresAreDead ==
  [][Schedule[step + 1] = "eliminateDeadStores" =>
       \A args \in Inputs, answers \in Answers :
         M!Keeps(M!Observed(fn, args, answers), M!Observed(fn', args, answers))
    ]_vars

\* What is printed is C and says what the tree says: read by the rules of C, the
\* text is the function again, but for the expressions the printer is known to
\* misprint; the variables of the body are declared, and every jump has its label,
\* whatever lists and declarations the passes took away.
PrintsAsC ==
  [][text' # text => /\ P!ReadsBack(text', fn)
                     /\ NamesIn(fn.body) \subseteq Declared(fn) \cup DOMAIN CodeLabels
                     /\ GotosIn(fn.body) \subseteq LabelsIn(fn.body)]_vars

\* A score above one half is only given to a function that lost no jump, never
\* returns a local that nothing gave a value, and reads none that nothing in it
\* assigns; nor does it access memory through null whatever it is called with.
\* In a body with jumps or switches only a returned local that nothing assigns
\* is asked for, because only that is looked for there.
ScoreIsHonest ==
  [][step' # step /\ step' \in {BuilderStep, Len(Schedule)} /\ fn'.confidenceScore > 5000 =>
     LET indirect == AddressTaken(fn'.body)
         structured == SupportsDefiniteAssignmentScan(fn'.body)
         maybeSet == indirect \cup SetIn(fn'.body)
         runs == {M!Ran(fn', args, answers) : args \in Inputs, answers \in Answers}
     IN /\ ~fn'.droppedDanglingGoto
        /\ \A r \in runs :
             /\ r.lost \subseteq (IF structured THEN indirect ELSE maybeSet)
             /\ structured => r.blank \cap (PointerNames \cup NumberNames) \subseteq maybeSet
        /\ structured => \E r \in runs : r.sig # "undefined"
    ]_vars

\* What is printed names no machine register.
NoRegisterShown ==
  step = Len(Schedule) => NamesIn(fn.body) \cap Registers = {}
=============================================================================

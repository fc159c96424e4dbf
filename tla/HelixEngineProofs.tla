--------------------------- MODULE HelixEngineProofs ---------------------------
(* Invariants of the engine session, for every set of IR texts, addresses,     *)
(* sections, names and passes.                                                 *)
EXTENDS HelixEngine, TLAPS

(* Every setter, as one fact: a case split for the proofs below. *)
Setter == \/ \E b \in BOOLEAN : SetSkipOptimization(b)
          \/ \E b \in BOOLEAN : SetPreserveCfg(b)
          \/ \E b \in BOOLEAN : SetUseCastLayer(b)
          \/ \E name \in Nightly \cup {UnknownPass} : EnablePass(name)
          \/ \E old \in OldNames, new \in NewNames : AddVariableRename(old, new)
          \/ ClearVariableRenames
          \/ \E table \in StartTables : SetFunctionStarts(table)
          \/ \E json \in Debug : SetDebugTypeInfoJson(json)
          \/ \E section \in CallerSections : AddDataSection(section)
          \/ ClearDataSections

LEMMA ConfigureIsSetter == Configure <=> Setter
  BY DEF Configure, Setter

LEMMA FreshPipeTyped == \A b \in BOOLEAN : FreshPipe(b) \in PipeOptions
  BY DEF FreshPipe, PipeOptions, NoRenames, Renaming, Debug

LEMMA FailedTyped ==
  \A s \in Status, n \in Nat : Failed(s, n) \in OutcomeRecord
  BY DEF Failed, OutcomeRecord, Products

LEMMA TakenTyped ==
  \A o \in OutcomeRecord : Taken(o) \in OutcomeRecord
  BY DEF Taken, OutcomeRecord, Products

LEMMA NoCallTyped == NoCall \in RunRecord /\ NoCall.stage = "idle"
  BY DEF NoCall, RunRecord, Stages, Apis, Debug, Products

LEMMA ViewTyped == \A q \in Seq(Section) : View(q) \in [Addr -> Bytes \cup {NoBytes}]
<1> SUFFICES ASSUME NEW q \in Seq(Section), NEW a \in Addr
             PROVE  View(q)[a] \in Bytes \cup {NoBytes}
  BY DEF View
<1> DEFINE first == {i \in DOMAIN q :
                       /\ a \in q[i].span
                       /\ \A j \in 1..(i-1) : a \notin q[j].span}
<1>1. CASE first = {}
  BY <1>1 DEF View
<1>2. CASE first # {}
  <2>1. PICK i \in first : i = CHOOSE k \in first : TRUE
    BY <1>2
  <2>2. i \in DOMAIN q
    OBVIOUS
  <2>3. q[i] \in Section
    BY <2>2
  <2>4. q[i].bytes \in Bytes
    BY <2>3 DEF Section
  <2> QED
    BY <1>2, <2>1, <2>4 DEF View
<1> QED
  BY <1>1, <1>2

(* The products are typed because what they are made from is.                *)
LEMMA MadeTyped ==
  ASSUME TypeOK, built, ~Idle, NEW b \in BOOLEAN, NEW r \in Renaming
  PROVE  MadeWith(b, r) \in Products
<1>1. View(engine.sections) \in [Addr -> Bytes \cup {NoBytes}]
  BY ViewTyped DEF TypeOK, EngineRecord
<1>2. manager \in PassOptions
  BY DEF TypeOK, built
<1>3. run.ir \in Ir /\ run.starts \in SUBSET Addr /\ run.debug \in Debug
  BY DEF TypeOK, RunRecord
<1> QED
  BY <1>1, <1>2, <1>3 DEF MadeWith, Made, Products

-----------------------------------------------------------------------------
(* Types.                                                                    *)

LEMMA InitTyped == Init => TypeOK
<1> SUFFICES ASSUME Init PROVE TypeOK
  OBVIOUS
<1>1. pipe \in PipeOptions
  BY FreshPipeTyped DEF Init
<1>2. engine \in EngineRecord
  BY DEF Init, EngineRecord, Debug, Errors
<1>3. run \in RunRecord /\ Idle
  BY NoCallTyped DEF Init, Idle
<1>4. outcome \in OutcomeRecord
  BY DEF Init, OutcomeRecord, Status, Products
<1> QED
  BY <1>1, <1>2, <1>3, <1>4 DEF TypeOK, Init, Idle

LEMMA SetterTyped == TypeOK /\ Setter => TypeOK'
<1> SUFFICES ASSUME TypeOK, Setter PROVE TypeOK'
  OBVIOUS
<1>1. Configuring
  BY DEF Setter, SetSkipOptimization, SetPreserveCfg, SetUseCastLayer,
         EnablePass, AddVariableRename, ClearVariableRenames,
         SetFunctionStarts, SetDebugTypeInfoJson, AddDataSection,
         ClearDataSections
<1>2. /\ run' \in RunRecord /\ Idle' /\ run'.stage = "idle"
      /\ outcome' \in OutcomeRecord
  BY <1>1, TakenTyped DEF Configuring, Idle, TypeOK
<1> USE DEF TypeOK
<1>3. CASE \E b \in BOOLEAN : SetSkipOptimization(b)
  <2>1. PICK b \in BOOLEAN : SetSkipOptimization(b)
    BY <1>3
  <2>2. pipe' \in PipeOptions
    BY <2>1, FreshPipeTyped DEF SetSkipOptimization, PipeOptions, EngineRecord
  <2> QED
    BY <2>1, <2>2, <1>2 DEF SetSkipOptimization
<1>4. CASE \E b \in BOOLEAN : SetPreserveCfg(b)
  BY <1>4, <1>2 DEF SetPreserveCfg, PipeOptions, EngineRecord
<1>5. CASE \E b \in BOOLEAN : SetUseCastLayer(b)
  BY <1>5, <1>2 DEF SetUseCastLayer, PipeOptions
<1>6. CASE \E name \in Nightly \cup {UnknownPass} : EnablePass(name)
  BY <1>6, <1>2 DEF EnablePass, PipeOptions
<1>7. CASE \E old \in OldNames, new \in NewNames : AddVariableRename(old, new)
  BY <1>7, <1>2 DEF AddVariableRename, PipeOptions, Renaming
<1>8. CASE ClearVariableRenames
  BY <1>8, <1>2 DEF ClearVariableRenames, PipeOptions, Renaming, NoRenames
<1>9. CASE \E table \in StartTables : SetFunctionStarts(table)
  <2>1. PICK table \in StartTables : SetFunctionStarts(table)
    BY <1>9
  <2>2. table \in SUBSET Addr
    BY SectionsTyped
  <2>3. pipe' \in PipeOptions
    BY <2>1, <2>2 DEF SetFunctionStarts, PipeOptions
  <2> QED
    BY <2>1, <2>3, <1>2 DEF SetFunctionStarts
<1>10. CASE \E json \in Debug : SetDebugTypeInfoJson(json)
  BY <1>10, <1>2 DEF SetDebugTypeInfoJson, PipeOptions, EngineRecord
<1>11. CASE \E section \in CallerSections : AddDataSection(section)
  <2>1. PICK section \in CallerSections : AddDataSection(section)
    BY <1>11
  <2>2. section \in Section /\ engine.sections \in Seq(Section)
    BY <2>1, SectionsTyped DEF EngineRecord
  <2>3. Append(engine.sections, section) \in Seq(Section)
    BY <2>2
  <2>4. engine' \in EngineRecord
    BY <2>1, <2>3 DEF AddDataSection, EngineRecord
  <2> QED
    BY <2>1, <2>4, <1>2 DEF AddDataSection
<1>12. CASE ClearDataSections
  <2>0. <<>> \in Seq(Section)
    OBVIOUS
  <2>1. engine' \in EngineRecord
    BY <1>12, <2>0 DEF ClearDataSections, EngineRecord
  <2> QED
    BY <1>12, <2>1, <1>2 DEF ClearDataSections
<1> QED
  BY <1>3, <1>4, <1>5, <1>6, <1>7, <1>8, <1>9, <1>10, <1>11, <1>12 DEF Setter

LEMMA CallTyped == TypeOK /\ Call => TypeOK'
<1> SUFFICES ASSUME TypeOK, Call PROVE TypeOK'
  OBVIOUS
<1> USE DEF TypeOK
<1>1. CASE RefuseCall
  BY <1>1, FailedTyped DEF RefuseCall, EngineRecord, Errors, Status, Idle
<1>2. CASE \E valid \in BOOLEAN : DecompileBinary(valid)
  BY <1>2, FailedTyped DEF DecompileBinary, EngineRecord, Errors, Status, Idle
<1>3. CASE \E api \in Apis, ir \in Ir, cap \in Capacities :
             Decompile(api, ir, cap)
  <2>1. PICK api \in Apis, ir \in Ir, cap \in Capacities :
               Decompile(api, ir, cap)
    BY <1>3
  <2>2. engine.sections \in Seq(Section) /\ StringsOf[ir] \in Seq(Section)
    BY SectionsTyped DEF EngineRecord
  <2>3. engine.sections \o StringsOf[ir] \in Seq(Section)
    BY <2>2
  <2>4. engine' \in EngineRecord
    BY <2>1, <2>3 DEF Decompile, EngineRecord
  <2>5. run' \in RunRecord /\ run'.ir \in Ir
    BY <2>1, NoCallTyped DEF Decompile, RunRecord, NoCall, Stages
  <2> QED
    BY <2>1, <2>4, <2>5 DEF Decompile
<1> QED
  BY <1>1, <1>2, <1>3 DEF Call

LEMMA WorkTyped == TypeOK /\ Work => TypeOK'
<1> SUFFICES ASSUME TypeOK, Work PROVE TypeOK'
  OBVIOUS
<1> USE DEF TypeOK
<1>0. run.cap \in Nat
  BY SizesAreNat, 0 \in Nat DEF RunRecord
<1>1. CASE StageFails
  <2>1. outcome' \in OutcomeRecord
    BY <1>1, <1>0, FailedTyped DEF StageFails, Status
  <2>2. engine' \in EngineRecord
    BY <1>1 DEF StageFails, EngineRecord, Errors
  <2> QED
    BY <1>1, <2>1, <2>2, NoCallTyped DEF StageFails, Idle
<1>2. CASE ParseLLVMIR
  BY <1>2 DEF ParseLLVMIR, RunRecord, Stages, Idle
<1>3. CASE TranslateToMLIR
  <2>1. pipe.starts \cup StartsOf[run.ir] \in SUBSET Addr /\ pipe.debug \in Debug
    BY <1>3, SectionsTyped DEF TranslateToMLIR, PipeOptions, Idle
  <2>2. run' \in RunRecord /\ run'.stage = "passes" /\ run'.ir = run.ir
    BY <1>3, <2>1 DEF TranslateToMLIR, RunRecord, Stages
  <2> QED
    BY <1>3, <2>2 DEF TranslateToMLIR, Idle
<1>4. CASE EnsurePipelineBuilt
  <2>1. manager' \in PassOptions
    BY <1>4 DEF EnsurePipelineBuilt, PassOptionsOf, PassOptions, PipeOptions
  <2> QED
    BY <1>4, <2>1 DEF EnsurePipelineBuilt, Idle, built
<1>5. CASE RunPasses
  BY <1>5 DEF RunPasses, RunRecord, Stages, Idle, built
<1>6. CASE EmitPseudoC
  <2>1. NoRenames \in Renaming /\ pipe.renames \in Renaming /\ pipe.useCast \in BOOLEAN
    BY DEF NoRenames, Renaming, PipeOptions
  <2>2. ~Idle /\ built
    BY <1>6 DEF EmitPseudoC, Idle
  <2>3. MadeWith(pipe.useCast, IF pipe.useCast THEN pipe.renames
                                               ELSE NoRenames) \in Products
    BY <2>1, <2>2, MadeTyped
  <2>4. run' \in RunRecord /\ run'.stage = "emitHast" /\ run'.ir = run.ir
    BY <1>6, <2>3 DEF EmitPseudoC, RunRecord, Stages
  <2> QED
    BY <1>6, <2>2, <2>4 DEF EmitPseudoC, Idle, built
<1>7. CASE EmitFlatBuffer
  <2>1. pipe.renames \in Renaming /\ ~Idle /\ built
    BY <1>7 DEF EmitFlatBuffer, Idle, PipeOptions
  <2>2. MadeWith(TRUE, pipe.renames) \in Products
    BY <2>1, MadeTyped
  <2>3. run' \in RunRecord /\ run'.stage = "deliver" /\ run'.ir = run.ir
    BY <1>7, <2>2 DEF EmitFlatBuffer, RunRecord, Stages
  <2> QED
    BY <1>7, <2>1, <2>3 DEF EmitFlatBuffer, Idle, built
<1>8. CASE Deliver
  <2>1. Needed(run.api, run.ir) \in Nat
    BY <1>8, SizesAreNat DEF Deliver, Needed, Idle
  <2>2. run.text \in Products /\ run.hast \in Products /\ Nothing \in Products
    BY DEF RunRecord, Products
  <2>3. outcome' \in OutcomeRecord
    BY <1>8, <2>1, <2>2, FailedTyped DEF Deliver, OutcomeRecord, Status
  <2>4. engine' \in EngineRecord
    BY <1>8 DEF Deliver, EngineRecord, Errors
  <2> QED
    BY <1>8, <2>3, <2>4, NoCallTyped DEF Deliver, Idle
<1> QED
  BY <1>1, <1>2, <1>3, <1>4, <1>5, <1>6, <1>7, <1>8 DEF Work

(* Every reachable state of a session is well typed.                         *)
THEOREM TypeCorrect == Spec => []TypeOK
<1>1. TypeOK /\ [Next]_vars => TypeOK'
  <2> SUFFICES ASSUME TypeOK, [Next]_vars PROVE TypeOK'
    OBVIOUS
  <2>1. CASE UNCHANGED vars
    BY <2>1 DEF vars, TypeOK, Idle, built
  <2> QED
    BY <2>1, SetterTyped, CallTyped, WorkTyped, ConfigureIsSetter DEF Next
<1> QED
  BY <1>1, InitTyped, PTL DEF Spec

-----------------------------------------------------------------------------
(* Safety. The three facts below are inductive together with TypeOK.         *)

Safety == LoweredForEmitter /\ ChannelsSurviveRebuild
          /\ ProviderScoped /\ ErrorTellsOutcome

LEMMA SafetyInit == Init => Safety
<1> SUFFICES ASSUME Init PROVE Safety
  OBVIOUS
<1>1. ~built /\ Idle
  BY DEF Init, built, Idle, NoCall
<1> QED
  BY <1>1 DEF Init, Safety, LoweredForEmitter, ChannelsSurviveRebuild,
     ProviderScoped, ErrorTellsOutcome, FreshPipe, NoCall, Nothing

LEMMA SetterKeepsSafety == TypeOK /\ Safety /\ Setter => Safety'
<1> SUFFICES ASSUME TypeOK, Safety, Setter PROVE Safety'
  OBVIOUS
<1>1. Configuring
  BY DEF Setter, SetSkipOptimization, SetPreserveCfg, SetUseCastLayer,
         EnablePass, AddVariableRename, ClearVariableRenames,
         SetFunctionStarts, SetDebugTypeInfoJson, AddDataSection,
         ClearDataSections
<1>2. /\ Idle /\ Idle' /\ run.provider = FALSE /\ run'.provider = FALSE
      /\ outcome'.status = outcome.status
      /\ outcome'.text = Nothing /\ outcome'.hast = Nothing
  BY <1>1 DEF Configuring, Taken, Idle, Safety, ProviderScoped, TypeOK,
     OutcomeRecord
<1>3. pipe \in PipeOptions /\ engine \in EngineRecord
  BY DEF TypeOK
<1>4. engine'.lastError = engine.lastError
  BY <1>3 DEF Setter, SetSkipOptimization, SetPreserveCfg, SetUseCastLayer,
         EnablePass, AddVariableRename, ClearVariableRenames,
         SetFunctionStarts, SetDebugTypeInfoJson, AddDataSection,
         ClearDataSections, EngineRecord
<1>5. ProviderScoped' /\ ErrorTellsOutcome'
  BY <1>2, <1>4 DEF ProviderScoped, ErrorTellsOutcome, Safety
<1>6. ChannelsSurviveRebuild'
  BY <1>3 DEF Safety, ChannelsSurviveRebuild, Setter, SetSkipOptimization,
         SetPreserveCfg, SetUseCastLayer, EnablePass, AddVariableRename,
         ClearVariableRenames, SetFunctionStarts, SetDebugTypeInfoJson,
         AddDataSection, ClearDataSections, EngineRecord, PipeOptions, FreshPipe
<1>7. \/ ~built'
      \/ /\ manager' = manager
         /\ pipe'.useCast = pipe.useCast /\ pipe'.skip = pipe.skip
         /\ pipe'.preserve = pipe.preserve
  BY <1>3 DEF Setter, SetSkipOptimization, built,
         SetPreserveCfg, SetUseCastLayer, EnablePass, AddVariableRename,
         ClearVariableRenames, SetFunctionStarts, SetDebugTypeInfoJson,
         AddDataSection, ClearDataSections, PipeOptions
<1>8. LoweredForEmitter'
  BY <1>7 DEF LoweredForEmitter, Safety, built
<1> QED
  BY <1>5, <1>6, <1>8 DEF Safety

LEMMA CallKeepsSafety == TypeOK /\ Safety /\ Call => Safety'
<1> SUFFICES ASSUME TypeOK, Safety, Call PROVE Safety'
  OBVIOUS
<1>1. engine \in EngineRecord
  BY DEF TypeOK
<1>2. LoweredForEmitter' /\ ChannelsSurviveRebuild'
  BY <1>1 DEF Call, RefuseCall, DecompileBinary, Decompile, Safety, built,
     LoweredForEmitter, ChannelsSurviveRebuild, EngineRecord
<1>3. CASE RefuseCall
  BY <1>1, <1>2, <1>3 DEF RefuseCall, Safety, Failed, Idle, ProviderScoped,
     ErrorTellsOutcome, EngineRecord
<1>4. CASE \E valid \in BOOLEAN : DecompileBinary(valid)
  BY <1>1, <1>2, <1>4 DEF DecompileBinary, Safety, Failed, Idle, ProviderScoped,
     ErrorTellsOutcome, EngineRecord
<1>5. CASE \E api \in Apis, ir \in Ir, cap \in Capacities :
             Decompile(api, ir, cap)
  BY <1>1, <1>2, <1>5 DEF Decompile, Safety, NoCall, Idle, ProviderScoped,
     ErrorTellsOutcome, EngineRecord
<1> QED
  BY <1>3, <1>4, <1>5 DEF Call

LEMMA WorkKeepsSafety == TypeOK /\ Safety /\ Work => Safety'
<1> SUFFICES ASSUME TypeOK, Safety, Work PROVE Safety'
  OBVIOUS
<1>1. engine \in EngineRecord /\ run \in RunRecord
  BY DEF TypeOK
<1>2. LoweredForEmitter'
  BY DEF Work, StageFails, ParseLLVMIR, TranslateToMLIR, EnsurePipelineBuilt,
     RunPasses, EmitPseudoC, EmitFlatBuffer, Deliver, Safety, built,
     LoweredForEmitter, PassOptionsOf
<1>3. ChannelsSurviveRebuild'
  BY <1>1 DEF Work, StageFails, ParseLLVMIR, TranslateToMLIR,
     EnsurePipelineBuilt, RunPasses, EmitPseudoC, EmitFlatBuffer, Deliver,
     Safety, ChannelsSurviveRebuild, EngineRecord
<1>4. CASE StageFails
  BY <1>1, <1>2, <1>3, <1>4 DEF StageFails, Safety, Failed, NoCall, Idle,
     ProviderScoped, ErrorTellsOutcome, EngineRecord
<1>5. CASE Deliver
  <2>1. Idle' /\ run'.provider = FALSE /\ ProviderScoped'
    BY <1>5 DEF Deliver, NoCall, Idle, ProviderScoped
  <2>2. ErrorTellsOutcome'
    BY <1>1, <1>5 DEF Deliver, ErrorTellsOutcome, Failed, EngineRecord
  <2> QED
    BY <2>1, <2>2, <1>2, <1>3 DEF Safety
<1>6. CASE \/ ParseLLVMIR \/ TranslateToMLIR \/ EnsurePipelineBuilt
           \/ RunPasses \/ EmitPseudoC \/ EmitFlatBuffer
  <2>1. /\ ~Idle /\ ~Idle' /\ run'.provider = run.provider
        /\ engine' = engine
    BY <1>1, <1>6 DEF ParseLLVMIR, TranslateToMLIR, EnsurePipelineBuilt,
       RunPasses, EmitPseudoC, EmitFlatBuffer, Idle, RunRecord
  <2> QED
    BY <2>1, <1>2, <1>3 DEF Safety, ProviderScoped, ErrorTellsOutcome
<1> QED
  BY <1>4, <1>5, <1>6 DEF Work

LEMMA SafetyInvariant == Spec => [](TypeOK /\ Safety)
<1>1. TypeOK /\ Safety /\ [Next]_vars => Safety'
  <2> SUFFICES ASSUME TypeOK, Safety, [Next]_vars PROVE Safety'
    OBVIOUS
  <2>1. CASE UNCHANGED vars
    BY <2>1 DEF vars, Safety, LoweredForEmitter, ChannelsSurviveRebuild,
       ProviderScoped, ErrorTellsOutcome, Idle, built
  <2> QED
    BY <2>1, SetterKeepsSafety, CallKeepsSafety, WorkKeepsSafety,
       ConfigureIsSetter DEF Next
<1> QED
  BY <1>1, SafetyInit, TypeCorrect, PTL DEF Spec

(* No module is ever emitted by an emitter its pass manager was not built    *)
(* for, in whatever order options are set and calls are made.                *)
THEOREM LoweringFresh == Spec => []LoweredForEmitter
  BY SafetyInvariant, PTL DEF Safety

(* The scoped provider never outlives a call, and never misses in one.       *)
THEOREM ProviderNeverLeaks == Spec => []ProviderScoped
  BY SafetyInvariant, PTL DEF Safety

(* The error a caller reads is the error of its last call.                   *)
THEOREM ErrorIsCurrent == Spec => []ErrorTellsOutcome
  BY SafetyInvariant, PTL DEF Safety

(* CFG preservation and debug types outlive every pipeline object.           *)
THEOREM ChannelsKept == Spec => []ChannelsSurviveRebuild
  BY SafetyInvariant, PTL DEF Safety

-----------------------------------------------------------------------------
(* Refinement. What the stages have gathered so far is what the settings,    *)
(* which no stage changes, say.                                              *)

Gathered ==
    /\ run.stage \in {"passes", "emitC", "emitHast", "deliver"} =>
           /\ run.starts = pipe.starts \cup StartsOf[run.ir]
           /\ run.debug = pipe.debug
    /\ run.stage \in {"emitHast", "deliver"} =>
           run.text = MadeWith(pipe.useCast, IF pipe.useCast THEN pipe.renames
                                                             ELSE NoRenames)
    /\ run.stage = "deliver" => run.hast = MadeWith(TRUE, pipe.renames)

LEMMA GatheredStep == TypeOK /\ Gathered /\ [Next]_vars => Gathered'
<1> SUFFICES ASSUME TypeOK, Gathered, [Next]_vars PROVE Gathered'
  OBVIOUS
<1>1. run \in RunRecord
  BY DEF TypeOK
<1>2. CASE UNCHANGED vars
  BY <1>2 DEF vars, Gathered, MadeWith
<1>3. CASE Setter
  <2>1. run' = run /\ run.stage = "idle"
    BY <1>3 DEF Setter, SetSkipOptimization, SetPreserveCfg, SetUseCastLayer,
         EnablePass, AddVariableRename, ClearVariableRenames,
         SetFunctionStarts, SetDebugTypeInfoJson, AddDataSection,
         ClearDataSections, Configuring, Idle
  <2> QED
    BY <2>1 DEF Gathered
<1>4. CASE Call
  <2>1. run'.stage \in {"idle", "parse"}
    BY <1>4 DEF Call, RefuseCall, DecompileBinary, Decompile, Idle, NoCall
  <2> QED
    BY <2>1 DEF Gathered
<1>5. CASE StageFails \/ Deliver
  <2>1. run'.stage = "idle"
    BY <1>5 DEF StageFails, Deliver, NoCall
  <2> QED
    BY <2>1 DEF Gathered
<1>6. CASE ParseLLVMIR
  <2>1. run'.stage = "translate"
    BY <1>1, <1>6 DEF ParseLLVMIR, RunRecord
  <2> QED
    BY <2>1 DEF Gathered
<1>7. CASE TranslateToMLIR
  <2>1. /\ run'.stage = "passes" /\ run'.ir = run.ir /\ pipe' = pipe
        /\ run'.starts = pipe.starts \cup StartsOf[run.ir]
        /\ run'.debug = pipe.debug
    BY <1>1, <1>7 DEF TranslateToMLIR, RunRecord
  <2> QED
    BY <2>1 DEF Gathered
<1>8. CASE EnsurePipelineBuilt
  <2>1. run' = run /\ pipe' = pipe /\ run.stage = "passes"
    BY <1>8 DEF EnsurePipelineBuilt
  <2> QED
    BY <2>1 DEF Gathered
<1>9. CASE RunPasses
  <2>1. /\ run'.stage = "emitC" /\ run'.ir = run.ir /\ pipe' = pipe
        /\ run'.starts = run.starts /\ run'.debug = run.debug
        /\ run.stage = "passes"
    BY <1>1, <1>9 DEF RunPasses, RunRecord
  <2> QED
    BY <2>1 DEF Gathered
<1>10. CASE EmitPseudoC \/ EmitFlatBuffer
  <2>1. /\ run'.ir = run.ir /\ run'.starts = run.starts /\ run'.debug = run.debug
        /\ pipe' = pipe /\ manager' = manager /\ engine' = engine
    BY <1>1, <1>10 DEF EmitPseudoC, EmitFlatBuffer, RunRecord
  <2>2. ASSUME NEW b, NEW r
        PROVE  MadeWith(b, r)' = MadeWith(b, r)
    BY <2>1 DEF MadeWith
  <2>3. CASE EmitPseudoC
    BY <1>1, <2>1, <2>3 DEF EmitPseudoC, Gathered, MadeWith, RunRecord
  <2>4. CASE EmitFlatBuffer
    BY <1>1, <2>1, <2>4 DEF EmitFlatBuffer, Gathered, MadeWith, RunRecord
  <2> QED
    BY <1>10, <2>3, <2>4
<1> QED
  BY <1>2, <1>3, <1>4, <1>5, <1>6, <1>7, <1>8, <1>9, <1>10, ConfigureIsSetter
  DEF Next, Work

LEMMA GatheredInvariant == Spec => []Gathered
<1>1. Init => Gathered
  BY DEF Init, NoCall, Gathered
<1> QED
  BY <1>1, GatheredStep, TypeCorrect, PTL DEF Spec

(* The contract's copies of the shared definitions are the engine's own.     *)
LEMMA SharedDefinitions ==
  /\ Contract!NoRequest = NoRequest /\ Contract!NoRenames = NoRenames
  /\ Contract!Nothing = Nothing /\ Contract!PassOptions = PassOptions
  /\ Contract!Renaming = Renaming /\ Contract!Debug = Debug
  /\ Contract!Section = Section /\ Contract!Apis = Apis
  /\ Contract!Open = Open
  /\ \A b : Contract!FreshPipe(b) = FreshPipe(b)
  /\ \A p : Contract!PassOptionsOf(p) = PassOptionsOf(p)
  /\ \A o : Contract!Selected(o) = Selected(o)
  /\ \A s, n : Contract!Failed(s, n) = Failed(s, n)
  /\ \A o : Contract!Taken(o) = Taken(o)
  /\ \A q : Contract!View(q) = View(q)
  /\ \A api, ir : Contract!Needed(api, ir) = Needed(api, ir)
<1>1. /\ Contract!NoRequest = NoRequest /\ Contract!NoRenames = NoRenames
      /\ Contract!Nothing = Nothing /\ Contract!PassOptions = PassOptions
      /\ Contract!Renaming = Renaming /\ Contract!Debug = Debug
      /\ Contract!Section = Section /\ Contract!Apis = Apis
      /\ Contract!Open = Open
  BY DEF Contract!NoRequest, NoRequest, Contract!NoRenames, NoRenames,
     Contract!Nothing, Nothing, Contract!PassOptions, PassOptions,
     Contract!Renaming, Renaming, Contract!Debug, Debug, Contract!Section,
     Section, Contract!Apis, Apis, Contract!Open, Open
<1>2. \A b : Contract!FreshPipe(b) = FreshPipe(b)
  BY <1>1 DEF Contract!FreshPipe, FreshPipe
<1>3. \A p : Contract!PassOptionsOf(p) = PassOptionsOf(p)
  BY DEF Contract!PassOptionsOf, PassOptionsOf
<1>4. \A s, n : Contract!Failed(s, n) = Failed(s, n)
  BY <1>1 DEF Contract!Failed, Failed
<1>5. \A o : Contract!Taken(o) = Taken(o)
  BY <1>1 DEF Contract!Taken, Taken
<1>6. \A q : Contract!View(q) = View(q)
  BY DEF Contract!View, View
<1>7. \A api, ir : Contract!Needed(api, ir) = Needed(api, ir)
  BY DEF Contract!Needed, Needed
<1>8. \A o : Contract!Selected(o) = Selected(o)
  BY DEF Contract!Selected, Selected
<1> QED
  BY <1>1, <1>2, <1>3, <1>4, <1>5, <1>6, <1>7, <1>8

LEMMA ContractInit == Init => Contract!Init
<1> SUFFICES ASSUME Init PROVE Contract!Init
  OBVIOUS
<1>1. ~built /\ Idle
  BY DEF Init, built, Idle, NoCall
<1>2. outcome = Failed("never", 0)
  BY DEF Init, Failed
<1> QED
  BY <1>1, <1>2, SharedDefinitions DEF Init, Contract!Init, FreshPipe

(* The mapped variables, as the contract sees them. *)
Options == PassOptionsOf(pipe)
InForce == IF built THEN Selected(manager) ELSE Open
Busy == IF Idle THEN NoRequest
        ELSE [api |-> run.api, ir |-> run.ir, cap |-> run.cap]

LEMMA OptionsTyped == TypeOK => Options \in PassOptions
  BY DEF TypeOK, Options, PassOptionsOf, PassOptions, PipeOptions

(* Two sets of options that agree on every field are one.                    *)
LEMMA SameOptions ==
  ASSUME NEW o \in PassOptions, NEW p \in PassOptions,
         o.skip = p.skip, o.preserve = p.preserve, o.useCast = p.useCast,
         o.selective = p.selective, o.enabled = p.enabled
  PROVE  o = p
  BY DEF PassOptions

(* A selection is in force exactly while a pass manager is valid.            *)
LEMMA InForceWhenBuilt == InForce = Open <=> ~built
  BY DEF InForce, Open, Selected

(* A valid pass manager is the pipeline's options with its own selection.    *)
LEMMA ManagerIsLowered ==
  ASSUME TypeOK, LoweredForEmitter, built
  PROVE  manager = [Options EXCEPT !.selective = InForce.selective,
                                   !.enabled = InForce.enabled]
<1>1. manager \in PassOptions /\ pipe \in PipeOptions
  BY DEF TypeOK, built
<1>2. /\ InForce.selective = manager.selective
      /\ InForce.enabled = manager.enabled
  BY DEF InForce, Selected
<1>3. /\ Options \in PassOptions /\ Options.skip = manager.skip
      /\ Options.preserve = manager.preserve
      /\ Options.useCast = manager.useCast
  BY OptionsTyped DEF Options, PassOptionsOf, LoweredForEmitter
<1> DEFINE lowered == [Options EXCEPT !.selective = InForce.selective,
                                      !.enabled = InForce.enabled]
<1>4. /\ lowered \in PassOptions /\ lowered.skip = manager.skip
      /\ lowered.preserve = manager.preserve
      /\ lowered.useCast = manager.useCast
      /\ lowered.selective = manager.selective
      /\ lowered.enabled = manager.enabled
  BY <1>1, <1>2, <1>3 DEF PassOptions
<1> QED
  BY <1>1, <1>4, SameOptions

LEMMA BusyWhenNotIdle == TypeOK => (Busy = NoRequest <=> Idle)
  BY NamesDiffer DEF TypeOK, Busy, NoRequest

LEMMA SetterRefines ==
  TypeOK /\ TypeOK' /\ Safety /\ Setter => Contract!Next
<1> SUFFICES ASSUME TypeOK, TypeOK', Safety, Setter PROVE Contract!Next
  OBVIOUS
<1> USE SharedDefinitions
<1>1. Configuring
  BY DEF Setter, SetSkipOptimization, SetPreserveCfg, SetUseCastLayer,
         EnablePass, AddVariableRename, ClearVariableRenames,
         SetFunctionStarts, SetDebugTypeInfoJson, AddDataSection,
         ClearDataSections
<1>2. /\ Busy = NoRequest /\ Busy' = Busy /\ outcome' = Taken(outcome)
  BY <1>1 DEF Configuring, Busy, Idle
<1>3. /\ pipe \in PipeOptions /\ pipe' \in PipeOptions
      /\ engine \in EngineRecord
  BY DEF TypeOK
<1>4. Contract!Between
  BY <1>2 DEF Contract!Between, Busy
<1>5. CASE \E b \in BOOLEAN : SetSkipOptimization(b)
  <2>1. PICK b \in BOOLEAN : SetSkipOptimization(b)
    BY <1>5
  <2>2. /\ ~built' /\ engine' = engine
        /\ pipe' = [FreshPipe(b) EXCEPT !.preserve = engine.preserve,
                                        !.debug = engine.debug]
    BY <2>1 DEF SetSkipOptimization, built
  <2>3. Options.preserve = engine.preserve /\ pipe.debug = engine.debug
    BY DEF Safety, ChannelsSurviveRebuild, Options, PassOptionsOf
  <2>4. Options' = PassOptionsOf([FreshPipe(b) EXCEPT !.preserve = Options.preserve])
    BY <2>2, <2>3 DEF Options, PassOptionsOf, FreshPipe
  <2>5. /\ pipe'.renames = NoRenames /\ pipe'.starts = {}
        /\ pipe'.debug = pipe.debug
    BY <2>2, <2>3 DEF FreshPipe
  <2>6. InForce' = Open
    BY <2>2 DEF InForce
  <2>7. Contract!Reset(b)
    BY <2>2, <2>4, <2>5, <2>6, <1>4 DEF Contract!Reset, Options, InForce
  <2> QED
    BY <2>7 DEF Contract!Next
<1>6. CASE \E b \in BOOLEAN : SetPreserveCfg(b) \/ SetUseCastLayer(b)
  <2>1. /\ pipe'.renames = pipe.renames /\ pipe'.starts = pipe.starts
        /\ pipe'.debug = pipe.debug /\ engine'.sections = engine.sections
        /\ ~built'
    BY <1>3, <1>6 DEF SetPreserveCfg, SetUseCastLayer, PipeOptions,
       EngineRecord, built
  <2> DEFINE preserve == pipe'.preserve
             useCast == pipe'.useCast
  <2>2. /\ pipe'.skip = pipe.skip /\ pipe'.selective = pipe.selective
        /\ pipe'.enabled = pipe.enabled
        /\ preserve \in BOOLEAN /\ useCast \in BOOLEAN
    BY <1>3, <1>6 DEF SetPreserveCfg, SetUseCastLayer, PipeOptions
  <2> DEFINE set == [Options EXCEPT !.preserve = preserve, !.useCast = useCast]
  <2>3. /\ set \in PassOptions /\ set.skip = pipe.skip
        /\ set.preserve = preserve /\ set.useCast = useCast
        /\ set.selective = pipe.selective /\ set.enabled = pipe.enabled
    <3>1. /\ Options \in PassOptions /\ Options.skip = pipe.skip
          /\ Options.selective = pipe.selective
          /\ Options.enabled = pipe.enabled
      BY OptionsTyped DEF Options, PassOptionsOf
    <3> HIDE DEF preserve, useCast
    <3> QED
      BY <2>2, <3>1 DEF PassOptions
  <2>4. /\ Options' \in PassOptions /\ Options'.skip = pipe.skip
        /\ Options'.preserve = preserve /\ Options'.useCast = useCast
        /\ Options'.selective = pipe.selective
        /\ Options'.enabled = pipe.enabled
    BY <2>2, OptionsTyped, <1>3 DEF Options, PassOptionsOf, PassOptions,
       PipeOptions
  <2>5. Options' = [Options EXCEPT !.preserve = preserve, !.useCast = useCast]
    BY <2>3, <2>4, SameOptions
  <2>6. InForce' = Open
    BY <2>1 DEF InForce
  <2>7. Contract!SetLowering(preserve, useCast)
    BY <1>4, <2>1, <2>5, <2>6
    DEF Contract!SetLowering, Contract!channels, Options, InForce
  <2> QED
    BY <2>2, <2>7 DEF Contract!Next
<1>7. CASE \E name \in Nightly \cup {UnknownPass} : EnablePass(name)
  <2>1. PICK name \in Nightly \cup {UnknownPass} : EnablePass(name)
    BY <1>7
  <2> DEFINE names == {name} \cap Nightly
  <2>2. /\ pipe' = [pipe EXCEPT !.selective = TRUE, !.enabled = @ \cup names]
        /\ manager' = manager /\ engine' = engine
    BY <2>1 DEF EnablePass
  <2>3. /\ pipe'.skip = pipe.skip /\ pipe'.preserve = pipe.preserve
        /\ pipe'.useCast = pipe.useCast /\ pipe'.selective = TRUE
        /\ pipe'.enabled = pipe.enabled \cup names
    BY <1>3, <2>2 DEF PipeOptions
  <2> DEFINE set == [Options EXCEPT !.selective = TRUE, !.enabled = @ \cup names]
  <2>4. /\ set \in PassOptions /\ set.skip = pipe.skip
        /\ set.preserve = pipe.preserve /\ set.useCast = pipe.useCast
        /\ set.selective = TRUE /\ set.enabled = pipe.enabled \cup names
    <3>1. /\ Options \in PassOptions /\ Options.skip = pipe.skip
          /\ Options.preserve = pipe.preserve /\ Options.useCast = pipe.useCast
          /\ Options.enabled = pipe.enabled
      BY OptionsTyped DEF Options, PassOptionsOf
    <3>2. names \in SUBSET Nightly
      OBVIOUS
    <3> HIDE DEF names
    <3> QED
      BY <3>1, <3>2 DEF PassOptions
  <2>5. /\ Options' \in PassOptions /\ Options'.skip = pipe.skip
         /\ Options'.preserve = pipe.preserve
         /\ Options'.useCast = pipe.useCast /\ Options'.selective = TRUE
         /\ Options'.enabled = pipe.enabled \cup names
    BY <2>3, <1>3 DEF Options, PassOptionsOf, PassOptions, PipeOptions
  <2>6. Options' = [Options EXCEPT !.selective = TRUE, !.enabled = @ \cup names]
    BY <2>4, <2>5, SameOptions
  <2>7. /\ pipe'.renames = pipe.renames /\ pipe'.starts = pipe.starts
        /\ pipe'.debug = pipe.debug
    BY <1>3, <2>2 DEF PipeOptions
  <2>8. InForce' = InForce
    BY <2>2 DEF InForce, built
  <2>9. Contract!Select(names)
    BY <1>4, <2>2, <2>6, <2>7, <2>8
    DEF Contract!Select, Contract!channels, Options, InForce
  <2>10. names \in SUBSET Nightly
    OBVIOUS
  <2> QED
    BY <2>9, <2>10 DEF Contract!Next
<1>8. CASE \/ \E old \in OldNames, new \in NewNames : AddVariableRename(old, new)
           \/ ClearVariableRenames
           \/ \E table \in StartTables : SetFunctionStarts(table)
           \/ \E json \in Debug : SetDebugTypeInfoJson(json)
           \/ \E section \in CallerSections : AddDataSection(section)
           \/ ClearDataSections
  <2>1. /\ manager' = manager /\ PassOptionsOf(pipe)' = PassOptionsOf(pipe)
    BY <1>3, <1>8 DEF AddVariableRename, ClearVariableRenames,
       SetFunctionStarts, SetDebugTypeInfoJson, AddDataSection,
       ClearDataSections, PipeOptions, PassOptionsOf
  <2>2. Options' = Options /\ InForce' = InForce
    BY <2>1 DEF Options, InForce, built
  <2>3. \/ /\ pipe'.renames \in Renaming /\ pipe'.starts = pipe.starts
           /\ pipe'.debug = pipe.debug /\ engine'.sections = engine.sections
        \/ /\ pipe'.starts \in SUBSET Addr /\ pipe'.renames = pipe.renames
           /\ pipe'.debug = pipe.debug /\ engine'.sections = engine.sections
        \/ /\ pipe'.debug \in Debug /\ pipe'.renames = pipe.renames
           /\ pipe'.starts = pipe.starts /\ engine'.sections = engine.sections
        \/ /\ \/ engine'.sections = <<>>
              \/ \E x \in Section :
                     engine'.sections = Append(engine.sections, x)
           /\ pipe'.renames = pipe.renames /\ pipe'.starts = pipe.starts
           /\ pipe'.debug = pipe.debug
    <3>1. CASE \/ \E old \in OldNames, new \in NewNames : AddVariableRename(old, new)
               \/ ClearVariableRenames
      BY <1>3, <3>1 DEF AddVariableRename, ClearVariableRenames, PipeOptions
    <3>2. CASE \E table \in StartTables : SetFunctionStarts(table)
      BY <1>3, <3>2 DEF SetFunctionStarts, PipeOptions
    <3>3. CASE \E json \in Debug : SetDebugTypeInfoJson(json)
      BY <1>3, <3>3 DEF SetDebugTypeInfoJson, PipeOptions, EngineRecord
    <3>4. CASE \/ \E section \in CallerSections : AddDataSection(section)
               \/ ClearDataSections
      BY <1>3, <3>4, SectionsTyped DEF AddDataSection, ClearDataSections,
         EngineRecord
    <3> QED
      BY <1>8, <3>1, <3>2, <3>3, <3>4
  <2>4. Contract!SetChannel
    BY <1>4, <2>2, <2>3 DEF Contract!SetChannel, Options, InForce
  <2> QED
    BY <2>4 DEF Contract!Next
<1> QED
  BY <1>5, <1>6, <1>7, <1>8 DEF Setter

LEMMA CallRefines == TypeOK /\ TypeOK' /\ Call => Contract!Next
<1> SUFFICES ASSUME TypeOK, TypeOK', Call PROVE Contract!Next
  OBVIOUS
<1> USE SharedDefinitions
<1>1. /\ engine \in EngineRecord /\ Busy = NoRequest /\ pipe' = pipe
      /\ Options' = Options /\ InForce' = InForce
  BY DEF TypeOK, Call, RefuseCall, DecompileBinary, Decompile, Busy, Options,
     InForce, built
<1>2. CASE RefuseCall \/ \E valid \in BOOLEAN : DecompileBinary(valid)
  <2>1. /\ engine'.sections = engine.sections /\ Busy' = Busy
        /\ outcome' \in {Failed("invalid", 0), Failed("internal", 0)}
    BY <1>1, <1>2 DEF RefuseCall, DecompileBinary, EngineRecord, Busy, Idle
  <2>2. Contract!Refuse
    BY <1>1, <2>1 DEF Contract!Refuse, Contract!settings, Contract!channels,
       Options, InForce, Busy
  <2> QED
    BY <2>2 DEF Contract!Next
<1>3. CASE \E api \in Apis, ir \in Ir, cap \in Capacities :
             Decompile(api, ir, cap)
  <2>1. PICK api \in Apis, ir \in Ir, cap \in Capacities :
               Decompile(api, ir, cap)
    BY <1>3
  <2>2. /\ engine'.sections = engine.sections \o StringsOf[ir]
        /\ Busy' = [api |-> api, ir |-> ir, cap |-> cap]
        /\ outcome' = outcome
    BY <1>1, <2>1 DEF Decompile, EngineRecord, Busy, Idle, NoCall
  <2>3. Contract!Start(api, ir, cap)
    BY <1>1, <2>2 DEF Contract!Start, Options, InForce, Busy
  <2> QED
    BY <2>1, <2>3 DEF Contract!Next
<1> QED
  BY <1>2, <1>3 DEF Call

LEMMA WorkRefines ==
  TypeOK /\ TypeOK' /\ Safety /\ Gathered /\ Work
    => Contract!Next \/ UNCHANGED Contract!vars
<1> SUFFICES ASSUME TypeOK, TypeOK', Safety, Gathered, Work
             PROVE  Contract!Next \/ UNCHANGED Contract!vars
  OBVIOUS
<1> USE SharedDefinitions
<1>1. engine \in EngineRecord /\ run \in RunRecord /\ pipe' = pipe
  BY DEF TypeOK, Work, StageFails, ParseLLVMIR, TranslateToMLIR,
     EnsurePipelineBuilt, RunPasses, EmitPseudoC, EmitFlatBuffer, Deliver
<1>2. Options' = Options /\ engine'.sections = engine.sections
  BY <1>1 DEF Work, StageFails, ParseLLVMIR, TranslateToMLIR,
     EnsurePipelineBuilt, RunPasses, EmitPseudoC, EmitFlatBuffer, Deliver,
     EngineRecord, Options, PassOptionsOf
<1>3. CASE \/ ParseLLVMIR \/ TranslateToMLIR \/ RunPasses
           \/ EmitPseudoC \/ EmitFlatBuffer
  <2>1. Busy' = Busy /\ outcome' = outcome /\ InForce' = InForce
    BY <1>1, <1>3 DEF ParseLLVMIR, TranslateToMLIR, RunPasses, EmitPseudoC,
       EmitFlatBuffer, Busy, Idle, RunRecord, InForce, built
  <2> QED
    BY <1>1, <1>2, <2>1 DEF Contract!vars, Contract!settings,
       Contract!channels, Options, InForce, Busy
<1>4. CASE EnsurePipelineBuilt
  <2>1. Busy' = Busy /\ Busy # NoRequest /\ outcome' = outcome
    BY <1>4, BusyWhenNotIdle DEF EnsurePipelineBuilt, Busy, Idle
  <2>2. manager' = Options /\ ~built /\ built'
    BY <1>4 DEF EnsurePipelineBuilt, Options, built, TypeOK, PassOptionsOf,
       NotBuilt
  <2>3. InForce = Open /\ InForce' = Selected(Options)
    BY <2>2 DEF InForce, Selected
  <2>4. Contract!Fix
    BY <1>1, <1>2, <2>1, <2>3
    DEF Contract!Fix, Contract!channels, Options, InForce, Busy
  <2> QED
    BY <2>4 DEF Contract!Next
<1>5. CASE StageFails \/ Deliver
  <2>1. /\ Busy = [api |-> run.api, ir |-> run.ir, cap |-> run.cap]
        /\ Busy # NoRequest /\ Busy' = NoRequest
    BY <1>5, BusyWhenNotIdle DEF StageFails, Deliver, NoCall, Busy, Idle
  <2>2. UNCHANGED Contract!settings
    BY <1>1, <1>2, <1>5 DEF Contract!settings, Contract!channels, Options,
       InForce, StageFails, Deliver, built
  <2>3. CASE StageFails
    <3>1. outcome' = Failed("internal", Busy.cap)
      BY <2>1, <2>3 DEF StageFails
    <3> QED
      BY <2>1, <2>2, <3>1 DEF Contract!Next, Contract!Finish, Busy
  <2>4. CASE Deliver
    <3>1. run.stage = "deliver" /\ built /\ InForce # Open
      BY <2>4, InForceWhenBuilt DEF Deliver, TypeOK
    <3>2. pipe.useCast = Options.useCast
      BY DEF Options, PassOptionsOf
    <3>3. Contract!Lowered = manager
      BY <3>1, ManagerIsLowered DEF Contract!Lowered, Safety, Options, InForce
    <3> DEFINE Prod(b) ==
          [ir |-> run.ir, lowered |-> manager, emitCast |-> b,
           renames |-> IF b THEN pipe.renames ELSE NoRenames,
           starts |-> pipe.starts \cup StartsOf[run.ir], debug |-> pipe.debug,
           view |-> View(engine.sections)]
    <3>4. \A b : Contract!Product(b) = Prod(b)
      BY <2>1, <3>3 DEF Contract!Product, Busy
    <3>5. run.text = Prod(Options.useCast) /\ run.hast = Prod(TRUE)
      BY <3>1, <3>2 DEF Gathered, MadeWith
    <3>6. Contract!TooSmall <=>
            run.api # "combined" /\ run.cap < Needed(run.api, run.ir)
      BY <2>1 DEF Contract!TooSmall, Busy
    <3>7. Contract!Answer =
            [status |-> "ok",
             outLen |-> IF run.api = "combined" THEN 0
                        ELSE Needed(run.api, run.ir),
             text |-> IF run.api = "hast" THEN Nothing ELSE run.text,
             hast |-> IF run.api = "text" THEN Nothing ELSE run.hast]
      BY <2>1, <3>4, <3>5 DEF Contract!Answer, Options, Busy
    <3>8. run.cap \in Nat /\ Needed(run.api, run.ir) \in Nat
      <4>1. run.cap \in Capacities \cup {0} /\ run.ir \in Ir
        BY <1>1, <3>1 DEF RunRecord, TypeOK, Idle
      <4>2. TextSize[run.ir] \in Nat /\ HastSize[run.ir] \in Nat
        BY <4>1, SizesAreNat
      <4>3. run.cap \in Nat
        BY <4>1, SizesAreNat, Capacities \cup {0} \subseteq Nat
      <4> QED
        BY <4>2, <4>3 DEF Needed
    <3>9. \/ /\ Contract!TooSmall
             /\ outcome' = Failed("outOfMemory", Needed(run.api, run.ir))
          \/ ~Contract!TooSmall /\ outcome' = Contract!Answer
      BY <2>4, <3>6, <3>7, <3>8 DEF Deliver
    <3>10. Contract!Finish
      BY <2>1, <2>2, <3>1, <3>9 DEF Contract!Finish, Busy, InForce
    <3> QED
      BY <3>10 DEF Contract!Next
  <2> QED
    BY <1>5, <2>3, <2>4
<1> QED
  BY <1>3, <1>4, <1>5 DEF Work

(* A session of stages, lazily built pass managers and rebuilt pipelines is  *)
(* a session of the contract: each call is made from the settings it found,  *)
(* and with the selection of passes in force.                                *)
THEOREM SessionImplementsContract == Spec => ImplementsContract
<1>1. TypeOK /\ TypeOK' /\ Safety /\ Gathered /\ [Next]_vars
        => [Contract!Next]_(Contract!vars)
  <2> SUFFICES ASSUME TypeOK, TypeOK', Safety, Gathered, [Next]_vars
               PROVE  Contract!Next \/ UNCHANGED Contract!vars
    OBVIOUS
  <2>1. CASE UNCHANGED vars
    BY <2>1 DEF vars, Contract!vars, Contract!settings, Contract!channels,
       built, Idle
  <2> QED
    BY <2>1, SetterRefines, CallRefines, WorkRefines, ConfigureIsSetter DEF Next
<1> QED
  BY <1>1, ContractInit, SafetyInvariant, GatheredInvariant, PTL
  DEF Spec, ImplementsContract, Contract!Spec

=============================================================================

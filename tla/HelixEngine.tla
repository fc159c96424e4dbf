----------------------------- MODULE HelixEngine -----------------------------
(* One engine instance (engine/src/Engine.cpp) and the pipeline it owns        *)
(* (engine/src/Pipeline.cpp): the settings a caller leaves behind, the pass    *)
(* manager built lazily from them, the data sections and the scoped provider,  *)
(* and one decompile call run stage by stage, any stage of which may fail.     *)
(* An instance is single-threaded: settings change only between two calls.     *)
EXTENDS EngineData

VARIABLES
    pipe,     \* option fields of the current Pipeline object
    manager,  \* options the pass manager was built from, if it is valid
    engine,   \* what Engine keeps outside the pipeline
    run,      \* the decompile call in progress
    outcome   \* what the last call returned

vars == <<pipe, manager, engine, run, outcome>>

Stages == {"idle", "parse", "translate", "passes", "emitC", "emitHast",
           "deliver"}
Errors == {"none", "invalid", "binary", "parse", "translate", "passes",
           "emitC", "emitHast", "buffer"}

NoCall == [stage |-> "idle", api |-> "combined", ir |-> NoIr, cap |-> 0,
           provider |-> FALSE, starts |-> {}, debug |-> NoDebug,
           text |-> Nothing, hast |-> Nothing]

Idle == run.stage = "idle"
built == manager # NotBuilt

Init == /\ pipe = FreshPipe(FALSE)
        /\ manager = NotBuilt
        /\ engine = [preserve |-> FALSE, debug |-> NoDebug,
                     sections |-> <<>>, lastError |-> "none"]
        /\ run = NoCall
        /\ outcome = [status |-> "never", outLen |-> 0,
                      text |-> Nothing, hast |-> Nothing]

-----------------------------------------------------------------------------
(* Settings. Every setter runs between two calls.                            *)

Configuring == /\ Idle
               /\ outcome' = Taken(outcome)
               /\ UNCHANGED run

(* The pipeline is replaced; only preserve_cfg_ and the debug JSON return.   *)
SetSkipOptimization(skip) ==
    /\ Configuring
    /\ pipe' = [FreshPipe(skip) EXCEPT !.preserve = engine.preserve,
                                       !.debug = engine.debug]
    /\ manager' = NotBuilt
    /\ UNCHANGED engine

SetPreserveCfg(v) ==
    /\ Configuring
    /\ engine' = [engine EXCEPT !.preserve = v]
    /\ pipe' = [pipe EXCEPT !.preserve = v]
    /\ manager' = NotBuilt

(* A built pass manager is left as it is. *)
EnablePass(name) ==
    /\ Configuring
    /\ pipe' = [pipe EXCEPT !.selective = TRUE,
                            !.enabled = @ \cup ({name} \cap Nightly)]
    /\ UNCHANGED <<manager, engine>>

(* Mutant: the built pass manager survives a change of emitter. *)
SetUseCastLayerKeepingPasses(use) ==
    /\ Configuring
    /\ pipe' = [pipe EXCEPT !.useCast = use]
    /\ UNCHANGED <<manager, engine>>

SetUseCastLayer(use) ==
    /\ Configuring
    /\ pipe' = [pipe EXCEPT !.useCast = use]
    /\ manager' = NotBuilt
    /\ UNCHANGED engine

AddVariableRename(old, new) ==
    /\ Configuring
    /\ pipe' = [pipe EXCEPT !.renames[old] = new]
    /\ UNCHANGED <<manager, engine>>

ClearVariableRenames ==
    /\ Configuring
    /\ pipe' = [pipe EXCEPT !.renames = NoRenames]
    /\ UNCHANGED <<manager, engine>>

(* The guard `starts && len > 0` ignores an empty table. *)
SetFunctionStarts(table) ==
    /\ Configuring
    /\ table # {}
    /\ pipe' = [pipe EXCEPT !.starts = table]
    /\ UNCHANGED <<manager, engine>>

SetDebugTypeInfoJson(json) ==
    /\ Configuring
    /\ engine' = [engine EXCEPT !.debug = json]
    /\ pipe' = [pipe EXCEPT !.debug = json]
    /\ UNCHANGED manager

AddDataSection(section) ==
    /\ Configuring
    /\ Len(engine.sections) < MaxSections
    /\ engine' = [engine EXCEPT !.sections = Append(@, section)]
    /\ UNCHANGED <<pipe, manager>>

ClearDataSections ==
    /\ Configuring
    /\ engine' = [engine EXCEPT !.sections = <<>>]
    /\ UNCHANGED <<pipe, manager>>

-----------------------------------------------------------------------------
(* One decompile call.                                                       *)

(* Null or empty IR, or no room offered: refused before anything happens.    *)
RefuseCall ==
    /\ Idle
    /\ engine' = [engine EXCEPT !.lastError = "invalid"]
    /\ outcome' = Failed("invalid", 0)
    /\ UNCHANGED <<pipe, manager, run>>

(* decompile() of machine code: validated, then always a stub.               *)
DecompileBinary(valid) ==
    /\ Idle
    /\ engine' = [engine EXCEPT !.lastError = IF valid THEN "binary"
                                                       ELSE "invalid"]
    /\ outcome' = Failed(IF valid THEN "internal" ELSE "invalid", 0)
    /\ UNCHANGED <<pipe, manager, run>>

(* A valid call first registers the strings of its own IR, then installs the *)
(* provider when there is a section to read.                                 *)
Decompile(api, ir, cap) ==
    /\ Idle
    /\ (api = "combined") = (cap = 0)
    /\ Len(engine.sections) + Len(StringsOf[ir]) <= MaxSections
    /\ LET sections == engine.sections \o StringsOf[ir] IN
       /\ engine' = [engine EXCEPT !.sections = sections]
       /\ run' = [NoCall EXCEPT !.stage = "parse", !.api = api, !.ir = ir,
                                !.cap = cap, !.provider = sections # <<>>]
    /\ UNCHANGED <<pipe, manager, outcome>>

(* Mutant: the provider is cleared only on success. *)
StageFailsKeepingProvider ==
    /\ run.stage \in {"parse", "translate", "passes", "emitC", "emitHast"}
    /\ run.stage = "passes" => built
    /\ engine' = [engine EXCEPT !.lastError = run.stage]
    /\ outcome' = Failed("internal", run.cap)
    /\ run' = [NoCall EXCEPT !.provider = run.provider]
    /\ UNCHANGED <<pipe, manager>>

(* A stage fails: the error is kept, the provider's scope ends, no output.   *)
StageFails ==
    /\ run.stage \in {"parse", "translate", "passes", "emitC", "emitHast"}
    /\ run.stage = "passes" => built
    /\ engine' = [engine EXCEPT !.lastError = run.stage]
    /\ outcome' = Failed("internal", run.cap)
    /\ run' = NoCall
    /\ UNCHANGED <<pipe, manager>>

ParseLLVMIR ==
    /\ run.stage = "parse"
    /\ run' = [run EXCEPT !.stage = "translate"]
    /\ UNCHANGED <<pipe, manager, engine, outcome>>

(* Mutant: the IR's own function starts replace the caller's table. *)
TranslateDroppingTable ==
    /\ run.stage = "translate"
    /\ run' = [run EXCEPT !.stage = "passes", !.starts = StartsOf[run.ir],
                          !.debug = pipe.debug]
    /\ UNCHANGED <<pipe, manager, engine, outcome>>

(* The side channels are stamped on the module as attributes.                *)
TranslateToMLIR ==
    /\ run.stage = "translate"
    /\ run' = [run EXCEPT !.stage = "passes",
                          !.starts = pipe.starts \cup StartsOf[run.ir],
                          !.debug = pipe.debug]
    /\ UNCHANGED <<pipe, manager, engine, outcome>>

(* ensurePipelineBuilt happens even when a pass then fails.                  *)
EnsurePipelineBuilt ==
    /\ run.stage = "passes"
    /\ ~built
    /\ manager' = PassOptionsOf(pipe)
    /\ UNCHANGED <<pipe, engine, run, outcome>>

(* Mutant: the call of ensurePipelineBuilt is lost. *)
RunPassesUnbuilt ==
    /\ run.stage = "passes"
    /\ run' = [run EXCEPT !.stage = "emitC"]
    /\ UNCHANGED <<pipe, manager, engine, outcome>>

RunPasses ==
    /\ run.stage = "passes"
    /\ built
    /\ run' = [run EXCEPT !.stage = "emitC"]
    /\ UNCHANGED <<pipe, manager, engine, outcome>>

MadeWith(emitCast, renames) ==
    [ir |-> run.ir, lowered |-> manager, emitCast |-> emitCast,
     renames |-> renames, starts |-> run.starts, debug |-> run.debug,
     view |-> View(engine.sections)]

(* The legacy emitter knows no renames.                                      *)
EmitPseudoC ==
    /\ run.stage = "emitC"
    /\ run' = [run EXCEPT !.stage = "emitHast",
                          !.text = MadeWith(pipe.useCast,
                                            IF pipe.useCast THEN pipe.renames
                                                            ELSE NoRenames)]
    /\ UNCHANGED <<pipe, manager, engine, outcome>>

(* HAST always goes through the C-AST, whichever emitter made the text.      *)
EmitFlatBuffer ==
    /\ run.stage = "emitHast"
    /\ run' = [run EXCEPT !.stage = "deliver",
                          !.hast = MadeWith(TRUE, pipe.renames)]
    /\ UNCHANGED <<pipe, manager, engine, outcome>>

(* Mutant: a delivered product leaves the previous error in place. *)
DeliverKeepingError ==
    /\ run.stage = "deliver"
    /\ run' = NoCall
    /\ outcome' = [status |-> "ok", outLen |-> 0,
                   text |-> run.text, hast |-> run.hast]
    /\ UNCHANGED <<pipe, manager, engine>>

(* decompileIRCombined hands both products over; the two buffer calls run it *)
(* and then copy one of them if it fits.                                     *)
Deliver ==
    /\ run.stage = "deliver"
    /\ run' = NoCall
    /\ LET needed == Needed(run.api, run.ir)
           fits == run.api = "combined" \/ needed <= run.cap
       IN  IF fits
           THEN /\ engine' = [engine EXCEPT !.lastError = "none"]
                /\ outcome' = [status |-> "ok",
                     outLen |-> IF run.api = "combined" THEN 0 ELSE needed,
                     text |-> IF run.api = "hast" THEN Nothing ELSE run.text,
                     hast |-> IF run.api = "text" THEN Nothing ELSE run.hast]
           ELSE /\ engine' = [engine EXCEPT !.lastError = "buffer"]
                /\ outcome' = Failed("outOfMemory", needed)
    /\ UNCHANGED <<pipe, manager>>

-----------------------------------------------------------------------------
Configure ==
    \/ \E b \in BOOLEAN : \/ SetSkipOptimization(b)
                          \/ SetPreserveCfg(b)
                          \/ SetUseCastLayer(b)
    \/ \E name \in Nightly \cup {UnknownPass} : EnablePass(name)
    \/ \E old \in OldNames, new \in NewNames : AddVariableRename(old, new)
    \/ ClearVariableRenames
    \/ \E table \in StartTables : SetFunctionStarts(table)
    \/ \E json \in Debug : SetDebugTypeInfoJson(json)
    \/ \E section \in CallerSections : AddDataSection(section)
    \/ ClearDataSections

Call == \/ RefuseCall
        \/ \E valid \in BOOLEAN : DecompileBinary(valid)
        \/ \E api \in Apis, ir \in Ir, cap \in Capacities :
               Decompile(api, ir, cap)

Work == \/ StageFails \/ ParseLLVMIR \/ TranslateToMLIR
        \/ EnsurePipelineBuilt \/ RunPasses
        \/ EmitPseudoC \/ EmitFlatBuffer \/ Deliver

Next == Configure \/ Call \/ Work

Spec == Init /\ [][Next]_vars

-----------------------------------------------------------------------------
RunRecord == [stage : Stages, api : Apis, ir : Ir \cup {NoIr},
              cap : Capacities \cup {0}, provider : BOOLEAN,
              starts : SUBSET Addr, debug : Debug,
              text : Products, hast : Products]
EngineRecord == [preserve : BOOLEAN, debug : Debug, sections : Seq(Section),
                 lastError : Errors]
OutcomeRecord == [status : Status, outLen : Nat,
                  text : Products, hast : Products]

(* Type invariant of the engine, the pipeline and the call in progress.      *)
TypeOK == /\ pipe \in PipeOptions
          /\ manager \in PassOptions \cup {NotBuilt}
          /\ engine \in EngineRecord
          /\ run \in RunRecord
          /\ ~Idle => run.ir \in Ir
          /\ run.stage \in {"emitC", "emitHast", "deliver"} => built
          /\ outcome \in OutcomeRecord

(* The pass manager that lowers a module was built for the emitter, the CFG  *)
(* mode and the optimisation level in force when the module is emitted: the  *)
(* C-AST accepts native SCF, the legacy emitter does not (Pipeline.h).       *)
LoweredForEmitter ==
    built => /\ manager.useCast = pipe.useCast
             /\ manager.preserve = pipe.preserve
             /\ manager.skip = pipe.skip

(* The thread-local provider is installed exactly while a call with sections *)
(* runs: no path out of a call, failing or not, leaves it active.            *)
ProviderScoped == run.provider = (~Idle /\ engine.sections # <<>>)

(* Between two calls the last error tells how the last call ended, and a     *)
(* call that did not succeed hands no product to the caller.                 *)
ErrorTellsOutcome ==
    Idle => /\ outcome.status \in {"never", "ok"} <=> engine.lastError = "none"
            /\ outcome.status # "ok" =>
                   outcome.text = Nothing /\ outcome.hast = Nothing

(* The side channels kept by the engine survive every pipeline rebuild.      *)
ChannelsSurviveRebuild == /\ engine.preserve = pipe.preserve
                          /\ engine.debug = pipe.debug

(* A session of stages and rebuilt pipelines is the atomic one of the        *)
(* contract: a call is made from the settings its caller left at its start.  *)
(* The lazily built pass manager shows in one place only, which Engine.h     *)
(* documents: a pass enabled by name after a module has been lowered is not  *)
(* run until the emitter, the CFG mode or the optimisation level is set      *)
(* again, and is then.                                                       *)
Contract == INSTANCE EngineContract WITH
    options <- PassOptionsOf(pipe),
    inForce <- IF built THEN Selected(manager) ELSE Open,
    renames <- pipe.renames, starts <- pipe.starts, debug <- pipe.debug,
    sections <- engine.sections,
    busy <- IF Idle THEN NoRequest
            ELSE [api |-> run.api, ir |-> run.ir, cap |-> run.cap]
ImplementsContract == Contract!Spec
=============================================================================

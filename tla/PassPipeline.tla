----------------------------- MODULE PassPipeline -----------------------------
(* The pass list buildPassPipeline makes of the options and the environment    *)
(* (engine/src/Pipeline.cpp), run pass by pass over a module, with the         *)
(* per-pass verifier and its audit (engine/src/diagnostics/VerifyAudit.cpp).   *)
(* A module is reduced to what the order of the passes is about: its tier, the *)
(* form of its structured control flow, and whether it verifies.               *)
EXTENDS Naturals, Sequences, FiniteSets

CONSTANTS Options,  \* sets of pipeline options to build for
          Environments,  \* settings of the HELIX_* variables
          Reused,   \* environments in which a pass manager is run again
          MaxRuns   \* bound of the model: decompiles on one pass manager

(* Flags are flags; what HELIX_DEFER_SCF_BRIDGE and HELIX_DIRECT_SCF_TO_CAST  *)
(* say is only compared with the words the code knows.                       *)
ASSUME OptionsAssumption ==
    \A o \in Options : {o.skip, o.useCast, o.selective} \subseteq BOOLEAN
ASSUME EnvironmentsAssumption ==
    \A e \in Environments :
        {e.early, e.legacy, e.escape, e.pilot, e.generic, e.verifyEach}
            \subseteq BOOLEAN

VARIABLES
    options, environment,  \* fixed for the life of a pass manager
    next,      \* index of the next pass to run, 0 between two runs
    module,    \* the module being lowered
    audit,     \* VerifyAuditState: run directory, sequence, first failure
    outcome,   \* how the last run ended
    culprit    \* history: first pass of this run to fail or leave invalid IR

vars == <<options, environment, next, module, audit, outcome, culprit>>

-----------------------------------------------------------------------------
(* Building the list.                                                        *)

When(condition, pass) == IF condition THEN <<pass>> ELSE <<>>

(* HELIX_DEFER_SCF_BRIDGE, when set at all, overrides HELIX_EARLY_SCF_BRIDGE. *)
DeferScfBridge(e) == IF e.defer = "unset" THEN ~e.early ELSE e.defer = "on"

(* Mutant: the direct C-AST form is chosen from the environment alone. *)
DirectForAnyEmitter(o, e) ==
    ~e.legacy /\ IF e.direct = "unset" THEN TRUE ELSE e.direct = "on"

(* Native SCF goes straight to the C-AST, never to the legacy emitter.       *)
DirectScfToCast(o, e) ==
    /\ o.useCast
    /\ ~e.legacy
    /\ e.direct # "off"

ShouldRun(o, pass) == ~o.skip /\ (o.selective => pass \in o.enabled)

FrontPasses(o, e) ==
    <<"RemillToHelixLow", "ApplyDebugTypes", "RecoverStackLayout",
      "RecoverCallingConvention">>
    \o When(ShouldRun(o, "HelixLowSimplify"), "HelixLowSimplify")
    \o <<"PropagateTypes", "InterProceduralTypePropagation">>
    \o When(ShouldRun(o, "SwitchRecovery"), "RecoverSwitchTables")
    \o <<IF DeferScfBridge(e) THEN "StructureControlFlow"
                              ELSE "StructureAndBridge",
         "RecoverVariables", "BindReturnValues">>
    \o When(~DeferScfBridge(e), "EliminateDeadCode")

MiddlePasses(o, e) ==
    <<"RegisterSSARename", "HelixLowToMid">>
    \o When(ShouldRun(o, "HelixMidSimplify"), "HelixMidSimplify")
    \o When(ShouldRun(o, "ConstantFolding"), "ConstantFolding")
    \o When(ShouldRun(o, "EscapeAnalysis") /\ e.escape, "EscapeAnalysis")
    \o When(e.pilot, "MemorySlotPilot")
    \o When(e.generic, "Canonicalizer") \o When(e.generic, "CSE")
    \o When(ShouldRun(o, "StructRecovery"), "RecoverStructTypes")
    \o When(~o.skip, "RecoverMagicDivision")
    \o When(~o.skip, "DevirtualizeIndirectCalls")

(* Mutant: dead code goes before the deferred bridge. *)
LateBridgeAfterDce(o, e) ==
    IF DeferScfBridge(e) /\ ~DirectScfToCast(o, e)
    THEN <<"EliminateDeadCode", "BridgeStructuredControlFlow">> ELSE <<>>

LateBridge(o, e) ==
    IF DeferScfBridge(e) /\ ~DirectScfToCast(o, e)
    THEN <<"BridgeStructuredControlFlow", "EliminateDeadCode">> ELSE <<>>

BackPasses == <<"HelixMidToHigh", "ApplyDebugTypes", "PropagateTypesHigh",
                "ApplyDebugTypes", "LegalizeFunctionContainers">>

BuildPassPipeline(o, e) ==
    FrontPasses(o, e) \o MiddlePasses(o, e) \o LateBridge(o, e) \o BackPasses

-----------------------------------------------------------------------------
(* What a pass does to the form of a module.                                 *)

TierAfter(pass, tier) == CASE pass = "RemillToHelixLow" -> "low"
                           [] pass = "HelixLowToMid" -> "mid"
                           [] pass = "HelixMidToHigh" -> "high"
                           [] OTHER -> tier

(* Native SCF is what StructureControlFlow leaves without its bridge. The    *)
(* bridge takes every if and switch but declines a loop of a shape it does   *)
(* not handle: the scf.while stays where it is, and the pass neither checks  *)
(* for one nor fails.                                                        *)
ScfAfter(pass, scf, declines) ==
    CASE pass = "StructureControlFlow" -> "native"
      [] pass \in {"StructureAndBridge", "BridgeStructuredControlFlow"} ->
             IF declines THEN "declined" ELSE "bridged"
      [] OTHER -> scf

(* The module after a pass that left it valid or not, and that declined a    *)
(* loop or not if it is a bridge.                                            *)
After(pass, m, valid, declines) ==
    [tier |-> TierAfter(pass, m.tier), scf |-> ScfAfter(pass, m.scf, declines),
     valid |-> valid, done |-> m.done \cup {pass},
     dcedNative |-> m.dcedNative \/ (pass = "EliminateDeadCode" /\ m.scf = "native"),
     dcedUnbound |-> m.dcedUnbound
                     \/ (pass = "EliminateDeadCode" /\ "BindReturnValues" \notin m.done)]

FreshModule == [tier |-> "llvm", scf |-> "none", valid |-> TRUE, done |-> {},
                dcedNative |-> FALSE, dcedUnbound |-> FALSE]

-----------------------------------------------------------------------------
(* Running it.                                                               *)

NoFailure == [pass |-> "none", reason |-> "none"]
Passes == BuildPassPipeline(options, environment)
Auditing == environment.verifyEach

RunBound == IF environment \in Reused THEN MaxRuns ELSE 1

Init == /\ options \in Options
        /\ environment \in Environments
        /\ next = 0
        /\ module = FreshModule
        /\ audit = [run |-> 0, seq |-> 0, failure |-> NoFailure]
        /\ outcome = [status |-> "never", failure |-> NoFailure]
        /\ culprit = NoFailure

(* Mutant: the audit of a new run keeps the failure of the previous one. *)
BeginRunKeepingFailure ==
    /\ next = 0
    /\ audit.run < RunBound
    /\ next' = 1
    /\ module' = FreshModule
    /\ audit' = [audit EXCEPT !.run = @ + 1, !.seq = 0]
    /\ culprit' = NoFailure
    /\ UNCHANGED <<options, environment, outcome>>

(* A new decompile: beginRun takes a fresh directory and clears the state.   *)
BeginRun ==
    /\ next = 0
    /\ audit.run < RunBound
    /\ next' = 1
    /\ module' = FreshModule
    /\ audit' = [run |-> audit.run + 1, seq |-> 0, failure |-> NoFailure]
    /\ culprit' = NoFailure
    /\ UNCHANGED <<options, environment, outcome>>

(* recordFailure keeps the first failure of a run.                           *)
Record(failure) == IF audit.failure = NoFailure THEN failure ELSE audit.failure

(* The pass returns success; an audited run goes on only if the IR verifies. *)
PassSucceeds(valid, declines) ==
    /\ next \in DOMAIN Passes
    /\ Auditing => valid
    /\ module' = After(Passes[next], module, valid, declines)
    /\ next' = next + 1
    /\ IF Auditing
       THEN audit' = [audit EXCEPT !.seq = @ + 1]
       ELSE UNCHANGED audit
    /\ culprit' = IF ~valid /\ culprit = NoFailure
                  THEN [pass |-> Passes[next], reason |-> "verifier-failure"]
                  ELSE culprit
    /\ UNCHANGED <<options, environment, outcome>>

(* The pass fails, or an audited run finds its IR invalid: the run stops and *)
(* the error names the first failure the audit holds.                        *)
PassFails(signals, valid, declines) ==
    /\ next \in DOMAIN Passes
    /\ signals \/ (Auditing /\ ~valid)
    /\ module' = After(Passes[next], module, valid, declines)
    /\ next' = 0
    /\ LET failure == [pass |-> Passes[next],
                       reason |-> IF valid THEN "pass-signaled-failure"
                                           ELSE "verifier-failure"]
           named == IF Auditing THEN Record(failure) ELSE NoFailure
       IN  /\ IF Auditing
              THEN audit' = [audit EXCEPT !.seq = @ + 1, !.failure = named]
              ELSE UNCHANGED audit
           /\ outcome' = [status |-> "failed", failure |-> named]
           /\ culprit' = IF culprit = NoFailure THEN failure ELSE culprit
    /\ UNCHANGED <<options, environment>>

(* The final verifier is unconditional.                                      *)
FinishRun ==
    /\ next = Len(Passes) + 1
    /\ next' = 0
    /\ outcome' = [status |-> IF module.valid THEN "ok" ELSE "failed",
                   failure |-> NoFailure]
    /\ UNCHANGED <<options, environment, module, audit, culprit>>

Next == \/ BeginRun
        \/ \E valid, declines \in BOOLEAN : PassSucceeds(valid, declines)
        \/ \E signals, valid, declines \in BOOLEAN :
               PassFails(signals, valid, declines)
        \/ FinishRun

Spec == Init /\ [][Next]_vars

-----------------------------------------------------------------------------
Tiers == {"llvm", "low", "mid", "high"}
Finished == next = 0 /\ outcome.status = "ok"

(* Whatever the options and the environment, a module that reaches the       *)
(* emitters is in the High tier and structured, and only the C-AST emitter   *)
(* is given one that no bridge has been run on: the list for the legacy      *)
(* emitter, which reads no SCF, always has the bridge before its end. What   *)
(* the bridge itself declines is not excluded: such an scf.while does reach  *)
(* the legacy emitter, which writes it as an "unhandled" comment.            *)
EmitterGetsItsForm ==
    Finished => /\ module.tier = "high"
                /\ module.scf # "none"
                /\ module.scf = "native" => options.useCast

(* EliminateDeadCode deletes what is live only through an SCF yield or an    *)
(* unbound return, so it never runs before a bridge has run or before        *)
(* BindReturnValues has. An order of passes: the yields of a loop the bridge *)
(* declined are still there.                                                 *)
DceSeesAllUses == ~module.dcedNative /\ ~module.dcedUnbound

(* An audited run that fails names the first pass that produced invalid IR   *)
(* or failed, of this run, and no pass runs after it.                        *)
AuditNamesCulprit ==
    /\ Auditing /\ outcome.status = "failed" /\ next = 0 =>
           outcome.failure = culprit /\ culprit # NoFailure
    /\ Auditing /\ next > 1 => culprit = NoFailure
=============================================================================

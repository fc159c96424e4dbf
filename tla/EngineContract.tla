---------------------------- MODULE EngineContract ----------------------------
(* What an engine session promises, without pipeline objects, pass managers or *)
(* stages: settings change only between calls, a call is made from the         *)
(* settings found at its start, and it either returns exactly what they make   *)
(* of its IR or fails with nothing. Passes selected by name are the exception: *)
(* they are fixed by the first call that lowers a module, and what the caller  *)
(* selects later waits until a setting of the lowering itself changes          *)
(* (Engine.h: "Call before first decompile").                                  *)
EXTENDS EngineData

VARIABLES options,   \* what the caller has set for the lowering
          inForce,   \* the selection of passes calls are made with, if fixed
          renames, starts, debug, sections, busy, outcome

channels == <<renames, starts, debug, sections>>
settings == <<options, inForce, channels>>
vars == <<settings, busy, outcome>>

Init == /\ options = PassOptionsOf(FreshPipe(FALSE))
        /\ inForce = Open
        /\ renames = NoRenames
        /\ starts = {}
        /\ debug = NoDebug
        /\ sections = <<>>
        /\ busy = NoRequest
        /\ outcome = Failed("never", 0)

Between == /\ busy = NoRequest
           /\ outcome' = Taken(outcome)
           /\ UNCHANGED busy

(* A setter of one side channel.                                             *)
SetChannel ==
    /\ Between
    /\ \/ renames' \in Renaming /\ UNCHANGED <<starts, debug, sections>>
       \/ starts' \in SUBSET Addr /\ UNCHANGED <<renames, debug, sections>>
       \/ debug' \in Debug /\ UNCHANGED <<renames, starts, sections>>
       \/ /\ sections' = <<>> \/ \E s \in Section : sections' = Append(sections, s)
          /\ UNCHANGED <<renames, starts, debug>>
    /\ UNCHANGED <<options, inForce>>

(* The emitter or the CFG mode is set: the next call lowers anew, with the   *)
(* passes selected by then.                                                  *)
SetLowering(preserve, useCast) ==
    /\ Between
    /\ options' = [options EXCEPT !.preserve = preserve, !.useCast = useCast]
    /\ inForce' = Open
    /\ UNCHANGED channels

(* A pass is selected by name, or a name no pass has is given: a selection   *)
(* in force stays in force.                                                  *)
Select(names) ==
    /\ Between
    /\ options' = [options EXCEPT !.selective = TRUE, !.enabled = @ \cup names]
    /\ UNCHANGED <<inForce, channels>>

(* Changing the optimisation level forgets every channel but CFG             *)
(* preservation, the debug types and the sections.                           *)
Reset(skip) ==
    /\ Between
    /\ options' = PassOptionsOf([FreshPipe(skip) EXCEPT !.preserve = options.preserve])
    /\ inForce' = Open
    /\ renames' = NoRenames
    /\ starts' = {}
    /\ UNCHANGED <<debug, sections>>

Refuse == /\ busy = NoRequest
          /\ outcome' \in {Failed("invalid", 0), Failed("internal", 0)}
          /\ UNCHANGED <<settings, busy>>

Start(api, ir, cap) ==
    /\ busy = NoRequest
    /\ busy' = [api |-> api, ir |-> ir, cap |-> cap]
    /\ sections' = sections \o StringsOf[ir]
    /\ UNCHANGED <<options, inForce, renames, starts, debug, outcome>>

(* The first call to lower a module fixes the selection.                     *)
Fix == /\ busy # NoRequest
       /\ inForce = Open
       /\ inForce' = Selected(options)
       /\ UNCHANGED <<options, channels, busy, outcome>>

(* What a call is lowered with: the settings, and the selection in force.    *)
Lowered == [options EXCEPT !.selective = inForce.selective,
                           !.enabled = inForce.enabled]

(* The product of the snapshot: the legacy emitter applies no renames, HAST  *)
(* is always made by the C-AST.                                              *)
Product(emitCast) ==
    [ir |-> busy.ir, lowered |-> Lowered, emitCast |-> emitCast,
     renames |-> IF emitCast THEN renames ELSE NoRenames,
     starts |-> starts \cup StartsOf[busy.ir], debug |-> debug,
     view |-> View(sections)]

Answer == [status |-> "ok",
           outLen |-> IF busy.api = "combined" THEN 0 ELSE Needed(busy.api, busy.ir),
           text |-> IF busy.api = "hast" THEN Nothing ELSE Product(options.useCast),
           hast |-> IF busy.api = "text" THEN Nothing ELSE Product(TRUE)]

TooSmall == busy.api # "combined" /\ busy.cap < Needed(busy.api, busy.ir)

Finish == /\ busy # NoRequest
          /\ \/ outcome' = Failed("internal", busy.cap)
             \/ /\ inForce # Open
                /\ \/ /\ TooSmall
                      /\ outcome' = Failed("outOfMemory", Needed(busy.api, busy.ir))
                   \/ ~TooSmall /\ outcome' = Answer
          /\ busy' = NoRequest
          /\ UNCHANGED settings

Next == \/ SetChannel \/ Refuse \/ Fix \/ Finish
        \/ \E preserve, useCast \in BOOLEAN : SetLowering(preserve, useCast)
        \/ \E names \in SUBSET Nightly : Select(names)
        \/ \E skip \in BOOLEAN : Reset(skip)
        \/ \E api \in Apis, ir \in Ir, cap \in Capacities : Start(api, ir, cap)

Spec == Init /\ [][Next]_vars
=============================================================================

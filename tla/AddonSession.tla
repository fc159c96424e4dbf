----------------------------- MODULE AddonSession -----------------------------
(* One JavaScript HelixEngine object (crates/hexcore-helix/src/engine.rs), the *)
(* C++ engine it owns, and the two heap buffers a combined decompile hands     *)
(* from C++ (engine/src/CApi.cpp) to Rust (crates/helix-core/src/ffi.rs). Who  *)
(* owns what is followed block by block through every failure. JavaScript runs *)
(* on one thread: object operations happen between two calls.                  *)
CONSTANTS Blocks,  \* heap blocks the C++ side may allocate
          Null     \* the null pointer

ASSUME NullIsNoBlock == Null \notin Blocks

VARIABLES
    object,   \* the JS object: unborn, live, disposed, collected
    handle,   \* its EngineHandle, Some or None
    engine,   \* the C++ engine it pointed to: none, alive, destroyed
    pc,       \* where the combined call is
    local,    \* the pointers in helix_engine_decompile_ir_combined
    output,   \* HelixCombinedDecompileOutput, owned by Rust's frame
    heap,     \* live blocks
    product,  \* what the engine made: is the HAST empty, is the text UTF-8
    result    \* what the last operation told JavaScript

vars == <<object, handle, engine, pc, local, output, heap, product, result>>

NoPointers == [text |-> Null, hast |-> Null]
NoProduct == [hastEmpty |-> FALSE, utf8 |-> TRUE, identity |-> TRUE]

Init == /\ object = "unborn" /\ handle = "none" /\ engine = "none"
        /\ pc = "idle" /\ local = NoPointers /\ output = NoPointers
        /\ heap = {} /\ product = NoProduct
        /\ result = "nothing"

callVars == <<pc, local, output, heap, product>>
objectVars == <<object, handle, engine>>

-----------------------------------------------------------------------------
(* The object.                                                               *)

(* The constructor throws when helix_engine_create returns null.             *)
New(created) ==
    /\ object = "unborn"
    /\ IF created
       THEN /\ object' = "live" /\ handle' = "some" /\ engine' = "alive"
            /\ result' = "object"
       ELSE /\ result' = "error" /\ UNCHANGED objectVars
    /\ UNCHANGED callVars

Reachable == object \in {"live", "disposed"} /\ pc = "idle"

(* Every setter: refused once the handle is gone.                            *)
Configure ==
    /\ Reachable
    /\ result' = IF handle = "some" THEN "done" ELSE "error"
    /\ UNCHANGED <<objectVars, callVars>>

(* Dropping the handle destroys the engine; None has nothing to drop.        *)
DropHandle ==
    /\ handle' = "none"
    /\ engine' = IF handle = "some" THEN "destroyed" ELSE engine

(* Mutant: dispose forgets to clear the handle it has dropped. *)
DisposeKeepingHandle ==
    /\ Reachable
    /\ object' = "disposed"
    /\ engine' = IF handle = "some" THEN "destroyed" ELSE engine
    /\ result' = "done"
    /\ UNCHANGED <<handle, callVars>>

Dispose ==
    /\ Reachable
    /\ object' = "disposed"
    /\ DropHandle
    /\ result' = "done"
    /\ UNCHANGED callVars

(* The garbage collector finalises the object, disposed or not.              *)
Collect ==
    /\ Reachable
    /\ object' = "collected"
    /\ DropHandle
    /\ UNCHANGED <<result, callVars>>

(* decompile() of machine code: an engine failure falls through to the stub. *)
DecompileBinary(engineOk) ==
    /\ Reachable
    /\ result' = CASE object = "disposed" -> "error"
                   [] object = "live" /\ engineOk -> "mlir"
                   [] OTHER -> "stub"
    /\ UNCHANGED <<objectVars, callVars>>

-----------------------------------------------------------------------------
(* decompile_ir(): one combined call.                                        *)

RefuseIr(empty) ==
    /\ Reachable
    /\ object = "disposed" \/ empty \/ handle = "none"
    /\ result' = "error"
    /\ UNCHANGED <<objectVars, callVars>>

DecompileIr ==
    /\ Reachable
    /\ object = "live"
    /\ handle = "some"
    /\ pc' = "engine"
    /\ output' = NoPointers
    /\ UNCHANGED <<objectVars, local, heap, product, result>>

EngineRuns ==
    /\ pc = "engine"
    /\ \/ pc' = "failed" /\ UNCHANGED product
       \/ /\ pc' = "allocText"
          /\ product' \in [hastEmpty : BOOLEAN, utf8 : BOOLEAN,
                           identity : BOOLEAN]
    /\ UNCHANGED <<objectVars, local, output, heap, result>>

(* new (std::nothrow): a fresh block, or null.                               *)
Allocate(field) ==
    \/ \E b \in Blocks \ heap : /\ local' = [local EXCEPT ![field] = b]
                                /\ heap' = heap \cup {b}
    \/ UNCHANGED <<local, heap>>

AllocateText ==
    /\ pc = "allocText"
    /\ Allocate("text")
    /\ pc' = "allocHast"
    /\ UNCHANGED <<objectVars, output, product, result>>

(* An empty HAST needs no block; a failed text allocation does not stop this. *)
AllocateHast ==
    /\ pc = "allocHast"
    /\ IF product.hastEmpty THEN UNCHANGED <<local, heap>> ELSE Allocate("hast")
    /\ pc' = "publish"
    /\ UNCHANGED <<objectVars, output, product, result>>

Allocated == local.text # Null /\ (product.hastEmpty \/ local.hast # Null)

(* Mutant: when an allocation failed, only the text is given back. *)
PublishLosingHast ==
    /\ pc = "publish"
    /\ IF Allocated
       THEN /\ output' = local
            /\ pc' = "take"
            /\ UNCHANGED heap
       ELSE /\ heap' = heap \ {local.text}
            /\ pc' = "failed"
            /\ UNCHANGED output
    /\ local' = NoPointers
    /\ UNCHANGED <<objectVars, product, result>>

(* Both or nothing: what was allocated is given back when the other was not. *)
Publish ==
    /\ pc = "publish"
    /\ IF Allocated
       THEN /\ output' = local
            /\ pc' = "take"
            /\ UNCHANGED heap
       ELSE /\ heap' = heap \ {local.text, local.hast}
            /\ pc' = "failed"
            /\ UNCHANGED output
    /\ local' = NoPointers
    /\ UNCHANGED <<objectVars, product, result>>

(* helix_engine_free_decompile_output: delete both, then null the struct.    *)
FreeOutput == /\ heap' = heap \ {output.text, output.hast}
              /\ output' = NoPointers

(* The status was not OK: free what the struct holds, report the error.      *)
ReportFailure ==
    /\ pc = "failed"
    /\ FreeOutput
    /\ pc' = "idle"
    /\ result' = "error"
    /\ UNCHANGED <<objectVars, local, product>>

(* A null buffer with a length is an error of the engine, freed as well.     *)
InvalidPointers == \/ output.text = Null
                   \/ output.hast = Null /\ ~product.hastEmpty

TakeOutput ==
    /\ pc = "take"
    /\ IF InvalidPointers
       THEN pc' = "failed" ELSE pc' = "free"
    /\ UNCHANGED <<objectVars, local, output, heap, product, result>>

(* Mutant: the text is checked before the buffers are freed, so that text     *)
(* which is not UTF-8 returns early. *)
FreeTakenAfterChecks ==
    /\ pc = "free"
    /\ IF product.utf8 THEN FreeOutput ELSE UNCHANGED <<heap, output>>
    /\ pc' = "convert"
    /\ UNCHANGED <<objectVars, local, product, result>>

FreeTaken ==
    /\ pc = "free"
    /\ FreeOutput
    /\ pc' = "convert"
    /\ UNCHANGED <<objectVars, local, product, result>>

(* From the copies: the text must be UTF-8 and the HAST must name its          *)
(* function; an empty HAST names none.                                         *)
Convert ==
    /\ pc = "convert"
    /\ result' = IF product.utf8 /\ product.identity /\ ~product.hastEmpty
                 THEN "mlir" ELSE "error"
    /\ pc' = "idle"
    /\ product' = NoProduct
    /\ UNCHANGED <<objectVars, local, output, heap>>

-----------------------------------------------------------------------------
ObjectStep == \/ \E created \in BOOLEAN : New(created)
              \/ Configure \/ Dispose \/ Collect
              \/ \E ok \in BOOLEAN : DecompileBinary(ok)
              \/ \E empty \in BOOLEAN : RefuseIr(empty)
              \/ DecompileIr

CallStep == \/ EngineRuns \/ AllocateText \/ AllocateHast \/ Publish
            \/ ReportFailure \/ TakeOutput \/ FreeTaken \/ Convert

Next == ObjectStep \/ CallStep

Spec == Init /\ [][Next]_vars

-----------------------------------------------------------------------------
Pointers == [text : Blocks \cup {Null}, hast : Blocks \cup {Null}]
Points == {local.text, local.hast, output.text, output.hast} \ {Null}

(* Type invariant of the object, the engine and the call.                     *)
TypeOK == /\ object \in {"unborn", "live", "disposed", "collected"}
          /\ handle \in {"some", "none"}
          /\ engine \in {"none", "alive", "destroyed"}
          /\ pc \in {"idle", "engine", "allocText", "allocHast", "publish",
                     "failed", "take", "free", "convert"}
          /\ local \in Pointers
          /\ output \in Pointers
          /\ heap \subseteq Blocks
          /\ product \in [hastEmpty : BOOLEAN, utf8 : BOOLEAN,
                          identity : BOOLEAN]
          /\ result \in {"nothing", "object", "done", "error", "stub", "mlir"}

(* Every live block is reachable from exactly one of the two frames, and no   *)
(* pointer dangles: nothing leaks and nothing is deleted twice, whichever      *)
(* allocation, conversion or engine run fails.                                *)
OwnedExactlyOnce ==
    /\ heap = Points
    /\ local.text # Null => local.text # local.hast
    /\ output.text # Null => output.text # output.hast
    /\ local = NoPointers \/ output = NoPointers

(* No block outlives the call that allocated it.                              *)
NothingHeldBetweenCalls == pc = "idle" => heap = {} /\ output = NoPointers

(* The C++ engine lives exactly as long as the handle: no call reaches a       *)
(* destroyed engine, and a disposed or collected object owns none.             *)
EngineOutlivesHandle ==
    /\ engine = "alive" <=> handle = "some"
    /\ object = "live" <=> handle = "some"
    /\ pc # "idle" => engine = "alive"
===============================================================================

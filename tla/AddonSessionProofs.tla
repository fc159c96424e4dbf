-------------------------- MODULE AddonSessionProofs --------------------------
(* Ownership across the C boundary, for any supply of heap blocks.             *)
EXTENDS AddonSession, TLAPS

-----------------------------------------------------------------------------
(* The inductive invariant adds where the call holds its pointers: only the    *)
(* C++ frame while it allocates, only Rust's frame while it takes the output.  *)
FrameOfPhase ==
    /\ pc \notin {"allocHast", "publish"} => local = NoPointers
    /\ pc = "allocHast" => local.hast = Null
    /\ pc \notin {"take", "free", "failed"} => output = NoPointers

Inv == /\ TypeOK
       /\ OwnedExactlyOnce
       /\ NothingHeldBetweenCalls
       /\ EngineOutlivesHandle
       /\ FrameOfPhase

LEMMA InitInv == Init => Inv
BY NullIsNoBlock DEF Init, Inv, TypeOK, OwnedExactlyOnce, Points, Pointers,
   NothingHeldBetweenCalls, EngineOutlivesHandle, FrameOfPhase, NoPointers,
   NoProduct

(* A step of the object changes no pointer and no block.                       *)
LEMMA ObjectStepKeepsInv == ASSUME Inv, ObjectStep PROVE Inv'
BY DEF ObjectStep, New, Configure, Dispose, Collect, DecompileBinary, RefuseIr,
   DecompileIr, Reachable, DropHandle, callVars, objectVars, Inv, TypeOK,
   OwnedExactlyOnce, Points, Pointers, NothingHeldBetweenCalls,
   EngineOutlivesHandle, FrameOfPhase, NoPointers

(* While a call runs the object stands still.                                  *)
LEMMA CallStepKeepsObject ==
    ASSUME Inv, CallStep
    PROVE  EngineOutlivesHandle' /\ UNCHANGED objectVars
BY DEF CallStep, EngineRuns, AllocateText, AllocateHast, Publish,
   ReportFailure, TakeOutput, FreeTaken, Convert, objectVars, Inv,
   EngineOutlivesHandle

LEMMA EngineRunsKeepsInv == ASSUME Inv, EngineRuns PROVE Inv'
BY CallStepKeepsObject
   DEF CallStep, EngineRuns, objectVars, Inv, TypeOK, OwnedExactlyOnce, Points,
       NothingHeldBetweenCalls, FrameOfPhase

LEMMA AllocateTextKeepsInv == ASSUME Inv, AllocateText PROVE Inv'
<1>1. EngineOutlivesHandle' /\ UNCHANGED objectVars
  BY CallStepKeepsObject DEF CallStep
<1>2. local = NoPointers /\ output = NoPointers /\ heap = {}
  BY DEF AllocateText, Inv, FrameOfPhase, OwnedExactlyOnce, Points, NoPointers
<1>3. CASE UNCHANGED <<local, heap>>
  BY <1>1, <1>2, <1>3 DEF AllocateText, objectVars, Inv, TypeOK,
     OwnedExactlyOnce, Points, NothingHeldBetweenCalls, FrameOfPhase, NoPointers
<1>4. ASSUME NEW b \in Blocks, local' = [local EXCEPT !["text"] = b],
             heap' = heap \cup {b}
      PROVE  Inv'
  <2>1. local' = [text |-> b, hast |-> Null]
    BY <1>2, <1>4 DEF NoPointers
  <2> QED
    BY <2>1, <1>1, <1>2, <1>4, NullIsNoBlock
       DEF AllocateText, objectVars, Inv, TypeOK, Pointers, OwnedExactlyOnce,
           Points, NothingHeldBetweenCalls, FrameOfPhase, NoPointers
<1> QED
  BY <1>3, <1>4 DEF AllocateText, Allocate

LEMMA AllocateHastKeepsInv == ASSUME Inv, AllocateHast PROVE Inv'
<1>1. EngineOutlivesHandle' /\ UNCHANGED objectVars
  BY CallStepKeepsObject DEF CallStep
<1>2. /\ local \in Pointers /\ local.hast = Null /\ output = NoPointers
      /\ heap = {local.text} \ {Null}
  BY DEF AllocateHast, Inv, TypeOK, FrameOfPhase, OwnedExactlyOnce, Points,
     NoPointers
<1>3. CASE UNCHANGED <<local, heap>>
  BY <1>1, <1>3 DEF AllocateHast, objectVars, Inv, TypeOK,
     OwnedExactlyOnce, Points, NothingHeldBetweenCalls, FrameOfPhase
<1>4. ASSUME NEW b \in Blocks \ heap, local' = [local EXCEPT !["hast"] = b],
             heap' = heap \cup {b}
      PROVE  Inv'
  <2>1. local' = [text |-> local.text, hast |-> b] /\ local.text # b
    BY <1>2, <1>4, NullIsNoBlock DEF Pointers
  <2> QED
    BY <2>1, <1>1, <1>2, <1>4, NullIsNoBlock
       DEF AllocateHast, objectVars, Inv, TypeOK, Pointers, OwnedExactlyOnce,
           Points, NothingHeldBetweenCalls, FrameOfPhase, NoPointers
<1> QED
  BY <1>3, <1>4 DEF AllocateHast, Allocate

LEMMA PublishKeepsInv == ASSUME Inv, Publish PROVE Inv'
<1>1. EngineOutlivesHandle' /\ UNCHANGED objectVars
  BY CallStepKeepsObject DEF CallStep
<1>2. /\ output = NoPointers /\ local \in Pointers /\ heap \subseteq Blocks
      /\ heap = {local.text, local.hast} \ {Null}
      /\ local.text # Null => local.text # local.hast
      /\ local' = NoPointers
  BY DEF Publish, Inv, TypeOK, FrameOfPhase, OwnedExactlyOnce, Points, NoPointers
<1>3. CASE Allocated
  BY <1>1, <1>2, <1>3
     DEF Publish, objectVars, Inv, TypeOK, Pointers, OwnedExactlyOnce, Points,
         NothingHeldBetweenCalls, FrameOfPhase, NoPointers
<1>4. CASE ~Allocated
  <2>1. heap' = {} /\ output' = NoPointers /\ pc' = "failed" /\ pc = "publish"
    BY <1>2, <1>4 DEF Publish
  <2>2. UNCHANGED <<objectVars, product, result>>
    BY DEF Publish
  <2> QED
    BY <2>1, <2>2, <1>1, <1>2
       DEF objectVars, Inv, TypeOK, Pointers, OwnedExactlyOnce,
           Points, NothingHeldBetweenCalls, FrameOfPhase, NoPointers
<1> QED
  BY <1>3, <1>4

(* Freeing the output leaves no block: the C++ frame holds none by then.       *)
LEMMA FreeingEmptiesHeap ==
    ASSUME Inv, pc \in {"free", "failed"}, FreeOutput
    PROVE  heap' = {} /\ output' = NoPointers /\ local = NoPointers
BY DEF FreeOutput, Inv, FrameOfPhase, OwnedExactlyOnce, Points, NoPointers

LEMMA FreeingKeepsInv == ASSUME Inv, ReportFailure \/ FreeTaken PROVE Inv'
<1>1. EngineOutlivesHandle' /\ UNCHANGED objectVars
  BY CallStepKeepsObject DEF CallStep
<1>2. heap' = {} /\ output' = NoPointers /\ local = NoPointers
  BY FreeingEmptiesHeap DEF ReportFailure, FreeTaken
<1> QED
  BY <1>1, <1>2
     DEF ReportFailure, FreeTaken, objectVars, Inv, TypeOK, Pointers,
         OwnedExactlyOnce, Points, NothingHeldBetweenCalls, FrameOfPhase,
         NoPointers

LEMMA ReadingKeepsInv == ASSUME Inv, TakeOutput \/ Convert PROVE Inv'
<1>1. EngineOutlivesHandle' /\ UNCHANGED objectVars
  BY CallStepKeepsObject DEF CallStep
<1>2. UNCHANGED <<local, output, heap>>
  BY DEF TakeOutput, Convert
<1>3. OwnedExactlyOnce'
  BY <1>2 DEF Inv, OwnedExactlyOnce, Points
<1>4. CASE TakeOutput
  BY <1>1, <1>2, <1>3, <1>4
     DEF TakeOutput, objectVars, Inv, TypeOK, NothingHeldBetweenCalls,
         FrameOfPhase
<1>5. CASE Convert
  <2>1. local = NoPointers /\ output = NoPointers /\ heap = {}
    BY <1>5 DEF Convert, Inv, FrameOfPhase, OwnedExactlyOnce, Points,
       NoPointers
  <2>2. pc' = "idle" /\ product' = NoProduct /\ result' \in {"mlir", "error"}
    BY <1>5 DEF Convert
  <2> QED
    BY <1>1, <1>2, <1>3, <2>1, <2>2
       DEF objectVars, Inv, TypeOK, NothingHeldBetweenCalls, FrameOfPhase,
           NoProduct
<1> QED
  BY <1>4, <1>5

LEMMA Invariance == Spec => []Inv
<1>1. Inv /\ [Next]_vars => Inv'
  <2> SUFFICES ASSUME Inv, [Next]_vars PROVE Inv'
    OBVIOUS
  <2>1. CASE ObjectStep
    BY <2>1, ObjectStepKeepsInv
  <2>2. CASE CallStep
    BY <2>2, EngineRunsKeepsInv, AllocateTextKeepsInv, AllocateHastKeepsInv,
       PublishKeepsInv, FreeingKeepsInv, ReadingKeepsInv DEF CallStep
  <2>3. CASE UNCHANGED vars
    BY <2>3 DEF vars, Inv, TypeOK, OwnedExactlyOnce, Points, Pointers,
       NothingHeldBetweenCalls, EngineOutlivesHandle, FrameOfPhase
  <2> QED
    BY <2>1, <2>2, <2>3 DEF Next
<1> QED
  BY InitInv, <1>1, PTL DEF Spec

-----------------------------------------------------------------------------
(* Whatever fails, every live block is owned by one frame: none leaks and none *)
(* is freed twice.                                                             *)
THEOREM BuffersOwned == Spec => []OwnedExactlyOnce
BY Invariance, PTL DEF Inv

(* Between two calls of the object no block of an earlier call is left.        *)
THEOREM NothingHeld == Spec => []NothingHeldBetweenCalls
BY Invariance, PTL DEF Inv

(* The C++ engine lives exactly as long as the handle of a live object.        *)
THEOREM EngineOwned == Spec => []EngineOutlivesHandle
BY Invariance, PTL DEF Inv

-----------------------------------------------------------------------------
(* What Rust is handed when the status is OK: the text, and the HAST unless it *)
(* is empty.                                                                   *)
BothOrNothing ==
    /\ pc = "publish" /\ product.hastEmpty => local.hast = Null
    /\ pc \in {"take", "free"} => /\ output.text # Null
                                  /\ output.hast = Null <=> product.hastEmpty

LEMMA BothOrNothingStep ==
    Inv /\ BothOrNothing /\ [Next]_vars => BothOrNothing'
<1> SUFFICES ASSUME Inv, BothOrNothing, [Next]_vars PROVE BothOrNothing'
  OBVIOUS
<1>1. CASE ObjectStep
  BY <1>1 DEF ObjectStep, New, Configure, Dispose, Collect, DecompileBinary,
     RefuseIr, DecompileIr, Reachable, callVars, objectVars, BothOrNothing
<1>2. CASE EngineRuns \/ AllocateText
  BY <1>2 DEF EngineRuns, AllocateText, BothOrNothing
<1>3. CASE AllocateHast
  BY <1>3 DEF AllocateHast, BothOrNothing, Inv, FrameOfPhase
<1>4. CASE Publish
  BY <1>4 DEF Publish, Allocated, BothOrNothing
<1>5. CASE ReportFailure \/ FreeTaken \/ Convert
  BY <1>5 DEF ReportFailure, FreeTaken, Convert, BothOrNothing
<1>6. CASE TakeOutput
  BY <1>6 DEF TakeOutput, BothOrNothing
<1>7. CASE UNCHANGED vars
  BY <1>7 DEF vars, BothOrNothing
<1> QED
  BY <1>1, <1>2, <1>3, <1>4, <1>5, <1>6, <1>7 DEF Next, CallStep

(* The two buffers are handed over together or not at all, so the check Rust   *)
(* makes of them never fails: a null pointer with a length does not reach it,  *)
(* whichever allocation failed.                                                *)
THEOREM OutputComplete ==
    Spec => [](BothOrNothing /\ (pc = "take" => ~InvalidPointers))
<1>1. Init => BothOrNothing
  BY DEF Init, BothOrNothing
<1>2. BothOrNothing => (pc = "take" => ~InvalidPointers)
  BY DEF BothOrNothing, InvalidPointers
<1> QED
  BY <1>1, <1>2, BothOrNothingStep, Invariance, PTL DEF Spec

(* An object that was never constructed has had no engine.                     *)
UnbornHasNone == object = "unborn" => engine = "none"

LEMMA UnbornInvariance == Spec => []UnbornHasNone
<1>1. Init => UnbornHasNone
  BY DEF Init, UnbornHasNone
<1>2. Inv /\ UnbornHasNone /\ [Next]_vars => UnbornHasNone'
  <2> SUFFICES ASSUME Inv, UnbornHasNone, [Next]_vars PROVE UnbornHasNone'
    OBVIOUS
  <2>1. CASE CallStep
    BY <2>1, CallStepKeepsObject DEF objectVars, UnbornHasNone
  <2>2. CASE ObjectStep
    BY <2>2 DEF ObjectStep, New, Configure, Dispose, Collect, DecompileBinary,
       RefuseIr, DecompileIr, Reachable, callVars, objectVars, UnbornHasNone
  <2>3. CASE UNCHANGED vars
    BY <2>3 DEF vars, UnbornHasNone
  <2> QED
    BY <2>1, <2>2, <2>3 DEF Next
<1> QED
  BY <1>1, <1>2, Invariance, PTL DEF Spec

(* A step of a call never touches the object, and an engine that was destroyed *)
(* or an object that was disposed or collected stays so: nothing can reach a   *)
(* freed engine through a handle that came back.                               *)
GoneStaysGone ==
    [][/\ engine = "destroyed" => engine' = "destroyed" /\ handle' = "none"
       /\ object \in {"disposed", "collected"} => object' # "live"
       /\ pc # "idle" => UNCHANGED <<object, handle, engine>>]_vars

(* No step of any call brings a destroyed engine or a disposed object back.   *)
THEOREM EngineStaysGone == Spec => GoneStaysGone
<1>1. Inv /\ UnbornHasNone /\ [Next]_vars =>
        [/\ engine = "destroyed" => engine' = "destroyed" /\ handle' = "none"
         /\ object \in {"disposed", "collected"} => object' # "live"
         /\ pc # "idle" => UNCHANGED <<object, handle, engine>>]_vars
  <2> SUFFICES ASSUME Inv, UnbornHasNone, Next
               PROVE  /\ engine = "destroyed" => engine' = "destroyed"
                                                 /\ handle' = "none"
                      /\ object \in {"disposed", "collected"} => object' # "live"
                      /\ pc # "idle" => UNCHANGED <<object, handle, engine>>
    OBVIOUS
  <2>1. CASE CallStep
    BY <2>1, CallStepKeepsObject
       DEF objectVars, Inv, TypeOK, EngineOutlivesHandle
  <2>2. CASE ObjectStep
    <3>1. engine = "destroyed" => handle = "none" /\ object # "live"
      BY DEF Inv, TypeOK, EngineOutlivesHandle
    <3>2. engine = "destroyed" => object # "unborn"
      BY DEF UnbornHasNone
    <3> QED
      BY <2>2, <3>1, <3>2
         DEF ObjectStep, New, Configure, Dispose, Collect, DecompileBinary,
             RefuseIr, DecompileIr, Reachable, DropHandle, callVars, objectVars,
             Inv, TypeOK, EngineOutlivesHandle
  <2> QED
    BY <2>1, <2>2 DEF Next
<1> QED
  BY <1>1, Invariance, UnbornInvariance, PTL DEF Spec, GoneStaysGone

===============================================================================

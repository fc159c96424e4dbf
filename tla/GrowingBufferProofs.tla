------------------------- MODULE GrowingBufferProofs -------------------------
(* What the growing buffer guarantees for every growth policy with at least    *)
(* two attempts and every set of product sizes.                                *)
EXTENDS GrowingBuffer, TLAPS

-----------------------------------------------------------------------------
(* The inductive invariant: while a call runs, the buffer tells the history of *)
(* the products. After the first answer it has either its first size or, when *)
(* all products had the same size, exactly that product's room.               *)
AttemptsLeft == phase = "calling" => attempt < MaxAttempts

AnswerFits ==
    phase = "answered" =>
        /\ attempt > 0
        /\ answer.status \in {"ok", "outOfMemory", "internal"}
        /\ answer.status # "internal" => answer.outLen = Needed(caller, product)
        /\ answer.status = "ok" => answer.outLen <= cap
        /\ answer.status = "outOfMemory" => answer.outLen > cap

Capacity == /\ caller # "tool" => cap <= Max
            /\ phase = "calling" => cap >= Initial + attempt
            /\ phase = "answered" => cap + 1 >= Initial + attempt

StableCapacity ==
    /\ phase = "calling" /\ stable /\ attempt > 0 =>
           attempt = 1 /\ cap = Needed(caller, product)
    /\ phase = "answered" /\ stable =>
           /\ attempt <= 2
           /\ attempt = 2 => answer.status # "outOfMemory"

Inv == /\ TypeOK
       /\ AttemptsLeft
       /\ AnswerFits
       /\ Capacity
       /\ StableCapacity
       /\ ReturnsLastProduct
       /\ StableProductDelivered

-----------------------------------------------------------------------------
LEMMA InitInv == Init => Inv
BY PolicyAssumption DEF Init, Inv, TypeOK, AttemptsLeft, AnswerFits, Capacity,
   StableCapacity, ReturnsLastProduct, StableProductDelivered, Finished,
   Callers, NoAnswer, NoResult

LEMMA StartKeepsInv ==
    ASSUME Inv, NEW c \in Callers, Start(c)
    PROVE  Inv'
BY PolicyAssumption
   DEF Start, Inv, TypeOK, AttemptsLeft, AnswerFits, Capacity, StableCapacity,
       ReturnsLastProduct, StableProductDelivered, Finished, NoAnswer, NoResult

LEMMA EngineAnswersKeepsInv ==
    ASSUME Inv, NEW size \in Sizes, EngineAnswers(size)
    PROVE  Inv'
<1> DEFINE room == Needed(caller, size)
<1>1. /\ size \in Nat /\ room \in Nat
      /\ cap \in Nat /\ attempt \in Nat /\ attempt < MaxAttempts
  BY SizesAssumption DEF EngineAnswers, Inv, TypeOK, AttemptsLeft, Needed
<1>2. /\ answer' = [status |-> IF room <= cap THEN "ok" ELSE "outOfMemory",
                    outLen |-> room]
      /\ phase' = "answered" /\ attempt' = attempt + 1 /\ product' = size
      /\ UNCHANGED <<caller, cap, result>>
  BY DEF EngineAnswers
<1>3. stable' \in BOOLEAN
  BY DEF EngineAnswers
<1>4. stable' => stable /\ (attempt > 0 => size = product)
  BY DEF EngineAnswers
<1>5. TypeOK'
  BY <1>1, <1>2, <1>3, PolicyAssumption DEF Inv, TypeOK
<1>6. AttemptsLeft' /\ ReturnsLastProduct' /\ StableProductDelivered'
  BY <1>2 DEF AttemptsLeft, ReturnsLastProduct, StableProductDelivered, Finished
<1>7. Needed(caller, product)' = room
  BY <1>2 DEF Needed
<1>8. AnswerFits'
  BY <1>1, <1>2, <1>7 DEF AnswerFits
<1>9. Capacity'
  BY <1>1, <1>2, PolicyAssumption DEF Capacity, EngineAnswers, Inv
<1>10. ASSUME stable' PROVE attempt' <= 2 /\ (attempt' = 2 => room <= cap)
  <2>1. stable /\ (attempt > 0 => size = product)
    BY <1>4, <1>10
  <2>2. attempt > 0 => attempt = 1 /\ cap = room
    BY <2>1 DEF Inv, StableCapacity, EngineAnswers
  <2> QED
    BY <2>2, <1>1, <1>2
<1>11. StableCapacity'
  BY <1>2, <1>10 DEF StableCapacity
<1> QED
  BY <1>5, <1>6, <1>8, <1>9, <1>11 DEF Inv

LEMMA EngineFailsKeepsInv == ASSUME Inv, EngineFails PROVE Inv'
BY PolicyAssumption
   DEF EngineFails, Inv, TypeOK, AttemptsLeft, AnswerFits, Capacity,
       StableCapacity, ReturnsLastProduct, StableProductDelivered, Finished

LEMMA AcceptKeepsInv ==
    ASSUME Inv, NEW utf8 \in BOOLEAN, Accept(utf8)
    PROVE  Inv'
BY PolicyAssumption
   DEF Accept, Return, Error, Inv, TypeOK, AttemptsLeft, AnswerFits, Capacity,
       StableCapacity, ReturnsLastProduct, StableProductDelivered, Finished,
       Needed, Callers

LEMMA GrowKeepsInv == ASSUME Inv, Grow PROVE Inv'
BY PolicyAssumption
   DEF Grow, MayGrow, WantsMore, Requested, Error, Inv, TypeOK, AttemptsLeft,
       AnswerFits, Capacity, StableCapacity, ReturnsLastProduct,
       StableProductDelivered, Finished, NoResult, Needed, Callers

LEMMA GiveUpKeepsInv == ASSUME Inv, GiveUp PROVE Inv'
BY PolicyAssumption
   DEF GiveUp, MayGrow, WantsMore, Requested, Return, Error, Inv, TypeOK,
       AttemptsLeft, AnswerFits, Capacity, StableCapacity, ReturnsLastProduct,
       StableProductDelivered, Finished, NoResult, Needed, Callers

LEMMA Invariance == Spec => []Inv
<1>1. Inv /\ [Next]_vars => Inv'
  <2> SUFFICES ASSUME Inv, [Next]_vars PROVE Inv'
    OBVIOUS
  <2>1. CASE \E c \in Callers : Start(c)
    BY <2>1, StartKeepsInv
  <2>2. CASE \E size \in Sizes : EngineAnswers(size)
    BY <2>2, EngineAnswersKeepsInv
  <2>3. CASE \E utf8 \in BOOLEAN : Accept(utf8)
    BY <2>3, AcceptKeepsInv
  <2>5. CASE EngineFails \/ Grow \/ GiveUp
    BY <2>5, EngineFailsKeepsInv, GrowKeepsInv, GiveUpKeepsInv
  <2>4. CASE UNCHANGED vars
    BY <2>4 DEF vars, Inv, TypeOK, AttemptsLeft, AnswerFits, Capacity,
       StableCapacity, ReturnsLastProduct, StableProductDelivered, Finished
  <2> QED
    BY <2>1, <2>2, <2>3, <2>4, <2>5 DEF Next, Work
<1> QED
  BY InitInv, <1>1, PTL DEF Spec

-----------------------------------------------------------------------------
(* Every reachable state of a growing buffer is well typed; in particular no   *)
(* call makes more than MaxAttempts engine calls.                              *)
THEOREM BufferTypeCorrect == Spec => []TypeOK
BY Invariance, PTL DEF Inv

(* Whatever the policy, a successful call returns the last product whole.      *)
THEOREM LastProductReturned == Spec => []ReturnsLastProduct
BY Invariance, PTL DEF Inv

(* Whatever the policy, a product of stable size within the maximum is         *)
(* returned after at most two engine calls.                                    *)
THEOREM StableDelivered == Spec => []StableProductDelivered
BY Invariance, PTL DEF Inv

(* The Rust buffer never exceeds the maximum and grows at every retry.         *)
THEOREM PolicyKept == Spec => []GrowthWithinPolicy
<1>1. Inv => GrowthWithinPolicy
  BY DEF Inv, Capacity, GrowthWithinPolicy
<1> QED
  BY Invariance, <1>1, PTL

-----------------------------------------------------------------------------
(* What a call may still do: two steps for each attempt it has left, and the   *)
(* answer it is reading.                                                       *)
StepsLeft == CASE phase = "calling" -> 2 * (MaxAttempts - attempt)
               [] phase = "answered" -> 2 * (MaxAttempts - attempt) + 1
               [] OTHER -> 0

CallAdvances == [][Work => StepsLeft' < StepsLeft]_vars
CallBounded == StepsLeft \in 0..2 * MaxAttempts

(* Whatever sizes the engine reports, every step of a call brings it nearer to *)
(* its end, and it has at most two steps for each of MaxAttempts: the retries  *)
(* cannot go on for ever.                                                      *)
THEOREM CallTerminates == Spec => []CallBounded /\ CallAdvances
<1>1. Inv => CallBounded
  BY PolicyAssumption
     DEF Inv, TypeOK, AttemptsLeft, AnswerFits, CallBounded, StepsLeft
<1>2. Inv /\ [Next]_vars => [Work => StepsLeft' < StepsLeft]_vars
  <2> SUFFICES ASSUME Inv, Work PROVE StepsLeft' < StepsLeft
    OBVIOUS
  <2>1. MaxAttempts \in Nat /\ attempt \in 0..MaxAttempts
    BY PolicyAssumption DEF Inv, TypeOK
  <2>2. CASE (\E size \in Sizes : EngineAnswers(size)) \/ EngineFails
    <3>1. phase = "calling" /\ phase' = "answered" /\ attempt' = attempt + 1
      BY <2>2 DEF EngineAnswers, EngineFails
    <3> QED
      BY <2>1, <3>1 DEF StepsLeft
  <2>3. CASE (\E utf8 \in BOOLEAN : Accept(utf8)) \/ GiveUp
    <3>1. phase = "answered" /\ phase' = "idle"
      BY <2>3 DEF Accept, GiveUp, Return
    <3> QED
      BY <2>1, <3>1 DEF StepsLeft
  <2>4. CASE Grow
    <3>1. phase = "answered" /\ phase' \in {"calling", "idle"}
          /\ attempt' = attempt
      BY <2>4 DEF Grow
    <3> QED
      BY <2>1, <3>1 DEF StepsLeft
  <2> QED
    BY <2>2, <2>3, <2>4 DEF Work
<1> QED
  BY <1>1, <1>2, Invariance, PTL DEF Spec, CallAdvances

==============================================================================

---------------------------- MODULE GrowingBuffer ----------------------------
(* A caller that lends the engine a buffer and grows it: the two Rust calls of *)
(* crates/helix-core/src/ffi.rs (HAST bytes, pseudo-C text), which retry up to *)
(* MaxAttempts times and never beyond Max, and the command line tool           *)
(* engine/tools/helix_tool.cpp, which retries once. Every retry runs the whole *)
(* pipeline again, so the product of one call may differ in size from the      *)
(* product of the next.                                                        *)
EXTENDS Naturals

CONSTANTS
    Initial,      \* INITIAL_OUTPUT_CAPACITY, and buf_size in the tool
    Max,          \* MAX_OUTPUT_CAPACITY
    MaxAttempts,  \* MAX_REALLOC_ATTEMPTS
    Sizes         \* sizes a product may have, its terminator not counted

ASSUME PolicyAssumption == /\ Initial \in Nat \ {0}
                           /\ Max \in Nat
                           /\ Initial <= Max
                           /\ MaxAttempts \in Nat
                           /\ MaxAttempts >= 2
ASSUME SizesAssumption == Sizes \subseteq Nat

Callers == {"hast", "text", "tool"}

VARIABLES
    caller,   \* who called
    phase,    \* idle, calling the engine, reading its answer
    cap,      \* size of the buffer lent
    attempt,  \* engine calls answered so far
    answer,   \* status and *out_len of the last engine call
    product,  \* history: size of the product made by the last engine call
    stable,   \* history: all products of this call so far had that size
    result    \* what the caller returned

vars == <<caller, phase, cap, attempt, answer, product, stable, result>>

NoAnswer == [status |-> "none", outLen |-> 0]
NoResult == [status |-> "none", length |-> 0]

(* Room a product takes in the buffer: text carries its terminator.          *)
Needed(c, size) == IF c = "hast" THEN size ELSE size + 1

Init == /\ caller = "hast" /\ phase = "idle" /\ cap = Initial
        /\ attempt = 0 /\ answer = NoAnswer /\ product = 0
        /\ stable = TRUE /\ result = NoResult

Start(c) ==
    /\ phase = "idle"
    /\ caller' = c
    /\ phase' = "calling"
    /\ cap' = Initial
    /\ attempt' = 0
    /\ answer' = NoAnswer
    /\ product' = 0
    /\ stable' = TRUE
    /\ result' = NoResult

(* Mutant: the required length does not count the terminator. *)
EngineAnswersWithoutTerminator(size) ==
    /\ phase = "calling"
    /\ phase' = "answered"
    /\ attempt' = attempt + 1
    /\ answer' = [status |-> IF Needed(caller, size) <= cap
                             THEN "ok" ELSE "outOfMemory",
                  outLen |-> IF Needed(caller, size) <= cap
                             THEN Needed(caller, size) ELSE size]
    /\ product' = size
    /\ stable' = (stable /\ (attempt > 0 => size = product))
    /\ UNCHANGED <<caller, cap, result>>

(* The engine copies the product if it fits; else it reports the room needed. *)
EngineAnswers(size) ==
    /\ phase = "calling"
    /\ phase' = "answered"
    /\ attempt' = attempt + 1
    /\ answer' = [status |-> IF Needed(caller, size) <= cap
                             THEN "ok" ELSE "outOfMemory",
                  outLen |-> Needed(caller, size)]
    /\ product' = size
    /\ stable' = (stable /\ (attempt > 0 => size = product))
    /\ UNCHANGED <<caller, cap, result>>

(* Any other error leaves *out_len as the caller set it.                     *)
EngineFails ==
    /\ phase = "calling"
    /\ phase' = "answered"
    /\ attempt' = attempt + 1
    /\ answer' = [status |-> "internal", outLen |-> cap]
    /\ UNCHANGED <<caller, cap, product, stable, result>>

Return(r) == /\ phase' = "idle"
             /\ result' = r
             /\ UNCHANGED <<caller, cap, attempt, answer, product, stable>>

Error(status) == [status |-> status, length |-> 0]

(* Mutant: the text keeps its terminator. *)
AcceptWithTerminator(utf8) ==
    /\ phase = "answered"
    /\ answer.status = "ok"
    /\ Return([status |-> "ok", length |-> answer.outLen])

(* The buffer is cut to the product: text loses its terminator and, in Rust,  *)
(* must be UTF-8; a HAST length beyond the buffer would be refused.           *)
Accept(utf8) ==
    /\ phase = "answered"
    /\ answer.status = "ok"
    /\ Return(IF \/ caller = "hast" /\ answer.outLen > cap
                 \/ caller = "text" /\ ~utf8
              THEN Error("internal")
              ELSE [status |-> "ok",
                    length |-> IF caller = "hast" THEN answer.outLen
                                                  ELSE answer.outLen - 1])

(* The buffer asked for: what the engine reported, or twice the current one.  *)
Requested == IF answer.outLen > cap THEN answer.outLen ELSE 2 * cap

WantsMore == answer.status = "outOfMemory"

(* The tool retries once and has no maximum.                                 *)
MayGrow == /\ WantsMore
           /\ IF caller = "tool"
              THEN attempt = 1 /\ answer.outLen > cap
              ELSE Requested > cap /\ Requested <= Max

(* Mutant: one attempt too many. *)
GrowOnceTooOften ==
    /\ phase = "answered"
    /\ MayGrow
    /\ cap' = Requested
    /\ IF attempt <= MaxAttempts
       THEN phase' = "calling" /\ UNCHANGED result
       ELSE phase' = "idle" /\ result' = Error("outOfMemory")
    /\ UNCHANGED <<caller, attempt, answer, product, stable>>

(* Mutant: loop while memory is asked for, with the request clamped to Max. *)
GrowClamped ==
    /\ phase = "answered"
    /\ WantsMore
    /\ cap' = IF Requested <= Max THEN Requested ELSE Max
    /\ phase' = "calling"
    /\ attempt' = 0
    /\ UNCHANGED <<caller, answer, product, stable, result>>

(* Resize and go round the loop again, unless this was the last attempt.     *)
Grow ==
    /\ phase = "answered"
    /\ MayGrow
    /\ cap' = Requested
    /\ IF attempt < MaxAttempts
       THEN phase' = "calling" /\ UNCHANGED result
       ELSE phase' = "idle" /\ result' = Error("outOfMemory")
    /\ UNCHANGED <<caller, attempt, answer, product, stable>>

GiveUp ==
    /\ phase = "answered"
    /\ answer.status # "ok"
    /\ ~MayGrow
    /\ Return(Error(answer.status))

Work == \/ \E size \in Sizes : EngineAnswers(size)
        \/ \E utf8 \in BOOLEAN : Accept(utf8)
        \/ EngineFails \/ Grow \/ GiveUp

Next == (\E c \in Callers : Start(c)) \/ Work

Spec == Init /\ [][Next]_vars
FairSpec == Spec /\ WF_vars(Work)

-----------------------------------------------------------------------------
Finished == phase = "idle" /\ result # NoResult

(* Type invariant of the caller, its buffer and the histories.               *)
TypeOK == /\ caller \in Callers
          /\ phase \in {"idle", "calling", "answered"}
          /\ cap \in Nat
          /\ attempt \in 0..MaxAttempts
          /\ answer \in [status : {"none", "ok", "outOfMemory", "internal"},
                         outLen : Nat]
          /\ product \in Nat
          /\ stable \in BOOLEAN
          /\ result \in [status : {"none", "ok", "outOfMemory", "internal"},
                         length : Nat]

(* A successful call returns the last product whole and nothing else: not its *)
(* terminator, not a byte of a larger buffer, not the size of an earlier run. *)
ReturnsLastProduct ==
    Finished /\ result.status = "ok" =>
        result.length = product /\ Needed(caller, product) <= cap

(* The growth policy delivers: a product of stable size within the maximum is *)
(* returned after at most two engine calls; memory is never the reason to     *)
(* fail. The tool has no maximum.                                             *)
StableProductDelivered ==
    Finished /\ stable /\ result.status # "internal"
    /\ (caller = "tool" \/ Needed(caller, product) <= Max) =>
        result.status = "ok" /\ attempt <= 2

(* The Rust buffer stays within MAX_OUTPUT_CAPACITY, and each retry has a     *)
(* strictly larger buffer than the one before.                                *)
GrowthWithinPolicy ==
    /\ caller # "tool" => cap <= Max
    /\ phase = "calling" => cap >= Initial + attempt

(* Every call ends, whatever sizes the engine reports. The engine's own       *)
(* termination is assumed.                                                    *)
EveryCallEnds == phase # "idle" ~> phase = "idle"
==============================================================================

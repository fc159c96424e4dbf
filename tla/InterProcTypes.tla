---------------------------- MODULE InterProcTypes ----------------------------
(* Types carried from the arguments of calls to the parameters of callees     *)
(* (engine/src/passes/InterProceduralTypePropagation.cpp). The pass collects  *)
(* the types of parameter-register reads, sweeps over all arguments of all    *)
(* calls until a sweep changes nothing or kMaxIter sweeps are done, and then  *)
(* proposes the result for every read of a parameter register.                *)
EXTENDS TypeArbitration, Sequences

CONSTANTS
    Functions,     \* functions of the module
    NoFunction,    \* callee of a call that does not resolve
    Inferred,      \* spellings PropagateTypes leaves on reads
    Reads,         \* reads of parameter registers, in walk order
    Programs       \* sequences of call arguments, in walk order

kMaxParams == 4
kMaxIter == 4
ParamIndex == 0..kMaxParams - 1
Widths == {8, 16, 32, 64}

Type(kind, width) == [kind |-> kind, width |-> width]
Unknown == Type("Unknown", 0)
Kinds == {"Unknown", "Void", "Bool", "Int", "UInt", "Pointer"}
Types == [kind : Kinds, width : Nat]

Argument == [callee : Functions \cup {NoFunction}, param : Nat,
             value : 0..Len(Reads), width : Widths]

ASSUME FunctionsAssumption == NoFunction \notin Functions
ASSUME ReadsAssumption ==
    Reads \in Seq([func : Functions, param : ParamIndex, entry : BOOLEAN,
                   width : Widths])
ASSUME ProgramsAssumption == Programs \subseteq Seq(Argument)

(* Spellings and the types they stand for; the other spellings, such as typed *)
(* pointers, stand for no type (fromString, toString).                        *)
Spelled == {<<"void", Type("Void", 0)>>, <<"bool", Type("Bool", 1)>>,
            <<"void*", Type("Pointer", 64)>>,
            <<"int8_t", Type("Int", 8)>>, <<"int16_t", Type("Int", 16)>>,
            <<"int32_t", Type("Int", 32)>>, <<"int64_t", Type("Int", 64)>>,
            <<"uint8_t", Type("UInt", 8)>>, <<"uint16_t", Type("UInt", 16)>>,
            <<"uint32_t", Type("UInt", 32)>>, <<"uint64_t", Type("UInt", 64)>>}
ASSUME SpelledAssumption ==
    Inferred \cup {x[1] : x \in Spelled} \subseteq Spellings

FromString(s) == IF \E x \in Spelled : x[1] = s
                 THEN (CHOOSE x \in Spelled : x[1] = s)[2] ELSE Unknown
ToSpelling(t) == IF \E x \in Spelled : x[2] = t
                 THEN (CHOOSE x \in Spelled : x[2] = t)[1] ELSE "int64_t"

(* Mutant: a wider integer replaces a narrower one. *)
MergeWider(t, o) ==
    IF \/ t.kind = "Unknown"
       \/ t.kind = "Int" /\ o.kind = "Pointer"
       \/ t.kind = "Int" /\ o.kind = "Int" /\ t.width # o.width /\ o.width > 0
       \/ t.kind = "UInt" /\ o.kind = "Int" /\ t.width = o.width
    THEN o ELSE t

(* mergeFrom: the other type is taken when it says more.                      *)
Merge(t, o) ==
    IF \/ t.kind = "Unknown"
       \/ t.kind = "Int" /\ o.kind = "Pointer"
       \/ t.kind = "Int" /\ o.kind = "Int" /\ t.width > o.width /\ o.width > 0
       \/ t.kind = "UInt" /\ o.kind = "Int" /\ t.width = o.width
    THEN o ELSE t

-----------------------------------------------------------------------------
VARIABLES
    phase,      \* "collect", "sweep", "refine" or "done"
    at,         \* position in Reads or in the arguments
    iter,       \* sweeps finished
    changed,    \* whether the current sweep has changed a type
    funcTypes,  \* param_types of each function
    evidence,   \* the attributes of each read
    arguments   \* the arguments of the calls of this module

vars == <<phase, at, iter, changed, funcTypes, evidence, arguments>>

InferredType(r) == FromString(evidence[r].spelling)

(* The module comes from PropagateTypes, whose types have the strength of the  *)
(* data flow and fit the register that is read.                               *)
Fits(s, width) == IF s \in Pointers THEN width = 64
                  ELSE FromString(s).width <= width
InitialEvidence(r) ==
    {NoEvidence} \cup {Selected(s, "dataflow", DefaultStrength["dataflow"]) :
                         s \in {i \in Inferred : Fits(i, Reads[r].width)}}

Init == /\ phase = "collect" /\ at = 1 /\ iter = 0 /\ changed = FALSE
        /\ funcTypes = [f \in Functions |-> [i \in ParamIndex |-> Unknown]]
        /\ evidence \in [1..Len(Reads) -> UNION {InitialEvidence(r) : r \in 1..Len(Reads)}]
        /\ \A r \in 1..Len(Reads) : evidence[r] \in InitialEvidence(r)
        /\ arguments \in Programs

(* Phase 1. A read in the entry block gives the parameter its inferred type,  *)
(* or the unsigned integer of its width.                                      *)
ReadType(r) == IF evidence[r].strength > 0 THEN InferredType(r)
               ELSE Type("UInt", Reads[r].width)
Collect ==
    /\ phase = "collect" /\ at <= Len(Reads)
    /\ LET r == Reads[at] IN
       funcTypes' = IF r.entry
           THEN [funcTypes EXCEPT ![r.func][r.param] = Merge(@, ReadType(at))]
           ELSE funcTypes
    /\ at' = at + 1
    /\ UNCHANGED <<phase, iter, changed, evidence, arguments>>

BeginSweeps ==
    /\ phase = "collect" /\ at > Len(Reads)
    /\ phase' = "sweep" /\ at' = 1
    /\ UNCHANGED <<iter, changed, funcTypes, evidence, arguments>>

(* Mutant: the width of a narrow argument makes a signed integer. *)
MergeArgumentSigned(t, a) ==
    LET s == IF a.value > 0 /\ evidence[a.value].strength > 0
             THEN Merge(t, InferredType(a.value)) ELSE t
    IN  IF a.width < 64 THEN Merge(s, Type("Int", a.width)) ELSE s

(* What an argument says of a parameter: its inferred type and, when it is     *)
(* narrow, its width.                                                         *)
MergeArgument(t, a) ==
    LET s == IF a.value > 0 /\ evidence[a.value].strength > 0
             THEN Merge(t, InferredType(a.value)) ELSE t
    IN  IF a.width < 64 THEN Merge(s, Type("UInt", a.width)) ELSE s

(* Phase 2. One argument of a sweep; a call that does not resolve and an      *)
(* argument beyond kMaxParams say nothing.                                    *)
Heard(a) == a.callee \in Functions /\ a.param < kMaxParams
Argue ==
    /\ phase = "sweep" /\ at <= Len(arguments)
    /\ LET a == arguments[at]
       IN  IF Heard(a)
           THEN LET t == funcTypes[a.callee][a.param]
                IN  /\ funcTypes' = [funcTypes EXCEPT ![a.callee][a.param]
                                                       = MergeArgument(t, a)]
                    /\ changed' = (changed \/ MergeArgument(t, a) # t)
           ELSE UNCHANGED <<funcTypes, changed>>
    /\ at' = at + 1
    /\ UNCHANGED <<phase, iter, evidence, arguments>>

(* Mutant: the sweeps are not bounded and do not forget that one changed. *)
EndSweepUnbounded ==
    /\ phase = "sweep" /\ at > Len(arguments)
    /\ iter' = iter + 1 /\ at' = 1
    /\ phase' = IF changed THEN phase ELSE "refine"
    /\ UNCHANGED <<changed, funcTypes, evidence, arguments>>

(* The end of a sweep: another one if it changed a type and there is one left. *)
EndSweep ==
    /\ phase = "sweep" /\ at > Len(arguments)
    /\ iter' = iter + 1 /\ at' = 1
    /\ IF changed /\ iter' < kMaxIter
       THEN changed' = FALSE /\ phase' = phase
       ELSE changed' = changed /\ phase' = "refine"
    /\ UNCHANGED <<funcTypes, evidence, arguments>>

(* Mutant: only reads without a type are refined. *)
RefinableUntyped(r, t) == t # Unknown /\ evidence[r].strength = 0

(* Phase 3. Every read of a parameter register is proposed the type of the    *)
(* parameter unless its own is resolved and not wider.                        *)
Refinable(r, t) ==
    /\ t # Unknown
    /\ ~(InferredType(r) # Unknown /\ InferredType(r).width <= t.width)
Refine ==
    /\ phase = "refine" /\ at <= Len(Reads)
    /\ LET t == funcTypes[Reads[at].func][Reads[at].param] IN
       evidence' = IF Refinable(at, t)
           THEN [evidence EXCEPT ![at] = Apply(@, ToSpelling(t), "interprocedural",
                                    DefaultStrength["interprocedural"])]
           ELSE evidence
    /\ at' = at + 1
    /\ UNCHANGED <<phase, iter, changed, funcTypes, arguments>>

Finish ==
    /\ phase = "refine" /\ at > Len(Reads)
    /\ phase' = "done"
    /\ UNCHANGED <<at, iter, changed, funcTypes, evidence, arguments>>

Next == \/ Collect \/ BeginSweeps \/ Argue \/ EndSweep \/ Refine \/ Finish
        \/ phase = "done" /\ UNCHANGED vars

Spec == Init /\ [][Next]_vars

-----------------------------------------------------------------------------
TypeOK ==
    /\ phase \in {"collect", "sweep", "refine", "done"}
    /\ at \in 1..Len(Reads) + Len(arguments) + 1
    /\ iter \in 0..kMaxIter /\ changed \in BOOLEAN
    /\ funcTypes \in [Functions -> [ParamIndex -> Types]]
    /\ evidence \in [1..Len(Reads) -> Evidence]
    /\ arguments \in Programs

(* The bound of the loop never ends it: kMaxIter sweeps always reach the      *)
(* fixed point of the merges, whatever the order of the call sites, so no     *)
(* argument has anything left to say when the types are handed out.           *)
ConvergesWithinBound ==
    phase = "refine" /\ at = 1 =>
        /\ ~changed
        /\ \A i \in 1..Len(arguments) :
              LET a == arguments[i]
                  t == funcTypes[a.callee][a.param]
              IN  Heard(a) => MergeArgument(t, a) = t

(* A parameter type is never invented: it is what a read of that parameter's  *)
(* register or an argument for that parameter says.                           *)
NothingInvented ==
    phase \in {"collect", "sweep"} =>
        \A f \in Functions, p \in ParamIndex :
            LET t == funcTypes[f][p] IN
            \/ t = Unknown
            \/ \E r \in 1..Len(Reads) :
                  Reads[r].func = f /\ Reads[r].param = p /\ t = ReadType(r)
            \/ \E i \in 1..Len(arguments) :
                  LET a == arguments[i] IN
                  /\ a.callee = f /\ a.param = p
                  /\ \/ a.value > 0 /\ t = InferredType(a.value)
                     \/ t = Type("UInt", a.width)

(* In the end no read of a parameter register is wider than the parameter, as  *)
(* the interprocedural source outranks the data flow.                         *)
ReadsNoWider ==
    phase = "done" =>
        \A r \in 1..Len(Reads) :
            LET t == funcTypes[Reads[r].func][Reads[r].param]
            IN  t # Unknown => /\ evidence[r].strength > 0
                               /\ InferredType(r) # Unknown
                               /\ InferredType(r).width <= t.width
===============================================================================

------------------------- MODULE InterProcTypesProofs -------------------------
(* The sweeps of the interprocedural pass converge in three: for any module,  *)
(* any types of its reads and any order of its call sites, the first sweep    *)
(* settles every parameter but the integers, the second settles those, and    *)
(* the third changes nothing. So the bound of four is never what ends them.   *)
EXTENDS InterProcTypes, SequenceTheorems, TLAPS

(* The types the pass handles: an unresolved one has no width.                *)
ResolvedOrUnknown == {t \in Types : t.kind = "Unknown" => t = Unknown}

Merge2(t, c, d) == Merge(Merge(t, c), d)

(* Merging twice keeps to the types.                                          *)
LEMMA MergeType ==
    \A t, o \in ResolvedOrUnknown : Merge(t, o) \in ResolvedOrUnknown
BY DEF Merge, ResolvedOrUnknown

(* The widths and kinds the merges compare.                                   *)
LEMMA Fields ==
    \A t \in ResolvedOrUnknown : t.width \in Nat /\ t.kind \in Kinds
BY DEF ResolvedOrUnknown, Types

(* The merges from an integer: to a pointer, to a narrower integer or nowhere. *)
LEMMA FromInteger ==
    ASSUME NEW t \in ResolvedOrUnknown, t.kind = "Int",
           NEW o \in ResolvedOrUnknown
    PROVE  /\ o.kind = "Pointer" => Merge(t, o) = o
           /\ o.kind = "Int" /\ o.width > 0 /\ o.width < t.width
              => Merge(t, o) = o
           /\ ~(o.kind = "Pointer")
              /\ ~(o.kind = "Int" /\ o.width > 0 /\ o.width < t.width)
              => Merge(t, o) = t
BY Fields DEF Merge

(* Nothing is merged into a pointer.                                          *)
LEMMA FromPointer ==
    ASSUME NEW t, t.kind = "Pointer", NEW o
    PROVE  Merge(t, o) = t
BY DEF Merge

(* What the types c and d of an argument leave behind, they leave alone when  *)
(* they come back, unless they left an integer.                               *)
LEMMA Settles ==
    ASSUME NEW t \in ResolvedOrUnknown, NEW c \in ResolvedOrUnknown,
           NEW d \in ResolvedOrUnknown
    PROVE  \/ Merge2(t, c, d).kind = "Int"
           \/ Merge2(Merge2(t, c, d), c, d) = Merge2(t, c, d)
BY DEF Merge2, Merge, ResolvedOrUnknown, Unknown, Type, Types, Kinds

(* A type that says all about an integer that o says: o is no pointer and no  *)
(* narrower integer.                                                          *)
Covers(t, o) == ~(o.kind = "Pointer")
                /\ ~(o.kind = "Int" /\ o.width > 0 /\ o.width < t.width)

(* What two merges leave of an integer is a pointer, or an integer that       *)
(* covers both and is not wider.                                              *)
LEMMA IntegerAfter ==
    ASSUME NEW t \in ResolvedOrUnknown, t.kind = "Int",
           NEW c \in ResolvedOrUnknown, NEW d \in ResolvedOrUnknown
    PROVE  LET u == Merge2(t, c, d) IN
           \/ u.kind = "Pointer"
           \/ /\ u.kind = "Int" /\ u.width <= t.width
              /\ Covers(u, c) /\ Covers(u, d)
<1> DEFINE s == Merge(t, c)
           u == Merge(s, d)
<1>1. s \in ResolvedOrUnknown
      BY MergeType
<1>2. s.kind = "Pointer" \/ (s.kind = "Int" /\ s.width <= t.width /\ Covers(s, c))
      BY FromInteger, Fields DEF Covers
<1>3. CASE s.kind = "Pointer"
      BY <1>3, FromPointer DEF Merge2
<1>4. CASE s.kind = "Int" /\ s.width <= t.width /\ Covers(s, c)
  <2>1. \/ u.kind = "Pointer"
        \/ u.kind = "Int" /\ u.width <= s.width /\ Covers(u, d)
        BY <1>1, <1>4, FromInteger, Fields DEF Covers
  <2>2. u.kind = "Int" /\ u.width <= s.width /\ Covers(s, c) => Covers(u, c)
        BY <1>1, MergeType, Fields DEF Covers
  <2>3. s.width \in Nat /\ u.width \in Nat /\ t.width \in Nat
        BY <1>1, MergeType, Fields
  <2> QED BY <1>4, <2>1, <2>2, <2>3 DEF Merge2
<1> QED BY <1>2, <1>3, <1>4

(* An integer is left alone by what it covers.                                *)
LEMMA Covered ==
    ASSUME NEW t \in ResolvedOrUnknown, t.kind = "Int" \/ t.kind = "Pointer",
           NEW c \in ResolvedOrUnknown, NEW d \in ResolvedOrUnknown,
           t.kind = "Int" => Covers(t, c) /\ Covers(t, d)
    PROVE  Merge2(t, c, d) = t
BY FromInteger, FromPointer DEF Merge2, Covers

(* From an integer one merge is enough.                                       *)
LEMMA IntegerSettles ==
    ASSUME NEW t \in ResolvedOrUnknown, t.kind = "Int",
           NEW c \in ResolvedOrUnknown, NEW d \in ResolvedOrUnknown
    PROVE  Merge2(Merge2(t, c, d), c, d) = Merge2(t, c, d)
BY IntegerAfter, Covered, MergeType DEF Merge2

(* An argument that has nothing to say about an integer has nothing to say    *)
(* about what another argument makes of it.                                   *)
LEMMA IntegerStaysSettled ==
    ASSUME NEW t \in ResolvedOrUnknown, t.kind = "Int",
           NEW c \in ResolvedOrUnknown, NEW d \in ResolvedOrUnknown,
           NEW x \in ResolvedOrUnknown, NEW y \in ResolvedOrUnknown,
           Merge2(t, x, y) = t
    PROVE  Merge2(Merge2(t, c, d), x, y) = Merge2(t, c, d)
<1> DEFINE u == Merge2(t, c, d)
<1>1. Covers(t, x) /\ Covers(t, y)
      BY IntegerAfter
<1>2. u \in ResolvedOrUnknown
      BY MergeType DEF Merge2
<1>3. u.kind = "Pointer" \/ (u.kind = "Int" /\ u.width <= t.width)
      BY IntegerAfter
<1>4. u.kind = "Int" => Covers(u, x) /\ Covers(u, y)
      BY <1>1, <1>2, <1>3, Fields DEF Covers
<1> QED BY <1>2, <1>3, <1>4, Covered

(* An argument that has nothing to say about a type has nothing to say about  *)
(* what another argument makes of it, unless that is an integer.              *)
LEMMA StaysSettled ==
    ASSUME NEW t \in ResolvedOrUnknown,
           NEW c \in ResolvedOrUnknown, NEW d \in ResolvedOrUnknown,
           NEW x \in ResolvedOrUnknown, NEW y \in ResolvedOrUnknown,
           t.kind = "Int" \/ Merge2(t, x, y) = t
    PROVE  \/ Merge2(t, c, d).kind = "Int"
           \/ Merge2(Merge2(t, c, d), x, y) = Merge2(t, c, d)
<1> DEFINE s == Merge(t, c)
           u == Merge2(t, c, d)
<1>1. u \in ResolvedOrUnknown /\ s \in ResolvedOrUnknown
      BY MergeType DEF Merge2
<1>2. CASE t.kind = "Int"
      BY <1>1, <1>2, IntegerAfter, FromPointer DEF Merge2
<1>3. CASE t.kind = "UInt"
  <2>1. s = t \/ s.kind = "Int"
        BY <1>3 DEF Merge
  <2>2. CASE s.kind = "Int"
        BY <1>1, <2>2, FromInteger, FromPointer DEF Merge2
  <2>3. CASE s = t
        BY <1>3, <2>3 DEF Merge2, Merge
  <2> QED BY <2>1, <2>2, <2>3
<1>4. CASE t.kind = "Unknown"
  <2>1. t = Unknown /\ Unknown.kind = "Unknown"
        BY <1>4 DEF ResolvedOrUnknown, Unknown, Type
  <2>2. x = Unknown /\ y = Unknown
        BY <2>1 DEF Merge2, Merge, ResolvedOrUnknown
  <2>3. Merge(u, Unknown) = u
        BY <1>1, <2>1 DEF Merge, ResolvedOrUnknown
  <2> QED BY <2>2, <2>3 DEF Merge2
<1>5. CASE t.kind \notin {"Int", "UInt", "Unknown"}
      BY <1>5 DEF Merge2, Merge
<1> QED BY <1>2, <1>3, <1>4, <1>5

-----------------------------------------------------------------------------
(* The two types an argument brings.                                          *)
First(a) == IF a.value > 0 /\ evidence[a.value].strength > 0
            THEN InferredType(a.value) ELSE Unknown
Second(a) == IF a.width < 64 THEN Type("UInt", a.width) ELSE Unknown

(* A spelling stands for a type the pass handles.                             *)
LEMMA FromStringType == \A s : FromString(s) \in ResolvedOrUnknown
<1>1. \A x \in Spelled : x[2] \in ResolvedOrUnknown
      BY DEF Spelled, ResolvedOrUnknown, Types, Kinds, Type, Unknown
<1>2. Unknown \in ResolvedOrUnknown
      BY DEF ResolvedOrUnknown, Types, Kinds, Type, Unknown
<1> TAKE s
<1>3. CASE \E x \in Spelled : x[1] = s
      BY <1>1, <1>3 DEF FromString
<1>4. CASE ~\E x \in Spelled : x[1] = s
      BY <1>2, <1>4 DEF FromString
<1> QED BY <1>3, <1>4

(* The types of an argument are types the pass handles.                       *)
LEMMA ArgumentTypes ==
    ASSUME NEW a \in Argument
    PROVE  First(a) \in ResolvedOrUnknown /\ Second(a) \in ResolvedOrUnknown
<1>1. Unknown \in ResolvedOrUnknown /\ a.width \in Nat
      BY DEF ResolvedOrUnknown, Types, Kinds, Type, Unknown, Argument, Widths
<1>2. Type("UInt", a.width) \in ResolvedOrUnknown
      BY <1>1 DEF ResolvedOrUnknown, Types, Kinds, Type
<1> QED BY <1>1, <1>2, FromStringType DEF First, Second, InferredType

(* An argument merges its two types; an unresolved one changes nothing.       *)
LEMMA ArgumentMerge ==
    ASSUME NEW a \in Argument, NEW t \in ResolvedOrUnknown
    PROVE  MergeArgument(t, a) = Merge2(t, First(a), Second(a))
<1>1. \A u \in ResolvedOrUnknown : Merge(u, Unknown) = u
      BY DEF Merge, ResolvedOrUnknown, Unknown, Type
<1>2. Merge(t, First(a)) \in ResolvedOrUnknown
      BY ArgumentTypes, MergeType
<1> QED BY <1>1, <1>2 DEF MergeArgument, Merge2, First, Second

(* The type of the parameter an argument is for.                              *)
Param(a) == funcTypes[a.callee][a.param]

Quiet(a) == Heard(a) => MergeArgument(Param(a), a) = Param(a)
Settled(a) == Heard(a) => \/ Param(a).kind = "Int"
                          \/ MergeArgument(Param(a), a) = Param(a)

Args == 1..Len(arguments)

(* What the pass knows: the first sweep settles what it has passed, the       *)
(* second silences it, and a third finds nothing to change.                   *)
Typed == /\ phase \in {"collect", "sweep", "refine", "done"}
         /\ at \in Nat \ {0}
         /\ iter \in 0..kMaxIter /\ changed \in BOOLEAN
         /\ funcTypes \in [Functions -> [ParamIndex -> ResolvedOrUnknown]]
         /\ arguments \in Seq(Argument)
         /\ phase = "sweep" => at <= Len(arguments) + 1
Sweeps ==
    phase = "sweep" =>
        /\ iter \in 0..2
        /\ ~changed => \A i \in Args : i < at => Quiet(arguments[i])
        /\ iter = 0 => \A i \in Args : i < at => Settled(arguments[i])
        /\ iter = 1 => /\ \A i \in Args : Settled(arguments[i])
                       /\ \A i \in Args : i < at => Quiet(arguments[i])
        /\ iter = 2 => ~changed /\ \A i \in Args : Quiet(arguments[i])
Swept == phase = "refine" /\ at = 1 =>
             ~changed /\ \A i \in Args : Quiet(arguments[i])
Collects == phase = "collect" => iter = 0 /\ ~changed
IInv == Typed /\ Collects /\ Sweeps /\ Swept

(* The invariant holds at the start.                                          *)
LEMMA InitIInv == Init => IInv
<1> SUFFICES ASSUME Init PROVE IInv
    OBVIOUS
<1>1. Unknown \in ResolvedOrUnknown
      BY DEF ResolvedOrUnknown, Types, Kinds, Type, Unknown
<1>2. Typed
  <2>1. arguments \in Seq(Argument)
        BY ProgramsAssumption DEF Init
  <2>2. funcTypes \in [Functions -> [ParamIndex -> ResolvedOrUnknown]]
        BY <1>1 DEF Init
  <2>3. phase = "collect" /\ at \in Nat \ {0} /\ iter \in 0..kMaxIter
        BY DEF Init, kMaxIter
  <2>4. changed \in BOOLEAN
        BY DEF Init
  <2> QED BY <2>1, <2>2, <2>3, <2>4, Zenon DEF Typed
<1> QED BY <1>2 DEF Init, IInv, Collects, Sweeps, Swept

(* A read in the entry block.                                                 *)
LEMMA CollectStep == IInv /\ Collect => IInv'
<1> SUFFICES ASSUME IInv, Collect PROVE IInv'
    OBVIOUS
<1>1. /\ at \in 1..Len(Reads)
      /\ Reads[at].func \in Functions /\ Reads[at].param \in ParamIndex
      /\ Reads[at].width \in Nat
  <2>1. at \in 1..Len(Reads)
    <3>1. Len(Reads) \in Nat
          BY ReadsAssumption, LenProperties
    <3> QED BY <3>1 DEF IInv, Typed, Collect
  <2>2. Reads[at] \in [func : Functions, param : ParamIndex, entry : BOOLEAN,
                       width : Widths]
        BY <2>1, ReadsAssumption, ElementOfSeq
  <2> QED BY <2>1, <2>2 DEF Widths
<1>2. ReadType(at) \in ResolvedOrUnknown
  <2>1. Type("UInt", Reads[at].width) \in ResolvedOrUnknown
        BY <1>1 DEF ResolvedOrUnknown, Types, Kinds, Type
  <2> QED BY <2>1, FromStringType DEF ReadType, InferredType
<1>3. Merge(funcTypes[Reads[at].func][Reads[at].param], ReadType(at))
        \in ResolvedOrUnknown
      BY <1>1, <1>2, MergeType DEF IInv, Typed
<1>4. funcTypes' \in [Functions -> [ParamIndex -> ResolvedOrUnknown]]
      BY <1>1, <1>3 DEF IInv, Typed, Collect
<1> QED BY <1>4 DEF IInv, Typed, Collect, Collects, Sweeps, Swept

(* The end of the collection.                                                 *)
LEMMA BeginStep == IInv /\ BeginSweeps => IInv'
BY DEF IInv, Typed, BeginSweeps, Collects, Sweeps, Swept, Args

(* What the argument a leaves of its parameter's type.                        *)
LEMMA ArgumentLeaves ==
    ASSUME Typed, NEW a \in Argument, Heard(a),
           funcTypes' = [funcTypes EXCEPT ![a.callee][a.param]
                                     = MergeArgument(Param(a), a)],
           evidence' = evidence
    PROVE  /\ funcTypes' \in [Functions -> [ParamIndex -> ResolvedOrUnknown]]
           /\ Param(a)' = Merge2(Param(a), First(a), Second(a))
           /\ \A b \in Argument :
                 /\ Heard(b)
                 /\ ~(b.callee = a.callee /\ b.param = a.param)
                 => Param(b)' = Param(b)
           /\ \A b \in Argument :
                 b.callee = a.callee /\ b.param = a.param
                 => Param(b) = Param(a) /\ Param(b)' = Param(a)'
<1>1. a.callee \in Functions /\ a.param \in ParamIndex
      BY DEF Heard, Argument, ParamIndex, kMaxParams
<1>2. Param(a) \in ResolvedOrUnknown
      BY <1>1 DEF Param, Typed
<1>3. MergeArgument(Param(a), a) = Merge2(Param(a), First(a), Second(a))
      BY <1>2, ArgumentMerge
<1>4. MergeArgument(Param(a), a) \in ResolvedOrUnknown
      BY <1>2, <1>3, ArgumentTypes, MergeType DEF Merge2
<1>5. funcTypes' \in [Functions -> [ParamIndex -> ResolvedOrUnknown]]
      BY <1>1, <1>4 DEF Typed
<1>6. Param(a)' = MergeArgument(Param(a), a)
      BY <1>1 DEF Param, Typed
<1>7. \A b \in Argument :
         Heard(b) => b.callee \in Functions /\ b.param \in ParamIndex
      BY DEF Heard, Argument, ParamIndex, kMaxParams
<1>8. \A b \in Argument :
         Heard(b) /\ ~(b.callee = a.callee /\ b.param = a.param)
         => Param(b)' = Param(b)
      BY <1>1, <1>7 DEF Param, Typed
<1>9. \A b \in Argument :
         b.callee = a.callee /\ b.param = a.param
         => Param(b) = Param(a) /\ Param(b)' = Param(a)'
      BY DEF Param
<1> QED BY <1>3, <1>5, <1>6, <1>8, <1>9

(* Being quiet or settled in the next state, said in this one.                *)
LEMMA NextQuiet ==
    ASSUME evidence' = evidence, NEW b \in Argument
    PROVE  /\ Quiet(b)' <=> (Heard(b) => MergeArgument(Param(b)', b) = Param(b)')
           /\ Settled(b)' <=> (Heard(b) => \/ Param(b)'.kind = "Int"
                                            \/ MergeArgument(Param(b)', b) = Param(b)')
BY DEF Quiet, Settled, MergeArgument, InferredType, Heard

(* What one argument does to the others: nobody who was settled is unsettled,  *)
(* the argument itself is settled, and where all are settled already it is    *)
(* quiet and nobody who was quiet speaks up.                                  *)
LEMMA Hearing ==
    ASSUME Typed, NEW a \in Argument, Heard(a), NEW b \in Argument,
           funcTypes' = [funcTypes EXCEPT ![a.callee][a.param]
                                     = MergeArgument(Param(a), a)],
           evidence' = evidence
    PROVE  /\ Settled(b) => Settled(b)'
           /\ Settled(a)'
           /\ Settled(a) => Quiet(a)'
           /\ Settled(a) /\ Quiet(b) => Quiet(b)'
<1> DEFINE t == Param(a)
           u == Merge2(t, First(a), Second(a))
<1>1. /\ Param(a)' = u
      /\ Heard(b) /\ ~(b.callee = a.callee /\ b.param = a.param)
         => Param(b)' = Param(b)
      /\ b.callee = a.callee /\ b.param = a.param
         => Param(b) = t /\ Param(b)' = u
      BY ArgumentLeaves
<1>2. t \in ResolvedOrUnknown
  <2>1. a.callee \in Functions /\ a.param \in ParamIndex
        BY DEF Heard, Argument, ParamIndex, kMaxParams
  <2> QED BY <2>1 DEF Param, Typed
<1>3. /\ First(a) \in ResolvedOrUnknown /\ Second(a) \in ResolvedOrUnknown
      /\ First(b) \in ResolvedOrUnknown /\ Second(b) \in ResolvedOrUnknown
      BY ArgumentTypes
<1>4. u \in ResolvedOrUnknown
      BY <1>2, <1>3, MergeType DEF Merge2
<1>5. /\ MergeArgument(t, a) = u
      /\ MergeArgument(u, a) = Merge2(u, First(a), Second(a))
      /\ MergeArgument(t, b) = Merge2(t, First(b), Second(b))
      /\ MergeArgument(u, b) = Merge2(u, First(b), Second(b))
      BY <1>2, <1>4, ArgumentMerge
<1> HIDE DEF u, t
<1>6. Settled(a)'
  <2>1. u.kind = "Int" \/ Merge2(u, First(a), Second(a)) = u
        BY <1>2, <1>3, Settles DEF u
  <2> QED BY <1>1, <1>5, <2>1, NextQuiet
<1>7. Settled(a) => t.kind = "Int" \/ u = t
      BY <1>5 DEF Settled, t
<1>8. Settled(a) => Quiet(a)'
  <2>1. t.kind = "Int" => Merge2(u, First(a), Second(a)) = u
        BY <1>2, <1>3, IntegerSettles DEF u
  <2>2. u = t => Merge2(u, First(a), Second(a)) = u
        BY DEF u
  <2> QED BY <1>1, <1>5, <1>7, <2>1, <2>2, NextQuiet
<1>9. CASE b.callee = a.callee /\ b.param = a.param
  <2>1. Heard(b)
        BY <1>9 DEF Heard
  <2>2. Settled(b) => Settled(b)'
    <3>1. Settled(b) => t.kind = "Int" \/ Merge2(t, First(b), Second(b)) = t
          BY <1>1, <1>5, <1>9, <2>1 DEF Settled
    <3>2. Settled(b) => u.kind = "Int" \/ Merge2(u, First(b), Second(b)) = u
          BY <1>2, <1>3, <3>1, StaysSettled DEF u
    <3> QED BY <1>1, <1>5, <1>9, <3>2, NextQuiet
  <2>3. Settled(a) /\ Quiet(b) => Quiet(b)'
    <3>1. Quiet(b) => Merge2(t, First(b), Second(b)) = t
          BY <1>1, <1>5, <1>9, <2>1 DEF Quiet
    <3>2. t.kind = "Int" /\ Quiet(b) => Merge2(u, First(b), Second(b)) = u
          BY <1>2, <1>3, <3>1, IntegerStaysSettled DEF u
    <3>3. Settled(a) /\ Quiet(b) => Merge2(u, First(b), Second(b)) = u
          BY <1>7, <3>1, <3>2
    <3> QED BY <1>1, <1>5, <1>9, <3>3, NextQuiet
  <2> QED BY <1>6, <1>8, <2>2, <2>3
<1>10. CASE ~(b.callee = a.callee /\ b.param = a.param)
  <2>1. Heard(b) => Param(b)' = Param(b)
        BY <1>1, <1>10
  <2>2. (Settled(b) => Settled(b)') /\ (Quiet(b) => Quiet(b)')
        BY <2>1, NextQuiet DEF Settled, Quiet
  <2> QED BY <1>6, <1>8, <2>2
<1> QED BY <1>9, <1>10

(* One argument of a sweep.                                                   *)
LEMMA ArgueStep == IInv /\ Argue => IInv'
<1> SUFFICES ASSUME IInv, Argue PROVE IInv'
    OBVIOUS
<1>0. PICK k \in Nat : k = at
      BY DEF IInv, Typed
<1> DEFINE a == arguments[k]
<1>1. /\ phase = "sweep" /\ phase' = "sweep" /\ k \in Args /\ at' = k + 1
      /\ iter' = iter /\ evidence' = evidence /\ arguments' = arguments
      /\ Len(arguments) \in Nat
  <2>1. Len(arguments) \in Nat
        BY LenProperties DEF IInv, Typed
  <2> QED BY <1>0, <2>1 DEF Argue, IInv, Typed, Args
<1>2. \A i \in Args : arguments[i] \in Argument
      BY ElementOfSeq DEF IInv, Typed, Args
<1>3. Args' = Args /\ at' <= Len(arguments) + 1 /\ at' \in Nat \ {0}
      BY <1>1 DEF Args
<1>4. CASE ~Heard(a)
  <2>1. funcTypes' = funcTypes /\ changed' = changed
        BY <1>0, <1>4 DEF Argue
  <2>2. \A i \in Args : /\ Quiet(arguments[i])' <=> Quiet(arguments[i])
                        /\ Settled(arguments[i])' <=> Settled(arguments[i])
        BY <1>1, <2>1 DEF Quiet, Settled, Heard, Param, MergeArgument, InferredType
  <2>3. Quiet(a) /\ Settled(a)
        BY <1>4 DEF Quiet, Settled
  <2>4. \A i \in Args : i < at' => i < at \/ i = k
        BY <1>0, <1>1 DEF Args
  <2>5. Typed'
        BY <1>1, <1>3, <2>1 DEF IInv, Typed
  <2>6. Sweeps'
        BY <1>1, <1>3, <2>1, <2>2, <2>3, <2>4, Zenon DEF IInv, Sweeps
  <2> QED BY <1>1, <2>5, <2>6 DEF IInv, Collects, Swept
<1>5. CASE Heard(a)
  <2>1. /\ funcTypes' = [funcTypes EXCEPT ![a.callee][a.param]
                                      = MergeArgument(Param(a), a)]
        /\ changed' = (changed \/ MergeArgument(Param(a), a) # Param(a))
        BY <1>0, <1>5 DEF Argue, Param
  <2>2. a \in Argument
        BY <1>1, <1>2
  <2>3. \A i \in Args :
          /\ Settled(arguments[i]) => Settled(arguments[i])'
          /\ Settled(a) /\ Quiet(arguments[i]) => Quiet(arguments[i])'
    <3> SUFFICES ASSUME NEW i \in Args
                 PROVE  /\ Settled(arguments[i]) => Settled(arguments[i])'
                        /\ Settled(a) /\ Quiet(arguments[i])
                           => Quiet(arguments[i])'
        OBVIOUS
    <3>1. PICK b \in Argument : b = arguments[i] /\ b = arguments'[i]
          BY <1>1, <1>2
    <3>2. PICK c \in Argument : c = a
          BY <2>2
    <3>3. /\ Settled(b) => Settled(b)'
          /\ Settled(c) /\ Quiet(b) => Quiet(b)'
          BY <1>1, <1>5, <2>1, <3>2, Hearing DEF IInv
    <3> QED BY <3>1, <3>2, <3>3 DEF Settled, Quiet
  <2>4. Settled(a)' /\ (Settled(a) => Quiet(a)')
    <3>1. PICK c \in Argument : c = a /\ c = arguments'[k]
          BY <1>1, <2>2
    <3>2. Settled(c)' /\ (Settled(c) => Quiet(c)')
          BY <1>1, <1>5, <2>1, <3>1, Hearing DEF IInv
    <3> QED BY <3>1, <3>2 DEF Settled, Quiet
  <2>5. \A i \in Args : i < at' => i < at \/ i = k
        BY <1>0, <1>1 DEF Args
  <2>6. Typed'
    <3>1. funcTypes' \in [Functions -> [ParamIndex -> ResolvedOrUnknown]]
          BY <1>1, <1>5, <2>1, <2>2, ArgumentLeaves DEF IInv
    <3>2. changed' \in BOOLEAN
          BY <2>1
    <3> QED BY <1>1, <1>3, <3>1, <3>2 DEF IInv, Typed
  <2>7. ~changed' => \A i \in Args : i < at' => Quiet(arguments[i])'
    <3>1. SUFFICES ASSUME ~changed'
                   PROVE  \A i \in Args : i < at' => Quiet(arguments[i])'
          OBVIOUS
    <3>2. ~changed /\ MergeArgument(Param(a), a) = Param(a)
          BY <2>1, <3>1
    <3>3. Settled(a) /\ \A i \in Args : i < at => Quiet(arguments[i])
          BY <1>1, <3>2 DEF Settled, IInv, Sweeps
    <3> QED BY <2>3, <2>4, <2>5, <3>3
  <2>8. iter = 0 => \A i \in Args : i < at' => Settled(arguments[i])'
        BY <1>1, <2>3, <2>4, <2>5 DEF IInv, Sweeps
  <2>9. iter = 1 => /\ \A i \in Args : Settled(arguments[i])'
                    /\ \A i \in Args : i < at' => Quiet(arguments[i])'
    <3>1. iter = 1 => Settled(a)
          BY <1>1 DEF IInv, Sweeps
    <3> QED BY <1>1, <2>3, <2>4, <2>5, <3>1 DEF IInv, Sweeps
  <2>10. iter = 2 => ~changed' /\ \A i \in Args : Quiet(arguments[i])'
    <3>1. SUFFICES ASSUME iter = 2
                   PROVE  ~changed' /\ \A i \in Args : Quiet(arguments[i])'
          OBVIOUS
    <3>2. ~changed /\ \A i \in Args : Quiet(arguments[i])
          BY <1>1, <3>1 DEF IInv, Sweeps
    <3>3. MergeArgument(Param(a), a) = Param(a) /\ Settled(a)
          BY <1>1, <1>5, <3>2 DEF Quiet, Settled
    <3> QED BY <2>1, <2>3, <3>2, <3>3
  <2>11. Sweeps'
    <3>1. iter' \in 0..2
          BY <1>1 DEF IInv, Sweeps
    <3> QED BY <1>1, <1>3, <2>7, <2>8, <2>9, <2>10, <3>1 DEF Sweeps
  <2> QED BY <1>1, <2>6, <2>11 DEF IInv, Collects, Swept
<1> QED BY <1>4, <1>5

(* The end of a sweep: the third finds nothing changed and is the last.       *)
LEMMA EndStep == IInv /\ EndSweep => IInv'
<1> SUFFICES ASSUME IInv, EndSweep PROVE IInv'
    OBVIOUS
<1>1. /\ phase = "sweep" /\ at' = 1 /\ iter' = iter + 1
      /\ funcTypes' = funcTypes /\ evidence' = evidence /\ arguments' = arguments
      /\ iter \in 0..2
      BY DEF EndSweep, IInv, Sweeps
<1>2. Len(arguments) \in Nat /\ \A i \in Args : i < at
  <2>1. Len(arguments) \in Nat
        BY LenProperties DEF IInv, Typed
  <2> QED BY <2>1 DEF EndSweep, Args, IInv, Typed
<1>3. /\ Args' = Args
      /\ \A i \in Args : /\ Quiet(arguments[i])' <=> Quiet(arguments[i])
                         /\ Settled(arguments[i])' <=> Settled(arguments[i])
      BY <1>1 DEF Args, Quiet, Settled, Heard, Param, MergeArgument, InferredType
<1>4. Typed'
  <2>1. phase' \in {"sweep", "refine"} /\ changed' \in BOOLEAN
        BY <1>1 DEF EndSweep, IInv, Typed
  <2>2. iter' \in 0..kMaxIter /\ at' \in Nat \ {0} /\ at' <= Len(arguments) + 1
        BY <1>1, <1>2 DEF kMaxIter
  <2> QED BY <1>1, <2>1, <2>2 DEF IInv, Typed
<1>5. CASE changed
  <2>1. iter \in {0, 1}
        BY <1>1, <1>5 DEF IInv, Sweeps
  <2>2. changed' = FALSE /\ phase' = "sweep"
    <3>1. iter' < kMaxIter
          BY <1>1, <2>1 DEF kMaxIter
    <3> QED BY <1>1, <1>5, <3>1, Zenon DEF EndSweep
  <2>3. \A i \in Args : ~(i < at')
        BY <1>1, <1>2 DEF Args
  <2>4. iter = 0 => \A i \in Args : Settled(arguments[i])
        BY <1>1, <1>2 DEF IInv, Sweeps
  <2>5. iter = 1 => \A i \in Args : Quiet(arguments[i])
        BY <1>1, <1>2 DEF IInv, Sweeps
  <2>6. iter' \in {1, 2} /\ (iter' = 1 => iter = 0) /\ (iter' = 2 => iter = 1)
        BY <1>1, <2>1
  <2>7. Sweeps'
    <3>1. iter' \in 0..2
          BY <2>6
    <3>2. iter' = 0 => FALSE
          BY <2>6
    <3>3. iter' = 1 => \A i \in Args : Settled(arguments[i])'
          BY <1>3, <2>4, <2>6
    <3>4. iter' = 2 => \A i \in Args : Quiet(arguments[i])'
          BY <1>3, <2>5, <2>6
    <3>5. ~changed'
          BY <2>2
    <3> QED BY <1>3, <2>3, <3>1, <3>2, <3>3, <3>4, <3>5, Zenon DEF Sweeps
  <2> QED BY <1>4, <2>2, <2>7 DEF IInv, Collects, Swept
<1>6. CASE ~changed
  <2>1. \A i \in Args : Quiet(arguments[i])
        BY <1>1, <1>2, <1>6 DEF IInv, Sweeps
  <2>2. phase' = "refine" /\ ~changed'
        BY <1>6 DEF EndSweep
  <2>3. Swept'
    <3>1. \A i \in Args : Quiet(arguments[i])'
          BY <1>3, <2>1
    <3> QED BY <1>3, <2>2, <3>1, Zenon DEF Swept
  <2> QED BY <1>4, <2>2, <2>3 DEF IInv, Collects, Sweeps
<1> QED BY <1>5, <1>6

(* The steps that hand out the types.                                         *)
LEMMA RefineStep == IInv /\ (Refine \/ Finish) => IInv'
<1> SUFFICES ASSUME IInv, Refine \/ Finish PROVE IInv'
    OBVIOUS
<1>1. /\ phase = "refine" /\ phase' \in {"refine", "done"}
      /\ iter' = iter /\ changed' = changed
      /\ funcTypes' = funcTypes /\ arguments' = arguments
      /\ at' \in Nat \ {0} /\ (phase' = "refine" => at' # 1)
      BY DEF Refine, Finish, IInv, Typed
<1> QED BY <1>1 DEF IInv, Typed, Collects, Sweeps, Swept

(* The invariant of the pass.                                                 *)
THEOREM SweepInvariant == Spec => []IInv
<1>1. IInv /\ [Next]_vars => IInv'
  <2> SUFFICES ASSUME IInv, [Next]_vars PROVE IInv'
      OBVIOUS
  <2>1. CASE UNCHANGED vars
    <3>1. /\ phase' = phase /\ at' = at /\ iter' = iter /\ changed' = changed
          /\ funcTypes' = funcTypes /\ evidence' = evidence
          /\ arguments' = arguments
          BY <2>1 DEF vars
    <3>2. Typed' /\ Collects'
          BY <3>1 DEF IInv, Typed, Collects
    <3>3. /\ Args' = Args
          /\ \A i \in Args :
                /\ Quiet(arguments[i])' <=> Quiet(arguments[i])
                /\ Settled(arguments[i])' <=> Settled(arguments[i])
          BY <3>1 DEF Args, Quiet, Settled, Heard, Param, MergeArgument,
                      InferredType
    <3>4. Sweeps' /\ Swept'
          BY <3>1, <3>3 DEF IInv, Sweeps, Swept
    <3> QED BY <3>2, <3>4 DEF IInv
  <2> QED BY <2>1, CollectStep, BeginStep, ArgueStep, EndStep, RefineStep DEF Next
<1> QED BY <1>1, InitIInv, PTL DEF Spec

(* The fixpoint loop over the call sites always ends because a sweep changes  *)
(* nothing, never because kMaxIter is reached, in any order of call sites.    *)
THEOREM SweepsConverge == Spec => []ConvergesWithinBound
<1>1. IInv => ConvergesWithinBound
      BY DEF IInv, Swept, ConvergesWithinBound, Quiet, Param, Args
<1> QED BY <1>1, SweepInvariant, PTL

-----------------------------------------------------------------------------
(* The types that have a spelling, and the unresolved one: what a parameter   *)
(* may have. Only these survive being written to a read and read back.        *)
Spellable == {Unknown} \cup {x[2] : x \in Spelled}

(* A spelling stands for one type.                                            *)
LEMMA SpelledOnce ==
    \A x, y \in Spelled : x[1] = y[1] => x[2] = y[2]
BY DEF Spelled

(* Every type with a spelling is read back as itself.                         *)
LEMMA SpellingRoundTrip ==
    ASSUME NEW t \in Spellable, t # Unknown
    PROVE  /\ \E x \in Spelled : x[1] = ToSpelling(t)
           /\ FromString(ToSpelling(t)) = t
<1>1. PICK x \in Spelled : x[2] = t /\ x[1] = ToSpelling(t)
      BY DEF Spellable, ToSpelling
<1>2. PICK y \in Spelled : y[1] = x[1] /\ FromString(x[1]) = y[2]
      BY DEF FromString
<1> QED BY <1>1, <1>2, SpelledOnce

(* What reads, spellings and widths say is spellable.                         *)
LEMMA SaidIsSpellable ==
    /\ \A s : FromString(s) \in Spellable
    /\ \A w \in Widths : Type("UInt", w) \in Spellable
    /\ Unknown \in Spellable
<1>1. \A s : FromString(s) \in Spellable
  <2> TAKE s
  <2>1. CASE \E x \in Spelled : x[1] = s
        BY <2>1 DEF FromString, Spellable
  <2>2. CASE ~\E x \in Spelled : x[1] = s
        BY <2>2 DEF FromString, Spellable
  <2> QED BY <2>1, <2>2
<1>2. ASSUME NEW w \in Widths PROVE Type("UInt", w) \in Spellable
  <2>1. \E x \in Spelled : x[2] = Type("UInt", w)
        BY DEF Spelled, Widths
  <2> QED BY <2>1 DEF Spellable
<1> QED BY <1>1, <1>2 DEF Spellable

(* A merge takes one of the two types.                                        *)
LEMMA MergeTakesOne == \A t, o : Merge(t, o) = t \/ Merge(t, o) = o
BY DEF Merge

(* Reads are reads of parameter registers of functions.                       *)
LEMMA ReadTyped ==
    ASSUME NEW r \in 1..Len(Reads)
    PROVE  /\ Reads[r].func \in Functions /\ Reads[r].param \in ParamIndex
           /\ Reads[r].width \in Widths
<1>1. Reads[r] \in [func : Functions, param : ParamIndex, entry : BOOLEAN,
                    width : Widths]
      BY ReadsAssumption, ElementOfSeq
<1> QED BY <1>1

LEMMA ReadsCounted == Len(Reads) \in Nat
BY ReadsAssumption, LenProperties

(* What PropagateTypes leaves on a read is evidence, weaker than what this     *)
(* pass proposes, and says nothing when it has no strength.                   *)
LEMMA InitialEvidenceTyped ==
    ASSUME NEW r \in 1..Len(Reads), NEW e \in InitialEvidence(r)
    PROVE  /\ e \in Evidence
           /\ e.strength = 0 \/ e.strength = DefaultStrength["dataflow"]
           /\ e.strength = 0 => FromString(e.spelling) = Unknown
<1>1. CASE e = NoEvidence
  <2>1. ~\E x \in Spelled : x[1] = NoSpelling
        BY SpelledAssumption, SpellingsAssumption
  <2> QED BY <1>1, <2>1 DEF NoEvidence, Evidence, DefaultStrength, FromString
<1>2. ASSUME NEW s \in Inferred,
             e = Selected(s, "dataflow", DefaultStrength["dataflow"])
      PROVE  e \in Evidence /\ e.strength = DefaultStrength["dataflow"]
             /\ e.strength # 0
      BY <1>2, SpelledAssumption DEF Selected, Evidence, DefaultStrength
<1> QED BY <1>1, <1>2 DEF InitialEvidence

(* What can be true of a read: the pass has not come to it yet, or it is no    *)
(* wider than its parameter.                                                  *)
Pending(r) == evidence[r] \in InitialEvidence(r)
Answered(r) == LET t == funcTypes[Reads[r].func][Reads[r].param]
               IN  t # Unknown => /\ evidence[r].strength > 0
                                  /\ InferredType(r) # Unknown
                                  /\ InferredType(r).width <= t.width

(* Everything a parameter is given can be spelled, so that what the last phase *)
(* writes is what it means; the reads are answered in order.                  *)
Positions == /\ phase # "sweep" => at <= Len(Reads) + 1
             /\ arguments \in Programs
             /\ evidence \in [1..Len(Reads) -> Evidence]
Spelt == \A f \in Functions, p \in ParamIndex : funcTypes[f][p] \in Spellable
Answers ==
    \A r \in 1..Len(Reads) :
        /\ phase \in {"collect", "sweep"} => Pending(r)
        /\ phase = "refine" => (IF r < at THEN Answered(r) ELSE Pending(r))
        /\ phase = "done" => Answered(r)
ReadsInv == Typed /\ Positions /\ Spelt /\ Answers

(* The reads start as PropagateTypes leaves them.                             *)
LEMMA InitReadsInv == Init => ReadsInv
<1> SUFFICES ASSUME Init PROVE ReadsInv
    OBVIOUS
<1>1. Typed
      BY InitIInv DEF IInv
<1>2. \A r \in 1..Len(Reads) : Pending(r) /\ evidence[r] \in Evidence
      BY InitialEvidenceTyped DEF Init, Pending
<1>3. Positions
  <2>1. evidence \in [1..Len(Reads) -> Evidence]
        BY <1>2 DEF Init
  <2> QED BY <2>1, ReadsCounted DEF Init, Positions
<1>4. Spelt
      BY SaidIsSpellable DEF Spelt, Init
<1> QED BY <1>1, <1>2, <1>3, <1>4 DEF ReadsInv, Answers, Init

(* What a phase knows of the reads does not change while their attributes and  *)
(* the types of the parameters stay.                                          *)
LEMMA ReadKept ==
    ASSUME evidence' = evidence, NEW r \in 1..Len(Reads)
    PROVE  /\ Pending(r)' <=> Pending(r)
           /\ funcTypes' = funcTypes => (Answered(r)' <=> Answered(r))
BY DEF Pending, Answered, InferredType

(* One parameter is given a spellable type, the others keep theirs.           *)
LEMMA SpeltKept ==
    ASSUME Typed, Spelt, NEW f \in Functions, NEW p \in ParamIndex,
           NEW t \in Spellable,
           funcTypes' = [funcTypes EXCEPT ![f][p] = t]
    PROVE  Spelt'
BY DEF Typed, Spelt

(* What an argument leaves of a spellable type is spellable.                   *)
LEMMA ArgumentSpellable ==
    ASSUME NEW a \in Argument, NEW t \in Spellable
    PROVE  MergeArgument(t, a) \in Spellable
<1>1. a.width \in Widths
      BY DEF Argument
<1>2. InferredType(a.value) \in Spellable /\ Type("UInt", a.width) \in Spellable
      BY <1>1, SaidIsSpellable DEF InferredType
<1>3. \A u, o \in Spellable : Merge(u, o) \in Spellable
      BY MergeTakesOne
<1> QED BY <1>2, <1>3 DEF MergeArgument

(* Collecting and sweeping leave the reads alone.                             *)
LEMMA EarlyReadsInv ==
    IInv /\ ReadsInv /\ (Collect \/ BeginSweeps \/ Argue \/ EndSweep) => ReadsInv'
<1> SUFFICES ASSUME IInv, ReadsInv, Collect \/ BeginSweeps \/ Argue \/ EndSweep
             PROVE  ReadsInv'
    OBVIOUS
<1>1. Typed'
      BY CollectStep, BeginStep, ArgueStep, EndStep DEF IInv
<1>2. /\ phase \in {"collect", "sweep"}
      /\ phase' \in {"collect", "sweep"} \/ (phase' = "refine" /\ at' = 1)
      /\ evidence' = evidence /\ arguments' = arguments
      BY DEF Collect, BeginSweeps, Argue, EndSweep
<1>3. Positions'
  <2>1. phase' # "sweep" => at' <= Len(Reads) + 1
        BY ReadsCounted DEF Collect, BeginSweeps, Argue, EndSweep, Typed, ReadsInv
  <2> QED BY <1>2, <2>1 DEF ReadsInv, Positions
<1>4. Answers'
  <2> SUFFICES ASSUME NEW r \in 1..Len(Reads)
               PROVE  /\ phase' \in {"collect", "sweep"} => Pending(r)'
                      /\ phase' = "refine" =>
                            (IF r < at' THEN Answered(r)' ELSE Pending(r)')
                      /\ phase' = "done" => Answered(r)'
      BY Zenon DEF Answers
  <2>1. Pending(r)'
        BY <1>2, ReadKept DEF ReadsInv, Answers
  <2>2. phase' = "refine" => ~(r < at')
        BY <1>2
  <2> QED BY <1>2, <2>1, <2>2
<1>5. Spelt'
  <2>1. CASE Collect
    <3> DEFINE r == Reads[at]
               t == funcTypes[r.func][r.param]
    <3>1. at \in 1..Len(Reads)
          BY <2>1, ReadsCounted DEF Collect, Typed, ReadsInv
    <3>2. r.func \in Functions /\ r.param \in ParamIndex /\ r.width \in Widths
          BY <3>1, ReadTyped
    <3>3. Merge(t, ReadType(at)) \in Spellable
      <4>1. ReadType(at) \in Spellable
            BY <3>2, SaidIsSpellable DEF ReadType, InferredType
      <4> QED BY <3>2, <4>1, MergeTakesOne DEF ReadsInv, Spelt
    <3>4. CASE r.entry
          BY <2>1, <3>2, <3>3, <3>4, SpeltKept DEF Collect, ReadsInv
    <3>5. CASE ~r.entry
          BY <2>1, <3>5 DEF Collect, ReadsInv, Spelt
    <3> QED BY <3>4, <3>5
  <2>2. CASE Argue
    <3> DEFINE a == arguments[at]
               t == funcTypes[a.callee][a.param]
    <3>1. a \in Argument
          BY <2>2, LenProperties, ElementOfSeq DEF Argue, Typed, ReadsInv
    <3>2. CASE Heard(a)
      <4>1. a.callee \in Functions /\ a.param \in ParamIndex
            BY <3>1, <3>2 DEF Heard, Argument, ParamIndex, kMaxParams
      <4>2. MergeArgument(t, a) \in Spellable
            BY <3>1, <4>1, ArgumentSpellable DEF ReadsInv, Spelt
      <4>3. funcTypes' = [funcTypes EXCEPT ![a.callee][a.param]
                                               = MergeArgument(t, a)]
            BY <2>2, <3>2 DEF Argue
      <4> QED BY <4>1, <4>2, <4>3, SpeltKept DEF ReadsInv
    <3>3. CASE ~Heard(a)
          BY <2>2, <3>3 DEF Argue, ReadsInv, Spelt
    <3> QED BY <3>2, <3>3
  <2>3. CASE BeginSweeps \/ EndSweep
        BY <2>3 DEF BeginSweeps, EndSweep, ReadsInv, Spelt
  <2> QED BY <2>1, <2>2, <2>3
<1> QED BY <1>1, <1>3, <1>4, <1>5 DEF ReadsInv

(* Handing the types out: the read at hand is answered, because the proposal   *)
(* outranks the data flow and its spelling is read back as the type meant.    *)
LEMMA RefineReadsInv == ReadsInv /\ Refine => ReadsInv'
<1> SUFFICES ASSUME ReadsInv, Refine PROVE ReadsInv'
    OBVIOUS
<1>0. PICK k \in 1..Len(Reads) : k = at
      BY ReadsCounted DEF ReadsInv, Typed, Refine
<1> DEFINE t == funcTypes[Reads[k].func][Reads[k].param]
           e == Apply(evidence[k], ToSpelling(t), "interprocedural",
                      DefaultStrength["interprocedural"])
<1>1. /\ phase = "refine" /\ phase' = "refine" /\ at' = k + 1
      /\ iter' = iter /\ changed' = changed /\ funcTypes' = funcTypes
      /\ arguments' = arguments
      /\ evidence' = IF Refinable(k, t) THEN [evidence EXCEPT ![k] = e]
                                        ELSE evidence
      BY <1>0 DEF Refine
<1>2. t \in Spellable /\ t \in ResolvedOrUnknown
      BY ReadTyped DEF ReadsInv, Spelt, Typed
<1>3. evidence[k] \in InitialEvidence(k)
      BY <1>0, <1>1 DEF ReadsInv, Answers, Pending
<1>4. CASE Refinable(k, t)
  <2>1. t # Unknown
        BY <1>4 DEF Refinable
  <2>2. e = Selected(ToSpelling(t), "interprocedural",
                     DefaultStrength["interprocedural"])
        BY <1>3, InitialEvidenceTyped DEF Apply, DefaultStrength
  <2>3. /\ FromString(e.spelling) = t /\ e.strength > 0 /\ e \in Evidence
    <3>1. ToSpelling(t) \in Spellings /\ FromString(ToSpelling(t)) = t
          BY <1>2, <2>1, SpellingRoundTrip, SpelledAssumption
    <3>2. e.spelling = ToSpelling(t) /\ e.strength = 70
          BY <2>2 DEF Selected, DefaultStrength
    <3>3. Selected(ToSpelling(t), "interprocedural", 70) \in Evidence
      <4>1. "interprocedural" \in DOMAIN DefaultStrength
            BY DEF DefaultStrength
      <4> QED BY <3>1, <4>1 DEF Selected, Evidence
    <3>4. e \in Evidence
          BY <2>2, <3>3 DEF DefaultStrength
    <3> QED BY <3>1, <3>2, <3>4
  <2> HIDE DEF e
  <2>4. evidence' \in [1..Len(Reads) -> Evidence] /\ evidence'[k] = e
        BY <1>1, <1>4, <2>3 DEF ReadsInv, Positions
  <2>5. Answered(k)'
    <3>1. t.width \in Nat
          BY <1>2, Fields
    <3> QED BY <1>1, <2>1, <2>3, <2>4, <3>1 DEF Answered, InferredType
  <2>6. \A r \in 1..Len(Reads) : r # k => evidence'[r] = evidence[r]
        BY <1>1, <1>4 DEF ReadsInv, Positions
  <2>7. Answers'
    <3> SUFFICES ASSUME NEW r \in 1..Len(Reads)
                 PROVE  IF r < k + 1 THEN Answered(r)' ELSE Pending(r)'
        BY <1>1, Zenon DEF Answers
    <3>1. CASE r = k
          BY <2>5, <3>1
    <3>2. CASE r # k
      <4>1. /\ Answered(r)' <=> Answered(r)
            /\ Pending(r)' <=> Pending(r)
            BY <1>1, <2>6, <3>2 DEF Answered, Pending, InferredType
      <4>2. IF r < k THEN Answered(r) ELSE Pending(r)
            BY <1>0, <1>1 DEF ReadsInv, Answers
      <4> QED BY <3>2, <4>1, <4>2
    <3> QED BY <3>1, <3>2
  <2> QED BY <1>0, <1>1, <2>4, <2>7, ReadsCounted
          DEF ReadsInv, Typed, Positions, Spelt
<1>5. CASE ~Refinable(k, t)
  <2>1. evidence' = evidence
        BY <1>1, <1>5
  <2>2. Answered(k)
        BY <1>3, <1>5, InitialEvidenceTyped
           DEF Refinable, Answered, InferredType, DefaultStrength, Evidence
  <2>3. Answers'
    <3> SUFFICES ASSUME NEW r \in 1..Len(Reads)
                 PROVE  IF r < k + 1 THEN Answered(r)' ELSE Pending(r)'
        BY <1>1, Zenon DEF Answers
    <3>1. /\ Answered(r)' <=> Answered(r)
          /\ Pending(r)' <=> Pending(r)
          BY <1>1, <2>1, ReadKept
    <3>2. IF r < k THEN Answered(r) ELSE Pending(r)
          BY <1>0, <1>1 DEF ReadsInv, Answers
    <3> QED BY <2>2, <3>1, <3>2
  <2> QED BY <1>0, <1>1, <2>1, <2>3, ReadsCounted
          DEF ReadsInv, Typed, Positions, Spelt
<1> QED BY <1>4, <1>5

(* At the end every read has been answered.                                   *)
LEMMA FinishReadsInv == ReadsInv /\ Finish => ReadsInv'
<1> SUFFICES ASSUME ReadsInv, Finish PROVE ReadsInv'
    OBVIOUS
<1>1. /\ phase = "refine" /\ phase' = "done" /\ at > Len(Reads) /\ at' = at
      /\ iter' = iter /\ changed' = changed /\ funcTypes' = funcTypes
      /\ evidence' = evidence /\ arguments' = arguments
      BY DEF Finish
<1>2. \A r \in 1..Len(Reads) : Answered(r)'
  <2> TAKE r \in 1..Len(Reads)
  <2>1. r < at
        BY <1>1, ReadsCounted DEF ReadsInv, Typed
  <2>2. Answered(r)
        BY <1>1, <2>1 DEF ReadsInv, Answers
  <2> QED BY <1>1, <2>2, ReadKept
<1> QED BY <1>1, <1>2 DEF ReadsInv, Typed, Positions, Spelt, Answers

(* Both invariants hold in every reachable state.                             *)
THEOREM ReadsInvariant == Spec => [](IInv /\ ReadsInv)
<1>1. IInv /\ ReadsInv /\ [Next]_vars => ReadsInv'
  <2> SUFFICES ASSUME IInv, ReadsInv, [Next]_vars PROVE ReadsInv'
      OBVIOUS
  <2>1. CASE UNCHANGED vars
    <3>1. /\ phase' = phase /\ at' = at /\ iter' = iter /\ changed' = changed
          /\ funcTypes' = funcTypes /\ evidence' = evidence
          /\ arguments' = arguments
          BY <2>1 DEF vars
    <3> QED BY <3>1 DEF ReadsInv, Typed, Positions, Spelt, Answers, Answered,
                        Pending, InferredType
  <2> QED BY <2>1, EarlyReadsInv, RefineReadsInv, FinishReadsInv DEF Next
<1> QED BY <1>1, InitReadsInv, SweepInvariant, PTL DEF Spec

(* Type correctness of the pass.                                              *)
THEOREM TypeCorrect == Spec => []TypeOK
<1>1. ReadsInv => TypeOK
  <2> SUFFICES ASSUME ReadsInv PROVE TypeOK
      OBVIOUS
  <2>1. Len(arguments) \in Nat
        BY LenProperties DEF ReadsInv, Typed
  <2>2. at \in 1..Len(Reads) + Len(arguments) + 1
        BY <2>1, ReadsCounted DEF ReadsInv, Typed, Positions
  <2>3. funcTypes \in [Functions -> [ParamIndex -> Types]]
        BY DEF ReadsInv, Typed, ResolvedOrUnknown
  <2> QED BY <2>2, <2>3 DEF ReadsInv, Typed, Positions, TypeOK
<1> QED BY <1>1, ReadsInvariant, PTL

(* In the end no read of a parameter register is wider than its parameter,     *)
(* whatever the data flow had left on it.                                     *)
THEOREM ReadsAnswered == Spec => []ReadsNoWider
<1>1. ReadsInv => ReadsNoWider
      BY DEF ReadsInv, Answers, Answered, ReadsNoWider
<1> QED BY <1>1, ReadsInvariant, PTL

-----------------------------------------------------------------------------
(* A read of the parameter or an argument for it says t.                      *)
Said(f, p, t) ==
    \/ t = Unknown
    \/ \E r \in 1..Len(Reads) :
          Reads[r].func = f /\ Reads[r].param = p /\ t = ReadType(r)
    \/ \E i \in 1..Len(arguments) :
          LET a == arguments[i] IN
          /\ a.callee = f /\ a.param = p
          /\ \/ a.value > 0 /\ t = InferredType(a.value)
             \/ t = Type("UInt", a.width)

(* An argument leaves the type there was or one that it says.                 *)
LEMMA ArgumentSays ==
    ASSUME NEW a, NEW t
    PROVE  \/ MergeArgument(t, a) = t
           \/ a.value > 0 /\ MergeArgument(t, a) = InferredType(a.value)
           \/ MergeArgument(t, a) = Type("UInt", a.width)
BY MergeTakesOne DEF MergeArgument

(* One parameter is given a type that is said, the others keep theirs.        *)
LEMMA SaidKept ==
    ASSUME Typed, NothingInvented, phase \in {"collect", "sweep"},
           evidence' = evidence, arguments' = arguments,
           NEW f \in Functions, NEW p \in ParamIndex, NEW t, Said(f, p, t),
           funcTypes' = [funcTypes EXCEPT ![f][p] = t]
    PROVE  NothingInvented'
<1> SUFFICES ASSUME NEW g \in Functions, NEW q \in ParamIndex
             PROVE  Said(g, q, funcTypes[g][q])'
    BY DEF NothingInvented, Said
<1>1. Said(g, q, funcTypes[g][q])' <=> Said(g, q, funcTypes'[g][q])
      BY DEF Said, ReadType, InferredType
<1>2. CASE g = f /\ q = p
      BY <1>1, <1>2 DEF Typed
<1>3. CASE ~(g = f /\ q = p)
  <2>1. funcTypes'[g][q] = funcTypes[g][q]
        BY <1>3 DEF Typed
  <2>2. Said(g, q, funcTypes[g][q])
        BY DEF NothingInvented, Said
  <2> QED BY <1>1, <2>1, <2>2
<1> QED BY <1>2, <1>3

(* A parameter type is always what a read or an argument says: the merges     *)
(* choose among the types of the module and never make one up.                *)
THEOREM TypesAreSaid == Spec => []NothingInvented
<1>1. Init => NothingInvented
      BY DEF Init, NothingInvented
<1>2. ReadsInv /\ NothingInvented /\ [Next]_vars => NothingInvented'
  <2> SUFFICES ASSUME ReadsInv, NothingInvented, [Next]_vars
               PROVE  NothingInvented'
      OBVIOUS
  <2>1. CASE Collect
    <3> DEFINE r == Reads[at]
               t == funcTypes[r.func][r.param]
    <3>1. at \in 1..Len(Reads)
          BY <2>1, ReadsCounted DEF Collect, Typed, ReadsInv
    <3>2. r.func \in Functions /\ r.param \in ParamIndex
          BY <3>1, ReadTyped
    <3>3. phase = "collect" /\ evidence' = evidence /\ arguments' = arguments
          BY <2>1 DEF Collect
    <3>4. Said(r.func, r.param, t) /\ Said(r.func, r.param, ReadType(at))
          BY <3>1, <3>2, <3>3 DEF NothingInvented, Said
    <3>5. Said(r.func, r.param, Merge(t, ReadType(at)))
          BY <3>4, MergeTakesOne
    <3>6. CASE r.entry
          BY <2>1, <3>2, <3>3, <3>5, <3>6, SaidKept DEF Collect, ReadsInv
    <3>7. CASE ~r.entry
          BY <2>1, <3>3, <3>7
             DEF Collect, NothingInvented, ReadType, InferredType
    <3> QED BY <3>6, <3>7
  <2>2. CASE Argue
    <3>0. PICK k \in 1..Len(arguments) : k = at
          BY <2>2, LenProperties DEF Argue, Typed, ReadsInv
    <3> DEFINE a == arguments[k]
               t == funcTypes[a.callee][a.param]
    <3>1. a \in Argument
          BY ElementOfSeq DEF Typed, ReadsInv
    <3>2. phase = "sweep" /\ evidence' = evidence /\ arguments' = arguments
          BY <2>2 DEF Argue
    <3>3. CASE Heard(a)
      <4>1. a.callee \in Functions /\ a.param \in ParamIndex
            BY <3>1, <3>3 DEF Heard, Argument, ParamIndex, kMaxParams
      <4>2. Said(a.callee, a.param, t)
            BY <3>2, <4>1 DEF NothingInvented, Said
      <4>3. Said(a.callee, a.param, MergeArgument(t, a))
            BY <4>2, ArgumentSays DEF Said
      <4>4. funcTypes' = [funcTypes EXCEPT ![a.callee][a.param]
                                               = MergeArgument(t, a)]
            BY <2>2, <3>0, <3>3 DEF Argue
      <4> QED BY <3>2, <4>1, <4>3, <4>4, SaidKept DEF ReadsInv
    <3>4. CASE ~Heard(a)
          BY <2>2, <3>0, <3>2, <3>4
             DEF Argue, NothingInvented, ReadType, InferredType
    <3> QED BY <3>3, <3>4
  <2>3. CASE BeginSweeps \/ EndSweep \/ UNCHANGED vars
        BY <2>3 DEF BeginSweeps, EndSweep, vars, NothingInvented, ReadType,
                    InferredType
  <2>4. CASE Refine \/ Finish
        BY <2>4 DEF Refine, Finish, NothingInvented
  <2> QED BY <2>1, <2>2, <2>3, <2>4 DEF Next
<1> QED BY <1>1, <1>2, ReadsInvariant, PTL DEF Spec

-----------------------------------------------------------------------------
(* What is left to do at most: a position for every read and argument still   *)
(* to visit, and one for the end of every sweep and phase.                    *)
SweepsLeft == CASE iter = 0 -> 3 * (Len(arguments) + 1)
                [] iter = 1 -> 2 * (Len(arguments) + 1)
                [] iter = 2 -> Len(arguments) + 1
                [] OTHER -> 0
WorkLeft ==
    CASE phase = "collect" -> 4 + 3 * (Len(arguments) + 1)
                              + Len(Reads) + (Len(Reads) + 1 - at)
      [] phase = "sweep" -> 3 + SweepsLeft + Len(Reads) - at
      [] phase = "refine" -> Len(Reads) + 2 - at
      [] OTHER -> 0

(* The pass ends: every step leaves less to do, and what there is to do at the *)
(* start is linear in the module, although the loop over the call sites runs  *)
(* until nothing changes.                                                     *)
PassAdvances == [][WorkLeft' < WorkLeft /\ WorkLeft' \in Nat]_vars
WorkBounded == WorkLeft \in 0..3 * Len(arguments) + 2 * Len(Reads) + 7

LEMMA WorkTyped == IInv /\ ReadsInv => WorkBounded
<1> SUFFICES ASSUME IInv, ReadsInv PROVE WorkBounded
    OBVIOUS
<1>1. /\ Len(arguments) \in Nat /\ Len(Reads) \in Nat
      /\ at \in Nat \ {0} /\ phase \in {"collect", "sweep", "refine", "done"}
      /\ phase # "sweep" => at <= Len(Reads) + 1
      /\ phase = "sweep" => at <= Len(arguments) + 1
      BY ReadsCounted, LenProperties DEF ReadsInv, Typed, Positions
<1>2. CASE phase = "collect"
      BY <1>1, <1>2 DEF WorkLeft, WorkBounded
<1>3. CASE phase = "sweep"
  <2>1. iter \in {0, 1, 2}
        BY <1>3 DEF IInv, Sweeps
  <2>2. CASE iter = 0
        BY <1>1, <1>3, <2>2 DEF WorkLeft, WorkBounded, SweepsLeft
  <2>3. CASE iter = 1
        BY <1>1, <1>3, <2>3 DEF WorkLeft, WorkBounded, SweepsLeft
  <2>4. CASE iter = 2
        BY <1>1, <1>3, <2>4 DEF WorkLeft, WorkBounded, SweepsLeft
  <2> QED BY <2>1, <2>2, <2>3, <2>4
<1>4. CASE phase \in {"refine", "done"}
      BY <1>1, <1>4 DEF WorkLeft, WorkBounded
<1> QED BY <1>1, <1>2, <1>3, <1>4

(* The pass ends: every step leaves less to do, of an amount the number of     *)
(* arguments and reads bounds.                                                *)
THEOREM PassTerminates == Spec => []WorkBounded /\ PassAdvances
<1>1. IInv /\ ReadsInv /\ WorkBounded' /\ [Next]_vars
        => [WorkLeft' < WorkLeft /\ WorkLeft' \in Nat]_vars
  <2> SUFFICES ASSUME IInv, ReadsInv, WorkBounded', Next, ~UNCHANGED vars
               PROVE  WorkLeft' < WorkLeft /\ WorkLeft' \in Nat
      OBVIOUS
  <2>1. /\ Len(arguments) \in Nat /\ Len(Reads) \in Nat
        /\ at \in Nat \ {0}
        /\ phase # "sweep" => at <= Len(Reads) + 1
        /\ phase = "sweep" => at <= Len(arguments) + 1 /\ iter \in {0, 1, 2}
        BY ReadsCounted, LenProperties DEF IInv, ReadsInv, Typed, Positions, Sweeps
  <2>2. WorkLeft' \in Nat
    <3>1. arguments' = arguments
          BY DEF Next, Collect, BeginSweeps, Argue, EndSweep, Refine, Finish,
                 vars
    <3> QED BY <2>1, <3>1 DEF WorkBounded
  <2>3. CASE Collect
        BY <2>1, <2>3 DEF Collect, WorkLeft
  <2>4. CASE BeginSweeps
    <3>1. iter = 0
          BY <2>4 DEF BeginSweeps, IInv, Collects
    <3>2. at = Len(Reads) + 1
          BY <2>1, <2>4 DEF BeginSweeps
    <3> QED BY <2>1, <2>4, <3>1, <3>2 DEF BeginSweeps, WorkLeft, SweepsLeft
  <2>5. CASE Argue
    <3>1. /\ phase = "sweep" /\ phase' = "sweep" /\ at' = at + 1
          /\ at <= Len(arguments) /\ iter' = iter /\ arguments' = arguments
          BY <2>5 DEF Argue
    <3>2. SweepsLeft' = SweepsLeft
          BY <3>1 DEF SweepsLeft
    <3>3. SweepsLeft \in Nat /\ SweepsLeft >= Len(arguments) + 1
      <4>1. CASE iter = 0
            BY <2>1, <4>1 DEF SweepsLeft
      <4>2. CASE iter = 1
            BY <2>1, <4>2 DEF SweepsLeft
      <4>3. CASE iter = 2
            BY <2>1, <4>3 DEF SweepsLeft
      <4> QED BY <2>1, <3>1, <4>1, <4>2, <4>3
    <3> HIDE DEF SweepsLeft
    <3>4. /\ WorkLeft = 3 + SweepsLeft + Len(Reads) - at
          /\ WorkLeft' = 3 + SweepsLeft + Len(Reads) - (at + 1)
          BY <3>1, <3>2 DEF WorkLeft
    <3> QED BY <2>1, <2>2, <3>1, <3>3, <3>4
  <2>6. CASE EndSweep
    <3>1. at = Len(arguments) + 1 /\ at' = 1 /\ iter' = iter + 1
          /\ arguments' = arguments /\ phase = "sweep"
          /\ phase' \in {"sweep", "refine"}
          BY <2>1, <2>6 DEF EndSweep
    <3>2. SweepsLeft \in Nat /\ SweepsLeft >= Len(arguments) + 1
          /\ SweepsLeft' = SweepsLeft - (Len(arguments) + 1)
      <4>1. CASE iter = 0
            BY <2>1, <3>1, <4>1 DEF SweepsLeft
      <4>2. CASE iter = 1
            BY <2>1, <3>1, <4>2 DEF SweepsLeft
      <4>3. CASE iter = 2
            BY <2>1, <3>1, <4>3 DEF SweepsLeft
      <4> QED BY <2>1, <3>1, <4>1, <4>2, <4>3
    <3>3. CASE phase' = "sweep"
          BY <2>1, <3>1, <3>2, <3>3 DEF WorkLeft
    <3>4. CASE phase' = "refine"
          BY <2>1, <3>1, <3>2, <3>4 DEF WorkLeft
    <3> QED BY <3>1, <3>3, <3>4
  <2>7. CASE Refine
        BY <2>1, <2>7 DEF Refine, WorkLeft
  <2>8. CASE Finish
        BY <2>1, <2>8 DEF Finish, WorkLeft
  <2> QED BY <2>2, <2>3, <2>4, <2>5, <2>6, <2>7, <2>8 DEF Next
<1> QED BY <1>1, WorkTyped, ReadsInvariant, PTL DEF Spec, PassAdvances

-----------------------------------------------------------------------------
(* A read changes at most once, and only upwards: the pass gives it the type   *)
(* of its parameter with a higher strength than the one it had, and rejects   *)
(* nothing and marks no conflict on the way.                                  *)
ReadsUpgraded ==
    [][\A r \in 1..Len(Reads) :
         evidence'[r] # evidence[r] =>
             /\ phase = "refine" /\ r = at
             /\ evidence'[r].strength > evidence[r].strength
             /\ InferredType(r)' = funcTypes[Reads[r].func][Reads[r].param]
             /\ ~evidence'[r].conflict]_vars

(* Evidence of a read changes only to become stronger.                        *)
THEOREM NeverDowngraded == Spec => ReadsUpgraded
<1>1. ReadsInv /\ [Next]_vars =>
        [\A r \in 1..Len(Reads) :
           evidence'[r] # evidence[r] =>
               /\ phase = "refine" /\ r = at
               /\ evidence'[r].strength > evidence[r].strength
               /\ InferredType(r)' = funcTypes[Reads[r].func][Reads[r].param]
               /\ ~evidence'[r].conflict]_vars
  <2> SUFFICES ASSUME ReadsInv, Next, NEW r \in 1..Len(Reads),
                      evidence'[r] # evidence[r]
               PROVE  /\ phase = "refine" /\ r = at
                      /\ evidence'[r].strength > evidence[r].strength
                      /\ InferredType(r)' = funcTypes[Reads[r].func][Reads[r].param]
                      /\ ~evidence'[r].conflict
      OBVIOUS
  <2> DEFINE t == funcTypes[Reads[r].func][Reads[r].param]
             e == Apply(evidence[r], ToSpelling(t), "interprocedural",
                        DefaultStrength["interprocedural"])
  <2>1. Refine
        BY DEF Next, Collect, BeginSweeps, Argue, EndSweep, Finish, vars
  <2>2. /\ phase = "refine" /\ r = at /\ Refinable(r, t)
        /\ evidence' = [evidence EXCEPT ![r] = e]
        BY <2>1 DEF Refine, ReadsInv, Positions
  <2>3. evidence[r] \in InitialEvidence(r) /\ t \in Spellable
        BY <2>2, ReadTyped, ReadsCounted
           DEF ReadsInv, Typed, Answers, Pending, Spelt
  <2>4. e = Selected(ToSpelling(t), "interprocedural",
                     DefaultStrength["interprocedural"])
        BY <2>3, InitialEvidenceTyped DEF Apply, DefaultStrength
  <2>5. FromString(ToSpelling(t)) = t
        BY <2>2, <2>3, SpellingRoundTrip DEF Refinable
  <2>6. evidence'[r] = e
        BY <2>2 DEF ReadsInv, Positions
  <2>7. e.spelling = ToSpelling(t) /\ e.strength = 70 /\ ~e.conflict
        BY <2>4 DEF Selected, DefaultStrength
  <2>8. evidence[r].strength \in {0, 40}
        BY <2>3, InitialEvidenceTyped DEF DefaultStrength
  <2> QED BY <2>2, <2>5, <2>6, <2>7, <2>8 DEF InferredType
<1> QED BY <1>1, ReadsInvariant, PTL DEF Spec, ReadsUpgraded

===============================================================================

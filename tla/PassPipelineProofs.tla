-------------------------- MODULE PassPipelineProofs --------------------------
(* The order of the passes, for every set of options and every setting of the  *)
(* HELIX_* variables: what the list guarantees about a pass and those before  *)
(* it, and what follows for the module that is run through it.                *)
EXTENDS PassPipeline, SequenceTheorems, TLAPS

-----------------------------------------------------------------------------
(* Lists of passes.                                                          *)
PassNames ==
    {"RemillToHelixLow", "ApplyDebugTypes", "RecoverStackLayout",
     "RecoverCallingConvention", "HelixLowSimplify", "PropagateTypes",
     "InterProceduralTypePropagation", "RecoverSwitchTables",
     "StructureControlFlow", "StructureAndBridge", "RecoverVariables",
     "BindReturnValues", "EliminateDeadCode", "RegisterSSARename",
     "HelixLowToMid", "HelixMidSimplify", "ConstantFolding", "EscapeAnalysis",
     "MemorySlotPilot", "Canonicalizer", "CSE", "RecoverStructTypes",
     "RecoverMagicDivision", "DevirtualizeIndirectCalls",
     "BridgeStructuredControlFlow", "HelixMidToHigh", "PropagateTypesHigh",
     "LegalizeFunctionContainers"}
Lists == Seq(PassNames)
Elements(s) == {s[i] : i \in 1..Len(s)}
Before(s, i) == {s[j] : j \in 1..i - 1}

(* A list of passes has a length, and what stands in it stands somewhere.     *)
LEMMA ListLength == \A s \in Lists : Len(s) \in Nat
BY LenProperties DEF Lists

(* The two parts of a list made of two.                                       *)
LEMMA Concat ==
    ASSUME NEW s \in Lists, NEW t \in Lists
    PROVE  /\ s \o t \in Lists
           /\ Len(s \o t) = Len(s) + Len(t)
           /\ \A i \in 1..Len(s) : (s \o t)[i] = s[i]
           /\ \A i \in 1..Len(t) : (s \o t)[Len(s) + i] = t[i]
<1>1. Len(s) \in Nat /\ Len(t) \in Nat
      BY ListLength
<1>2. /\ s \o t \in Seq(PassNames) /\ Len(s \o t) = Len(s) + Len(t)
      /\ \A i \in 1..Len(s) + Len(t) :
            (s \o t)[i] = IF i <= Len(s) THEN s[i] ELSE t[i - Len(s)]
      BY ConcatProperties DEF Lists
<1>3. ASSUME NEW i \in 1..Len(s) PROVE (s \o t)[i] = s[i]
      BY <1>1, <1>2
<1>4. ASSUME NEW i \in 1..Len(t) PROVE (s \o t)[Len(s) + i] = t[i]
  <2>1. /\ Len(s) + i \in 1..Len(s) + Len(t) /\ ~(Len(s) + i <= Len(s))
        /\ (Len(s) + i) - Len(s) = i
        BY <1>1
  <2> QED BY <1>2, <2>1
<1> QED BY <1>2, <1>3, <1>4 DEF Lists

LEMMA ConcatElements ==
    ASSUME NEW s \in Lists, NEW t \in Lists
    PROVE  Elements(s \o t) = Elements(s) \cup Elements(t)
<1>1. Len(s) \in Nat /\ Len(t) \in Nat
      BY ListLength
<1>2. ASSUME NEW i \in 1..Len(s) + Len(t)
      PROVE  (s \o t)[i] \in Elements(s) \cup Elements(t)
  <2>1. CASE i \in 1..Len(s)
        BY <2>1, Concat DEF Elements
  <2>2. CASE i \notin 1..Len(s)
    <3>1. i - Len(s) \in 1..Len(t) /\ i = Len(s) + (i - Len(s))
          BY <1>1, <2>2
    <3> QED BY <3>1, Concat DEF Elements
  <2> QED BY <2>1, <2>2
<1>3. ASSUME NEW i \in 1..Len(s) PROVE s[i] \in Elements(s \o t)
  <2>1. i \in 1..Len(s \o t)
        BY <1>1, Concat
  <2> QED BY <2>1, Concat DEF Elements
<1>4. ASSUME NEW i \in 1..Len(t) PROVE t[i] \in Elements(s \o t)
  <2>1. Len(s) + i \in 1..Len(s \o t) /\ (s \o t)[Len(s) + i] = t[i]
        BY <1>1, Concat
  <2> QED BY <2>1 DEF Elements
<1>5. Elements(s \o t) = {(s \o t)[i] : i \in 1..Len(s) + Len(t)}
      BY Concat DEF Elements
<1>6. Elements(s \o t) \subseteq Elements(s) \cup Elements(t)
      BY <1>2, <1>5
<1>7. Elements(s) \subseteq Elements(s \o t) /\ Elements(t) \subseteq Elements(s \o t)
      BY <1>3, <1>4 DEF Elements
<1> QED BY <1>6, <1>7

(* A pass the second part does not have stands in the first, and what comes    *)
(* before it comes before it there.                                           *)
LEMMA InFirst ==
    ASSUME NEW s \in Lists, NEW t \in Lists, NEW i \in 1..Len(s \o t),
           (s \o t)[i] \notin Elements(t)
    PROVE  /\ i \in 1..Len(s) /\ s[i] = (s \o t)[i]
           /\ Before(s \o t, i) = Before(s, i)
<1>1. Len(s) \in Nat /\ Len(t) \in Nat
      BY ListLength
<1>2. i \in 1..Len(s)
  <2> SUFFICES ASSUME i \notin 1..Len(s) PROVE FALSE
      OBVIOUS
  <2>1. i - Len(s) \in 1..Len(t) /\ i = Len(s) + (i - Len(s))
        BY <1>1, Concat
  <2> QED BY <2>1, Concat DEF Elements
<1>3. \A j \in 1..i - 1 : j \in 1..Len(s)
      BY <1>1, <1>2
<1> QED BY <1>2, <1>3, Concat DEF Before

(* A pass the first part does not have stands in the second, after all of the  *)
(* first.                                                                     *)
LEMMA InSecond ==
    ASSUME NEW s \in Lists, NEW t \in Lists, NEW i \in 1..Len(s \o t),
           (s \o t)[i] \notin Elements(s)
    PROVE  /\ i - Len(s) \in 1..Len(t) /\ t[i - Len(s)] = (s \o t)[i]
           /\ Before(s \o t, i) = Elements(s) \cup Before(t, i - Len(s))
<1>1. Len(s) \in Nat /\ Len(t) \in Nat
      BY ListLength
<1>2. i \notin 1..Len(s)
      BY Concat DEF Elements
<1>3. i - Len(s) \in 1..Len(t) /\ i = Len(s) + (i - Len(s)) /\ i > Len(s)
      BY <1>1, <1>2, Concat
<1>4. ASSUME NEW j \in 1..i - 1
      PROVE  (s \o t)[j] \in Elements(s) \cup Before(t, i - Len(s))
  <2>1. CASE j \in 1..Len(s)
        BY <2>1, Concat DEF Elements
  <2>2. CASE j \notin 1..Len(s)
    <3>1. /\ j - Len(s) \in 1..Len(t) /\ j = Len(s) + (j - Len(s))
          /\ j - Len(s) \in 1..(i - Len(s)) - 1
          BY <1>1, <1>3, <2>2
    <3> QED BY <3>1, Concat DEF Before
  <2> QED BY <2>1, <2>2
<1>5. ASSUME NEW j \in 1..Len(s) PROVE s[j] \in Before(s \o t, i)
  <2>1. j \in 1..i - 1
        BY <1>1, <1>3
  <2> QED BY <2>1, Concat DEF Before
<1>6. ASSUME NEW j \in 1..(i - Len(s)) - 1
      PROVE  t[j] \in Before(s \o t, i)
  <2>1. j \in 1..Len(t) /\ Len(s) + j \in 1..i - 1
        BY <1>1, <1>3
  <2>2. (s \o t)[Len(s) + j] = t[j]
        BY <2>1, Concat
  <2> QED BY <2>1, <2>2 DEF Before
<1>7. Before(s \o t, i) \subseteq Elements(s) \cup Before(t, i - Len(s))
      BY <1>4 DEF Before
<1>8. /\ Elements(s) \subseteq Before(s \o t, i)
      /\ Before(t, i - Len(s)) \subseteq Before(s \o t, i)
      BY <1>5, <1>6 DEF Elements, Before
<1>9. t[i - Len(s)] = (s \o t)[i]
      BY <1>3, Concat
<1> QED BY <1>3, <1>7, <1>8, <1>9

(* The lists the pipeline is put together from.                               *)
LEMMA TupleOfOne ==
    ASSUME NEW S, NEW a \in S
    PROVE  <<a>> \in Seq(S)
OBVIOUS

LEMMA ListOfOne ==
    ASSUME NEW a \in PassNames
    PROVE  <<a>> \in Lists /\ Elements(<<a>>) = {a}
<1> DEFINE s == <<a>>
<1>1. s \in Lists
      BY TupleOfOne, Zenon DEF Lists
<1>2. Len(s) = 1 /\ s[1] = a
      OBVIOUS
<1> HIDE DEF s
<1>3. 1..1 = {1}
      OBVIOUS
<1>4. Elements(s) = {a}
      BY <1>2, <1>3 DEF Elements
<1> QED BY <1>1, <1>4 DEF s

LEMMA TupleOfTwo ==
    ASSUME NEW S, NEW a \in S, NEW b \in S
    PROVE  <<a, b>> \in Seq(S)
OBVIOUS

LEMMA ListOfTwo ==
    ASSUME NEW a \in PassNames, NEW b \in PassNames
    PROVE  <<a, b>> \in Lists /\ Elements(<<a, b>>) = {a, b}
<1> DEFINE s == <<a, b>>
<1>1. s \in Lists
      BY TupleOfTwo, Zenon DEF Lists
<1>2. Len(s) = 2 /\ s[1] = a /\ s[2] = b
      OBVIOUS
<1> HIDE DEF s
<1>3. 1..2 = {1, 2}
      OBVIOUS
<1>4. Elements(s) = {a, b}
      BY <1>2, <1>3 DEF Elements
<1> QED BY <1>1, <1>4 DEF s

LEMMA TupleOfThree ==
    ASSUME NEW S, NEW a \in S, NEW b \in S, NEW c \in S
    PROVE  <<a, b, c>> \in Seq(S)
OBVIOUS

LEMMA ListOfThree ==
    ASSUME NEW a \in PassNames, NEW b \in PassNames, NEW c \in PassNames
    PROVE  <<a, b, c>> \in Lists /\ Elements(<<a, b, c>>) = {a, b, c}
<1> DEFINE s == <<a, b, c>>
<1>1. s \in Lists
      BY TupleOfThree, Zenon DEF Lists
<1>2. Len(s) = 3 /\ s[1] = a /\ s[2] = b /\ s[3] = c
      OBVIOUS
<1> HIDE DEF s
<1>3. 1..3 = {1, 2, 3}
      OBVIOUS
<1>4. Elements(s) = {a, b, c}
      BY <1>2, <1>3 DEF Elements
<1> QED BY <1>1, <1>4 DEF s

LEMMA TupleOfFour ==
    ASSUME NEW S, NEW a \in S, NEW b \in S, NEW c \in S, NEW d \in S
    PROVE  <<a, b, c, d>> \in Seq(S)
OBVIOUS

LEMMA ListOfFour ==
    ASSUME NEW a \in PassNames, NEW b \in PassNames, NEW c \in PassNames,
           NEW d \in PassNames
    PROVE  <<a, b, c, d>> \in Lists /\ Elements(<<a, b, c, d>>) = {a, b, c, d}
<1> DEFINE s == <<a, b, c, d>>
<1>1. s \in Lists
      BY TupleOfFour, Zenon DEF Lists
<1>2. Len(s) = 4 /\ s[1] = a /\ s[2] = b /\ s[3] = c /\ s[4] = d
      OBVIOUS
<1> HIDE DEF s
<1>3. 1..4 = {1, 2, 3, 4}
      OBVIOUS
<1>4. Elements(s) = {a, b, c, d}
      BY <1>2, <1>3 DEF Elements
<1> QED BY <1>1, <1>4 DEF s

LEMMA TupleOfFive ==
    ASSUME NEW S, NEW a \in S, NEW b \in S, NEW c \in S, NEW d \in S,
           NEW e \in S
    PROVE  <<a, b, c, d, e>> \in Seq(S)
OBVIOUS

LEMMA ListOfFive ==
    ASSUME NEW a \in PassNames, NEW b \in PassNames, NEW c \in PassNames,
           NEW d \in PassNames, NEW e \in PassNames
    PROVE  <<a, b, c, d, e>> \in Lists /\ Elements(<<a, b, c, d, e>>) = {a, b, c, d, e}
<1> DEFINE s == <<a, b, c, d, e>>
<1>1. s \in Lists
      BY TupleOfFive, Zenon DEF Lists
<1>2. Len(s) = 5 /\ s[1] = a /\ s[2] = b /\ s[3] = c /\ s[4] = d /\ s[5] = e
      OBVIOUS
<1> HIDE DEF s
<1>3. 1..5 = {1, 2, 3, 4, 5}
      OBVIOUS
<1>4. Elements(s) = {a, b, c, d, e}
      BY <1>2, <1>3 DEF Elements
<1> QED BY <1>1, <1>4 DEF s

LEMMA BackList ==
    /\ BackPasses \in Lists
    /\ Elements(BackPasses) = {"HelixMidToHigh", "ApplyDebugTypes",
                               "PropagateTypesHigh", "LegalizeFunctionContainers"}
<1>1. PICK a, b, c, d \in PassNames :
         /\ a = "HelixMidToHigh" /\ b = "ApplyDebugTypes"
         /\ c = "PropagateTypesHigh" /\ d = "LegalizeFunctionContainers"
      BY DEF PassNames
<1>2. BackPasses = <<a, b, c, b, d>>
      BY <1>1 DEF BackPasses
<1>3. BackPasses \in Lists /\ Elements(BackPasses) = {a, b, c, b, d}
      BY <1>2, ListOfFive
<1> QED BY <1>1, <1>3

LEMMA NoList == <<>> \in Lists /\ Elements(<<>>) = {}
<1>1. \A S : <<>> \in Seq(S)
      OBVIOUS
<1>2. Len(<<>>) = 0 /\ 1..0 = {}
      OBVIOUS
<1> QED BY <1>1, <1>2, Zenon DEF Lists, Elements

LEMMA WhenList ==
    ASSUME NEW c \in BOOLEAN, NEW p \in PassNames
    PROVE  When(c, p) \in Lists /\ Elements(When(c, p)) = IF c THEN {p} ELSE {}
<1>1. CASE c
      BY <1>1, ListOfOne DEF When
<1>2. CASE ~c
  <2>1. When(c, p) = <<>>
        BY <1>2 DEF When
  <2> QED BY <1>2, <2>1, NoList
<1> QED BY <1>1, <1>2


(* One list after another, and a pass that may follow a list.                 *)
LEMMA Appended ==
    ASSUME NEW s \in Lists, NEW t \in Lists
    PROVE  s \o t \in Lists /\ Elements(s \o t) = Elements(s) \cup Elements(t)
BY Concat, ConcatElements

LEMMA AppendedWhen ==
    ASSUME NEW s \in Lists, NEW c \in BOOLEAN, NEW p \in PassNames
    PROVE  /\ s \o When(c, p) \in Lists
           /\ Elements(s) \subseteq Elements(s \o When(c, p))
           /\ Elements(s \o When(c, p)) \subseteq Elements(s) \cup {p}
<1>1. When(c, p) \in Lists /\ Elements(When(c, p)) \subseteq {p}
      BY WhenList
<1>2. /\ s \o When(c, p) \in Lists
      /\ Elements(s \o When(c, p)) = Elements(s) \cup Elements(When(c, p))
      BY <1>1, Appended
<1> QED BY <1>1, <1>2

(* A pass that stands at one place of a list and at no other.                  *)
StandsAlone(s, k, a) ==
    /\ k \in 1..Len(s) /\ s[k] = a
    /\ \A i \in 1..Len(s) : s[i] = a => i = k

LEMMA StandsBefore ==
    ASSUME NEW s \in Lists, NEW k, NEW a, StandsAlone(s, k, a),
           NEW i \in 1..Len(s)
    PROVE  a \in Before(s, i) <=> k < i
<1>1. Len(s) \in Nat /\ k \in 1..Len(s)
      BY ListLength DEF StandsAlone
<1>2. \A j \in 1..i - 1 : j \in 1..Len(s)
      BY <1>1
<1>3. k < i <=> k \in 1..i - 1
      BY <1>1
<1> QED BY <1>1, <1>2, <1>3 DEF StandsAlone, Before

LEMMA StandsAppended ==
    ASSUME NEW s \in Lists, NEW t \in Lists, NEW k, NEW a,
           StandsAlone(s, k, a), a \notin Elements(t)
    PROVE  StandsAlone(s \o t, k, a)
<1>1. Len(s) \in Nat /\ Len(t) \in Nat /\ Len(s \o t) = Len(s) + Len(t)
      BY ListLength, Concat
<1>2. k \in 1..Len(s) /\ k \in 1..Len(s \o t) /\ (s \o t)[k] = a
  <2>1. k \in 1..Len(s) /\ s[k] = a
        BY DEF StandsAlone
  <2> QED BY <1>1, <2>1, Concat
<1>3. ASSUME NEW i \in 1..Len(s \o t), (s \o t)[i] = a
      PROVE  i = k
  <2>1. i \in 1..Len(s) /\ s[i] = a
        BY <1>3, InFirst
  <2> QED BY <2>1 DEF StandsAlone
<1> QED BY <1>2, <1>3 DEF StandsAlone

LEMMA StandsPrepended ==
    ASSUME NEW s \in Lists, NEW t \in Lists, NEW k, NEW a,
           StandsAlone(t, k, a), a \notin Elements(s)
    PROVE  StandsAlone(s \o t, Len(s) + k, a)
<1>1. Len(s) \in Nat /\ Len(t) \in Nat /\ Len(s \o t) = Len(s) + Len(t)
      BY ListLength, Concat
<1>2. k \in 1..Len(t) /\ t[k] = a
      BY DEF StandsAlone
<1>3. Len(s) + k \in 1..Len(s \o t) /\ (s \o t)[Len(s) + k] = a
      BY <1>1, <1>2, Concat
<1>4. ASSUME NEW i \in 1..Len(s \o t), (s \o t)[i] = a
      PROVE  i = Len(s) + k
  <2>1. i - Len(s) \in 1..Len(t) /\ t[i - Len(s)] = a
        BY <1>4, InSecond
  <2>2. i - Len(s) = k
        BY <2>1 DEF StandsAlone
  <2> QED BY <1>1, <1>2, <2>2
<1> QED BY <1>3, <1>4 DEF StandsAlone

LEMMA FollowedWhen ==
    ASSUME NEW s \in Lists, NEW c \in BOOLEAN, NEW p \in PassNames,
           NEW k, NEW a, StandsAlone(s, k, a), a # p
    PROVE  StandsAlone(s \o When(c, p), k, a)
<1>1. When(c, p) \in Lists /\ a \notin Elements(When(c, p))
      BY WhenList
<1> QED BY <1>1, StandsAppended

-----------------------------------------------------------------------------
(* The four parts of the pipeline.                                            *)
FrontHead(o, e) ==
    <<"RemillToHelixLow", "ApplyDebugTypes", "RecoverStackLayout",
      "RecoverCallingConvention">>
    \o When(ShouldRun(o, "HelixLowSimplify"), "HelixLowSimplify")
    \o <<"PropagateTypes", "InterProceduralTypePropagation">>
    \o When(ShouldRun(o, "SwitchRecovery"), "RecoverSwitchTables")
    \o <<IF DeferScfBridge(e) THEN "StructureControlFlow"
                              ELSE "StructureAndBridge",
         "RecoverVariables", "BindReturnValues">>

FrontNames == {"RemillToHelixLow", "ApplyDebugTypes", "RecoverStackLayout",
               "RecoverCallingConvention", "HelixLowSimplify", "PropagateTypes",
               "InterProceduralTypePropagation", "RecoverSwitchTables"}

(* What the front does before it may eliminate dead code: it structures the    *)
(* control flow, with the bridge or without, and binds the return values.      *)
LEMMA FrontHeadList ==
    ASSUME NEW o \in Options, NEW e \in Environments
    PROVE  LET structuring == IF DeferScfBridge(e) THEN "StructureControlFlow"
                                                  ELSE "StructureAndBridge"
               last == {structuring, "RecoverVariables", "BindReturnValues"}
           IN  /\ FrontHead(o, e) \in Lists
               /\ last \subseteq Elements(FrontHead(o, e))
               /\ Elements(FrontHead(o, e)) \subseteq FrontNames \cup last
               /\ StandsAlone(FrontHead(o, e), 1, "RemillToHelixLow")
<1> DEFINE structuring == IF DeferScfBridge(e) THEN "StructureControlFlow"
                                               ELSE "StructureAndBridge"
           l1 == <<"RemillToHelixLow", "ApplyDebugTypes", "RecoverStackLayout",
                   "RecoverCallingConvention">>
           l2 == l1 \o When(ShouldRun(o, "HelixLowSimplify"), "HelixLowSimplify")
           l3 == l2 \o <<"PropagateTypes", "InterProceduralTypePropagation">>
           l4 == l3 \o When(ShouldRun(o, "SwitchRecovery"), "RecoverSwitchTables")
           l5 == <<structuring, "RecoverVariables", "BindReturnValues">>
<1>0. FrontHead(o, e) = l4 \o l5
      BY DEF FrontHead
<1>2. FrontNames \subseteq PassNames /\ structuring \in PassNames
      /\ "RecoverVariables" \in PassNames /\ "BindReturnValues" \in PassNames
      BY DEF FrontNames, PassNames
<1> DEFINE First(l) == StandsAlone(l, 1, "RemillToHelixLow")
<1>3. l1 \in Lists /\ Elements(l1) \subseteq FrontNames /\ First(l1)
  <2>1. PICK a, b, c, d \in PassNames :
           /\ a = "RemillToHelixLow" /\ b = "ApplyDebugTypes"
           /\ c = "RecoverStackLayout" /\ d = "RecoverCallingConvention"
        BY DEF PassNames
  <2>2. l1 \in Lists /\ Elements(l1) = {a, b, c, d}
        BY <2>1, ListOfFour
  <2>3. First(l1)
    <3>1. /\ Len(l1) = 4 /\ l1[1] = "RemillToHelixLow"
          /\ l1[2] # "RemillToHelixLow" /\ l1[3] # "RemillToHelixLow"
          /\ l1[4] # "RemillToHelixLow"
          OBVIOUS
    <3> HIDE DEF l1
    <3>2. 1..4 = {1, 2, 3, 4}
          OBVIOUS
    <3> QED BY <3>1, <3>2 DEF StandsAlone
  <2> QED BY <2>1, <2>2, <2>3 DEF FrontNames
<1> HIDE DEF l1, First
<1>4. l2 \in Lists /\ Elements(l2) \subseteq FrontNames /\ First(l2)
  <2>1. ShouldRun(o, "HelixLowSimplify") \in BOOLEAN
        BY DEF ShouldRun
  <2>2. "HelixLowSimplify" \in PassNames /\ "HelixLowSimplify" \in FrontNames
        BY DEF FrontNames, PassNames
  <2>3. First(l2)
        BY <1>3, <2>1, <2>2, FollowedWhen DEF First
  <2> QED BY <1>3, <2>1, <2>2, <2>3, AppendedWhen
<1> HIDE DEF l2
<1>5. l3 \in Lists /\ Elements(l3) \subseteq FrontNames /\ First(l3)
  <2>1. PICK a, b \in PassNames :
           a = "PropagateTypes" /\ b = "InterProceduralTypePropagation"
        BY DEF PassNames
  <2>2. <<a, b>> \in Lists /\ Elements(<<a, b>>) \subseteq FrontNames
        BY <2>1, ListOfTwo DEF FrontNames
  <2>3. l3 = l2 \o <<a, b>>
        BY <2>1
  <2>4. "RemillToHelixLow" \notin Elements(<<a, b>>)
        BY <2>1, ListOfTwo
  <2>5. First(l3)
        BY <1>4, <2>2, <2>3, <2>4, StandsAppended DEF First
  <2> QED BY <1>4, <2>2, <2>3, <2>5, Appended
<1> HIDE DEF l3
<1>6. l4 \in Lists /\ Elements(l4) \subseteq FrontNames /\ First(l4)
  <2>1. ShouldRun(o, "SwitchRecovery") \in BOOLEAN
        BY DEF ShouldRun
  <2>2. "RecoverSwitchTables" \in PassNames /\ "RecoverSwitchTables" \in FrontNames
        BY DEF FrontNames, PassNames
  <2>3. First(l4)
        BY <1>5, <2>1, <2>2, FollowedWhen DEF First
  <2> QED BY <1>5, <2>1, <2>2, <2>3, AppendedWhen
<1> HIDE DEF l4
<1>7. /\ l5 \in Lists
      /\ Elements(l5) = {structuring, "RecoverVariables", "BindReturnValues"}
  <2>1. PICK a, b, c \in PassNames :
           a = structuring /\ b = "RecoverVariables" /\ c = "BindReturnValues"
        BY <1>2
  <2> QED BY <2>1, ListOfThree
<1> HIDE DEF l5, structuring
<1>8. /\ l4 \o l5 \in Lists
      /\ Elements(l4 \o l5) = Elements(l4) \cup Elements(l5)
      BY <1>6, <1>7, Appended
<1>9. First(l4 \o l5)
  <2>1. "RemillToHelixLow" \notin Elements(l5)
        BY <1>7 DEF structuring
  <2> QED BY <1>6, <1>7, <2>1, StandsAppended DEF First
<1> QED BY <1>0, <1>6, <1>7, <1>8, <1>9 DEF structuring, First


MiddleNames == {"RegisterSSARename", "HelixLowToMid", "HelixMidSimplify",
                "ConstantFolding", "EscapeAnalysis", "MemorySlotPilot",
                "Canonicalizer", "CSE", "RecoverStructTypes",
                "RecoverMagicDivision", "DevirtualizeIndirectCalls"}

(* The middle numbers the registers, lowers to the Mid tier, once, and works   *)
(* on that.                                                                   *)
OpensMiddle(l) ==
    /\ StandsAlone(l, 1, "RegisterSSARename")
    /\ StandsAlone(l, 2, "HelixLowToMid")

LEMMA OpensWhen ==
    ASSUME NEW s \in Lists, NEW c \in BOOLEAN, NEW p \in PassNames,
           p # "RegisterSSARename", p # "HelixLowToMid", OpensMiddle(s)
    PROVE  OpensMiddle(s \o When(c, p))
BY FollowedWhen DEF OpensMiddle

LEMMA MiddleList ==
    ASSUME NEW o \in Options, NEW e \in Environments
    PROVE  /\ MiddlePasses(o, e) \in Lists
           /\ Elements(MiddlePasses(o, e)) \subseteq MiddleNames
           /\ OpensMiddle(MiddlePasses(o, e))
<1> DEFINE m0 == <<"RegisterSSARename", "HelixLowToMid">>
           m1 == m0 \o When(ShouldRun(o, "HelixMidSimplify"), "HelixMidSimplify")
           m2 == m1 \o When(ShouldRun(o, "ConstantFolding"), "ConstantFolding")
           m3 == m2 \o When(ShouldRun(o, "EscapeAnalysis") /\ e.escape, "EscapeAnalysis")
           m4 == m3 \o When(e.pilot, "MemorySlotPilot")
           m5 == m4 \o When(e.generic, "Canonicalizer")
           m6 == m5 \o When(e.generic, "CSE")
           m7 == m6 \o When(ShouldRun(o, "StructRecovery"), "RecoverStructTypes")
           m8 == m7 \o When(~o.skip, "RecoverMagicDivision")
           m9 == m8 \o When(~o.skip, "DevirtualizeIndirectCalls")
<1>1. MiddlePasses(o, e) = m9
      BY DEF MiddlePasses
<1>2. MiddleNames \subseteq PassNames
      BY DEF MiddleNames, PassNames
<1>4. m0 \in Lists /\ Elements(m0) \subseteq MiddleNames /\ OpensMiddle(m0)
  <2>1. PICK a, b \in PassNames : a = "RegisterSSARename" /\ b = "HelixLowToMid"
        BY DEF PassNames
  <2>2. m0 \in Lists /\ Elements(m0) = {a, b}
        BY <2>1, ListOfTwo
  <2>3. OpensMiddle(m0)
    <3>1. /\ Len(m0) = 2 /\ m0[1] = "RegisterSSARename" /\ m0[2] = "HelixLowToMid"
          /\ m0[1] # m0[2]
          OBVIOUS
    <3> HIDE DEF m0
    <3>2. 1..2 = {1, 2}
          OBVIOUS
    <3> QED BY <3>1, <3>2 DEF OpensMiddle, StandsAlone
  <2> QED BY <2>1, <2>2, <2>3 DEF MiddleNames
<1> HIDE DEF m0
<1>5. m1 \in Lists /\ Elements(m1) \subseteq MiddleNames /\ OpensMiddle(m1)
  <2>1. PICK c \in BOOLEAN : c = (ShouldRun(o, "HelixMidSimplify"))
        BY EnvironmentsAssumption DEF ShouldRun
  <2>2. m1 = m0 \o When(c, "HelixMidSimplify")
        BY <2>1
  <2>3. /\ "HelixMidSimplify" \in MiddleNames
        /\ "HelixMidSimplify" \notin {"RegisterSSARename", "HelixLowToMid"}
        BY DEF MiddleNames
  <2>4. /\ m0 \o When(c, "HelixMidSimplify") \in Lists
        /\ Elements(m0 \o When(c, "HelixMidSimplify")) \subseteq MiddleNames
        /\ OpensMiddle(m0 \o When(c, "HelixMidSimplify"))
        BY <1>2, <1>4, <2>3, AppendedWhen, OpensWhen
  <2> QED BY <2>2, <2>4
<1> HIDE DEF m1
<1>6. m2 \in Lists /\ Elements(m2) \subseteq MiddleNames /\ OpensMiddle(m2)
  <2>1. PICK c \in BOOLEAN : c = (ShouldRun(o, "ConstantFolding"))
        BY EnvironmentsAssumption DEF ShouldRun
  <2>2. m2 = m1 \o When(c, "ConstantFolding")
        BY <2>1
  <2>3. /\ "ConstantFolding" \in MiddleNames
        /\ "ConstantFolding" \notin {"RegisterSSARename", "HelixLowToMid"}
        BY DEF MiddleNames
  <2>4. /\ m1 \o When(c, "ConstantFolding") \in Lists
        /\ Elements(m1 \o When(c, "ConstantFolding")) \subseteq MiddleNames
        /\ OpensMiddle(m1 \o When(c, "ConstantFolding"))
        BY <1>2, <1>5, <2>3, AppendedWhen, OpensWhen
  <2> QED BY <2>2, <2>4
<1> HIDE DEF m2
<1>7. m3 \in Lists /\ Elements(m3) \subseteq MiddleNames /\ OpensMiddle(m3)
  <2>1. PICK c \in BOOLEAN : c = (ShouldRun(o, "EscapeAnalysis") /\ e.escape)
        BY EnvironmentsAssumption DEF ShouldRun
  <2>2. m3 = m2 \o When(c, "EscapeAnalysis")
        BY <2>1
  <2>3. /\ "EscapeAnalysis" \in MiddleNames
        /\ "EscapeAnalysis" \notin {"RegisterSSARename", "HelixLowToMid"}
        BY DEF MiddleNames
  <2>4. /\ m2 \o When(c, "EscapeAnalysis") \in Lists
        /\ Elements(m2 \o When(c, "EscapeAnalysis")) \subseteq MiddleNames
        /\ OpensMiddle(m2 \o When(c, "EscapeAnalysis"))
        BY <1>2, <1>6, <2>3, AppendedWhen, OpensWhen
  <2> QED BY <2>2, <2>4
<1> HIDE DEF m3
<1>8. m4 \in Lists /\ Elements(m4) \subseteq MiddleNames /\ OpensMiddle(m4)
  <2>1. PICK c \in BOOLEAN : c = (e.pilot)
        BY EnvironmentsAssumption DEF ShouldRun
  <2>2. m4 = m3 \o When(c, "MemorySlotPilot")
        BY <2>1
  <2>3. /\ "MemorySlotPilot" \in MiddleNames
        /\ "MemorySlotPilot" \notin {"RegisterSSARename", "HelixLowToMid"}
        BY DEF MiddleNames
  <2>4. /\ m3 \o When(c, "MemorySlotPilot") \in Lists
        /\ Elements(m3 \o When(c, "MemorySlotPilot")) \subseteq MiddleNames
        /\ OpensMiddle(m3 \o When(c, "MemorySlotPilot"))
        BY <1>2, <1>7, <2>3, AppendedWhen, OpensWhen
  <2> QED BY <2>2, <2>4
<1> HIDE DEF m4
<1>9. m5 \in Lists /\ Elements(m5) \subseteq MiddleNames /\ OpensMiddle(m5)
  <2>1. PICK c \in BOOLEAN : c = (e.generic)
        BY EnvironmentsAssumption DEF ShouldRun
  <2>2. m5 = m4 \o When(c, "Canonicalizer")
        BY <2>1
  <2>3. /\ "Canonicalizer" \in MiddleNames
        /\ "Canonicalizer" \notin {"RegisterSSARename", "HelixLowToMid"}
        BY DEF MiddleNames
  <2>4. /\ m4 \o When(c, "Canonicalizer") \in Lists
        /\ Elements(m4 \o When(c, "Canonicalizer")) \subseteq MiddleNames
        /\ OpensMiddle(m4 \o When(c, "Canonicalizer"))
        BY <1>2, <1>8, <2>3, AppendedWhen, OpensWhen
  <2> QED BY <2>2, <2>4
<1> HIDE DEF m5
<1>10. m6 \in Lists /\ Elements(m6) \subseteq MiddleNames /\ OpensMiddle(m6)
  <2>1. PICK c \in BOOLEAN : c = (e.generic)
        BY EnvironmentsAssumption DEF ShouldRun
  <2>2. m6 = m5 \o When(c, "CSE")
        BY <2>1
  <2>3. /\ "CSE" \in MiddleNames
        /\ "CSE" \notin {"RegisterSSARename", "HelixLowToMid"}
        BY DEF MiddleNames
  <2>4. /\ m5 \o When(c, "CSE") \in Lists
        /\ Elements(m5 \o When(c, "CSE")) \subseteq MiddleNames
        /\ OpensMiddle(m5 \o When(c, "CSE"))
        BY <1>2, <1>9, <2>3, AppendedWhen, OpensWhen
  <2> QED BY <2>2, <2>4
<1> HIDE DEF m6
<1>11. m7 \in Lists /\ Elements(m7) \subseteq MiddleNames /\ OpensMiddle(m7)
  <2>1. PICK c \in BOOLEAN : c = (ShouldRun(o, "StructRecovery"))
        BY EnvironmentsAssumption DEF ShouldRun
  <2>2. m7 = m6 \o When(c, "RecoverStructTypes")
        BY <2>1
  <2>3. /\ "RecoverStructTypes" \in MiddleNames
        /\ "RecoverStructTypes" \notin {"RegisterSSARename", "HelixLowToMid"}
        BY DEF MiddleNames
  <2>4. /\ m6 \o When(c, "RecoverStructTypes") \in Lists
        /\ Elements(m6 \o When(c, "RecoverStructTypes")) \subseteq MiddleNames
        /\ OpensMiddle(m6 \o When(c, "RecoverStructTypes"))
        BY <1>2, <1>10, <2>3, AppendedWhen, OpensWhen
  <2> QED BY <2>2, <2>4
<1> HIDE DEF m7
<1>12. m8 \in Lists /\ Elements(m8) \subseteq MiddleNames /\ OpensMiddle(m8)
  <2>1. PICK c \in BOOLEAN : c = (~o.skip)
        BY EnvironmentsAssumption DEF ShouldRun
  <2>2. m8 = m7 \o When(c, "RecoverMagicDivision")
        BY <2>1
  <2>3. /\ "RecoverMagicDivision" \in MiddleNames
        /\ "RecoverMagicDivision" \notin {"RegisterSSARename", "HelixLowToMid"}
        BY DEF MiddleNames
  <2>4. /\ m7 \o When(c, "RecoverMagicDivision") \in Lists
        /\ Elements(m7 \o When(c, "RecoverMagicDivision")) \subseteq MiddleNames
        /\ OpensMiddle(m7 \o When(c, "RecoverMagicDivision"))
        BY <1>2, <1>11, <2>3, AppendedWhen, OpensWhen
  <2> QED BY <2>2, <2>4
<1> HIDE DEF m8
<1>13. m9 \in Lists /\ Elements(m9) \subseteq MiddleNames /\ OpensMiddle(m9)
  <2>1. PICK c \in BOOLEAN : c = (~o.skip)
        BY EnvironmentsAssumption DEF ShouldRun
  <2>2. m9 = m8 \o When(c, "DevirtualizeIndirectCalls")
        BY <2>1
  <2>3. /\ "DevirtualizeIndirectCalls" \in MiddleNames
        /\ "DevirtualizeIndirectCalls" \notin {"RegisterSSARename", "HelixLowToMid"}
        BY DEF MiddleNames
  <2>4. /\ m8 \o When(c, "DevirtualizeIndirectCalls") \in Lists
        /\ Elements(m8 \o When(c, "DevirtualizeIndirectCalls")) \subseteq MiddleNames
        /\ OpensMiddle(m8 \o When(c, "DevirtualizeIndirectCalls"))
        BY <1>2, <1>12, <2>3, AppendedWhen, OpensWhen
  <2> QED BY <2>2, <2>4
<1> HIDE DEF m9
<1> QED BY <1>1, <1>13


(* The late bridge is there exactly when SCF is not to reach the C-AST builder, *)
(* and is followed by the dead code elimination the front left out.           *)
LateBridged(o, e) == DeferScfBridge(e) /\ ~DirectScfToCast(o, e)

LEMMA LateList ==
    ASSUME NEW o, NEW e
    PROVE  LET late == LateBridge(o, e)
           IN  /\ late \in Lists
               /\ Elements(late) = IF LateBridged(o, e)
                      THEN {"BridgeStructuredControlFlow", "EliminateDeadCode"}
                      ELSE {}
               /\ \A i \in 1..Len(late) : late[i] = "EliminateDeadCode" =>
                      "BridgeStructuredControlFlow" \in Before(late, i)
<1>1. CASE LateBridged(o, e)
  <2>1. PICK a, b \in PassNames :
           a = "BridgeStructuredControlFlow" /\ b = "EliminateDeadCode"
        BY DEF PassNames
  <2>2. LateBridge(o, e) = <<a, b>>
        BY <1>1, <2>1 DEF LateBridge, LateBridged
  <2>3. <<a, b>> \in Lists /\ Elements(<<a, b>>) = {a, b}
        BY ListOfTwo
  <2>4. ASSUME NEW i \in 1..Len(<<a, b>>), <<a, b>>[i] = b
        PROVE  a \in Before(<<a, b>>, i)
    <3>1. Len(<<a, b>>) = 2 /\ <<a, b>>[1] = a /\ a # b
          BY <2>1
    <3>2. i = 2
          BY <2>4, <3>1
    <3>3. 1 \in 1..i - 1
          BY <3>2
    <3> QED BY <3>1, <3>3 DEF Before
  <2> QED BY <1>1, <2>1, <2>2, <2>3, <2>4
<1>2. CASE ~LateBridged(o, e)
  <2>1. LateBridge(o, e) = <<>> /\ Len(<<>>) = 0 /\ 1..0 = {}
        BY <1>2 DEF LateBridge, LateBridged
  <2> QED BY <1>2, <2>1, NoList
<1> QED BY <1>1, <1>2

LEMMA BeforeWithin ==
    ASSUME NEW s \in Lists, NEW i \in 1..Len(s)
    PROVE  Before(s, i) \subseteq Elements(s) /\ s[i] \in Elements(s)
<1>1. Len(s) \in Nat
      BY ListLength
<1>2. \A j \in 1..i - 1 : j \in 1..Len(s)
      BY <1>1
<1> QED BY <1>2 DEF Before, Elements

-----------------------------------------------------------------------------
(* What the order of the passes is for, said of a list alone. Native SCF is    *)
(* never made behind a bridge; nothing lowers a module back from the High     *)
(* tier; dead code goes only after the returns are bound and the control flow *)
(* is bridged; the list reaches the High tier and structures the control      *)
(* flow, and without a bridge only for the C-AST emitter.                     *)
Bridging == {"StructureAndBridge", "BridgeStructuredControlFlow"}

WellOrdered(list, useCast) ==
    /\ \A i \in 1..Len(list) :
          /\ list[i] = "StructureControlFlow" => Before(list, i) \cap Bridging = {}
          /\ list[i] \in {"RemillToHelixLow", "HelixLowToMid"} =>
                "HelixMidToHigh" \notin Before(list, i)
          /\ list[i] = "EliminateDeadCode" =>
                /\ "BindReturnValues" \in Before(list, i)
                /\ Before(list, i) \cap Bridging # {}
    /\ "HelixMidToHigh" \in Elements(list)
    /\ Elements(list) \cap (Bridging \cup {"StructureControlFlow"}) # {}
    /\ Elements(list) \cap Bridging = {} => useCast

(* The list buildPassPipeline makes is well ordered, whatever the options and  *)
(* the environment say.                                                       *)
THEOREM PassOrder ==
    ASSUME NEW o \in Options, NEW e \in Environments
    PROVE  /\ BuildPassPipeline(o, e) \in Lists
           /\ WellOrdered(BuildPassPipeline(o, e), o.useCast)
<1> DEFINE h == FrontHead(o, e)
           w == When(~DeferScfBridge(e), "EliminateDeadCode")
           f == h \o w
           m == MiddlePasses(o, e)
           l == LateBridge(o, e)
           b == BackPasses
           fm == f \o m
           fml == fm \o l
           list == fml \o b
           structuring == IF DeferScfBridge(e) THEN "StructureControlFlow"
                                               ELSE "StructureAndBridge"
<1>1. BuildPassPipeline(o, e) = list
      BY DEF BuildPassPipeline, FrontPasses, FrontHead
<1>2. /\ h \in Lists
      /\ structuring \in Elements(h) /\ "BindReturnValues" \in Elements(h)
      /\ Elements(h) \subseteq FrontNames \cup {structuring, "RecoverVariables",
                                              "BindReturnValues"}
      BY FrontHeadList
<1>3. w \in Lists /\ Elements(w) = IF ~DeferScfBridge(e)
                                     THEN {"EliminateDeadCode"} ELSE {}
  <2>1. PICK c \in BOOLEAN : c = ~DeferScfBridge(e)
        OBVIOUS
  <2>2. PICK p \in PassNames : p = "EliminateDeadCode"
        BY DEF PassNames
  <2>3. When(c, p) \in Lists /\ Elements(When(c, p)) = IF c THEN {p} ELSE {}
        BY WhenList
  <2>4. w = When(c, p)
        BY <2>1, <2>2
  <2> QED BY <2>1, <2>2, <2>3, <2>4
<1>4. m \in Lists /\ Elements(m) \subseteq MiddleNames
      BY MiddleList
<1>5. /\ l \in Lists
      /\ Elements(l) = IF LateBridged(o, e)
                       THEN {"BridgeStructuredControlFlow", "EliminateDeadCode"}
                       ELSE {}
      /\ \A i \in 1..Len(l) : l[i] = "EliminateDeadCode" =>
            "BridgeStructuredControlFlow" \in Before(l, i)
      BY LateList
<1>6. /\ b \in Lists
      /\ Elements(b) = {"HelixMidToHigh", "ApplyDebugTypes", "PropagateTypesHigh",
                        "LegalizeFunctionContainers"}
      BY BackList
<1> HIDE DEF h, w, m, l, b
<1>7. f \in Lists /\ Elements(f) = Elements(h) \cup Elements(w)
      BY <1>2, <1>3, Appended
<1> HIDE DEF f
<1>8. fm \in Lists /\ Elements(fm) = Elements(f) \cup Elements(m)
      BY <1>4, <1>7, Appended
<1> HIDE DEF fm
<1>9. fml \in Lists /\ Elements(fml) = Elements(fm) \cup Elements(l)
      BY <1>5, <1>8, Appended
<1> HIDE DEF fml
<1>10. list \in Lists /\ Elements(list) = Elements(fml) \cup Elements(b)
      BY <1>6, <1>9, Appended
<1>11. ASSUME NEW i \in 1..Len(list), list[i] = "StructureControlFlow"
       PROVE  Before(list, i) \cap Bridging = {}
  <2>1. list[i] \notin Elements(b)
        BY <1>6, <1>11
  <2>2. i \in 1..Len(fml) /\ fml[i] = list[i] /\ Before(list, i) = Before(fml, i)
        BY <1>6, <1>9, <2>1, InFirst
  <2>3. fml[i] \notin Elements(l)
        BY <1>5, <1>11, <2>2
  <2>4. i \in 1..Len(fm) /\ fm[i] = fml[i] /\ Before(fml, i) = Before(fm, i)
        BY <1>5, <1>8, <2>2, <2>3, InFirst DEF fml
  <2>5. fm[i] \notin Elements(m)
        BY <1>4, <1>11, <2>2, <2>4 DEF MiddleNames
  <2>6. i \in 1..Len(f) /\ f[i] = fm[i] /\ Before(fm, i) = Before(f, i)
        BY <1>4, <1>7, <2>4, <2>5, InFirst DEF fm
  <2>7. f[i] \notin Elements(w)
        BY <1>3, <1>11, <2>2, <2>4, <2>6
  <2>8. i \in 1..Len(h) /\ h[i] = f[i] /\ Before(f, i) = Before(h, i)
        BY <1>2, <1>3, <2>6, <2>7, InFirst DEF f
  <2>9. "StructureControlFlow" \in Elements(h) /\ Before(list, i) \subseteq Elements(h)
        BY <1>2, <1>11, <2>2, <2>4, <2>6, <2>8, BeforeWithin
  <2>10. structuring = "StructureControlFlow"
        BY <1>2, <2>9 DEF FrontNames
  <2> QED BY <1>2, <2>9, <2>10 DEF FrontNames, Bridging
<1>12. ASSUME NEW i \in 1..Len(list),
              list[i] \in {"RemillToHelixLow", "HelixLowToMid"}
       PROVE  "HelixMidToHigh" \notin Before(list, i)
  <2>1. list[i] \notin Elements(b)
        BY <1>6, <1>12
  <2>2. i \in 1..Len(fml) /\ Before(list, i) = Before(fml, i)
        BY <1>6, <1>9, <2>1, InFirst
  <2>3. Before(list, i) \subseteq Elements(fml)
        BY <1>9, <2>2, BeforeWithin
  <2>4. "HelixMidToHigh" \notin Elements(fml)
        BY <1>2, <1>3, <1>4, <1>5, <1>7, <1>8, <1>9 DEF FrontNames, MiddleNames
  <2> QED BY <2>3, <2>4
<1>13. ASSUME NEW i \in 1..Len(list), list[i] = "EliminateDeadCode"
       PROVE  /\ "BindReturnValues" \in Before(list, i)
              /\ Before(list, i) \cap Bridging # {}
  <2>1. list[i] \notin Elements(b)
        BY <1>6, <1>13
  <2>2. i \in 1..Len(fml) /\ fml[i] = list[i] /\ Before(list, i) = Before(fml, i)
        BY <1>6, <1>9, <2>1, InFirst
  <2>3. CASE DeferScfBridge(e)
    <3>1. fml[i] \notin Elements(fm)
          BY <1>2, <1>3, <1>4, <1>7, <1>8, <1>13, <2>2, <2>3
             DEF FrontNames, MiddleNames
    <3>2. /\ i - Len(fm) \in 1..Len(l) /\ l[i - Len(fm)] = fml[i]
          /\ Before(fml, i) = Elements(fm) \cup Before(l, i - Len(fm))
          BY <1>5, <1>8, <2>2, <3>1, InSecond DEF fml
    <3>3. "BridgeStructuredControlFlow" \in Before(l, i - Len(fm))
          BY <1>5, <1>13, <2>2, <3>2
    <3>4. "BindReturnValues" \in Elements(fm)
          BY <1>2, <1>7, <1>8
    <3> QED BY <2>2, <3>2, <3>3, <3>4 DEF Bridging
  <2>4. CASE ~DeferScfBridge(e)
    <3>1. fml[i] \notin Elements(l)
          BY <1>5, <2>4 DEF LateBridged
    <3>2. i \in 1..Len(fm) /\ fm[i] = fml[i] /\ Before(fml, i) = Before(fm, i)
          BY <1>5, <1>8, <2>2, <3>1, InFirst DEF fml
    <3>3. fm[i] \notin Elements(m)
          BY <1>4, <1>13, <2>2, <3>2 DEF MiddleNames
    <3>4. i \in 1..Len(f) /\ f[i] = fm[i] /\ Before(fm, i) = Before(f, i)
          BY <1>4, <1>7, <3>2, <3>3, InFirst DEF fm
    <3>5. f[i] \notin Elements(h)
          BY <1>2, <1>13, <2>2, <3>2, <3>4 DEF FrontNames
    <3>6. Elements(h) \subseteq Before(f, i)
          BY <1>2, <1>3, <3>4, <3>5, InSecond DEF f
    <3>7. "StructureAndBridge" \in Elements(h)
          BY <1>2, <2>4
    <3> QED BY <1>2, <2>2, <3>2, <3>4, <3>6, <3>7 DEF Bridging
  <2> QED BY <2>3, <2>4
<1>14. "HelixMidToHigh" \in Elements(list)
      BY <1>6, <1>10
<1>15. structuring \in Elements(list)
      BY <1>2, <1>7, <1>8, <1>9, <1>10
<1>16. Elements(list) \cap (Bridging \cup {"StructureControlFlow"}) # {}
      BY <1>15 DEF Bridging
<1>17. ASSUME Elements(list) \cap Bridging = {} PROVE o.useCast
  <2>1. DeferScfBridge(e)
        BY <1>15, <1>17 DEF Bridging
  <2>2. "BridgeStructuredControlFlow" \notin Elements(l)
        BY <1>9, <1>10, <1>17 DEF Bridging
  <2>3. DirectScfToCast(o, e)
        BY <1>5, <2>1, <2>2 DEF LateBridged
  <2> QED BY <2>3 DEF DirectScfToCast
<1> HIDE DEF list
<1>18. WellOrdered(list, o.useCast)
      BY <1>11, <1>12, <1>13, <1>14, <1>16, <1>17 DEF WellOrdered
<1> QED BY <1>1, <1>10, <1>18


-----------------------------------------------------------------------------
(* The inductive invariant: the form of the module tells which passes have run *)
(* on it, and those are the ones the list has before the next.                *)
FormOf(m) ==
    /\ "HelixMidToHigh" \in m.done => m.tier = "high"
    /\ m.done \cap (Bridging \cup {"StructureControlFlow"}) # {} => m.scf # "none"
    /\ m.done \cap Bridging # {} => m.scf # "native"
Deleted(m) == m.dcedNative \/ m.dcedUnbound

Ran == next # 0 => module.done = Before(Passes, next) /\ FormOf(module)
Positioned == /\ options \in Options /\ environment \in Environments
              /\ next \in 0..Len(Passes) + 1
PInv == Positioned /\ Ran /\ ~Deleted(module) /\ EmitterGetsItsForm

(* A list's passes so far, after one more.                                    *)
LEMMA BeforeNext ==
    ASSUME NEW s \in Lists, NEW i \in 1..Len(s)
    PROVE  /\ Before(s, i + 1) = Before(s, i) \cup {s[i]}
           /\ Before(s, Len(s) + 1) = Elements(s)
           /\ Before(s, 1) = {}
<1>1. Len(s) \in Nat
      BY ListLength
<1>2. \A j : j \in 1..(i + 1) - 1 <=> j \in 1..i - 1 \/ j = i
      BY <1>1
<1>3. 1..(Len(s) + 1) - 1 = 1..Len(s) /\ 1..1 - 1 = {}
      BY <1>1
<1> QED BY <1>2, <1>3 DEF Before, Elements

(* One pass of a well ordered list leaves the module in the form its passes    *)
(* say, and deletes nothing that is still needed.                             *)
LEMMA PassKeepsForm ==
    ASSUME NEW s \in Lists, NEW i \in 1..Len(s), NEW c, WellOrdered(s, c),
           NEW m, FormOf(m), m.done = Before(s, i), ~Deleted(m), NEW v, NEW d
    PROVE  LET n == After(s[i], m, v, d)
           IN  n.done = Before(s, i + 1) /\ FormOf(n) /\ ~Deleted(n)
<1> DEFINE n == After(s[i], m, v, d)
<1>1. /\ n.tier = TierAfter(s[i], m.tier) /\ n.scf = ScfAfter(s[i], m.scf, d)
      /\ n.done = m.done \cup {s[i]}
      /\ n.dcedNative = (m.dcedNative
                          \/ (s[i] = "EliminateDeadCode" /\ m.scf = "native"))
      /\ n.dcedUnbound = (m.dcedUnbound
                          \/ (s[i] = "EliminateDeadCode"
                              /\ "BindReturnValues" \notin m.done))
      BY DEF After
<1> HIDE DEF n
<1>2. n.done = Before(s, i + 1)
      BY <1>1, BeforeNext
<1>3. ~Deleted(n)
  <2>1. s[i] = "EliminateDeadCode" => "BindReturnValues" \in m.done
                                      /\ m.scf # "native"
        BY DEF WellOrdered, FormOf
  <2> QED BY <1>1, <2>1 DEF Deleted
<1>4. "HelixMidToHigh" \in n.done => n.tier = "high"
  <2>1. CASE s[i] = "HelixMidToHigh"
        BY <1>1, <2>1 DEF TierAfter
  <2>2. CASE s[i] \in {"RemillToHelixLow", "HelixLowToMid"}
        BY <1>1, <2>2 DEF WellOrdered
  <2>3. CASE s[i] \notin {"RemillToHelixLow", "HelixLowToMid", "HelixMidToHigh"}
    <3>1. n.tier = m.tier
          BY <1>1, <2>3 DEF TierAfter
    <3> QED BY <1>1, <2>3, <3>1 DEF FormOf
  <2> QED BY <2>1, <2>2, <2>3
<1>5. /\ n.done \cap (Bridging \cup {"StructureControlFlow"}) # {} => n.scf # "none"
      /\ n.done \cap Bridging # {} => n.scf # "native"
  <2>1. CASE s[i] = "StructureControlFlow"
    <3>1. n.scf = "native"
          BY <1>1, <2>1 DEF ScfAfter
    <3>2. n.done \cap Bridging = {}
          BY <1>1, <2>1 DEF WellOrdered, Bridging
    <3> QED BY <3>1, <3>2
  <2>2. CASE s[i] \in Bridging
    <3>1. n.scf \in {"bridged", "declined"}
          BY <1>1, <2>2 DEF ScfAfter, Bridging
    <3> QED BY <3>1
  <2>3. CASE s[i] \notin Bridging \cup {"StructureControlFlow"}
    <3>1. n.scf = m.scf
          BY <1>1, <2>3 DEF ScfAfter, Bridging
    <3>2. /\ n.done \cap Bridging = m.done \cap Bridging
          /\ n.done \cap (Bridging \cup {"StructureControlFlow"})
               = m.done \cap (Bridging \cup {"StructureControlFlow"})
          BY <1>1, <2>3
    <3> QED BY <3>1, <3>2 DEF FormOf
  <2> QED BY <2>1, <2>2, <2>3
<1> QED BY <1>2, <1>3, <1>4, <1>5 DEF FormOf, n

(* The list of the pass manager at hand.                                      *)
LEMMA PassesOrdered ==
    ASSUME Positioned
    PROVE  /\ Passes \in Lists /\ WellOrdered(Passes, options.useCast)
           /\ Len(Passes) \in Nat \ {0}
<1>1. Passes \in Lists /\ WellOrdered(Passes, options.useCast)
      BY PassOrder DEF Positioned, Passes
<1>2. Len(Passes) # 0
  <2>1. PICK i \in 1..Len(Passes) : Passes[i] = "HelixMidToHigh"
        BY <1>1 DEF WellOrdered, Elements
  <2> QED BY <2>1
<1> QED BY <1>1, <1>2, ListLength

LEMMA PInvInit == Init => PInv
<1> SUFFICES ASSUME Init PROVE PInv
    OBVIOUS
<1>1. 0 \in 0..Len(Passes) + 1
  <2>1. Passes \in Lists
        BY PassOrder DEF Init, Passes
  <2> QED BY <2>1, ListLength
<1> QED BY <1>1 DEF Init, PInv, Positioned, Ran, Deleted, FreshModule,
                    EmitterGetsItsForm, Finished

LEMMA PInvStep == PInv /\ [Next]_vars => PInv'
<1> SUFFICES ASSUME PInv, [Next]_vars PROVE PInv'
    OBVIOUS
<1>1. /\ Passes \in Lists /\ WellOrdered(Passes, options.useCast)
      /\ Len(Passes) \in Nat \ {0}
      BY PassesOrdered DEF PInv
<1>2. UNCHANGED <<options, environment>> /\ Passes' = Passes
      BY DEF Next, BeginRun, PassSucceeds, PassFails, FinishRun, vars, Passes
<1>3. CASE BeginRun
  <2>1. next' = 1 /\ module' = FreshModule
        BY <1>3 DEF BeginRun
  <2>2. Before(Passes, 1) = {}
        BY <1>1, BeforeNext
  <2>3. Ran' /\ ~Deleted(module')
        BY <1>2, <2>1, <2>2 DEF Ran, FreshModule, FormOf, Deleted
  <2>4. Positioned'
        BY <1>1, <1>2, <2>1 DEF PInv, Positioned
  <2>5. EmitterGetsItsForm'
        BY <2>1 DEF EmitterGetsItsForm, Finished
  <2> QED BY <2>3, <2>4, <2>5 DEF PInv
<1>4. ASSUME NEW valid, NEW declines, next \in DOMAIN Passes,
             module' = After(Passes[next], module, valid, declines),
             next' \in {0, next + 1}, next' = 0 => outcome'.status # "ok"
      PROVE  PInv'
  <2>1. next \in 1..Len(Passes) /\ next # 0
    <3>1. DOMAIN Passes = 1..Len(Passes)
          BY <1>1, LenProperties DEF Lists
    <3> QED BY <1>1, <1>4, <3>1
  <2>2. /\ module'.done = Before(Passes, next + 1)
        /\ FormOf(module') /\ ~Deleted(module')
        BY <1>1, <1>4, <2>1, PassKeepsForm DEF PInv, Ran
  <2>3. Positioned'
        BY <1>1, <1>2, <1>4, <2>1 DEF PInv, Positioned
  <2>4. EmitterGetsItsForm'
        BY <1>1, <1>4, <2>1 DEF EmitterGetsItsForm, Finished
  <2>5. Ran'
        BY <1>2, <1>4, <2>2 DEF Ran
  <2> QED BY <2>2, <2>3, <2>4, <2>5 DEF PInv
<1>5. CASE FinishRun
  <2>1. next = Len(Passes) + 1 /\ next' = 0 /\ module' = module /\ next # 0
        BY <1>1, <1>5 DEF FinishRun
  <2>2. module.done = Elements(Passes) /\ FormOf(module)
        BY <1>1, <2>1, BeforeNext DEF PInv, Ran
  <2>3. /\ module.tier = "high" /\ module.scf # "none"
        /\ module.scf = "native" => options.useCast
    <3>1. module.done \cap Bridging # {} => module.scf # "native"
          BY <2>2 DEF FormOf
    <3> QED BY <1>1, <2>2, <3>1 DEF WellOrdered, FormOf
  <2>4. EmitterGetsItsForm'
        BY <1>2, <2>1, <2>3 DEF EmitterGetsItsForm
  <2> QED BY <1>1, <1>2, <2>1, <2>4 DEF PInv, Positioned, Ran
<1>6. CASE UNCHANGED vars
      BY <1>2, <1>6 DEF vars, PInv, Positioned, Ran, EmitterGetsItsForm, Finished
<1>7. ASSUME NEW valid \in BOOLEAN, NEW declines \in BOOLEAN,
             PassSucceeds(valid, declines)
      PROVE  PInv'
  <2>1. /\ next \in DOMAIN Passes /\ next' = next + 1
        /\ module' = After(Passes[next], module, valid, declines)
        BY <1>7 DEF PassSucceeds
  <2>2. DOMAIN Passes = 1..Len(Passes)
        BY <1>1, LenProperties DEF Lists
  <2>3. next' # 0
        BY <1>1, <2>1, <2>2
  <2> QED BY <1>4, <2>1, <2>3
<1>8. ASSUME NEW signals \in BOOLEAN, NEW valid \in BOOLEAN,
             NEW declines \in BOOLEAN, PassFails(signals, valid, declines)
      PROVE  PInv'
  <2>1. /\ next \in DOMAIN Passes /\ next' = 0
        /\ module' = After(Passes[next], module, valid, declines)
        /\ outcome'.status = "failed"
        BY <1>8 DEF PassFails
  <2> QED BY <1>4, <2>1
<1> QED BY <1>3, <1>5, <1>6, <1>7, <1>8 DEF Next

LEMMA PInvariance == Spec => []PInv
BY PInvInit, PInvStep, PTL DEF Spec

(* A module that reaches the emitters is in the High tier with its control     *)
(* flow structured, and for the legacy emitter the bridge has run on it. What  *)
(* the bridge declined to take is native SCF still.                           *)
THEOREM EmitterServed == Spec => []EmitterGetsItsForm
BY PInvariance, PTL DEF PInv

(* Dead code elimination never runs on a module before the bridge has, or      *)
(* before its returns are bound.                                              *)
THEOREM UsesSeen == Spec => []DceSeesAllUses
<1>1. PInv => DceSeesAllUses
      BY DEF PInv, Deleted, DceSeesAllUses
<1> QED BY <1>1, PInvariance, PTL

-----------------------------------------------------------------------------
(* The audit. While an audited run goes on nothing has failed in it, so the    *)
(* audit holds no failure of an earlier run and the first one is recorded.    *)
NothingFailedYet ==
    Auditing /\ next # 0 =>
        module.valid /\ audit.failure = NoFailure /\ culprit = NoFailure
AuditInv == NothingFailedYet /\ AuditNamesCulprit

LEMMA AuditInvStep == PInv /\ AuditInv /\ [Next]_vars => AuditInv'
<1> SUFFICES ASSUME PInv, AuditInv, [Next]_vars PROVE AuditInv'
    OBVIOUS
<1>1. Passes \in Lists /\ Len(Passes) \in Nat \ {0} /\ DOMAIN Passes = 1..Len(Passes)
      BY PassesOrdered, LenProperties DEF PInv, Lists
<1>2. Auditing' = Auditing
      BY DEF Next, BeginRun, PassSucceeds, PassFails, FinishRun, vars, Auditing
<1>3. CASE BeginRun
  <2>1. /\ next' = 1 /\ module'.valid /\ audit'.failure = NoFailure
        /\ culprit' = NoFailure
        BY <1>3 DEF BeginRun, FreshModule
  <2> QED BY <2>1 DEF AuditInv, NothingFailedYet, AuditNamesCulprit
<1>4. ASSUME NEW valid \in BOOLEAN, NEW declines \in BOOLEAN,
             PassSucceeds(valid, declines)
      PROVE  AuditInv'
  <2>1. /\ next \in 1..Len(Passes) /\ next' = next + 1 /\ next' # 0 /\ next # 0
        /\ Auditing => valid
        /\ module'.valid = valid
        BY <1>1, <1>4 DEF PassSucceeds, After
  <2>2. Auditing => audit.failure = NoFailure /\ culprit = NoFailure
        BY <2>1 DEF AuditInv, NothingFailedYet
  <2>3. Auditing => culprit' = NoFailure
        BY <1>4, <2>1, <2>2 DEF PassSucceeds
  <2>4. Auditing => audit' = [audit EXCEPT !.seq = @ + 1]
        BY <1>4 DEF PassSucceeds
  <2>5. Auditing => audit'.failure = audit.failure
    <3>1. [audit EXCEPT !.seq = @ + 1].failure = audit.failure
          OBVIOUS
    <3> QED BY <2>4, <3>1
  <2>6. NothingFailedYet'
        BY <1>2, <2>1, <2>2, <2>3, <2>5 DEF NothingFailedYet
  <2> QED BY <1>2, <2>1, <2>3, <2>6 DEF AuditInv, AuditNamesCulprit
<1>5. ASSUME NEW signals \in BOOLEAN, NEW valid \in BOOLEAN,
             NEW declines \in BOOLEAN, PassFails(signals, valid, declines)
      PROVE  AuditInv'
  <2> DEFINE failure == [pass |-> Passes[next],
                         reason |-> IF valid THEN "pass-signaled-failure"
                                             ELSE "verifier-failure"]
  <2>1. next \in 1..Len(Passes) /\ next # 0 /\ next' = 0
        BY <1>1, <1>5 DEF PassFails
  <2>2. Auditing => audit.failure = NoFailure /\ culprit = NoFailure
        BY <2>1 DEF AuditInv, NothingFailedYet
  <2>3. failure # NoFailure
    <3>1. failure.reason # NoFailure.reason
          BY DEF NoFailure
    <3> QED BY <3>1
  <2>4. Auditing => outcome'.failure = failure /\ culprit' = failure
        BY <1>5, <2>2 DEF PassFails, Record
  <2> HIDE DEF failure
  <2>5. NothingFailedYet'
        BY <2>1 DEF NothingFailedYet
  <2> QED BY <1>2, <2>1, <2>3, <2>4, <2>5 DEF AuditInv, AuditNamesCulprit
<1>6. CASE FinishRun
  <2>1. next # 0 /\ next' = 0
        BY <1>1, <1>6 DEF FinishRun
  <2>2. Auditing => module.valid
        BY <2>1 DEF AuditInv, NothingFailedYet
  <2>3. Auditing => outcome'.status = "ok"
        BY <1>6, <2>2 DEF FinishRun
  <2> QED BY <1>2, <2>1, <2>3 DEF AuditInv, NothingFailedYet, AuditNamesCulprit
<1>7. CASE UNCHANGED vars
      BY <1>2, <1>7 DEF vars, AuditInv, NothingFailedYet, AuditNamesCulprit
<1> QED BY <1>3, <1>4, <1>5, <1>6, <1>7 DEF Next

(* An audited run that fails names the first pass that failed or left invalid  *)
(* IR, of this run and of no earlier one, and nothing runs after that pass.   *)
THEOREM CulpritNamed == Spec => []AuditNamesCulprit
<1>1. Init => AuditInv
      BY DEF Init, AuditInv, NothingFailedYet, AuditNamesCulprit
<1>2. AuditInv => AuditNamesCulprit
      BY DEF AuditInv
<1> QED BY <1>1, <1>2, PInvariance, AuditInvStep, PTL DEF Spec

-----------------------------------------------------------------------------
(* The tier each pass is written for. A pass that runs on another tier finds   *)
(* none of the operations it looks for, and does nothing without a word.       *)
LowPasses == {"RecoverStackLayout", "RecoverCallingConvention", "HelixLowSimplify",
              "PropagateTypes", "InterProceduralTypePropagation",
              "RecoverSwitchTables", "StructureControlFlow", "StructureAndBridge",
              "RecoverVariables", "BindReturnValues", "RegisterSSARename",
              "HelixLowToMid"}
MidPasses == {"HelixMidSimplify", "ConstantFolding", "EscapeAnalysis",
              "MemorySlotPilot", "RecoverStructTypes", "RecoverMagicDivision",
              "DevirtualizeIndirectCalls", "HelixMidToHigh"}
HighPasses == {"PropagateTypesHigh", "LegalizeFunctionContainers"}

TierOrdered(list) ==
    \A i \in 1..Len(list) :
        /\ list[i] = "RemillToHelixLow" => Before(list, i) = {}
        /\ list[i] \in LowPasses =>
              /\ "RemillToHelixLow" \in Before(list, i)
              /\ Before(list, i) \cap {"HelixLowToMid", "HelixMidToHigh"} = {}
        /\ list[i] \in MidPasses =>
              /\ "HelixLowToMid" \in Before(list, i)
              /\ "HelixMidToHigh" \notin Before(list, i)
        /\ list[i] \in HighPasses => "HelixMidToHigh" \in Before(list, i)
        /\ list[i] = "HelixLowToMid" => "RegisterSSARename" \in Before(list, i)

(* Where the three lowerings stand, with the passes of a tier between two.     *)
LEMMA TierPositions ==
    ASSUME NEW o \in Options, NEW e \in Environments
    PROVE  LET list == BuildPassPipeline(o, e)
           IN  \E mid, high \in Nat :
                  /\ 2 < mid /\ mid < high
                  /\ StandsAlone(list, 1, "RemillToHelixLow")
                  /\ StandsAlone(list, mid - 1, "RegisterSSARename")
                  /\ StandsAlone(list, mid, "HelixLowToMid")
                  /\ StandsAlone(list, high, "HelixMidToHigh")
                  /\ \A i \in 1..Len(list) :
                        /\ list[i] \in LowPasses => i <= mid
                        /\ list[i] \in MidPasses => mid < i /\ i <= high
                        /\ list[i] \in HighPasses => high < i
<1> DEFINE f == FrontPasses(o, e)
           m == MiddlePasses(o, e)
           l == LateBridge(o, e)
           b == BackPasses
           fm == f \o m
           fml == fm \o l
           list == fml \o b
<1>1. BuildPassPipeline(o, e) = list
      BY DEF BuildPassPipeline
<1>2. /\ f \in Lists /\ StandsAlone(f, 1, "RemillToHelixLow")
      /\ Elements(f) \subseteq FrontNames \cup {"StructureControlFlow",
            "StructureAndBridge", "RecoverVariables", "BindReturnValues",
            "EliminateDeadCode"}
  <2> DEFINE h == FrontHead(o, e)
  <2>1. PICK c \in BOOLEAN : c = ~DeferScfBridge(e)
        OBVIOUS
  <2>2. PICK p \in PassNames : p = "EliminateDeadCode"
        BY DEF PassNames
  <2>3. /\ h \in Lists /\ StandsAlone(h, 1, "RemillToHelixLow")
        /\ Elements(h) \subseteq FrontNames \cup {"StructureControlFlow",
              "StructureAndBridge", "RecoverVariables", "BindReturnValues"}
        BY FrontHeadList
  <2>4. f = h \o When(c, p)
        BY <2>1, <2>2 DEF FrontPasses, FrontHead
  <2> HIDE DEF h, f
  <2>5. f \in Lists /\ Elements(f) \subseteq Elements(h) \cup {p}
        BY <2>3, <2>4, AppendedWhen
  <2>6. StandsAlone(f, 1, "RemillToHelixLow")
        BY <2>2, <2>3, <2>4, FollowedWhen
  <2> QED BY <2>2, <2>3, <2>5, <2>6
<1>3. m \in Lists /\ Elements(m) \subseteq MiddleNames /\ OpensMiddle(m)
      BY MiddleList
<1>4. /\ l \in Lists
      /\ Elements(l) \subseteq {"BridgeStructuredControlFlow", "EliminateDeadCode"}
      BY LateList
<1>5. /\ b \in Lists
      /\ Elements(b) = {"HelixMidToHigh", "ApplyDebugTypes", "PropagateTypesHigh",
                        "LegalizeFunctionContainers"}
      BY BackList
<1>6. StandsAlone(b, 1, "HelixMidToHigh")
  <2>1. /\ Len(b) = 5 /\ b[1] = "HelixMidToHigh" /\ b[2] # b[1] /\ b[3] # b[1]
        /\ b[4] # b[1] /\ b[5] # b[1]
        BY DEF BackPasses
  <2> HIDE DEF b
  <2>2. 1..5 = {1, 2, 3, 4, 5}
        OBVIOUS
  <2> QED BY <2>1, <2>2 DEF StandsAlone
<1> HIDE DEF f, m, l, b
<1>7. /\ fm \in Lists /\ Elements(fm) = Elements(f) \cup Elements(m)
      /\ Len(fm) = Len(f) + Len(m)
      BY <1>2, <1>3, Appended, Concat
<1>8. /\ StandsAlone(fm, 1, "RemillToHelixLow")
      /\ StandsAlone(fm, Len(f) + 1, "RegisterSSARename")
      /\ StandsAlone(fm, Len(f) + 2, "HelixLowToMid")
  <2>1. /\ "RemillToHelixLow" \notin Elements(m)
        /\ "RegisterSSARename" \notin Elements(f)
        /\ "HelixLowToMid" \notin Elements(f)
        BY <1>2, <1>3 DEF FrontNames, MiddleNames
  <2> QED BY <1>2, <1>3, <2>1, StandsAppended, StandsPrepended DEF OpensMiddle
<1> HIDE DEF fm
<1>9. /\ fml \in Lists /\ Elements(fml) = Elements(fm) \cup Elements(l)
      /\ Len(fml) = Len(fm) + Len(l)
      BY <1>4, <1>7, Appended, Concat
<1>10. /\ StandsAlone(fml, 1, "RemillToHelixLow")
       /\ StandsAlone(fml, Len(f) + 1, "RegisterSSARename")
       /\ StandsAlone(fml, Len(f) + 2, "HelixLowToMid")
  <2>1. /\ "RemillToHelixLow" \notin Elements(l)
        /\ "RegisterSSARename" \notin Elements(l)
        /\ "HelixLowToMid" \notin Elements(l)
        BY <1>4
  <2> QED BY <1>4, <1>7, <1>8, <2>1, StandsAppended
<1> HIDE DEF fml
<1>11. list \in Lists
       BY <1>5, <1>9, Appended
<1>12. /\ StandsAlone(list, 1, "RemillToHelixLow")
       /\ StandsAlone(list, Len(f) + 1, "RegisterSSARename")
       /\ StandsAlone(list, Len(f) + 2, "HelixLowToMid")
       /\ StandsAlone(list, Len(fml) + 1, "HelixMidToHigh")
  <2>1. /\ "RemillToHelixLow" \notin Elements(b)
        /\ "RegisterSSARename" \notin Elements(b)
        /\ "HelixLowToMid" \notin Elements(b)
        /\ "HelixMidToHigh" \notin Elements(fml)
        BY <1>2, <1>3, <1>4, <1>5, <1>7, <1>9 DEF FrontNames, MiddleNames
  <2> QED BY <1>5, <1>6, <1>9, <1>10, <2>1, StandsAppended, StandsPrepended
<1>13. /\ Len(f) \in Nat \ {0} /\ Len(m) \in Nat /\ Len(fml) \in Nat
       /\ Len(f) + 2 <= Len(fml)
  <2>1. /\ Len(f) \in Nat /\ Len(m) \in Nat /\ Len(l) \in Nat /\ Len(fml) \in Nat
        BY <1>2, <1>3, <1>4, <1>9, ListLength
  <2>2. 1 \in 1..Len(f) /\ 2 \in 1..Len(m)
        BY <1>2, <1>3 DEF StandsAlone, OpensMiddle
  <2> QED BY <1>7, <1>9, <2>1, <2>2
<1>14. ASSUME NEW i \in 1..Len(list), list[i] \in LowPasses
       PROVE  i <= Len(f) + 2
  <2>1. CASE list[i] \in {"RegisterSSARename", "HelixLowToMid"}
    <3>1. i = Len(f) + 1 \/ i = Len(f) + 2
          BY <1>12, <2>1 DEF StandsAlone
    <3> QED BY <1>13, <3>1
  <2>2. CASE list[i] \notin {"RegisterSSARename", "HelixLowToMid"}
    <3>1. /\ list[i] \notin Elements(b) /\ list[i] \notin Elements(l)
          /\ list[i] \notin Elements(m)
          BY <1>3, <1>4, <1>5, <1>14, <2>2 DEF LowPasses, MiddleNames
    <3>2. i \in 1..Len(fml) /\ fml[i] = list[i]
          BY <1>5, <1>9, <3>1, InFirst
    <3>3. i \in 1..Len(fm) /\ fm[i] = list[i]
          BY <1>4, <1>7, <3>1, <3>2, InFirst DEF fml
    <3>4. i \in 1..Len(f)
          BY <1>2, <1>3, <3>1, <3>3, InFirst DEF fm
    <3> QED BY <1>13, <3>4
  <2> QED BY <2>1, <2>2
<1>15. ASSUME NEW i \in 1..Len(list), list[i] \in MidPasses
       PROVE  Len(f) + 2 < i /\ i <= Len(fml) + 1
  <2>1. CASE list[i] = "HelixMidToHigh"
    <3>1. i = Len(fml) + 1
          BY <1>12, <2>1 DEF StandsAlone
    <3> QED BY <1>13, <3>1
  <2>2. CASE list[i] # "HelixMidToHigh"
    <3>1. /\ list[i] \notin Elements(b) /\ list[i] \notin Elements(l)
          /\ list[i] \notin Elements(f)
          BY <1>2, <1>4, <1>5, <1>15, <2>2 DEF MidPasses, FrontNames
    <3>2. i \in 1..Len(fml) /\ fml[i] = list[i]
          BY <1>5, <1>9, <3>1, InFirst
    <3>3. i \in 1..Len(fm) /\ fm[i] = list[i]
          BY <1>4, <1>7, <3>1, <3>2, InFirst DEF fml
    <3>4. i - Len(f) \in 1..Len(m)
          BY <1>2, <1>3, <3>1, <3>3, InSecond DEF fm
    <3>5. i # Len(f) + 1 /\ i # Len(f) + 2
          BY <1>12, <1>15 DEF StandsAlone, MidPasses
    <3> QED BY <1>13, <3>2, <3>4, <3>5
  <2> QED BY <2>1, <2>2
<1>16. ASSUME NEW i \in 1..Len(list), list[i] \in HighPasses
       PROVE  Len(fml) + 1 < i
  <2>1. list[i] \notin Elements(fml) /\ list[i] # "HelixMidToHigh"
        BY <1>2, <1>3, <1>4, <1>7, <1>9, <1>16
           DEF HighPasses, FrontNames, MiddleNames
  <2>2. i - Len(fml) \in 1..Len(b)
        BY <1>5, <1>9, <2>1, InSecond
  <2>3. i # Len(fml) + 1
        BY <1>12, <2>1 DEF StandsAlone
  <2> QED BY <1>13, <2>2, <2>3
<1> HIDE DEF list
<1>17. PICK mid \in Nat, high \in Nat : mid = Len(f) + 2 /\ high = Len(fml) + 1
       BY <1>13
<1>18. 2 < mid /\ mid < high /\ mid - 1 = Len(f) + 1
       BY <1>13, <1>17
<1> QED BY <1>1, <1>12, <1>14, <1>15, <1>16, <1>17, <1>18

LEMMA TiersOrdered ==
    ASSUME NEW o \in Options, NEW e \in Environments
    PROVE  TierOrdered(BuildPassPipeline(o, e))
<1>1. PICK list : list = BuildPassPipeline(o, e)
      OBVIOUS
<1>2. PICK mid \in Nat, high \in Nat :
         /\ 2 < mid /\ mid < high
         /\ StandsAlone(list, 1, "RemillToHelixLow")
         /\ StandsAlone(list, mid - 1, "RegisterSSARename")
         /\ StandsAlone(list, mid, "HelixLowToMid")
         /\ StandsAlone(list, high, "HelixMidToHigh")
         /\ \A i \in 1..Len(list) :
               /\ list[i] \in LowPasses => i <= mid
               /\ list[i] \in MidPasses => mid < i /\ i <= high
               /\ list[i] \in HighPasses => high < i
      BY <1>1, TierPositions
<1>3. list \in Lists /\ Len(list) \in Nat
      BY <1>1, PassOrder, ListLength
<1> SUFFICES ASSUME NEW i \in 1..Len(list)
             PROVE  /\ list[i] = "RemillToHelixLow" => Before(list, i) = {}
                    /\ list[i] \in LowPasses =>
                          /\ "RemillToHelixLow" \in Before(list, i)
                          /\ "HelixLowToMid" \notin Before(list, i)
                          /\ "HelixMidToHigh" \notin Before(list, i)
                    /\ list[i] \in MidPasses =>
                          /\ "HelixLowToMid" \in Before(list, i)
                          /\ "HelixMidToHigh" \notin Before(list, i)
                    /\ list[i] \in HighPasses =>
                          "HelixMidToHigh" \in Before(list, i)
                    /\ list[i] = "HelixLowToMid" =>
                          "RegisterSSARename" \in Before(list, i)
    BY <1>1 DEF TierOrdered
<1>4. /\ "RemillToHelixLow" \in Before(list, i) <=> 1 < i
      /\ "RegisterSSARename" \in Before(list, i) <=> mid - 1 < i
      /\ "HelixLowToMid" \in Before(list, i) <=> mid < i
      /\ "HelixMidToHigh" \in Before(list, i) <=> high < i
      BY <1>2, <1>3, StandsBefore
<1>5. ASSUME list[i] = "RemillToHelixLow" PROVE Before(list, i) = {}
  <2>1. i = 1
        BY <1>2, <1>5 DEF StandsAlone
  <2>2. 1..i - 1 = {}
        BY <2>1
  <2> QED BY <2>2 DEF Before
<1>6. ASSUME list[i] \in LowPasses
      PROVE  1 < i /\ ~(mid < i) /\ ~(high < i)
  <2>1. i # 1
        BY <1>2, <1>6 DEF StandsAlone, LowPasses
  <2> QED BY <1>2, <1>3, <1>6, <2>1
<1>7. ASSUME list[i] \in MidPasses PROVE mid < i /\ ~(high < i)
      BY <1>2, <1>3, <1>7
<1>8. ASSUME list[i] = "HelixLowToMid" PROVE mid - 1 < i
  <2>1. i = mid
        BY <1>2, <1>8 DEF StandsAlone
  <2> QED BY <1>2, <2>1
<1> QED BY <1>2, <1>4, <1>5, <1>6, <1>7, <1>8

(* The tier of a module tells which lowerings it has been through.             *)
LoweredTo(m) ==
    m.tier = IF "HelixMidToHigh" \in m.done THEN "high"
             ELSE IF "HelixLowToMid" \in m.done THEN "mid"
             ELSE IF "RemillToHelixLow" \in m.done THEN "low" ELSE "llvm"
TierInv == next # 0 => LoweredTo(module)

LEMMA PassLowers ==
    ASSUME NEW s, NEW i \in 1..Len(s), TierOrdered(s), NEW m, LoweredTo(m),
           m.done = Before(s, i), NEW v, NEW d
    PROVE  LoweredTo(After(s[i], m, v, d))
<1> DEFINE n == After(s[i], m, v, d)
<1>1. n.tier = TierAfter(s[i], m.tier) /\ n.done = m.done \cup {s[i]}
      BY DEF After
<1> SUFFICES LoweredTo(n)
    OBVIOUS
<1> HIDE DEF n
<1>2. CASE s[i] = "RemillToHelixLow"
      BY <1>1, <1>2 DEF TierOrdered, TierAfter, LoweredTo
<1>3. CASE s[i] = "HelixLowToMid"
      BY <1>1, <1>3 DEF TierOrdered, TierAfter, LoweredTo, LowPasses
<1>4. CASE s[i] = "HelixMidToHigh"
      BY <1>1, <1>4 DEF TierAfter, LoweredTo
<1>5. CASE s[i] \notin {"RemillToHelixLow", "HelixLowToMid", "HelixMidToHigh"}
  <2>1. n.tier = m.tier
        BY <1>1, <1>5 DEF TierAfter
  <2> QED BY <1>1, <1>5, <2>1 DEF LoweredTo
<1> QED BY <1>2, <1>3, <1>4, <1>5

LEMMA TierInvStep == PInv /\ TierInv /\ [Next]_vars => TierInv'
<1> SUFFICES ASSUME PInv, TierInv, [Next]_vars PROVE TierInv'
    OBVIOUS
<1>1. /\ Passes \in Lists /\ Len(Passes) \in Nat \ {0}
      /\ DOMAIN Passes = 1..Len(Passes)
      BY PassesOrdered, LenProperties DEF PInv, Lists
<1>2. TierOrdered(Passes)
      BY TiersOrdered DEF PInv, Positioned, Passes
<1>3. CASE BeginRun
      BY <1>3 DEF BeginRun, FreshModule, TierInv, LoweredTo
<1>4. ASSUME NEW valid, NEW declines, next \in DOMAIN Passes,
             module' = After(Passes[next], module, valid, declines)
      PROVE  TierInv'
  <2>1. next \in 1..Len(Passes) /\ next # 0
        BY <1>1, <1>4
  <2>2. module.done = Before(Passes, next) /\ LoweredTo(module)
        BY <2>1 DEF PInv, Ran, TierInv
  <2>3. LoweredTo(module')
        BY <1>2, <1>4, <2>1, <2>2, PassLowers
  <2> QED BY <2>3 DEF TierInv, LoweredTo
<1>5. CASE FinishRun
      BY <1>5 DEF FinishRun, TierInv
<1>6. CASE UNCHANGED vars
      BY <1>6 DEF vars, TierInv, LoweredTo
<1> QED BY <1>3, <1>4, <1>5, <1>6 DEF Next, PassSucceeds, PassFails

PassesOnTheirTier ==
    next \in DOMAIN Passes =>
        LET pass == Passes[next]
        IN  /\ pass = "RemillToHelixLow" => module.tier = "llvm"
            /\ pass \in LowPasses => module.tier = "low"
            /\ pass \in MidPasses => module.tier = "mid"
            /\ pass \in HighPasses => module.tier = "high"
            /\ pass = "HelixLowToMid" => "RegisterSSARename" \in module.done

(* Whatever passes the options and the environment leave out or move, each     *)
(* pass runs on a module of the tier it is written for, the lowerings          *)
(* included, and slots are made only of registers that have been numbered.     *)
THEOREM LoweredInOrder == Spec => []PassesOnTheirTier
<1>1. Init => TierInv
      BY DEF Init, TierInv
<1>2. PInv /\ TierInv => PassesOnTheirTier
  <2> SUFFICES ASSUME PInv, TierInv, next \in DOMAIN Passes
               PROVE  LET pass == Passes[next]
                      IN  /\ pass = "RemillToHelixLow" => module.tier = "llvm"
                          /\ pass \in LowPasses => module.tier = "low"
                          /\ pass \in MidPasses => module.tier = "mid"
                          /\ pass \in HighPasses => module.tier = "high"
                          /\ pass = "HelixLowToMid" =>
                                "RegisterSSARename" \in module.done
      BY DEF PassesOnTheirTier
  <2>1. /\ Passes \in Lists /\ Len(Passes) \in Nat \ {0}
        /\ DOMAIN Passes = 1..Len(Passes)
        BY PassesOrdered, LenProperties DEF PInv, Lists
  <2>2. TierOrdered(Passes)
        BY TiersOrdered DEF PInv, Positioned, Passes
  <2>3. next \in 1..Len(Passes) /\ next # 0
        BY <2>1
  <2>4. module.done = Before(Passes, next) /\ LoweredTo(module)
        BY <2>3 DEF PInv, Ran, TierInv
  <2> QED BY <2>2, <2>3, <2>4 DEF TierOrdered, LoweredTo
<1> QED BY <1>1, <1>2, PInvariance, TierInvStep, PTL DEF Spec

===============================================================================

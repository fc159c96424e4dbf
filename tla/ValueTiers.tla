------------------------------ MODULE ValueTiers ------------------------------
(***************************************************************************)
(* The values of one function on their way through the tiers: rewritten in *)
(* the Low tier, converted to the Mid tier, rewritten there as the session *)
(* asked for, converted to the High tier and to C.  Each step converts or  *)
(* rewrites every value.                                                   *)
(* Source: engine/src/Pipeline.cpp and the passes it adds                  *)
(***************************************************************************)
EXTENDS LowToMid, MidSimplify, HighToC
CONSTANTS Programs  \* sequences of Low values, each assigned to a variable
ASSUME WidthsGrow == 1 < NarrowW /\ NarrowW < IntW /\ IntW < LongW

VARIABLES values,   \* what the variables are assigned, in the current tier
          stage,    \* the tier, or the pass that ran last
          round,    \* rounds of the simplifier begun
          asked     \* the optional passes the session has on
vars == <<values, stage, round, asked>>

Rounds == 16
Optional == {"simplify low", "simplify", "fold", "optimize"}
\* every pass is optional; without selective mode all of them run or none
Sessions == {{}} \cup {s \in SUBSET Optional : "optimize" \in s}

Init == /\ values \in Programs
        /\ stage = "low"
        /\ round = 0
        /\ asked \in Sessions

Everywhere(Op(_)) == [i \in DOMAIN values |-> Op(values[i])]

\* the greedy rewriting of the Low tier goes on until nothing applies
LowSimplify ==
  /\ stage = "low"
  /\ "simplify low" \in asked
  /\ values' = LET all == WithinAll(values)
                   afterStore == {values[i + 1] : i \in {j \in 1 .. Len(values) - 1 :
                                                           values[j].op = "mwrite"}}
                   neat(n) == LowSimplified(n, all, afterStore)
               IN Everywhere(neat)
  /\ stage' = IF values' = values THEN "neat" ELSE "low"
  /\ UNCHANGED <<round, asked>>

LowToMid ==
  /\ stage = IF "simplify low" \in asked THEN "neat" ELSE "low"
  /\ stage' = "mid"
  /\ values' = LET all == WithinAll(values)
                   mid(n) == ToMid(n, all)
               IN Everywhere(mid)
  /\ UNCHANGED <<round, asked>>

\* a round of the simplifier, which asks for another when it changed a value
SimplifyOnce(vs) == EliminateCSE([i \in DOMAIN vs |-> Simplified(vs[i])])
Simplify ==
  /\ stage = "mid"
  /\ "simplify" \in asked
  /\ values' = SimplifyOnce(values)
  /\ round' = round + 1
  /\ stage' = IF values' = values \/ round' = Rounds THEN "simplified" ELSE "mid"
  /\ UNCHANGED asked

\* what has become of the values when no round is left
ConstantFold ==
  /\ stage = IF "simplify" \in asked THEN "simplified" ELSE "mid"
  /\ stage' = "folded"
  /\ values' = IF "fold" \in asked THEN Everywhere(Folded) ELSE values
  /\ UNCHANGED <<round, asked>>

\* the divisions first, then the remainders they make visible
RecoverMagicDivision ==
  /\ stage = "folded"
  /\ stage' = "divided"
  /\ values' = LET both(n) == Reduced(Divided(n))
               IN IF "optimize" \in asked THEN Everywhere(both) ELSE values
  /\ UNCHANGED <<round, asked>>

MidToHigh ==
  /\ stage = "divided"
  /\ stage' = "high"
  /\ values' = Everywhere(ToHigh)
  /\ UNCHANGED <<round, asked>>

BuildC ==
  /\ stage = "high"
  /\ stage' = "c"
  /\ values' = LET all == WithinAll(values)
                   roots == {values[i] : i \in DOMAIN values}
                   built(n) == BuildExpression(n, all, roots)
               IN Everywhere(built)
  /\ UNCHANGED <<round, asked>>

Next == \/ LowSimplify \/ LowToMid \/ Simplify \/ ConstantFold
        \/ RecoverMagicDivision \/ MidToHigh \/ BuildC
Spec == Init /\ [][Next]_vars

-----------------------------------------------------------------------------
\* the bits tried for a variable: around zero, the sign and the top
Edges(w) == {0, 1, 2, 3, 2^(w - 1) - 1, 2^(w - 1), 2^w - 2, 2^w - 1}
\* memory, and two bases of addresses, two apart or the same
Places == {"memory", "base", "other"}
Tried(name, w) == IF name \in Places THEN {0, 2, 2^LongW - 2} ELSE Edges(w)
Envs(ns) == LET r == UNION {ReadsOf(ns[i]) : i \in DOMAIN ns}
               widthOf == [name \in {m.k : m \in r} |->
                             (CHOOSE m \in r : m.k = name).w]
           IN {e \in [DOMAIN widthOf -> UNION {Tried(k, widthOf[k]) : k \in DOMAIN widthOf}] :
                 \A k \in DOMAIN e : e[k] \in Tried(k, widthOf[k])}

\* Where a step may lose a value: what each rule leaves out of account.
ShiftedBy(n, k) == IsBin(n, {"Shr", "Sar", "Shl"}) /\ IsConst(n.x[2]) /\ IsBin(n.x[1], k)
\* two shifts that shift everything out become one the machine has not got
ShiftsEverythingOut(n) ==
  ShiftedBy(n, {n.k}) /\ IsConst(n.x[1].x[2]) /\ n.x[1].x[2].v + n.x[2].v >= n.w
\* the mask moved out of an arithmetic shift keeps no sign
MasksSign(n) ==
  n.k = "Sar" /\ ShiftedBy(n, {"BitAnd"}) /\ BitsOf(n.x[1].x[2], n.w) >= 2^(n.w - 1)
\* a shifted product is taken for a division, whatever was shifted out
LooksDivided(n) == ShiftedBy(n, Products)
\* the remainder of an unsigned division is recovered as a signed one
UnsignedRemainder(n) ==
  IsBin(n, {"Sub"}) /\ IsBin(n.x[2], Products) /\ IsBin(n.x[2].x[1], {"UDiv"})
\* a computed target is no operand of the Mid tier's call
LosesTarget(n) == n.op = "lcall" /\ n.v = 0 /\ n.x[2].op \notin {"const", "aconst"}
\* a load is merged with one from before an effect that is not looked for
LosesEffect(i) ==
  \E m \in Within(values[i]) : \E j \in 1 .. i - 1 :
    SameLoad(values[j], m) /\ \E k \in j .. i : values[k].op \in {"region", "push", "llvmstore"}
LosesInMid(n) ==
  \E m \in Within(n) : \/ ShiftsEverythingOut(m) \/ MasksSign(m)
                       \/ LooksDivided(m) \/ UnsignedRemainder(m)

\* what is to be kept of n: its value, or all that its effect depends on
Calls == {"sub", "__vtable", "__indirect_call"}
Target(v) == IF v = 0 THEN UnknownOf(LongW) ELSE Const(v, LongW)
Parts(n) == CASE StoredBy(n) # <<>> -> StoredBy(n)
              [] n.op = "lcall" -> <<IF n.v = 0 THEN n.x[2] ELSE Target(n.v), n.x[3]>>
              [] n.op = "mcall" \/ (n.op = "hcall" /\ n.k \in Calls) -> <<Target(n.v), n.x[2]>>
              [] n.op \in {"rep", "push"} \/ (n.op = "hcall" /\ n.k \notin Calls) -> Tail(n.x)
              [] OTHER -> <<n>>
KeepsValue(before, after) ==
  LET p == Parts(before)
      q == Parts(after)
  IN /\ Len(p) = Len(q)
     /\ \A e \in Envs(<<before>>) : \A i \in DOMAIN p : Refines(Meaning(p[i], e), Meaning(q[i], e))
\* Every conversion and every rewriting before C leaves each variable the bits
\* the processor computed for it, whatever the operands: the flags that became
\* comparisons, the folded constants, the collapsed shifts, the recovered
\* divisions (HelixLowToMid, HelixMidSimplify, ConstantFoldingPass,
\* RecoverMagicDivision, HelixMidToHigh), except where a rule is known to lose.
TiersKeepValues ==
  [][stage' # "c" => \A i \in DOMAIN values :
       LosesInMid(values[i]) \/ LosesTarget(values[i]) \/ LosesEffect(i) \/ KeepsValue(values[i], values'[i])]_vars

\* Where C may lose a value of the High tier.
UsesIn(n) == LET whole == Node("root", "", n.w, 0, <<n>>, {})
             IN UNION {{<<m, Operands(m)[i]>> : i \in DOMAIN Operands(m)} : m \in Within(whole)}
HighKind(n) == IF n.op \in {"llvm", "arith"} /\ n.k \in DOMAIN KindOf THEN KindOf[n.k]
               ELSE IF n.op = "hbin" THEN n.k ELSE "none"
Equality == {"Eq", "Ne"}
IsLiteral(v) == v.op \in {"intlit", "aconst"}
\* >> and %, and in the arith dialect all that asks for a sign, are those of
\* the type their operands happen to have, and a sign
\* is extended from the type the operand has
ByDeclaredType(m, v) ==
  \/ HighKind(v) \in {"Shr", "Sar"} /\ ~(m.op = "hcast" /\ m.w = 1 /\ v.x[2].v = v.w - 1)
  \/ m.op = "hbin" /\ m.k = "Mod"
  \/ m.op = "arith" /\ HighKind(m) \in {"UDiv", "UMod", "SDiv", "Mod"}
                                        \cup SignedOrdered \cup UnsignedOrdered
  \/ m.w > v.w /\ v.w > 1 /\ ((m.op = "llvm" /\ m.k = "sext") \/ (m.op = "hcast" /\ m.k # "ZeroExtend"))
\* C computes in int what the machine computes in fewer bits
LeavesItsWidth(v) ==
  /\ v.w \in 2 .. IntW - 1
  /\ \/ HighKind(v) \in {"Add", "Sub", "Mul", "Shl", "BitXor"}
     \/ v.op = "hun" /\ v.k \in {"Neg", "BitNot"}
SeesUpperBits(m, v) ==
  /\ LeavesItsWidth(v)
  /\ \/ m.op = "hun" /\ m.k = "LogNot" /\ HighKind(v) # "Sub"
     \/ m.op = "hcast" /\ m.w = 1
     \/ HighKind(m) \in Equality /\ "fixed_width_compare" \notin m.at
     \/ HighKind(m) \in {"Shr", "Sar"}
\* two operands of fewer bits than int, one declared signed and one unsigned
MixedSigns(m) ==
  /\ HighKind(m) \in Equality /\ "fixed_width_compare" \notin m.at
  /\ m.x[1].w \in 2 .. IntW - 1
  /\ IsLiteral(m.x[2]) => m.x[2].v < 0
\* the i1 true prints as -1
TrueAsMinusOne(v) == IsLiteral(v) /\ v.w = 1 /\ v.v < 0
\* a declared pointer scales what is added to it once more
ScalesTwice(m, v) ==
  /\ "pointer" \in v.at
  /\ \/ m.op = "hbin" /\ m.k \in {"Add", "Sub"}
     \/ m.k = "gep" /\ m.x[1] = v /\ ~(IsLiteral(m.x[2]) /\ m.x[2].v = 0)
\* an address comes of fewer bits, or of an element whose size is not known
LosesAddress(m) ==
  \/ m.k = "inttoptr" /\ m.x[1].w < LongW
  \/ m.k = "gep" /\ ("aggregate" \in m.at \/ (~IsLiteral(m.x[2]) /\ m.x[2].w < LongW))
\* a variable becomes a float, or is compared, with the sign it is declared with;
\* an unsigned result beyond the signed ones has no conversion, and abs is int's
LosesSign(m) ==
  \/ m.k \in {"sitofp", "uitofp"} \cup Extremes /\ \E i \in DOMAIN m.x : m.x[i].op = "read"
  \/ m.k = "fptoui" \/ (m.k = "abs" /\ m.w > IntW)
\* not-a-numbers compare as C has it; floats have no remainder in C; only lane
\* zero of a vector is there
LosesFloat(m) == m.k \in {"one", "ord", "uno", "frem"} \cup (DOMAIN Unordered \ {"une"})
LosesLane(m) == m.k \in {"insertelement", "shufflevector"} /\ m.v # 0
\* a field has no width of its own
LosesWidth(m, v) == v.op = "deref" /\ v.x[2].op = "fieldptr" /\ v.w < LongW /\ m.op # "root"
\* what memory was loaded from may have changed where C loads it, and the object of a
\* virtual call is gone
MemoryBefore(i) == LET effects == {j \in 1 .. i - 1 : values[j].op \in Effects}
                   IN IF effects = {} THEN Memory
                      ELSE values[CHOOSE j \in effects : \A k \in effects : k <= j]
LosesMoment(i) == \/ \E m \in Within(values[i]) : m.op \in Loads /\ m.x[1] # MemoryBefore(i)
                  \/ values[i].op = "hcall" /\ values[i].k = "__vtable"
LosesInC(n) == \E u \in UsesIn(n) : \/ ScalesTwice(u[1], u[2]) \/ LosesAddress(u[2])
                                    \/ LosesWidth(u[1], u[2]) \/ LosesSign(u[2]) \/ LosesFloat(u[2]) \/ LosesLane(u[2])
                                    \/ ByDeclaredType(u[1], u[2])
                                    \/ SeesUpperBits(u[1], u[2])
                                    \/ MixedSigns(u[1]) \/ TrueAsMinusOne(u[2])

\* the C expressions for the parts of an effect
AddressInC(e) == IF e.op = "field"
                 THEN CBin("Add", LongW, CCast(LongW, FALSE, e.x[1]), CLit(e.v, LongW)) ELSE e.x[1]
CParts(n, c) ==
  CASE c.op = "cassign" -> <<AddressInC(c.x[1]), c.x[2]>>
    [] c.op = "cif" -> <<AddressInC(c.x[1].x[1]), c.x[1].x[2]>>
    [] n.op = "hcall" -> (IF n.k \in Calls THEN <<IF n.v = 0 THEN CCall("__helix_unknown", LongW, <<>>) ELSE CLit(n.v, LongW)>> ELSE <<>>) \o c.x
    [] OTHER -> <<c>>
\* C assigns the bits of the value whichever variables are declared unsigned
AsInC(n, c, here) ==
  LET p == Parts(n)
      q == CParts(n, c)
      reads == \E m \in Within(n) : m.op \in Loads
  IN /\ Len(p) = Len(q)
     /\ \A e \in Envs(IF reads THEN <<n, here>> ELSE <<n>>) : \A unsigned \in SUBSET (DOMAIN e \ Places) :
          \A i \in DOMAIN p :
            Refines(Meaning(p[i], e), AssignedBits(q[i], p[i].w, e @@ ("here" :> here), unsigned))
\* The C expression CAstBuilder makes of a value assigns its bits, although C
\* promotes, converts and compares by the types its operands are declared
\* with, which need not be those of the value.
CKeepsValues ==
  [][stage' = "c" => \A i \in DOMAIN values :
       LosesInC(values[i]) \/ LosesMoment(i)
         \/ AsInC(values[i], values'[i], MemoryBefore(i))]_vars

\* how deep the operations of a value nest, and whether k rounds of the
\* simplifier bring values to rest
RECURSIVE Height(_), RestWithin(_, _)
Height(n) == 1 + Max({0} \cup {Height(n.x[i]) : i \in DOMAIN n.x})
Highest(vs) == Max({Height(vs[i]) : i \in DOMAIN vs})
RestWithin(vs, k) == LET next == SimplifyOnce(vs)
                     IN next = vs \/ (k > 0 /\ RestWithin(next, k - 1))
\* The rules of HelixMidSimplify, which feed one another, neither undo each
\* other nor make each other work without end: values come to rest within as
\* many rounds as their operations nest. It does not say that the 16 rounds of
\* the pass suffice: a shift moves past one mask a round, so that over 17
\* nested masks it is left half way.
SimplifierSettles ==
  stage = "mid" /\ round = 0 => RestWithin(values, Highest(values))

Comparing == SignedOrdered \cup UnsignedOrdered \cup Equality
\* operands of one width, a truth value from a comparison
WellTyped(n) ==
  n.op \in {"bin", "hbin"} =>
    /\ n.k \notin {"Shl", "Shr", "Sar"} => n.x[1].w = n.x[2].w
    /\ n.w = IF n.k \in Comparing THEN 1 ELSE n.x[1].w
\* Values, stages and rounds stay in their sets, and in every tier an operation
\* reads operands of one width and a comparison yields one bit.
TypeOK ==
  /\ stage \in {"low", "neat", "mid", "simplified", "folded", "divided", "high", "c"}
  /\ round \in 0 .. Rounds
  /\ asked \in Sessions
  /\ \A i \in DOMAIN values : \A n \in Within(values[i]) : WellTyped(n)
=============================================================================

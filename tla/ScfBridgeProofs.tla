-------------------------- MODULE ScfBridgeProofs --------------------------
(* The emitted assignments mean the loop, whatever it carries.             *)
EXTENDS ScfBridge, TLAPS

-----------------------------------------------------------------------------
(* The inductive invariant follows the emitted program: at each group, the *)
(* assignments made so far hold what the loop's semantics assigns at once. *)

ArmValue(k) ==
    ArmWorth(prog.arms[ArmWorth(prog.chooser, ReadArgs)][k], ReadArgs)
ArmValues == [k \in 1..prog.held |-> ArmValue(k)]

InitsTo(n) == \A i \in 1..prog.ins :
    i < n => Invariant(i) \/ carried[i] = prog.init[i]
HeldTo(n) == \A k \in 1..prog.held :
    k < n => Agreed(k) \/ held[k] = ArmValue(k)
TakenTo(n) == \A j \in 1..prog.outs :
    j < n => Invariant(j) \/ taken[j] = Read(prog.next[j])
CommittedTo(n) == \A i \in 1..prog.ins :
    i < n => Invariant(i) \/ carried[i] = taken[prog.back[i]]
CarriedAssigned == \A i \in 1..prog.ins : Invariant(i) \/ carried[i] \in Operand
TakenAssigned == \A j \in 1..prog.outs : Invariant(j) \/ taken[j] \in Operand

EnteringInv ==
    /\ pc = "inits" => InitsTo(at)
    /\ pc \in {"branch", "guard", "take"} => CarriedAssigned

IterationInv ==
    /\ pc = "branch" => HeldTo(at)
    /\ pc \in {"guard", "take"} => HeldTo(prog.held + 1)
    /\ pc = "take" => TakenTo(at)
    /\ pc = "guard" /\ route = "mapped" => TakenTo(prog.outs + 1)
    /\ pc = "take" /\ route # "mapped" => guard = Read(prog.cond)

LeavingInv ==
    /\ pc \in {"commit", "test", "done"} => TakenAssigned
    /\ pc = "commit" => CommittedTo(at)
    /\ pc \in {"test", "done"} => CommittedTo(prog.ins + 1)

Inv ==
    /\ TypeOK
    /\ Meets(route, prog)
    /\ EnteringInv
    /\ IterationInv
    /\ LeavingInv
-----------------------------------------------------------------------------
(* What expressions are worth.                                             *)

LEMMA ArmWorthTyped ==
    ASSUME NEW n \in Nat, NEW e \in ArmExpressions(n),
           NEW args \in [1..n -> Operand]
    PROVE  ArmWorth(e, args) \in Operand
<1>1. CASE \E i \in 1..n : e = Arg(i)
  BY <1>1 DEF Arg, ArmWorth
<1>2. CASE \E i \in 1..n : e = Computed(i)
  <2>1. PICK i \in 1..n : e = Computed(i)
    BY <1>2
  <2>2. ArmWorth(e, args) = Compute[args[i]]
    BY <2>1 DEF Computed, ArmWorth
  <2> QED
    BY <2>2, ValuesAssumption
<1>3. CASE \E v \in Value : e = Const(v)
  BY <1>3 DEF Const, ArmWorth, Operand
<1>4. CASE e = Undefined
  BY <1>4 DEF Undefined, ArmWorth, Operand
<1> QED
  BY <1>1, <1>2, <1>3, <1>4 DEF ArmExpressions

LEMMA ReadArgsTyped ==
    ASSUME IsProgram(prog), CarriedAssigned
    PROVE  ReadArgs \in [1..prog.ins -> Operand]
<1>1. prog.init \in [1..prog.ins -> Operand]
  BY DEF IsProgram
<1>2. \A i \in 1..prog.ins : ReadArg(i) \in Operand
  BY <1>1 DEF CarriedAssigned, ReadArg
<1> QED
  BY <1>2 DEF ReadArgs

(* An agreed result is worth what any arm yields for it.                   *)
LEMMA AgreedValue ==
    ASSUME IsProgram(prog), CarriedAssigned, NEW k \in 1..prog.held, Agreed(k)
    PROVE  /\ prog.arms[Poison][k] \in ArmExpressions(prog.ins)
           /\ prog.arms[Poison][k].kind # "result"
           /\ ArmWorth(prog.arms[Poison][k], ReadArgs) = ArmValue(k)
<1>1. PICK e \in ArmExpressions(prog.ins) :
         /\ e.kind \in {"arg", "const"}
         /\ \A s \in Operand : prog.arms[s][k] = e
  BY DEF Agreed
<1>2. prog.chooser \in ArmExpressions(prog.ins) /\ prog.ins \in Nat
  BY DEF IsProgram
<1>3. ArmWorth(prog.chooser, ReadArgs) \in Operand
  BY <1>2, ReadArgsTyped, ArmWorthTyped
<1>4. prog.arms[Poison][k] = e
  BY <1>1 DEF Operand
<1>5. prog.arms[ArmWorth(prog.chooser, ReadArgs)][k] = e
  BY <1>1, <1>3
<1> QED
  BY <1>1, <1>4, <1>5 DEF ArmValue

LEMMA ArmExpressionKind ==
    ASSUME NEW n, NEW e \in ArmExpressions(n) PROVE e.kind # "result"
BY DEF ArmExpressions, Arg, Computed, Const, Undefined

LEMMA ReadArm ==
    ASSUME IsProgram(prog), CarriedAssigned,
           NEW e \in ArmExpressions(prog.ins)
    PROVE  Read(e) = ArmWorth(e, ReadArgs) /\ Read(e) \in Operand
<1>1. e.kind # "result"
  BY ArmExpressionKind
<1>2. prog.ins \in Nat
  BY DEF IsProgram
<1>3. Read(e) = ArmWorth(e, ReadArgs)
  BY <1>1 DEF Read, Resolved, Worth
<1> QED
  BY <1>2, <1>3, ReadArgsTyped, ArmWorthTyped

LEMMA ArmValueTyped ==
    ASSUME IsProgram(prog), CarriedAssigned, NEW k \in 1..prog.held
    PROVE  /\ ArmValue(k) = Read(prog.arms[Read(prog.chooser)][k])
           /\ ArmValue(k) \in Operand
<1>1. prog.chooser \in ArmExpressions(prog.ins)
  BY DEF IsProgram
<1>2. /\ Read(prog.chooser) = ArmWorth(prog.chooser, ReadArgs)
      /\ Read(prog.chooser) \in Operand
  BY <1>1, ReadArm
<1>3. prog.arms[Read(prog.chooser)][k] \in ArmExpressions(prog.ins)
  BY <1>2 DEF IsProgram
<1> QED
  BY <1>2, <1>3, ReadArm DEF ArmValue

(* Once the branch has run, reading by name gives the loop's own values.   *)
LEMMA ReadIsWorth ==
    ASSUME IsProgram(prog), CarriedAssigned, HeldTo(prog.held + 1),
           NEW e \in Expressions(prog.ins, prog.held)
    PROVE  /\ Read(e) = Worth(e, ReadArgs, ArmValues)
           /\ Read(e) \in Operand
<1>1. CASE e \in ArmExpressions(prog.ins)
  <2>1. e.kind # "result"
    BY <1>1, ArmExpressionKind
  <2> QED
    BY <1>1, <2>1, ReadArm DEF Worth
<1>2. CASE \E k \in 1..prog.held : e = Result(k)
  <2>1. PICK k \in 1..prog.held : e = Result(k)
    BY <1>2
  <2>2. e.kind = "result" /\ e.of = k
    BY <2>1 DEF Result
  <2>3. Worth(e, ReadArgs, ArmValues) = ArmValue(k)
    BY <2>1, <2>2 DEF Worth, ArmValues
  <2>4. CASE Agreed(k)
    <3>1. Resolved(e) = prog.arms[Poison][k]
      BY <2>2, <2>4 DEF Resolved
    <3>2. Read(e) = ArmWorth(prog.arms[Poison][k], ReadArgs)
      BY <3>1, <2>4, AgreedValue DEF Read, Worth
    <3> QED
      BY <3>2, <2>3, <2>4, AgreedValue, ArmValueTyped
  <2>5. CASE ~Agreed(k)
    <3>1. Read(e) = held[k]
      BY <2>2, <2>5 DEF Read, Resolved, Worth
    <3>2. prog.held \in Nat /\ k < prog.held + 1
      BY <2>1 DEF IsProgram
    <3>3. held[k] = ArmValue(k)
      BY <2>5, <3>2 DEF HeldTo
    <3> QED
      BY <3>1, <3>3, <2>3, ArmValueTyped
  <2> QED
    BY <2>4, <2>5
<1> QED
  BY <1>1, <1>2 DEF Expressions

(* A component without a variable is forwarded unchanged.                  *)
LEMMA InvariantForwarded ==
    ASSUME IsProgram(prog), CarriedAssigned, Meets(route, prog),
           NEW j \in 1..prog.outs, Invariant(j)
    PROVE  /\ j \in 1..prog.ins
           /\ prog.back[j] = j
           /\ Read(prog.next[j]) = prog.init[j]
<1>1. route = "paired" /\ Resolved(prog.next[j]) = Arg(j)
  BY DEF Invariant
<1>2. j \in 1..prog.ins /\ prog.back[j] = j
  BY <1>1 DEF Meets
<1>3. Read(prog.next[j]) = ReadArgs[j]
  BY <1>1 DEF Read, Worth, ArmWorth, Arg
<1> QED
  BY <1>2, <1>3 DEF ReadArgs, ReadArg
-----------------------------------------------------------------------------
(* The decisions taken at emission do not change while the program runs.   *)

LEMMA DecisionsKept ==
    ASSUME UNCHANGED program
    PROVE  /\ prog' = prog /\ route' = route
           /\ \A i : Invariant(i)' <=> Invariant(i)
           /\ \A k : Agreed(k)' <=> Agreed(k)
           /\ \A e : Resolved(e)' = Resolved(e)
           /\ IsProgram(prog)' <=> IsProgram(prog)
           /\ Meets(route, prog)' <=> Meets(route, prog)
<1>1. prog' = prog /\ route' = route
  BY DEF program
<1>2. \A k : Agreed(k)' <=> Agreed(k)
  BY <1>1 DEF Agreed
<1>3. \A e : Resolved(e)' = Resolved(e)
  BY <1>1, <1>2 DEF Resolved
<1>4. \A i : Invariant(i)' <=> Invariant(i)
  BY <1>1, <1>3 DEF Invariant
<1>5. IsProgram(prog)' <=> IsProgram(prog)
  BY <1>1 DEF IsProgram
<1>6. Meets(route, prog)' <=> Meets(route, prog)
  BY <1>1 DEF Meets
<1> QED
  BY <1>1, <1>2, <1>3, <1>4, <1>5, <1>6

LEMMA ArgsKept ==
    ASSUME UNCHANGED program, UNCHANGED carried
    PROVE  /\ ReadArgs' = ReadArgs
           /\ \A k : ArmValue(k)' = ArmValue(k)
           /\ CarriedAssigned' <=> CarriedAssigned
<1>1. prog' = prog /\ \A i : Invariant(i)' <=> Invariant(i)
  BY DecisionsKept
<1>2. \A i : ReadArg(i)' = ReadArg(i)
  BY <1>1 DEF ReadArg
<1>3. ReadArgs' = ReadArgs
  BY <1>1, <1>2 DEF ReadArgs
<1> QED
  BY <1>1, <1>3 DEF ArmValue, CarriedAssigned

LEMMA ReadsKept ==
    ASSUME UNCHANGED program, UNCHANGED carried, UNCHANGED held
    PROVE  \A e : Read(e)' = Read(e)
BY DecisionsKept, ArgsKept DEF Read

-----------------------------------------------------------------------------
LEMMA InitInv == Init => Inv
<1> SUFFICES ASSUME Init PROVE Inv
  OBVIOUS
<1>1. IsProgram(prog)
  BY ProgramsAssumption DEF Init
<1>2. TypeOK
  BY <1>1 DEF Init, TypeOK, Groups
<1> QED
  BY <1>2 DEF Init, Inv, EnteringInv, IterationInv, LeavingInv

LEMMA LegalizeInv == ASSUME Inv, Legalize PROVE Inv'
<1>1. UNCHANGED program /\ UNCHANGED <<carried, held, taken, guard>>
  BY DEF Legalize
<1>2. prog' = prog /\ route' = route /\ IsProgram(prog)' /\ Meets(route, prog)'
  BY <1>1, DecisionsKept DEF Inv, TypeOK
<1>3. pc' \in {"inits", "declined"} /\ at' = 1
  BY DEF Legalize, Goto
<1>4. TypeOK'
  BY <1>1, <1>2, <1>3 DEF Inv, TypeOK, Groups
<1>5. prog'.ins \in Nat
  BY <1>2 DEF IsProgram
<1>6. InitsTo(at)'
  BY <1>3, <1>5 DEF InitsTo
<1> QED
  BY <1>2, <1>3, <1>4, <1>6 DEF Inv, EnteringInv, IterationInv, LeavingInv

LEMMA AssignInitInv == ASSUME Inv, AssignInit PROVE Inv'
<1> USE DEF Inv
<1>1. /\ UNCHANGED program /\ UNCHANGED <<held, taken, guard>>
      /\ pc = "inits" /\ at \in Nat \ {0} /\ InitsTo(at)
  BY DEF AssignInit, TypeOK, EnteringInv
<1>2. /\ prog' = prog /\ route' = route /\ IsProgram(prog)' /\ Meets(route, prog)'
      /\ \A i : Invariant(i)' <=> Invariant(i)
  BY <1>1, DecisionsKept DEF TypeOK
<1>3. prog.ins \in Nat /\ prog.init \in [1..prog.ins -> Operand]
  BY DEF TypeOK, IsProgram
<1>4. CASE at <= prog.ins /\ UNCHANGED pc
  <2>1. at' = at + 1 /\ pc' = "inits"
    BY <1>1, <1>4 DEF AssignInit, Goto
  <2>2. carried' = IF Invariant(at) THEN carried
                   ELSE [carried EXCEPT ![at] = prog.init[at]]
    BY <1>1, <1>4 DEF AssignInit, Goto
  <2>3. carried' \in [1..prog.ins -> Operand \cup {Unset}]
    <3>1. carried \in [1..prog.ins -> Operand \cup {Unset}]
      BY DEF TypeOK
    <3>2. CASE Invariant(at)
      BY <2>2, <3>1, <3>2
    <3>3. CASE ~Invariant(at)
      <4>1. at \in 1..prog.ins => prog.init[at] \in Operand
        BY <1>3
      <4> QED
        BY <2>2, <3>1, <3>3, <4>1
    <3> QED
      BY <3>2, <3>3
  <2>4. TypeOK'
    BY <1>1, <1>2, <2>1, <2>3 DEF TypeOK, Groups
  <2>5. InitsTo(at)'
    <3> SUFFICES ASSUME NEW i \in 1..prog.ins, i < at + 1, ~Invariant(i)
                 PROVE  carried'[i] = prog.init[i]
      BY <1>2, <2>1 DEF InitsTo
    <3>1. CASE i < at
      <4>1. carried[i] = prog.init[i]
        BY <1>1, <3>1 DEF InitsTo
      <4> QED
        BY <2>2, <3>1, <4>1, <1>1 DEF TypeOK
    <3>2. CASE i = at
      BY <2>2, <3>2 DEF TypeOK
    <3> QED
      BY <1>1, <1>3, <3>1, <3>2
  <2> QED
    BY <1>2, <2>1, <2>4, <2>5 DEF EnteringInv, IterationInv, LeavingInv
<1>5. CASE at > prog.ins /\ pc' = "branch" /\ at' = 1 /\ UNCHANGED carried
  <2>1. TypeOK'
    BY <1>1, <1>2, <1>5 DEF TypeOK, Groups
  <2>2. CarriedAssigned
    <3> SUFFICES ASSUME NEW i \in 1..prog.ins, ~Invariant(i)
                 PROVE  carried[i] \in Operand
      BY DEF CarriedAssigned
    <3>1. i < at
      BY <1>1, <1>3, <1>5
    <3> QED
      BY <1>1, <1>3, <3>1 DEF InitsTo
  <2>3. CarriedAssigned'
    BY <1>1, <1>5, <2>2, ArgsKept
  <2>4. HeldTo(at)'
    <3>1. prog'.held \in Nat
      BY <1>2 DEF IsProgram
    <3> QED
      BY <1>5, <3>1 DEF HeldTo
  <2> QED
    BY <1>2, <1>5, <2>1, <2>3, <2>4 DEF EnteringInv, IterationInv, LeavingInv
<1> QED
  BY <1>4, <1>5 DEF AssignInit, Goto

LEMMA AssignHeldInv == ASSUME Inv, AssignHeld PROVE Inv'
<1> USE DEF Inv
<1>1. /\ UNCHANGED program /\ UNCHANGED <<carried, taken, guard>>
      /\ pc = "branch" /\ at \in Nat \ {0} /\ HeldTo(at) /\ CarriedAssigned
      /\ IsProgram(prog) /\ held \in [1..prog.held -> Operand \cup {Unset}]
  BY DEF AssignHeld, TypeOK, EnteringInv, IterationInv
<1>2. /\ prog' = prog /\ route' = route /\ IsProgram(prog)' /\ Meets(route, prog)'
      /\ \A k : Agreed(k)' <=> Agreed(k)
  BY <1>1, DecisionsKept
<1>3. CarriedAssigned' /\ \A k : ArmValue(k)' = ArmValue(k)
  BY <1>1, ArgsKept
<1>4. prog.held \in Nat /\ prog.outs \in Nat
  BY <1>1 DEF IsProgram
<1>5. CASE at <= prog.held /\ UNCHANGED pc
  <2>1. /\ at' = at + 1 /\ pc' = "branch"
        /\ held' = IF Agreed(at) THEN held
                   ELSE [held EXCEPT ![at] = Read(prog.arms[Read(prog.chooser)][at])]
    BY <1>1, <1>4, <1>5 DEF AssignHeld, Goto
  <2>2. at \in 1..prog.held
    BY <1>1, <1>4, <1>5
  <2>3. /\ ArmValue(at) = Read(prog.arms[Read(prog.chooser)][at])
        /\ ArmValue(at) \in Operand
    BY <1>1, <2>2, ArmValueTyped
  <2>4. held' \in [1..prog.held -> Operand \cup {Unset}]
    BY <1>1, <2>1, <2>3
  <2>5. TypeOK'
    BY <1>1, <1>2, <2>1, <2>4 DEF TypeOK, Groups
  <2>6. HeldTo(at)'
    <3> SUFFICES ASSUME NEW k \in 1..prog.held, k < at + 1, ~Agreed(k)
                 PROVE  held'[k] = ArmValue(k)
      BY <1>2, <1>3, <2>1 DEF HeldTo
    <3>1. CASE k < at
      <4>1. held[k] = ArmValue(k)
        BY <1>1, <3>1 DEF HeldTo
      <4> QED
        BY <1>1, <2>1, <3>1, <4>1
    <3>2. CASE k = at
      BY <1>1, <2>1, <2>2, <2>3, <3>2
    <3> QED
      BY <1>1, <1>4, <3>1, <3>2
  <2> QED
    BY <1>2, <1>3, <2>1, <2>5, <2>6 DEF EnteringInv, IterationInv, LeavingInv
<1>6. CASE /\ at > prog.held /\ UNCHANGED held /\ at' = 1
           /\ pc' = IF route = "mapped" THEN "take" ELSE "guard"
  <2>1. TypeOK'
    BY <1>1, <1>2, <1>6 DEF TypeOK, Groups
  <2>2. HeldTo(prog.held + 1)
    <3> SUFFICES ASSUME NEW k \in 1..prog.held, ~Agreed(k)
                 PROVE  held[k] = ArmValue(k)
      BY DEF HeldTo
    <3>1. k < at
      BY <1>1, <1>4, <1>6
    <3> QED
      BY <1>1, <3>1 DEF HeldTo
  <2>3. HeldTo(prog.held + 1)'
    BY <1>2, <1>3, <1>6, <2>2 DEF HeldTo
  <2>4. TakenTo(at)'
    <3>1. prog'.outs \in Nat
      BY <1>2, <1>4
    <3> QED
      BY <1>6, <3>1 DEF TakenTo
  <2> QED
    BY <1>2, <1>3, <1>6, <2>1, <2>3, <2>4 DEF EnteringInv, IterationInv, LeavingInv
<1> QED
  BY <1>5, <1>6 DEF AssignHeld, Goto

LEMMA AllTaken ==
    ASSUME IsProgram(prog), CarriedAssigned, HeldTo(prog.held + 1),
           TakenTo(prog.outs + 1)
    PROVE  TakenAssigned
<1> SUFFICES ASSUME NEW j \in 1..prog.outs, ~Invariant(j)
             PROVE  taken[j] \in Operand
  BY DEF TakenAssigned
<1>1. prog.outs \in Nat /\ prog.next[j] \in Expressions(prog.ins, prog.held)
  BY DEF IsProgram
<1>2. taken[j] = Read(prog.next[j])
  BY <1>1 DEF TakenTo
<1> QED
  BY <1>1, <1>2, ReadIsWorth

LEMMA AssignGuardInv == ASSUME Inv, AssignGuard PROVE Inv'
<1> USE DEF Inv
<1>1. /\ UNCHANGED program /\ UNCHANGED <<carried, held, taken>>
      /\ pc = "guard" /\ at' = 1 /\ guard' = Read(prog.cond)
      /\ pc' = IF route = "mapped" THEN "commit" ELSE "take"
      /\ HeldTo(prog.held + 1) /\ CarriedAssigned /\ IsProgram(prog)
  BY DEF AssignGuard, Goto, TypeOK, EnteringInv, IterationInv
<1>2. /\ prog' = prog /\ route' = route /\ IsProgram(prog)' /\ Meets(route, prog)'
      /\ \A i : Invariant(i)' <=> Invariant(i)
      /\ \A k : Agreed(k)' <=> Agreed(k)
  BY <1>1, DecisionsKept
<1>3. CarriedAssigned' /\ \A k : ArmValue(k)' = ArmValue(k)
  BY <1>1, ArgsKept
<1>4. \A e : Read(e)' = Read(e)
  BY <1>1, ReadsKept
<1>5. Read(prog.cond) \in Operand
  BY <1>1, ReadIsWorth DEF IsProgram
<1>6. TypeOK'
  BY <1>1, <1>2, <1>5 DEF TypeOK, Groups
<1>7. HeldTo(prog.held + 1)'
  BY <1>1, <1>2, <1>3 DEF HeldTo
<1>8. prog'.outs \in Nat /\ prog'.ins \in Nat
  BY <1>2 DEF IsProgram
<1>9. TakenTo(at)' /\ CommittedTo(at)'
  BY <1>1, <1>8 DEF TakenTo, CommittedTo
<1>10. CASE route = "mapped"
  <2>1. TakenTo(prog.outs + 1)
    BY <1>1, <1>10 DEF IterationInv
  <2>2. TakenAssigned
    BY <1>1, <2>1, AllTaken
  <2>3. TakenAssigned'
    BY <1>1, <1>2, <2>2 DEF TakenAssigned
  <2> QED
    BY <1>1, <1>2, <1>6, <1>9, <1>10, <2>3 DEF EnteringInv, IterationInv, LeavingInv
<1>11. CASE route # "mapped"
  <2>1. guard' = Read(prog.cond)'
    BY <1>1, <1>2, <1>4
  <2> QED
    BY <1>1, <1>2, <1>3, <1>6, <1>7, <1>9, <1>11, <2>1
       DEF EnteringInv, IterationInv, LeavingInv
<1> QED
  BY <1>10, <1>11

LEMMA TakeInv == ASSUME Inv, Take PROVE Inv'
<1> USE DEF Inv
<1>1. /\ UNCHANGED program /\ UNCHANGED <<carried, held, guard>>
      /\ pc = "take" /\ at \in Nat \ {0} /\ TakenTo(at)
      /\ HeldTo(prog.held + 1) /\ CarriedAssigned /\ IsProgram(prog)
      /\ taken \in [1..prog.outs -> Operand \cup {Unset}]
  BY DEF Take, TypeOK, EnteringInv, IterationInv
<1>2. /\ prog' = prog /\ route' = route /\ IsProgram(prog)' /\ Meets(route, prog)'
      /\ \A i : Invariant(i)' <=> Invariant(i)
      /\ \A k : Agreed(k)' <=> Agreed(k)
  BY <1>1, DecisionsKept
<1>3. CarriedAssigned' /\ \A k : ArmValue(k)' = ArmValue(k)
  BY <1>1, ArgsKept
<1>4. \A e : Read(e)' = Read(e)
  BY <1>1, ReadsKept
<1>5. HeldTo(prog.held + 1)'
  BY <1>1, <1>2, <1>3 DEF HeldTo
<1>6. prog.outs \in Nat /\ prog'.ins \in Nat
  BY <1>1, <1>2 DEF IsProgram
<1>7. CASE at <= prog.outs /\ UNCHANGED pc
  <2>1. /\ at' = at + 1 /\ pc' = "take"
        /\ taken' = IF Invariant(at) THEN taken
                    ELSE [taken EXCEPT ![at] = Read(prog.next[at])]
    BY <1>1, <1>6, <1>7 DEF Take, Goto
  <2>2. at \in 1..prog.outs
    BY <1>1, <1>6, <1>7
  <2>3. Read(prog.next[at]) \in Operand
    <3>1. prog.next[at] \in Expressions(prog.ins, prog.held)
      BY <1>1, <2>2 DEF IsProgram
    <3> QED
      BY <1>1, <3>1, ReadIsWorth
  <2>4. taken' \in [1..prog.outs -> Operand \cup {Unset}]
    BY <1>1, <2>1, <2>3
  <2>5. TypeOK'
    BY <1>1, <1>2, <2>1, <2>4 DEF TypeOK, Groups
  <2>6. TakenTo(at)'
    <3> SUFFICES ASSUME NEW j \in 1..prog.outs, j < at + 1, ~Invariant(j)
                 PROVE  taken'[j] = Read(prog.next[j])
      BY <1>2, <1>4, <2>1 DEF TakenTo
    <3>1. CASE j < at
      <4>1. taken[j] = Read(prog.next[j])
        BY <1>1, <3>1 DEF TakenTo
      <4> QED
        BY <1>1, <2>1, <3>1, <4>1
    <3>2. CASE j = at
      BY <1>1, <2>1, <2>2, <3>2
    <3> QED
      BY <1>1, <1>6, <3>1, <3>2
  <2>7. route # "mapped" => guard' = Read(prog.cond)'
    BY <1>1, <1>2, <1>4 DEF IterationInv
  <2> QED
    BY <1>2, <1>3, <1>5, <2>1, <2>5, <2>6, <2>7
       DEF EnteringInv, IterationInv, LeavingInv
<1>8. CASE /\ at > prog.outs /\ UNCHANGED taken /\ at' = 1
           /\ pc' = IF route = "mapped" THEN "guard" ELSE "commit"
  <2>1. TypeOK'
    BY <1>1, <1>2, <1>8 DEF TypeOK, Groups
  <2>2. TakenTo(prog.outs + 1)
    <3> SUFFICES ASSUME NEW j \in 1..prog.outs, ~Invariant(j)
                 PROVE  taken[j] = Read(prog.next[j])
      BY DEF TakenTo
    <3>1. j < at
      BY <1>1, <1>6, <1>8
    <3> QED
      BY <1>1, <3>1 DEF TakenTo
  <2>3. TakenTo(prog.outs + 1)'
    BY <1>2, <1>4, <1>8, <2>2 DEF TakenTo
  <2>4. TakenAssigned'
    <3>1. TakenAssigned
      BY <1>1, <2>2, AllTaken
    <3> QED
      BY <1>2, <1>8, <3>1 DEF TakenAssigned
  <2>5. CommittedTo(at)'
    BY <1>6, <1>8 DEF CommittedTo
  <2> QED
    BY <1>2, <1>3, <1>5, <1>8, <2>1, <2>3, <2>4, <2>5
       DEF EnteringInv, IterationInv, LeavingInv
<1> QED
  BY <1>7, <1>8 DEF Take, Goto

LEMMA CommitInv == ASSUME Inv, Commit PROVE Inv'
<1> USE DEF Inv
<1>1. /\ UNCHANGED program /\ UNCHANGED <<held, taken, guard>>
      /\ pc = "commit" /\ at \in Nat \ {0} /\ CommittedTo(at)
      /\ TakenAssigned /\ IsProgram(prog)
      /\ carried \in [1..prog.ins -> Operand \cup {Unset}]
      /\ taken \in [1..prog.outs -> Operand \cup {Unset}]
  BY DEF Commit, TypeOK, LeavingInv
<1>2. /\ prog' = prog /\ route' = route /\ IsProgram(prog)' /\ Meets(route, prog)'
      /\ \A i : Invariant(i)' <=> Invariant(i)
  BY <1>1, DecisionsKept
<1>3. prog.ins \in Nat /\ prog.back \in [1..prog.ins -> 1..prog.outs]
  BY <1>1 DEF IsProgram
<1>4. TakenAssigned'
  BY <1>1, <1>2 DEF TakenAssigned
<1>5. CASE at <= prog.ins /\ UNCHANGED pc
  <2>1. /\ at' = at + 1 /\ pc' = "commit"
        /\ carried' = IF Invariant(at) THEN carried
                      ELSE [carried EXCEPT ![at] = taken[prog.back[at]]]
    BY <1>1, <1>3, <1>5 DEF Commit, Goto
  <2>2. at \in 1..prog.ins
    BY <1>1, <1>3, <1>5
  <2>3. carried' \in [1..prog.ins -> Operand \cup {Unset}]
    BY <1>1, <1>3, <2>1, <2>2
  <2>4. TypeOK'
    BY <1>1, <1>2, <2>1, <2>3 DEF TypeOK, Groups
  <2>5. CommittedTo(at)'
    <3> SUFFICES ASSUME NEW i \in 1..prog.ins, i < at + 1, ~Invariant(i)
                 PROVE  carried'[i] = taken[prog.back[i]]
      BY <1>1, <1>2, <2>1 DEF CommittedTo
    <3>1. CASE i < at
      <4>1. carried[i] = taken[prog.back[i]]
        BY <1>1, <3>1 DEF CommittedTo
      <4> QED
        BY <1>1, <2>1, <3>1, <4>1
    <3>2. CASE i = at
      BY <1>1, <2>1, <2>2, <3>2
    <3> QED
      BY <1>1, <1>3, <3>1, <3>2
  <2> QED
    BY <1>2, <1>4, <2>1, <2>4, <2>5 DEF EnteringInv, IterationInv, LeavingInv
<1>6. CASE at > prog.ins /\ UNCHANGED carried /\ at' = 1 /\ pc' = "test"
  <2>1. TypeOK'
    BY <1>1, <1>2, <1>6 DEF TypeOK, Groups
  <2>2. CommittedTo(prog.ins + 1)
    <3> SUFFICES ASSUME NEW i \in 1..prog.ins, ~Invariant(i)
                 PROVE  carried[i] = taken[prog.back[i]]
      BY DEF CommittedTo
    <3>1. i < at
      BY <1>1, <1>3, <1>6
    <3> QED
      BY <1>1, <3>1 DEF CommittedTo
  <2>3. CommittedTo(prog.ins + 1)'
    BY <1>1, <1>2, <1>6, <2>2 DEF CommittedTo
  <2> QED
    BY <1>2, <1>4, <1>6, <2>1, <2>3 DEF EnteringInv, IterationInv, LeavingInv
<1> QED
  BY <1>5, <1>6 DEF Commit, Goto

(* A component without a variable is carried by the output it becomes.     *)
LEMMA InvariantBack ==
    ASSUME IsProgram(prog), Meets(route, prog), NEW i \in 1..prog.ins
    PROVE  /\ prog.back[i] \in 1..prog.outs
           /\ Invariant(prog.back[i]) <=> Invariant(i)
<1>1. prog.back[i] \in 1..prog.outs
  BY DEF IsProgram
<1>2. CASE route = "paired"
  <2>1. prog.back[i] = i
    BY <1>2 DEF Meets
  <2> QED
    BY <1>1, <2>1
<1>3. CASE route # "paired"
  BY <1>1, <1>3 DEF Invariant
<1> QED
  BY <1>2, <1>3

LEMMA TestInv == ASSUME Inv, Test PROVE Inv'
<1> USE DEF Inv
<1>1. /\ UNCHANGED program /\ UNCHANGED <<carried, held, taken, guard>>
      /\ pc = "test" /\ at' = 1
      /\ pc' = IF guard = True THEN "branch" ELSE "done"
      /\ CommittedTo(prog.ins + 1)
      /\ TakenAssigned /\ IsProgram(prog) /\ Meets(route, prog)
  BY DEF Test, Goto, TypeOK, LeavingInv
<1>2. /\ prog' = prog /\ route' = route /\ IsProgram(prog)' /\ Meets(route, prog)'
      /\ \A i : Invariant(i)' <=> Invariant(i)
  BY <1>1, DecisionsKept
<1>3. TypeOK'
  BY <1>1, <1>2 DEF TypeOK, Groups
<1>4. CarriedAssigned
  <2> SUFFICES ASSUME NEW i \in 1..prog.ins, ~Invariant(i)
               PROVE  carried[i] \in Operand
    BY DEF CarriedAssigned
  <2>1. prog.ins \in Nat
    BY <1>1 DEF IsProgram
  <2>2. carried[i] = taken[prog.back[i]]
    BY <1>1, <2>1 DEF CommittedTo
  <2>3. taken[prog.back[i]] \in Operand
    BY <1>1, InvariantBack DEF TakenAssigned
  <2> QED
    BY <2>2, <2>3
<1>5. CarriedAssigned'
  BY <1>1, <1>4, ArgsKept
<1>6. HeldTo(at)'
  <2>1. prog'.held \in Nat
    BY <1>2 DEF IsProgram
  <2> QED
    BY <1>1, <2>1 DEF HeldTo
<1>7. TakenAssigned' /\ CommittedTo(prog.ins + 1)'
  BY <1>1, <1>2 DEF TakenAssigned, CommittedTo
<1> QED
  BY <1>1, <1>2, <1>3, <1>5, <1>6, <1>7 DEF EnteringInv, IterationInv, LeavingInv

LEMMA StutterInv == ASSUME Inv, UNCHANGED vars PROVE Inv'
<1>1. UNCHANGED program /\ UNCHANGED <<pc, at, carried, held, taken, guard>>
  BY DEF vars, program
<1>2. /\ prog' = prog /\ route' = route
      /\ IsProgram(prog)' <=> IsProgram(prog)
      /\ Meets(route, prog)' <=> Meets(route, prog)
      /\ \A i : Invariant(i)' <=> Invariant(i)
      /\ \A k : Agreed(k)' <=> Agreed(k)
  BY <1>1, DecisionsKept
<1>3. (\A k : ArmValue(k)' = ArmValue(k)) /\ \A e : Read(e)' = Read(e)
  BY <1>1, ArgsKept, ReadsKept
<1>4. TypeOK'
  BY <1>1, <1>2 DEF Inv, TypeOK
<1>5. EnteringInv'
  BY <1>1, <1>2 DEF Inv, EnteringInv, InitsTo, CarriedAssigned
<1>6. IterationInv'
  BY <1>1, <1>2, <1>3 DEF Inv, IterationInv, HeldTo, TakenTo
<1>7. LeavingInv'
  BY <1>1, <1>2 DEF Inv, LeavingInv, TakenAssigned, CommittedTo
<1> QED
  BY <1>2, <1>4, <1>5, <1>6, <1>7 DEF Inv

THEOREM Invariance == Spec => []Inv
<1>1. Inv /\ [Next]_vars => Inv'
  BY LegalizeInv, AssignInitInv, AssignHeldInv, AssignGuardInv, TakeInv,
     CommitInv, TestInv, StutterInv DEF Next
<1> QED
  BY InitInv, <1>1, PTL DEF Spec
-----------------------------------------------------------------------------
(* The variables of the emitted program always hold values of their kind.  *)
(* (StructureControlFlow.cpp, bridgeSCFWhileToHelixHigh)                   *)
THEOREM TypeCorrect == Spec => []TypeOK
<1>1. Inv => TypeOK
  BY DEF Inv
<1> QED
  BY Invariance, <1>1, PTL

(* No statement of the emitted program reads a variable that nothing has   *)
(* assigned, whichever assignments were left out as redundant.             *)
(* (StructureControlFlow.cpp, the `forwarded` vectors of both bridges)     *)
LEMMA AssignedInv == Inv => ReadsAreAssigned
<1> SUFFICES ASSUME Inv PROVE ReadsAreAssigned
  OBVIOUS
<1> USE ValuesAssumption
<1>1. IsProgram(prog) /\ Meets(route, prog)
  BY DEF Inv, TypeOK
<1>2. ASSUME pc \in {"branch", "take", "guard"}, NEW i \in 1..prog.ins
      PROVE  ReadArg(i) # Unset
  <2>1. CarriedAssigned
    BY <1>2 DEF Inv, EnteringInv
  <2>2. ReadArgs[i] \in Operand
    BY <1>1, <2>1, ReadArgsTyped
  <2> QED
    BY <2>2 DEF ReadArgs
<1>3. ASSUME pc \in {"take", "guard"}, NEW e \in Expressions(prog.ins, prog.held)
      PROVE  Read(e) # Unset
  <2>1. CarriedAssigned /\ HeldTo(prog.held + 1)
    BY <1>3 DEF Inv, EnteringInv, IterationInv
  <2> QED
    BY <1>1, <2>1, ReadIsWorth
<1>4. /\ \A j \in 1..prog.outs : prog.next[j] \in Expressions(prog.ins, prog.held)
      /\ prog.cond \in Expressions(prog.ins, prog.held)
  BY <1>1 DEF IsProgram
<1>5. ASSUME pc = "commit", NEW i \in 1..prog.ins
      PROVE  Invariant(i) \/ taken[prog.back[i]] # Unset
  <2>1. TakenAssigned
    BY <1>5 DEF Inv, LeavingInv
  <2> QED
    BY <1>1, <2>1, InvariantBack DEF TakenAssigned
<1>6. ASSUME pc = "done", NEW j \in 1..prog.outs
      PROVE  ResultRead(j) # Unset
  <2>1. TakenAssigned /\ CommittedTo(prog.ins + 1)
    BY <1>6 DEF Inv, LeavingInv
  <2>2. CASE route # "paired"
    BY <2>1, <2>2 DEF TakenAssigned, ResultRead, Invariant
  <2>3. CASE route = "paired"
    <3>1. j \in 1..prog.ins /\ prog.back[j] = j
      BY <1>1, <2>3 DEF Meets
    <3>2. CASE Invariant(j)
      <4>1. prog.init[j] \in Operand
        BY <1>1, <3>1 DEF IsProgram
      <4> QED
        BY <2>3, <3>2, <4>1 DEF ResultRead
    <3>3. CASE ~Invariant(j)
      <4>1. prog.ins \in Nat
        BY <1>1 DEF IsProgram
      <4>2. carried[j] = taken[j]
        BY <2>1, <3>1, <3>3, <4>1 DEF CommittedTo
      <4> QED
        BY <2>1, <2>3, <3>3, <4>2 DEF ResultRead, TakenAssigned
    <3> QED
      BY <3>2, <3>3
  <2> QED
    BY <2>2, <2>3
<1> QED
  BY <1>2, <1>3, <1>4, <1>5, <1>6 DEF ReadsAreAssigned

THEOREM ReadsAssigned == Spec => []ReadsAreAssigned
BY Invariance, AssignedInv, PTL

-----------------------------------------------------------------------------
(* Every statement is an iteration of the loop, or a stutter.              *)

LEMMA ViewKept ==
    ASSUME UNCHANGED program, phaseNow' = phaseNow, argsNow' = argsNow,
           resultsNow' = resultsNow
    PROVE  [Loop!Next]_(Loop!vars)
BY DEF Loop!vars, program

(* While the snapshot is read, it is what the iteration computes.          *)
LEMMA SnapshotIsIteration ==
    ASSUME Inv, UNCHANGED program, pc \in {"guard", "take"},
           pc' = "commit", TakenTo(prog.outs + 1)', CarriedAssigned',
           HeldTo(prog.held + 1)', guard' = Read(prog.cond),
           UNCHANGED carried, UNCHANGED held
    PROVE  Loop!Iterate
<1>1. /\ prog' = prog /\ route' = route
      /\ \A i : Invariant(i)' <=> Invariant(i)
      /\ \A e : Read(e)' = Read(e)
  BY DecisionsKept, ReadsKept
<1>2. /\ IsProgram(prog) /\ Meets(route, prog)
      /\ CarriedAssigned /\ HeldTo(prog.held + 1)
  BY DEF Inv, TypeOK, EnteringInv, IterationInv
<1>3. phaseNow = "loop" /\ argsNow = ReadArgs /\ resultsNow = Unset
  BY DEF phaseNow, argsNow, resultsNow, Evaluated
<1>4. Loop!BranchResults = ArmValues
  BY <1>3 DEF Loop!BranchResults, Loop!ArmWorth, ArmValues, ArmValue, ArmWorth
<1>5. \A e \in Expressions(prog.ins, prog.held) :
         Loop!Worth(e, argsNow, Loop!BranchResults) = Read(e)
  BY <1>2, <1>3, <1>4, ReadIsWorth DEF Loop!Worth, Worth, Loop!ArmWorth, ArmWorth
<1>6. \A j \in 1..prog.outs : TakenOr(j)' = Read(prog.next[j])
  <2> SUFFICES ASSUME NEW j \in 1..prog.outs
               PROVE  TakenOr(j)' = Read(prog.next[j])
    OBVIOUS
  <2>1. CASE Invariant(j)
    BY <1>1, <1>2, <2>1, InvariantForwarded DEF TakenOr
  <2>2. CASE ~Invariant(j)
    <3>1. prog.outs \in Nat
      BY <1>2 DEF IsProgram
    <3>2. taken'[j] = Read(prog.next[j])
      BY <1>1, <2>2, <3>1 DEF TakenTo
    <3> QED
      BY <1>1, <2>2, <3>2 DEF TakenOr
  <2> QED
    BY <2>1, <2>2
<1>7. \A j \in 1..prog.outs : Loop!Forwarded[j] = Read(prog.next[j])
  BY <1>2, <1>5 DEF Loop!Forwarded, IsProgram
<1>8. argsNow' = [i \in 1..prog.ins |-> Loop!Forwarded[prog.back[i]]]
  <2> DEFINE Seen(j) == IF Invariant(j) THEN prog.init[j] ELSE taken'[j]
  <2>1. argsNow' = [i \in 1..prog.ins |-> Seen(prog.back[i])]
    BY <1>1 DEF argsNow, Evaluated, TakenOr
  <2>2. \A j \in 1..prog.outs : Seen(j) = Read(prog.next[j])
    BY <1>1, <1>6 DEF TakenOr
  <2>3. \A i \in 1..prog.ins : prog.back[i] \in 1..prog.outs
    BY <1>2 DEF IsProgram
  <2> QED
    BY <1>7, <2>1, <2>2, <2>3
<1>9. Loop!Continues <=> guard' = True
  BY <1>2, <1>5 DEF Loop!Continues, IsProgram
<1>10. CASE guard' = True
  <2>1. phaseNow' = "loop" /\ resultsNow' = Unset
    BY <1>10 DEF phaseNow, resultsNow, Evaluated
  <2> QED
    BY <1>1, <1>3, <1>8, <1>9, <1>10, <2>1 DEF Loop!Iterate
<1>11. CASE guard' # True
  <2>1. phaseNow' = "done" /\ pc' # "done"
    BY <1>11 DEF phaseNow, Evaluated
  <2>2. resultsNow' = [j \in 1..prog.outs |-> TakenOr(j)']
    BY <1>1, <2>1 DEF resultsNow, TakenOr
  <2>3. resultsNow' = Loop!Forwarded
    BY <1>6, <1>7, <2>2 DEF Loop!Forwarded
  <2> QED
    BY <1>1, <1>3, <1>8, <1>9, <1>11, <2>1, <2>3 DEF Loop!Iterate
<1> QED
  BY <1>10, <1>11

LEMMA LegalizeRefines == ASSUME Inv, Legalize PROVE [Loop!Next]_(Loop!vars)
<1>1. UNCHANGED program /\ UNCHANGED <<carried, held, taken, guard>> /\ pc = "legalize"
  BY DEF Legalize
<1>2. prog' = prog /\ phaseNow = "loop" /\ argsNow = prog.init
      /\ resultsNow = Unset /\ argsNow' = prog.init /\ resultsNow' = Unset
  BY <1>1 DEF Legalize, Goto, program, phaseNow, argsNow, resultsNow, Evaluated
<1>3. CASE Declines
  <2>1. phaseNow' = "declined"
    <3>1. pc' = "declined"
      BY <1>3 DEF Legalize, Goto
    <3>2. ~Evaluated'
      BY <3>1 DEF Evaluated
    <3> QED
      BY <3>1, <3>2 DEF phaseNow
  <2>2. ~Loop!Canonical(prog)
    BY <1>3 DEF Declines, Loop!Canonical, Inv, TypeOK, Routes
  <2> QED
    BY <1>2, <2>1, <2>2 DEF Loop!Next, Loop!Decline
<1>4. CASE ~Declines
  <2>1. phaseNow' = "loop"
    BY <1>4 DEF Legalize, Goto, phaseNow, Evaluated
  <2> QED
    BY <1>1, <1>2, <2>1, ViewKept
<1> QED
  BY <1>3, <1>4

LEMMA AssignInitRefines == ASSUME Inv, AssignInit PROVE [Loop!Next]_(Loop!vars)
<1>1. /\ UNCHANGED program /\ UNCHANGED <<held, taken, guard>>
      /\ pc = "inits" /\ at \in Nat \ {0} /\ InitsTo(at) /\ IsProgram(prog)
  BY DEF AssignInit, Inv, TypeOK, EnteringInv
<1>2. prog' = prog /\ pc' \in {"inits", "branch"}
  BY <1>1 DEF AssignInit, Goto, program
<1>3. /\ phaseNow = "loop" /\ phaseNow' = "loop"
      /\ resultsNow = Unset /\ resultsNow' = Unset /\ argsNow = prog.init
  BY <1>1, <1>2 DEF phaseNow, resultsNow, argsNow, Evaluated
<1>4. CASE pc' = "inits"
  <2>1. argsNow' = prog.init
    BY <1>2, <1>4 DEF argsNow
  <2> QED
    BY <1>1, <1>3, <2>1, ViewKept
<1>5. CASE pc' = "branch"
  <2>1. at > prog.ins /\ UNCHANGED carried
    BY <1>1, <1>5 DEF AssignInit
  <2>2. prog.ins \in Nat /\ prog.init \in [1..prog.ins -> Operand]
    BY <1>1 DEF IsProgram
  <2>3. \A i \in 1..prog.ins : ReadArg(i) = prog.init[i]
    <3> SUFFICES ASSUME NEW i \in 1..prog.ins PROVE ReadArg(i) = prog.init[i]
      OBVIOUS
    <3>1. i < at
      BY <1>1, <2>1, <2>2
    <3> QED
      BY <1>1, <3>1 DEF InitsTo, ReadArg
  <2>4. ReadArgs = prog.init
    BY <2>2, <2>3 DEF ReadArgs
  <2>5. argsNow' = prog.init
    BY <1>1, <1>5, <2>1, <2>4, ArgsKept DEF argsNow, Evaluated
  <2> QED
    BY <1>1, <1>3, <2>5, ViewKept
<1> QED
  BY <1>2, <1>4, <1>5

LEMMA AssignHeldRefines == ASSUME Inv, AssignHeld PROVE [Loop!Next]_(Loop!vars)
<1>1. /\ UNCHANGED program /\ UNCHANGED <<carried, taken, guard>>
      /\ pc = "branch" /\ pc' \in {"branch", "guard", "take"}
  BY DEF AssignHeld, Goto
<1>2. ReadArgs' = ReadArgs
  BY <1>1, ArgsKept
<1>3. /\ phaseNow' = phaseNow /\ argsNow' = argsNow /\ resultsNow' = resultsNow
  BY <1>1, <1>2 DEF phaseNow, argsNow, resultsNow, Evaluated
<1> QED
  BY <1>1, <1>3, ViewKept

LEMMA AssignGuardRefines == ASSUME Inv, AssignGuard PROVE [Loop!Next]_(Loop!vars)
<1>1. /\ UNCHANGED program /\ UNCHANGED carried /\ UNCHANGED held
      /\ pc = "guard" /\ guard' = Read(prog.cond)
      /\ pc' = IF route = "mapped" THEN "commit" ELSE "take"
      /\ prog' = prog /\ route' = route
  BY DEF AssignGuard, Goto, program
<1>2. Inv'
  BY AssignGuardInv
<1>3. CASE route = "mapped"
  <2>1. TakenTo(prog.outs + 1) /\ UNCHANGED taken /\ CarriedAssigned /\ HeldTo(prog.held + 1)
    BY <1>1, <1>3 DEF Inv, IterationInv, EnteringInv, AssignGuard
  <2>2. (\A e : Read(e)' = Read(e)) /\ (\A i : Invariant(i)' <=> Invariant(i))
        /\ (\A k : Agreed(k)' <=> Agreed(k)) /\ (\A k : ArmValue(k)' = ArmValue(k))
        /\ (CarriedAssigned' <=> CarriedAssigned)
    BY <1>1, ReadsKept, DecisionsKept, ArgsKept
  <2>3. TakenTo(prog.outs + 1)' /\ CarriedAssigned' /\ HeldTo(prog.held + 1)'
    BY <1>1, <2>1, <2>2 DEF TakenTo, HeldTo
  <2>4. Loop!Iterate
    BY <1>1, <1>3, <2>3, SnapshotIsIteration
  <2> QED
    BY <2>4 DEF Loop!Next
<1>4. CASE route # "mapped"
  <2>1. ReadArgs' = ReadArgs
    BY <1>1, ArgsKept
  <2>2. /\ phaseNow' = phaseNow /\ argsNow' = argsNow /\ resultsNow' = resultsNow
    BY <1>1, <1>4, <2>1 DEF phaseNow, argsNow, resultsNow, Evaluated
  <2> QED
    BY <1>1, <2>2, ViewKept
<1> QED
  BY <1>3, <1>4

LEMMA TakeRefines == ASSUME Inv, Take PROVE [Loop!Next]_(Loop!vars)
<1>1. /\ UNCHANGED program /\ UNCHANGED carried /\ UNCHANGED held /\ UNCHANGED guard
      /\ pc = "take" /\ pc' \in {"take", "guard", "commit"}
      /\ prog' = prog /\ route' = route
      /\ at \in Nat \ {0} /\ TakenTo(at) /\ CarriedAssigned /\ HeldTo(prog.held + 1)
  BY DEF Take, Goto, program, Inv, TypeOK, IterationInv, EnteringInv
<1>2. /\ (\A e : Read(e)' = Read(e)) /\ (\A i : Invariant(i)' <=> Invariant(i))
      /\ (\A k : Agreed(k)' <=> Agreed(k)) /\ (\A k : ArmValue(k)' = ArmValue(k))
      /\ (CarriedAssigned' <=> CarriedAssigned) /\ ReadArgs' = ReadArgs
  BY <1>1, ReadsKept, DecisionsKept, ArgsKept
<1>3. CASE pc' = "commit"
  <2>1. at > prog.outs /\ UNCHANGED taken /\ route # "mapped"
    BY <1>1, <1>3 DEF Take, Goto
  <2>2. guard' = Read(prog.cond)
    BY <1>1, <2>1 DEF Inv, IterationInv
  <2>3. TakenTo(prog.outs + 1)
    <3> SUFFICES ASSUME NEW j \in 1..prog.outs, ~Invariant(j)
                 PROVE  taken[j] = Read(prog.next[j])
      BY DEF TakenTo
    <3>1. prog.outs \in Nat
      BY DEF Inv, TypeOK, IsProgram
    <3> QED
      BY <1>1, <2>1, <3>1 DEF TakenTo
  <2>4. TakenTo(prog.outs + 1)' /\ CarriedAssigned' /\ HeldTo(prog.held + 1)'
    BY <1>1, <1>2, <2>1, <2>3 DEF TakenTo, HeldTo
  <2>5. Loop!Iterate
    BY <1>1, <1>3, <2>2, <2>4, SnapshotIsIteration
  <2> QED
    BY <2>5 DEF Loop!Next
<1>4. CASE pc' # "commit"
  <2>1. /\ phaseNow' = phaseNow /\ argsNow' = argsNow /\ resultsNow' = resultsNow
    BY <1>1, <1>2, <1>4 DEF phaseNow, argsNow, resultsNow, Evaluated
  <2> QED
    BY <1>1, <2>1, ViewKept
<1> QED
  BY <1>3, <1>4

LEMMA CommitRefines == ASSUME Inv, Commit PROVE [Loop!Next]_(Loop!vars)
<1>1. /\ UNCHANGED program /\ UNCHANGED taken /\ UNCHANGED guard
      /\ pc = "commit" /\ pc' \in {"commit", "test"}
  BY DEF Commit, Goto
<1>2. prog' = prog /\ \A i : Invariant(i)' <=> Invariant(i)
  BY <1>1, DecisionsKept
<1>3. \A j : TakenOr(j)' = TakenOr(j)
  BY <1>1, <1>2 DEF TakenOr
<1>4. phaseNow' = phaseNow /\ phaseNow \in {"loop", "done"}
  BY <1>1 DEF phaseNow, Evaluated
<1>5. argsNow' = argsNow
  BY <1>1, <1>2 DEF argsNow, Evaluated, TakenOr
<1>6. resultsNow' = resultsNow
  BY <1>1, <1>2, <1>4 DEF resultsNow, TakenOr
<1> QED
  BY <1>1, <1>4, <1>5, <1>6, ViewKept

LEMMA TestRefines == ASSUME Inv, Test PROVE [Loop!Next]_(Loop!vars)
<1>1. /\ UNCHANGED program /\ UNCHANGED <<carried, held, taken, guard>>
      /\ pc = "test" /\ pc' = IF guard = True THEN "branch" ELSE "done"
      /\ CommittedTo(prog.ins + 1) /\ IsProgram(prog) /\ Meets(route, prog)
  BY DEF Test, Goto, Inv, TypeOK, LeavingInv
<1>2. /\ prog' = prog /\ route' = route /\ ReadArgs' = ReadArgs
      /\ \A i : Invariant(i)' <=> Invariant(i)
  BY <1>1, DecisionsKept, ArgsKept
<1>3. phaseNow' = phaseNow
  BY <1>1 DEF phaseNow, Evaluated
<1>4. \A i \in 1..prog.ins : TakenOr(prog.back[i]) = ReadArg(i)
  <2> SUFFICES ASSUME NEW i \in 1..prog.ins
               PROVE  TakenOr(prog.back[i]) = ReadArg(i)
    OBVIOUS
  <2>1. CASE Invariant(i)
    <3>1. prog.back[i] = i
      BY <1>1, <2>1 DEF Invariant, Meets
    <3> QED
      BY <2>1, <3>1 DEF TakenOr, ReadArg
  <2>2. CASE ~Invariant(i)
    <3>1. prog.ins \in Nat
      BY <1>1 DEF IsProgram
    <3>2. carried[i] = taken[prog.back[i]]
      BY <1>1, <2>2, <3>1 DEF CommittedTo
    <3>3. ~Invariant(prog.back[i])
      BY <1>1, <2>2, InvariantBack
    <3> QED
      BY <2>2, <3>2, <3>3 DEF TakenOr, ReadArg
  <2> QED
    BY <2>1, <2>2
<1>5. argsNow = ReadArgs
  BY <1>1, <1>4 DEF argsNow, Evaluated, ReadArgs
<1>6. argsNow' = ReadArgs
  BY <1>1, <1>2 DEF argsNow, Evaluated
<1>7. CASE guard = True
  <2>1. resultsNow' = resultsNow
    BY <1>1, <1>3, <1>7 DEF resultsNow, phaseNow, Evaluated
  <2> QED
    BY <1>1, <1>3, <1>5, <1>6, <2>1, ViewKept
<1>8. CASE guard # True
  <2>1. phaseNow = "done" /\ pc' = "done"
    BY <1>1, <1>8 DEF phaseNow, Evaluated
  <2>2. \A j \in 1..prog.outs : ResultRead(j) = TakenOr(j)
    <3> SUFFICES ASSUME NEW j \in 1..prog.outs PROVE ResultRead(j) = TakenOr(j)
      OBVIOUS
    <3>1. CASE route # "paired"
      BY <3>1 DEF ResultRead, TakenOr, Invariant
    <3>2. CASE route = "paired"
      <4>1. j \in 1..prog.ins /\ prog.back[j] = j
        BY <1>1, <3>2 DEF Meets
      <4>2. TakenOr(j) = ReadArg(j)
        BY <1>4, <4>1
      <4> QED
        BY <3>2, <4>2 DEF ResultRead, ReadArg
    <3> QED
      BY <3>1, <3>2
  <2>3. resultsNow = [j \in 1..prog.outs |-> TakenOr(j)]
    BY <1>1, <2>1 DEF resultsNow
  <2>4. \A j : ResultRead(j)' = ResultRead(j)
    BY <1>1, <1>2 DEF ResultRead
  <2>5. resultsNow' = [j \in 1..prog.outs |-> ResultRead(j)]
    BY <1>2, <1>3, <2>1, <2>4 DEF resultsNow
  <2> QED
    BY <1>1, <1>3, <1>5, <1>6, <2>2, <2>3, <2>5, ViewKept
<1> QED
  BY <1>7, <1>8

LEMMA StutterRefines == ASSUME UNCHANGED vars PROVE [Loop!Next]_(Loop!vars)
<1>1. UNCHANGED program /\ UNCHANGED <<pc, at, carried, held, taken, guard>>
  BY DEF vars, program
<1>2. /\ prog' = prog /\ route' = route /\ ReadArgs' = ReadArgs
      /\ \A i : Invariant(i)' <=> Invariant(i)
  BY <1>1, DecisionsKept, ArgsKept
<1>3. phaseNow' = phaseNow
  BY <1>1 DEF phaseNow, Evaluated
<1>4. argsNow' = argsNow
  BY <1>1, <1>2 DEF argsNow, Evaluated, TakenOr
<1>5. \A j : ResultRead(j)' = ResultRead(j) /\ TakenOr(j)' = TakenOr(j)
  BY <1>1, <1>2 DEF ResultRead, TakenOr
<1>6. resultsNow' = resultsNow
  BY <1>1, <1>2, <1>3, <1>5 DEF resultsNow
<1> QED
  BY <1>1, <1>3, <1>4, <1>6, ViewKept

(* For every loop, every number of carried values and every legalizer, the *)
(* emitted assignments implement the simultaneous copy of scf.condition.   *)
(* (StructureControlFlow.cpp, bridgeSCFWhileToHelixHigh; CAstBuilder.cpp)  *)
THEOREM BridgeImplementsLoop == Spec => ImplementsScfLoop
<1>1. Init => Loop!Init
  <2> SUFFICES ASSUME Init PROVE Loop!Init
    OBVIOUS
  <2>1. Loop!IsProgram(prog)
    BY ProgramsAssumption
       DEF Init, Loop!IsProgram, IsProgram, Loop!Operand, Operand,
           Loop!ArmExpressions, ArmExpressions, Loop!Expressions, Expressions,
           Loop!Arg, Arg, Loop!Computed, Computed, Loop!Const, Const,
           Loop!Undefined, Undefined, Loop!Result, Result
  <2>2. phaseNow = "loop" /\ argsNow = prog.init /\ resultsNow = Unset
    BY DEF Init, phaseNow, argsNow, resultsNow, Evaluated
  <2> QED
    BY <2>1, <2>2 DEF Loop!Init
<1>2. Inv /\ [Next]_vars => [Loop!Next]_(Loop!vars)
  BY LegalizeRefines, AssignInitRefines, AssignHeldRefines, AssignGuardRefines,
     TakeRefines, CommitRefines, TestRefines, StutterRefines DEF Next
<1> QED
  BY Invariance, <1>1, <1>2, PTL DEF Spec, ImplementsScfLoop, Loop!Steps

-----------------------------------------------------------------------------
(* What keeps the emitted statements from running on: the statements left  *)
(* before the next evaluation of the loop's condition. A group has one     *)
(* statement for each value it assigns.                                    *)
StatementsIn(group) == CASE group \in {"inits", "commit"} -> prog.ins
                         [] group = "branch" -> prog.held
                         [] group = "take" -> prog.outs
                         [] OTHER -> 0
AtWithin == at \in 1..StatementsIn(pc) + 1

GroupsLeft == CASE pc = "legalize" -> 7
                [] pc = "inits" -> 6
                [] pc = "branch" -> 5
                [] pc = "guard" -> IF route = "mapped" THEN 3 ELSE 4
                [] pc = "take" -> IF route = "mapped" THEN 4 ELSE 3
                [] pc = "commit" -> 2
                [] pc = "test" -> 1
                [] OTHER -> 0
Width == prog.ins + prog.held + prog.outs + 1
StatementsLeft == GroupsLeft * Width + (Width - at)

(* Only the test of a true guard goes back to an earlier statement.        *)
LoopsBack == pc = "test" /\ guard = True
NearsTest == [][~LoopsBack => StatementsLeft' < StatementsLeft]_vars
StatementsBounded == StatementsLeft \in 0..8 * Width

LEMMA EarlierGroup ==
    ASSUME NEW s \in 0..7, NEW t \in 0..7, t < s, NEW w \in Nat, NEW a \in 1..w
    PROVE  t * w + (w - 1) < s * w + (w - a)
<1>1. t + 1 = s \/ t + 1 < s
  OBVIOUS
<1>2. \A d \in 0..7 : d * w \in Nat /\ (d + 1) * w = d * w + w
  OBVIOUS
<1>3. (t + 1) * w <= s * w
  OBVIOUS
<1> QED
  BY <1>2, <1>3

LEMMA AtWithinTyped ==
    ASSUME Inv, AtWithin
    PROVE  /\ prog.ins \in Nat /\ prog.held \in Nat /\ prog.outs \in Nat
           /\ Width \in Nat /\ at \in 1..Width /\ GroupsLeft \in 0..7
<1>1. prog.ins \in Nat /\ prog.held \in Nat /\ prog.outs \in Nat
  BY DEF Inv, TypeOK, IsProgram
<1>2. at \in 1..Width
  BY <1>1 DEF AtWithin, StatementsIn, Width
<1> QED
  BY <1>1, <1>2 DEF Width, GroupsLeft

(* A statement of a group is followed by the next of the group, or by the  *)
(* first of a later group.                                                 *)
LEMMA NextStatement ==
    ASSUME Inv, AtWithin, Next
    PROVE  /\ prog' = prog /\ route' = route
           /\ \/ pc' = pc /\ at' = at + 1 /\ at <= StatementsIn(pc)
              \/ at' = 1 /\ (GroupsLeft' < GroupsLeft \/ LoopsBack)
<1>1. prog' = prog /\ route' = route
  BY DEF Next, Legalize, AssignInit, AssignHeld, AssignGuard, Take, Commit, Test,
         program
<1>2. CASE Legalize
  <2>1. pc = "legalize" /\ at' = 1 /\ pc' \in {"declined", "inits"}
    BY <1>2 DEF Legalize, Goto
  <2> QED
    BY <1>1, <2>1 DEF GroupsLeft
<1>3. CASE AssignInit
  <2>1. pc = "inits"
    BY <1>3 DEF AssignInit
  <2>2. \/ pc' = pc /\ at' = at + 1 /\ at <= prog.ins
        \/ pc' = "branch" /\ at' = 1
    BY <1>3 DEF AssignInit, Goto
  <2> QED
    BY <1>1, <2>1, <2>2 DEF StatementsIn, GroupsLeft
<1>4. CASE AssignHeld
  <2>1. pc = "branch"
    BY <1>4 DEF AssignHeld
  <2>2. \/ pc' = pc /\ at' = at + 1 /\ at <= prog.held
        \/ pc' = (IF route = "mapped" THEN "take" ELSE "guard") /\ at' = 1
    BY <1>4 DEF AssignHeld, Goto
  <2> QED
    BY <1>1, <2>1, <2>2 DEF StatementsIn, GroupsLeft
<1>5. CASE AssignGuard
  <2>1. /\ pc = "guard" /\ at' = 1
        /\ pc' = (IF route = "mapped" THEN "commit" ELSE "take")
    BY <1>5 DEF AssignGuard, Goto
  <2> QED
    BY <1>1, <2>1 DEF GroupsLeft
<1>6. CASE Take
  <2>1. pc = "take"
    BY <1>6 DEF Take
  <2>2. \/ pc' = pc /\ at' = at + 1 /\ at <= prog.outs
        \/ pc' = (IF route = "mapped" THEN "guard" ELSE "commit") /\ at' = 1
    BY <1>6 DEF Take, Goto
  <2> QED
    BY <1>1, <2>1, <2>2 DEF StatementsIn, GroupsLeft
<1>7. CASE Commit
  <2>1. pc = "commit"
    BY <1>7 DEF Commit
  <2>2. \/ pc' = pc /\ at' = at + 1 /\ at <= prog.ins
        \/ pc' = "test" /\ at' = 1
    BY <1>7 DEF Commit, Goto
  <2> QED
    BY <1>1, <2>1, <2>2 DEF StatementsIn, GroupsLeft
<1>8. CASE Test
  <2>1. pc = "test" /\ at' = 1 /\ (guard = True \/ pc' = "done")
    BY <1>8 DEF Test, Goto
  <2> QED
    BY <1>1, <2>1 DEF GroupsLeft, LoopsBack
<1> QED
  BY <1>1, <1>2, <1>3, <1>4, <1>5, <1>6, <1>7, <1>8 DEF Next

(* Every emitted statement but the jump back is nearer to the end of the   *)
(* program, and as many are left as the groups it still has to run and the *)
(* values they assign allow: nothing but a further iteration of the source *)
(* loop makes the program run on.                                          *)
(* (StructureControlFlow.cpp, the condition region of the do-while)        *)
THEOREM TestIsReached == Spec => []StatementsBounded /\ NearsTest
<1>1. Init => AtWithin
  <2> SUFFICES ASSUME Init PROVE AtWithin
    OBVIOUS
  <2>1. pc = "legalize" /\ at = 1
    BY DEF Init
  <2> QED
    BY <2>1 DEF AtWithin, StatementsIn
<1>2. Inv /\ AtWithin /\ [Next]_vars => AtWithin'
  <2> SUFFICES ASSUME Inv, AtWithin, [Next]_vars PROVE AtWithin'
    OBVIOUS
  <2>1. \A group : StatementsIn(group) \in Nat
    BY AtWithinTyped DEF StatementsIn
  <2>2. CASE Next
    <3>1. \A group : StatementsIn(group)' = StatementsIn(group)
      BY <2>2, NextStatement DEF StatementsIn
    <3>2. \/ pc' = pc /\ at' = at + 1 /\ at <= StatementsIn(pc)
          \/ at' = 1
      BY <2>2, NextStatement
    <3>3. \/ at' = at + 1 /\ at <= StatementsIn(pc) /\ StatementsIn(pc)' = StatementsIn(pc)
          \/ at' = 1
      BY <3>2, <2>2, NextStatement DEF StatementsIn
    <3>4. StatementsIn(pc)' \in Nat
      <4>1. prog' = prog
        BY <2>2, NextStatement
      <4> QED
        BY <4>1, AtWithinTyped DEF StatementsIn
    <3> QED
      BY <2>1, <3>3, <3>4 DEF AtWithin
  <2>3. CASE UNCHANGED vars
    BY <2>3 DEF vars, AtWithin, StatementsIn
  <2> QED
    BY <2>2, <2>3
<1>3. Inv /\ AtWithin => StatementsBounded
  <2> SUFFICES ASSUME Inv, AtWithin PROVE StatementsBounded
    OBVIOUS
  <2>1. Width \in Nat /\ at \in 1..Width /\ GroupsLeft \in 0..7
    BY AtWithinTyped
  <2>2. GroupsLeft * Width \in 0..7 * Width
    BY <2>1
  <2> QED
    BY <2>1, <2>2 DEF StatementsBounded, StatementsLeft
<1>4. Inv /\ AtWithin /\ Inv' /\ AtWithin' /\ [Next]_vars
        => [~LoopsBack => StatementsLeft' < StatementsLeft]_vars
  <2> SUFFICES ASSUME Inv, AtWithin, Inv', AtWithin', Next, ~LoopsBack
               PROVE  StatementsLeft' < StatementsLeft
    OBVIOUS
  <2> DEFINE w == Width
             s == GroupsLeft
             t == GroupsLeft'
  <2>1. w \in Nat /\ at \in 1..w /\ s \in 0..7
    BY AtWithinTyped
  <2>2. t \in 0..7
    BY DEF GroupsLeft
  <2>3. Width' = w /\ prog' = prog /\ route' = route
    BY NextStatement DEF Width
  <2>4. StatementsLeft = s * w + (w - at) /\ StatementsLeft' = t * w + (w - at')
    BY <2>3 DEF StatementsLeft
  <2>5. CASE pc' = pc /\ at' = at + 1
    <3>1. t = s
      BY <2>3, <2>5 DEF GroupsLeft
    <3>2. s * w \in Nat
      BY <2>1
    <3> HIDE DEF w, s, t
    <3> QED
      BY <2>1, <2>4, <2>5, <3>1, <3>2
  <2>6. CASE at' = 1 /\ t < s
    <3> HIDE DEF w, s, t
    <3>1. t * w + (w - 1) < s * w + (w - at)
      BY <2>1, <2>2, <2>6, EarlierGroup
    <3> QED
      BY <2>4, <2>6, <3>1
  <2> QED
    BY <2>5, <2>6, NextStatement
<1> QED
  BY Invariance, <1>1, <1>2, <1>3, <1>4, PTL DEF Spec, NearsTest
=============================================================================

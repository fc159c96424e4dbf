----------------------------- MODULE ScfBridge -----------------------------
(***************************************************************************)
(* The C program a structured loop is turned into, run statement by        *)
(* statement.  SSA values become variables that are assigned one after the *)
(* other and read by name where an expression is printed, so the           *)
(* simultaneous copy of scf.condition has to survive as a sequence.        *)
(*                                                                         *)
(* Three pieces of code emit it:                                           *)
(*   "paired"   bridgeSCFWhileToHelixHigh, as many carried values as       *)
(*              results: shadow variables hold the next values, and a      *)
(*              value that never changes gets no variable                  *)
(*   "mapped"   the same function, another number of results: result       *)
(*              variables hold the next values                             *)
(*   "native"   CAstBuilder, straight from scf.while                       *)
(* The first two run after bridgeSCFIfToHelixHigh (or ...IndexSwitch...)   *)
(* has legalized the branch inside; CAstBuilder legalizes it itself.       *)
(*                                                                         *)
(* Variables of the emitted program: carried (scf_w), held (the scf_r of   *)
(* the branch), taken (shadows, or the scf_r of the loop) and guard.       *)
(* at is the index of the statement in a group of assignments.             *)
(***************************************************************************)
EXTENDS ScfProgram

VARIABLES prog, route, pc, at, carried, held, taken, guard

program == <<prog, route>>
vars == <<prog, route, pc, at, carried, held, taken, guard>>

Routes == {"paired", "mapped", "native"}
Groups == {"legalize", "inits", "branch", "guard", "take", "commit", "test"}
-----------------------------------------------------------------------------
(* Decisions made while the program is emitted.                            *)

\* findForwardedSCFResult: every region yields one outside value, or the
\* same constant, so the result needs no variable.
Agreed(k) ==
    /\ route # "native"
    /\ \E e \in ArmExpressions(prog.ins) :
          /\ e.kind \in {"arg", "const"}
          /\ \A s \in Operand : prog.arms[s][k] = e

\* The uses of an agreed result are replaced by the value agreed on.
Resolved(e) ==
    IF e.kind = "result" /\ Agreed(e.of) THEN prog.arms[Poison][e.of] ELSE e

\* A component forwarded as the before argument itself keeps its operand.
Invariant(i) ==
    /\ route = "paired"
    /\ Resolved(prog.next[i]) = Arg(i)
    /\ prog.init[i] # Poison

\* The shapes a route leaves alone.
Declines ==
    CASE route = "paired" -> prog.before # "one_block"
      [] route = "mapped" -> prog.before # "one_block" \/ prog.after # "only_yield"
      [] route = "native" -> prog.before # "one_block" \/ prog.after # "only_yield"

\* Which route meets which loops: the bridge chooses by the number of
\* results, and transformCFGToSCF, its only source of such loops, yields
\* the arguments of the after region in their order.
Meets(r, p) ==
    CASE r = "paired" -> /\ p.ins = p.outs
                         /\ p.after = "only_yield"
                         /\ \A i \in 1..p.ins : p.back[i] = i
      [] r = "mapped" -> p.ins # p.outs
      [] r = "native" -> TRUE
-----------------------------------------------------------------------------
(* Reading by name.                                                        *)

ReadArg(i) == IF Invariant(i) THEN prog.init[i] ELSE carried[i]
ReadArgs == [i \in 1..prog.ins |-> ReadArg(i)]
Read(e) == Worth(Resolved(e), ReadArgs, held)
-----------------------------------------------------------------------------
(* The emitted program.                                                    *)

Init ==
    /\ prog \in Programs
    /\ route \in Routes
    /\ Meets(route, prog)
    /\ pc = "legalize"
    /\ at = 1
    /\ carried = [i \in 1..prog.ins |-> Unset]
    /\ held = [k \in 1..prog.held |-> Unset]
    /\ taken = [j \in 1..prog.outs |-> Unset]
    /\ guard = Unset

Goto(group) == pc' = group /\ at' = 1

Legalize ==
    /\ pc = "legalize"
    /\ Goto(IF Declines THEN "declined" ELSE "inits")
    /\ UNCHANGED <<program, carried, held, taken, guard>>

\* Mutant: an invariant component is skipped before its operand is looked
\* at, so a poison operand gets no initial assignment.
AssignInitUnlessForwarded ==
    /\ pc = "inits"
    /\ \/ /\ at <= prog.ins
          /\ carried' = IF Resolved(prog.next[at]) = Arg(at) THEN carried
                        ELSE [carried EXCEPT ![at] = prog.init[at]]
          /\ at' = at + 1
          /\ UNCHANGED pc
       \/ /\ at > prog.ins
          /\ Goto("branch")
          /\ UNCHANGED carried
    /\ UNCHANGED <<program, held, taken, guard>>

\* Before the loop: var[i] = init[i].
AssignInit ==
    /\ pc = "inits"
    /\ \/ /\ at <= prog.ins
          /\ carried' = IF Invariant(at) THEN carried
                        ELSE [carried EXCEPT ![at] = prog.init[at]]
          /\ at' = at + 1
          /\ UNCHANGED pc
       \/ /\ at > prog.ins
          /\ Goto("branch")
          /\ UNCHANGED carried
    /\ UNCHANGED <<program, held, taken, guard>>

\* The scf.yield of the selected region: one assignment per result.
AssignHeld ==
    /\ pc = "branch"
    /\ \/ /\ at <= prog.held
          /\ held' = IF Agreed(at) THEN held
                     ELSE [held EXCEPT ![at] = Read(prog.arms[Read(prog.chooser)][at])]
          /\ at' = at + 1
          /\ UNCHANGED pc
       \/ /\ at > prog.held
          /\ Goto(IF route = "mapped" THEN "take" ELSE "guard")
          /\ UNCHANGED held
    /\ UNCHANGED <<program, carried, taken, guard>>

\* Mutant: the guard variable gets a truth value where the type of the
\* condition was declared.
AssignGuardTruth ==
    /\ pc = "guard"
    /\ guard' = (Read(prog.cond) = True)
    /\ Goto(IF route = "mapped" THEN "commit" ELSE "take")
    /\ UNCHANGED <<program, carried, held, taken>>

AssignGuard ==
    /\ pc = "guard"
    /\ guard' = Read(prog.cond)
    /\ Goto(IF route = "mapped" THEN "commit" ELSE "take")
    /\ UNCHANGED <<program, carried, held, taken>>

\* Mutant: a component without a snapshot is not stepped over.
TakeStuckAtInvariant ==
    /\ pc = "take"
    /\ \/ /\ at <= prog.outs
          /\ ~Invariant(at)
          /\ taken' = [taken EXCEPT ![at] = Read(prog.next[at])]
          /\ at' = at + 1
          /\ UNCHANGED pc
       \/ /\ at > prog.outs
          /\ Goto(IF route = "mapped" THEN "guard" ELSE "commit")
          /\ UNCHANGED taken
    /\ UNCHANGED <<program, carried, held, guard>>

\* Snapshot of the operands of scf.condition.
Take ==
    /\ pc = "take"
    /\ \/ /\ at <= prog.outs
          /\ taken' = IF Invariant(at) THEN taken
                      ELSE [taken EXCEPT ![at] = Read(prog.next[at])]
          /\ at' = at + 1
          /\ UNCHANGED pc
       \/ /\ at > prog.outs
          /\ Goto(IF route = "mapped" THEN "guard" ELSE "commit")
          /\ UNCHANGED taken
    /\ UNCHANGED <<program, carried, held, guard>>

\* Mutant: the next values are written without a snapshot.
CommitInPlace ==
    /\ pc = "commit"
    /\ \/ /\ at <= prog.ins
          /\ carried' = IF Invariant(at) THEN carried
                        ELSE [carried EXCEPT ![at] = Read(prog.next[prog.back[at]])]
          /\ at' = at + 1
          /\ UNCHANGED pc
       \/ /\ at > prog.ins
          /\ Goto("test")
          /\ UNCHANGED carried
    /\ UNCHANGED <<program, held, taken, guard>>

Commit ==
    /\ pc = "commit"
    /\ \/ /\ at <= prog.ins
          /\ carried' = IF Invariant(at) THEN carried
                        ELSE [carried EXCEPT ![at] = taken[prog.back[at]]]
          /\ at' = at + 1
          /\ UNCHANGED pc
       \/ /\ at > prog.ins
          /\ Goto("test")
          /\ UNCHANGED carried
    /\ UNCHANGED <<program, held, taken, guard>>

\* The condition region of the do-while reads the guard variable.
Test ==
    /\ pc = "test"
    /\ Goto(IF guard = True THEN "branch" ELSE "done")
    /\ UNCHANGED <<program, carried, held, taken, guard>>

Next == Legalize \/ AssignInit \/ AssignHeld \/ AssignGuard \/ Take \/ Commit \/ Test

Spec == Init /\ [][Next]_vars /\ WF_vars(Next)
-----------------------------------------------------------------------------
(* What the reader of the emitted program sees.                            *)

\* A use of result j placed after the loop.
ResultRead(j) ==
    CASE route # "paired" -> taken[j]
      [] Invariant(j) -> prog.init[j]
      [] OTHER -> carried[j]

Evaluated == pc \in {"commit", "test"}

TakenOr(j) == IF Invariant(j) THEN prog.init[j] ELSE taken[j]

phaseNow ==
    CASE pc \in {"done", "declined"} -> pc
      [] Evaluated /\ guard # True -> "done"
      [] OTHER -> "loop"

argsNow ==
    IF pc \in {"legalize", "inits", "declined"} THEN prog.init
    ELSE IF Evaluated THEN [i \in 1..prog.ins |-> TakenOr(prog.back[i])]
    ELSE ReadArgs

resultsNow ==
    IF phaseNow # "done" THEN Unset
    ELSE IF pc = "done" THEN [j \in 1..prog.outs |-> ResultRead(j)]
    ELSE [j \in 1..prog.outs |-> TakenOr(j)]

Loop == INSTANCE ScfLoop WITH phase <- phaseNow, args <- argsNow, results <- resultsNow

(* The emitted assignments mean the loop they replace: whatever order they *)
(* run in, an iteration computes the next arguments from the arguments of  *)
(* this one alone, the loop leaves with the results of the source loop,    *)
(* and only a shape that is not canonical is left alone.                   *)
(* (StructureControlFlow.cpp, "lower it as a real parallel copy")          *)
ImplementsScfLoop == Loop!Steps

(* And it keeps up: while the source loop has an iteration to run or an    *)
(* exit to take, the emitted statements get there.                         *)
(* (StructureControlFlow.cpp, the condition region of the do-while)        *)
KeepsUpWithScfLoop == Loop!Progress
-----------------------------------------------------------------------------
TypeOK ==
    /\ IsProgram(prog)
    /\ route \in Routes
    /\ pc \in Groups \cup {"done", "declined"}
    /\ at \in Nat \ {0}
    /\ carried \in [1..prog.ins -> Operand \cup {Unset}]
    /\ held \in [1..prog.held -> Operand \cup {Unset}]
    /\ taken \in [1..prog.outs -> Operand \cup {Unset}]
    /\ guard \in Operand \cup {Unset}

(* No statement reads a variable nothing has assigned: the declarations    *)
(* carry no initial value, and three decisions (agreed result, invariant   *)
(* component, poison operand) drop assignments while leaving reads behind. *)
(* (StructureControlFlow.cpp, the `forwarded` vectors of both bridges)     *)
ReadsAreAssigned ==
    /\ pc \in {"branch", "take", "guard"} => \A i \in 1..prog.ins : ReadArg(i) # Unset
    /\ pc \in {"take", "guard"} =>
          \A j \in 1..prog.outs : Read(prog.next[j]) # Unset
    /\ pc = "guard" => Read(prog.cond) # Unset
    /\ pc = "commit" => \A i \in 1..prog.ins :
          Invariant(i) \/ taken[prog.back[i]] # Unset
    /\ pc = "done" => \A j \in 1..prog.outs : ResultRead(j) # Unset
=============================================================================

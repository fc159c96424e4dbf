----------------------------- MODULE ScfProgram -----------------------------
(***************************************************************************)
(* The structured loops that mlir::transformCFGToSCF hands to the          *)
(* legalizers: one scf.while whose body holds one scf.if or                *)
(* scf.index_switch.  A loop p is a record                                 *)
(*                                                                         *)
(*   ins, outs, held  how many values the loop carries, returns, and the   *)
(*                    branch inside it returns                             *)
(*   init             operands of the while, one per carried value         *)
(*   chooser, arms    the branch: arms[s][k] is what the region selected   *)
(*                    by s yields for result k                             *)
(*   cond, next       operands of scf.condition                            *)
(*   back             yield of the after region: carried value i of the    *)
(*                    next iteration is output back[i]                     *)
(*   before, after    how many blocks the before region has, and whether   *)
(*                    the after region is only a yield of its arguments    *)
(*                                                                         *)
(* An expression is an argument of the before block, a value computed from *)
(* one, a constant, ub.poison, or a result of the branch.                  *)
(***************************************************************************)
EXTENDS Naturals

CONSTANTS Value, True, Poison, Unset, Compute, Programs

Operand == Value \cup {Poison}

Arg(i) == [kind |-> "arg", of |-> i]
Computed(i) == [kind |-> "computed", of |-> i]
Const(v) == [kind |-> "const", of |-> v]
Undefined == [kind |-> "poison", of |-> 0]
Result(k) == [kind |-> "result", of |-> k]

\* What may be written inside an arm, and after the branch.
ArmExpressions(n) == {Arg(i) : i \in 1..n} \cup {Computed(i) : i \in 1..n}
                       \cup {Const(v) : v \in Value} \cup {Undefined}
Expressions(n, r) == ArmExpressions(n) \cup {Result(k) : k \in 1..r}

IsProgram(p) ==
    /\ p.ins \in Nat /\ p.outs \in Nat /\ p.held \in Nat
    /\ p.init \in [1..p.ins -> Operand]
    /\ p.chooser \in ArmExpressions(p.ins)
    /\ p.arms \in [Operand -> [1..p.held -> ArmExpressions(p.ins)]]
    /\ p.cond \in Expressions(p.ins, p.held)
    /\ p.next \in [1..p.outs -> Expressions(p.ins, p.held)]
    /\ p.back \in [1..p.ins -> 1..p.outs]
    /\ p.before \in {"one_block", "more_blocks"}
    /\ p.after \in {"only_yield", "more"}

ASSUME ValuesAssumption ==
    /\ True \in Value
    /\ Poison \notin Value
    /\ Unset \notin Operand
    /\ Compute \in [Operand -> Operand]

ASSUME ProgramsAssumption == \A p \in Programs : IsProgram(p)
-----------------------------------------------------------------------------
(* What an expression is worth, given the arguments and branch results.    *)

ArmWorth(e, args) ==
    CASE e.kind = "arg" -> args[e.of]
      [] e.kind = "computed" -> Compute[args[e.of]]
      [] e.kind = "const" -> e.of
      [] OTHER -> Poison

Worth(e, args, results) ==
    IF e.kind = "result" THEN results[e.of] ELSE ArmWorth(e, args)
=============================================================================

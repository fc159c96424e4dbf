------------------------------ MODULE ScfLoop ------------------------------
(***************************************************************************)
(* What an scf.while means: the operands of scf.condition are evaluated    *)
(* together from the arguments of one iteration, and become the arguments  *)
(* of the next one, or the results, all at once.  A legalizer may decline  *)
(* a loop whose regions have a shape it does not know, and no other.       *)
(***************************************************************************)
EXTENDS ScfProgram

VARIABLES prog, phase, args, results

vars == <<prog, phase, args, results>>

Canonical(p) == p.before = "one_block" /\ p.after = "only_yield"

Init ==
    /\ IsProgram(prog)
    /\ phase = "loop"
    /\ args = prog.init
    /\ results = Unset

BranchResults ==
    [k \in 1..prog.held |->
        ArmWorth(prog.arms[ArmWorth(prog.chooser, args)][k], args)]

Forwarded ==
    [j \in 1..prog.outs |-> Worth(prog.next[j], args, BranchResults)]

Continues == Worth(prog.cond, args, BranchResults) = True

Iterate ==
    /\ phase = "loop"
    /\ args' = [i \in 1..prog.ins |-> Forwarded[prog.back[i]]]
    /\ IF Continues
       THEN UNCHANGED <<phase, results>>
       ELSE phase' = "done" /\ results' = Forwarded
    /\ UNCHANGED prog

Decline ==
    /\ phase = "loop"
    /\ args = prog.init
    /\ ~Canonical(prog)
    /\ phase' = "declined"
    /\ UNCHANGED <<prog, args, results>>

Next == Iterate \/ Decline

Steps == Init /\ [][Next]_vars

Progress == WF_vars(Next)
=============================================================================

---------------------------- MODULE TypeArbitration ----------------------------
(* What a proposal of a C type does to the attributes of an operation          *)
(* (engine/src/analysis/TypeEvidence.cpp). The selected type of an operation,  *)
(* its source and its strength are attributes of the operation; a proposal is *)
(* selected or rejected against what is there.                                *)
EXTENDS Naturals

CONSTANTS
    Scalars,     \* spellings that do not end in "*"
    Pointers     \* spellings that end in "*"

Spellings == Scalars \cup Pointers
NoSpelling == "none"

(* defaultTypeEvidenceStrength *)
DefaultStrength == [legacy |-> 10, dataflow |-> 40, structural |-> 60,
                    interprocedural |-> 70, signatureDb |-> 80,
                    debugInfo |-> 100, user |-> 120]

ASSUME SpellingsAssumption == /\ NoSpelling \notin Spellings
                              /\ Scalars \cap Pointers = {}

(* The attributes of an operation: helix.type.* and inferred_type. Strength 0 *)
(* stands for an operation without evidence.                                  *)
NoEvidence == [spelling |-> NoSpelling, source |-> "legacy", strength |-> 0,
               conflict |-> FALSE, rejected |-> NoSpelling]

Selected(spelling, source, strength) ==
    [spelling |-> spelling, source |-> source, strength |-> strength,
     conflict |-> FALSE, rejected |-> NoSpelling]

(* Between two data-flow facts of one strength a pointer refines a scalar.    *)
PointerRefines(current, spelling, source, strength) ==
    /\ source = "dataflow" /\ current.source = "dataflow"
    /\ strength = current.strength
    /\ spelling \in Pointers /\ current.spelling \notin Pointers

(* Mutant: every rejected spelling marks a conflict. *)
RejectedMarking(current, spelling, strength) ==
    [current EXCEPT !.rejected = spelling, !.conflict = TRUE]

(* A rejected spelling is kept beside the selected one, and marks a conflict  *)
(* when it is as strong.                                                      *)
Rejected(current, spelling, strength) ==
    [current EXCEPT !.rejected = spelling,
                    !.conflict = @ \/ strength = current.strength]

(* Mutant: evidence of the same strength replaces what was selected. *)
ApplyLastWins(current, spelling, source, strength) ==
    IF current.strength = 0 \/ strength >= current.strength
    THEN Selected(spelling, source, strength)
    ELSE Rejected(current, spelling, strength)

(* Mutant: support from a weaker source renews the selected type. *)
ApplyRenewing(current, spelling, source, strength) ==
    IF current.strength = 0 \/ spelling = current.spelling
       \/ strength > current.strength
       \/ PointerRefines(current, spelling, source, strength)
    THEN Selected(spelling, source, strength)
    ELSE Rejected(current, spelling, strength)

(* applyTypeEvidence: what the attributes are afterwards.                     *)
Apply(current, spelling, source, strength) ==
    IF \/ current.strength = 0
       \/ strength > current.strength
       \/ spelling # current.spelling
          /\ PointerRefines(current, spelling, source, strength)
    THEN Selected(spelling, source, strength)
    ELSE IF spelling = current.spelling THEN current
         ELSE Rejected(current, spelling, strength)

Evidence == [spelling : Spellings \cup {NoSpelling}, source : DOMAIN DefaultStrength,
             strength : Nat, conflict : BOOLEAN,
             rejected : Spellings \cup {NoSpelling}]
===============================================================================

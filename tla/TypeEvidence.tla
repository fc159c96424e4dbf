----------------------------- MODULE TypeEvidence -----------------------------
(* The passes that propose a C type for a value, in whatever order they run,  *)
(* and the copies of evidence from one operation to another                   *)
(* (engine/src/analysis/TypeEvidence.cpp and its callers).                    *)
EXTENDS TypeArbitration

CONSTANTS
    Ops,         \* operations that carry a type
    Sources,     \* sources that propose types in this system
    MaxOffers    \* bound of the model on proposals

ASSUME SourcesAssumption == Sources \subseteq DOMAIN DefaultStrength
ASSUME BoundAssumption == MaxOffers \in Nat

-----------------------------------------------------------------------------
VARIABLES
    evidence,  \* the attributes of each operation
    offered,   \* history: every proposal made for each operation
    offers     \* how many there were, to bound the model

vars == <<evidence, offered, offers>>

Proposal == [spelling : Spellings, source : Sources, strength : Nat]

Init == /\ evidence = [o \in Ops |-> NoEvidence]
        /\ offered = [o \in Ops |-> {}]
        /\ offers = 0

Offer(o, spelling, source, strength) ==
    /\ offers < MaxOffers
    /\ offers' = offers + 1
    /\ evidence' = [evidence EXCEPT ![o] = Apply(@, spelling, source, strength)]
    /\ offered' = [offered EXCEPT ![o] = @ \cup
          {[spelling |-> spelling, source |-> source, strength |-> strength]}]

(* Mutant: the strength a pass leaves out is not replaced by the default. *)
ProposeUnset(o, spelling, source) == Offer(o, spelling, source, 0)

(* A pass proposes a type with the strength of its source.                    *)
Propose(o, spelling, source) ==
    Offer(o, spelling, source, DefaultStrength[source])

(* Mutant: the copy is given the default strength of a data-flow fact. *)
CopyAsDataFlow(to, from) ==
    /\ evidence[from].strength > 0
    /\ evidence' = [evidence EXCEPT ![to] =
           Selected(evidence[from].spelling, evidence[from].source,
                    DefaultStrength["dataflow"])]
    /\ offers < MaxOffers
    /\ offers' = offers + 1
    /\ UNCHANGED offered

(* copyTypeEvidence: the selected type of one operation is proposed for the   *)
(* other; its conflict and its rejected spelling stay behind.                 *)
Copy(to, from) ==
    /\ evidence[from].strength > 0
    /\ Offer(to, evidence[from].spelling, evidence[from].source,
             evidence[from].strength)

Next == \/ \E o \in Ops, s \in Spellings, src \in Sources : Propose(o, s, src)
        \/ \E to, from \in Ops : to # from /\ Copy(to, from)

Spec == Init /\ [][Next]_vars

-----------------------------------------------------------------------------
(* Type invariant of the attributes: an operation has a spelling with a       *)
(* positive strength, or no evidence at all (writeSelected sets all of it).   *)
TypeOK == /\ evidence \in [Ops -> Evidence]
          /\ \A o \in Ops : (evidence[o].strength = 0)
                             <=> (evidence[o].spelling = NoSpelling)
          /\ offered \in [Ops -> SUBSET Proposal]
          /\ offers \in 0..MaxOffers

(* The selected type, source and strength were proposed together, and nothing *)
(* stronger was ever proposed: whatever the order of the passes, the strongest *)
(* source wins and is named truthfully.                                       *)
StrongestWins ==
    \A o \in Ops :
        LET e == evidence[o] IN
        IF e.strength = 0 THEN offered[o] = {}
        ELSE /\ [spelling |-> e.spelling, source |-> e.source,
                 strength |-> e.strength] \in offered[o]
             /\ \A p \in offered[o] : p.strength <= e.strength

(* The conflict mark is honest: it is there only if another spelling was       *)
(* proposed with the strength of the selected one; and every such rival that   *)
(* is not a scalar beside a data-flow pointer leaves the mark.                *)
Rivals(o) == {p \in offered[o] : /\ p.spelling # evidence[o].spelling
                                 /\ p.strength = evidence[o].strength}
ConflictHonest ==
    \A o \in Ops :
        /\ evidence[o].conflict => Rivals(o) # {}
        /\ (\E p \in Rivals(o) :
               ~(p.source = "dataflow" /\ p.spelling \in Scalars
                 /\ evidence[o].spelling \in Pointers))
           => evidence[o].conflict

(* A selected pointer never gives way to a scalar of the same strength, and    *)
(* strength never falls.                                                      *)
NoDowngrade ==
    [][\A o \in Ops :
         /\ evidence'[o].strength >= evidence[o].strength
         /\ /\ evidence'[o].strength = evidence[o].strength
            /\ evidence[o].spelling \in Pointers
            => evidence'[o].spelling = evidence[o].spelling]_vars
===============================================================================

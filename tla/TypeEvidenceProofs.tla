-------------------------- MODULE TypeEvidenceProofs --------------------------
(* Theorems about the arbitration of type evidence, for any sets of           *)
(* operations, spellings and sources.                                         *)
EXTENDS TypeEvidence, TLAPS

(* The sources have positive strengths, and different ones.                   *)
LEMMA Strengths ==
    /\ \A s \in DOMAIN DefaultStrength : DefaultStrength[s] \in Nat \ {0}
    /\ \A s, t \in DOMAIN DefaultStrength :
          DefaultStrength[s] = DefaultStrength[t] => s = t
BY DEF DefaultStrength

(* Evidence e is sound for the proposals in off: the part of the inductive    *)
(* invariant that concerns one operation. A selected data-flow scalar has     *)
(* seen no pointer from the data flow; without that, a pointer refinement     *)
(* could clear the conflict between two pointers.                             *)
Typed(e, off) == /\ e \in Evidence
                 /\ e.strength = 0 <=> e.spelling = NoSpelling
                 /\ off \in SUBSET Proposal
Strongest(e, off) ==
    IF e.strength = 0 THEN off = {} /\ e.source = "legacy"
    ELSE /\ [spelling |-> e.spelling, source |-> e.source,
             strength |-> e.strength] \in off
         /\ \A p \in off : p.strength <= e.strength
Honest(e, off) ==
    /\ e.conflict => \E p \in off : /\ p.spelling # e.spelling
                                    /\ p.strength = e.strength
    /\ \A p \in off :
          /\ p.spelling # e.spelling
          /\ p.strength = e.strength
          /\ ~(p.source = "dataflow" /\ p.spelling \in Scalars
               /\ e.spelling \in Pointers)
          => e.conflict
Refinable(e, off) ==
    \A p \in off : 
        /\ p.source \in DOMAIN DefaultStrength
        /\ p.strength = DefaultStrength[p.source]
        /\ e.source = "dataflow" /\ e.spelling \in Scalars /\ p.source = "dataflow"
           => p.spelling \in Scalars
Sound(e, off) ==
    Typed(e, off) /\ Strongest(e, off) /\ Honest(e, off) /\ Refinable(e, off)

IInv == /\ evidence \in [Ops -> Evidence]
        /\ offered \in [Ops -> SUBSET Proposal]
        /\ offers \in 0..MaxOffers
        /\ \A o \in Ops : Sound(evidence[o], offered[o])

(* A step of an operation's evidence never weakens it.                        *)
Keeps(e, f) == /\ f.strength >= e.strength
               /\ f.strength = e.strength /\ e.spelling \in Pointers
                  => f.spelling = e.spelling

(* A proposal with the strength of its source leaves sound evidence sound and *)
(* does not weaken it.                                                        *)
LEMMA ApplySound ==
    ASSUME NEW e, NEW off, Sound(e, off),
           NEW sp \in Spellings, NEW src \in Sources
    PROVE  LET f == Apply(e, sp, src, DefaultStrength[src])
               p == [spelling |-> sp, source |-> src,
                     strength |-> DefaultStrength[src]]
           IN  Sound(f, off \cup {p}) /\ Keeps(e, f)
<1> DEFINE str == DefaultStrength[src]
           f == Apply(e, sp, src, str)
           p == [spelling |-> sp, source |-> src, strength |-> str]
<1>1. src \in DOMAIN DefaultStrength /\ str \in Nat /\ str > 0
      BY SourcesAssumption, Strengths
<1>2. /\ e \in [spelling : Spellings \cup {NoSpelling},
                source : DOMAIN DefaultStrength, strength : Nat,
                conflict : BOOLEAN, rejected : Spellings \cup {NoSpelling}]
      /\ e.strength = 0 <=> e.spelling = NoSpelling
      /\ off \in SUBSET Proposal
      BY DEF Sound, Typed, Evidence
<1>3. p \in Proposal /\ sp # NoSpelling
      BY <1>1, SpellingsAssumption DEF Proposal
<1>4. \A q \in off : /\ q.source \in DOMAIN DefaultStrength
                     /\ q.strength = DefaultStrength[q.source]
                     /\ q.strength \in Nat
      BY Strengths DEF Sound, Refinable
<1> HIDE DEF str
<1>5. CASE e.strength = 0 \/ str > e.strength
  <2>1. f = Selected(sp, src, str)
        BY <1>5 DEF Apply
  <2>2. Typed(f, off \cup {p})
        BY <1>1, <1>2, <1>3, <2>1 DEF Typed, Selected, Evidence
  <2>3. \A q \in off : q.strength < str
        BY <1>1, <1>2, <1>4, <1>5 DEF Sound, Strongest
  <2>4. Strongest(f, off \cup {p})
        BY <1>1, <1>4, <2>1, <2>3 DEF Strongest, Selected
  <2>5. Honest(f, off \cup {p})
        BY <1>1, <1>4, <2>1, <2>3 DEF Honest, Selected
  <2>6. Refinable(f, off \cup {p})
    <3>1. \A q \in off : q.source # src
          BY <1>4, <1>1, <2>3 DEF str
    <3> QED BY <1>1, <1>4, <2>1, <3>1 DEF Refinable, Selected, str
  <2>7. Keeps(e, f)
    <3>1. f.strength = str /\ (f.strength = e.strength => e.spelling = NoSpelling)
          BY <1>1, <1>2, <1>5, <2>1 DEF Selected
    <3> QED BY <1>1, <1>2, <1>5, <3>1, SpellingsAssumption DEF Keeps, Spellings
  <2> QED BY <2>2, <2>4, <2>5, <2>6, <2>7 DEF Sound, str
<1>6. CASE /\ ~(e.strength = 0 \/ str > e.strength)
           /\ sp # e.spelling /\ PointerRefines(e, sp, src, str)
  <2>1. f = Selected(sp, src, str) /\ str = e.strength
        BY <1>6 DEF Apply, PointerRefines
  <2>2. Typed(f, off \cup {p})
        BY <1>1, <1>2, <1>3, <2>1 DEF Typed, Selected, Evidence
  <2>3. Strongest(f, off \cup {p})
        BY <1>1, <1>2, <1>4, <1>6, <2>1 DEF Sound, Strongest, Selected
  <2>4. e.source = "dataflow" /\ src = "dataflow" /\ e.spelling \in Scalars
        /\ sp \in Pointers /\ sp \notin Scalars
        BY <1>2, <1>6, SpellingsAssumption DEF PointerRefines, Spellings
  <2>5. \A q \in off : q.strength = str => q.source = "dataflow" /\ q.spelling \in Scalars
        BY <1>1, <1>4, <2>4, Strengths DEF Sound, Refinable, str
  <2>6. Honest(f, off \cup {p})
        BY <2>1, <2>4, <2>5 DEF Honest, Selected
  <2>7. Refinable(f, off \cup {p})
        BY <1>1, <1>4, <2>1, <2>4 DEF Refinable, Selected, str
  <2>8. Keeps(e, f)
        BY <1>1, <1>2, <1>6, <2>1 DEF Keeps, Selected, PointerRefines
  <2> QED BY <2>2, <2>3, <2>6, <2>7, <2>8 DEF Sound, str
<1>7. CASE ~(e.strength = 0 \/ str > e.strength) /\ sp = e.spelling
  <2>1. f = e
        BY <1>7 DEF Apply
  <2>2. str <= e.strength
        BY <1>1, <1>2, <1>7
  <2>3. Typed(f, off \cup {p}) /\ Keeps(e, f)
        BY <1>2, <1>3, <2>1 DEF Typed, Keeps, Evidence
  <2>4. Strongest(f, off \cup {p})
        BY <1>1, <1>2, <1>7, <2>1, <2>2 DEF Sound, Strongest
  <2>5. Honest(f, off \cup {p})
        BY <1>7, <2>1 DEF Sound, Honest
  <2>6. Refinable(f, off \cup {p})
        BY <1>1, <1>7, <2>1 DEF Sound, Refinable, str
  <2> QED BY <2>3, <2>4, <2>5, <2>6 DEF Sound, str
<1>8. CASE /\ ~(e.strength = 0 \/ str > e.strength)
           /\ sp # e.spelling /\ ~PointerRefines(e, sp, src, str)
  <2>1. f = Rejected(e, sp, str)
        BY <1>8 DEF Apply
  <2>2. /\ f.spelling = e.spelling /\ f.source = e.source
        /\ f.strength = e.strength
        /\ f.conflict = (e.conflict \/ str = e.strength)
        /\ f \in Evidence
        BY <1>2, <2>1 DEF Rejected, Evidence
  <2>3. str <= e.strength
        BY <1>1, <1>2, <1>8
  <2>4. Typed(f, off \cup {p}) /\ Keeps(e, f)
        BY <1>2, <1>3, <2>2 DEF Typed, Keeps, Evidence
  <2>5. Strongest(f, off \cup {p})
        BY <1>1, <1>2, <1>8, <2>2, <2>3 DEF Sound, Strongest
  <2>6. Honest(f, off \cup {p})
    <3>1. e.conflict \in BOOLEAN
          BY <1>2
    <3>2. CASE e.conflict
          BY <2>2, <3>2 DEF Sound, Honest
    <3>3. CASE ~e.conflict /\ str = e.strength
      <4>1. f.conflict /\ p.spelling # f.spelling /\ p.strength = f.strength
            BY <1>8, <2>2, <3>3
      <4> QED BY <4>1 DEF Honest
    <3>4. CASE ~e.conflict /\ str # e.strength
      <4>1. ~f.conflict /\ p.strength # f.strength
            BY <2>2, <3>4
      <4> QED BY <2>2, <3>4, <4>1 DEF Sound, Honest
    <3> QED BY <3>1, <3>2, <3>3, <3>4
  <2>7. Refinable(f, off \cup {p})
    <3>1. e.source = "dataflow" /\ e.spelling \in Scalars /\ src = "dataflow"
          => sp \in Scalars
      <4>1. e.strength = DefaultStrength[e.source]
            BY <1>2, <1>8 DEF Sound, Strongest, Refinable
      <4> QED BY <1>8, <4>1, SpellingsAssumption DEF PointerRefines, Spellings, str
    <3> QED BY <1>1, <2>2, <3>1 DEF Sound, Refinable, str
  <2> QED BY <2>4, <2>5, <2>6, <2>7 DEF Sound, str
<1> QED BY <1>5, <1>6, <1>7, <1>8 DEF str

-----------------------------------------------------------------------------
(* The inductive invariant holds at the start.                                *)
LEMMA InitIInv == Init => IInv
<1> SUFFICES ASSUME Init PROVE IInv
    OBVIOUS
<1>1. Sound(NoEvidence, {})
      BY SpellingsAssumption
      DEF Sound, Typed, Strongest, Honest, Refinable, NoEvidence, Evidence,
          DefaultStrength
<1>2. evidence \in [Ops -> Evidence]
      BY DEF Init, NoEvidence, Evidence, DefaultStrength
<1> QED BY <1>1, <1>2, BoundAssumption DEF Init, IInv

(* An offer with the strength of its source preserves the invariant and       *)
(* weakens no operation.                                                      *)
LEMMA OfferStep ==
    ASSUME IInv, NEW to \in Ops, NEW sp \in Spellings, NEW src \in Sources,
           Offer(to, sp, src, DefaultStrength[src])
    PROVE  IInv' /\ \A o \in Ops : Keeps(evidence[o], evidence'[o])
<1> DEFINE p == [spelling |-> sp, source |-> src,
                 strength |-> DefaultStrength[src]]
           f == Apply(evidence[to], sp, src, DefaultStrength[src])
<1>1. Sound(f, offered[to] \cup {p}) /\ Keeps(evidence[to], f)
      BY ApplySound DEF IInv
<1>2. /\ evidence' = [evidence EXCEPT ![to] = f]
      /\ offered' = [offered EXCEPT ![to] = @ \cup {p}]
      /\ offers' = offers + 1 /\ offers < MaxOffers
      BY DEF Offer
<1>3. f \in Evidence /\ offered[to] \cup {p} \in SUBSET Proposal
      BY <1>1 DEF Sound, Typed
<1> HIDE DEF f, p
<1>4. /\ evidence' \in [Ops -> Evidence]
      /\ offered' \in [Ops -> SUBSET Proposal]
      /\ offers' \in 0..MaxOffers
      BY <1>2, <1>3, BoundAssumption DEF IInv
<1>5. ASSUME NEW o \in Ops
      PROVE  Sound(evidence[o], offered[o])' /\ Keeps(evidence[o], evidence'[o])
  <2>1. CASE o = to
        BY <1>1, <1>2, <2>1 DEF IInv
  <2>2. CASE o # to
    <3>1. evidence'[o] = evidence[o] /\ offered'[o] = offered[o]
          BY <1>2, <2>2 DEF IInv
    <3>2. evidence[o].strength \in Nat
          BY DEF IInv, Evidence
    <3> QED BY <3>1, <3>2 DEF IInv, Keeps
  <2> QED BY <2>1, <2>2
<1> QED BY <1>4, <1>5 DEF IInv

(* A copy offers the selected type, whose strength is the one of its source.   *)
LEMMA CopyOffersOwn ==
    ASSUME IInv, NEW to \in Ops, NEW from \in Ops, Copy(to, from)
    PROVE  /\ evidence[from].spelling \in Spellings
           /\ evidence[from].source \in Sources
           /\ Offer(to, evidence[from].spelling, evidence[from].source,
                    DefaultStrength[evidence[from].source])
<1>1. evidence[from].strength > 0 /\ Sound(evidence[from], offered[from])
      BY DEF Copy, IInv
<1>2. evidence[from].strength # 0
      BY <1>1
<1>3. PICK p \in offered[from] :
             /\ p = [spelling |-> evidence[from].spelling,
                     source |-> evidence[from].source,
                     strength |-> evidence[from].strength]
             /\ p.strength = DefaultStrength[p.source]
             /\ p \in Proposal
      BY <1>1, <1>2 DEF Sound, Strongest, Refinable, Typed
<1>4. /\ evidence[from].spelling \in Spellings
      /\ evidence[from].source \in Sources
      /\ evidence[from].strength = DefaultStrength[evidence[from].source]
      BY <1>3 DEF Proposal
<1> QED BY <1>4 DEF Copy

(* Every step preserves the invariant and weakens no operation.               *)
LEMMA NextStep == IInv /\ [Next]_vars
                  => IInv' /\ \A o \in Ops : Keeps(evidence[o], evidence'[o])
<1> SUFFICES ASSUME IInv, [Next]_vars
             PROVE  IInv' /\ \A o \in Ops : Keeps(evidence[o], evidence'[o])
    OBVIOUS
<1>1. ASSUME NEW o \in Ops, NEW s \in Spellings, NEW src \in Sources,
             Propose(o, s, src)
      PROVE  IInv' /\ \A q \in Ops : Keeps(evidence[q], evidence'[q])
      BY <1>1, OfferStep DEF Propose
<1>2. ASSUME NEW to \in Ops, NEW from \in Ops, Copy(to, from)
      PROVE  IInv' /\ \A q \in Ops : Keeps(evidence[q], evidence'[q])
      BY <1>2, CopyOffersOwn, OfferStep
<1>3. CASE UNCHANGED vars
  <2>1. evidence' = evidence /\ offered' = offered /\ offers' = offers
        BY <1>3 DEF vars
  <2>2. \A o \in Ops : Keeps(evidence[o], evidence'[o])
        BY <2>1 DEF IInv, Evidence, Keeps
  <2> QED BY <2>1, <2>2 DEF IInv
<1> QED BY <1>1, <1>2, <1>3 DEF Next

(* The inductive invariant holds in every reachable state.                    *)
THEOREM Invariant == Spec => []IInv
BY InitIInv, NextStep, PTL DEF Spec

(* Type correctness (writeSelected and readTypeEvidence agree on when an      *)
(* operation has evidence).                                                   *)
THEOREM TypeCorrect == Spec => []TypeOK
<1>1. IInv => TypeOK
      BY DEF IInv, TypeOK, Sound, Typed
<1> QED BY <1>1, Invariant, PTL

(* Whatever the order of the passes, the selected type was proposed with the  *)
(* source and strength it is given, and nothing stronger was.                 *)
THEOREM StrongestAlwaysWins == Spec => []StrongestWins
<1>1. IInv => StrongestWins
      BY DEF IInv, StrongestWins, Sound, Strongest
<1> QED BY <1>1, Invariant, PTL

(* A conflict mark always has a rival of the same strength to show for it,    *)
(* and no rival goes unmarked but the scalars a data-flow pointer refined.    *)
THEOREM ConflictsAreHonest == Spec => []ConflictHonest
<1>1. IInv => ConflictHonest
  <2> SUFFICES ASSUME IInv, NEW o \in Ops
               PROVE  /\ evidence[o].conflict => Rivals(o) # {}
                      /\ (\E p \in Rivals(o) :
                             ~(p.source = "dataflow" /\ p.spelling \in Scalars
                               /\ evidence[o].spelling \in Pointers))
                         => evidence[o].conflict
      BY DEF ConflictHonest
  <2> QED BY DEF IInv, Sound, Honest, Rivals
<1> QED BY <1>1, Invariant, PTL

(* No step lowers the strength of a selected type or takes a pointer back.    *)
THEOREM NeverDowngraded == Spec => NoDowngrade
<1>1. IInv /\ [Next]_vars =>
        [\A o \in Ops :
           /\ evidence'[o].strength >= evidence[o].strength
           /\ /\ evidence'[o].strength = evidence[o].strength
              /\ evidence[o].spelling \in Pointers
              => evidence'[o].spelling = evidence[o].spelling]_vars
      BY NextStep DEF Keeps
<1> QED BY <1>1, Invariant, PTL DEF Spec, NoDowngrade

-----------------------------------------------------------------------------
(* Which proposal is selected, and when the order of the passes matters.       *)
SameType(e, f) ==
    e.spelling = f.spelling /\ e.source = f.source /\ e.strength = f.strength
TypeOf(e) == [spelling |-> e.spelling, source |-> e.source, strength |-> e.strength]

(* The strongest proposals, the scalars of the data flow only where it has     *)
(* proposed no pointer.                                                       *)
Preferred(off) ==
    {p \in off : /\ \A q \in off : q.strength <= p.strength
                 /\ ~ /\ p.source = "dataflow" /\ p.spelling \in Scalars
                      /\ \E q \in off : /\ q.source = "dataflow"
                                        /\ q.spelling \in Pointers}

LEMMA SoundPreferred ==
    ASSUME NEW e, NEW off, Sound(e, off), e.strength # 0
    PROVE  TypeOf(e) \in Preferred(off)
<1>1. TypeOf(e) \in off /\ \A q \in off : q.strength <= e.strength
      BY DEF Sound, Strongest, TypeOf
<1>2. ASSUME e.source = "dataflow", e.spelling \in Scalars, NEW q \in off,
             q.source = "dataflow"
      PROVE  q.spelling \notin Pointers
      BY <1>2, SpellingsAssumption DEF Sound, Refinable
<1> QED BY <1>1, <1>2 DEF Preferred, TypeOf

(* Preferred proposals have one strength, so one source.                      *)
LEMMA PreferredAlike ==
    ASSUME NEW e, NEW off, Sound(e, off),
           NEW p \in Preferred(off), NEW q \in Preferred(off)
    PROVE  p.strength = q.strength /\ p.source = q.source
<1>1. /\ p \in off /\ q \in off
      /\ p.strength <= q.strength /\ q.strength <= p.strength
      BY DEF Preferred
<1>2. /\ p.source \in DOMAIN DefaultStrength /\ q.source \in DOMAIN DefaultStrength
      /\ p.strength = DefaultStrength[p.source]
      /\ q.strength = DefaultStrength[q.source]
      BY <1>1 DEF Sound, Refinable
<1>3. p.strength \in Nat /\ q.strength \in Nat
      BY <1>2, Strengths
<1>4. p.strength = q.strength
      BY <1>1, <1>3
<1> QED BY <1>2, <1>4, Strengths

OrderIrrelevant ==
    \A o, q \in Ops :
        offered[o] = offered[q] =>
            /\ evidence[o].source = evidence[q].source
            /\ evidence[o].strength = evidence[q].strength
            /\ (\A p, r \in Preferred(offered[o]) : p.spelling = r.spelling)
               => evidence[o].spelling = evidence[q].spelling

(* The passes may run in any order: two operations that were offered the same  *)
(* types have the same source and strength, and the same type unless two of    *)
(* the preferred proposals themselves disagree, pointers of the data flow      *)
(* being preferred to its scalars.                                            *)
THEOREM OrderDoesNotMatter == Spec => []OrderIrrelevant
<1>1. IInv => OrderIrrelevant
  <2> SUFFICES ASSUME IInv, NEW o \in Ops, NEW q \in Ops, offered[o] = offered[q]
               PROVE  /\ evidence[o].source = evidence[q].source
                      /\ evidence[o].strength = evidence[q].strength
                      /\ (\A p, r \in Preferred(offered[o]) :
                              p.spelling = r.spelling)
                         => evidence[o].spelling = evidence[q].spelling
      BY DEF OrderIrrelevant
  <2>1. PICK off : off = offered[o]
      OBVIOUS
  <2>2. Sound(evidence[o], off) /\ Sound(evidence[q], off)
      BY <2>1 DEF IInv
  <2>3. CASE off = {}
    <3>1. /\ evidence[o].strength = 0 /\ evidence[q].strength = 0
          /\ evidence[o].source = "legacy" /\ evidence[q].source = "legacy"
          BY <2>2, <2>3 DEF Sound, Strongest
    <3>2. evidence[o].spelling = NoSpelling /\ evidence[q].spelling = NoSpelling
          BY <2>2, <3>1 DEF Sound, Typed
    <3> QED BY <3>1, <3>2
  <2>4. CASE off # {}
    <3>1. evidence[o].strength # 0 /\ evidence[q].strength # 0
          BY <2>2, <2>4 DEF Sound, Strongest
    <3>2. /\ TypeOf(evidence[o]) \in Preferred(off)
          /\ TypeOf(evidence[q]) \in Preferred(off)
          BY <2>2, <3>1, SoundPreferred
    <3>3. /\ TypeOf(evidence[o]).strength = TypeOf(evidence[q]).strength
          /\ TypeOf(evidence[o]).source = TypeOf(evidence[q]).source
          BY <2>2, <3>2, PreferredAlike
    <3> QED BY <2>1, <3>2, <3>3 DEF TypeOf
  <2> QED BY <2>3, <2>4
<1> QED BY <1>1, Invariant, PTL

-----------------------------------------------------------------------------
(* What a proposal changes. To change the selected type is to strengthen it,   *)
(* or to refine a scalar of the data flow to a pointer, once.                  *)
Progress(e, f) ==
    \/ SameType(e, f)
    \/ f.strength > e.strength
    \/ /\ f.strength = e.strength /\ f.source = "dataflow" /\ e.source = "dataflow"
       /\ e.spelling \in Scalars /\ f.spelling \in Pointers

(* Proposing a type once more does nothing, not even to the conflict mark.     *)
THEOREM ProposalIdempotent ==
    ASSUME NEW e \in Evidence, NEW sp \in Spellings,
           NEW src \in DOMAIN DefaultStrength, NEW str \in Nat
    PROVE  LET once == Apply(e, sp, src, str)
           IN  Apply(once, sp, src, str) = once
<1> DEFINE f == Apply(e, sp, src, str)
<1>1. CASE f = Selected(sp, src, str)
      BY <1>1 DEF Apply, Selected
<1>2. CASE /\ ~(e.strength = 0 \/ str > e.strength)
           /\ sp = e.spelling
  <2>1. f = e
        BY <1>2 DEF Apply
  <2> QED BY <1>2, <2>1 DEF Apply
<1>3. CASE /\ ~(e.strength = 0 \/ str > e.strength)
           /\ sp # e.spelling /\ ~PointerRefines(e, sp, src, str)
  <2>1. f = Rejected(e, sp, str)
        BY <1>3 DEF Apply
  <2>2. /\ f = [e EXCEPT !.rejected = sp,
                         !.conflict = e.conflict \/ str = e.strength]
        /\ f \in Evidence
        BY <2>1 DEF Rejected, Evidence
  <2>3. /\ f.spelling = e.spelling /\ f.source = e.source
        /\ f.strength = e.strength /\ f.rejected = sp
        /\ f.conflict = (e.conflict \/ str = e.strength)
        BY <2>2 DEF Evidence
  <2>4. Apply(f, sp, src, str) = Rejected(f, sp, str)
        BY <1>3, <2>3 DEF Apply, PointerRefines
  <2>5. Rejected(f, sp, str) = f
        BY <2>2, <2>3 DEF Rejected, Evidence
  <2> QED BY <2>4, <2>5
<1>4. CASE \/ e.strength = 0 \/ str > e.strength
           \/ sp # e.spelling /\ PointerRefines(e, sp, src, str)
      BY <1>1, <1>4 DEF Apply
<1> QED BY <1>2, <1>3, <1>4

LEMMA ApplyProgress ==
    ASSUME NEW e, NEW off, Sound(e, off), NEW sp \in Spellings, NEW src \in Sources
    PROVE  LET p == [spelling |-> sp, source |-> src,
                     strength |-> DefaultStrength[src]]
               f == Apply(e, sp, src, DefaultStrength[src])
           IN  Progress(e, f) /\ (p \in off => SameType(e, f))
<1> DEFINE str == DefaultStrength[src]
           p == [spelling |-> sp, source |-> src, strength |-> str]
           f == Apply(e, sp, src, str)
<1>1. src \in DOMAIN DefaultStrength /\ str \in Nat /\ str > 0
      BY SourcesAssumption, Strengths
<1>2. /\ e \in [spelling : Spellings \cup {NoSpelling},
                source : DOMAIN DefaultStrength, strength : Nat,
                conflict : BOOLEAN, rejected : Spellings \cup {NoSpelling}]
      /\ e.strength = 0 <=> e.spelling = NoSpelling
      BY DEF Sound, Typed, Evidence
<1> HIDE DEF str
<1>3. CASE e.strength = 0 \/ str > e.strength
  <2>1. f.strength = str /\ str > e.strength
        BY <1>1, <1>2, <1>3 DEF Apply, Selected
  <2>2. p \notin off
        BY <1>1, <1>2, <2>1 DEF Sound, Strongest
  <2> QED BY <2>1, <2>2 DEF Progress, str
<1>4. CASE /\ ~(e.strength = 0 \/ str > e.strength)
           /\ sp # e.spelling /\ PointerRefines(e, sp, src, str)
  <2>1. f = Selected(sp, src, str)
        BY <1>4 DEF Apply
  <2>2. /\ src = "dataflow" /\ e.source = "dataflow" /\ str = e.strength
        /\ sp \in Pointers /\ e.spelling \in Scalars
        BY <1>2, <1>4 DEF PointerRefines, Spellings
  <2>3. p \notin off
        BY <2>2, SpellingsAssumption DEF Sound, Refinable
  <2> QED BY <2>1, <2>2, <2>3 DEF Progress, Selected, str
<1>5. CASE /\ ~(e.strength = 0 \/ str > e.strength)
           /\ ~(sp # e.spelling /\ PointerRefines(e, sp, src, str))
  <2>1. f = e \/ f = Rejected(e, sp, str)
        BY <1>5 DEF Apply
  <2>2. SameType(e, f)
        BY <1>2, <2>1 DEF SameType, Rejected
  <2> QED BY <2>2 DEF Progress, str
<1> QED BY <1>3, <1>4, <1>5 DEF str

EveryChangeIsProgress ==
    [][\A o \in Ops : /\ Progress(evidence[o], evidence'[o])
                      /\ offered'[o] = offered[o]
                         => SameType(evidence[o], evidence'[o])]_vars

LEMMA OfferProgress ==
    ASSUME IInv, NEW to \in Ops, NEW sp \in Spellings, NEW src \in Sources,
           Offer(to, sp, src, DefaultStrength[src]), NEW o \in Ops
    PROVE  /\ Progress(evidence[o], evidence'[o])
           /\ offered'[o] = offered[o] => SameType(evidence[o], evidence'[o])
<1> DEFINE p == [spelling |-> sp, source |-> src,
                 strength |-> DefaultStrength[src]]
           f == Apply(evidence[to], sp, src, DefaultStrength[src])
<1>1. /\ evidence' = [evidence EXCEPT ![to] = f]
      /\ offered' = [offered EXCEPT ![to] = @ \cup {p}]
      BY DEF Offer
<1>2. Progress(evidence[to], f) /\ (p \in offered[to] => SameType(evidence[to], f))
      BY ApplyProgress DEF IInv
<1> HIDE DEF p, f
<1>3. CASE o = to
      BY <1>1, <1>2, <1>3 DEF IInv
<1>4. CASE o # to
  <2>1. evidence'[o] = evidence[o]
        BY <1>1, <1>4 DEF IInv
  <2> QED BY <2>1 DEF Progress, SameType
<1> QED BY <1>3, <1>4

(* applyTypeEvidence reports a change at most once for each source, and once   *)
(* more for the data flow: a step that changes a type strengthens it or makes a *)
(* data-flow scalar a pointer. A type proposed again, as by the second run of a *)
(* pass, changes nothing; so what repeats while there are changes comes to rest. *)
THEOREM ChangesAreProgress == Spec => EveryChangeIsProgress
<1>1. IInv /\ [Next]_vars =>
        [\A o \in Ops : /\ Progress(evidence[o], evidence'[o])
                        /\ offered'[o] = offered[o]
                           => SameType(evidence[o], evidence'[o])]_vars
  <2> SUFFICES ASSUME IInv, Next, NEW o \in Ops
               PROVE  /\ Progress(evidence[o], evidence'[o])
                      /\ offered'[o] = offered[o]
                         => SameType(evidence[o], evidence'[o])
      OBVIOUS
  <2>1. ASSUME NEW to \in Ops, NEW sp \in Spellings, NEW src \in Sources,
               Propose(to, sp, src)
        PROVE  /\ Progress(evidence[o], evidence'[o])
               /\ offered'[o] = offered[o]
                  => SameType(evidence[o], evidence'[o])
        BY <2>1, OfferProgress DEF Propose
  <2>2. ASSUME NEW to \in Ops, NEW from \in Ops, Copy(to, from)
        PROVE  /\ Progress(evidence[o], evidence'[o])
               /\ offered'[o] = offered[o]
                  => SameType(evidence[o], evidence'[o])
        BY <2>2, CopyOffersOwn, OfferProgress
  <2> QED BY <2>1, <2>2 DEF Next
<1> QED BY <1>1, Invariant, PTL DEF Spec, EveryChangeIsProgress

===============================================================================

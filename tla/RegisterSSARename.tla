-------------------------- MODULE RegisterSSARename --------------------------
(* The pass that numbers the definitions of a register in one function         *)
(* (engine/src/passes/RegisterSSARename.cpp), and the slot that HelixLowToMid  *)
(* makes of a register and its number. Registers are numbered independently,   *)
(* so one is followed. A block reads it on entry, may write it, and reads it   *)
(* on exit: any number of reads between two writes gets the same stamp.        *)
EXTENDS Integers, Sequences, FiniteSets

CONSTANTS
    Blocks, Entry,  \* basic blocks, and the entry, which has no predecessor
    Successors,     \* successor lists a terminator may have
    Merge,          \* kMergeVersion
    SlotWidth       \* version numbers a slot id tells apart: 2^16

ASSUME BlocksAssumption == /\ IsFiniteSet(Blocks)
                           /\ Entry \in Blocks
                           /\ Successors \subseteq Seq(Blocks \ {Entry})
ASSUME MergeAssumption == Merge \notin Nat
ASSUME WidthAssumption == SlotWidth \in Nat /\ SlotWidth >= 3

LiveIn == 0  \* kLiveInVersion

VARIABLES
    succ,      \* the control-flow graph, fixed
    writes,    \* the blocks that write the register, fixed
    worklist,  \* blocks still to visit
    order,     \* blocks in the order they were first visited ("rpo")
    renamed,   \* how many of them are renamed
    next,      \* nextVersion of the register
    entry,     \* version current at the entry of each renamed block
    exit       \* exitVersions

vars == <<succ, writes, worklist, order, renamed, next, entry, exit>>

SetOf(s) == {s[i] : i \in DOMAIN s}
Preds(b) == {p \in Blocks : b \in SetOf(succ[p])}

NotRenamed == [b \in {} |-> LiveIn]
done == DOMAIN exit

Init == /\ succ \in [Blocks -> Successors]
        /\ writes \in SUBSET Blocks
        /\ worklist = <<Entry>>
        /\ order = <<>>
        /\ renamed = 0
        /\ next = 1
        /\ entry = NotRenamed
        /\ exit = NotRenamed

-----------------------------------------------------------------------------
(* Step 1: order the reachable blocks, last pushed first.                     *)

Pop == [block |-> worklist[Len(worklist)],
        rest |-> SubSeq(worklist, 1, Len(worklist) - 1)]

(* Mutant: a block met again is put back at the other end. *)
VisitRequeueing ==
    /\ worklist # <<>>
    /\ IF Pop.block \in SetOf(order)
       THEN worklist' = <<Pop.block>> \o Pop.rest /\ UNCHANGED order
       ELSE /\ order' = Append(order, Pop.block)
            /\ worklist' = Pop.rest \o succ[Pop.block]
    /\ UNCHANGED <<succ, writes, renamed, next, entry, exit>>

Visit ==
    /\ worklist # <<>>
    /\ IF Pop.block \in SetOf(order)
       THEN worklist' = Pop.rest /\ UNCHANGED order
       ELSE /\ order' = Append(order, Pop.block)
            /\ worklist' = Pop.rest \o succ[Pop.block]
    /\ UNCHANGED <<succ, writes, renamed, next, entry, exit>>

-----------------------------------------------------------------------------
(* Step 2: reconcile the predecessors of each block, then rename it.          *)

(* A predecessor that is not renamed yet is taken to hold the entry value.    *)
Contribution(p) == IF p \in done THEN exit[p] ELSE LiveIn

(* Mutant: currentVersion is not cleared between two blocks. *)
VersionCarriedOver(b) == IF renamed = 0 THEN LiveIn ELSE exit[order[renamed]]

VersionAtEntry(b) ==
    LET given == {Contribution(p) : p \in Preds(b)}
    IN  IF given = {} THEN LiveIn
        ELSE IF \E v \in given : given = {v}
             THEN CHOOSE v \in given : TRUE
             ELSE Merge

(* Mutant: numbering starts afresh in every block. *)
RenameFromOne ==
    /\ worklist = <<>>
    /\ renamed < Len(order)
    /\ renamed' = renamed + 1
    /\ LET b == order[renamed + 1] IN
       /\ entry' = [x \in done \cup {b} |->
                       IF x = b THEN VersionAtEntry(b) ELSE entry[x]]
       /\ exit' = [x \in done \cup {b} |->
                      IF x # b THEN exit[x]
                      ELSE IF b \in writes THEN 1 ELSE VersionAtEntry(b)]
       /\ next' = 2
    /\ UNCHANGED <<succ, writes, worklist, order>>

Rename ==
    /\ worklist = <<>>
    /\ renamed < Len(order)
    /\ renamed' = renamed + 1
    /\ LET b == order[renamed + 1] IN
       /\ entry' = [x \in done \cup {b} |->
                       IF x = b THEN VersionAtEntry(b) ELSE entry[x]]
       /\ exit' = [x \in done \cup {b} |->
                      IF x # b THEN exit[x]
                      ELSE IF b \in writes THEN next ELSE VersionAtEntry(b)]
       /\ next' = IF b \in writes THEN next + 1 ELSE next
    /\ UNCHANGED <<succ, writes, worklist, order>>

Finished == worklist = <<>> /\ renamed = Len(order)

(* The function is renamed; the pass goes on to the next one.                 *)
Done == Finished /\ UNCHANGED vars

Next == Visit \/ Rename \/ Done

Spec == Init /\ [][Next]_vars
FairSpec == Spec /\ WF_vars(Visit \/ Rename)

(* Mutant: the join marker is dropped with its high half. *)
SlotOfJoinAsLiveIn(version) ==
    IF version = Merge THEN LiveIn ELSE version % SlotWidth

(* computeSlotIdFromRegOp: the low half of a slot id; kMergeVersion is        *)
(* 0xFFFFFFFE, which ends in 0xFFFE.                                          *)
Slot(version) == IF version = Merge THEN SlotWidth - 2 ELSE version % SlotWidth

-----------------------------------------------------------------------------
(* What the stamps are measured against. A definition (the entry value, or    *)
(* the write of block d) reaches the entry of b when b is in every set of     *)
(* blocks that the definition flows into and that no non-writing block leads  *)
(* out of.                                                                    *)
FlowsInto(v) ==
    IF v = LiveIn THEN {Entry}
    ELSE UNION {SetOf(succ[w]) : w \in {d \in writes \cap done : exit[d] = v}}

ClosedUnderFlow(set) ==
    \A p \in set \ writes : SetOf(succ[p]) \subseteq set

Reaches(v, b) ==
    \A set \in SUBSET Blocks :
        FlowsInto(v) \subseteq set /\ ClosedUnderFlow(set) => b \in set

Reachable(b) ==
    \A set \in SUBSET Blocks :
        Entry \in set /\ (\A p \in set : SetOf(succ[p]) \subseteq set) => b \in set

-----------------------------------------------------------------------------
Versions == Nat \cup {Merge}

(* Type invariant of the pass.                                                *)
TypeOK == /\ succ \in [Blocks -> Successors]
          /\ writes \subseteq Blocks
          /\ worklist \in Seq(Blocks)
          /\ order \in Seq(Blocks)
          /\ next \in Nat \ {0}
          /\ renamed \in 0..Len(order)
          /\ done = {order[i] : i \in 1..renamed}
          /\ entry \in [done -> Versions]
          /\ exit \in [done -> Versions]

(* FIX-087: two definitions of a register never share a version, and none has *)
(* the version of the entry value or of a join.                               *)
DefinitionsApart ==
    \A b \in writes \cap done :
        /\ exit[b] \in Nat \ {LiveIn}
        /\ exit[b] < next
        /\ \A c \in writes \cap done : exit[b] = exit[c] => b = c

(* A read that is stamped with a definition may see that definition: some     *)
(* path brings it there unwritten. Only the join marker stands for no         *)
(* definition.                                                                *)
StampMayReachRead ==
    \A b \in done : entry[b] # Merge => Reaches(entry[b], b)

(* The slots of HelixLowToMid keep versions apart, as long as a function has   *)
(* fewer definitions of one register than a slot id can tell apart.           *)
SlotsKeepVersionsApart ==
    next <= SlotWidth - 2 =>
        \A b, c \in done : Slot(exit[b]) = Slot(exit[c]) => exit[b] = exit[c]

(* The pass ends on every control-flow graph, irreducible ones included.      *)
PassEnds == <>Finished

(* RegisterSSARename.cpp, "Design": the read at a loop header that may see     *)
(* the incoming value or the one of the previous iteration is stamped with    *)
(* the join marker.                                                           *)
LoopReadsAreMerged ==
    Finished =>
        \A b \in done, w \in writes \cap done :
            Reaches(LiveIn, b) /\ Reaches(exit[w], b) => entry[b] = Merge
==============================================================================

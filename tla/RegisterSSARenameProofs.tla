----------------------- MODULE RegisterSSARenameProofs -----------------------
(* What the versions of a register guarantee on every control-flow graph.      *)
EXTENDS RegisterSSARename, FiniteSetTheorems, TLAPS

-----------------------------------------------------------------------------
(* The inductive invariant: the order lists no block twice, so renaming never *)
(* revisits a block and what has been stamped stays; every block but the      *)
(* first follows one of its predecessors, whose version has reached it.       *)
OrderInjective == \A i, j \in DOMAIN order : order[i] = order[j] => i = j

EntryFirst == /\ order = <<>> => worklist = <<Entry>>
              /\ order # <<>> => order[1] = Entry

OrderConnected ==
    /\ \A j \in DOMAIN order : j # 1 =>
           \E i \in 1..(j - 1) : order[j] \in SetOf(succ[order[i]])
    /\ order # <<>> => \A k \in DOMAIN worklist :
           \E i \in DOMAIN order : worklist[k] \in SetOf(succ[order[i]])

NextFits == \A b \in done : exit[b] # Merge => exit[b] < next

ExitFlows == \A b \in done \ writes : exit[b] = entry[b]

OrderInv == OrderInjective /\ EntryFirst /\ OrderConnected
StampInv == NextFits /\ ExitFlows /\ DefinitionsApart /\ StampMayReachRead
Inv == TypeOK /\ OrderInv /\ StampInv

-----------------------------------------------------------------------------
LEMMA InitInv == Init => Inv
<1> SUFFICES ASSUME Init PROVE Inv
  OBVIOUS
<1>1. done = {} /\ exit \in [done -> Versions] /\ entry \in [done -> Versions]
  BY DEF Init, NotRenamed, done
<1>2. /\ order = <<>> /\ order \in Seq(Blocks) /\ Len(order) = 0
      /\ worklist = <<Entry>> /\ worklist \in Seq(Blocks) /\ DOMAIN order = {}
  BY BlocksAssumption DEF Init
<1>3. TypeOK
  BY <1>1, <1>2 DEF Init, TypeOK
<1> QED
  BY <1>1, <1>2, <1>3
     DEF Inv, OrderInv, StampInv, OrderInjective, OrderConnected, NextFits,
         ExitFlows, EntryFirst, DefinitionsApart, StampMayReachRead

(* Ordering changes no stamp.                                                 *)
LEMMA VisitKeepsStamps == ASSUME Inv, Visit PROVE StampInv'
<1>1. UNCHANGED <<succ, writes, next, entry, exit>>
  BY DEF Visit
<1> QED
  BY <1>1 DEF Inv, StampInv, NextFits, ExitFlows, DefinitionsApart, done,
     StampMayReachRead, Reaches, FlowsInto, ClosedUnderFlow

LEMMA PopTyped ==
    ASSUME Inv, Visit
    PROVE  /\ worklist \in Seq(Blocks) /\ order \in Seq(Blocks)
           /\ Len(worklist) \in Nat \ {0} /\ Len(order) \in Nat
           /\ Pop.block \in Blocks /\ Pop.rest \in Seq(Blocks)
           /\ succ[Pop.block] \in Seq(Blocks)
           /\ Len(Pop.rest) = Len(worklist) - 1
           /\ \A k \in DOMAIN Pop.rest : Pop.rest[k] = worklist[k]
           /\ UNCHANGED <<succ, writes, renamed, next, entry, exit>>
<1>1. /\ worklist \in Seq(Blocks) /\ worklist # <<>> /\ order \in Seq(Blocks)
      /\ succ \in [Blocks -> Successors]
  BY DEF Inv, TypeOK, Visit
<1>2. Pop.block \in Blocks /\ Pop.rest \in Seq(Blocks)
  BY <1>1 DEF Pop
<1>3. succ[Pop.block] \in Seq(Blocks)
  <2>1. succ[Pop.block] \in Seq(Blocks \ {Entry})
    BY <1>1, <1>2, BlocksAssumption
  <2> QED
    BY <2>1
<1>4. /\ Len(Pop.rest) = Len(worklist) - 1
      /\ \A k \in DOMAIN Pop.rest : Pop.rest[k] = worklist[k]
  <2>1. Pop.rest = SubSeq(worklist, 1, Len(worklist) - 1)
    BY DEF Pop
  <2>2. Len(worklist) \in Nat /\ Len(worklist) >= 1
        /\ DOMAIN worklist = 1..Len(worklist)
    BY <1>1
  <2>3. DOMAIN Pop.rest = 1..(Len(worklist) - 1)
    BY <1>1, <2>1, <2>2
  <2> QED
    BY <1>1, <2>1, <2>2, <2>3
<1>5. UNCHANGED <<succ, writes, renamed, next, entry, exit>>
  BY DEF Visit
<1> QED
  BY <1>1, <1>2, <1>3, <1>4, <1>5

LEMMA VisitKnownKeepsInv ==
    ASSUME Inv, Visit, Pop.block \in SetOf(order)
    PROVE  Inv'
<1>1. order' = order /\ worklist' = Pop.rest
  BY DEF Visit
<1>2. order # <<>>
  BY PopTyped DEF SetOf
<1>3. TypeOK'
  BY <1>1, PopTyped DEF Inv, TypeOK, done
<1>4. OrderInjective' /\ EntryFirst'
  BY <1>1, <1>2 DEF Inv, OrderInv, OrderInjective, EntryFirst
<1>5. OrderConnected'
  <2>1. DOMAIN Pop.rest \subseteq DOMAIN worklist
    BY PopTyped
  <2> QED
    BY <1>1, <1>2, <2>1, PopTyped DEF Inv, OrderInv, OrderConnected
<1> QED
  BY <1>3, <1>4, <1>5, VisitKeepsStamps DEF Inv, OrderInv

LEMMA VisitNewKeepsInv ==
    ASSUME Inv, Visit, Pop.block \notin SetOf(order)
    PROVE  Inv'
<1> DEFINE b == Pop.block
<1>1. order' = Append(order, b) /\ worklist' = Pop.rest \o succ[b]
  BY DEF Visit
<1>2. /\ worklist' \in Seq(Blocks) /\ order' \in Seq(Blocks)
      /\ Len(order') = Len(order) + 1
      /\ \A i \in 1..Len(order) : order'[i] = order[i]
      /\ order'[Len(order) + 1] = b
  BY <1>1, PopTyped
<1>3. /\ DOMAIN order = 1..Len(order) /\ DOMAIN order' = 1..(Len(order) + 1)
      /\ Len(order) \in Nat
  BY <1>2, PopTyped
<1>4. renamed \in 0..Len(order) /\ done = {order[i] : i \in 1..renamed}
  BY DEF Inv, TypeOK
<1>5. \A i \in 1..renamed : order'[i] = order[i]
  BY <1>2, <1>3, <1>4
<1>6. TypeOK'
  <2>1. done' = {order'[i] : i \in 1..renamed'}
    BY <1>4, <1>5, PopTyped DEF done
  <2>2. renamed' \in 0..Len(order')
    BY <1>2, <1>3, <1>4, PopTyped
  <2> QED
    BY <1>2, <2>1, <2>2, PopTyped DEF Inv, TypeOK, done
<1>7. OrderInjective'
  <2>1. \A i \in 1..Len(order) : order[i] # b
    BY <1>3 DEF SetOf
  <2> QED
    BY <1>2, <1>3, <2>1 DEF Inv, OrderInv, OrderInjective
<1>8. EntryFirst'
  <2>1. CASE order = <<>>
    <3>1. worklist = <<Entry>> /\ Len(order) = 0
      BY <2>1 DEF Inv, OrderInv, EntryFirst
    <3>2. b = Entry
      BY <3>1 DEF Pop
    <3>3. Len(order) + 1 = 1 /\ Len(order') = 1
      BY <3>1, <1>2
    <3>4. order'[1] = Entry /\ order' # <<>>
      BY <3>2, <3>3, <1>2
    <3> QED
      BY <3>4 DEF EntryFirst
  <2>2. CASE order # <<>>
    <3>1. Len(order) >= 1
      BY <2>2, <1>3, PopTyped
    <3>2. order'[1] = Entry /\ order' # <<>>
      BY <2>2, <3>1, <1>2, <1>3 DEF Inv, OrderInv, EntryFirst
    <3> QED
      BY <3>2 DEF EntryFirst
  <2> QED
    BY <2>1, <2>2
<1>9. OrderConnected'
  <2>1. \A j \in DOMAIN order' : j # 1 =>
            \E i \in 1..(j - 1) : order'[j] \in SetOf(succ'[order'[i]])
    <3> SUFFICES ASSUME NEW j \in 1..(Len(order) + 1), j # 1
                 PROVE \E i \in 1..(j - 1) : order'[j] \in SetOf(succ[order'[i]])
      BY <1>3, PopTyped
    <3>1. CASE j \in 1..Len(order)
      <4>1. PICK i \in 1..(j - 1) : order[j] \in SetOf(succ[order[i]])
        BY <3>1, <1>3 DEF Inv, OrderInv, OrderConnected
      <4>2. i \in 1..Len(order)
        BY <4>1, <3>1, <1>3
      <4> QED
        BY <4>1, <4>2, <3>1, <1>2
    <3>2. CASE j = Len(order) + 1
      <4>1. order # <<>> /\ Len(worklist) \in DOMAIN worklist
        BY <3>2, PopTyped
      <4>2. PICK i \in DOMAIN order :
                worklist[Len(worklist)] \in SetOf(succ[order[i]])
        BY <4>1 DEF Inv, OrderInv, OrderConnected
      <4>3. worklist[Len(worklist)] = b
        BY DEF Pop
      <4> QED
        BY <4>2, <4>3, <3>2, <1>2, <1>3
    <3> QED
      BY <3>1, <3>2, <1>3
  <2>2. \A k \in DOMAIN worklist' :
            \E i \in DOMAIN order' : worklist'[k] \in SetOf(succ'[order'[i]])
    <3> SUFFICES ASSUME NEW k \in DOMAIN worklist'
                 PROVE \E i \in DOMAIN order' :
                           worklist'[k] \in SetOf(succ[order'[i]])
      BY PopTyped
    <3>1. CASE k \in DOMAIN Pop.rest
      <4>1. worklist'[k] = worklist[k] /\ k \in DOMAIN worklist
        BY <3>1, <1>1, PopTyped
      <4>2. CASE order = <<>>
        <5>1. Len(worklist) = 1
          BY <4>2 DEF Inv, OrderInv, EntryFirst
        <5> QED
          BY <5>1, <3>1, PopTyped
      <4>3. CASE order # <<>>
        BY <4>1, <4>3, <1>2, <1>3 DEF Inv, OrderInv, OrderConnected
      <4> QED
        BY <4>2, <4>3
    <3>2. CASE k \notin DOMAIN Pop.rest
      <4>1. /\ k - Len(Pop.rest) \in DOMAIN succ[b]
            /\ worklist'[k] = succ[b][k - Len(Pop.rest)]
        <5> DEFINE m == Len(Pop.rest)
                   n == Len(succ[b])
        <5>1. /\ m \in Nat /\ n \in Nat /\ DOMAIN Pop.rest = 1..m
              /\ DOMAIN succ[b] = 1..n /\ DOMAIN worklist' = 1..(m + n)
          BY <1>1, PopTyped
        <5>4. k \in 1..(m + n) /\ k \notin 1..m
          BY <3>2, <5>1
        <5> HIDE DEF m, n
        <5>2. k \in (m + 1)..(m + n) /\ k - m \in 1..n
          BY <5>1, <5>4
        <5>3. (Pop.rest \o succ[b])[k] = succ[b][k - m]
          BY <5>1, <5>2, PopTyped DEF m, n
        <5> QED
          BY <5>1, <5>2, <5>3, <1>1 DEF m
      <4>2. worklist'[k] \in SetOf(succ[b])
        BY <4>1 DEF SetOf
      <4> QED
        BY <4>2, <1>2, <1>3
    <3> QED
      BY <3>1, <3>2
  <2> QED
    BY <2>1, <2>2 DEF OrderConnected
<1> QED
  BY <1>6, <1>7, <1>8, <1>9, VisitKeepsStamps DEF Inv, OrderInv

-----------------------------------------------------------------------------
LEMMA VersionAtEntryTyped ==
    ASSUME Inv, NEW b \in Blocks
    PROVE  VersionAtEntry(b) \in Versions
<1>1. \A p \in Preds(b) : Contribution(p) \in Versions
  BY DEF Inv, TypeOK, Contribution, Versions, LiveIn
<1> QED
  BY <1>1 DEF VersionAtEntry, Versions, LiveIn

(* Unless it is the join marker, every predecessor contributes it.            *)
LEMMA VersionAtEntryAgreed ==
    ASSUME NEW b \in Blocks, VersionAtEntry(b) # Merge,
           NEW p \in Preds(b)
    PROVE  Contribution(p) = VersionAtEntry(b)
<1> DEFINE given == {Contribution(q) : q \in Preds(b)}
<1>1. Contribution(p) \in given
  OBVIOUS
<1>2. PICK v \in given : given = {v}
  BY <1>1 DEF VersionAtEntry
<1>3. \A w \in given : w = v
  BY <1>2
<1>4. (CHOOSE w \in given : TRUE) \in given
  BY <1>1
<1>5. VersionAtEntry(b) = CHOOSE w \in given : TRUE
  BY <1>1, <1>2 DEF VersionAtEntry
<1> QED
  BY <1>1, <1>3, <1>4, <1>5

LEMMA VersionAtEntryFits ==
    ASSUME Inv, NEW b \in Blocks, VersionAtEntry(b) # Merge
    PROVE  VersionAtEntry(b) \in Nat /\ VersionAtEntry(b) < next
<1>1. VersionAtEntry(b) \in Nat
  BY VersionAtEntryTyped DEF Versions
<1>2. next \in Nat \ {0}
  BY DEF Inv, TypeOK
<1>3. CASE VersionAtEntry(b) = LiveIn
  BY <1>2, <1>3 DEF LiveIn
<1>4. CASE VersionAtEntry(b) # LiveIn
  <2>1. PICK p \in Preds(b) : TRUE
    BY <1>4 DEF VersionAtEntry
  <2>2. Contribution(p) = VersionAtEntry(b)
    BY VersionAtEntryAgreed
  <2>3. p \in done /\ exit[p] = VersionAtEntry(b)
    BY <1>4, <2>2 DEF Contribution
  <2> QED
    BY <1>1, <2>3 DEF Inv, StampInv, NextFits
<1> QED
  BY <1>3, <1>4

-----------------------------------------------------------------------------
(* The block renamed next is new, and is the entry block or follows a renamed  *)
(* predecessor.                                                               *)
LEMMA NextBlock ==
    ASSUME Inv, Rename
    PROVE  LET b == order[renamed + 1] IN
           /\ b \in Blocks /\ b \notin done
           /\ b = Entry \/ \E p \in done : b \in SetOf(succ[p])
           /\ renamed + 1 \in 1..Len(order)
           /\ done \cup {b} = {order[i] : i \in 1..(renamed + 1)}
<1> DEFINE b == order[renamed + 1]
<1>1. /\ order \in Seq(Blocks) /\ Len(order) \in Nat /\ renamed \in Nat
      /\ renamed + 1 \in 1..Len(order) /\ DOMAIN order = 1..Len(order)
      /\ done = {order[i] : i \in 1..renamed}
  BY DEF Inv, TypeOK, Rename
<1>2. b \in Blocks
  BY <1>1
<1>3. b \notin done
  <2> SUFFICES ASSUME NEW i \in 1..renamed PROVE order[i] # b
    BY <1>1
  <2>1. i \in DOMAIN order /\ renamed + 1 \in DOMAIN order /\ i # renamed + 1
    BY <1>1
  <2> QED
    BY <2>1 DEF Inv, OrderInv, OrderInjective
<1>4. b = Entry \/ \E p \in done : b \in SetOf(succ[p])
  <2>1. CASE renamed = 0
    <3>1. order # <<>>
      BY <1>1
    <3> QED
      BY <2>1, <3>1 DEF Inv, OrderInv, EntryFirst
  <2>2. CASE renamed # 0
    <3>1. PICK i \in 1..renamed : b \in SetOf(succ[order[i]])
      <4>1. renamed + 1 \in DOMAIN order /\ renamed + 1 # 1
            /\ (renamed + 1) - 1 = renamed
        BY <2>2, <1>1
      <4> QED
        BY <4>1 DEF Inv, OrderInv, OrderConnected
    <3> QED
      BY <3>1, <1>1
  <2> QED
    BY <2>1, <2>2
<1>5. done \cup {b} = {order[i] : i \in 1..(renamed + 1)}
  <2>1. 1..(renamed + 1) = 1..renamed \cup {renamed + 1}
    BY <1>1
  <2> QED
    BY <2>1, <1>1
<1> QED
  BY <1>1, <1>2, <1>3, <1>4, <1>5

(* The entry block has no predecessor: its registers are live-in.             *)
LEMMA EntryLiveIn == ASSUME Inv PROVE VersionAtEntry(Entry) = LiveIn
<1>1. Preds(Entry) = {}
  <2> SUFFICES ASSUME NEW p \in Blocks PROVE Entry \notin SetOf(succ[p])
    BY DEF Preds
  <2>1. succ[p] \in Seq(Blocks \ {Entry})
    BY BlocksAssumption DEF Inv, TypeOK
  <2> QED
    BY <2>1 DEF SetOf
<1> QED
  BY <1>1 DEF VersionAtEntry

(* The version agreed at the entry of the next block may reach it.            *)
LEMMA AgreedReaches ==
    ASSUME Inv, Rename,
           VersionAtEntry(order[renamed + 1]) # Merge
    PROVE  Reaches(VersionAtEntry(order[renamed + 1]), order[renamed + 1])
<1> DEFINE b == order[renamed + 1]
           v == VersionAtEntry(b)
<1>1. b \in Blocks /\ (b = Entry \/ \E p \in done : b \in SetOf(succ[p]))
  BY NextBlock
<1>2. CASE b = Entry
  <2>1. v = LiveIn
    BY <1>2, EntryLiveIn
  <2> QED
    BY <1>2, <2>1 DEF Reaches, FlowsInto
<1>3. CASE \E p \in done : b \in SetOf(succ[p])
  <2>1. PICK p \in done : b \in SetOf(succ[p])
    BY <1>3
  <2>2. p \in Blocks
    BY <2>1 DEF Inv, TypeOK
  <2>3. exit[p] = v
    <3>1. p \in Preds(b)
      BY <2>1, <2>2 DEF Preds
    <3> QED
      BY <3>1, <1>1, <2>1, VersionAtEntryAgreed DEF Contribution
  <2>4. CASE p \in writes
    <3>1. v # LiveIn
      BY <2>1, <2>3, <2>4 DEF Inv, StampInv, DefinitionsApart, LiveIn
    <3>2. b \in FlowsInto(v)
      BY <3>1, <2>1, <2>3, <2>4 DEF FlowsInto
    <3> QED
      BY <3>2 DEF Reaches
  <2>5. CASE p \notin writes
    <3>1. entry[p] = v
      BY <2>1, <2>3, <2>5 DEF Inv, StampInv, ExitFlows
    <3>2. Reaches(v, p)
      BY <3>1, <2>1 DEF Inv, StampInv, StampMayReachRead
    <3> QED
      BY <3>2, <2>1, <2>2, <2>5 DEF Reaches, ClosedUnderFlow
  <2> QED
    BY <2>4, <2>5
<1> QED
  BY <1>1, <1>2, <1>3

(* Renaming one more block takes no flow away.                                *)
LEMMA ReachesKept ==
    ASSUME Inv, Rename, NEW v, NEW c \in Blocks, Reaches(v, c)
    PROVE  Reaches(v, c)'
<1> DEFINE b == order[renamed + 1]
<1>1. /\ b \notin done /\ UNCHANGED <<succ, writes>>
      /\ \A x \in done : x \in done' /\ exit'[x] = exit[x]
  BY NextBlock DEF Rename, done
<1>2. FlowsInto(v) \subseteq FlowsInto(v)'
  BY <1>1 DEF FlowsInto
<1>3. \A set \in SUBSET Blocks : ClosedUnderFlow(set)' = ClosedUnderFlow(set)
  BY <1>1 DEF ClosedUnderFlow
<1> SUFFICES ASSUME NEW set \in SUBSET Blocks, FlowsInto(v)' \subseteq set,
                    ClosedUnderFlow(set)'
             PROVE c \in set
  BY DEF Reaches
<1> QED
  BY <1>2, <1>3 DEF Reaches

LEMMA RenameKeepsInv == ASSUME Inv, Rename PROVE Inv'
<1> DEFINE b == order[renamed + 1]
           v == VersionAtEntry(b)
<1>1. /\ b \in Blocks /\ b \notin done
      /\ renamed + 1 \in 1..Len(order)
      /\ done \cup {b} = {order[i] : i \in 1..(renamed + 1)}
  BY NextBlock
<1>2. /\ UNCHANGED <<succ, writes, worklist, order>>
      /\ renamed' = renamed + 1
      /\ next' = IF b \in writes THEN next + 1 ELSE next
  BY DEF Rename
<1>3. /\ done' = done \cup {b}
      /\ exit' = [x \in done \cup {b} |-> IF x # b THEN exit[x]
                                        ELSE IF b \in writes THEN next ELSE v]
      /\ entry' = [x \in done \cup {b} |-> IF x = b THEN v ELSE entry[x]]
  BY DEF Rename, done
<1>4. v \in Versions /\ next \in Nat \ {0} /\ next # Merge
  BY <1>1, VersionAtEntryTyped, MergeAssumption DEF Inv, TypeOK
<1>5. v # Merge => v \in Nat /\ v < next
  BY <1>1, VersionAtEntryFits
<1> HIDE DEF v
<1>6. TypeOK'
  <2>1. /\ exit \in [done -> Versions] /\ entry \in [done -> Versions]
        /\ Len(order) \in Nat /\ next' \in Nat \ {0} /\ next \in Versions
    BY <1>2, <1>4 DEF Inv, TypeOK, Versions
  <2>2. exit' \in [done' -> Versions] /\ entry' \in [done' -> Versions]
    BY <1>3, <1>4, <2>1
  <2>3. renamed' \in 0..Len(order) /\ done' = {order[i] : i \in 1..renamed'}
    BY <1>1, <1>2, <1>3, <2>1
  <2> QED
    BY <1>2, <2>1, <2>2, <2>3 DEF Inv, TypeOK
<1>7. OrderInv'
  BY <1>2 DEF Inv, OrderInv, OrderInjective, EntryFirst, OrderConnected
<1>8. /\ exit'[b] = (IF b \in writes THEN next ELSE v) /\ entry'[b] = v
      /\ \A x \in done : exit'[x] = exit[x] /\ entry'[x] = entry[x]
  BY <1>1, <1>3
<1>9. NextFits'
  <2> SUFFICES ASSUME NEW x \in done \cup {b}, exit'[x] # Merge
               PROVE exit'[x] < next'
    BY <1>3 DEF NextFits
  <2>1. CASE x = b
    BY <2>1, <1>2, <1>4, <1>5, <1>8
  <2>2. CASE x \in done
    <3>1. exit[x] # Merge /\ exit[x] < next /\ exit[x] \in Nat
      BY <2>2, <1>8 DEF Inv, StampInv, NextFits, TypeOK, Versions
    <3> QED
      BY <3>1, <2>2, <1>2, <1>4, <1>8
  <2> QED
    BY <2>1, <2>2
<1>10. ExitFlows'
  BY <1>2, <1>3, <1>8 DEF Inv, StampInv, ExitFlows
<1>11. DefinitionsApart'
  <2>1. \A x \in writes \cap done : exit[x] \in Nat \ {0} /\ exit[x] < next
    BY DEF Inv, StampInv, DefinitionsApart, LiveIn
  <2>2. \A x, y \in writes \cap done : exit[x] = exit[y] => x = y
    BY DEF Inv, StampInv, DefinitionsApart
  <2>3. \A x \in writes \cap (done \cup {b}) :
            exit'[x] \in Nat \ {0} /\ exit'[x] < next'
    BY <2>1, <1>2, <1>4, <1>8
  <2>4. \A x, y \in writes \cap (done \cup {b}) :
            exit'[x] = exit'[y] => x = y
    BY <2>1, <2>2, <1>4, <1>8
  <2> QED
    BY <2>3, <2>4, <1>2, <1>3 DEF DefinitionsApart, LiveIn
<1>12. StampMayReachRead'
  <2>1. ASSUME NEW x \in done \cup {b}, NEW u, u = entry'[x], u # Merge
        PROVE  Reaches(u, x)'
    <3>1. x \in Blocks /\ Reaches(u, x)
      <4>1. CASE x = b
        BY <2>1, <4>1, <1>1, <1>8, AgreedReaches DEF v
      <4>2. CASE x \in done
        BY <2>1, <4>2, <1>8 DEF Inv, StampInv, StampMayReachRead, TypeOK
      <4> QED
        BY <4>1, <4>2
    <3> QED
      BY <3>1, ReachesKept
  <2> QED
    BY <2>1, <1>3 DEF StampMayReachRead
<1> QED
  BY <1>6, <1>7, <1>9, <1>10, <1>11, <1>12 DEF Inv, StampInv

LEMMA Invariance == Spec => []Inv
<1>1. Inv /\ [Next]_vars => Inv'
  <2> SUFFICES ASSUME Inv, [Next]_vars PROVE Inv'
    OBVIOUS
  <2>1. CASE Visit
    BY <2>1, VisitKnownKeepsInv, VisitNewKeepsInv
  <2>2. CASE Rename
    BY <2>2, RenameKeepsInv
  <2>3. CASE UNCHANGED vars
    <3>1. TypeOK'
      BY <2>3 DEF vars, Inv, TypeOK, done
    <3>2. OrderInv'
      BY <2>3 DEF vars, Inv, OrderInv, OrderInjective, EntryFirst,
         OrderConnected
    <3>3. NextFits' /\ ExitFlows' /\ DefinitionsApart'
      BY <2>3 DEF vars, Inv, StampInv, done, NextFits, ExitFlows,
         DefinitionsApart
    <3>4. StampMayReachRead'
      BY <2>3 DEF vars, Inv, StampInv, done, StampMayReachRead, Reaches,
         FlowsInto, ClosedUnderFlow
    <3> QED
      BY <3>1, <3>2, <3>3, <3>4 DEF Inv, StampInv
  <2> QED
    BY <2>1, <2>2, <2>3 DEF Next, Done
<1> QED
  BY InitInv, <1>1, PTL DEF Spec

-----------------------------------------------------------------------------
(* FIX-087 on every control-flow graph: no two definitions of a register share *)
(* a version.                                                                  *)
THEOREM VersionsInjective == Spec => []DefinitionsApart
BY Invariance, PTL DEF Inv, StampInv

(* On every control-flow graph, irreducible ones included, a read is never     *)
(* stamped with a definition that cannot reach it.                             *)
THEOREM StampsReach == Spec => []StampMayReachRead
BY Invariance, PTL DEF Inv, StampInv

(* Fewer definitions than a slot id can tell apart: the slots are injective.   *)
THEOREM SlotsInjective == Spec => []SlotsKeepVersionsApart
<1>1. Inv => SlotsKeepVersionsApart
  <2> SUFFICES ASSUME Inv, next <= SlotWidth - 2, NEW b \in done, NEW c \in done,
                      Slot(exit[b]) = Slot(exit[c])
               PROVE  exit[b] = exit[c]
    BY DEF SlotsKeepVersionsApart
  <2>1. next \in Nat /\ SlotWidth \in Nat
    BY WidthAssumption DEF Inv, TypeOK
  <2>2. \A d \in done : exit[d] # Merge =>
            /\ exit[d] \in Nat /\ exit[d] < SlotWidth - 2
            /\ Slot(exit[d]) = exit[d]
    <3> SUFFICES ASSUME NEW d \in done, exit[d] # Merge
                 PROVE  /\ exit[d] \in Nat /\ exit[d] < SlotWidth - 2
                        /\ Slot(exit[d]) = exit[d]
      OBVIOUS
    <3>1. exit[d] \in Nat /\ exit[d] < next
      BY DEF Inv, StampInv, NextFits, TypeOK, Versions
    <3>2. exit[d] \in 0..(SlotWidth - 1) /\ SlotWidth > 0
      BY <2>1, <3>1
    <3>3. exit[d] % SlotWidth = exit[d]
      BY <3>2, <2>1
    <3> QED
      BY <2>1, <3>1, <3>3 DEF Slot
  <2> QED
    BY <2>1, <2>2 DEF Slot
<1> QED
  BY <1>1, Invariance, PTL

-----------------------------------------------------------------------------
(* The traversal. What has been ordered and the worklist hold the entry and    *)
(* every successor of an ordered block, and nothing the entry does not lead to. *)
Known == SetOf(order) \cup SetOf(worklist)
KnownInv == /\ Entry \in Known
            /\ \A b \in SetOf(order) : SetOf(succ[b]) \subseteq Known
            /\ \A b \in Known : Reachable(b)

LEMMA SetOfAppend ==
    ASSUME NEW s \in Seq(Blocks), NEW x \in Blocks
    PROVE  SetOf(Append(s, x)) = SetOf(s) \cup {x}
<1>1. /\ Len(s) \in Nat /\ DOMAIN s = 1..Len(s)
      /\ DOMAIN Append(s, x) = 1..(Len(s) + 1)
      /\ Append(s, x)[Len(s) + 1] = x
      /\ \A k \in 1..Len(s) : Append(s, x)[k] = s[k]
  OBVIOUS
<1>2. \A k : k \in 1..(Len(s) + 1) <=> k \in 1..Len(s) \/ k = Len(s) + 1
  BY <1>1
<1> QED
  BY <1>1, <1>2 DEF SetOf

LEMMA SetOfConcat ==
    ASSUME NEW s \in Seq(Blocks), NEW t \in Seq(Blocks)
    PROVE  SetOf(s \o t) = SetOf(s) \cup SetOf(t)
<1> DEFINE m == Len(s)
           n == Len(t)
           both == s \o t
<1>1. /\ m \in Nat /\ n \in Nat /\ DOMAIN s = 1..m
      /\ DOMAIN t = 1..n /\ DOMAIN both = 1..(m + n)
  OBVIOUS
<1>2. /\ \A k \in 1..m : both[k] = s[k]
      /\ \A k \in 1..n : both[m + k] = t[k]
  OBVIOUS
<1> HIDE DEF m, n, both
<1>3. \A k : k \in 1..(m + n) <=> k \in 1..m \/ (\E j \in 1..n : k = m + j)
  <2>1. \A k \in 1..(m + n) : k \notin 1..m => k - m \in 1..n /\ k = m + (k - m)
    BY <1>1
  <2>2. \A j \in 1..n : m + j \in 1..(m + n)
    BY <1>1
  <2>3. 1..m \subseteq 1..(m + n)
    BY <1>1
  <2> QED
    BY <2>1, <2>2, <2>3
<1>4. SetOf(both) = {both[k] : k \in 1..(m + n)}
  BY <1>1 DEF SetOf
<1>5. SetOf(s) = {s[k] : k \in 1..m} /\ SetOf(t) = {t[k] : k \in 1..n}
  BY <1>1 DEF SetOf
<1>6. SetOf(both) \subseteq SetOf(s) \cup SetOf(t)
  <2> SUFFICES ASSUME NEW k \in 1..(m + n)
               PROVE  both[k] \in SetOf(s) \cup SetOf(t)
    BY <1>4
  <2>1. CASE k \in 1..m
    BY <2>1, <1>2, <1>5
  <2>2. CASE \E j \in 1..n : k = m + j
    BY <2>2, <1>2, <1>5
  <2> QED
    BY <2>1, <2>2, <1>3
<1>7. SetOf(s) \subseteq SetOf(both) /\ SetOf(t) \subseteq SetOf(both)
  <2>1. \A k \in 1..m : k \in 1..(m + n) /\ s[k] = both[k]
    BY <1>2, <1>3
  <2>2. \A j \in 1..n : m + j \in 1..(m + n) /\ t[j] = both[m + j]
    BY <1>2, <1>3
  <2> QED
    BY <2>1, <2>2, <1>4, <1>5
<1>8. SetOf(both) = SetOf(s) \cup SetOf(t)
  BY <1>6, <1>7
<1> QED
  BY <1>8 DEF both

(* A visit adds the successors of the block it takes, and nothing else.       *)
LEMMA VisitKnown ==
    ASSUME Inv, Visit
    PROVE  LET b == Pop.block IN
           /\ b \in Known
           /\ b \in SetOf(order) => SetOf(order)' = SetOf(order) /\ Known' = Known
           /\ b \notin SetOf(order) =>
                 /\ SetOf(order)' = SetOf(order) \cup {b}
                 /\ Known' = Known \cup SetOf(succ[b])
<1>0. PICK b : b = Pop.block
  OBVIOUS
<1>1. /\ worklist \in Seq(Blocks) /\ order \in Seq(Blocks) /\ b \in Blocks
      /\ Pop.rest \in Seq(Blocks) /\ succ[b] \in Seq(Blocks)
      /\ Len(Pop.rest) = Len(worklist) - 1 /\ Len(worklist) \in Nat \ {0}
      /\ \A k \in DOMAIN Pop.rest : Pop.rest[k] = worklist[k]
  BY <1>0, PopTyped
<1>2. SetOf(worklist) = SetOf(Pop.rest) \cup {b}
  <2>1. worklist[Len(worklist)] = b
    BY <1>0 DEF Pop
  <2>2. /\ DOMAIN worklist = 1..Len(worklist)
        /\ DOMAIN Pop.rest = 1..(Len(worklist) - 1)
    BY <1>1
  <2>3. \A k : k \in 1..Len(worklist)
                 <=> k \in 1..(Len(worklist) - 1) \/ k = Len(worklist)
    BY <1>1
  <2> QED
    BY <1>1, <2>1, <2>2, <2>3 DEF SetOf
<1>3. ASSUME b \in SetOf(order)
      PROVE  SetOf(order)' = SetOf(order) /\ Known' = Known
  <2>1. order' = order /\ worklist' = Pop.rest
    BY <1>0, <1>3 DEF Visit
  <2> QED
    BY <1>2, <1>3, <2>1 DEF Known, SetOf
<1>4. ASSUME b \notin SetOf(order)
      PROVE  /\ SetOf(order)' = SetOf(order) \cup {b}
             /\ Known' = Known \cup SetOf(succ[b])
  <2>1. order' = Append(order, b) /\ worklist' = Pop.rest \o succ[b]
    BY <1>0, <1>4 DEF Visit
  <2>2. SetOf(order)' = SetOf(order) \cup {b}
    <3>1. SetOf(order') = SetOf(order) \cup {b}
      BY <1>1, <2>1, SetOfAppend
    <3> QED
      BY <3>1 DEF SetOf
  <2>3. SetOf(worklist)' = SetOf(Pop.rest) \cup SetOf(succ[b])
    <3>1. SetOf(worklist') = SetOf(Pop.rest) \cup SetOf(succ[b])
      BY <1>1, <2>1, SetOfConcat
    <3> QED
      BY <3>1 DEF SetOf
  <2>4. SetOf(order') = SetOf(order)' /\ SetOf(worklist') = SetOf(worklist)'
    BY DEF SetOf
  <2>5. Known' = Known \cup SetOf(succ[b])
    BY <1>2, <2>2, <2>3, <2>4 DEF Known
  <2> QED
    BY <2>2, <2>5
<1>5. b \in Known
  BY <1>2 DEF Known
<1>6. /\ b \in SetOf(order) => SetOf(order)' = SetOf(order) /\ Known' = Known
      /\ b \notin SetOf(order) => /\ SetOf(order)' = SetOf(order) \cup {b}
                                 /\ Known' = Known \cup SetOf(succ[b])
  BY <1>3, <1>4
<1> QED
  BY <1>0, <1>5, <1>6

LEMMA KnownInvStep == Inv /\ KnownInv /\ [Next]_vars => KnownInv'
<1> SUFFICES ASSUME Inv, KnownInv, [Next]_vars PROVE KnownInv'
  OBVIOUS
<1>1. CASE Visit
  <2> DEFINE b == Pop.block
  <2>1. /\ b \in Known
        /\ b \in SetOf(order) => SetOf(order)' = SetOf(order) /\ Known' = Known
        /\ b \notin SetOf(order) =>
              /\ SetOf(order)' = SetOf(order) \cup {b}
              /\ Known' = Known \cup SetOf(succ[b])
    BY <1>1, VisitKnown
  <2>2. succ' = succ
    BY <1>1 DEF Visit
  <2>3. \A x : Reachable(x)' <=> Reachable(x)
    BY <2>2 DEF Reachable, SetOf
  <2>4. \A x : SetOf(succ[x])' = SetOf(succ[x])
    BY <2>2 DEF SetOf
  <2>5. ASSUME NEW x \in SetOf(succ[b]) PROVE Reachable(x)
    <3>1. Reachable(b)
      BY <2>1 DEF KnownInv
    <3> HIDE DEF b
    <3> QED
      BY <2>5, <3>1 DEF Reachable
  <2> HIDE DEF b
  <2> QED
    BY <2>1, <2>3, <2>4, <2>5 DEF KnownInv
<1>2. CASE Rename \/ UNCHANGED vars
  <2>1. UNCHANGED <<succ, worklist, order>>
    BY <1>2 DEF Rename, vars
  <2> QED
    BY <2>1 DEF KnownInv, Known, SetOf, Reachable
<1> QED
  BY <1>1, <1>2 DEF Next, Done

ReachableRenamed == Finished => done = {b \in Blocks : Reachable(b)}

(* When the pass is over, the blocks it has renamed are those the entry leads  *)
(* to: no reachable block keeps its registers unstamped, and no unreachable    *)
(* one is touched.                                                             *)
THEOREM RenamesWhatIsReachable == Spec => []ReachableRenamed
<1>1. Init => KnownInv
  <2> SUFFICES ASSUME Init PROVE KnownInv
    OBVIOUS
  <2>1. SetOf(worklist) = {Entry} /\ SetOf(order) = {}
    <3>1. worklist = <<Entry>> /\ order = <<>>
      BY DEF Init
    <3> QED
      BY <3>1 DEF SetOf
  <2> QED
    BY <2>1 DEF KnownInv, Known, Reachable
<1>2. Inv /\ KnownInv => ReachableRenamed
  <2> SUFFICES ASSUME Inv, KnownInv, Finished
               PROVE  done = {b \in Blocks : Reachable(b)}
    BY DEF ReachableRenamed
  <2>1. Known = SetOf(order)
    <3>1. worklist = <<>>
      BY DEF Finished
    <3>2. SetOf(worklist) = {}
      BY <3>1 DEF SetOf
    <3> QED
      BY <3>2 DEF Known
  <2>2. done = SetOf(order) /\ SetOf(order) \subseteq Blocks
    <3>1. order \in Seq(Blocks) /\ DOMAIN order = 1..Len(order)
      BY DEF Inv, TypeOK
    <3>2. done = {order[i] : i \in 1..Len(order)}
      BY DEF Inv, TypeOK, Finished
    <3> QED
      BY <3>1, <3>2 DEF SetOf
  <2>3. \A b \in Blocks : Reachable(b) => b \in SetOf(order)
    BY <2>1, <2>2 DEF KnownInv, Reachable
  <2> QED
    BY <2>1, <2>2, <2>3 DEF KnownInv
<1> QED
  BY Invariance, KnownInvStep, <1>1, <1>2, PTL DEF Spec

-----------------------------------------------------------------------------
(* What the pass still has to do when no terminator has more than k            *)
(* successors: blocks to take off the worklist, blocks to order, each of       *)
(* which may put k more there, and blocks to rename.                          *)
WorkLeft(k) == Len(worklist) + (k + 1) * (Cardinality(Blocks) - Len(order))
               + (Cardinality(Blocks) - renamed)
WorkBounded(k) == WorkLeft(k) \in 0..(k + 2) * Cardinality(Blocks) + 1
PassAdvances(k) == [][Visit \/ Rename => WorkLeft(k)' < WorkLeft(k)]_vars

(* No block is listed twice, so the order is no longer than the function.     *)
OrderFits == /\ Len(order) \in Nat /\ Len(worklist) \in Nat
             /\ Len(order) <= Cardinality(Blocks)
             /\ renamed \in 0..Len(order)

LEMMA BlocksCounted == Cardinality(Blocks) \in Nat
BY BlocksAssumption, FS_CardinalityType

LEMMA OrderWithinBlocks == Inv => OrderFits
<1> SUFFICES ASSUME Inv PROVE OrderFits
  OBVIOUS
<1>1. /\ order \in Seq(Blocks) /\ worklist \in Seq(Blocks)
      /\ renamed \in 0..Len(order)
  BY DEF Inv, TypeOK
<1>2. Len(order) \in Nat /\ DOMAIN order = 1..Len(order) /\ Len(worklist) \in Nat
  BY <1>1
<1>3. order \in [1..Len(order) -> Blocks]
  BY <1>1
<1>4. order \in Injection(1..Len(order), Blocks)
  BY <1>2, <1>3 DEF Inv, OrderInv, OrderInjective, Injection, IsInjective
<1>5. Cardinality(1..Len(order)) = Len(order)
  <2>1. 1 \in Int /\ Len(order) \in Int
    BY <1>2
  <2>2. Cardinality(1..Len(order))
          = IF 1 > Len(order) THEN 0 ELSE Len(order) - 1 + 1
    BY <2>1, FS_Interval
  <2> QED
    BY <1>2, <2>2
<1>6. Cardinality(1..Len(order)) <= Cardinality(Blocks)
  BY <1>4, BlocksAssumption, FS_Injection
<1> QED
  BY <1>1, <1>2, <1>5, <1>6 DEF OrderFits

LEMMA OneFewer ==
    ASSUME NEW k \in Nat, NEW d \in Nat \ {0}
    PROVE  (k + 1) * (d - 1) = (k + 1) * d - (k + 1) /\ (k + 1) * d \in Nat
OBVIOUS

LEMMA VisitAdvances ==
    ASSUME Inv, OrderFits, OrderFits', Visit, NEW k \in Nat, \A s \in Successors : Len(s) <= k
    PROVE  WorkLeft(k)' < WorkLeft(k)
<1>1. PICK b : b = Pop.block
  OBVIOUS
<1>2. PICK n : n = Cardinality(Blocks)
  OBVIOUS
<1>3. /\ n \in Nat /\ Len(order) \in Nat /\ Len(order) <= n
      /\ renamed \in Nat /\ renamed <= n /\ Len(worklist) \in Nat
  BY <1>2, BlocksCounted DEF OrderFits
<1>4. renamed' = renamed /\ Len(Pop.rest) = Len(worklist) - 1
  BY PopTyped
<1>5. CASE b \in SetOf(order)
  <2>1. order' = order /\ worklist' = Pop.rest
    BY <1>1, <1>5 DEF Visit
  <2>2. PICK rest : rest = (k + 1) * (n - Len(order))
    OBVIOUS
  <2>3. n - Len(order) \in Nat
    BY <1>3
  <2>4. rest \in Nat
    BY <2>2, <2>3
  <2>5. /\ WorkLeft(k) = Len(worklist) + rest + (n - renamed)
        /\ WorkLeft(k)' = Len(worklist) - 1 + rest + (n - renamed)
    BY <1>2, <1>4, <2>1, <2>2 DEF WorkLeft
  <2> QED
    BY <1>3, <2>4, <2>5
<1>6. CASE b \notin SetOf(order)
  <2>1. order' = Append(order, b) /\ worklist' = Pop.rest \o succ[b]
    BY <1>1, <1>6 DEF Visit
  <2>2. Len(order') = Len(order) + 1
    BY <2>1, PopTyped
  <2>3. Len(order') <= n
    <3>1. Len(order') <= Cardinality(Blocks)
      BY DEF OrderFits
    <3> QED
      BY <1>2, <3>1
  <2>4. Len(worklist') <= Len(worklist) - 1 + k /\ Len(worklist') \in Nat
    <3>1. succ[b] \in Successors /\ Len(succ[b]) <= k /\ Len(succ[b]) \in Nat
      BY <1>1, PopTyped DEF Inv, TypeOK
    <3>2. Len(worklist') = Len(Pop.rest) + Len(succ[b])
      BY <1>1, <2>1, PopTyped
    <3> QED
      BY <1>3, <1>4, <3>1, <3>2
  <2>5. PICK d : d = n - Len(order)
    OBVIOUS
  <2>6. d \in Nat \ {0} /\ n - Len(order') = d - 1
    BY <1>3, <2>2, <2>3, <2>5
  <2>7. (k + 1) * (d - 1) = (k + 1) * d - (k + 1) /\ (k + 1) * d \in Nat
    BY <2>6, OneFewer
  <2>8. /\ WorkLeft(k) = Len(worklist) + (k + 1) * d + (n - renamed)
        /\ WorkLeft(k)' = Len(worklist') + (k + 1) * (d - 1) + (n - renamed)
    BY <1>2, <1>4, <2>5, <2>6 DEF WorkLeft
  <2> QED
    BY <1>3, <2>4, <2>7, <2>8
<1> QED
  BY <1>5, <1>6

LEMMA RenameAdvances ==
    ASSUME OrderFits, Rename, NEW k \in Nat
    PROVE  WorkLeft(k)' < WorkLeft(k)
<1>1. renamed' = renamed + 1 /\ UNCHANGED <<worklist, order>>
  BY DEF Rename
<1>2. PICK rest : rest = (k + 1) * (Cardinality(Blocks) - Len(order))
  OBVIOUS
<1>3. rest \in Nat
  <2>1. Cardinality(Blocks) - Len(order) \in Nat
    BY BlocksCounted DEF OrderFits
  <2> QED
    BY <1>2, <2>1
<1> QED
  BY <1>1, <1>2, <1>3, BlocksCounted DEF WorkLeft, OrderFits

(* On every control-flow graph the pass comes to an end: each block taken off  *)
(* the worklist and each block renamed leaves less to do, and there is no more *)
(* of it than k + 2 steps for a block and one. PassEnds is this with fairness. *)
THEOREM PassTerminates ==
    ASSUME NEW k \in Nat, \A s \in Successors : Len(s) <= k
    PROVE  Spec => []WorkBounded(k) /\ PassAdvances(k)
<1> DEFINE Counted == WorkLeft(k) \in Nat
<1>1. Init => Len(worklist) = 1 /\ Len(order) = 0 /\ renamed = 0
  BY DEF Init
<1>2. OrderFits => Counted
  <2> SUFFICES ASSUME OrderFits PROVE WorkLeft(k) \in Nat
    OBVIOUS
  <2>1. Cardinality(Blocks) - Len(order) \in Nat /\ Cardinality(Blocks) - renamed \in Nat
    BY BlocksCounted DEF OrderFits
  <2>2. (k + 1) * (Cardinality(Blocks) - Len(order)) \in Nat
    BY <2>1
  <2> QED
    BY <2>1, <2>2 DEF WorkLeft, OrderFits
<1>3. Init => WorkBounded(k)
  <2> SUFFICES ASSUME Init PROVE WorkBounded(k)
    OBVIOUS
  <2>1. PICK n \in Nat : n = Cardinality(Blocks)
    BY BlocksCounted
  <2>2. n - 0 = n
    BY <2>1
  <2>3. WorkLeft(k) = 1 + (k + 1) * n + n
    BY <1>1, <2>1, <2>2 DEF WorkLeft
  <2>4. PICK rest : rest = (k + 1) * n
    OBVIOUS
  <2>5. rest \in Nat /\ (k + 2) * n = rest + n
    BY <2>1, <2>4
  <2>6. WorkLeft(k) = 1 + rest + n
    BY <2>3, <2>4
  <2>7. WorkLeft(k) \in 0..(rest + n) + 1
    BY <2>1, <2>5, <2>6
  <2> QED
    BY <2>1, <2>5, <2>7 DEF WorkBounded
<1>4. /\ Inv /\ OrderFits /\ OrderFits' /\ WorkBounded(k) /\ [Next]_vars
      /\ Counted'
      => WorkBounded(k)'
  <2> SUFFICES ASSUME Inv, OrderFits, OrderFits', WorkBounded(k), [Next]_vars,
                      Counted'
               PROVE  WorkBounded(k)'
    OBVIOUS
  <2>1. PICK most \in Nat : most = (k + 2) * Cardinality(Blocks) + 1
    BY BlocksCounted
  <2>2. WorkLeft(k) \in 0..most
    BY <2>1 DEF WorkBounded
  <2>3. CASE Visit
    <3>1. WorkLeft(k)' < WorkLeft(k)
      BY <2>3, VisitAdvances
    <3> QED
      BY <2>1, <2>2, <3>1 DEF WorkBounded
  <2>4. CASE Rename
    <3>1. WorkLeft(k)' < WorkLeft(k)
      BY <2>4, RenameAdvances
    <3> QED
      BY <2>1, <2>2, <3>1 DEF WorkBounded
  <2>5. CASE UNCHANGED vars
    <3>1. WorkLeft(k)' = WorkLeft(k)
      BY <2>5 DEF vars, WorkLeft
    <3> QED
      BY <2>1, <2>2, <3>1 DEF WorkBounded
  <2> QED
    BY <2>3, <2>4, <2>5 DEF Next, Done
<1>5. Inv /\ OrderFits /\ OrderFits' /\ [Next]_vars
        => [Visit \/ Rename => WorkLeft(k)' < WorkLeft(k)]_vars
  BY VisitAdvances, RenameAdvances
<1> HIDE DEF Counted
<1> QED
  BY Invariance, OrderWithinBlocks, <1>2, <1>3, <1>4, <1>5, PTL
     DEF Spec, PassAdvances

-----------------------------------------------------------------------------
(* A block is stamped once: what it reads on entry and what it hands on do not *)
(* change while the rest of the function is renamed.                           *)
StampsAreFinal ==
    [][\A b \in done : /\ b \in done'
                       /\ entry'[b] = entry[b] /\ exit'[b] = exit[b]]_vars

LEMMA StampsKept ==
    Inv /\ [Next]_vars =>
        \A b \in done : b \in done' /\ entry'[b] = entry[b] /\ exit'[b] = exit[b]
<1> SUFFICES ASSUME Inv, [Next]_vars, NEW x \in done
             PROVE  x \in done' /\ entry'[x] = entry[x] /\ exit'[x] = exit[x]
  OBVIOUS
<1>1. CASE Visit
  BY <1>1 DEF Visit, done
<1>2. CASE Rename
  <2>1. order[renamed + 1] \notin done
    BY <1>2, NextBlock
  <2> QED
    BY <1>2, <2>1 DEF Rename, done
<1>3. CASE UNCHANGED vars
  BY <1>3 DEF vars, done
<1> QED
  BY <1>1, <1>2, <1>3 DEF Next, Done

(* The worklist never brings a block back to be renamed again, so HelixLowToMid *)
(* finds the stamps under which successors were reconciled.                    *)
THEOREM StampedOnce == Spec => StampsAreFinal
<1>1. Inv /\ [Next]_vars =>
        [\A b \in done : /\ b \in done'
                         /\ entry'[b] = entry[b] /\ exit'[b] = exit[b]]_vars
  BY StampsKept
<1> QED
  BY <1>1, Invariance, PTL DEF Spec, StampsAreFinal

-----------------------------------------------------------------------------
(* Numbering has no gaps: the versions given out are 1 to next - 1, one for    *)
(* each writing block renamed so far.                                          *)
Dense == /\ {exit[b] : b \in writes \cap done} = 1..(next - 1)
         /\ next = 1 + Cardinality(writes \cap done)

LEMMA DenseStep == Inv /\ Inv' /\ Dense /\ [Next]_vars => Dense'
<1> SUFFICES ASSUME Inv, Inv', Dense, [Next]_vars PROVE Dense'
  OBVIOUS
<1>1. CASE Rename
  <2>1. PICK b : b = order[renamed + 1]
    OBVIOUS
  <2>2. /\ b \in Blocks /\ b \notin done /\ done' = done \cup {b}
        /\ writes' = writes
        /\ \A x \in done : exit'[x] = exit[x]
        /\ b \in writes => exit'[b] = next
        /\ next' = IF b \in writes THEN next + 1 ELSE next
    BY <1>1, <2>1, NextBlock DEF Rename, done
  <2>3. next \in Nat \ {0}
    BY DEF Inv, TypeOK
  <2>4. CASE b \in writes
    <3>1. writes' \cap done' = (writes \cap done) \cup {b}
      BY <2>2, <2>4
    <3>2. {exit'[x] : x \in writes' \cap done'} = 1..(next' - 1)
      <4>1. {exit'[x] : x \in writes' \cap done'}
              = {exit[x] : x \in writes \cap done} \cup {next}
        BY <2>2, <2>4, <3>1
      <4>2. 1..(next' - 1) = 1..(next - 1) \cup {next}
        BY <2>2, <2>3, <2>4
      <4> QED
        BY <4>1, <4>2 DEF Dense
    <3>3. next' = 1 + Cardinality(writes' \cap done')
      <4>1. IsFiniteSet(writes \cap done)
        <5>1. writes \cap done \subseteq Blocks
          BY DEF Inv, TypeOK
        <5> QED
          BY <5>1, BlocksAssumption, FS_Subset
      <4>2. Cardinality((writes \cap done) \cup {b})
              = Cardinality(writes \cap done) + 1
        BY <4>1, <2>2, FS_AddElement
      <4>3. Cardinality(writes \cap done) \in Nat
        BY <4>1, FS_CardinalityType
      <4>4. Cardinality(writes' \cap done') = Cardinality(writes \cap done) + 1
        BY <4>2, <3>1
      <4> QED
        BY <4>3, <4>4, <2>2, <2>4 DEF Dense
    <3> QED
      BY <3>2, <3>3 DEF Dense
  <2>5. CASE b \notin writes
    <3>1. writes' \cap done' = writes \cap done /\ next' = next
      BY <2>2, <2>5
    <3>2. \A x \in writes \cap done : exit'[x] = exit[x]
      BY <2>2
    <3> QED
      BY <3>1, <3>2 DEF Dense
  <2> QED
    BY <2>4, <2>5
<1>2. CASE Visit \/ UNCHANGED vars
  <2>1. UNCHANGED <<writes, next, exit>>
    BY <1>2 DEF Visit, vars
  <2> QED
    BY <2>1 DEF Dense, done
<1> QED
  BY <1>1, <1>2 DEF Next, Done

LEMMA Numbered == Spec => []Dense
<1>1. Init => Dense
  <2> SUFFICES ASSUME Init PROVE Dense
    OBVIOUS
  <2>1. writes \cap done = {} /\ next = 1
    BY DEF Init, NotRenamed, done
  <2>2. Cardinality({}) = 0
    BY FS_EmptySet
  <2> QED
    BY <2>1, <2>2 DEF Dense
<1> QED
  BY <1>1, DenseStep, Invariance, PTL DEF Spec

SlotsApart ==
    \A b, c \in done : Slot(exit[b]) = Slot(exit[c]) => exit[b] = exit[c]

(* A register has as many versions as there are writes and no more; with the   *)
(* writes of a block taken as one, as everywhere here, no two versions share a *)
(* slot in a function of at most SlotWidth - 3 blocks (65533 for slot ids of   *)
(* 16 bits), whatever its graph.                                               *)
THEOREM SmallFunctionsKeepSlots ==
    ASSUME Cardinality(Blocks) <= SlotWidth - 3
    PROVE  Spec => [](Dense /\ SlotsApart)
<1>1. Inv /\ Dense => next <= SlotWidth - 2
  <2> SUFFICES ASSUME Inv, Dense PROVE next <= SlotWidth - 2
    OBVIOUS
  <2>1. writes \cap done \subseteq Blocks
    BY DEF Inv, TypeOK
  <2>2. /\ IsFiniteSet(writes \cap done)
        /\ Cardinality(writes \cap done) <= Cardinality(Blocks)
    BY <2>1, BlocksAssumption, FS_Subset
  <2>3. Cardinality(writes \cap done) \in Nat /\ Cardinality(Blocks) \in Nat
    BY <2>2, BlocksCounted, FS_CardinalityType
  <2> QED
    BY <2>2, <2>3, WidthAssumption DEF Dense
<1>2. (Inv /\ Dense) /\ SlotsKeepVersionsApart => Dense /\ SlotsApart
  BY <1>1 DEF SlotsKeepVersionsApart, SlotsApart
<1> QED
  BY <1>2, Invariance, Numbered, SlotsInjective, PTL


-----------------------------------------------------------------------------
(* When a stamp is exact. What a read is stamped with depends on the order: a  *)
(* predecessor contributes its version if it stands earlier, and the entry     *)
(* value if it does not, be it the end of a loop or the other side of a branch. *)
Before(p, s) == \E i, j \in DOMAIN order : i < j /\ order[i] = p /\ order[j] = s

EdgeInv ==
    \A s \in done : \A p \in Preds(s) :
        \/ entry[s] = Merge
        \/ entry[s] = IF p \in done /\ Before(p, s) THEN exit[p] ELSE LiveIn

(* A part of the function that is entered only from its own earlier blocks.    *)
OrderedFirst(region) ==
    \A s \in region : \A p \in Preds(s) : p \in region /\ Before(p, s)

(* Positions of renamed blocks are the first ones, and are theirs alone.       *)
LEMMA RenamedBefore ==
    ASSUME Inv, NEW s \in done, NEW p \in Blocks, Before(p, s)
    PROVE  p \in done /\ p # s
<1>1. PICK i \in DOMAIN order, j \in DOMAIN order :
          i < j /\ order[i] = p /\ order[j] = s
  BY DEF Before
<1>2. /\ order \in Seq(Blocks) /\ Len(order) \in Nat /\ renamed \in 0..Len(order)
      /\ DOMAIN order = 1..Len(order)
      /\ done = {order[k] : k \in 1..renamed}
  BY DEF Inv, TypeOK
<1>3. PICK k \in 1..renamed : order[k] = s
  BY <1>2
<1>4. k = j
  BY <1>1, <1>2, <1>3 DEF Inv, OrderInv, OrderInjective
<1>5. i \in 1..renamed
  BY <1>1, <1>2, <1>3, <1>4
<1>6. p # s
  BY <1>1, <1>2 DEF Inv, OrderInv, OrderInjective
<1> QED
  BY <1>1, <1>2, <1>5, <1>6

(* Ordering more blocks changes nothing before a block that is renamed.        *)
LEMMA BeforeKept ==
    ASSUME Inv, Visit, NEW s \in done, NEW p
    PROVE  Before(p, s)' <=> Before(p, s)
<1>1. /\ order \in Seq(Blocks) /\ Len(order) \in Nat
      /\ DOMAIN order = 1..Len(order) /\ s \in SetOf(order)
  <2>1. /\ order \in Seq(Blocks) /\ renamed \in 0..Len(order)
        /\ done = {order[k] : k \in 1..renamed}
    BY DEF Inv, TypeOK
  <2>2. Len(order) \in Nat /\ DOMAIN order = 1..Len(order)
    BY <2>1
  <2> QED
    BY <2>1, <2>2 DEF SetOf
<1>2. CASE Pop.block \in SetOf(order)
  <2>1. order' = order
    BY <1>2 DEF Visit
  <2> QED
    BY <2>1 DEF Before
<1>3. CASE Pop.block \notin SetOf(order)
  <2>1. PICK b : b = Pop.block
    OBVIOUS
  <2>2. order' = Append(order, b) /\ b \in Blocks /\ b # s
    BY <1>1, <1>3, <2>1, PopTyped DEF Visit
  <2>3. /\ DOMAIN order' = 1..(Len(order) + 1)
        /\ order'[Len(order) + 1] = b
        /\ \A k \in 1..Len(order) : order'[k] = order[k]
    BY <1>1, <2>2
  <2>4. ASSUME Before(p, s) PROVE Before(p, s)'
    <3>1. \A k \in 1..Len(order) : k \in 1..(Len(order) + 1)
      BY <1>1
    <3> QED
      BY <1>1, <2>3, <2>4, <3>1 DEF Before
  <2>5. ASSUME Before(p, s)' PROVE Before(p, s)
    <3>1. PICK i \in 1..(Len(order) + 1), j \in 1..(Len(order) + 1) :
              i < j /\ order'[i] = p /\ order'[j] = s
      BY <2>3, <2>5 DEF Before
    <3>2. j # Len(order) + 1
      BY <2>2, <2>3, <3>1
    <3>3. i \in 1..Len(order) /\ j \in 1..Len(order)
      BY <1>1, <3>1, <3>2
    <3> QED
      BY <1>1, <2>3, <3>1, <3>3 DEF Before
  <2> QED
    BY <2>4, <2>5
<1> QED
  BY <1>2, <1>3

LEMMA RenameKeepsEdges == ASSUME Inv, Inv', EdgeInv, Rename PROVE EdgeInv'
<1>1. PICK b : b = order[renamed + 1]
  OBVIOUS
<1>2. /\ b \in Blocks /\ b \notin done /\ done' = done \cup {b}
      /\ UNCHANGED <<succ, writes, order>>
      /\ \A x \in done : exit'[x] = exit[x] /\ entry'[x] = entry[x]
      /\ entry'[b] = VersionAtEntry(b)
  BY <1>1, NextBlock DEF Rename, done
<1>3. \A p, s : Before(p, s)' <=> Before(p, s)
  BY <1>2 DEF Before
<1>4. \A s : Preds(s)' = Preds(s) /\ Preds(s) \subseteq Blocks
  BY <1>2 DEF Preds, SetOf
<1>5. ASSUME NEW s \in done, NEW p \in Preds(s)
      PROVE  \/ entry'[s] = Merge
             \/ entry'[s] = IF p \in done' /\ Before(p, s)' THEN exit'[p] ELSE LiveIn
  <2>1. CASE Before(p, s)
    <3>1. p \in done
      BY <1>4, <1>5, <2>1, RenamedBefore
    <3> QED
      BY <1>2, <1>3, <1>5, <2>1, <3>1 DEF EdgeInv
  <2>2. CASE ~Before(p, s)
    BY <1>2, <1>3, <1>5, <2>2 DEF EdgeInv
  <2> QED
    BY <2>1, <2>2
<1>6. ASSUME NEW p \in Preds(b), VersionAtEntry(b) # Merge
      PROVE  VersionAtEntry(b)
               = IF p \in done' /\ Before(p, b)' THEN exit'[p] ELSE LiveIn
  <2>1. Contribution(p) = VersionAtEntry(b) /\ p \in Blocks
    BY <1>2, <1>4, <1>6, VersionAtEntryAgreed
  <2>2. CASE p \in done
    <3>1. Before(p, b)
      <4>1. /\ order \in Seq(Blocks) /\ Len(order) \in Nat /\ renamed \in Nat
            /\ DOMAIN order = 1..Len(order) /\ renamed + 1 \in 1..Len(order)
            /\ done = {order[k] : k \in 1..renamed}
        BY NextBlock DEF Inv, TypeOK
      <4>2. PICK k \in 1..renamed : order[k] = p
        BY <2>2, <4>1
      <4>3. k \in DOMAIN order /\ renamed + 1 \in DOMAIN order /\ k < renamed + 1
        BY <4>1, <4>2
      <4> QED
        BY <1>1, <4>2, <4>3 DEF Before
    <3> QED
      BY <1>2, <1>3, <2>1, <2>2, <3>1 DEF Contribution
  <2>3. CASE p \notin done
    <3>1. ~(p \in done' /\ Before(p, b)')
      <4>1. CASE p \in done'
        <5>1. p = b
          BY <1>2, <2>3, <4>1
        <5>2. ~Before(b, b)
          <6>1. order \in Seq(Blocks) /\ DOMAIN order = 1..Len(order)
                /\ Len(order) \in Nat
            BY DEF Inv, TypeOK
          <6> QED
            BY <6>1 DEF Before, Inv, OrderInv, OrderInjective
        <5> QED
          BY <1>3, <5>1, <5>2
      <4> QED
        BY <4>1
    <3> QED
      BY <2>1, <2>3, <3>1 DEF Contribution
  <2> QED
    BY <2>2, <2>3
<1>7. \A s \in done' : \A p \in Preds(s)' :
          \/ entry'[s] = Merge
          \/ entry'[s] = IF p \in done' /\ Before(p, s)' THEN exit'[p] ELSE LiveIn
  BY <1>2, <1>4, <1>5, <1>6
<1> QED
  BY <1>7 DEF EdgeInv

LEMMA EdgesStamped == Spec => []EdgeInv
<1>1. Init => EdgeInv
  BY DEF Init, EdgeInv, NotRenamed, done
<1>2. Inv /\ Inv' /\ EdgeInv /\ [Next]_vars => EdgeInv'
  <2> SUFFICES ASSUME Inv, Inv', EdgeInv, [Next]_vars PROVE EdgeInv'
    OBVIOUS
  <2>1. CASE Visit
    <3>1. UNCHANGED <<succ, entry, exit>>
      BY <2>1 DEF Visit
    <3>2. done' = done /\ \A s : Preds(s)' = Preds(s)
      BY <3>1 DEF done, Preds, SetOf
    <3>3. \A s \in done : \A p : Before(p, s)' <=> Before(p, s)
      BY <2>1, BeforeKept
    <3> QED
      BY <3>1, <3>2, <3>3 DEF EdgeInv
  <2>2. CASE Rename
    BY <2>2, RenameKeepsEdges
  <2>3. CASE UNCHANGED vars
    BY <2>3 DEF vars, EdgeInv, done, Preds, SetOf, Before
  <2> QED
    BY <2>1, <2>2, <2>3 DEF Next, Done
<1> QED
  BY <1>1, <1>2, Invariance, PTL DEF Spec

EntryRead == Entry \in done => entry[Entry] = LiveIn

(* The entry block reads the live-in value.                                    *)
LEMMA EntryStamped == Spec => []EntryRead
<1>1. Init => EntryRead
  BY DEF Init, EntryRead, NotRenamed, done
<1>2. Inv /\ EntryRead /\ [Next]_vars => EntryRead'
  <2> SUFFICES ASSUME Inv, EntryRead, [Next]_vars PROVE EntryRead'
    OBVIOUS
  <2>1. CASE Rename
    <3>1. PICK b : b = order[renamed + 1]
      OBVIOUS
    <3>2. /\ b \notin done /\ done' = done \cup {b}
          /\ \A x \in done : entry'[x] = entry[x]
          /\ entry'[b] = VersionAtEntry(b)
      BY <2>1, <3>1, NextBlock DEF Rename, done
    <3> QED
      BY <3>2, EntryLiveIn DEF EntryRead
  <2>2. CASE Visit \/ UNCHANGED vars
    BY <2>2 DEF Visit, vars, EntryRead, done
  <2> QED
    BY <2>1, <2>2 DEF Next, Done
<1> QED
  BY <1>1, <1>2, Invariance, PTL DEF Spec

(* What a definition reaches in such a part is stamped with it or with the     *)
(* marker of a join.                                                          *)
StampsExactIn(region) ==
    \A b \in region :
        /\ Reaches(LiveIn, b) => entry[b] \in {LiveIn, Merge}
        /\ \A w \in writes \cap done :
              Reaches(exit[w], b) => entry[b] \in {exit[w], Merge}

LEMMA FlowIsStamped ==
    ASSUME Inv, EdgeInv, NEW region \in SUBSET done, OrderedFirst(region),
           NEW v, NEW b \in region, Reaches(v, b),
           FlowsInto(v) \subseteq {s \in Blocks : s \in region =>
                                                     entry[s] \in {v, Merge}}
    PROVE  entry[b] \in {v, Merge}
<1> DEFINE stamped == {s \in Blocks : s \in region => entry[s] \in {v, Merge}}
<1>1. done \subseteq Blocks
  BY DEF Inv, TypeOK
<1>2. ClosedUnderFlow(stamped)
  <2> SUFFICES ASSUME NEW p \in stamped, p \notin writes,
                      NEW s \in SetOf(succ[p]), s \in region
               PROVE  s \in Blocks /\ entry[s] \in {v, Merge}
    <3>1. \A p \in stamped : SetOf(succ[p]) \subseteq Blocks
      <4> SUFFICES ASSUME NEW p \in Blocks PROVE SetOf(succ[p]) \subseteq Blocks
        OBVIOUS
      <4>1. succ[p] \in Seq(Blocks \ {Entry})
        BY BlocksAssumption DEF Inv, TypeOK
      <4> QED
        BY <4>1 DEF SetOf
    <3> QED
      BY <3>1 DEF ClosedUnderFlow
  <2>1. p \in Preds(s)
    BY DEF Preds
  <2>2. p \in region /\ Before(p, s)
    BY <2>1 DEF OrderedFirst
  <2>3. entry[p] \in {v, Merge} /\ exit[p] = entry[p]
    BY <2>2 DEF Inv, StampInv, ExitFlows
  <2>4. entry[s] = Merge \/ entry[s] = exit[p]
    BY <2>1, <2>2 DEF EdgeInv
  <2> QED
    BY <1>1, <2>3, <2>4
<1>3. stamped \in SUBSET Blocks /\ FlowsInto(v) \subseteq stamped
  OBVIOUS
<1> HIDE DEF stamped
<1>4. b \in stamped
  BY <1>2, <1>3 DEF Reaches
<1> QED
  BY <1>4 DEF stamped

ExactWhereOrdered ==
    \A region \in SUBSET done : OrderedFirst(region) => StampsExactIn(region)

(* In every part of a function in which each block comes after all of its      *)
(* predecessors, a read that a definition or the entry value may reach is      *)
(* stamped with it, or with the join marker: with StampsReach, no other value  *)
(* is ever read there. What can go wrong needs an edge against the order.      *)
THEOREM StampsExact == Spec => []ExactWhereOrdered
<1>1. Inv /\ EdgeInv /\ EntryRead => ExactWhereOrdered
  <2> SUFFICES ASSUME Inv, EdgeInv, EntryRead, NEW region \in SUBSET done,
                      OrderedFirst(region), NEW b \in region
               PROVE  /\ Reaches(LiveIn, b) => entry[b] \in {LiveIn, Merge}
                      /\ \A w \in writes \cap done :
                            Reaches(exit[w], b) => entry[b] \in {exit[w], Merge}
    BY DEF ExactWhereOrdered, StampsExactIn
  <2>1. ASSUME Reaches(LiveIn, b) PROVE entry[b] \in {LiveIn, Merge}
    <3>1. Entry \in region => entry[Entry] \in {LiveIn, Merge}
      BY DEF EntryRead
    <3>2. FlowsInto(LiveIn) \subseteq
              {s \in Blocks : s \in region => entry[s] \in {LiveIn, Merge}}
      BY <3>1, BlocksAssumption DEF FlowsInto
    <3> QED
      BY <2>1, <3>2, FlowIsStamped
  <2>2. ASSUME NEW w \in writes \cap done, Reaches(exit[w], b)
        PROVE  entry[b] \in {exit[w], Merge}
    <3>1. exit[w] # LiveIn
          /\ \A d \in writes \cap done : exit[d] = exit[w] => d = w
      BY DEF Inv, StampInv, DefinitionsApart
    <3>2. FlowsInto(exit[w]) = SetOf(succ[w])
      BY <3>1 DEF FlowsInto
    <3>3. ASSUME NEW s \in SetOf(succ[w])
          PROVE  s \in Blocks /\ (s \in region => entry[s] \in {exit[w], Merge})
      <4>1. w \in Blocks /\ succ[w] \in Seq(Blocks \ {Entry})
        BY BlocksAssumption DEF Inv, TypeOK
      <4>2. s \in Blocks
        BY <3>3, <4>1 DEF SetOf
      <4>3. ASSUME s \in region PROVE entry[s] \in {exit[w], Merge}
        <5>1. w \in Preds(s) /\ Before(w, s)
          BY <3>3, <4>1, <4>3 DEF Preds, OrderedFirst
        <5> QED
          BY <4>3, <5>1 DEF EdgeInv
      <4> QED
        BY <4>2, <4>3
    <3> QED
      BY <2>2, <3>2, <3>3, FlowIsStamped
  <2> QED
    BY <2>1, <2>2
<1> QED
  BY <1>1, Invariance, EdgesStamped, EntryStamped, PTL

JoinsMergedWhereOrdered ==
    \A region \in SUBSET done :
        OrderedFirst(region) =>
            \A b \in region, w \in writes \cap done :
                Reaches(LiveIn, b) /\ Reaches(exit[w], b) => entry[b] = Merge

(* LoopReadsAreMerged, which the whole function does not keep, does hold in     *)
(* such a part: a read that the incoming value and a write may both reach is    *)
(* stamped with the join marker.                                               *)
THEOREM JoinsMerged == Spec => []JoinsMergedWhereOrdered
<1>1. Inv /\ ExactWhereOrdered => JoinsMergedWhereOrdered
  BY DEF Inv, StampInv, DefinitionsApart, ExactWhereOrdered, StampsExactIn,
         JoinsMergedWhereOrdered
<1> QED
  BY <1>1, Invariance, StampsExact, PTL

=============================================================================

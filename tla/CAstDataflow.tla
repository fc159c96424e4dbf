---------------------------- MODULE CAstDataflow ----------------------------
(***************************************************************************)
(* The passes of CAstOptimizer.cpp that ask where a variable is read: dead *)
(* stores, copies, variables read before they are written, placeholders.   *)
(* None of them builds a control-flow graph: they walk the statement lists *)
(* backwards or in text order, and what they make of branches, loops,      *)
(* switches and jumps is what this module is about.  So do the passes over *)
(* scf_r<n>, the variables the structurer invents for the results of a     *)
(* region, which stand at the end.                                         *)
(***************************************************************************)
EXTENDS CAstPasses
CONSTANTS Temporaries,   \* var_<n>, v<n>, t<n>, ...: names copies are made of
          StackOffset,   \* stack variable -> its offset in the frame
          MaxSimpleDepth,    \* deepest expression that is inlined
          MaxTotalDepth,     \* deepest expression inlining may build
          MaxRounds,         \* rounds of a pass that repeats itself
          MaxIterations      \* the same, of the passes over selectors, and a loop's liveness

StackLocals == DOMAIN StackOffset

-----------------------------------------------------------------------------
(***************************************************************************)
(* eliminateDeadStores                                                     *)
(***************************************************************************)
RECURSIVE LiveBefore(_, _), LiveInLoop(_, _, _)

\* the variables live before the list when those of out are live after it
LiveBefore(list, out) ==
  FoldRight(LAMBDA s, live :
              IF Sets(s)
                THEN IF HasCall(Value(s)) \/ Name(s) \in live
                       THEN (live \ {Name(s)}) \cup VarsOf(Value(s)) ELSE live
              ELSE IF IsLoop(s)
                THEN LiveInLoop(s, live \cup ReadBy(s), live \cup ReadBy(s))
              ELSE ReadBy(s) \cup (IF s.k = "if" THEN {} ELSE live)
                     \cup UNION {LiveBefore(s.arms[i], live) : i \in DOMAIN s.arms},
            list, out)

LiveInLoop(s, base, live) ==
  LET next == base \cup LiveBefore(s.arms[1], live)
  IN IF next = live THEN live ELSE LiveInLoop(s, base, next)

\* what dseStmtList makes of one statement, from the last one back
DseStep(s, acc) ==
  LET killed == (acc.live \ {Name(s)}) \cup VarsOf(Value(s))
      keep(live) == [live |-> live, kept |-> <<s>> \o acc.kept]
  IN IF ~Defines(s) THEN keep(LiveBefore(<<s>>, acc.live))
     ELSE IF Name(s) \in Synthetic THEN keep(acc.live \cup VarsOf(Value(s)))
     ELSE IF HasCall(Value(s)) THEN keep(killed)
     ELSE IF ~Plain(s) THEN keep(killed \cup {Name(s)})
     ELSE IF Name(s) \in acc.live THEN keep(killed)
     ELSE acc

DseStmtList(list, seed) ==
  FoldRight(DseStep, list, [live |-> seed, kept |-> <<>>]).kept

\* collectLoopReads does not count the selector of a switch
CollectLoopReads(list) ==
  UNION {ReadBy(s) : s \in {t \in ToSet(Flat(list)) : t.k # "switch"}}

\* Mutant: an arm is scanned as if nothing followed the branch
DseSeedOfTheArm(s, body) ==
  IF IsLoop(s) THEN CollectLoopReads(s.arms[1]) ELSE {}

DseSeed(s, body) ==
  CASE s.k = "if" -> CollectLoopReads(body)
    [] IsLoop(s)  -> CollectLoopReads(s.arms[1])
    [] OTHER      -> {}

\* the lists one level below the function's own, each with its seed
EliminateDeadStores(body, protected) ==
  LET top == DseStmtList(body, protected)
  IN FoldLeft(LAMBDA b, i :
                [b EXCEPT ![i].arms = [j \in DOMAIN @ |->
                   DseStmtList(@[j], DseSeed(b[i], b))]],
              top, [i \in DOMAIN top |-> i])

-----------------------------------------------------------------------------
(***************************************************************************)
(* propagateCopies                                                         *)
(***************************************************************************)
RECURSIVE Depth(_)
Depth(e) == IF e.x = <<>> THEN 1
            ELSE 1 + Depth(CHOOSE d \in ToSet(e.x) :
                             \A f \in ToSet(e.x) : Depth(f) <= Depth(d))

IsSimple(e) == ~Observable(e) /\ Depth(e) <= MaxSimpleDepth

\* countVarRefs: the address a plain assignment stores to is not counted
RefCount(list, n) ==
  LET of(s) == FlattenSeq([i \in DOMAIN s.x |->
                 IF i = 1 /\ Plain(s) THEN <<>> ELSE SubExprs(s.x[i])])
      flat == Flat(list)
  IN FoldLeft(LAMBDA c, s : c + Len(SelectSeq(of(s), LAMBDA d : d.k = "var" /\ d.n = n)),
              0, flat)

\* the function's own list defines n once, by an expression worth inlining
Definitions(body) ==
  LET defs(n) == {i \in DOMAIN body : Sets(body[i]) /\ Name(body[i]) = n}
      once == {n \in Temporaries \ StackLocals :
                 /\ Cardinality(defs(n)) = 1
                 /\ \A i \in defs(n) : IsSimple(Value(body[i]))}
  IN [n \in once |-> Value(body[CHOOSE i \in defs(n) : TRUE])]

RECURSIVE Substitute(_, _, _)
\* e with the active definitions of the names in single put in place
Substitute(e, active, depth) ==
  IF e.k = "var"
    THEN IF e.n \in DOMAIN active /\ depth + Depth(active[e.n]) <= MaxTotalDepth
           THEN Substitute(active[e.n], active, depth + 1) ELSE e
    ELSE [e EXCEPT !.x = [i \in DOMAIN @ |-> Substitute(@[i], active, depth + 1)]]

RestrictTo(f, S) == [n \in DOMAIN f \cap S |-> f[n]]
\* Mutant: a definition outlives the assignment of what it was made from
KillName(active, names) == RestrictTo(active, DOMAIN active \ names)

Kill(active, names) ==
  RestrictTo(active, {n \in DOMAIN active :
                        ({n} \cup VarsOf(active[n])) \cap names = {}})

RECURSIVE CopyProp(_, _, _)
\* the list with copies put in place; only names read once are inlined.  A
\* nested list starts with no active definition and takes the active ones of
\* the enclosing list for what its own assignments define.
CopyProp(list, defs, single) ==
  FoldLeft(
    LAMBDA acc, s :
      LET setBelow == UNION {SetIn(s.arms[i]) : i \in DOMAIN s.arms}
          active == IF IsLoop(s) THEN Kill(acc.active, setBelow) ELSE acc.active
          inPlace == RestrictTo(active, single)
          t == [s EXCEPT
                  !.x = [i \in DOMAIN @ |-> IF i = 1 /\ IsAssign(s) THEN @[i]
                                            ELSE Substitute(@[i], inPlace, 0)],
                  !.arms = [i \in DOMAIN @ |->
                              CopyProp(@[i], active, single).list]]
          left == IF Defines(s) THEN Kill(active, {Name(s)})
                  ELSE Kill(active, setBelow)
      IN [list |-> Append(acc.list, t),
          active |-> IF Sets(s) /\ Name(s) \in DOMAIN defs
                       THEN [n \in DOMAIN left \cup {Name(s)} |->
                               IF n = Name(s) THEN defs[n] ELSE left[n]]
                       ELSE left],
    [list |-> <<>>, active |-> <<>>], list)

PropagateCopies(body) ==
  LET defs == Definitions(body)
      single == {n \in Temporaries : RefCount(body, n) = 1}
      new == CopyProp(body, defs, single).list
      inlined == {n \in single : RefCount(new, n) = 0}
  IN Without(new, LAMBDA s : Defines(s) /\ Name(s) \in inlined)

-----------------------------------------------------------------------------
(***************************************************************************)
(* Stores nothing reads, and the variables read first.                     *)
(***************************************************************************)
RECURSIVE RemoveDead(_, _), RemoveGloballyDeadRounds(_, _)

\* the call-free plain stores to variables outside reads are removed
RemoveDead(list, reads) ==
  Without([i \in DOMAIN list |->
             [list[i] EXCEPT !.arms = [j \in DOMAIN @ |-> RemoveDead(@[j], reads)]]],
          LAMBDA s : Sets(s) /\ Name(s) \notin reads /\ ~HasCall(Value(s)))

RemoveGloballyDeadRounds(body, rounds) ==
  LET next == RemoveDead(body, ReadIn(body))
  IN IF rounds = 0 \/ next = body THEN body
     ELSE RemoveGloballyDeadRounds(next, rounds - 1)

RemoveGloballyDeadStores(body) == RemoveGloballyDeadRounds(body, MaxRounds)

RECURSIVE DeadBeforeReturn(_, _)
\* the stores right before a return whose variable is counted nowhere
DeadBeforeReturn(list, body) ==
  LET dead(s) == /\ Defines(s) /\ Value(s).k # "call"
                 /\ RefCount(body, Name(s)) = 0
      gone == {i \in DOMAIN list :
                 \E r \in i + 1 .. Len(list) :
                   /\ list[r].k = "return"
                   /\ \A j \in i .. r - 1 : dead(list[j])}
      kept == SelectSeq([i \in DOMAIN list |-> i], LAMBDA i : i \notin gone)
  IN [i \in DOMAIN kept |->
        [list[kept[i]] EXCEPT
           !.arms = [j \in DOMAIN @ |-> DeadBeforeReturn(@[j], body)]]]

RemoveDeadStoresBeforeReturn(body) == DeadBeforeReturn(body, body)

RECURSIVE FirstUses(_, _)
\* in text order: the names seen, and those of them that were read first
FirstUses(list, start) ==
  LET read(acc, names) == [seen |-> acc.seen \cup names,
                           first |-> acc.first \cup (names \ acc.seen)]
      below(acc, s) == FoldLeft(LAMBDA a, arm : FirstUses(arm, a), acc, s.arms)
  IN FoldLeft(LAMBDA acc, s :
                IF s.k = "dowhile" THEN read(below(acc, s), ReadBy(s))
                ELSE LET after == below(read(acc, ReadBy(s)), s)
                     IN IF Defines(s)
                          THEN [after EXCEPT !.seen = @ \cup {Name(s)}]
                          ELSE after,
              start, list)

\* the locals that are declared with a zero from now on
ReadBeforeWrite(fn) ==
  LET params == ToSet(fn.params)
  IN FirstUses(fn.body, [seen |-> params, first |-> {}]).first
       \cap ToSet(fn.locals)

RECURSIVE DropNullDerefStores(_, _, _)
\* drop the stores through a zero local that no earlier line assigns
DropNullDerefStores(list, zero, start) ==
  FoldLeft(
    LAMBDA acc, s :
      LET below == FoldLeft(LAMBDA a, arm :
                              LET d == DropNullDerefStores(arm, zero, a.set)
                              IN [set |-> d.set, arms |-> Append(a.arms, d.list)],
                            [set |-> acc.set, arms |-> <<>>], s.arms)
          through == IF IsAssign(s) /\ IsDeref(Target(s))
                       THEN Uncast(Target(s).x[1]) ELSE Num(0)
      IN IF through.k = "var" /\ through.n \in zero \ acc.set THEN acc
         ELSE [list |-> Append(acc.list, [s EXCEPT !.arms = below.arms]),
               set |-> below.set \cup (IF Defines(s) THEN {Name(s)} ELSE {})],
    [list |-> <<>>, set |-> start], list)

RemoveNullDerefPlaceholderStores(fn) ==
  DropNullDerefStores(fn.body, fn.zero, {}).list

-----------------------------------------------------------------------------
(***************************************************************************)
(* Selectors: which exit of a region was taken, and with which values.  A  *)
(* dispatcher on one becomes branches, chains of copies between them       *)
(* become one variable, stores nothing reads go, and a yes-or-no selector  *)
(* folds into the assignment it decides about.                             *)
(***************************************************************************)
Selectors(es) == VarsIn(es) \cap Results
IsSelectorStore(s) == Sets(s) /\ Name(s) \in Results
\* a plain copy from one selector to another
IsRoutingCopy(s) ==
  IsSelectorStore(s) /\ Value(s).k = "var" /\ Value(s).n \in Results

-----------------------------------------------------------------------------
(***************************************************************************)
(* dissolveExitDispatchers                                                 *)
(***************************************************************************)
StripTrailingBreak(arm) ==
  IF arm # <<>> /\ Last(arm) = Break THEN Front(arm) ELSE arm

CollapseDispatcher(s) ==
  LET cases == [i \in DOMAIN s.arms |-> StripTrailingBreak(s.arms[i])]
      chain == FoldRight(LAMBDA i, else :
                           <<If(Bin("==", Cond(s), Num(i - 1)), cases[i], else)>>,
                         [i \in 1 .. Len(cases) - 1 |-> i], Last(cases))
  IN IF s.k = "switch" /\ Cond(s).k = "var" /\ Cond(s).n \in Results
          /\ Len(cases) > 1
     THEN chain[1] ELSE s

DissolveDispatchersHere(list) ==
  [i \in DOMAIN list |-> CollapseDispatcher(list[i])]

-----------------------------------------------------------------------------
(***************************************************************************)
(* coalesceSelectorChains.  live is the set of selectors live before the   *)
(* statements walked so far, apart the pairs one of which is assigned      *)
(* while the other is live.                                                *)
(***************************************************************************)
RECURSIVE SelectorLiveness(_, _, _), SelectorLivenessInLoop(_, _, _, _, _)

SelectorLivenessStep(s, acc, all) ==
  LET copied == IF IsRoutingCopy(s) THEN {Value(s).n} ELSE {}
      uses   == Selectors(s.x)
      arms   == [i \in DOMAIN s.arms |->
                   SelectorLiveness(s.arms[i], acc.live, all)]
      loop   == SelectorLivenessInLoop(s, acc.live \cup uses,
                                       acc.live \cup uses, all, MaxIterations)
      inArms == UNION {arms[i].live : i \in DOMAIN arms}
      body   == SelectorLiveness(s.arms[1], loop, all)
  IN IF IsSelectorStore(s)
       THEN [live  |-> (acc.live \ {Name(s)}) \cup Selectors(<<Value(s)>>),
             apart |-> acc.apart \cup
                         {{Name(s), o} : o \in acc.live \ ({Name(s)} \cup copied)}]
     ELSE IF IsLoop(s)
       THEN [live  |-> IF s.k = "while" THEN loop ELSE body.live,
             apart |-> acc.apart \cup body.apart]
     ELSE [live  |-> CASE s.k = "goto"   -> acc.live \cup all
                       [] s.k = "if"     -> inArms \cup uses
                       [] OTHER          -> acc.live \cup inArms \cup uses,
           apart |-> acc.apart \cup UNION {arms[i].apart : i \in DOMAIN arms}]

SelectorLiveness(list, out, all) ==
  FoldRight(LAMBDA s, acc : SelectorLivenessStep(s, acc, all),
            list, [live |-> out, apart |-> {}])

SelectorLivenessInLoop(s, exit, live, all, rounds) ==
  LET next == exit \cup SelectorLiveness(s.arms[1], live, all).live
  IN IF rounds = 0 \/ next = live THEN live
     ELSE SelectorLivenessInLoop(s, exit, next, all, rounds - 1)

\* the selectors that become one variable, as a partition of them
CoalescedClasses(body) ==
  LET all    == NamesIn(body) \cap Results
      apart  == SelectorLiveness(body, {}, all).apart
      copies == SelectSeq(Flat(body), IsRoutingCopy)
      copiedTo(n) == {Name(c) : c \in {d \in ToSet(copies) : Value(d).n = n}}
      join(classes, c) ==
        LET of(n) == CHOOSE class \in classes : n \in class
            a == of(Name(c))
            b == of(Value(c).n)
        IN IF \/ Cardinality(copiedTo(Value(c).n)) # 1
              \/ \E pair \in apart : pair \cap a # {} /\ pair \cap b # {}
           THEN classes ELSE (classes \ {a, b}) \cup {a \cup b}
  IN FoldLeft(join, {{n} : n \in all}, copies)

\* Mutant: the declarations of a class stay, one for each of its names
CoalesceWithoutDeclarations(fn) ==
  LET classes == CoalescedClasses(fn.body)
      rep == [n \in UNION classes |->
                CHOOSE r \in CHOOSE c \in classes : n \in c : TRUE]
  IN [fn EXCEPT !.body = Renamed(@, rep),
                !.locals = [i \in DOMAIN @ |-> IF @[i] \in DOMAIN rep
                                                 THEN rep[@[i]] ELSE @[i]]]

\* the code keeps the smallest name of a class; which one is of no account
CoalesceSelectorChains(fn) ==
  LET classes == CoalescedClasses(fn.body)
      rep == [n \in UNION classes |->
                CHOOSE r \in CHOOSE c \in classes : n \in c : TRUE]
      named == [i \in DOMAIN fn.locals |->
                  IF fn.locals[i] \in DOMAIN rep THEN rep[fn.locals[i]]
                  ELSE fn.locals[i]]
      kept == SelectSeq([i \in DOMAIN named |-> i],
                LAMBDA i : ~(/\ named[i] \in Results
                             /\ \E j \in 1 .. i - 1 : named[j] = named[i]))
  IN [fn EXCEPT !.body = Renamed(@, rep),
                !.locals = [i \in DOMAIN kept |-> named[kept[i]]]]

-----------------------------------------------------------------------------
(***************************************************************************)
(* eliminateDeadSelectorStores                                             *)
(***************************************************************************)
RECURSIVE DeadSelectorDSE(_, _), EliminateDeadSelectorStoresRounds(_, _)

\* a list with a jump or a label is left alone and reads all it reads
DeadSelectorDSE(list, out) ==
  LET step(s, acc) ==
        LET inside == acc.live \cup (ReadIn(<<s>>) \cap Results)
            after  == IF IsLoop(s) THEN inside ELSE acc.live
            arms   == [i \in DOMAIN s.arms |-> DeadSelectorDSE(s.arms[i], after)]
            inArms == UNION {arms[i].live : i \in DOMAIN arms}
            keep(live) ==
              [live |-> live,
               kept |-> <<[s EXCEPT !.arms = [i \in DOMAIN arms |-> arms[i].kept]]>>
                        \o acc.kept]
        IN IF IsSelectorStore(s)
             THEN IF ~HasCall(Value(s)) /\ Name(s) \notin acc.live THEN acc
                  ELSE keep((acc.live \ {Name(s)}) \cup Selectors(<<Value(s)>>))
           ELSE keep(IF IsLoop(s) THEN inside
                     ELSE (IF s.k = "if" THEN {} ELSE acc.live)
                            \cup inArms \cup (ReadBy(s) \cap Results))
  IN IF LabelsIn(list) \cup GotosIn(list) # {}
       THEN [live |-> out \cup (ReadIn(list) \cap Results), kept |-> list]
     ELSE FoldRight(step, list, [live |-> out, kept |-> <<>>])

EliminateDeadSelectorStoresRounds(body, rounds) ==
  LET next == DeadSelectorDSE(body, {}).kept
  IN IF rounds = 0 \/ next = body THEN body
     ELSE EliminateDeadSelectorStoresRounds(next, rounds - 1)

EliminateDeadSelectorStores(body) ==
  EliminateDeadSelectorStoresRounds(body, MaxIterations)

-----------------------------------------------------------------------------
(***************************************************************************)
(* foldBooleanExitSelectors:                                               *)
(*   if (..) { t = a; sel = 1; } else sel = 0;  if (!sel) t = b;           *)
(* becomes                                                                 *)
(*   if (..) t = a; else t = b;                                            *)
(***************************************************************************)
Mentions(s, n) == n \in NamesIn(<<s>>)
SetsTo(s, n)   == Plain(s) /\ Uncast(Target(s)) = Var(n)

\* if (!sel) t = b, with a b that calls nothing
IsFinalizer(s) ==
  /\ s.k = "if" /\ s.arms[2] = <<>> /\ Len(s.arms[1]) = 1
  /\ Cond(s).k = "un" /\ Cond(s).n = "!"
  /\ Uncast(Cond(s).x[1]).k = "var" /\ Uncast(Cond(s).x[1]).n \in Results
  /\ LET fallback == s.arms[1][1] IN
     /\ Plain(fallback) /\ Uncast(Target(fallback)).k = "var"
     /\ ~HasCall(Value(fallback))
Decider(s) == Uncast(Cond(s).x[1]).n
Decided(s) == Uncast(Target(s.arms[1][1])).n

RECURSIVE Validate(_, _, _, _)
\* sel is 0 or 1 on every path of the list, and 1 only once t is assigned
Validate(list, sel, t, assigned) ==
  LET step(acc, s) ==
        LET value == Uncast(Value(s))
            arms  == [i \in 1 .. 2 |-> Validate(s.arms[i], sel, t, acc.assigned)]
        IN IF ~acc.valid THEN acc
           ELSE IF SetsTo(s, sel)
             THEN [acc EXCEPT
                     !.valid = value = Num(0) \/ (value = Num(1) /\ acc.assigned),
                     !.definite = TRUE, !.values = @ \cup {value}]
           ELSE IF s.k = "if"
             THEN [valid    |-> /\ sel \notin ReadBy(s)
                                /\ arms[1].valid /\ arms[2].valid,
                   definite |-> \/ acc.definite
                                \/ arms[1].definite /\ arms[2].definite,
                   assigned |-> arms[1].assigned /\ arms[2].assigned,
                   values   |-> acc.values \cup arms[1].values \cup arms[2].values]
           ELSE [acc EXCEPT !.valid = ~Mentions(s, sel),
                            !.assigned = @ \/ SetsTo(s, t)]
  IN FoldLeft(step, [valid |-> TRUE, definite |-> FALSE,
                     assigned |-> assigned, values |-> {}], list)

RECURSIVE DecideInPlace(_, _, _)
\* the list with fallback where sel = 0 was, and nothing where sel = 1 was
DecideInPlace(list, sel, fallback) ==
  FlattenSeq([i \in DOMAIN list |->
    LET s == list[i] IN
    IF SetsTo(s, sel)
      THEN IF Uncast(Value(s)) = Num(0) THEN <<fallback>> ELSE <<>>
    ELSE IF s.k = "if"
      THEN <<[s EXCEPT !.arms = [j \in 1 .. 2 |->
                                   DecideInPlace(@[j], sel, fallback)]]>>
    ELSE <<s>>])

\* the one statement that decides about body[i], the if before it
Producer(body, i) ==
  LET mentions == {j \in DOMAIN body \ {i} : Mentions(body[j], Decider(body[i]))}
  IN IF /\ Cardinality(mentions) = 1
        /\ \A j \in mentions :
             /\ j < i /\ body[j].k = "if"
             /\ LET v == Validate(<<body[j]>>, Decider(body[i]), Decided(body[i]),
                                  FALSE)
                IN v.valid /\ v.definite /\ v.values = {Num(0), Num(1)}
     THEN mentions ELSE {}

FoldBooleanExitSelectors(body) ==
  LET hits == {i \in DOMAIN body : IsFinalizer(body[i]) /\ Producer(body, i) # {}}
  IN IF hits = {} THEN body
     ELSE LET i == CHOOSE k \in hits : \A l \in hits : l <= k
              j == CHOOSE k \in Producer(body, i) : TRUE
          IN RemoveAt([body EXCEPT ![j] =
                         DecideInPlace(<<@>>, Decider(body[i]),
                                       body[i].arms[1][1])[1]], i)
=============================================================================

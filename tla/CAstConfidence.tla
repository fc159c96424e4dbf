--------------------------- MODULE CAstConfidence ---------------------------
(***************************************************************************)
(* The last step of the optimizer, reanalyzeConfidence of                  *)
(* CAstOptimizer.cpp: how much the engine says a reader may trust what is  *)
(* printed.  Blemishes cost points; a defect that makes the text wrong,    *)
(* looked for by DamningDefect.h in the final tree, caps the score at one  *)
(* half whatever else there is.  Points are counted in hundredths.         *)
(*                                                                         *)
(* The tree has no conditional expressions, no subscripts and no for loops *)
(* (see CAst); what is told from a type goes by the declared ones.         *)
(***************************************************************************)
EXTENDS CAstIdioms
CONSTANTS TypedNames,     \* parameters of a type other than a 64-bit integer
          PointerNames,   \* what is declared a pointer
          NumberNames,    \* what is declared an integer, a boolean or a float
          RegisterNamed,  \* rax, r8, rsp_4, ...
          OpcodeNames,    \* fp_<..>, loop_<..>, bit_scan_<..>, ...
          UnhandledCalls, \* __helix_unhandled_<..>
          Irreducible     \* loc_irr<..>

\* the variable an expression is, casts aside; none is called ""
PlainName(e) == IF Uncast(e).k = "var" THEN Uncast(e).n ELSE ""
Refers(e, name) == name \in VarsOf(e)
ZeroLiteral(e) == Uncast(e) = Num(0)

-----------------------------------------------------------------------------
(***************************************************************************)
(* What a condition is known to be, when the variables of zeros are 0.     *)
(***************************************************************************)
RECURSIVE KnownInteger(_, _)
\* the value of e, in a set, or none
KnownInteger(e, zeros) ==
  CASE e.k = "int" -> {e.v}
    [] e.k = "var" -> IF e.n \in zeros THEN {0} ELSE {}
    [] e.k = "un" /\ e.n = "!" ->
         {IF v = 0 THEN 1 ELSE 0 : v \in KnownInteger(e.x[1], zeros)}
    [] e.k = "cast" -> {v % 2^e.v : v \in KnownInteger(e.x[1], zeros)}
    [] OTHER -> {}

ProvablyZero(e, zeros)    == KnownInteger(e, zeros) = {0}
ProvablyNonzero(e, zeros) == KnownInteger(e, zeros) \notin {{}, {0}}

RECURSIVE LiveAssigned(_, _), AddressTaken(_)
\* what is assigned in a list, arms that are never taken left out
LiveAssigned(list, zeros) ==
  LET of(s) ==
        IF IsAssign(s) THEN {PlainName(Target(s))} \ {""}
        ELSE UNION {LiveAssigned(s.arms[j], zeros) :
                      j \in {i \in DOMAIN s.arms : s.k = "if" =>
                               IF i = 1 THEN ~ProvablyZero(Cond(s), zeros)
                               ELSE ~ProvablyNonzero(Cond(s), zeros)}}
  IN UNION {of(s) : s \in ToSet(list)}

\* switches are not looked into
AddressTaken(list) ==
  LET taken(e) == {PlainName(d.x[1]) :
                     d \in {c \in ToSet(SubExprs(e)) : c.k = "un" /\ c.n = "&"}}
      of(s) == UNION ({taken(s.x[i]) : i \in DOMAIN s.x} \cup
                      {AddressTaken(s.arms[j]) : j \in DOMAIN s.arms})
  IN UNION {of(s) : s \in {t \in ToSet(list) : t.k # "switch"}} \ {""}

-----------------------------------------------------------------------------
(***************************************************************************)
(* analyzeDefiniteAssignments.  A flow says what is assigned on every path *)
(* to a point, what may be on some, whether the point is reached, and      *)
(* whether a return or a read before it used a local that was not.  What   *)
(* about is constant in one function: the locals without an initializer,   *)
(* those of a scalar type, those whose address is taken, and the zeros.    *)
(***************************************************************************)
SupportsDefiniteAssignmentScan(list) ==
  \A s \in ToSet(Flat(list)) :
    s.k \in {"assign", "expr", "return", "if", "while", "dowhile"}

RECURSIVE ReadsUninitialized(_, _, _)
\* e reads one of the names; the operand && or || never reaches is not read
ReadsUninitialized(e, names, zeros) ==
  CASE e.k = "var" -> e.n \in names
    [] e.k = "un" /\ e.n = "&" -> FALSE
    [] e.k = "bin" ->
         \/ ReadsUninitialized(e.x[1], names, zeros)
         \/ /\ ~(e.n = "&&" /\ ProvablyZero(e.x[1], zeros))
            /\ ~(e.n = "||" /\ ProvablyNonzero(e.x[1], zeros))
            /\ ReadsUninitialized(e.x[2], names, zeros)
    [] OTHER -> \E i \in DOMAIN e.x : ReadsUninitialized(e.x[i], names, zeros)

CheckReads(flow, es, about) ==
  LET unset == about.scalars \ (flow.may \cup about.taken)
  IN [flow EXCEPT !.badRead =
        @ \/ \E i \in DOMAIN es : ReadsUninitialized(es[i], unset, about.zeros)]

\* Mutant: what one path assigns counts as assigned
JoinedAsUnion(a, b) ==
  LET bad(f) == [f EXCEPT !.badReturn = a.badReturn \/ b.badReturn,
                          !.badRead = a.badRead \/ b.badRead]
  IN CASE a.falls /\ b.falls -> bad([a EXCEPT !.set = @ \cup b.set,
                                              !.may = @ \cup b.may])
       [] a.falls /\ ~b.falls -> bad(a)
       [] OTHER -> bad(b)

\* two paths meet
Joined(a, b) ==
  LET bad(f) == [f EXCEPT !.badReturn = a.badReturn \/ b.badReturn,
                          !.badRead = a.badRead \/ b.badRead]
  IN CASE a.falls /\ b.falls -> bad([a EXCEPT !.set = @ \cap b.set,
                                              !.may = @ \cup b.may])
       [] a.falls /\ ~b.falls -> bad(a)
       [] OTHER -> bad(b)

RECURSIVE AnalyzeDefiniteAssignments(_, _, _)
\* the flow after a list, from the flow before it
AnalyzeDefiniteAssignments(list, before, about) ==
  LET through(s, f) ==
        LET in(j, g) == AnalyzeDefiniteAssignments(s.arms[j], g, about)
            cond == CheckReads(f, s.x, about)
            assigned == IF s.n = "" THEN {PlainName(Target(s))} \ {""} ELSE {}
            dead == ProvablyZero(Cond(s), about.zeros)
            certain == ProvablyNonzero(Cond(s), about.zeros)
        IN CASE s.k = "assign" ->
                  [CheckReads(f, IF Sets(s) THEN <<Value(s)>> ELSE s.x, about) EXCEPT
                     !.set = @ \cup assigned, !.may = @ \cup assigned]
             [] s.k = "expr" -> cond
             [] s.k = "return" ->
                  [cond EXCEPT
                     !.falls = FALSE,
                     !.badReturn = \/ @
                                   \/ /\ s.x # <<>>
                                      /\ PlainName(s.x[1]) \in
                                           about.unset \ (about.taken \cup f.set)]
             [] s.k = "while" ->
                  IF dead THEN cond
                  ELSE LET once == in(1, cond)
                       IN [once EXCEPT !.set = cond.set, !.falls = TRUE]
             [] s.k = "dowhile" ->
                  LET once == in(1, f)
                  IN IF once.falls THEN CheckReads(once, s.x, about) ELSE once
             [] s.k = "if" ->
                  IF dead THEN in(2, cond) ELSE IF certain THEN in(1, cond)
                  ELSE Joined(in(1, cond), in(2, cond))
  IN FoldLeft(LAMBDA f, s : IF f.falls THEN through(s, f) ELSE f, before, list)

\* the locals without an initializer that nothing live assigns, or not always
UninitializedUse(fn) ==
  LET unset == ToSet(fn.locals) \ fn.zero
      assigned == {PlainName(Target(s)) : s \in {t \in ToSet(Flat(fn.body)) : IsAssign(t)}}
      zeros == (ToSet(fn.locals) \cap fn.zero) \ assigned
      taken == AddressTaken(fn.body)
      returned == {PlainName(s.x[1]) :
                     s \in {t \in ToSet(Flat(fn.body)) : t.k = "return" /\ t.x # <<>>}}
      about == [unset |-> unset,
                scalars |-> unset \cap (NumberNames \cup PointerNames),
                taken |-> taken, zeros |-> zeros]
      initially == Declared(fn) \ unset
      flow == AnalyzeDefiniteAssignments(fn.body,
                [set |-> initially, may |-> initially, falls |-> TRUE,
                 badReturn |-> FALSE, badRead |-> FALSE], about)
  IN \/ (unset \cap returned) \ (taken \cup LiveAssigned(fn.body, zeros)) # {}
     \/ SupportsDefiniteAssignmentScan(fn.body) /\ (flow.badReturn \/ flow.badRead)

-----------------------------------------------------------------------------
(***************************************************************************)
(* Memory that is read or written at an address made from a null pointer.  *)
(***************************************************************************)
RECURSIVE NullDerived(_, _)
NullDerived(e, zeros) ==
  LET literal(d) == Uncast(d).k \in {"int", "addr"}
      sum == Uncast(e)
  IN \/ ZeroLiteral(e) \/ PlainName(e) \in zeros
     \/ /\ sum.k = "bin" /\ sum.n \in {"+", "-"}
        /\ \/ NullDerived(sum.x[1], zeros) /\ literal(sum.x[2])
           \/ sum.n = "+" /\ literal(sum.x[1]) /\ NullDerived(sum.x[2], zeros)

NullAccess(e, zeros) ==
  \E d \in ToSet(SubExprs(e)) :
    (IsDeref(d) \/ d.k = "field") /\ NullDerived(d.x[1], zeros)

RECURSIVE OrderedNullAccesses(_, _)
\* through a list: the variables that are zero, and whether memory at an
\* address made from one was accessed; a loop is followed through one round
OrderedNullAccesses(list, before) ==
  LET looks(es, st) ==
        [st EXCEPT !.hit = @ \/ \E i \in DOMAIN es : NullAccess(es[i], st.zeros)]
      both(st, ends) ==
        [zeros |-> {n \in st.zeros : \A i \in DOMAIN ends : n \in ends[i].zeros},
         hit   |-> st.hit \/ \E i \in DOMAIN ends : ends[i].hit]
      through(st, s) ==
        LET seen == looks(s.x, st)
            in(j) == OrderedNullAccesses(s.arms[j], seen)
            ends == [j \in DOMAIN s.arms |-> in(j)]
            name == PlainName(Target(s))
            zero == s.n = "" /\ \/ ZeroLiteral(Value(s))
                                \/ PlainName(Value(s)) \in st.zeros
            once == OrderedNullAccesses(s.arms[1], st)
        IN CASE s.k = "assign" /\ name # "" ->
                  [seen EXCEPT !.zeros = IF zero THEN @ \cup {name} ELSE @ \ {name}]
             [] s.k = "if" -> [both(seen, ends) EXCEPT !.zeros = ends[1].zeros \cap ends[2].zeros]
             [] s.k = "dowhile" -> both(st, <<looks(s.x, once)>>)
             [] s.k \in {"while", "switch"} -> both(seen, ends)
             [] OTHER -> seen
  IN FoldLeft(through, before, list)

LiteralNullAccess(fn) ==
  LET zeros == IF SupportsDefiniteAssignmentScan(fn.body)
                 THEN (ToSet(fn.locals) \cap fn.zero) \ AddressTaken(fn.body) ELSE {}
  IN OrderedNullAccesses(fn.body, [zeros |-> zeros, hit |-> FALSE]).hit

-----------------------------------------------------------------------------
(***************************************************************************)
(* The defects one can see in an expression, and those of the text.        *)
(***************************************************************************)
ExprsOf(list) == UNION {ToSet(FlattenSeq([i \in DOMAIN s.x |-> SubExprs(s.x[i])])) :
                          s \in ToSet(Flat(list))}

RECURSIVE UnhandledIn(_), UnhandledCF(_)
UnhandledIn(e) ==
  \/ e.k = "call" /\ e.n \in UnhandledCalls
  \/ e.k \in {"call", "cast", "un", "bin"} /\ \E i \in DOMAIN e.x : UnhandledIn(e.x[i])
\* neither the conditions of loops nor the selectors of switches are looked at
UnhandledCF(list) ==
  \E s \in ToSet(list) :
    \/ s.k \in {"assign", "expr", "return", "if"} /\ \E i \in DOMAIN s.x : UnhandledIn(s.x[i])
    \/ \E j \in DOMAIN s.arms : UnhandledCF(s.arms[j])

\* shifted by as many bits as the promoted operand has, or more
InvalidShiftCount(e) ==
  LET width == Width(e.x[1])
      by == Uncast(e.x[2])
  IN /\ e.k = "bin" /\ e.n \in {"<<", ">>"} /\ width > 0 /\ by.k = "int"
     /\ by.v \notin 0 .. (IF width > 32 THEN width ELSE 32) - 1

IsPointer(e) == e.k = "var" /\ e.n \in PointerNames
IsNumber(e)  == e.k \in {"cast", "int", "float"} \/ (e.k = "var" /\ e.n \in NumberNames)
InvalidPointerOperation(e) ==
  LET l == IsPointer(e.x[1])
      r == IsPointer(e.x[2])
      mixed(d) == IsNumber(d) /\ ~ZeroLiteral(d)
  IN /\ e.k = "bin"
     /\ \/ e.n \in {"*", "/", "<<", ">>", "&", "|", "^"} /\ (l \/ r)
        \/ e.n = "+" /\ l /\ r
        \/ e.n \in {"==", "!="} /\ ((l /\ mixed(e.x[2])) \/ (r /\ mixed(e.x[1])))
        \/ e.n \in {"<", "<=", ">", ">="} /\ l # r
InvalidPointerAssignment(s) ==
  /\ IsAssign(s) /\ IsPointer(Target(s))
  /\ IF s.n = "" THEN IsNumber(Value(s)) /\ ~ZeroLiteral(Value(s))
     ELSE s.n \notin {"+", "-", "++", "--"}

RECURSIVE UnreachableAfterReturn(_)
\* per list, the statements behind its first return
UnreachableAfterReturn(list) ==
  LET returns == {i \in DOMAIN list : list[i].k = "return"}
      first == CHOOSE i \in returns \cup {Len(list)} : \A j \in returns : i <= j
      below == FlattenSeq([i \in 1 .. first |-> list[i].arms])
  IN Len(list) - first
       + FoldLeft(LAMBDA n, arm : n + UnreachableAfterReturn(arm), 0, below)

DetectDamningDefects(fn) ==
  LET exprs == ExprsOf(fn.body)
      stmts == ToSet(Flat(fn.body))
  IN \/ \E e \in exprs : \/ e.k = "addr" /\ e.n = "leak"
                         \/ e.k = "call" /\ e.n = "__helix_unknown"
                         \/ InvalidShiftCount(e)
                         \/ InvalidPointerOperation(e)
     \/ \E s \in stmts : InvalidPointerAssignment(s)
     \/ UninitializedUse(fn)
     \/ (~\E s \in stmts : s.k = "return") /\ GotosIn(fn.body) \cap Irreducible # {}
     \/ UnhandledCF(fn.body)
     \/ UnreachableAfterReturn(fn.body) > 0
     \/ fn.body \in {<<>>, <<ReturnVoid>>}
     \/ LiteralNullAccess(fn)

-----------------------------------------------------------------------------
(***************************************************************************)
(* The score.                                                              *)
(***************************************************************************)
Least(a, b) == IF a < b THEN a ELSE b
\* each of n blemishes costs some points, all together at most the limit
Costs(n, each, limit) == Least(n * each, limit)
Tally(list, counts(_)) == Len(SelectSeq(list, counts))

RECURSIVE FlatOutsideSwitches(_), Reached(_)
FlatOutsideSwitches(list) ==
  FlattenSeq([i \in DOMAIN list |->
    <<list[i]>> \o IF list[i].k = "switch" THEN <<>>
                   ELSE FlattenSeq([j \in DOMAIN list[i].arms |->
                                      FlatOutsideSwitches(list[i].arms[j])])])
\* in text order, each list up to its first return
Reached(list) ==
  LET returns == {i \in DOMAIN list : list[i].k = "return"}
      first == CHOOSE i \in returns \cup {Len(list)} : \A j \in returns : i <= j
  IN FlattenSeq([i \in 1 .. first |->
       <<list[i]>> \o FlattenSeq([j \in DOMAIN list[i].arms |-> Reached(list[i].arms[j])])])

\* the statement is a call, or takes the result of one, of one of the names
CallsOneOf(s, names) ==
  \/ s.k = "expr" /\ s.x[1].k = "call" /\ s.x[1].n \in names
  \/ IsAssign(s) /\ Value(s).k = "call" /\ Value(s).n \in names
NativeCalls == {"__native_" \o n : n \in Mnemonics} \cup Mnemonics \cup DOMAIN SemanticMap

\* x = x, x |= x, x += 0
IdentityNoOp(s) ==
  LET name == PlainName(Target(s))
      same == PlainName(Value(s)) = name
  IN /\ IsAssign(s) /\ name # ""
     /\ \/ s.n \in {"", "|", "&"} /\ same
        \/ s.n \in {"+", "-", "|", "^"} /\ ZeroLiteral(Value(s))

RECURSIVE SelfWalk(_, _)
\* what the fields of name, and the memory they lead to, hold
SelfWalk(e, name) ==
  (IsDeref(e) \/ e.k = "field") /\ (e.x[1] = Var(name) \/ SelfWalk(e.x[1], name))

SuspiciousSelfRef(s) ==
  LET name == PlainName(Target(s))
  IN /\ IsAssign(s) /\ name # "" /\ s.n \notin {"", "++", "--"} /\ ~IdentityNoOp(s)
     /\ Refers(Value(s), name) /\ ~SelfWalk(Value(s), name)

\* *x = .. where x is declared as zero and not yet assigned
NullDerefPlaceholders(fn) ==
  LET list == Reached(fn.body)
      through(s) == IF IsDeref(Target(s)) THEN PlainName(Target(s).x[1]) ELSE ""
  IN Cardinality({i \in DOMAIN list :
       /\ IsAssign(list[i]) /\ through(list[i]) \in fn.zero
       /\ ~\E j \in 1 .. i - 1 :
             IsAssign(list[j]) /\ PlainName(Target(list[j])) = through(list[i])})

\* for names without a declaration or given one to compile; typed parameters help
NameDeduction(fn) ==
  LET undeclared == Cardinality(Undeclared(fn))
      made == Cardinality(fn.synthesized \cap ToSet(fn.locals))
      typed == Tally(fn.params, LAMBDA n : n \in TypedNames)
  IN (IF undeclared = 0 THEN 0 ELSE Least(600 + 400 * undeclared, 4000))
       + (IF made = 0 THEN 0 ELSE Least(300 + 250 * made, 2500))
       - (IF typed = 0 THEN 0 ELSE (500 * typed) \div Len(fn.params))

Deduction(fn) ==
  LET all == Flat(fn.body)
      natives == Tally(all, LAMBDA s : CallsOneOf(s, NativeCalls))
      opcodes == Tally(FlatOutsideSwitches(fn.body),
                       LAMBDA s : CallsOneOf(s, OpcodeNames))
      empties == Tally(FlatOutsideSwitches(fn.body),
                       LAMBDA s : s.k = "if" /\ s.arms = <<<<>>, <<>>>>)
      reached == Reached(fn.body)
  IN Costs(natives, 300, 3000)
       + Costs(fn.outOfTableCalls, 300, 1500)
       + Costs(Tally(fn.locals, LAMBDA n : n \in RegisterNamed), 200, 2000)
       + Costs(empties, 200, 1000)
       + (IF Len(all) <= 3 /\ natives + opcodes > 0 THEN 4000 ELSE 0)
       + NameDeduction(fn)
       + Costs(UnreachableAfterReturn(fn.body), 500, 4000)
       + Costs(NullDerefPlaceholders(fn), 1000, 3000)
       + Costs(Tally(reached, SuspiciousSelfRef), 500, 2000)
       + Costs(Tally(reached, IdentityNoOp), 300, 1000)

\* what the tree no longer shows; defects says which a function has
CapAtHalf == {"opaquePostCallReads", "unqualifiedInstrumentationCalls",
              "incompleteAbiCalls", "hasDamningHonestyDefect"}

ConfidenceScore(fn) ==
  LET left == 10000 - Deduction(fn)
      points == IF left < 0 THEN 0 ELSE Least(left, 10000)
      suspicious == \E i \in DOMAIN Reached(fn.body) :
                      SuspiciousSelfRef(Reached(fn.body)[i])
  IN IF "registryMissHonestFailure" \in fn.defects THEN 0
     ELSE IF fn.defects \cap CapAtHalf # {} \/ DetectDamningDefects(fn)
       THEN Least(points, 5000)
     ELSE IF suspicious THEN Least(points, 9500) ELSE points

ReanalyzeConfidence(fn) ==
  [fn EXCEPT !.synthesized = @ \cap ToSet(fn.locals),
             !.confidenceScore = ConfidenceScore(fn)]
=============================================================================

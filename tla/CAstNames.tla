------------------------------ MODULE CAstNames ------------------------------
(***************************************************************************)
(* The passes of CAstOptimizer.cpp that give variables names and keep the  *)
(* declarations in step with them, and the one that drops jumps to labels  *)
(* that are gone.  A function is its parameters, the variables it          *)
(* declares, those of them declared with a zero, its body, and whether it  *)
(* was flagged as having lost a jump.                                      *)
(*                                                                         *)
(* The passes share two walks, and neither of them looks at the expression *)
(* a switch selects on.                                                    *)
(***************************************************************************)
EXTENDS CAst, TLC
CONSTANTS Registers,     \* rax, ebx_2, _promoted_1, ...: names to get rid of
          ReturnNames,   \* callee -> what its result is called
          ParamNames,    \* callee -> what its arguments are called
          SuffixOf,      \* param_<i>_<n> -> param_<i>
          CodeLabels     \* loc_<address> -> address

Declared(fn) == ToSet(fn.params) \cup ToSet(fn.locals)

RECURSIVE ApplyRename(_, _)
ApplyRename(list, new) ==
  [i \in DOMAIN list |->
     [list[i] EXCEPT
        !.x = IF list[i].k = "switch" THEN @
              ELSE [j \in DOMAIN @ |-> RenamedIn(@[j], new)],
        !.arms = [j \in DOMAIN @ |-> ApplyRename(@[j], new)]]]

CollectVarNames(list) ==
  UNION {VarsIn(s.x) : s \in {t \in ToSet(Flat(list)) : t.k # "switch"}}

\* the function with old called new, in its body and in its declarations
Rename(fn, old, new) ==
  [fn EXCEPT !.body = ApplyRename(@, old :> new),
             !.locals = [i \in DOMAIN @ |-> IF @[i] = old THEN new ELSE @[i]]]

\* base, base_2, base_3, ...: the first that is not used
MakeUnique(base, used) ==
  LET nth(i) == IF i = 1 THEN base ELSE base \o "_" \o ToString(i)
  IN nth(CHOOSE i \in 1 .. Cardinality(used) + 1 :
           nth(i) \notin used /\ \A j \in 1 .. i - 1 : nth(j) \in used)

\* v1, v2, ...: the first that is not used
NextTemporary(used) ==
  LET nth(i) == "v" \o ToString(i)
  IN nth(CHOOSE i \in 1 .. Cardinality(used) + 1 :
           nth(i) \notin used /\ \A j \in 1 .. i - 1 : nth(j) \in used)

\* the function with each of the names called v<n>, one after the other
NameTemporaries(fn, names, used) ==
  FoldLeft(LAMBDA acc, old :
             LET new == NextTemporary(acc.used)
             IN [fn |-> Rename(acc.fn, old, new), used |-> acc.used \cup {new}],
           [fn |-> fn, used |-> used], names)

-----------------------------------------------------------------------------
\* a register that takes the result of a known callee, in the outermost list
NameReturns(fn) ==
  FoldLeft(
    LAMBDA acc, i :
      LET s   == acc.fn.body[i]
          new == MakeUnique(ReturnNames[Value(s).n], acc.used)
      IN IF /\ Defines(s) /\ Value(s).k = "call"
            /\ Name(s) \in Registers \ acc.renamed
            /\ Value(s).n \in DOMAIN ReturnNames
         THEN [fn |-> Rename(acc.fn, Name(s), new),
               used |-> acc.used \cup {new},
               renamed |-> acc.renamed \cup {Name(s)}]
         ELSE acc,
    [fn |-> fn, used |-> Declared(fn), renamed |-> {}],
    [i \in DOMAIN fn.body |-> i])

RECURSIVE ScanStmts(_)
\* the calls that are statements or assigned values, not those in a switch
ScanStmts(list) ==
  FlattenSeq([i \in DOMAIN list |->
    LET s == list[i]
        e == IF IsAssign(s) THEN Value(s) ELSE Cond(s)
    IN IF s.k \in {"assign", "expr"} THEN (IF e.k = "call" THEN <<e>> ELSE <<>>)
       ELSE IF s.k = "switch" THEN <<>>
       ELSE FlattenSeq([j \in DOMAIN s.arms |-> ScanStmts(s.arms[j])])])

\* a register that is an argument of a known callee; the first name wins
NameArguments(acc) ==
  LET known == SelectSeq(ScanStmts(acc.fn.body), LAMBDA c : c.n \in DOMAIN ParamNames)
      uses == FlattenSeq([i \in DOMAIN known |->
                LET names == ParamNames[known[i].n]
                IN [j \in 1 .. (IF Len(names) < Len(known[i].x) THEN Len(names)
                                ELSE Len(known[i].x)) |->
                      [arg |-> known[i].x[j], name |-> names[j]]]])
  IN FoldLeft(
       LAMBDA a, u :
         LET new == MakeUnique(u.name, a.used)
         IN IF u.arg.k = "var" /\ u.arg.n \in Registers \ a.renamed
            THEN [fn |-> Rename(a.fn, u.arg.n, new),
                  used |-> a.used \cup {new},
                  renamed |-> a.renamed \cup {u.arg.n}]
            ELSE a,
       acc, uses)

InferSemanticNames(fn) == NameArguments(NameReturns(fn)).fn

\* Mutant: only declared registers are renamed
RenameDeclaredRegisterVars(fn) ==
  NameTemporaries(fn, SelectSeq(fn.locals, LAMBDA n : n \in Registers),
                  Declared(fn) \cup CollectVarNames(fn.body)).fn

\* declared registers in order, then those only the body mentions
RenameRemainingRegisterVars(fn) ==
  LET first == NameTemporaries(fn, SelectSeq(fn.locals, LAMBDA n : n \in Registers),
                           Declared(fn) \cup CollectVarNames(fn.body))
      orphans == SetToSeq((CollectVarNames(first.fn.body) \cap Registers)
                            \ Declared(first.fn))
      last == NameTemporaries([first.fn EXCEPT !.locals = @ \o orphans],
                          orphans, first.used)
  IN last.fn

\* param_1_7 is a local that was made from param_1
CleanupParameterSSASuffixes(fn) ==
  LET suffixed == {n \in DOMAIN SuffixOf : SuffixOf[n] \in ToSet(fn.params)}
      first == NameTemporaries(fn, SelectSeq(fn.locals, LAMBDA n : n \in suffixed),
                           Declared(fn))
      orphans == SetToSeq((CollectVarNames(fn.body) \cap suffixed) \ Declared(fn))
  IN NameTemporaries([first.fn EXCEPT !.locals = @ \o orphans],
                 orphans, first.used).fn

\* the names the printer knows without a declaration
Bookkeeping == {"rsp", "rbp", "esp", "ebp"}
Undeclared(fn) ==
  (CollectVarNames(fn.body) \ Declared(fn)) \ (Bookkeeping \cup DOMAIN CodeLabels)

DeclareUndeclaredVars(fn) ==
  [fn EXCEPT !.locals = @ \o SetToSeq(Undeclared(fn)),
             !.synthesized = @ \cup Undeclared(fn)]

\* Mutant: a variable that is only assigned loses its declaration
RemoveUnreadDeclarations(fn) ==
  [fn EXCEPT !.locals = SelectSeq(@, LAMBDA n : n \in ReadIn(fn.body))]

RemoveUnusedDeclarations(fn) ==
  [fn EXCEPT !.locals = SelectSeq(@, LAMBDA n : n \in CollectVarNames(fn.body))]

-----------------------------------------------------------------------------
RECURSIVE DropGotos(_, _)
DropGotos(list, labels) ==
  Without([i \in DOMAIN list |->
             [list[i] EXCEPT !.arms = [j \in DOMAIN @ |-> DropGotos(@[j], labels)]]],
          LAMBDA s : s.k = "goto" /\ s.n \notin labels)

\* the jumps whose label is gone are dropped, and the function says so
RemoveDanglingGotos(fn) ==
  LET labels == LabelsIn(fn.body)
  IN [fn EXCEPT !.body = DropGotos(@, labels),
                !.defects = @ \cup IF GotosIn(fn.body) \subseteq labels THEN {}
                                   ELSE {"hasDamningHonestyDefect"},
                !.droppedDanglingGoto = @ \/ ~(GotosIn(fn.body) \subseteq labels)]
=============================================================================

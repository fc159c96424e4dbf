----------------------------- MODULE CAstIdioms -----------------------------
(***************************************************************************)
(* The passes of CAstOptimizer.cpp that know how a machine or a compiler   *)
(* writes things: frame set-up, the lifter's bookkeeping, opcodes as       *)
(* calls, xor as negation, pointer arithmetic for fields, casts, float     *)
(* registers, addresses of stack variables, calls written down twice.      *)
(* Most of them go by a shape or a name alone, so what they promise holds  *)
(* for the code compilers emit and not for every tree.                     *)
(***************************************************************************)
EXTENDS CAstDataflow, CAstNames
CONSTANTS Promoted,        \* _promoted_<n>, _spill_<n>
          FlagVariables,   \* __<..>flag<..>
          PostCalls,       \* __helix_post_call_<..>
          FloatNames,      \* xmm<n>, ymm<n>
          BlockArguments,  \* block_arg<n>
          Numbered,        \* v<n>
          LowOnes,         \* 0xFFFFFFFF
          SemanticMap,     \* opcode -> its readable name
          Mnemonics,       \* the other names that have the shape of an opcode
          Unsuffixed,      \* BTSmem -> BTS
          RepWrapped,      \* DoREPE_CMPSB -> its wrapper and CMPSB
          DoWrapped        \* DoBSWAP -> BSWAP

FramePointers == {"rbp", "ebp"}
StackPointers == {"rsp", "esp"}
VarIn(e, names) == e.k = "var" /\ e.n \in names

-----------------------------------------------------------------------------
(***************************************************************************)
(* removePrologueEpilogue, eliminateInfrastructure                         *)
(***************************************************************************)
IsPrologue(s) ==
  /\ IsAssign(s)
  /\ \/ VarIn(Target(s), FramePointers) /\ VarIn(Value(s), StackPointers)
     \/ /\ VarIn(Target(s), StackPointers)
        /\ \/ VarIn(Value(s), FramePointers)
           \/ /\ Value(s).k = "bin" /\ Value(s).n \in {"+", "-"}
              /\ VarIn(Value(s).x[1], StackPointers)

\* among the first five statements, and the ones at the end
RemovePrologueEpilogue(body) ==
  LET head == SubSeq(body, 1, IF Len(body) < 5 THEN Len(body) ELSE 5)
      rest == Without(head, IsPrologue) \o From(body, Len(head) + 1)
      tail == {i \in DOMAIN rest : /\ Len(rest) - i < 5
                                   /\ \A j \in i .. Len(rest) : IsPrologue(rest[j])}
  IN SubSeq(rest, 1, Len(rest) - Cardinality(tail))

FlagCalls == {"__overflow", "__carry", "__sign", "__zero", "__parity"}
NameIsInfra(n) == n \in Promoted \cup FlagVariables \cup StackPointers

RECURSIVE ReferencesInfra(_)
\* of a call only its name is looked at
ReferencesInfra(e) ==
  CASE e.k = "var"  -> NameIsInfra(e.n)
    [] e.k = "call" -> e.n \in FlagCalls
    [] OTHER        -> \E i \in DOMAIN e.x : ReferencesInfra(e.x[i])

IsInfrastructure(s) ==
  \/ IsAssign(s) /\ (\/ Target(s).k = "var" /\ NameIsInfra(Target(s).n)
                     \/ ReferencesInfra(Value(s)))
  \/ s.k = "expr" /\ (\/ Cond(s).k = "call" /\ Cond(s).n \in PostCalls
                      \/ ReferencesInfra(Cond(s)))

FilterStatementsHere(list) == Without(list, IsInfrastructure)

-----------------------------------------------------------------------------
(***************************************************************************)
(* recognizeStackCanary                                                    *)
(***************************************************************************)
IsCanaryFail(f) ==
  f \in {"__stack_chk_fail", "__stack_chk_fail_local", "__chk_fail",
         "__security_check_cookie", "__report_gsfailure"}
CanaryOffsets == {40, 20, 16, 8}
NoSegmentBase == {"GSBASE unavailable", "FSBASE unavailable"}

IsCanaryRead(cast) ==
  LET e == Uncast(cast)
      at(d) == d.k = "int" /\ d.v \in CanaryOffsets
  IN \/ e.k = "bin" /\ e.n = "+" /\ at(e.x[2]) /\ IsDeref(e.x[1])
     \/ e.k = "call" /\ e.n \in {"__readgsqword", "__readfsqword"}
          /\ Len(e.x) = 1 /\ at(e.x[1])
     \/ e.k = "call" /\ e.n = "__security_cookie"
     \/ VarIn(e, {"__security_cookie", "__stack_chk_guard"})
     \/ /\ e.k = "field" /\ e.v \in CanaryOffsets
        /\ LET base == Uncast(e.x[1]) IN
           /\ base.k = "call" /\ base.n = "__helix_unknown" /\ Len(base.x) = 1
           /\ Uncast(base.x[1]).k = "str" /\ Uncast(base.x[1]).n \in NoSegmentBase

SavesCanary(s) == Defines(s) /\ IsCanaryRead(Value(s))
IsStackChkFail(s) ==
  /\ s.k \in {"expr", "assign"}
  /\ LET e == IF IsAssign(s) THEN Value(s) ELSE Cond(s)
     IN e.k = "call" /\ IsCanaryFail(e.n)

\* the arm of an if that does not fail, when exactly one of them does
NormalArm(s) ==
  LET fails == {i \in 1 .. 2 : \E t \in ToSet(s.arms[i]) : IsStackChkFail(t)}
  IN IF Cardinality(fails) = 1 THEN {s.arms[i] : i \in {1, 2} \ fails} ELSE {}

RECURSIVE RemoveStructuredChecks(_)
\* a normal arm may begin with the next check
RemoveStructuredChecks(list) ==
  FlattenSeq([i \in DOMAIN list |->
    LET s == list[i]
        normal == IF s.k = "if" THEN NormalArm(s) ELSE {}
    IN IF normal # {} THEN RemoveStructuredChecks(CHOOSE arm \in normal : TRUE)
       ELSE <<[s EXCEPT !.arms = [j \in DOMAIN @ |-> RemoveStructuredChecks(@[j])]]>>])

RECURSIVE RemoveCanary(_, _)
\* the saves to storage and the failing calls; no switch is looked into.  The
\* branches on the storage that the code would also fold are gone by now.
RemoveCanary(list, storage) ==
  Without([i \in DOMAIN list |->
             IF list[i].k = "switch" THEN list[i]
             ELSE [list[i] EXCEPT !.arms = [j \in DOMAIN @ |->
                                              RemoveCanary(@[j], storage)]]],
          LAMBDA s : IsStackChkFail(s) \/ (SavesCanary(s) /\ Name(s) = storage))

IsCanaryDifference(cast, aliases) ==
  LET e == Uncast(cast) IN
  /\ IsBin("-", e)
  /\ \/ VarIn(Uncast(e.x[1]), aliases) /\ IsCanaryRead(e.x[2])
     \/ IsCanaryRead(e.x[1]) /\ VarIn(Uncast(e.x[2]), aliases)

\* where the chain of copies of storage that begins at i ends in a difference
ChainEnds(list, i, storage) ==
  LET aliases(j) == {storage} \cup {Name(list[h]) : h \in i .. j - 1}
      copies(j) == /\ Defines(list[j])
                   /\ VarIn(Uncast(Value(list[j])), aliases(j))
  IN {j \in i .. Len(list) :
        /\ \A h \in i .. j - 1 : copies(h)
        /\ Defines(list[j]) /\ IsCanaryDifference(Value(list[j]), aliases(j))}

RECURSIVE RemoveAliasChains(_, _)
RemoveAliasChains(list, storage) ==
  LET starts == {i \in DOMAIN list : ChainEnds(list, i, storage) # {}} IN
  IF starts # {}
    THEN LET i == First(starts)
             j == CHOOSE k \in ChainEnds(list, i, storage) : TRUE
         IN RemoveAliasChains(SubSeq(list, 1, i - 1) \o From(list, j + 1), storage)
    ELSE [i \in DOMAIN list |->
            [list[i] EXCEPT !.arms = [j \in DOMAIN @ |->
                                        RemoveAliasChains(@[j], storage)]]]

Upto(n, list) == 1 .. (IF Len(list) < n THEN Len(list) ELSE n)
Copies(s, to, from) == Defines(s) /\ Name(s) = to /\ VarIn(Value(s), {from})

\* where the canary saved at i is kept; a register only carries it there
Storage(body, i) ==
  LET register == Name(body[i])
      next == {j \in i + 1 .. i + 7 : /\ j \in DOMAIN body /\ Defines(body[j])
                                      /\ \/ Name(body[j]) = register
                                         \/ VarIn(Value(body[j]), {register})}
  IN IF register \notin Registers THEN {register}
     ELSE IF next = {} THEN {} ELSE {Name(body[First(next)])} \ {register}

\* the saved canary, its storage and the branches that compare them, when
\* nothing else uses the storage; otherwise what is stored there is protected
RecognizeStackCanary(fn) ==
  LET body == RemoveStructuredChecks(fn.body)
      saves == {i \in Upto(10, body) : SavesCanary(body[i])}
      kept == IF saves = {} THEN {} ELSE Storage(body, First(saves))
  IN IF kept = {} THEN [fn EXCEPT !.body = Without(body, IsStackChkFail)]
     ELSE LET source == Name(body[First(saves)])
              storage == CHOOSE n \in kept : TRUE
              owned(s) == \/ SavesCanary(s) /\ Name(s) = source
                          \/ Copies(s, storage, source)
              used(list) == storage \in NamesIn(Without(list, owned))
              left == IF used(body) /\ body # fn.body
                        THEN RemoveAliasChains(body, storage) ELSE body
          IN IF used(left) THEN [fn EXCEPT !.body = left, !.protected = @ \cup {storage}]
             ELSE [fn EXCEPT !.body = Without(RemoveCanary(left, storage), owned),
                             !.locals = SelectSeq(@, LAMBDA n : n # storage)]

-----------------------------------------------------------------------------
(***************************************************************************)
(* decomposeNativeOpcodes                                                  *)
(***************************************************************************)
IsNativeOpcodeName(n) == n \in DOMAIN SemanticMap \cup Mnemonics

\* the readable name, behind prefix, of what is left of an opcode's suffix
MapNativeOpcode(n, prefix) ==
  LET base == IF n \in DOMAIN SemanticMap \/ n \notin DOMAIN Unsuffixed THEN n
              ELSE Unsuffixed[n]
  IN IF base \in DOMAIN SemanticMap THEN SemanticMap[base] ELSE prefix \o n

NativeName(n) ==
  IF n \in DOMAIN RepWrapped /\ IsNativeOpcodeName(RepWrapped[n][2])
    THEN RepWrapped[n][1] \o "_" \o MapNativeOpcode(RepWrapped[n][2], "native_")
  ELSE IF n \in DOMAIN DoWrapped /\ IsNativeOpcodeName(DoWrapped[n])
    THEN MapNativeOpcode(DoWrapped[n], "__native_")
  ELSE IF IsNativeOpcodeName(n) THEN MapNativeOpcode(n, "__native_")
  ELSE n

RECURSIVE DecomposeNative(_)
DecomposeNative(e) ==
  [e EXCEPT !.n = IF e.k = "call" THEN NativeName(@) ELSE @,
            !.x = [i \in DOMAIN @ |-> DecomposeNative(@[i])]]

\* the selector of a switch is not looked at
DecomposeNativeHere(list) ==
  [i \in DOMAIN list |->
     IF list[i].k = "switch" THEN list[i]
     ELSE [list[i] EXCEPT !.x = [j \in DOMAIN @ |-> DecomposeNative(@[j])]]]

-----------------------------------------------------------------------------
(***************************************************************************)
(* canonicalizeXorPatterns, recoverStructFieldAccess: what becomes of one  *)
(* node, its operands rewritten before it.                                 *)
(***************************************************************************)
IsBooleanOperand(e) == IsCmp(e) \/ (e.k = "var" /\ e.v = 1)

XorNode(e) ==
  LET lit(d) == d.k = "int" /\ d.v \in {1, -1, LowOnes}
      one == IF lit(e.x[2]) THEN e.x[2] ELSE e.x[1]
      rest == IF lit(e.x[2]) THEN e.x[1] ELSE e.x[2]
  IN IF ~IsBin("^", e) \/ ~lit(one) THEN e
     ELSE IF IsBooleanOperand(rest) THEN Not(rest)
     ELSE IF one = Num(1) THEN e ELSE Un("~", rest)

IsDirectFieldBase(e) == Uncast(e).k \in {"var", "field"}

FieldNode(e) ==
  LET sum == e.x[1]
      fits(at, base) ==
        sum.x[at].k = "int" /\ sum.x[at].v > 0 /\ IsDirectFieldBase(sum.x[base])
  IN IF ~IsDeref(e) \/ ~IsBin("+", sum) THEN e
     ELSE IF fits(2, 1) THEN Field(sum.x[2].v, sum.x[1])
     ELSE IF fits(1, 2) THEN Field(sum.x[1].v, sum.x[2])
     ELSE e

-----------------------------------------------------------------------------
(***************************************************************************)
(* eliminateRedundantCasts, cleanupFloatZeros                              *)
(***************************************************************************)
\* 0 when the node has no type
Width(e) == IF e.k \in {"cast", "var"} THEN e.v ELSE 0

RECURSIVE StripRedundantCasts(_)
\* an extension keeps the narrow cast it extends
StripRedundantCasts(e) ==
  LET below(d) == [d EXCEPT !.x = [i \in DOMAIN @ |-> StripRedundantCasts(@[i])]]
      extends == e.k = "cast" /\ e.x[1].k = "cast" /\ e.x[1].v < e.v
      s == IF extends THEN [e EXCEPT !.x = <<below(@[1])>>] ELSE below(e)
  IN IF s.k = "cast" /\ s.v = Width(s.x[1]) THEN s.x[1] ELSE s

StripRedundantCastsHere(list) ==
  [i \in DOMAIN list |->
     [list[i] EXCEPT !.x = [j \in DOMAIN @ |-> StripRedundantCasts(@[j])]]]

RECURSIVE IsNullPtrCast(_), ReplaceNullWithFloatZero(_)
IsNullPtrCast(e) ==
  \/ e \in {Num(0), FloatZero}
  \/ (e.k = "cast" \/ IsDeref(e)) /\ IsNullPtrCast(e.x[1])

ReplaceNullWithFloatZero(e) ==
  LET s == [e EXCEPT !.x = [i \in DOMAIN @ |-> ReplaceNullWithFloatZero(@[i])]]
  IN IF IsNullPtrCast(s) THEN FloatZero ELSE s

\* in all of the value, the arguments of its calls included
CleanupFloatZerosHere(list) ==
  [i \in DOMAIN list |->
     LET s == list[i] IN
     IF ~Defines(s) \/ (Name(s) \notin FloatNames /\ Target(s).v # FloatType) THEN s
     ELSE [s EXCEPT !.x[2] = IF VarIn(@, BlockArguments) THEN FloatZero
                             ELSE ReplaceNullWithFloatZero(@)]]

-----------------------------------------------------------------------------
(***************************************************************************)
(* resolveFramePointerLeaks, removeAdjacentDuplicateStmts                  *)
(***************************************************************************)
\* the declared stack variable at offset
StackVariable(fn, offset) ==
  {n \in StackLocals \cap ToSet(fn.locals) : StackOffset[n] = offset}

\* an argument v<n> + c or v<n> - c is taken for the address of a variable
FrameReference(fn, e) ==
  LET offset == IF e.n = "+" THEN e.x[2].v ELSE -e.x[2].v
  IN IF /\ e.k = "bin" /\ e.n \in {"+", "-"} /\ e.x[2].k = "int"
        /\ VarIn(e.x[1], Numbered \cap (ToSet(fn.locals) \ StackLocals))
        /\ StackVariable(fn, offset) # {}
     THEN AddressOf(Var(CHOOSE n \in StackVariable(fn, offset) : TRUE)) ELSE e

RECURSIVE ResolveFrameRefs(_, _), ResolveFrameRefsIn(_, _)
ResolveFrameRefs(fn, e) ==
  [e EXCEPT !.x = [i \in DOMAIN @ |->
     LET d == ResolveFrameRefs(fn, @[i])
     IN IF e.k = "call" THEN FrameReference(fn, d) ELSE d]]

\* neither the places assigned nor the selectors of switches are looked at
ResolveFrameRefsIn(fn, list) ==
  [i \in DOMAIN list |->
     [list[i] EXCEPT
        !.x = [j \in DOMAIN @ |->
                 IF list[i].k = "switch" \/ (IsAssign(list[i]) /\ j = 1) THEN @[j]
                 ELSE ResolveFrameRefs(fn, @[j])],
        !.arms = [j \in DOMAIN @ |-> ResolveFrameRefsIn(fn, @[j])]]]

ResolveFramePointerLeaks(fn) == [fn EXCEPT !.body = ResolveFrameRefsIn(fn, @)]

RECURSIVE Bare(_)
\* an expression without types and addresses
Bare(e) == [e EXCEPT !.v = IF e.k \in {"cast", "var", "call"} THEN 0 ELSE @,
                     !.x = [i \in DOMAIN @ |-> Bare(@[i])]]

\* two calls that one instruction made
SameOrigin(c, d) ==
  /\ c.k = "call" /\ d.k = "call" /\ c.v # 0 /\ c.v = d.v
  /\ Bare(c) = Bare(d) /\ \A e \in ToSet(SubExprs(c)) : e.k # "float"

Picked(list, keep(_)) ==
  LET kept == SelectSeq([i \in DOMAIN list |-> i], keep)
  IN [i \in DOMAIN kept |-> list[kept[i]]]

\* a call written down again, and one written down before its assignment
RemoveDuplicatesHere(list) ==
  LET again(i) ==
        /\ i > 1 /\ list[i - 1].k = "expr" /\ list[i].k = "expr"
        /\ SameOrigin(Cond(list[i - 1]), Cond(list[i]))
        /\ \A j \in DOMAIN Cond(list[i]).x : Cond(list[i]).x[j].k \in {"int", "str"}
      once == Picked(list, LAMBDA i : ~again(i))
      captured(i) ==
        /\ i < Len(once) /\ once[i].k = "expr" /\ Defines(once[i + 1])
        /\ SameOrigin(Cond(once[i]), Value(once[i + 1]))
  IN Picked(once, LAMBDA i : ~captured(i))
=============================================================================

---------------------------- MODULE CAstMeaning -----------------------------
(***************************************************************************)
(* What a function does when it is called: the reference the optimizer is  *)
(* held to.  The observable part of a call is the sequence of the calls it *)
(* makes, with their arguments, and of its stores to memory, and how it    *)
(* ends: with which value it returns, or that it jumps to a label that is  *)
(* nowhere.  Variables and loads are not observable, only what is made of  *)
(* them.                                                                   *)
(*                                                                         *)
(* This is C for the statements of CAst.  A call is an unknown function:   *)
(* the n-th call of a run returns the n-th element of answers, and 0 when  *)
(* they are used up; min and max are C's own.  A variable nothing has      *)
(* assigned reads as what it was declared with, or 0.  Labels are found    *)
(* from any list that encloses the goto; Fuel bounds the jumps and         *)
(* iterations of a run.  A store or a load through the null pointer is     *)
(* undefined, and so is the value of a __helix_unknown: the run ends       *)
(* there, and a function that reaches it may be replaced by any other.     *)
(*                                                                         *)
(* The rest is what the tree still shows of the machine.  A call carries   *)
(* the address of its instruction: the same call at the same address twice *)
(* in a row is one call the builder wrote down twice.  An opcode's call is *)
(* known by its readable name.  Bookkeeping calls are silent.  The stack   *)
(* canary is a constant nobody overwrites, so the function that reports a  *)
(* smashed stack is not reached.  The frame is at 0, so the address of a   *)
(* stack variable is its offset; a function that still reaches its frame   *)
(* through registers says where it is, its stores there are its own        *)
(* affair, and its caller has put the further arguments above it.          *)
(*                                                                         *)
(* A function that is not built yet (see CAstBuilder) is run as the        *)
(* machine would run it: the value of an operation is computed where the   *)
(* operation stands and kept under its name, a block's arguments are       *)
(* assigned all at once, and what only the lifter needs is passed over.    *)
(*                                                                         *)
(* Beside what is observed, a run remembers which variables it read, and   *)
(* which it returned, before anything gave them a value.                   *)
(***************************************************************************)
EXTENDS CAst
CONSTANTS Fuel,
          Silent,          \* callees that are bookkeeping
          StackOffset,     \* stack variable -> its offset in the frame
          Strings,         \* address in the data -> text
          ReadOnly,        \* address in the data -> word
          CodeLabels,      \* label -> address
          CodeBase,        \* what a code address lacks when its upper half is gone
          RegisterReads,   \* register -> variable
          RegisterWrites,  \* register -> variable
          MemoryReads,     \* intrinsics that read memory
          PassedOnStack,   \* parameter -> its value, if a caller puts it on the stack
          StackHome,       \* convention -> parameter -> its place above the return address
          NativeName(_)    \* callee -> its readable name

Canary == 77
CanarySources ==
  {Call("__readgsqword", <<Num(40)>>, 0), Var("__security_cookie"),
   Bin("+", Deref(CastTo(8, Num(0))), Num(40)),
   Field(40, Call("__helix_unknown", <<Text("GSBASE unavailable")>>, 0))}
Aborts == {"__stack_chk_fail", "__stack_chk_fail_local", "__chk_fail",
           "__report_gsfailure"}

Truth(b) == IF b THEN 1 ELSE 0

Apply(op, a, b) ==
  CASE op \in ArithOps -> Arith(op, a, b)
    [] op = "==" -> Truth(a = b)
    [] op = "!=" -> Truth(a # b)
    [] op = "<"  -> Truth(a < b)
    [] op = "<=" -> Truth(a <= b)
    [] op = ">"  -> Truth(a > b)
    [] op = ">=" -> Truth(a >= b)

Lookup(f, key) == IF key \in DOMAIN f THEN f[key] ELSE 0
Put(f, key, value) == [c \in DOMAIN f \cup {key} |->
                         IF c = key THEN value ELSE f[c]]

NoCall == [key |-> <<>>, val |-> 0]
\* a run that has become undefined stays so
Ends(m, how) == IF m.sig = "undefined" THEN m ELSE [m EXCEPT !.sig = how]
Burns(m) == IF m.sig = "undefined" THEN m
            ELSE IF m.fuel = 0 THEN Ends(m, "spent")
            ELSE [m EXCEPT !.fuel = @ - 1, !.sig = "next"]

\* the call of f with the values vals, at the instruction at
CallOf(f, vals, at, m) ==
  LET key == <<at, f, vals, m.fuel>>
      answer == IF m.answers = <<>> THEN 0 ELSE m.answers[1]
  IN IF f \in Aborts \cup {"__helix_unknown"}
       THEN [val |-> 0, m |-> Ends(m, "undefined")]
     ELSE IF f \in Silent THEN [val |-> 0, m |-> m]
     ELSE IF at # 0 /\ m.last.key = key THEN [val |-> m.last.val, m |-> m]
     ELSE [val |-> answer,
           m |-> [m EXCEPT !.answers = IF @ = <<>> THEN @ ELSE Tail(@),
                           !.events = Append(@, <<NativeName(f), vals>>),
                           !.last = [key |-> key, val |-> answer]]]

\* what the pointer a leads to
Load(a, m) == IF a = 0 THEN [val |-> 0, m |-> Ends(m, "undefined")]
              ELSE IF a \in DOMAIN ReadOnly THEN [val |-> ReadOnly[a], m |-> m]
              ELSE [val |-> Lookup(m.mem, a), m |-> m]

\* the variable n is read: it is blank if nothing gave it a value
Uses(n, m) == IF n \in m.given THEN m ELSE [m EXCEPT !.blank = @ \cup {n}]

\* a comparison or a variable of one bit
OneBit(e) == \/ e.k = "bin" /\ e.n \in {"==", "!=", "<", "<=", ">", ">="}
             \/ e.k = "var" /\ e.v = 1

\* where a text lies
TextAt(text) == IF \E a \in DOMAIN Strings : Strings[a] = text
                  THEN CHOOSE a \in DOMAIN Strings : Strings[a] = text ELSE 0

RECURSIVE Eval(_, _), EvalAll(_, _)

\* the values of the expressions es, evaluated in order from machine m
EvalAll(es, m) ==
  IF es = <<>> THEN [vals |-> <<>>, m |-> m]
  ELSE LET head == Eval(es[1], m)
           rest == EvalAll(Tail(es), head.m)
       IN [vals |-> <<head.val>> \o rest.vals, m |-> rest.m]

Eval(e, m) ==
  IF e \in CanarySources THEN [val |-> Canary, m |-> m]
  ELSE IF e.k = "un" /\ e.n = "&"
    THEN LET of == e.x[1]
             base == Eval(of.x[1], m)
         IN CASE of.k = "var" /\ of.n \in DOMAIN CodeLabels ->
                   [val |-> CodeLabels[of.n], m |-> m]
              [] of.k = "var" -> [val |-> Lookup(StackOffset, of.n), m |-> m]
              [] of.k = "field" -> [base EXCEPT !.val = @ + of.v]
              [] OTHER -> base
  ELSE IF e.k = "bin" /\ e.n \in {"&&", "||"}
    THEN LET l == Eval(e.x[1], m) IN
         IF (l.val = 0) = (e.n = "&&")
           THEN [val |-> Truth(l.val # 0), m |-> l.m]
           ELSE LET r == Eval(e.x[2], l.m)
                IN [val |-> Truth(r.val # 0), m |-> r.m]
    ELSE LET args == EvalAll(e.x, m)
             a == args.vals
             n == args.m
             is(value) == [val |-> value, m |-> n]
         IN CASE e.k \in {"var", "ssa"} -> [val |-> Lookup(n.env, e.n), m |-> Uses(e.n, n)]
              [] e.k = "reg"  -> is(Lookup(n.env, RegisterReads[e.n]))
              [] e.k \in {"addr", "addrlit"} -> is(e.v)
              [] e.k = "local" -> is(n.frame - 300 + e.v)
              [] e.k = "bin" /\ e.n = "<<" /\ a[2] \notin 0 .. 15 ->
                   [val |-> 0, m |-> Ends(n, "undefined")]
              [] e.k = "int"  -> is(IF e.n = "code" THEN CodeBase + e.v ELSE e.v)
              [] e.k = "bin" /\ e.n = "^" /\ (OneBit(e.x[1]) \/ OneBit(e.x[2])) ->
                   is((a[1] + a[2]) % 2)
              [] e.k \in {"bin", "llvm"} -> is(Apply(e.n, a[1], a[2]))
              [] e.k = "test" -> is(Apply(e.n, Bitwise("&", a[1], a[2]), 0))
              [] e.k = "cmp"  -> is(Apply(IF e.n = "zero" THEN "==" ELSE "<", a[1], a[2]))
              [] e.k = "step" -> is(Arith(e.n, a[1], 1))
              [] e.k \in {"lea", "fieldptr"} -> is(a[1] + e.v)
              [] e.k = "load" \/ (e.k = "call" /\ e.n \in MemoryReads) -> Load(a[Len(a)], n)
              [] e.k \in {"machine", "opaque"} -> CallOf(e.n, a, 0, n)
              [] e.k = "other" -> CallOf("__helix_unhandled_" \o e.n, a, 0, n)
              [] e.k \in {"unknown", "undef", "state"} ->
                   [val |-> 0, m |-> Ends(n, "undefined")]
              [] e.k = "float" -> is(0)
              [] e.k = "str" -> is(TextAt(e.n))
              [] e.k = "cast" -> is(a[1] % 2^e.v)
              [] e.k = "call" /\ e.n \in {"min", "max"} ->
                   is(IF (a[1] < a[2]) = (e.n = "min") THEN a[1] ELSE a[2])
              [] e.k = "call" -> CallOf(e.n, a, e.v, n)
              [] e.k = "un" /\ e.n = "-" -> is(-a[1])
              [] e.k = "un" /\ e.n = "~" -> is(-a[1] - 1)
              [] e.k = "un" /\ e.n = "!" -> is(Truth(a[1] = 0))
              [] e.k = "un" /\ e.n = "*" ->
                   IF e.x[1].k = "un" /\ e.x[1].n = "&" THEN Eval(e.x[1].x[1], m)
                   ELSE Load(a[1], n)
              [] e.k = "field" -> Load(a[1] + e.v, n)

RECURSIVE Bare(_)
Bare(e) == IF e.k = "cast" THEN Bare(e.x[1]) ELSE e

\* give the variable n a value
Given(n, value, m) == [m EXCEPT !.env = Put(@, n, value), !.given = @ \cup {n}]

\* the frame, with what the lifter set aside below it
InFrame(a, m) == m.frame # 0 /\ a \in m.frame - 400 .. m.frame + 100

\* store value into the place the expression t names
Store(t, value, m) ==
  IF t.k = "var"
    THEN Given(t.n, IF t.v > 0 THEN value % 2^t.v ELSE value, m)
    ELSE LET base == Eval(t.x[1], m)
             at == base.val + (IF t.k = "field" THEN t.v ELSE 0)
         IN IF at = 0 THEN Ends(base.m, "undefined")
            ELSE IF InFrame(at, m) THEN [base.m EXCEPT !.mem = Put(@, at, value)]
            ELSE [base.m EXCEPT !.mem = Put(@, at, value), !.last = NoCall,
                                !.events = Append(@, <<"*", <<at, value>>>>)]

\* the values of es become the variables ids, all at once
Together(ids, es, m) ==
  LET v == EvalAll(es, m)
  IN FoldLeft(LAMBDA n, i : Given(ids[i].n, v.vals[i], n), v.m, [i \in DOMAIN es |-> i])

\* the operands of a statement that a list of places is exchanged by
Exchanged(a, b, m) ==
  Given(a.n, Lookup(m.env, b.n), Given(b.n, Lookup(m.env, a.n), m))

RECURSIVE Exec(_, _), ExecFrom(_, _, _), ExecLoop(_, _), ExecCases(_, _, _)

\* the list from its i-th statement on
ExecFrom(list, i, m) ==
  IF i > Len(list) THEN m
  ELSE LET n == Exec(list[i], m)
           here == {j \in DOMAIN list : list[j].k \in {"label", "block"}
                                        /\ list[j].n = n.at}
       IN IF n.sig = "next" THEN ExecFrom(list, i + 1, n)
          ELSE IF n.sig = "goto" /\ here # {}
            THEN LET b == Burns(n) IN
                 IF b.sig = "spent" THEN b
                 ELSE LET to == CHOOSE j \in here : TRUE
                      IN ExecFrom(list, to, [Together(list[to].x, n.passed, b) EXCEPT !.passed = <<>>])
          ELSE n

\* one iteration and the ones after it, the condition tested first
ExecLoop(s, m) ==
  LET c == Eval(Cond(s), m) IN
  IF c.val = 0 THEN c.m
  ELSE LET n == ExecFrom(s.arms[1], 1, Burns(c.m)) IN
       IF n.sig \in {"next", "continue"} THEN ExecLoop(s, Ends(n, "next"))
       ELSE IF n.sig = "break" THEN Ends(n, "next") ELSE n

\* the cases of a switch fall through from the i-th on
ExecCases(arms, i, m) ==
  IF i > Len(arms) THEN m
  ELSE LET n == ExecFrom(arms[i], 1, m) IN
       IF n.sig = "next" THEN ExecCases(arms, i + 1, n) ELSE n

Exec(s, m) ==
  CASE m.sig # "next" -> m
    [] s.k = "assign" ->
         LET v == Eval(CASE s.n = "" -> Value(s)
                         [] s.n = "++" -> Bin("+", Target(s), Num(1))
                         [] s.n = "--" -> Bin("-", Target(s), Num(1))
                         [] OTHER -> Bin(s.n, Target(s), Value(s)), m)
         IN Store(Target(s), v.val, v.m)
    [] s.k = "expr" /\ Cond(s).n = "__helix_xchg_reg64" ->
         Exchanged(Cond(s).x[1].x[1], Cond(s).x[2].x[1], m)
    [] s.k = "expr" -> Eval(Cond(s), m).m
    [] s.k \in {"return", "lowret"} ->
         LET v == EvalAll(s.x, m)
             plain == {d.n : d \in {c \in {Bare(s.x[i]) : i \in DOMAIN s.x} :
                                       c.k = "var"}}
         IN [Ends(v.m, "return") EXCEPT
               !.events = Append(@, <<"return", v.vals>>),
               !.lost = plain \ m.given]
    [] s.k \in {"if", "condbr"} ->
         LET c == Eval(Cond(s), m)
         IN ExecFrom(s.arms[IF c.val # 0 THEN 1 ELSE 2], 1, c.m)
    [] s.k = "while" -> ExecLoop(s, m)
    [] s.k = "dowhile" ->
         LET n == ExecFrom(s.arms[1], 1, Burns(m)) IN
         IF n.sig \in {"next", "continue"} THEN ExecLoop(s, Ends(n, "next"))
         ELSE IF n.sig = "break" THEN Ends(n, "next") ELSE n
    [] s.k \in {"switch", "cfswitch"} ->
         LET c == Eval(Cond(s), m)
             i == IF c.val + 1 \in 1 .. Len(s.arms) - 1 THEN c.val + 1
                  ELSE Len(s.arms)
             n == ExecCases(s.arms, i, c.m)
         IN IF n.sig = "break" THEN Ends(n, "next") ELSE n
    [] s.k = "goto" -> [Ends(m, "goto") EXCEPT !.at = s.n]
    [] s.k \in {"break", "continue"} -> Ends(m, s.k)
    [] s.k = "push" ->
         LET v == Eval(s.x[1], m)
         IN [Given("rsp", Lookup(v.m.env, "rsp") - 8, v.m) EXCEPT !.stack = <<v.val>> \o @]
    [] s.k = "pop" /\ m.stack # <<>> ->
         LET up == Given("rsp", Lookup(m.env, "rsp") + 8, m)
         IN [Given(s.n, m.stack[1], up) EXCEPT !.stack = Tail(@)]
    [] s.k = "infra" -> IF s.n = "" THEN m ELSE Given(s.n, Eval(s.x[1], m).val, m)
    [] s.k \in {"def", "fixed", "call", "lowcall", "llvmcall"} ->
         LET known(e) == e.k # "state"
             v == Eval([s.x[1] EXCEPT !.x = SelectSeq(@, known)], m)
         IN IF s.n = "" THEN v.m ELSE Given(s.n, v.val, v.m)
    [] s.k = "regwrite" /\ s.x[1].k \notin {"undef", "state"} ->
         LET v == Eval(s.x[1], m)
         IN IF s.n \in DOMAIN RegisterWrites THEN Given(RegisterWrites[s.n], v.val, v.m)
            ELSE v.m
    [] s.k = "store" ->
         LET v == Eval(Value(s), m) IN Store(Deref(Target(s)), v.val, v.m)
    [] s.k = "xchg" -> Exchanged(s.x[1], s.x[2], m)
    [] s.k \in {"trap", "rep", "unhandled"} ->
         LET v == EvalAll(s.x, m)
         IN CallOf(CASE s.k = "trap" -> "__debugbreak" [] s.k = "rep" -> s.n
                     [] OTHER -> "__helix_unhandled_" \o s.n, v.vals, 0, v.m).m
    [] s.k \in {"scfif", "scfswitch"} ->
         LET c == Eval(Cond(s), m)
             i == IF s.k = "scfif" THEN IF c.val # 0 THEN 1 ELSE 2
                  ELSE IF c.val + 1 \in 1 .. Len(s.arms) - 1 THEN c.val + 1 ELSE Len(s.arms)
             n == ExecFrom(s.arms[i], 1, c.m)
         IN IF n.sig # "next" \/ Len(s.x) = 1 THEN n
            ELSE Together(Tail(s.x), s.arms[i][Len(s.arms[i])].x, n)
    [] s.k = "block" -> ExecFrom(s.arms[1], 1, m)
    [] s.k = "br" -> [Ends(m, "goto") EXCEPT !.at = s.n, !.passed = s.x]
    [] OTHER -> m

\* a call of the function fn
Ran(fn, args, answers) ==
  LET frame == fn.source.frame
      home == IF frame = 0 THEN <<>> ELSE StackHome[fn.source.convention]
      start == [env |-> [n \in ToSet(fn.params) \cup ToSet(fn.locals) \cup {"rsp"} |->
                           IF n \in DOMAIN PassedOnStack THEN PassedOnStack[n]
                           ELSE IF \E i \in DOMAIN fn.params : fn.params[i] = n
                             THEN args[CHOOSE i \in DOMAIN fn.params :
                                         fn.params[i] = n]
                           ELSE IF n = "rsp" THEN frame ELSE 0],
                mem |-> [a \in {frame + home[n] : n \in DOMAIN home} |->
                           PassedOnStack[CHOOSE n \in DOMAIN home : frame + home[n] = a]],
                frame |-> frame, stack |-> <<>>, events |-> <<>>, last |-> NoCall, answers |-> answers,
                sig |-> "next", at |-> "", passed |-> <<>>, fuel |-> Fuel,
                given |-> ToSet(fn.params) \cup fn.zero, blank |-> {}, lost |-> {}]
  IN ExecFrom(fn.body, 1, start)

\* what can be observed of it
Observed(fn, args, answers) ==
  LET end == Ran(fn, args, answers) IN [events |-> end.events, end |-> end.sig]

\* the function does what it did when before was observed
Keeps(before, after) == before.end = "undefined" \/ after = before
=============================================================================

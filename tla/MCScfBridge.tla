---------------------------- MODULE MCScfBridge ----------------------------
(* Loops that carry at most two values through one branch result.          *)
EXTENDS ScfBridge, TLC

CONSTANTS t, f

MCValue == {t, f}
\* Negation: with two values, what a body computes differs from its input.
MCCompute == (t :> f) @@ (f :> t) @@ (Poison :> Poison)

MCBack == {[ins |-> 2, outs |-> 2, back |-> <<1, 2>>],
           [ins |-> 2, outs |-> 2, back |-> <<2, 1>>],
           [ins |-> 2, outs |-> 1, back |-> <<1, 1>>],
           [ins |-> 1, outs |-> 2, back |-> <<2>>],
           [ins |-> 0, outs |-> 1, back |-> <<>>]}

MCInit(n) ==
    CASE n = 2 -> {<<t, f>>, <<Poison, t>>}
      [] n = 1 -> {<<t>>, <<Poison>>}
      [] OTHER -> {<<>>}

MCArm(n) == {<<e>> : e \in {Arg(i) : i \in 1..n} \cup {Const(t), Undefined}}
MCNext(n) == {Arg(i) : i \in 1..n} \cup {Computed(i) : i \in 1..n \ {2}}
               \cup {Const(t), Result(1)}
MCCond(n) == {Arg(i) : i \in 1..n \ {2}} \cup {Const(f), Result(1)}
MCChooser(n) == IF n = 0 THEN {Const(f)} ELSE {Arg(n)}

MCShapes == {<<"one_block", "only_yield">>, <<"more_blocks", "only_yield">>, <<"one_block", "more">>}

\* The odd shapes are declined before anything else is looked at: one loop
\* of each is enough.
MCPrograms ==
    UNION {UNION {
       {[ins |-> b.ins, outs |-> b.outs, held |-> 1, back |-> b.back,
         init |-> init, chooser |-> c, cond |-> g, next |-> n,
         arms |-> (t :> yes) @@ (f :> no) @@ (Poison :> no),
         before |-> s[1], after |-> s[2]] :
           init \in IF s = <<"one_block", "only_yield">> THEN MCInit(b.ins)
                    ELSE {CHOOSE i \in MCInit(b.ins) : TRUE},
           c \in MCChooser(b.ins),
           g \in IF s = <<"one_block", "only_yield">> THEN MCCond(b.ins) ELSE {Const(f)},
           n \in IF s = <<"one_block", "only_yield">> THEN [1..b.outs -> MCNext(b.ins)]
                 ELSE {[j \in 1..b.outs |-> Result(1)]},
           yes \in MCArm(b.ins),
           no \in MCArm(b.ins)} : b \in MCBack} : s \in MCShapes}
=============================================================================

------------------------------ MODULE CAstWalk ------------------------------
(***************************************************************************)
(* The two walks the passes of CAstOptimizer.cpp share.  Most recurse into *)
(* the nested lists of every statement and then rewrite the list they were *)
(* given: Here is what a pass does to one list.  The others go through     *)
(* every expression, the operands before the node they belong to: Node is  *)
(* what a pass makes of one node.                                          *)
(***************************************************************************)
EXTENDS CAst
CONSTANTS Here(_), Node(_)

RECURSIVE Pass(_), Expression(_), Rewrite(_)
Pass(list) ==
  Here([i \in DOMAIN list |->
          [list[i] EXCEPT !.arms = [j \in DOMAIN @ |-> Pass(@[j])]]])

Expression(e) ==
  Node([e EXCEPT !.x = [i \in DOMAIN @ |-> Expression(@[i])]])

Rewrite(list) ==
  [i \in DOMAIN list |->
     [list[i] EXCEPT !.x = [j \in DOMAIN @ |-> Expression(@[j])],
                     !.arms = [j \in DOMAIN @ |-> Rewrite(@[j])]]]
=============================================================================

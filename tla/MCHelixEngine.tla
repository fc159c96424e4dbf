---------------------------- MODULE MCHelixEngine ----------------------------
(* A small engine session: two IR texts, the first of which names a function   *)
(* start and the second of which carries a string section, one section a       *)
(* caller may add, two addresses and one rename.                               *)
EXTENDS HelixEngine, TLC

CONSTANTS ir1, ir2, a1, a2, s1, s2

MCStringsOf == (ir1 :> <<>>) @@ (ir2 :> <<[span |-> {a1}, bytes |-> s1]>>)
MCStartsOf == (ir1 :> {a2}) @@ (ir2 :> {})
MCCallerSections == {[span |-> {a1, a2}, bytes |-> s2]}
MCStartTables == {{a1}}
MCTextSize == (ir1 :> 1) @@ (ir2 :> 2)
MCHastSize == (ir1 :> 2) @@ (ir2 :> 3)
==============================================================================

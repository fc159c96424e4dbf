------------------------- MODULE MCRegisterSSARename -------------------------
(* Every control-flow graph of four blocks with at most two distinct           *)
(* successors each, and every choice of writing blocks.                        *)
EXTENDS RegisterSSARename

MCSuccessors == {s \in UNION {[1..n -> Blocks \ {Entry}] : n \in 0..2} :
                    Cardinality(SetOf(s)) = Len(s)}
==============================================================================

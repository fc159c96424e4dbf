--------------------------- MODULE MCInterProcTypes ---------------------------
(* Two functions: f reads RCX as ECX on entry and in full later, and RDX once; *)
(* g reads RCX once. Up to two arguments pass any read, or a value without a     *)
(* type, to either function; one spelling is one the pass does not know.      *)
EXTENDS InterProcTypes

CONSTANTS f, g

MCScalars == {"void", "bool", "int8_t", "int16_t", "int32_t", "int64_t",
              "uint8_t", "uint16_t", "uint32_t", "uint64_t"}

MCReads == <<[func |-> f, param |-> 0, entry |-> TRUE, width |-> 32],
             [func |-> f, param |-> 0, entry |-> FALSE, width |-> 64],
             [func |-> f, param |-> 1, entry |-> TRUE, width |-> 64],
             [func |-> g, param |-> 0, entry |-> TRUE, width |-> 64]>>

Passed == {[callee |-> c, param |-> 0, value |-> v,
            width |-> IF v = 0 THEN 64 ELSE MCReads[v].width] :
               c \in {f, g}, v \in 0..4}
Ignored == {[callee |-> NoFunction, param |-> 0, value |-> 1, width |-> 64],
            [callee |-> g, param |-> 4, value |-> 1, width |-> 64]}

MCPrograms == {<<>>} \cup {<<a>> : a \in Passed \cup Ignored}
              \cup {<<a, b>> : a \in Passed, b \in Passed}
===============================================================================

--------------------------- MODULE R4L1Filter_MC ---------------------------
(* Lines of two sectors of two bytes; kernels with one or two allocations, *)
(* some cut short inside a line, and lists that are refused.               *)
EXTENDS R4L1Filter

A(i, base, bytes) == [id |-> i, base |-> base, bytes |-> bytes]

MCDeclared == {<<A(1, 4, 15)>>,
               <<A(2, 12, 3), A(1, 4, 8)>>,
               <<A(1, 6, 4)>>, <<>>}
MCIndex == [line \in Line |-> 0]
MCWays == [shared \in {32, 64, 100} |->
             CASE shared = 32 -> 3 [] shared = 64 -> 2 [] shared = 100 -> 1]
=============================================================================

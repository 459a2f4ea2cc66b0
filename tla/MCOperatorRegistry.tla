------------------------- MODULE MCOperatorRegistry -------------------------
(* Two operators; the process itself sponsors as the one that is registered, *)
(* which always reports funds, while the other one registers and may not.    *)
EXTENDS OperatorRegistry, TLC

CONSTANTS a, b, r1, r2

Permuted == Permutations(Requests)

Funds == [o \in Operators |-> IF o = Self THEN {TRUE} ELSE BOOLEAN]

=============================================================================

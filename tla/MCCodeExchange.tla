--------------------------- MODULE MCCodeExchange ---------------------------
(* CodeExchange for TLC: requests are interchangeable. *)
EXTENDS CodeExchange, TLC

Symmetry == Permutations(Request)

Unlimited == -1

=============================================================================

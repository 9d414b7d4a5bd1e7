--------------------------- MODULE MCIdempotency ---------------------------
(* Small instances of Idempotency for TLC. *)
EXTENDS Idempotency, TLC

Symmetry == Permutations(Attempts) \cup Permutations(Clients) \cup Permutations(Bodies)
=============================================================================

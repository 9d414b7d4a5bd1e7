----------------------------- MODULE MCJobCards -----------------------------
(* Small instances of JobCards for TLC. *)
EXTENDS JobCards, TLC

Symmetry == Permutations(Txs) \cup Permutations(Techs)
=============================================================================

---------------------------- MODULE MCSalesLedger ----------------------------
(* Small instances of SalesLedger for TLC. *)
EXTENDS SalesLedger, TLC

\* Cards, contents, payments and transactions are interchangeable.
Symmetry ==
  Permutations(Cards) \cup Permutations(Contents) \cup Permutations(Payments) \cup Permutations(Txs)
=============================================================================

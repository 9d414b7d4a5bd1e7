----------------------------- MODULE MCCashDay -----------------------------
(* A small instance of CashDay for TLC. *)
EXTENDS CashDay_proofs
=============================================================================

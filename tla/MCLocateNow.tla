----------------------------- MODULE MCLocateNow -----------------------------
(* A small instance of LocateNow for TLC. *)
EXTENDS LocateNow
=============================================================================

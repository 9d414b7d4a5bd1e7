----------------------------- MODULE MCHeldWakes -----------------------------
(* Small instances of HeldWakes for TLC. *)
EXTENDS HeldWakes
=============================================================================

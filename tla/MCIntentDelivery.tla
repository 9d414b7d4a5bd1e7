-------------------------- MODULE MCIntentDelivery --------------------------
(* Small instances of IntentDelivery for TLC. *)
EXTENDS IntentDelivery, TLC

Symmetry == Permutations(Attempts) \cup Permutations(Clients) \cup Permutations(Keys)
=============================================================================

---------------------------- MODULE MCRegisters ----------------------------
(* Small instances of Registers for TLC. *)
EXTENDS Registers, TLC

\* The sets have two members each: leave them, or swap them.
Swap(S) == [i \in S |-> CHOOSE j \in S : j # i]
Turn(f) == {f, [i \in DOMAIN f |-> i]}

\* Nothing tells two members of a set apart.  Sets may be turned together, a subset of
\* what is sound, because a behaviour writes one group of registers.
Symmetry ==
  Turn(Swap(Units) @@ Swap(Contracts) @@ Swap(Companies) @@ Swap(Wares))
    \cup Turn(Swap(Serials) @@ Swap(Names)) \cup Turn(Swap(Sites) @@ Swap(Staff))
    \cup Turn(Swap(Txs))
=============================================================================

---------------------------- MODULE NumberSeries ----------------------------
(***************************************************************************)
(* What allocateNumber and the row of sequences behind it promise to the   *)
(* documents of one kind, when the draw is part of the transaction that    *)
(* writes the document (lib/sequences.ts:59-66): each takes the next       *)
(* number at once with its own row, and keeps it.                          *)
(***************************************************************************)
EXTENDS Integers

CONSTANTS Documents, None

VARIABLES
  number,   \* number[d]: the number document d carries, or None
  count     \* sequences.current_value

Init == number = [d \in Documents |-> None] /\ count = 0

Issue(d) ==
  /\ number[d] = None
  /\ count' = count + 1
  /\ number' = [number EXCEPT ![d] = count']

Next == \E d \in Documents : Issue(d)

Spec == Init /\ [][Next]_<<number, count>>
=============================================================================

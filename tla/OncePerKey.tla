----------------------------- MODULE OncePerKey -----------------------------
(***************************************************************************)
(* What the replay guard promises to the code behind it, without claims,   *)
(* windows, transactions or requests (plugins/idempotency.ts:11-45): a key *)
(* is answered by one complete run of the handler, and stays answered by   *)
(* it until the prune forgets the key altogether.                          *)
(***************************************************************************)
EXTENDS Integers

CONSTANTS
  Keys, Bodies,
  NStmts,      \* writes of one run
  None,
  MaxRuns, MaxEpoch

VARIABLES
  answer,      \* answer[k]: the run and the body that answered k, or None
  epoch,       \* how often k has been forgotten
  done         \* the writes that happened

Write(k, r, s, h) == [key |-> k, run |-> r, stmt |-> s, hash |-> h]

Init ==
  /\ answer = [k \in Keys |-> None]
  /\ epoch = [k \in Keys |-> 0]
  /\ done = {}

\* All the writes of one run, never used before, and its answer, at once.
Run(k, r, h) ==
  /\ answer[k] = None
  /\ \A x \in done : x.write.run # r
  /\ answer' = [answer EXCEPT ![k] = [run |-> r, hash |-> h]]
  /\ done' = done \cup {[write |-> Write(k, r, s, h), epoch |-> epoch[k]] : s \in 1 .. NStmts}
  /\ UNCHANGED epoch

\* The prune.
Forget(k) ==
  /\ answer[k] # None
  /\ epoch[k] < MaxEpoch
  /\ answer' = [answer EXCEPT ![k] = None]
  /\ epoch' = [epoch EXCEPT ![k] = @ + 1]
  /\ UNCHANGED done

Next ==
  \E k \in Keys :
     \/ \E r \in 1 .. MaxRuns, h \in Bodies : Run(k, r, h)
     \/ Forget(k)

Spec == Init /\ [][Next]_<<answer, epoch, done>>
=============================================================================

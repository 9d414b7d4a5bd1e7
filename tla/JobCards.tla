------------------------------ MODULE JobCards ------------------------------
(***************************************************************************)
(* The job card: raised, assigned one by one or in bulk, stepped,          *)
(* rescheduled, cancelled with or without a successor, completed           *)
(* (apps/api/src/modules/jobs/service.ts), and the deactivation of a       *)
(* technician that asks for his open cards (modules/employees/service.ts). *)
(*                                                                         *)
(* Every operation is a READ COMMITTED transaction that takes its cards    *)
(* with SELECT ... FOR UPDATE, decides on what it read, writes, and        *)
(* commits or is lost; what it writes is seen by nobody before.  The       *)
(* transactions interleave statement by statement.                         *)
(***************************************************************************)
EXTENDS Integers, Sequences, FiniteSets

CONSTANTS
  Jobs,       \* ids of cards; ordered as the uuids are
  Techs,      \* technicians
  Txs,        \* slots for operations in progress
  Keyed,      \* whether the request carries an Idempotency-Key: then the operation is
              \* a SAVEPOINT of the request's transaction, which commits after it
  None,
  Sent,       \* bound: the operations clients request
  MaxVersion  \* bound: version of a card

VARIABLES
  card,       \* card[j]: the committed row of job_cards, or None
  trail,      \* trail[j]: the committed job_events of the card, in order
  closed,     \* the rows of job_completions and job_cancellations
  active,     \* technicians with employees.is_active
  seq,        \* sequences.current_value of the year's job numbers
  lock,       \* lock[j]: the transaction that holds the row
  seqLock,    \* the transaction that holds the row of sequences
  tx          \* tx[t]: the operation t runs, or None

vars == <<card, trail, closed, active, seq, lock, seqLock, tx>>

Statuses == {"unassigned", "assigned", "en_route", "in_progress", "completed", "cancelled"}
Open == {"unassigned", "assigned", "en_route", "in_progress"}
\* A card somebody is on and that is not closed.
Held == Open \ {"unassigned"}
Versions == 1 .. MaxVersion
\* A number is kept only with the card it is given to, so there are no more of them.
Numbers == 1 .. Cardinality(Jobs)

Card == [status : Statuses, by : Techs \cup {None}, version : Versions, number : Numbers]
Event == [from : Statuses \cup {None}, to : Statuses]
Closure == [job : Jobs, kind : {"completed", "cancelled"}, successor : Jobs \cup {None}]

\* "renew" is a cancellation with rescheduleTo; "en_route" and "in_progress" are the
\* moves of the status endpoint.
CardOps == {"assign", "bulk", "en_route", "in_progress", "reschedule", "cancel", "renew", "complete"}
Ops == CardOps \cup {"create", "deactivate"}
Phases == {"asked", "locking", "numbering", "written", "committed", "told"}

PartOf(S) == UNION {[D -> S] : D \in SUBSET Jobs}

\* An operation in progress.  who: the technician it names, or who acts (None is the
\* office); seen: the cards asked for and their If-Match versions; todo: those not
\* locked yet; read: the row each accepted card had under the lock; fresh, number: the
\* card it inserts.
Tx == [op : Ops, phase : Phases, who : Techs \cup {None}, seen : PartOf(Versions),
       todo : SUBSET Jobs, read : PartOf(Card), fresh : Jobs \cup {None},
       number : Numbers \cup {None}]

ASSUME JobsAssumption ==
  /\ Jobs \subseteq Nat /\ IsFiniteSet(Jobs)
  /\ Keyed \in BOOLEAN
  /\ Sent \subseteq Ops
  /\ MaxVersion \in Nat \ {0}
  /\ None \notin Jobs \cup Techs \cup Txs \cup Nat \cup Statuses
  /\ None \notin Card /\ None \notin Tx

TypeOK ==
  /\ card \in [Jobs -> Card \cup {None}]
  /\ trail \in [Jobs -> Seq(Event)]
  /\ closed \subseteq Closure
  /\ active \subseteq Techs
  /\ seq \in Numbers \cup {0}
  /\ lock \in [Jobs -> Txs \cup {None}] /\ seqLock \in Txs \cup {None}
  /\ tx \in [Txs -> Tx \cup {None}]

Init ==
  /\ card = [j \in Jobs |-> None] /\ trail = [j \in Jobs |-> <<>>]
  /\ closed = {}
  /\ active = Techs
  /\ seq = 0
  /\ lock = [j \in Jobs |-> None] /\ seqLock = None
  /\ tx = [t \in Txs |-> None]

rows == <<card, trail, closed, active, seq>>

-----------------------------------------------------------------------------
At(t, phase) == tx[t] # None /\ tx[t].phase = phase

\* The locks of a transaction go when it ends.
Unlock(t) ==
  /\ lock' = [j \in Jobs |-> IF lock[j] = t THEN None ELSE lock[j]]
  /\ seqLock' = IF seqLock = t THEN None ELSE seqLock

\* A refusal throws: ROLLBACK.
Refuse(t) == Unlock(t) /\ tx' = [tx EXCEPT ![t] = None] /\ UNCHANGED rows

\* A request arrives.  Its If-Match versions are ones its sender has read; where the
\* operation carries none, they are 1.
Ask(t, op, who, seen) ==
  /\ tx[t] = None
  /\ \A j \in DOMAIN seen :
       /\ card[j] # None
       /\ IF op \in {"assign", "bulk", "reschedule"} THEN seen[j] <= card[j].version ELSE seen[j] = 1
  /\ CASE op \in {"create", "deactivate"} -> DOMAIN seen = {}
       [] op = "bulk" -> DOMAIN seen # {}
       [] OTHER -> \E j \in Jobs : DOMAIN seen = {j}
  /\ op \in {"assign", "bulk", "deactivate"} => who # None
  /\ op \in {"create", "reschedule"} => who = None
  /\ tx' = [tx EXCEPT ![t] =
              [op |-> op, who |-> who, seen |-> seen, todo |-> DOMAIN seen,
               phase |-> CASE op \in {"assign", "bulk", "deactivate"} -> "asked"
                           [] op = "create" -> "numbering"
                           [] OTHER -> "locking",
               read |-> <<>>, fresh |-> None, number |-> None]]
  /\ UNCHANGED <<rows, lock, seqLock>>

\* findActiveTechnician: a plain SELECT, before any lock.
FindTechnician(t) ==
  /\ At(t, "asked") /\ tx[t].op \in {"assign", "bulk"}
  /\ \/ /\ tx[t].who \in active
        /\ tx' = [tx EXCEPT ![t].phase = "locking"]
        /\ UNCHANGED <<rows, lock, seqLock>>
     \/ tx[t].who \notin active /\ Refuse(t)

-----------------------------------------------------------------------------
(* What each operation asks of a card it has locked. *)

Own(x, r) == x.who = None \/ r.by = x.who
Seen(x, j, r) == r.version = x.seen[j]

\* Mutant: a dispatcher may take the card from a technician on site.
Allowed_OnSite(x, j, r) ==
  \/ x.op \in {"assign", "bulk"} /\ Seen(x, j, r) /\ r.status \in Open
  \/ x.op = "en_route" /\ Own(x, r) /\ r.status = "assigned"
  \/ x.op = "in_progress" /\ Own(x, r) /\ r.status \in {"assigned", "en_route"}
  \/ x.op = "reschedule" /\ Seen(x, j, r)
  \/ x.op \in {"cancel", "renew", "complete"} /\ Own(x, r) /\ r.status \in Held

\* assignmentRefusal, STATUS_MOVES within the shared graph, and the refusals of
\* reschedule, cancel and complete.  A card nobody is on is not cancelled either: the
\* constraint job_assignment_coherent fails the UPDATE.
Allowed(x, j, r) ==
  \/ x.op \in {"assign", "bulk"} /\ Seen(x, j, r) /\ r.status \in {"unassigned", "assigned", "en_route"}
  \/ x.op = "en_route" /\ Own(x, r) /\ r.status = "assigned"
  \/ x.op = "in_progress" /\ Own(x, r) /\ r.status \in {"assigned", "en_route"}
  \/ x.op = "reschedule" /\ Seen(x, j, r)
  \/ x.op \in {"cancel", "renew", "complete"} /\ Own(x, r) /\ r.status \in Held

\* The phase after the last card is locked.
Locked(x) ==
  CASE x.todo # {} -> "locking"
    [] x.todo = {} /\ x.op = "renew" -> "numbering"
    [] OTHER -> "written"

\* One card of the operation is locked and decided on: taken, skipped by a bulk, or
\* the whole operation is refused.  The bound on versions counts as a refusal.
Decide(t, j) ==
  LET x    == [tx[t] EXCEPT !.todo = @ \ {j}]
      ok   == Allowed(x, j, card[j]) /\ card[j].version < MaxVersion
      took == [x EXCEPT !.read = [i \in DOMAIN x.read \cup {j} |->
                                    IF i = j THEN card[j] ELSE x.read[i]]]
      done == IF ok THEN took ELSE x IN
  IF ok \/ x.op = "bulk"
  THEN /\ tx' = [tx EXCEPT ![t] = [done EXCEPT !.phase = Locked(x)]]
       /\ lock' = [lock EXCEPT ![j] = t]
       /\ UNCHANGED <<rows, seqLock>>
  ELSE Refuse(t)

\* Mutant: the cards of a bulk are locked in the order the picker sent.
LockNext_AnyOrder(t) ==
  /\ At(t, "locking")
  /\ \E j \in tx[t].todo : lock[j] = None /\ Decide(t, j)

\* Mutant: the card is read without FOR UPDATE.
LockNext_NoLock(t) ==
  /\ At(t, "locking")
  /\ \E j \in tx[t].todo : (\A i \in tx[t].todo : j <= i) /\ Decide(t, j)

\* lockJobFor...: SELECT ... FOR UPDATE, the cards of a bulk in id order.
LockNext(t) ==
  /\ At(t, "locking")
  /\ \E j \in tx[t].todo :
       /\ \A i \in tx[t].todo : j <= i
       /\ lock[j] = None
       /\ Decide(t, j)

\* Ids no card has or is about to have.
Spare == {j \in Jobs : card[j] = None /\ \A u \in Txs : tx[u] # None => tx[u].fresh # j}

\* Mutant: the number is read and written back by separate statements.
Allocate_NoLock(t) ==
  /\ At(t, "numbering")
  /\ \/ /\ \E j \in Spare : tx' = [tx EXCEPT ![t].fresh = j, ![t].number = seq + 1, ![t].phase = "written"]
        /\ UNCHANGED <<rows, lock, seqLock>>
     \/ Spare = {} /\ Refuse(t)

\* allocateNumber: the upsert of next_in_sequence keeps the row until the transaction
\* ends.  The card inserted next has an id of its own; the bound on cards refuses it.
Allocate(t) ==
  /\ At(t, "numbering") /\ seqLock = None
  /\ \/ /\ \E j \in Spare : tx' = [tx EXCEPT ![t].fresh = j, ![t].number = seq + 1, ![t].phase = "written"]
        /\ seqLock' = t
        /\ UNCHANGED <<rows, lock>>
     \/ Spare = {} /\ Refuse(t)

-----------------------------------------------------------------------------
(* What it writes. *)

Bump(r) == [r EXCEPT !.version = @ + 1]
After(x, r) ==
  CASE x.op \in {"assign", "bulk"} -> Bump([r EXCEPT !.status = "assigned", !.by = x.who])
    [] x.op \in {"en_route", "in_progress"} -> Bump([r EXCEPT !.status = x.op])
    [] x.op = "reschedule" -> Bump(r)
    [] x.op \in {"cancel", "renew"} -> Bump([r EXCEPT !.status = "cancelled"])
    [] x.op = "complete" -> Bump([r EXCEPT !.status = "completed"])

NewCard(n) == [status |-> "unassigned", by |-> None, version |-> 1, number |-> n]

\* The event names the status that was read.
EventOf(x, j) == [from |-> x.read[j].status, to |-> After(x, x.read[j]).status]
Created == [from |-> None, to |-> "unassigned"]

Closures(x) ==
  {[job |-> j, kind |-> IF x.op = "complete" THEN "completed" ELSE "cancelled", successor |-> x.fresh] :
     j \in IF x.op \in {"cancel", "renew", "complete"} THEN DOMAIN x.read ELSE {}}

\* The cards whose technicians are woken.
Wakes(x) == {j \in DOMAIN x.read : x.op \in {"assign", "bulk", "cancel", "renew"}}

\* The transaction commits.  Under a key this is settle's COMMIT, after the operation
\* returned.
Commit(t) ==
  LET x == tx[t] IN
  /\ At(t, IF Keyed THEN "told" ELSE "written")
  /\ card' = [j \in Jobs |-> IF j \in DOMAIN x.read THEN After(x, card[j])
                             ELSE IF j = x.fresh THEN NewCard(x.number) ELSE card[j]]
  /\ trail' = [j \in Jobs |-> IF j \in DOMAIN x.read THEN Append(trail[j], EventOf(x, j))
                              ELSE IF j = x.fresh THEN <<Created>> ELSE trail[j]]
  /\ closed' = closed \cup Closures(x)
  /\ active' = IF x.op = "deactivate" THEN active \ {x.who} ELSE active
  /\ seq' = IF x.number # None THEN x.number ELSE seq
  /\ tx' = [tx EXCEPT ![t] = IF Keyed THEN None ELSE [x EXCEPT !.phase = "committed"]]
  /\ Unlock(t)

\* withTransaction has returned and the wakes leave, if the operation has any.
Notify(t) ==
  /\ At(t, IF Keyed THEN "written" ELSE "committed")
  /\ tx' = [tx EXCEPT ![t].phase = "told"]
  /\ UNCHANGED <<rows, lock, seqLock>>

Answered(t) == ~Keyed /\ At(t, "told") /\ Refuse(t)

\* The owner deactivates a technician: his open cards are read, without a lock and
\* before the UPDATE that it guards.
CheckOpenWork(t) ==
  LET open == {j \in Jobs : card[j] # None /\ card[j].by = tx[t].who /\ card[j].status \in Open} IN
  /\ At(t, "asked") /\ tx[t].op = "deactivate"
  /\ \/ open # {} /\ Refuse(t)
     \/ /\ open = {} /\ tx' = [tx EXCEPT ![t].phase = "written"]
        /\ UNCHANGED <<rows, lock, seqLock>>

Reactivate(e) ==
  /\ e \notin active /\ active' = active \cup {e}
  /\ UNCHANGED <<card, trail, closed, seq, lock, seqLock, tx>>

\* The transaction fails before it commits, or the process dies: what was written is
\* lost, and after the commit only the wake.
Rollback(t) == tx[t] # None /\ Refuse(t)

-----------------------------------------------------------------------------
Step(t) ==
  \/ FindTechnician(t) \/ LockNext(t) \/ Allocate(t) \/ CheckOpenWork(t)
  \/ Commit(t) \/ Notify(t) \/ Answered(t)

Arrival ==
  \/ \E t \in Txs, op \in Sent, who \in Techs \cup {None}, seen \in PartOf(Versions) :
       Ask(t, op, who, seen)
  \/ \E e \in Techs : Reactivate(e)

Next == Arrival \/ \E t \in Txs : Step(t) \/ Rollback(t)

Spec == Init /\ [][Next]_vars

\* A statement that can run does, and PostgreSQL queues the waiters of a row.
FairSpec == Spec /\ \A t \in Txs : SF_vars(Step(t))

-----------------------------------------------------------------------------
(* Properties. *)

\* The trail replays to the card: it opens with the creation, every event starts where
\* the one before it ended, the last one ends in the card's status, and no move or
\* event is missing, however the operations raced (service.ts:556-609, "one locked
\* row, one legal move, one event").
TrailIsChain ==
  \A j \in Jobs : card[j] # None =>
     /\ Len(trail[j]) = card[j].version
     /\ trail[j][1] = Created
     /\ \A i \in 2 .. Len(trail[j]) : trail[j][i].from = trail[j][i - 1].to
     /\ trail[j][Len(trail[j])].to = card[j].status

\* A card ends once and one way: it has one closure row exactly when it is closed, of
\* its own kind, and a successor that is named was raised with it, for no other card.
ClosedOnce ==
  /\ \A j \in Jobs :
       {c.kind : c \in {d \in closed : d.job = j}} =
          IF card[j] = None \/ card[j].status \in Open THEN {} ELSE {card[j].status}
  /\ \A c, d \in closed :
       /\ c.job = d.job => c = d
       /\ c.successor # None => /\ card[c.successor] # None /\ c.successor # c.job
                                /\ c.successor = d.successor => c = d

\* No two cards carry one number, and none is ahead of the sequence.
NumbersDistinct ==
  \A i, j \in Jobs : (card[i] # None /\ card[j] # None) =>
     card[i].number <= seq /\ (card[i].number = card[j].number => i = j)

\* The cards implement a series of numbers: each is inserted together with the move of the
\* sequence to its number, the next one, which it keeps, whatever else draws, is refused or
\* is lost meanwhile (allocateNumber within the transaction of createJob).
NumberOf(f) == [j \in DOMAIN f |-> IF f[j] = None THEN None ELSE f[j].number]
Series == INSTANCE NumberSeries WITH Documents <- Jobs, number <- NumberOf(card), count <- seq
NumbersInOrder == Series!Spec

\* Closed is closed, and a technician who has started work keeps the card until he or
\* the office closes it: no assignment, single or bulk, takes it from under him.
NobodyOusted ==
  [][\A j \in Jobs : (card[j] # None /\ card'[j] # card[j]) =>
       /\ card[j].status \notin Open =>
            card'[j].status = card[j].status /\ card'[j].by = card[j].by
       /\ card[j].status = "in_progress" =>
            card'[j].by = card[j].by /\ card'[j].status \notin {"assigned", "en_route", "unassigned"}]_vars

\* A technician moves only a card that is his when the move commits, and a dispatcher
\* replaces only the version he saw: nobody acts on a card that was reassigned,
\* rescheduled or closed since he looked.
ActsOnWhatIs ==
  [][\A t \in Txs, j \in Jobs :
       (tx[t] # None /\ j \in DOMAIN tx[t].read /\ tx'[t] # tx[t] /\ card'[j] # card[j]) =>
          /\ tx[t].op \in {"en_route", "in_progress", "cancel", "renew", "complete"} =>
               Own(tx[t], card[j])
          /\ tx[t].op \in {"assign", "bulk", "reschedule"} => Seen(tx[t], j, card[j])]_vars

\* A wake that left announces something that is committed (service.ts:707-710, "a push
\* announcing a cancellation that then rolled back would be a lie").  It does so where
\* the operation runs in a transaction of its own.  Under a key, which every mutation of
\* the app carries, the wake leaves before settle's COMMIT, which may never come.
WakeIsTrue ==
  \A t \in Txs : At(t, "told") =>
     \A j \in Wakes(tx[t]) : card[j].version > tx[t].read[j].version

\* The check and the write it guards read one database state
\* (employees/repo.ts:172-178): no open card is left with a technician who was
\* deactivated.
NoOrphanWork ==
  \A j \in Jobs : (card[j] # None /\ card[j].status \in Held) => card[j].by \in active

\* No operation waits for ever: the cards of a bulk are taken in id order and the
\* sequence last, so no two wait for each other.
EveryTxEnds == \A t \in Txs : tx[t] # None ~> tx[t] = None
=============================================================================

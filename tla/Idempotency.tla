---------------------------- MODULE Idempotency ----------------------------
(***************************************************************************)
(* The replay guard in front of every mutation route                       *)
(* (apps/api/src/plugins/idempotency.ts) and the request transaction the   *)
(* handlers join (db/ambient-tx.ts, db/tx.ts).                             *)
(*                                                                         *)
(* One row of idempotency_keys per key.  A request claims the row in a     *)
(* statement of its own, opens a transaction on a pool client, lets the    *)
(* handler write in it, and settles: the stored response and the writes    *)
(* commit together, or both go.  Every step between two awaits is one      *)
(* action, so requests under the same key interleave statement by          *)
(* statement.  A key here stands for the pair (employee_id, key).          *)
(***************************************************************************)
EXTENDS Integers, Sequences

CONSTANTS
  Keys,       \* idempotency keys
  Attempts,   \* slots for requests in flight; a slot is reused once answered
  Bodies,     \* request hashes
  Clients,    \* connections of the pool
  NStmts,     \* write statements of one handler
  Aborts,     \* whether the framework can report a client gone mid-handler
  Direct,     \* whether the handler writes through getPool(), not the request tx
  None,
  MaxRuns,    \* bound: claims granted, over all keys
  MaxEpoch    \* bound: stored responses pruned, per key

ASSUME GuardAssumption ==
  /\ NStmts \in Nat \ {0}
  /\ MaxRuns \in Nat /\ MaxEpoch \in Nat
  /\ Aborts \in BOOLEAN /\ Direct \in BOOLEAN
  /\ None \notin Clients /\ None \notin Nat
  /\ None \notin Attempts /\ None \notin Keys
  /\ None \notin [hash : Bodies, token : Nat \cup {None}, resp : Nat \cup {None}]
  /\ None \notin [run : Nat, hash : Bodies]

VARIABLES
  row,      \* row[k]: the idempotency_keys row, or None
  aged,     \* aged[k]: the row's locked_at is older than the in-flight window
  expired,  \* expired[k]: the row is past expires_at
  epoch,    \* epoch[k]: stored responses of k the prune has deleted
  runs,     \* claims granted so far; the next locked_at
  pc,       \* where each request is in the plugin
  key,      \* the request's Idempotency-Key
  body,     \* the request's request_hash
  claim,    \* WorkState.claimToken, or the locked_at a loser observed
  conn,     \* WorkState.client
  stmt,     \* the handler's next statement; 0 is its SAVEPOINT
  reply,    \* what the server answered the slot's last request
  owner,    \* owner[c]: the request whose transaction is open on c
  pend,     \* pend[c]: statements in effect in the transaction open on c
  saves,    \* saves[c]: its savepoints, all named nested_tx, the latest first:
            \*   what was pending at each
  broken,   \* broken[c]: a statement failed on c, and the transaction heeds
            \*   nothing but a ROLLBACK [TO] or a COMMIT, which rolls back
  applied   \* business writes that are committed

guardVars == <<row, aged, expired, epoch, runs>>
reqVars   == <<pc, key, body, claim, conn, stmt, reply>>
txVars    == <<pend, saves, broken>>
dbVars    == <<owner, pend, saves, broken, applied>>
vars      == <<guardVars, reqVars, dbVars>>

Tokens == 1 .. MaxRuns
Stmts  == 1 .. NStmts
Row    == [hash : Bodies, token : Tokens \cup {None}, resp : Tokens \cup {None}]

\* A business write: which run of which key made it, and of which body.
Write == [key : Keys, run : Tokens, stmt : Stmts, hash : Bodies]
\* What is pending: business writes, and STORE_RESPONSE as the statement after
\* the handler's last.
Pending == [key : Keys, run : Tokens, stmt : 1 .. NStmts + 1, hash : Bodies]

\* A request with its transaction open: the handler runs, it returned, it threw,
\* the response is stored.
Working == {"work", "done", "failed", "stored"}
\* A handler whose client vanished: it runs on, it threw, it has rolled back to
\* its savepoint.
Straying == {"stray", "undo", "undone"}
Pcs == {"idle", "claim", "lost", "again", "stale", "begin", "free"} \cup Straying \cup Working

\* What a request is answered: 2xx, the stored response, 409 in flight, 422 key
\* reused, another 4xx, a 5xx, or nothing.
Kinds == {"none", "ok", "replay", "inflight", "reused", "refused", "error"}
Unanswered == [kind |-> "none", run |-> None]
Answer(k, r) == [kind |-> k, run |-> r]

WriteOf(a) == [key |-> key[a], run |-> claim[a], stmt |-> stmt[a], hash |-> body[a]]
StoreOf(a) == [WriteOf(a) EXCEPT !.stmt = NStmts + 1]
\* A committed write also remembers the epoch of its key it was committed in.
Commit(w) == [write |-> w, epoch |-> epoch[w.key]]

Unlocked(k) == row[k] # None /\ row[k].resp = None
\* The predicate every later statement repeats: the row still carries this
\* locked_at and no response.
Holds(a) == Unlocked(key[a]) /\ row[key[a]].token = claim[a]

\* An uncommitted STORE_RESPONSE holds the row's lock: a statement that would write
\* the row waits.
Locked(k) == \E c \in Clients : \E w \in pend[c] : w.key = k /\ w.stmt \notin Stmts

TypeOK ==
  /\ row \in [Keys -> Row \cup {None}]
  /\ aged \in [Keys -> BOOLEAN] /\ expired \in [Keys -> BOOLEAN]
  /\ epoch \in [Keys -> 0 .. MaxEpoch]
  /\ runs \in 0 .. MaxRuns
  /\ pc \in [Attempts -> Pcs]
  /\ key \in [Attempts -> Keys] /\ body \in [Attempts -> Bodies]
  /\ claim \in [Attempts -> Tokens \cup {None}]
  /\ conn \in [Attempts -> Clients \cup {None}]
  /\ stmt \in [Attempts -> 0 .. NStmts + 2]
  /\ reply \in [Attempts -> [kind : Kinds, run : Tokens \cup {None}]]
  /\ owner \in [Clients -> Attempts \cup {None}]
  /\ pend \in [Clients -> SUBSET Pending]
  /\ saves \in [Clients -> Seq(SUBSET Pending)] /\ broken \in [Clients -> BOOLEAN]
  /\ applied \subseteq [write : Write, epoch : 0 .. MaxEpoch]

Init ==
  /\ row = [k \in Keys |-> None]
  /\ aged = [k \in Keys |-> FALSE] /\ expired = [k \in Keys |-> FALSE]
  /\ epoch = [k \in Keys |-> 0]
  /\ runs = 0
  /\ pc = [a \in Attempts |-> "idle"]
  /\ key \in [Attempts -> Keys] /\ body \in [Attempts -> Bodies]
  /\ claim = [a \in Attempts |-> None] /\ conn = [a \in Attempts |-> None]
  /\ stmt = [a \in Attempts |-> 0]
  /\ reply = [a \in Attempts |-> Unanswered]
  /\ owner = [c \in Clients |-> None] /\ pend = [c \in Clients |-> {}]
  /\ saves = [c \in Clients |-> <<>>] /\ broken = [c \in Clients |-> FALSE]
  /\ applied = {}

-----------------------------------------------------------------------------
(* Effects shared by the actions. *)

Goto(a, to) == pc' = [pc EXCEPT ![a] = to]

\* The request is answered, or nobody is left to answer: its state goes and its
\* slot is free.
Finish(a, r) ==
  /\ Goto(a, "idle")
  /\ reply' = [reply EXCEPT ![a] = r]
  /\ claim' = [claim EXCEPT ![a] = None]
  /\ conn' = [conn EXCEPT ![a] = None]
  /\ stmt' = [stmt EXCEPT ![a] = 0]

\* The statement sets locked_at = now() and the request owns the claim.
Take(a, r) ==
  /\ runs < MaxRuns
  /\ runs' = runs + 1
  /\ row' = [row EXCEPT ![key[a]] = r]
  /\ aged' = [aged EXCEPT ![key[a]] = FALSE]
  /\ claim' = [claim EXCEPT ![a] = runs + 1]
  /\ Goto(a, "begin")
  /\ UNCHANGED <<epoch, key, body, conn, stmt, reply, dbVars>>

\* A client the pool can give to one more statement.
PoolHasClient == \E c \in Clients : owner[c] = None /\ ~broken[c]

\* client.release() of the request's client, when it still has one.
FreeClient(a) == owner' = [c \in Clients |-> IF owner[c] = a THEN None ELSE owner[c]]

\* ROLLBACK, or the end of a COMMIT: nothing is pending.
EndTx(a) ==
  /\ pend' = [pend EXCEPT ![conn[a]] = {}]
  /\ saves' = [saves EXCEPT ![conn[a]] = <<>>]
  /\ broken' = [broken EXCEPT ![conn[a]] = FALSE]

\* SAVEPOINT nested_tx, and RELEASE SAVEPOINT nested_tx, which takes the latest of
\* that name, whoever set it.
PushSave(c) == saves' = [saves EXCEPT ![c] = <<pend[c]>> \o @]
PopSave(c) == ~broken[c] /\ saves[c] # <<>> /\ saves' = [saves EXCEPT ![c] = Tail(@)]

DropRow(k) ==
  /\ row' = [row EXCEPT ![k] = None]
  /\ aged' = [aged EXCEPT ![k] = FALSE]
  /\ expired' = [expired EXCEPT ![k] = FALSE]

\* Mutant: the DELETE has no ownership predicate.
ReleaseClaim_Any(a) ==
  /\ PoolHasClient /\ DropRow(key[a])
  /\ UNCHANGED <<epoch, runs>>

\* releaseClaim: RELEASE_CLAIM_SQL deletes only the row that still carries this
\* claim.  It runs on a second client of the pool; when there is none, or the
\* query fails, the failure is only logged.
ReleaseClaim(a) ==
  /\ \/ PoolHasClient /\ Holds(a) /\ DropRow(key[a])
     \/ UNCHANGED <<row, aged, expired>>
  /\ UNCHANGED <<epoch, runs>>

-----------------------------------------------------------------------------
(* idempotencyPreHandler: the claim, and what a lost claim leads to. *)

Arrive(a, k, h) ==
  /\ pc[a] = "idle"
  /\ Goto(a, "claim")
  /\ key' = [key EXCEPT ![a] = k] /\ body' = [body EXCEPT ![a] = h]
  /\ reply' = [reply EXCEPT ![a] = Unanswered]
  /\ UNCHANGED <<guardVars, claim, conn, stmt, dbVars>>

\* Mutant: the takeover of an expired row does not spare a stored response.
Claimable_Expired(k) == row[k] = None \/ expired[k]

\* CLAIM_SQL grants the key: no row, or an expired one without a response.
Claimable(k) == row[k] = None \/ (expired[k] /\ row[k].resp = None)

ClaimWon(a) ==
  /\ pc[a] \in {"claim", "again"} /\ PoolHasClient
  /\ ~Locked(key[a]) /\ Claimable(key[a])
  /\ Take(a, [hash |-> body[a], token |-> runs + 1, resp |-> None])
  /\ expired' = [expired EXCEPT ![key[a]] = FALSE]

ClaimLost(a) ==
  /\ PoolHasClient /\ ~Locked(key[a]) /\ ~Claimable(key[a])
  /\ \/ /\ pc[a] = "claim"
        /\ Goto(a, "lost") /\ UNCHANGED <<claim, conn, stmt, reply>>
     \/ /\ pc[a] = "again"
        /\ Finish(a, Answer("inflight", None))
  /\ UNCHANGED <<guardVars, key, body, dbVars>>

\* Mutant: the replay is sent without comparing request hashes.
Fetch_NoHash(a) ==
  LET r == row[key[a]] IN
  /\ pc[a] = "lost" /\ PoolHasClient
  /\ \/ r = None /\ Goto(a, "again") /\ UNCHANGED <<claim, conn, stmt, reply>>
     \/ r # None /\ r.resp # None /\ Finish(a, Answer("replay", r.resp))
     \/ r # None /\ r.resp = None /\ Finish(a, Answer("inflight", None))
  /\ UNCHANGED <<guardVars, key, body, dbVars>>

\* Mutant: a claim is in flight however old it is.
Fetch_NeverStale(a) ==
  LET r == row[key[a]]
      mine == r # None /\ r.hash = body[a] IN
  /\ pc[a] = "lost" /\ PoolHasClient
  /\ \/ r = None /\ Goto(a, "again") /\ UNCHANGED <<claim, conn, stmt, reply>>
     \/ r # None /\ ~mine /\ Finish(a, Answer("reused", None))
     \/ mine /\ r.resp # None /\ Finish(a, Answer("replay", r.resp))
     \/ mine /\ r.resp = None /\ Finish(a, Answer("inflight", None))
  /\ UNCHANGED <<guardVars, key, body, dbVars>>

\* FETCH_SQL and the decision on what it read: the row has vanished, it is another
\* body's, it is answered, it is being worked, or its claim is stale.
Fetch(a) ==
  LET r == row[key[a]]
      mine == r # None /\ r.hash = body[a]
      stale == r.token = None \/ aged[key[a]] IN
  /\ pc[a] = "lost" /\ PoolHasClient
  /\ \/ r = None /\ Goto(a, "again") /\ UNCHANGED <<claim, conn, stmt, reply>>
     \/ r # None /\ ~mine /\ Finish(a, Answer("reused", None))
     \/ mine /\ r.resp # None /\ Finish(a, Answer("replay", r.resp))
     \/ mine /\ r.resp = None /\ ~stale /\ Finish(a, Answer("inflight", None))
     \/ /\ mine /\ r.resp = None /\ stale
        /\ Goto(a, "stale")
        /\ claim' = [claim EXCEPT ![a] = r.token]
        /\ UNCHANGED <<conn, stmt, reply>>
  /\ UNCHANGED <<guardVars, key, body, dbVars>>

\* RECLAIM_SQL, a compare-and-set on the locked_at the fetch read.
Reclaim(a) ==
  /\ pc[a] = "stale" /\ PoolHasClient
  /\ Holds(a) /\ claim[a] # None /\ ~Locked(key[a])
  /\ Take(a, [row[key[a]] EXCEPT !.token = runs + 1])
  /\ UNCHANGED expired

ReclaimLost(a) ==
  /\ pc[a] = "stale" /\ PoolHasClient
  /\ ~(Holds(a) /\ claim[a] # None)
  /\ Finish(a, Answer("inflight", None))
  /\ UNCHANGED <<guardVars, key, body, dbVars>>

\* Every client of the pool is taken and connectionTimeoutMillis passes.  A
\* statement of the preHandler throws; connect() in beginWork is outside its try,
\* so there the claim stays with nobody working it.
PoolTimeout(a) ==
  /\ pc[a] \in {"claim", "lost", "again", "stale", "begin"}
  /\ \A c \in Clients : owner[c] # None
  /\ Finish(a, Answer("error", None))
  /\ UNCHANGED <<guardVars, key, body, dbVars>>

\* A statement of the preHandler meets a client that was released with its broken
\* transaction open: it throws, and pg-pool closes the client.
PoolBroken(a, c) ==
  /\ pc[a] \in {"claim", "lost", "again", "stale"}
  /\ owner[c] = None /\ broken[c]
  /\ broken' = [broken EXCEPT ![c] = FALSE]
  /\ Finish(a, Answer("error", None))
  /\ UNCHANGED <<guardVars, key, body, owner, pend, saves, applied>>

-----------------------------------------------------------------------------
(* beginWork and the handler. *)

Begin(a, c) ==
  /\ pc[a] = "begin"
  /\ owner[c] = None /\ ~broken[c]
  /\ owner' = [owner EXCEPT ![c] = a]
  /\ conn' = [conn EXCEPT ![a] = c]
  /\ Goto(a, "work")
  /\ UNCHANGED <<guardVars, key, body, claim, stmt, reply, txVars, applied>>

\* BEGIN failed: the client is released and then the claim is.
BeginFails(a) ==
  /\ pc[a] = "begin" /\ \E c \in Clients : owner[c] = None
  /\ Goto(a, "free")
  /\ UNCHANGED <<guardVars, key, body, claim, conn, stmt, reply, dbVars>>

\* withTransaction inside the request transaction opens with a SAVEPOINT.
Savepoint(a) ==
  /\ pc[a] = "work" /\ stmt[a] = 0 /\ ~broken[conn[a]]
  /\ stmt' = [stmt EXCEPT ![a] = 1]
  /\ PushSave(conn[a])
  /\ UNCHANGED <<guardVars, pc, key, body, claim, conn, reply, owner, pend, broken, applied>>

\* Mutant: the handler runs on past its last statement.
Execute_Past(a) ==
  /\ pc[a] = "work" /\ stmt[a] > 0
  /\ stmt' = [stmt EXCEPT ![a] = @ + 1]
  /\ pend' = [pend EXCEPT ![conn[a]] = @ \cup {WriteOf(a)}]
  /\ UNCHANGED <<guardVars, pc, key, body, claim, conn, reply, owner, saves, broken, applied>>

\* One write of the handler, on the request's client or past it.
Execute(a) ==
  /\ pc[a] = "work" /\ stmt[a] \in Stmts
  /\ IF Direct THEN PoolHasClient ELSE ~broken[conn[a]]
  /\ stmt' = [stmt EXCEPT ![a] = @ + 1]
  /\ IF Direct
     THEN applied' = applied \cup {Commit(WriteOf(a))} /\ UNCHANGED pend
     ELSE pend' = [pend EXCEPT ![conn[a]] = @ \cup {WriteOf(a)}] /\ UNCHANGED applied
  /\ UNCHANGED <<guardVars, pc, key, body, claim, conn, reply, owner, saves, broken>>

\* Mutant: the reply is sent before the last write was awaited.
HandlerReturns_Early(a) ==
  /\ pc[a] = "work"
  /\ Goto(a, "done")
  /\ UNCHANGED <<guardVars, key, body, claim, conn, stmt, reply, dbVars>>

\* The handler returns a status below 400 after its last statement and the RELEASE
\* of its savepoint, or throws (or answers 400 and above) after any of them; its own
\* ROLLBACK TO then makes no difference to the ROLLBACK that follows.
HandlerReturns(a) ==
  /\ pc[a] = "work"
  /\ \/ stmt[a] = NStmts + 1 /\ PopSave(conn[a]) /\ Goto(a, "done")
     \/ Goto(a, "failed") /\ UNCHANGED saves
  /\ UNCHANGED <<guardVars, key, body, claim, conn, stmt, reply, owner, pend, broken, applied>>

-----------------------------------------------------------------------------
(* settle, on every rendered reply. *)

\* STORE_RESPONSE_SQL matches its row.
Store(a) ==
  /\ pc[a] = "done" /\ ~broken[conn[a]] /\ Holds(a)
  /\ pend' = [pend EXCEPT ![conn[a]] = @ \cup {StoreOf(a)}]
  /\ stmt' = [stmt EXCEPT ![a] = @ + 1]
  /\ Goto(a, "stored")
  /\ UNCHANGED <<guardVars, key, body, claim, conn, reply, owner, saves, broken, applied>>

\* STORE_RESPONSE_SQL throws in a transaction that is broken: the answer is a 500, and
\* the client goes back without a ROLLBACK.  Nothing of it can be committed any more.
StoreFails(a) ==
  /\ pc[a] = "done" /\ broken[conn[a]]
  /\ pend' = [pend EXCEPT ![conn[a]] = {}] /\ saves' = [saves EXCEPT ![conn[a]] = <<>>]
  /\ FreeClient(a)
  /\ Finish(a, Answer("error", None))
  /\ UNCHANGED <<guardVars, key, body, broken, applied>>

\* The pending STORE_RESPONSE, on the row it has locked.
Lands(a) == StoreOf(a) \in pend[conn[a]] /\ Holds(a)

\* COMMIT.  What is pending is committed, whoever wrote it; a broken transaction is
\* rolled back without an error.  The answer goes out either way.
SettleCommit(a) ==
  /\ pc[a] = "stored"
  /\ applied' = applied \cup
       {Commit(w) : w \in {v \in pend[conn[a]] : v.stmt \in Stmts /\ ~broken[conn[a]]}}
  /\ IF Lands(a) /\ ~broken[conn[a]]
     THEN /\ row' = [row EXCEPT ![key[a]] = [@ EXCEPT !.token = None, !.resp = claim[a]]]
          /\ aged' = [aged EXCEPT ![key[a]] = FALSE]
     ELSE UNCHANGED <<row, aged>>
  /\ EndTx(a) /\ FreeClient(a)
  /\ Finish(a, Answer("ok", claim[a]))
  /\ UNCHANGED <<expired, epoch, runs, key, body>>

\* Mutant: the lost claim is noticed and the work committed all the same.
SettleLost_Commit(a) ==
  /\ pc[a] = "done" /\ ~Holds(a)
  /\ applied' = applied \cup {Commit(w) : w \in pend[conn[a]]}
  /\ EndTx(a) /\ FreeClient(a)
  /\ Finish(a, Answer("inflight", None))
  /\ UNCHANGED <<guardVars, key, body>>

\* STORE_RESPONSE_SQL matched nothing: the claim was taken over.
SettleLost(a) ==
  /\ pc[a] = "done" /\ ~broken[conn[a]] /\ ~Holds(a)
  /\ EndTx(a) /\ FreeClient(a)
  /\ Finish(a, Answer("inflight", None))
  /\ UNCHANGED <<guardVars, key, body, applied>>

\* A failure rolls back, and frees the key in a second statement, the client
\* still in hand.
SettleFail(a) ==
  /\ pc[a] = "failed"
  /\ EndTx(a)
  /\ Goto(a, "free")
  /\ UNCHANGED <<guardVars, key, body, claim, conn, stmt, reply, owner, applied>>

\* The answer is the handler's 4xx or 5xx; before the handler ran it is a 500.
Release(a) ==
  /\ pc[a] = "free"
  /\ ReleaseClaim(a) /\ FreeClient(a)
  /\ \/ Finish(a, Answer("error", None))
     \/ conn[a] # None /\ Finish(a, Answer("refused", None))
  /\ UNCHANGED <<key, body, txVars, applied>>

-----------------------------------------------------------------------------
(* onRequestAbort: the work is rolled back, the key freed and the client    *)
(* returned to the pool while the handler is still running on it.           *)

\* settle has not begun.  A handler that threw may still be in its catch.
Abort(a) ==
  /\ Aborts /\ pc[a] \in Working \ {"stored"}
  /\ EndTx(a)
  /\ \/ pc[a] = "work" /\ Goto(a, "stray")
     \/ pc[a] = "failed" /\ stmt[a] > 0 /\ Goto(a, "undone")
     \/ pc[a] \in {"done", "failed"} /\ Goto(a, "free")
  /\ UNCHANGED <<guardVars, key, body, claim, conn, stmt, reply, owner, applied>>

AbortRelease(a) ==
  /\ pc[a] \in Straying /\ owner[conn[a]] = a
  /\ ReleaseClaim(a) /\ FreeClient(a)
  /\ UNCHANGED <<reqVars, txVars, applied>>

\* Whether a transaction is open on the client, and heeds statements.
InTx(c) == (owner[c] # None /\ pc[owner[c]] \in Working) \/ broken[c]
Heeds(c) == InTx(c) /\ ~broken[c]

\* The handler returns or throws into a reply that is already gone.
StrayLeaves(a) ==
  IF owner[conn[a]] = a
  THEN Goto(a, "free") /\ UNCHANGED <<claim, conn, stmt, reply>>
  ELSE Finish(a, Unanswered)

\* The handler's next statement reaches the client it captured.  A SAVEPOINT is set
\* in whatever transaction is open there by now.
StraySavepoint(a) ==
  /\ pc[a] = "stray" /\ stmt[a] = 0 /\ Heeds(conn[a])
  /\ stmt' = [stmt EXCEPT ![a] = 1]
  /\ PushSave(conn[a])
  /\ UNCHANGED <<guardVars, pc, key, body, claim, conn, reply, owner, pend, broken, applied>>

\* A write joins that transaction, and autocommits when none is open.
StrayExecute(a) ==
  /\ pc[a] = "stray" /\ stmt[a] \in Stmts
  /\ stmt' = [stmt EXCEPT ![a] = @ + 1]
  /\ \/ /\ Direct \/ ~InTx(conn[a])
        /\ applied' = applied \cup {Commit(WriteOf(a))} /\ UNCHANGED pend
     \/ /\ ~Direct /\ Heeds(conn[a])
        /\ pend' = [pend EXCEPT ![conn[a]] = @ \cup {WriteOf(a)}] /\ UNCHANGED applied
  /\ UNCHANGED <<guardVars, pc, key, body, claim, conn, reply, owner, saves, broken>>

\* RELEASE SAVEPOINT after the last statement.
StrayRelease(a) ==
  /\ pc[a] = "stray" /\ stmt[a] = NStmts + 1 /\ Heeds(conn[a])
  /\ PopSave(conn[a]) /\ StrayLeaves(a)
  /\ UNCHANGED <<guardVars, key, body, owner, pend, broken, applied>>

\* The handler throws inside withTransaction, of its own accord or because a statement
\* failed, which breaks the transaction it was sent into.
StrayThrows(a) ==
  /\ pc[a] = "stray" /\ stmt[a] > 0
  /\ Goto(a, "undo")
  /\ \/ UNCHANGED broken
     \/ InTx(conn[a]) /\ broken' = [broken EXCEPT ![conn[a]] = TRUE]
  /\ UNCHANGED <<guardVars, key, body, claim, conn, stmt, reply, owner, pend, saves, applied>>

\* Its catch: ROLLBACK TO the latest nested_tx undoes what was pending since, whoever
\* wrote it.  Where there is no such savepoint the statement fails.
StrayUndo(a) ==
  LET c == conn[a] IN
  /\ pc[a] = "undo"
  /\ IF InTx(c) /\ saves[c] # <<>>
     THEN /\ pend' = [pend EXCEPT ![c] = Head(saves[c])]
          /\ broken' = [broken EXCEPT ![c] = FALSE]
          /\ Goto(a, "undone") /\ UNCHANGED <<claim, conn, stmt, reply>>
     ELSE /\ broken' = [broken EXCEPT ![c] = InTx(c)]
          /\ StrayLeaves(a) /\ UNCHANGED pend
  /\ UNCHANGED <<guardVars, key, body, owner, saves, applied>>

\* ... and RELEASE SAVEPOINT.
StrayUndone(a) ==
  LET c == conn[a] IN
  /\ pc[a] = "undone"
  /\ \/ Heeds(c) /\ PopSave(c) /\ UNCHANGED broken
     \/ ~(Heeds(c) /\ saves[c] # <<>>) /\ broken' = [broken EXCEPT ![c] = InTx(c)] /\ UNCHANGED saves
  /\ StrayLeaves(a)
  /\ UNCHANGED <<guardVars, key, body, owner, pend, applied>>

\* The handler throws before its SAVEPOINT, or that fails.
StrayEnd(a) ==
  /\ pc[a] = "stray" /\ stmt[a] = 0
  /\ StrayLeaves(a)
  /\ UNCHANGED <<guardVars, key, body, dbVars>>

-----------------------------------------------------------------------------
(* The process dies, or the request's database connection does. *)

Lose(a) ==
  /\ pc[a] # "idle"
  /\ IF pc[a] \in Working THEN EndTx(a) ELSE UNCHANGED txVars
  /\ FreeClient(a)
  /\ Finish(a, Unanswered)
  /\ UNCHANGED <<guardVars, key, body, applied>>

(* Time: the in-flight window and expires_at pass; pruneExpiredKeys runs. *)

Age(k) ==
  /\ Unlocked(k) /\ ~aged[k]
  /\ aged' = [aged EXCEPT ![k] = TRUE]
  /\ UNCHANGED <<row, expired, epoch, runs, reqVars, dbVars>>

Expire(k) ==
  /\ row[k] # None /\ ~expired[k]
  /\ expired' = [expired EXCEPT ![k] = TRUE]
  /\ aged' = [aged EXCEPT ![k] = Unlocked(k)]
  /\ UNCHANGED <<row, epoch, runs, reqVars, dbVars>>

Prune(k) ==
  /\ row[k] # None /\ expired[k] /\ ~Locked(k)
  /\ \/ row[k].resp = None /\ UNCHANGED epoch
     \/ /\ row[k].resp # None /\ epoch[k] < MaxEpoch
        /\ epoch' = [epoch EXCEPT ![k] = @ + 1]
  /\ DropRow(k)
  /\ UNCHANGED <<runs, reqVars, dbVars>>

-----------------------------------------------------------------------------
Plugin(a) ==
  \/ ClaimWon(a) \/ ClaimLost(a) \/ Fetch(a) \/ Reclaim(a) \/ ReclaimLost(a)
  \/ (\E c \in Clients : Begin(a, c) \/ PoolBroken(a, c)) \/ BeginFails(a) \/ PoolTimeout(a)
  \/ Savepoint(a) \/ Execute(a) \/ HandlerReturns(a)
  \/ Store(a) \/ StoreFails(a) \/ SettleCommit(a) \/ SettleLost(a) \/ SettleFail(a) \/ Release(a)

Stray(a) ==
  \/ AbortRelease(a) \/ StraySavepoint(a) \/ StrayExecute(a) \/ StrayRelease(a)
  \/ StrayThrows(a) \/ StrayUndo(a) \/ StrayUndone(a) \/ StrayEnd(a)

Time == \E k \in Keys : Age(k) \/ Expire(k) \/ Prune(k)

Next ==
  \/ \E a \in Attempts :
       \/ \E k \in Keys, h \in Bodies : Arrive(a, k, h)
       \/ Plugin(a) \/ Abort(a) \/ Stray(a) \/ Lose(a)
  \/ Time

Spec == Init /\ [][Next]_vars

-----------------------------------------------------------------------------
(* Properties.  The writes of a key are counted per epoch: a key whose     *)
(* stored answer was pruned after thirty days is a new key.                *)

\* The writes of key k that belong to its present row.
Current(k) == {x \in applied : x.write.key = k /\ x.epoch = epoch[k]}

\* What the guard shows of a key: the answer stored in its row.
Stored(k) ==
  IF row[k] = None \/ row[k].resp = None
  THEN None
  ELSE [run |-> row[k].resp, hash |-> row[k].hash]

\* However often a request is sent, duplicated, reclaimed or lost, the business
\* rows of one key come from one run of its handler (the promise of the plugin's
\* header: "a replayed request gets the original response instead of executing
\* twice").
AtMostOnce ==
  \A x, y \in applied :
     x.write.key = y.write.key /\ x.epoch = y.epoch => x.write.run = y.write.run

\* No run leaves half of its statements behind.
AllOrNothing ==
  \A x \in applied : \A s \in Stmts :
     [x EXCEPT !.write.stmt = s] \in applied

\* A key's business rows and its stored response commit together: rows are there
\* exactly when the row of the key holds the answer of the run that made them
\* (idempotency.ts:28-30, "a crash loses both, a commit keeps both").
CommitTogether ==
  \A k \in Keys :
     {x.write.run : x \in Current(k)} = IF Stored(k) = None THEN {} ELSE {row[k].resp}

\* A success or a replay the client reads is the truth: every statement of the run
\* it names is committed, for that key and for the very body the client sent.
AnswerMeansApplied ==
  \A a \in Attempts : reply[a].kind \in {"ok", "replay"} =>
     \A s \in Stmts : \E x \in applied :
        x.write = [key |-> key[a], run |-> reply[a].run, stmt |-> s, hash |-> body[a]]

\* A stored answer never changes, and only the prune of an expired row removes it:
\* no claim, reclaim or late release of another request touches it.
StoredAnswerStable ==
  [][\A k \in Keys : (row[k] # None /\ row[k].resp # None) =>
        row'[k] = row[k] \/ (row'[k] = None /\ expired[k])]_vars

\* A request that works inside the in-flight window keeps its claim: nobody else's
\* failure path, reclaim or retry frees the key under it.  (A reclaim keeps the old
\* expires_at, so the prune may still take the claim of an expired key.)
FreshClaimKept ==
  [][\A a \in Attempts :
        (pc[a] \in Working /\ pc'[a] \in Working /\ Holds(a)
            /\ ~aged[key[a]] /\ ~expired[key[a]]) => Holds(a)']_vars

Abstract == INSTANCE OncePerKey WITH answer <- [k \in Keys |-> Stored(k)], done <- applied

\* The guard implements its promise: seen through the committed rows, every step
\* is one complete run of a key that had no answer, the prune of an answered key,
\* or nothing at all.
OnceOnly == Abstract!Spec

\* A client that vanished while its handler ran leaves nothing of it behind
\* (idempotency.ts:352-353, "the handler's writes must not outlive it").
VanishedLeavesNothing ==
  \A a \in Attempts : pc[a] \in Straying => \A x \in applied : x.write.run # claim[a]

\* A request the plugin is working on for key k, or about to.
Worker(k) == \E a \in Attempts : key[a] = k /\ pc[a] \in {"begin", "free"} \cup Working

\* A crash does not poison a key (idempotency.ts:39-41): a claim nobody works is
\* released, answered or taken over, as long as clients retry the same request and
\* from some point on nothing is lost.
NotPoisoned ==
  <>[][\A a \in Attempts : ~Lose(a)]_vars =>
     \A k \in Keys : (Unlocked(k) /\ ~Worker(k) /\ runs < MaxRuns) ~>
                        (~Unlocked(k) \/ Worker(k) \/ runs = MaxRuns)

\* Requests in the plugin move on, the window passes, and the client's outbox keeps
\* sending what was not answered.
Fairness ==
  /\ \A a \in Attempts : WF_vars(Plugin(a)) /\ WF_vars(Stray(a))
  /\ \A k \in Keys : WF_vars(Age(k))
  /\ \A k \in Keys, h \in Bodies : SF_vars(\E a \in Attempts : Arrive(a, k, h))

FairSpec == Spec /\ Fairness
=============================================================================

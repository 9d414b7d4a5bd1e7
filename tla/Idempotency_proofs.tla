------------------------- MODULE Idempotency_proofs -------------------------
(* What holds of the replay guard for every number of keys, requests,       *)
(* clients and statements.                                                  *)
EXTENDS IntentDelivery, TLAPS

-----------------------------------------------------------------------------
(* Typing.  TypeOK is not inductive alone: a write is well typed because    *)
(* the request that makes it holds a claim and a client.                    *)

Claiming == {"begin", "free"} \cup Straying \cup Working

Shape ==
  \A a \in Attempts :
     /\ pc[a] \in Claiming => claim[a] \in Tokens
     /\ pc[a] \in Working \cup Straying => conn[a] \in Clients
     /\ pc[a] = "done" => stmt[a] = NStmts + 1

TypeInv == TypeOK /\ Shape

\* The initial state is well typed.
LEMMA InitType == Init => TypeInv
  BY GuardAssumption DEF Init, TypeInv, TypeOK, Shape, Claiming, Straying, Working, Pcs,
     Unanswered, Kinds, Tokens, Row

\* A write of a request that works is a Write, and its STORE_RESPONSE can be pending.
LEMMA WriteOfType ==
  ASSUME TypeInv, NEW a \in Attempts, pc[a] \in Claiming
  PROVE  /\ stmt[a] \in Stmts => WriteOf(a) \in Write /\ WriteOf(a) \in Pending
         /\ StoreOf(a) \in Pending
<1>1. /\ key[a] \in Keys /\ claim[a] \in Tokens /\ body[a] \in Bodies /\ NStmts \in Nat
  BY GuardAssumption DEF TypeInv, TypeOK, Shape
<1>2. stmt[a] \in Stmts => WriteOf(a) \in Write /\ WriteOf(a) \in Pending
  BY <1>1 DEF WriteOf, Write, Pending, Stmts
<1>3. StoreOf(a) = [key |-> key[a], run |-> claim[a], stmt |-> NStmts + 1, hash |-> body[a]]
  BY DEF StoreOf, WriteOf
<1>4. StoreOf(a) \in Pending
  BY <1>1, <1>3 DEF Pending
<1> QED
  BY <1>2, <1>4

TxTypes ==
  /\ pend \in [Clients -> SUBSET Pending]
  /\ saves \in [Clients -> Seq(SUBSET Pending)] /\ broken \in [Clients -> BOOLEAN]

\* So do the end of a transaction and its savepoints.
LEMMA EndTxType ==
  ASSUME TypeInv, NEW a \in Attempts, EndTx(a)
  PROVE  TxTypes'
<1>1. <<>> \in Seq(SUBSET Pending)
  OBVIOUS
<1> QED
  BY <1>1 DEF EndTx, TxTypes, TypeInv, TypeOK

LEMMA PendType ==
  ASSUME TypeInv, NEW c, NEW w \in Pending
  PROVE  [pend EXCEPT ![c] = @ \cup {w}] \in [Clients -> SUBSET Pending]
BY DEF TypeInv, TypeOK

LEMMA SaveType ==
  ASSUME TypeInv, NEW c \in Clients, PushSave(c) \/ PopSave(c)
  PROVE  saves' \in [Clients -> Seq(SUBSET Pending)]
<1>1. pend[c] \in SUBSET Pending /\ saves[c] \in Seq(SUBSET Pending)
  BY DEF TypeInv, TypeOK
<1>2. <<pend[c]>> \o saves[c] \in Seq(SUBSET Pending)
  BY <1>1
<1>3. saves[c] # <<>> => Tail(saves[c]) \in Seq(SUBSET Pending)
  BY <1>1
<1> QED
  BY <1>2, <1>3 DEF PushSave, PopSave, TypeInv, TypeOK

\* releaseClaim and client.release() keep the types of the guard and the pool.
LEMMA ReleaseClaimType ==
  ASSUME TypeInv, NEW a \in Attempts, ReleaseClaim(a), FreeClient(a)
  PROVE  /\ row' \in [Keys -> Row \cup {None}]
         /\ aged' \in [Keys -> BOOLEAN] /\ expired' \in [Keys -> BOOLEAN]
         /\ UNCHANGED <<epoch, runs>>
         /\ owner' \in [Clients -> Attempts \cup {None}]
<1>1. CASE DropRow(key[a])
  BY <1>1 DEF TypeInv, TypeOK, ReleaseClaim, FreeClient, DropRow
<1>2. CASE UNCHANGED <<row, aged, expired>>
  BY <1>2 DEF TypeInv, TypeOK, ReleaseClaim, FreeClient
<1> QED
  BY <1>1, <1>2 DEF ReleaseClaim

Replies == [kind : Kinds, run : Tokens \cup {None}]

\* An answer ends the request and keeps the types of its state.
LEMMA FinishType ==
  ASSUME TypeInv, NEW a \in Attempts, NEW r \in Replies, Finish(a, r)
  PROVE  /\ pc' \in [Attempts -> Pcs]
         /\ claim' \in [Attempts -> Tokens \cup {None}]
         /\ conn' \in [Attempts -> Clients \cup {None}]
         /\ stmt' \in [Attempts -> 0 .. NStmts + 2]
         /\ reply' \in [Attempts -> Replies]
         /\ Shape'
BY GuardAssumption DEF TypeInv, TypeOK, Shape, Claiming, Straying, Working, Pcs, Finish, Goto, Replies

\* The answers the plugin gives are well typed.
LEMMA AnswerType ==
  ASSUME TypeInv
  PROVE  /\ \A k \in Kinds, r \in Tokens \cup {None} : Answer(k, r) \in Replies
         /\ Unanswered \in Replies
         /\ {"ok", "replay", "inflight", "reused", "refused", "error"} \subseteq Kinds
BY DEF Answer, Unanswered, Replies, Kinds

\* Every action of the preHandler keeps the types.
LEMMA PreHandlerType ==
  ASSUME TypeInv, NEW a \in Attempts,
         \/ \E k \in Keys, h \in Bodies : Arrive(a, k, h)
         \/ ClaimWon(a) \/ ClaimLost(a) \/ Fetch(a) \/ Reclaim(a)
         \/ ReclaimLost(a) \/ PoolTimeout(a)
         \/ (\E c \in Clients : Begin(a, c) \/ PoolBroken(a, c)) \/ BeginFails(a)
  PROVE  TypeInv'
<1> USE GuardAssumption DEF TypeInv, TypeOK, Shape, Claiming, Straying, Working, Pcs
<1>1. CASE \E k \in Keys, h \in Bodies : Arrive(a, k, h)
  BY <1>1 DEF Arrive, Goto, guardVars, dbVars, Unanswered, Kinds
<1>2. CASE ClaimWon(a)
  <2>1. /\ runs + 1 \in Tokens
        /\ [hash |-> body[a], token |-> runs + 1, resp |-> None] \in Row
    BY <1>2 DEF ClaimWon, Take, Row, Tokens
  <2>2. /\ row' = [row EXCEPT ![key[a]] = [hash |-> body[a], token |-> runs + 1, resp |-> None]]
        /\ aged' = [aged EXCEPT ![key[a]] = FALSE] /\ expired' = [expired EXCEPT ![key[a]] = FALSE]
        /\ runs' = runs + 1 /\ runs < MaxRuns
        /\ claim' = [claim EXCEPT ![a] = runs + 1] /\ pc' = [pc EXCEPT ![a] = "begin"]
        /\ UNCHANGED <<epoch, key, body, conn, stmt, reply, owner, pend, saves, broken, applied>>
    BY <1>2 DEF ClaimWon, Take, Goto, dbVars
  <2>3. row' \in [Keys -> Row \cup {None}] /\ runs' \in 0 .. MaxRuns
    BY <2>1, <2>2 DEF Tokens
  <2>4. /\ aged' \in [Keys -> BOOLEAN] /\ expired' \in [Keys -> BOOLEAN]
        /\ claim' \in [Attempts -> Tokens \cup {None}] /\ pc' \in [Attempts -> Pcs]
    BY <2>1, <2>2
  <2>5. Shape'
    BY <2>1, <2>2
  <2> QED
    BY ONLY TypeInv, <2>2, <2>3, <2>4, <2>5 DEF TypeInv, TypeOK
<1>3. CASE ClaimLost(a)
  <2>1. CASE pc[a] = "claim"
    <3>1. pc' = [pc EXCEPT ![a] = "lost"]
          /\ UNCHANGED <<row, aged, expired, epoch, runs, key, body, claim, conn, stmt, reply,
                         owner, pend, saves, broken, applied>>
      BY <1>3, <2>1 DEF ClaimLost, Goto, guardVars, dbVars
    <3> QED
      BY <2>1, <3>1
  <2>2. CASE pc[a] = "again"
    BY <1>3, <2>2, FinishType, AnswerType DEF ClaimLost, Replies, guardVars, dbVars
  <2> QED
    BY <1>3, <2>1, <2>2 DEF ClaimLost
<1>4. CASE Fetch(a)
  <2> DEFINE r == row[key[a]]
  <2>1. UNCHANGED <<guardVars, key, body, dbVars>>
    BY <1>4 DEF Fetch
  <2>2. CASE pc' = [pc EXCEPT ![a] = "again"] /\ UNCHANGED <<claim, conn, stmt, reply>>
    BY <2>1, <2>2 DEF guardVars, dbVars
  <2>3. CASE \E w \in Replies : Finish(a, w)
    BY <2>1, <2>3, FinishType DEF Replies, guardVars, dbVars
  <2>4. CASE /\ r \in Row
             /\ pc' = [pc EXCEPT ![a] = "stale"]
             /\ claim' = [claim EXCEPT ![a] = r.token]
             /\ UNCHANGED <<conn, stmt, reply>>
    BY <2>1, <2>4 DEF Row, guardVars, dbVars
  <2>5. r # None => r \in Row /\ r.resp \in Tokens \cup {None}
    BY DEF Row
  <2> QED
    BY <1>4, <2>2, <2>3, <2>4, <2>5, AnswerType DEF Fetch, Goto
<1>5. CASE Reclaim(a)
  <2>1. /\ runs + 1 \in Tokens
        /\ [row[key[a]] EXCEPT !.token = runs + 1] \in Row
    <3>1. row[key[a]] # None /\ row[key[a]] \in Row /\ runs + 1 \in Tokens
      BY <1>5 DEF Reclaim, Holds, Unlocked, Take, Tokens
    <3> QED
      BY <3>1 DEF Row
  <2>2. TypeOK'
    BY <1>5, <2>1 DEF Reclaim, Take, Goto, dbVars
  <2>3. Shape'
    BY <1>5, <2>1 DEF Reclaim, Take, Goto, dbVars
  <2> QED
    BY <2>2, <2>3
<1>6. CASE ReclaimLost(a)
  BY <1>6, FinishType, AnswerType DEF ReclaimLost, Replies, guardVars, dbVars
<1>7. CASE PoolTimeout(a)
  BY <1>7, FinishType, AnswerType DEF PoolTimeout, Replies, guardVars, dbVars
<1>8. CASE \E c \in Clients : Begin(a, c)
  BY <1>8 DEF Begin, Goto, guardVars, txVars
<1>9. CASE BeginFails(a)
  BY <1>9 DEF BeginFails, Goto, guardVars, dbVars
<1>10. CASE \E c \in Clients : PoolBroken(a, c)
  <2>1. PICK c \in Clients : PoolBroken(a, c)
    BY <1>10
  <2>2. /\ Finish(a, Answer("error", None)) /\ broken' \in [Clients -> BOOLEAN]
        /\ UNCHANGED <<guardVars, key, body, owner, pend, saves, applied>>
    BY <2>1 DEF PoolBroken
  <2> QED
    BY <2>2, FinishType, AnswerType DEF Replies, guardVars
<1> QED
  BY <1>1, <1>2, <1>3, <1>4, <1>5, <1>6, <1>7, <1>8, <1>9, <1>10

\* Every action of the handler and of settle keeps the types.
LEMMA WorkType ==
  ASSUME TypeInv, NEW a \in Attempts,
         \/ Savepoint(a) \/ Execute(a) \/ HandlerReturns(a) \/ Store(a) \/ StoreFails(a)
         \/ SettleCommit(a) \/ SettleLost(a) \/ SettleFail(a) \/ Release(a)
  PROVE  TypeInv'
<1> USE GuardAssumption DEF TypeInv, TypeOK, Shape, Claiming, Straying, Working, Pcs
<1>0. pc[a] \in Working => conn[a] \in Clients
  OBVIOUS
<1>1. CASE Savepoint(a)
  BY <1>0, <1>1, SaveType DEF Savepoint, guardVars
<1>2. CASE Execute(a)
  <2>1. WriteOf(a) \in Write /\ WriteOf(a) \in Pending
    BY <1>2, WriteOfType DEF Execute
  <2>2. epoch[WriteOf(a).key] \in 0 .. MaxEpoch
    BY DEF WriteOf
  <2>3. stmt' \in [Attempts -> 0 .. NStmts + 2]
    BY <1>2 DEF Execute, Stmts
  <2>4. pend' \in [Clients -> SUBSET Pending]
    <3>1. UNCHANGED pend \/ pend' = [pend EXCEPT ![conn[a]] = @ \cup {WriteOf(a)}]
      BY <1>2 DEF Execute
    <3> QED
      BY <2>1, <3>1, PendType
  <2>5. applied' \subseteq [write : Write, epoch : 0 .. MaxEpoch]
    BY <1>2, <2>1, <2>2 DEF Execute, Commit
  <2>6. UNCHANGED <<row, aged, expired, epoch, runs, pc, key, body, claim, conn, reply, owner, saves, broken>>
    BY <1>2 DEF Execute, guardVars
  <2>7. pc[a] = "work" /\ stmt' = [stmt EXCEPT ![a] = @ + 1]
    BY <1>2 DEF Execute
  <2>8. Shape'
    BY ONLY TypeInv, <2>6, <2>7 DEF TypeInv, TypeOK, Shape, Working, Straying, Claiming
  <2> QED
    BY ONLY TypeInv, <2>3, <2>4, <2>5, <2>6, <2>8 DEF TypeInv, TypeOK
<1>3. CASE HandlerReturns(a)
  <2>1. saves' \in [Clients -> Seq(SUBSET Pending)]
    BY <1>0, <1>3, SaveType DEF HandlerReturns
  <2>2. /\ \/ stmt[a] = NStmts + 1 /\ pc' = [pc EXCEPT ![a] = "done"]
           \/ pc' = [pc EXCEPT ![a] = "failed"]
        /\ pc[a] = "work"
        /\ UNCHANGED <<row, aged, expired, epoch, runs, key, body, claim, conn, stmt, reply, owner, pend, broken, applied>>
    BY <1>3 DEF HandlerReturns, Goto, guardVars
  <2>3. pc' \in [Attempts -> Pcs] /\ Shape'
    BY <2>2
  <2> QED
    BY ONLY TypeInv, <2>1, <2>2, <2>3 DEF TypeInv, TypeOK
<1>4. CASE SettleCommit(a)
  <2>1. applied' \subseteq [write : Write, epoch : 0 .. MaxEpoch]
    <3>1. \A w \in Pending : w.stmt \in Stmts => Commit(w) \in [write : Write, epoch : 0 .. MaxEpoch]
      BY DEF Commit, Write, Pending
    <3>2. pend[conn[a]] \subseteq Pending
      BY <1>0, <1>4 DEF SettleCommit
    <3> QED
      BY <1>4, <3>1, <3>2 DEF SettleCommit
  <2>2. row' \in [Keys -> Row \cup {None}] /\ aged' \in [Keys -> BOOLEAN]
    <3> DEFINE r == [row[key[a]] EXCEPT !.token = None, !.resp = claim[a]]
    <3>1. CASE Lands(a)
      <4>1. row[key[a]] \in Row
        BY <3>1 DEF Lands, Holds, Unlocked
      <4>2. r \in Row
        BY <1>4, <4>1 DEF SettleCommit, Row
      <4>3. /\ row' = [row EXCEPT ![key[a]] = r] \/ UNCHANGED row
            /\ aged' = [aged EXCEPT ![key[a]] = FALSE] \/ UNCHANGED aged
        BY <1>4 DEF SettleCommit
      <4> HIDE DEF r
      <4>4. row \in [Keys -> Row \cup {None}] /\ aged \in [Keys -> BOOLEAN]
        OBVIOUS
      <4>5. row' \in [Keys -> Row \cup {None}]
        BY ONLY <4>2, <4>3, <4>4
      <4>6. aged' \in [Keys -> BOOLEAN]
        BY ONLY <4>3, <4>4
      <4> QED
        BY <4>5, <4>6
    <3>2. CASE ~Lands(a)
      BY <1>4, <3>2 DEF SettleCommit
    <3> QED
      BY <3>1, <3>2
  <2>3. owner' \in [Clients -> Attempts \cup {None}] /\ TxTypes'
    BY <1>4, EndTxType DEF SettleCommit, FreeClient
  <2>4. UNCHANGED <<expired, epoch, runs, key, body>> /\ Finish(a, Answer("ok", claim[a]))
    BY <1>4 DEF SettleCommit
  <2> QED
    BY <2>1, <2>2, <2>3, <2>4, FinishType, AnswerType DEF Replies, TxTypes
<1>5. CASE SettleLost(a)
  BY <1>5, EndTxType, FinishType, AnswerType DEF SettleLost, FreeClient, Replies, TxTypes, guardVars
<1>6. CASE SettleFail(a)
  BY <1>6, EndTxType DEF SettleFail, Goto, TxTypes, guardVars
<1>7. CASE Release(a)
  <2>1. /\ \E w \in {"error", "refused"} : Finish(a, Answer(w, None))
        /\ UNCHANGED <<key, body, txVars, applied>>
    BY <1>7 DEF Release
  <2> QED
    BY <1>7, <2>1, ReleaseClaimType, FinishType, AnswerType DEF Release, Replies, txVars
<1>8. CASE Store(a)
  <2>1. StoreOf(a) \in Pending
    BY <1>8, WriteOfType DEF Store
  <2>2. stmt' \in [Attempts -> 0 .. NStmts + 2]
    BY <1>8 DEF Store
  <2> QED
    BY <1>8, <2>1, <2>2 DEF Store, Goto, guardVars
<1>9. CASE StoreFails(a)
  BY <1>9, FinishType, AnswerType DEF StoreFails, FreeClient, Replies, guardVars
<1> QED
  BY <1>1, <1>2, <1>3, <1>4, <1>5, <1>6, <1>7, <1>8, <1>9

\* Whatever a stray handler still does keeps the types.
LEMMA StrayType ==
  ASSUME TypeInv, NEW a \in Attempts, Stray(a)
  PROVE  TypeInv'
<1> USE GuardAssumption DEF TypeInv, TypeOK, Shape, Claiming, Straying, Working, Pcs
<1>0. pc[a] \in Straying => conn[a] \in Clients
  OBVIOUS
<1>1. CASE AbortRelease(a)
  BY <1>1, ReleaseClaimType DEF AbortRelease, reqVars, txVars
<1>2. CASE StrayExecute(a)
  <2>1. WriteOf(a) \in Write /\ WriteOf(a) \in Pending
    BY <1>2, WriteOfType DEF StrayExecute
  <2>2. epoch[WriteOf(a).key] \in 0 .. MaxEpoch
    BY DEF WriteOf
  <2>3. stmt' \in [Attempts -> 0 .. NStmts + 2]
    BY <1>2 DEF StrayExecute, Stmts
  <2>4. pend' \in [Clients -> SUBSET Pending]
    <3>1. UNCHANGED pend \/ pend' = [pend EXCEPT ![conn[a]] = @ \cup {WriteOf(a)}]
      BY <1>2 DEF StrayExecute
    <3> QED
      BY <2>1, <3>1, PendType
  <2>5. applied' \subseteq [write : Write, epoch : 0 .. MaxEpoch]
    BY <1>2, <2>1, <2>2 DEF StrayExecute, Commit
  <2>6. UNCHANGED <<guardVars, pc, key, body, claim, conn, reply, owner, saves, broken>>
        /\ pc[a] = "stray" /\ stmt' = [stmt EXCEPT ![a] = @ + 1]
    BY <1>2 DEF StrayExecute
  <2> QED
    BY <2>3, <2>4, <2>5, <2>6 DEF guardVars
<1>3. CASE StraySavepoint(a)
  BY <1>0, <1>3, SaveType DEF StraySavepoint, guardVars
<1>4. ASSUME pc[a] \in Straying, StrayLeaves(a),
             UNCHANGED <<guardVars, key, body, owner, applied>>, TxTypes'
      PROVE  TypeInv'
  <2>1. CASE owner[conn[a]] = a
    <3>1. pc' = [pc EXCEPT ![a] = "free"] /\ UNCHANGED <<claim, conn, stmt, reply>>
      BY <1>4, <2>1 DEF StrayLeaves, Goto
    <3> QED
      BY <1>4, <3>1 DEF TxTypes, guardVars
  <2>2. CASE owner[conn[a]] # a
    BY <1>4, <2>2, FinishType, AnswerType DEF StrayLeaves, Replies, TxTypes, guardVars
  <2> QED
    BY <2>1, <2>2
<1>5. CASE StrayRelease(a)
  BY <1>0, <1>4, <1>5, SaveType DEF StrayRelease, TxTypes
<1>6. CASE StrayThrows(a)
  BY <1>6 DEF StrayThrows, Goto, guardVars
<1>7. CASE StrayUndo(a)
  <2>1. InTx(conn[a]) \in BOOLEAN /\ conn[a] \in Clients
    BY <1>0, <1>7 DEF StrayUndo, InTx
  <2>2. CASE InTx(conn[a]) /\ saves[conn[a]] # <<>>
    <3>1. Head(saves[conn[a]]) \in SUBSET Pending
      <4>1. saves[conn[a]] \in Seq(SUBSET Pending)
        BY <2>1
      <4> QED
        BY <2>2, <4>1
    <3>2. /\ pc[a] = "undo" /\ pc' = [pc EXCEPT ![a] = "undone"]
          /\ pend' = [pend EXCEPT ![conn[a]] = Head(saves[conn[a]])]
          /\ broken' = [broken EXCEPT ![conn[a]] = FALSE]
          /\ UNCHANGED <<row, aged, expired, epoch, runs, key, body, owner, saves, applied, claim, conn, stmt, reply>>
      BY <1>7, <2>2 DEF StrayUndo, Goto, guardVars
    <3>3. pend' \in [Clients -> SUBSET Pending] /\ broken' \in [Clients -> BOOLEAN]
      BY <3>1, <3>2
    <3>4. pc' \in [Attempts -> Pcs] /\ Shape'
      BY <3>2
    <3> QED
      BY ONLY TypeInv, <3>2, <3>3, <3>4 DEF TypeInv, TypeOK
  <2>3. CASE ~(InTx(conn[a]) /\ saves[conn[a]] # <<>>)
    <3>1. /\ broken' = [broken EXCEPT ![conn[a]] = InTx(conn[a])] /\ StrayLeaves(a)
          /\ UNCHANGED <<pend, guardVars, key, body, owner, saves, applied>> /\ pc[a] = "undo"
      BY <1>7, <2>3 DEF StrayUndo
    <3>2. broken' \in [Clients -> BOOLEAN]
      BY <2>1, <3>1
    <3> QED
      BY <1>4, <3>1, <3>2 DEF TxTypes
  <2> QED
    BY <2>2, <2>3
<1>8. CASE StrayUndone(a)
  <2>1. InTx(conn[a]) \in BOOLEAN /\ conn[a] \in Clients
    BY <1>0, <1>8 DEF StrayUndone, InTx
  <2>2. TxTypes'
    <3>1. CASE PopSave(conn[a]) /\ UNCHANGED <<broken, pend>>
      BY <2>1, <3>1, SaveType DEF TxTypes
    <3>2. CASE broken' = [broken EXCEPT ![conn[a]] = InTx(conn[a])] /\ UNCHANGED <<saves, pend>>
      BY <2>1, <3>2 DEF TxTypes
    <3> QED
      BY <1>8, <3>1, <3>2 DEF StrayUndone
  <2> QED
    BY <1>4, <1>8, <2>2 DEF StrayUndone
<1>9. CASE StrayEnd(a)
  BY <1>4, <1>9 DEF StrayEnd, TxTypes, dbVars
<1> QED
  BY <1>1, <1>2, <1>3, <1>5, <1>6, <1>7, <1>8, <1>9 DEF Stray

\* An aborted request, a lost one and the passing of time keep the types.
LEMMA RestType ==
  ASSUME TypeInv,
         \/ \E a \in Attempts : Abort(a) \/ Lose(a)
         \/ Time
         \/ UNCHANGED vars
  PROVE  TypeInv'
<1> USE GuardAssumption DEF TypeInv, TypeOK, Shape, Claiming, Straying, Working, Pcs
<1>1. ASSUME NEW a \in Attempts, Abort(a)
      PROVE  TypeInv'
  <2>1. TypeOK'
    BY <1>1, EndTxType DEF Abort, Goto, TxTypes, guardVars
  <2>2. Shape'
    BY <1>1 DEF Abort, Goto
  <2> QED
    BY <2>1, <2>2
<1>5. ASSUME NEW a \in Attempts, Lose(a)
      PROVE  TypeInv'
  <2>1. TxTypes'
    BY <1>5, EndTxType DEF Lose, TxTypes, txVars
  <2> QED
    BY <1>5, <2>1, FinishType, AnswerType DEF Lose, FreeClient, TxTypes, Replies, guardVars
<1>6. ASSUME NEW k \in Keys, Age(k) \/ Expire(k)
      PROVE  TypeInv'
  <2>1. CASE Age(k)
    BY <2>1 DEF Age, Unlocked, reqVars, dbVars
  <2>2. CASE Expire(k)
    BY <2>2 DEF Expire, Unlocked, reqVars, dbVars
  <2> QED
    BY <1>6, <2>1, <2>2
<1>7. ASSUME NEW k \in Keys, Prune(k)
      PROVE  TypeInv'
  BY <1>7 DEF Prune, DropRow, reqVars, dbVars
<1>8. CASE UNCHANGED vars
  BY <1>8 DEF vars, guardVars, reqVars, dbVars
<1> QED
  BY <1>1, <1>5, <1>6, <1>7, <1>8 DEF Time

\* Every step keeps the types.
LEMMA NextType == TypeInv /\ [Next]_vars => TypeInv'
  BY PreHandlerType, WorkType, StrayType, RestType DEF Next, Plugin

\* The guard's row, its requests and its transactions stay well typed, whatever
\* is aborted, lost or pruned.
THEOREM TypeCorrect == Spec => []TypeOK
<1>1. Spec => []TypeInv
  BY InitType, NextType, PTL DEF Spec
<1>2. TypeInv => TypeOK
  BY DEF TypeInv
<1> QED
  BY <1>1, <1>2, PTL

-----------------------------------------------------------------------------
(* Claims, whatever the framework and the handlers do.                      *)

\* A locked_at is given out once, to one request, for the body in the row; the one a
\* loser observed still stands for the body it compared.
Fits(a) ==
  pc[a] \in Claiming \/ (pc[a] = "stale" /\ claim[a] # None) =>
     /\ claim[a] \in 1 .. runs
     /\ Holds(a) => row[key[a]].hash = body[a]

ClaimsInv ==
  /\ \A a \in Attempts : Fits(a)
  /\ \A a, b \in Attempts :
       pc[a] \in Claiming /\ pc[b] \in Claiming /\ claim[a] = claim[b] => a = b
  /\ \A k \in Keys : row[k] # None /\ row[k].token # None => row[k].token \in 1 .. runs

\* What a statement that gives out no locked_at does to a row.
RowWanes(k) ==
  \/ row'[k] = row[k]
  \/ row'[k] = None
  \/ row'[k].token = None /\ row'[k].resp # None

\* What a step that gives out no locked_at, and shows none to a loser, does to a request.
Leaves(b) == pc'[b] \notin Claiming \cup {"stale"}
Stays(b) ==
  /\ UNCHANGED <<key[b], body[b], claim[b]>>
  /\ pc'[b] = pc[b] \/ (pc[b] \in Claiming /\ pc'[b] \in Claiming)

Wane ==
  /\ runs' = runs
  /\ \A k \in Keys : RowWanes(k)
  /\ \A b \in Attempts : Leaves(b) \/ Stays(b)

\* Such a step keeps every claim what it was.
LEMMA WaneClaims == ASSUME TypeInv, ClaimsInv, Wane PROVE ClaimsInv'
<1>1. ASSUME NEW b \in Attempts PROVE Fits(b)'
  <2>1. CASE Leaves(b)
    BY <2>1 DEF Leaves, Fits
  <2>2. CASE Stays(b) /\ ~Leaves(b)
    <3>1. key[b] \in Keys /\ RowWanes(key[b]) /\ runs' = runs /\ Fits(b)
      BY DEF Wane, TypeInv, TypeOK, ClaimsInv
    <3>2. (pc'[b] = "stale") = (pc[b] = "stale") /\ (pc'[b] \in Claiming) = (pc[b] \in Claiming)
      BY <2>2 DEF Stays, Claiming, Straying, Working
    <3> QED
      BY <2>2, <3>1, <3>2 DEF Stays, Fits, Holds, Unlocked, RowWanes
  <2> QED
    BY <2>1, <2>2 DEF Wane
<1>2. ASSUME NEW a \in Attempts, NEW b \in Attempts,
             pc'[a] \in Claiming, pc'[b] \in Claiming, claim'[a] = claim'[b]
      PROVE  a = b
  <2>1. /\ pc[a] \in Claiming /\ claim'[a] = claim[a]
        /\ pc[b] \in Claiming /\ claim'[b] = claim[b]
    BY <1>2 DEF Wane, Leaves, Stays
  <2> QED
    BY <1>2, <2>1 DEF ClaimsInv
<1>3. \A k \in Keys : row'[k] # None /\ row'[k].token # None => row'[k].token \in 1 .. runs'
  BY DEF Wane, RowWanes, ClaimsInv
<1> QED
  BY <1>1, <1>2, <1>3 DEF ClaimsInv

\* An answer, a move of one request and the passing of time give out no locked_at.
LEMMA FinishWanes ==
  ASSUME TypeInv, NEW a \in Attempts, NEW r, Finish(a, r), UNCHANGED <<key, body, runs>>,
         \A k \in Keys : RowWanes(k)
  PROVE  Wane
BY DEF Finish, Goto, Wane, Leaves, Stays, Claiming, Straying, Working, TypeInv, TypeOK

LEMMA GotoWanes ==
  ASSUME TypeInv, NEW a \in Attempts, NEW p, Goto(a, p), UNCHANGED <<key, body, claim, runs>>,
         p \notin Claiming \cup {"stale"} \/ (pc[a] \in Claiming /\ p \in Claiming),
         \A k \in Keys : RowWanes(k)
  PROVE  Wane
BY DEF Goto, Wane, Leaves, Stays, TypeInv, TypeOK

LEMMA StillWanes ==
  ASSUME TypeInv, UNCHANGED <<pc, key, body, claim, runs>>, \A k \in Keys : RowWanes(k)
  PROVE  Wane
BY DEF Wane, Stays, TypeInv, TypeOK

\* RELEASE_CLAIM_SQL takes the row or leaves it.
LEMMA ReleaseWanes ==
  ASSUME TypeInv, NEW a \in Attempts, ReleaseClaim(a)
  PROVE  runs' = runs /\ \A k \in Keys : RowWanes(k)
BY DEF ReleaseClaim, DropRow, RowWanes, TypeInv, TypeOK

\* A locked_at is given out by CLAIM_SQL and RECLAIM_SQL, and shown by FETCH_SQL.
LEMMA StepClaim ==
  ASSUME TypeInv, [Next]_vars
  PROVE  \/ Wane
         \/ \E a \in Attempts : ClaimWon(a) \/ Reclaim(a)
         \/ \E a \in Attempts : Fetch(a) /\ Goto(a, "stale")
<1> USE DEF guardVars
<1>0. UNCHANGED row => \A k \in Keys : RowWanes(k)
  BY DEF RowWanes
<1>1. ASSUME NEW a \in Attempts, \E k \in Keys, h \in Bodies : Arrive(a, k, h)
      PROVE  Wane
  BY <1>0, <1>1 DEF Arrive, Goto, Wane, Leaves, Stays, Claiming, Straying, Working, TypeInv, TypeOK
<1>2. ASSUME NEW a \in Attempts, ClaimLost(a) \/ Fetch(a), ~Goto(a, "stale")
      PROVE  Wane
  <2>1. CASE Goto(a, "lost") /\ UNCHANGED claim
    BY <1>0, <1>2, <2>1, GotoWanes DEF ClaimLost, Fetch, Claiming, Straying, Working
  <2>2. CASE Goto(a, "again") /\ UNCHANGED claim
    BY <1>0, <1>2, <2>2, GotoWanes DEF ClaimLost, Fetch, Claiming, Straying, Working
  <2>3. CASE \E r : Finish(a, r)
    BY <1>0, <1>2, <2>3, FinishWanes DEF ClaimLost, Fetch
  <2> QED
    BY <1>2, <2>1, <2>2, <2>3 DEF ClaimLost, Fetch
<1>3. ASSUME NEW a \in Attempts,
             \/ ReclaimLost(a) \/ PoolTimeout(a) \/ StoreFails(a) \/ SettleLost(a) \/ Lose(a)
             \/ \E c \in Clients : PoolBroken(a, c)
      PROVE  Wane
  BY <1>0, <1>3, FinishWanes DEF ReclaimLost, PoolTimeout, PoolBroken, StoreFails, SettleLost, Lose
<1>4. ASSUME NEW a \in Attempts,
             (\E c \in Clients : Begin(a, c)) \/ BeginFails(a) \/ HandlerReturns(a)
                \/ Store(a) \/ SettleFail(a) \/ Abort(a) \/ StrayThrows(a)
      PROVE  Wane
  <2>1. PICK p \in Claiming : pc[a] \in Claiming /\ Goto(a, p) /\ UNCHANGED <<key, body, claim, guardVars>>
    BY <1>4 DEF Begin, BeginFails, HandlerReturns, Store, SettleFail, Abort, StrayThrows, Claiming,
       Straying, Working
  <2> QED
    BY <1>0, <2>1, GotoWanes
<1>5. ASSUME NEW a \in Attempts, Savepoint(a) \/ Execute(a) \/ StrayExecute(a) \/ StraySavepoint(a)
      PROVE  Wane
  BY <1>0, <1>5, StillWanes DEF Savepoint, Execute, StrayExecute, StraySavepoint
<1>6. ASSUME NEW a \in Attempts, AbortRelease(a)
      PROVE  Wane
  BY <1>6, StillWanes, ReleaseWanes DEF AbortRelease, reqVars
<1>7. ASSUME NEW a \in Attempts, Release(a)
      PROVE  Wane
  BY <1>7, FinishWanes, ReleaseWanes DEF Release
<1>8. ASSUME NEW a \in Attempts,
             StrayRelease(a) \/ StrayUndo(a) \/ StrayUndone(a) \/ StrayEnd(a)
      PROVE  Wane
  <2>0. pc[a] \in Claiming /\ UNCHANGED <<guardVars, key, body>>
    BY <1>8 DEF StrayRelease, StrayUndo, StrayUndone, StrayEnd, Claiming, Straying
  <2>1. CASE \E p \in Claiming : Goto(a, p) /\ UNCHANGED claim
    BY <1>0, <2>0, <2>1, GotoWanes
  <2>2. CASE Finish(a, Unanswered)
    BY <1>0, <2>0, <2>2, FinishWanes
  <2>3. CASE StrayLeaves(a)
    BY <2>1, <2>2, <2>3 DEF StrayLeaves, Claiming
  <2> QED
    BY <1>8, <2>1, <2>3 DEF StrayRelease, StrayUndo, StrayUndone, StrayEnd, Claiming, Straying
<1>9. ASSUME NEW a \in Attempts, SettleCommit(a)
      PROVE  Wane
  <2>1. CASE UNCHANGED row
    BY <1>0, <1>9, <2>1, FinishWanes DEF SettleCommit
  <2>2. CASE Lands(a) /\ row' = [row EXCEPT ![key[a]] = [@ EXCEPT !.token = None, !.resp = claim[a]]]
    <3>1. row[key[a]] \in Row /\ claim[a] \in Tokens /\ claim[a] # None
      BY <1>9, <2>2, GuardAssumption
         DEF SettleCommit, Lands, Holds, Unlocked, Shape, Claiming, Straying, Working, Tokens, TypeInv, TypeOK
    <3>2. \A k \in Keys : RowWanes(k)
      BY <2>2, <3>1 DEF RowWanes, Row, TypeInv, TypeOK
    <3> QED
      BY <1>9, <3>2, FinishWanes DEF SettleCommit
  <2> QED
    BY <1>9, <2>1, <2>2 DEF SettleCommit
<1>10. CASE Time
  <2>1. UNCHANGED <<pc, key, body, claim, runs>> /\ \A k \in Keys : RowWanes(k)
    BY <1>10 DEF Time, Age, Expire, Prune, DropRow, RowWanes, reqVars, TypeInv, TypeOK
  <2> QED
    BY <2>1, StillWanes
<1>11. CASE UNCHANGED vars
  BY <1>0, <1>11, StillWanes DEF vars, reqVars
<1>12. ASSUME NEW a \in Attempts, Plugin(a)
       PROVE  Wane \/ ClaimWon(a) \/ Reclaim(a) \/ (Fetch(a) /\ Goto(a, "stale"))
  <2>1. CASE ClaimLost(a) \/ Fetch(a)
    <3>1. ~(ClaimLost(a) /\ Goto(a, "stale"))
      BY DEF ClaimLost, Goto, Finish, TypeInv, TypeOK
    <3> QED
      BY <1>2, <2>1, <3>1
  <2> QED
    BY <1>3, <1>4, <1>5, <1>7, <1>9, <1>12, <2>1 DEF Plugin
<1> QED
  BY <1>1, <1>3, <1>4, <1>5, <1>6, <1>8, <1>10, <1>11, <1>12 DEF Next, Stray

\* A row that is taken carries a new locked_at.
LEMMA TakeRow ==
  ASSUME TypeInv, NEW a \in Attempts, ClaimWon(a) \/ Reclaim(a)
  PROVE  \E r \in Row : /\ Take(a, r) /\ r.token = runs + 1 /\ r.resp = None
                        /\ r.hash = IF ClaimWon(a) THEN body[a] ELSE row[key[a]].hash
<1>1. runs + 1 \in Tokens
  BY GuardAssumption DEF ClaimWon, Reclaim, Take, Tokens, TypeInv, TypeOK
<1>2. CASE ClaimWon(a)
  <2> DEFINE r == [hash |-> body[a], token |-> runs + 1, resp |-> None]
  <2>1. Take(a, r)
    BY <1>2 DEF ClaimWon
  <2>2. r \in Row /\ r.token = runs + 1 /\ r.resp = None /\ r.hash = body[a]
    BY <1>1 DEF Row, TypeInv, TypeOK
  <2> QED
    BY <1>2, <2>1, <2>2
<1>3. CASE Reclaim(a) /\ ~ClaimWon(a)
  <2>1. row[key[a]] \in Row /\ row[key[a]].resp = None
    BY <1>3 DEF Reclaim, Holds, Unlocked, TypeInv, TypeOK
  <2>2. PICK h, q : row[key[a]] = [hash |-> h, token |-> q, resp |-> None] /\ h \in Bodies
    BY <2>1 DEF Row
  <2>3. [row[key[a]] EXCEPT !.token = runs + 1] = [hash |-> h, token |-> runs + 1, resp |-> None]
    BY <2>2
  <2> QED
    BY <1>1, <1>3, <2>2, <2>3 DEF Reclaim, Row
<1> QED
  BY <1>2, <1>3

\* Every step keeps the claims apart.
LEMMA NextClaims == ASSUME TypeInv, ClaimsInv, [Next]_vars PROVE ClaimsInv'
<1>1. ASSUME NEW a \in Attempts, ClaimWon(a) \/ Reclaim(a)
      PROVE  ClaimsInv'
  <2>1. PICK r \in Row : /\ Take(a, r) /\ r.token = runs + 1 /\ r.resp = None
                         /\ r.hash = IF ClaimWon(a) THEN body[a] ELSE row[key[a]].hash
    BY <1>1, TakeRow
  <2>2. r.hash = body[a]
    BY <1>1, <2>1 DEF Reclaim, ClaimsInv, Fits
  <2>3. /\ runs \in Nat /\ runs' = runs + 1 /\ claim'[a] = runs + 1 /\ pc'[a] = "begin"
        /\ key[a] \in Keys /\ row'[key[a]] = r /\ UNCHANGED <<key, body>>
        /\ \A k \in Keys \ {key[a]} : row'[k] = row[k]
        /\ \A b \in Attempts \ {a} : claim'[b] = claim[b] /\ pc'[b] = pc[b]
    BY <2>1, GuardAssumption DEF Take, Goto, TypeInv, TypeOK
  <2>4. ASSUME NEW b \in Attempts PROVE Fits(b)'
    <3>1. CASE b = a
      BY <2>2, <2>3, <3>1 DEF Fits
    <3>2. CASE b # a /\ key[b] = key[a]
      <4>1. Fits(b) /\ claim'[b] = claim[b] /\ pc'[b] = pc[b] /\ key'[b] = key[b]
        BY <2>3, <3>2 DEF ClaimsInv
      <4>2. (pc[b] \in Claiming \/ (pc[b] = "stale" /\ claim[b] # None)) =>
               claim[b] \in 1 .. runs' /\ claim[b] # runs + 1
        BY <2>3, <4>1 DEF Fits
      <4> QED
        BY <2>1, <2>3, <3>2, <4>1, <4>2 DEF Fits, Holds
    <3>3. CASE b # a /\ key[b] # key[a]
      <4>1. /\ Fits(b) /\ claim'[b] = claim[b] /\ pc'[b] = pc[b] /\ key'[b] = key[b]
            /\ body'[b] = body[b] /\ row'[key[b]] = row[key[b]]
        BY <2>3, <3>3 DEF ClaimsInv, TypeInv, TypeOK
      <4> QED
        BY <2>3, <4>1 DEF Fits, Holds, Unlocked
    <3> QED
      BY <3>1, <3>2, <3>3
  <2>5. ASSUME NEW b \in Attempts, NEW c \in Attempts,
               pc'[b] \in Claiming, pc'[c] \in Claiming, claim'[b] = claim'[c]
        PROVE  b = c
    <3>1. ASSUME NEW d \in Attempts \ {a}, pc'[d] \in Claiming PROVE claim'[d] # claim'[a]
      BY <2>3, <3>1 DEF ClaimsInv, Fits
    <3> QED
      BY <2>3, <2>5, <3>1 DEF ClaimsInv
  <2>6. \A k \in Keys : row'[k] # None /\ row'[k].token # None => row'[k].token \in 1 .. runs'
    BY <2>1, <2>3 DEF ClaimsInv
  <2> QED
    BY <2>4, <2>5, <2>6 DEF ClaimsInv
<1>2. ASSUME NEW a \in Attempts, Fetch(a), Goto(a, "stale")
      PROVE  ClaimsInv'
  <2>1. /\ pc'[a] = "stale" /\ UNCHANGED <<row, runs, key, body>>
        /\ \A b \in Attempts \ {a} : claim'[b] = claim[b] /\ pc'[b] = pc[b]
        /\ row[key[a]] # None /\ row[key[a]].hash = body[a] /\ claim'[a] = row[key[a]].token
        /\ key[a] \in Keys /\ "stale" \notin Claiming
    BY <1>2 DEF Fetch, Goto, Finish, guardVars, Claiming, Straying, Working, TypeInv, TypeOK
  <2>2. ASSUME NEW b \in Attempts PROVE Fits(b)'
    <3>1. CASE b = a
      BY <2>1, <3>1 DEF Fits, ClaimsInv
    <3>2. CASE b # a
      BY <2>1, <3>2 DEF Fits, ClaimsInv, Holds, Unlocked
    <3> QED
      BY <3>1, <3>2
  <2> QED
    BY <2>1, <2>2 DEF ClaimsInv
<1> QED
  BY <1>1, <1>2, StepClaim, WaneClaims

LEMMA ReachableClaims == Spec => [](TypeInv /\ ClaimsInv)
<1>1. Init => ClaimsInv
  BY DEF Init, ClaimsInv, Fits, Claiming, Straying, Working
<1>2. TypeInv /\ ClaimsInv /\ [Next]_vars => ClaimsInv'
  BY NextClaims
<1> QED
  BY <1>1, <1>2, InitType, NextType, PTL DEF Spec

\* A reclaim is under way only for a claim past its window: whatever makes a row young
\* again gives it another locked_at.
StaleInv ==
  \A b \in Attempts : pc[b] = "stale" /\ claim[b] # None /\ Holds(b) => aged[key[b]]

LEMMA StepStale ==
  ASSUME TypeInv, ClaimsInv, StaleInv, [Next]_vars PROVE StaleInv'
<1>1. ASSUME NEW b \in Attempts, pc'[b] = "stale", claim'[b] # None, Holds(b)',
             pc[b] = "stale", key'[b] = key[b], claim'[b] = claim[b],
             row'[key[b]] = row[key[b]]
      PROVE  Holds(b) /\ aged[key[b]]
  BY <1>1 DEF StaleInv, Holds, Unlocked
<1>2. ASSUME NEW a \in Attempts, NEW b \in Attempts, ClaimWon(a) \/ Reclaim(a),
             pc'[b] = "stale", claim'[b] # None, Holds(b)'
      PROVE  aged'[key'[b]]
  <2>1. PICK r : Take(a, r) /\ r.token = runs + 1
    <3>1. CASE ClaimWon(a)
      BY <3>1 DEF ClaimWon
    <3>2. CASE Reclaim(a)
      <4>1. row[key[a]] \in Row
        BY <3>2 DEF Reclaim, Holds, Unlocked, TypeInv, TypeOK
      <4>2. [row[key[a]] EXCEPT !.token = runs + 1].token = runs + 1
        BY <4>1 DEF Row
      <4> QED
        BY <3>2, <4>2 DEF Reclaim
    <3> QED
      BY <1>2, <3>1, <3>2
  <2>2. b # a /\ pc[b] = "stale" /\ key'[b] = key[b] /\ claim'[b] = claim[b]
    BY <1>2, <2>1 DEF Take, Goto, TypeInv, TypeOK
  <2>3. claim[b] \in 1 .. runs /\ runs \in Nat
    BY <1>2, <2>2, GuardAssumption DEF ClaimsInv, Fits, TypeInv, TypeOK
  <2>4. key[b] # key[a]
    <3>1. SUFFICES ASSUME key[b] = key[a] PROVE FALSE
      OBVIOUS
    <3>2. key[a] \in Keys /\ row'[key[a]].token = runs + 1
      BY <2>1 DEF Take, TypeInv, TypeOK
    <3>3. claim[b] = runs + 1
      BY <1>2, <2>2, <3>1, <3>2 DEF Holds
    <3> QED
      BY <2>3, <3>3
  <2>5. row'[key[b]] = row[key[b]] /\ aged'[key[b]] = aged[key[b]]
    BY <2>1, <2>4 DEF Take, TypeInv, TypeOK
  <2> QED
    BY <1>1, <1>2, <2>2, <2>5
<1>3. ASSUME NEW a \in Attempts, NEW b \in Attempts, Fetch(a), b = a,
             pc'[b] = "stale", claim'[b] # None
      PROVE  aged'[key'[b]]
  <2>1. /\ row[key[a]] # None
        /\ row[key[a]].token = None \/ aged[key[a]]
        /\ UNCHANGED <<guardVars, key>>
    BY <1>3 DEF Fetch, Goto, Finish, TypeInv, TypeOK
  <2>2. row[key[a]].token # None
    BY <1>3, <2>1 DEF Fetch, Goto, Finish, TypeInv, TypeOK
  <2> QED
    BY <1>3, <2>1, <2>2 DEF guardVars
<1>4. ASSUME NEW a \in Attempts, NEW b \in Attempts, b # a \/ ~Fetch(a),
             \/ \E k \in Keys, h \in Bodies : Arrive(a, k, h)
             \/ Plugin(a) /\ ~ClaimWon(a) /\ ~Reclaim(a) /\ ~SettleCommit(a) /\ ~Release(a)
             \/ Lose(a),
             pc'[b] = "stale", claim'[b] # None, Holds(b)'
      PROVE  aged'[key'[b]]
  <2>1. UNCHANGED <<row, aged>>
    BY <1>4 DEF Arrive, Plugin, ClaimLost, Fetch, ReclaimLost, Begin, PoolBroken, BeginFails,
       PoolTimeout, Savepoint, Execute, HandlerReturns, Store, StoreFails, SettleLost, SettleFail, Lose, guardVars
  <2>2. pc[b] = "stale" /\ key'[b] = key[b] /\ claim'[b] = claim[b]
    BY <1>4 DEF Arrive, Plugin, ClaimLost, Fetch, ReclaimLost, Begin, PoolBroken, BeginFails,
       PoolTimeout, Savepoint, Execute, HandlerReturns, Store, StoreFails, SettleLost, SettleFail, Lose, Goto, Finish, TypeInv, TypeOK
  <2> QED
    BY <1>1, <1>4, <2>1, <2>2
<1>5. ASSUME NEW a \in Attempts, NEW b \in Attempts, SettleCommit(a) \/ Release(a),
             pc'[b] = "stale", claim'[b] # None, Holds(b)'
      PROVE  aged'[key'[b]]
  <2>1. b # a /\ pc[b] = "stale" /\ key'[b] = key[b] /\ claim'[b] = claim[b]
    BY <1>5 DEF SettleCommit, Release, Finish, Goto, TypeInv, TypeOK
  <2>2. row'[key[b]] = row[key[b]] /\ aged'[key[b]] = aged[key[b]]
    <3>1. CASE SettleCommit(a) /\ ~UNCHANGED <<row, aged>>
      <4>0. Lands(a) /\ row' = [row EXCEPT ![key[a]] = [@ EXCEPT !.token = None, !.resp = claim[a]]]
            /\ aged' = [aged EXCEPT ![key[a]] = FALSE] /\ pc[a] = "stored"
        BY <3>1 DEF SettleCommit
      <4>1. key[a] \in Keys /\ row[key[a]] \in Row /\ claim[a] \in Tokens
        BY <4>0 DEF Lands, Holds, Unlocked, TypeInv, TypeOK, Shape, Claiming, Straying, Working
      <4>2. row'[key[a]].resp = claim[a] /\ claim[a] # None
        BY <4>0, <4>1, GuardAssumption DEF Row, Tokens, TypeInv, TypeOK
      <4>3. key[b] # key[a]
        BY <1>5, <2>1, <4>2 DEF Holds, Unlocked
      <4> QED
        BY <4>0, <4>3 DEF TypeInv, TypeOK
    <3>2. CASE Release(a)
      <4>1. CASE DropRow(key[a])
        <5>1. key[a] \in Keys /\ row'[key[a]] = None
          BY <4>1 DEF DropRow, TypeInv, TypeOK
        <5>2. key[b] # key[a]
          BY <1>5, <2>1, <5>1 DEF Holds, Unlocked
        <5> QED
          BY <4>1, <5>2 DEF DropRow, TypeInv, TypeOK
      <4> QED
        BY <3>2, <4>1 DEF Release, ReleaseClaim
    <3> QED
      BY <1>5, <3>1, <3>2
  <2> QED
    BY <1>1, <1>5, <2>1, <2>2
<1>6. ASSUME NEW k \in Keys, NEW b \in Attempts, Age(k) \/ Expire(k) \/ Prune(k),
             pc'[b] = "stale", claim'[b] # None, Holds(b)'
      PROVE  aged'[key'[b]]
  <2>1. pc[b] = "stale" /\ key'[b] = key[b] /\ claim'[b] = claim[b] /\ key[b] \in Keys
    BY <1>6 DEF Age, Expire, Prune, reqVars, TypeInv, TypeOK
  <2>2. row'[key[b]] = row[key[b]]
    <3>1. row'[key[b]] # None
      BY <1>6, <2>1 DEF Holds, Unlocked
    <3> QED
      BY <1>6, <2>1, <3>1 DEF Age, Expire, Prune, DropRow, TypeInv, TypeOK
  <2>3. Holds(b) /\ aged[key[b]]
    BY <1>1, <1>6, <2>1, <2>2
  <2> QED
    BY <1>6, <2>1, <2>2, <2>3 DEF Age, Expire, Prune, DropRow, Holds, Unlocked, TypeInv, TypeOK
<1>7. ASSUME NEW a \in Attempts, NEW b \in Attempts, Abort(a) \/ Stray(a),
             pc'[b] = "stale", claim'[b] # None, Holds(b)'
      PROVE  aged'[key'[b]]
  <2>1. b # a /\ pc[b] = "stale" /\ key'[b] = key[b] /\ claim'[b] = claim[b]
    BY <1>7 DEF Abort, Stray, AbortRelease, StrayExecute, StraySavepoint, StrayRelease, StrayThrows,
       StrayUndo, StrayUndone, StrayEnd, StrayLeaves, Finish, Goto, Working, Straying, reqVars,
       TypeInv, TypeOK
  <2>2. row'[key[b]] = row[key[b]] /\ aged'[key[b]] = aged[key[b]]
    <3>1. CASE AbortRelease(a) /\ DropRow(key[a])
      <4>1. key[a] \in Keys /\ row'[key[a]] = None
        BY <3>1 DEF DropRow, TypeInv, TypeOK
      <4>2. key[b] # key[a]
        BY <1>7, <2>1, <4>1 DEF Holds, Unlocked
      <4> QED
        BY <3>1, <4>2 DEF DropRow, TypeInv, TypeOK
    <3>2. CASE ~(AbortRelease(a) /\ DropRow(key[a]))
      BY <1>7, <3>2 DEF Abort, Stray, AbortRelease, ReleaseClaim, StrayExecute, StraySavepoint,
         StrayRelease, StrayThrows, StrayUndo, StrayUndone, StrayEnd, guardVars
    <3> QED
      BY <3>1, <3>2
  <2> QED
    BY <1>1, <1>7, <2>1, <2>2
<1>8. CASE UNCHANGED vars
  BY <1>8 DEF vars, guardVars, reqVars, StaleInv, Holds, Unlocked
<1> QED
  <2>1. ASSUME NEW b \in Attempts, pc'[b] = "stale", claim'[b] # None, Holds(b)', ~UNCHANGED vars
        PROVE  aged'[key'[b]]
    <3>1. CASE Time
      BY <1>6, <2>1, <3>1 DEF Time
    <3>2. ASSUME NEW a \in Attempts,
                 (\E k \in Keys, h \in Bodies : Arrive(a, k, h)) \/ Plugin(a) \/ Lose(a)
          PROVE  aged'[key'[b]]
      BY <1>2, <1>3, <1>4, <1>5, <2>1, <3>2
    <3> QED
      BY <1>7, <2>1, <3>1, <3>2 DEF Next
  <2> QED
    BY <1>8, <2>1 DEF StaleInv

LEMMA ReachableStale == Spec => []StaleInv
<1>1. Init => StaleInv
  BY DEF Init, StaleInv
<1>2. TypeInv /\ ClaimsInv /\ StaleInv /\ [Next]_vars => StaleInv'
  BY StepStale
<1> QED
  BY <1>1, <1>2, ReachableClaims, PTL DEF Spec

\* A request that works keeps its claim, as long as no statement takes its row from it.
LEMMA RowKept ==
  ASSUME TypeInv, ClaimsInv, [Next]_vars, NEW a \in Attempts,
         pc[a] \in Working, pc'[a] \in Working, Holds(a),
         \A b \in Attempts : ClaimWon(b) \/ Reclaim(b) => key[b] # key[a],
         \A k \in Keys : Prune(k) => k # key[a]
  PROVE  Holds(a)'
<1>1. /\ key[a] \in Keys /\ claim[a] \in Tokens /\ claim[a] # None
      /\ pc[a] \notin {"idle", "claim", "lost", "again", "stale", "begin", "free"} \cup Straying
  BY GuardAssumption DEF TypeInv, TypeOK, Shape, Claiming, Straying, Working, Tokens
<1>2. ASSUME NEW b \in Attempts, Holds(b), key[b] = key[a], claim[b] = claim[a],
             pc[b] \in Claiming
      PROVE  b = a
  BY <1>2 DEF ClaimsInv, Claiming
<1>3. ASSUME key'[a] = key[a], claim'[a] = claim[a], row'[key[a]] = row[key[a]]
      PROVE  Holds(a)'
  BY <1>3 DEF Holds, Unlocked
<1>4. ASSUME NEW b \in Attempts, Plugin(b) \/ Lose(b) \/ \E k \in Keys, h \in Bodies : Arrive(b, k, h)
      PROVE  key'[a] = key[a] /\ claim'[a] = claim[a]
  <2>1. CASE b = a
    <3>1. CASE Savepoint(a) \/ Execute(a) \/ HandlerReturns(a) \/ Store(a)
      BY <3>1 DEF Savepoint, Execute, HandlerReturns, Store
    <3>2. CASE ~(Savepoint(a) \/ Execute(a) \/ HandlerReturns(a) \/ Store(a))
      BY <1>1, <1>4, <2>1, <3>2 DEF Plugin, Lose, Arrive, ClaimWon, ClaimLost, Fetch, Reclaim,
         ReclaimLost, Begin, PoolBroken, BeginFails, PoolTimeout, StoreFails, SettleCommit,
         SettleLost, SettleFail, Release, Finish, Goto, Working, TypeInv, TypeOK
    <3> QED
      BY <3>1, <3>2
  <2>2. CASE b # a
    <3>1. CASE \E k \in Keys, h \in Bodies : Arrive(b, k, h)
      BY <2>2, <3>1 DEF Arrive, TypeInv, TypeOK
    <3>2. CASE ClaimWon(b) \/ Reclaim(b)
      BY <2>2, <3>2 DEF ClaimWon, Reclaim, Take, TypeInv, TypeOK
    <3>3. CASE ClaimLost(b) \/ Fetch(b)
      BY <2>2, <3>3 DEF ClaimLost, Fetch, Finish, TypeInv, TypeOK
    <3>4. CASE \/ ReclaimLost(b) \/ PoolTimeout(b) \/ StoreFails(b) \/ SettleCommit(b) \/ SettleLost(b)
               \/ Release(b) \/ Lose(b) \/ \E c \in Clients : PoolBroken(b, c)
      BY <2>2, <3>4 DEF ReclaimLost, PoolTimeout, PoolBroken, StoreFails, SettleCommit, SettleLost,
         Release, Lose, Finish, TypeInv, TypeOK
    <3>5. CASE (\E c \in Clients : Begin(b, c)) \/ BeginFails(b) \/ Savepoint(b) \/ Execute(b)
                 \/ HandlerReturns(b) \/ Store(b) \/ SettleFail(b)
      BY <3>5 DEF Begin, BeginFails, Savepoint, Execute, HandlerReturns, Store, SettleFail
    <3> QED
      BY <1>4, <3>1, <3>2, <3>3, <3>4, <3>5 DEF Plugin
  <2> QED
    BY <2>1, <2>2
<1>5. ASSUME NEW b \in Attempts, Plugin(b) \/ Lose(b) \/ \E k \in Keys, h \in Bodies : Arrive(b, k, h)
      PROVE  row'[key[a]] = row[key[a]]
  <2>1. CASE ClaimWon(b)
    <3>1. key[b] # key[a]
      BY <2>1
    <3> QED
      BY <2>1, <3>1 DEF ClaimWon, Take, TypeInv, TypeOK
  <2>2. CASE Reclaim(b)
    <3>1. key[b] # key[a]
      BY <2>2
    <3> QED
      BY <2>2, <3>1 DEF Reclaim, Take, TypeInv, TypeOK
  <2>3. CASE SettleCommit(b) /\ ~UNCHANGED row
    <3>1. pc[b] = "stored" /\ Holds(b) /\ pc'[b] = "idle"
      <4>1. pc[b] = "stored" /\ Holds(b) /\ pc' = [pc EXCEPT ![b] = "idle"]
        BY <2>3 DEF SettleCommit, Lands, Finish, Goto
      <4>2. pc \in [Attempts -> Pcs]
        BY DEF TypeInv, TypeOK
      <4> QED
        BY <4>1, <4>2
    <3>2. b # a
      BY <3>1 DEF Working
    <3>3. key[b] # key[a]
      BY <1>2, <3>1, <3>2 DEF Holds, Claiming, Straying, Working
    <3> QED
      <4>1. row' = [row EXCEPT ![key[b]] = [@ EXCEPT !.token = None, !.resp = claim[b]]]
        BY <2>3 DEF SettleCommit
      <4> QED
        BY <3>3, <4>1 DEF TypeInv, TypeOK
  <2>4. CASE Release(b)
    <3>1. pc[b] = "free" /\ b # a
      BY <1>1, <2>4 DEF Release
    <3>2. Holds(b) => key[b] # key[a]
      BY <1>2, <3>1 DEF Holds, Claiming
    <3>3. CASE Holds(b) /\ row' = [row EXCEPT ![key[b]] = None]
      BY <3>2, <3>3 DEF TypeInv, TypeOK
    <3> QED
      BY <2>4, <3>3 DEF Release, ReleaseClaim, DropRow
  <2>5. CASE ~(ClaimWon(b) \/ Reclaim(b) \/ SettleCommit(b) \/ Release(b))
    BY <1>5, <2>5 DEF Plugin, ClaimLost, Fetch, ReclaimLost, Begin, PoolBroken, BeginFails, PoolTimeout,
       Savepoint, Execute, HandlerReturns, Store, StoreFails, SettleLost, SettleFail, Lose, Arrive,
       guardVars
  <2> QED
    BY <2>1, <2>2, <2>3, <2>4, <2>5
<1>6. ASSUME NEW b \in Attempts, Abort(b) \/ Stray(b)
      PROVE  Holds(a)'
  <2>1. CASE Abort(b) \/ StrayExecute(b) \/ StraySavepoint(b) \/ StrayThrows(b)
    BY <1>3, <2>1 DEF Abort, StrayExecute, StraySavepoint, StrayThrows, guardVars
  <2>2. CASE AbortRelease(b)
    <3>1. pc[b] \in Straying /\ b # a
      BY <1>1, <2>2 DEF AbortRelease
    <3>2. Holds(b) => key[b] # key[a]
      BY <1>2, <3>1 DEF Holds, Claiming
    <3>3. row'[key[a]] = row[key[a]]
      <4>1. CASE Holds(b) /\ row' = [row EXCEPT ![key[b]] = None]
        BY <3>2, <4>1 DEF TypeInv, TypeOK
      <4> QED
        BY <2>2, <4>1 DEF AbortRelease, ReleaseClaim, DropRow
    <3> QED
      BY <1>3, <2>2, <3>3 DEF AbortRelease, reqVars
  <2>3. CASE StrayRelease(b) \/ StrayUndo(b) \/ StrayUndone(b) \/ StrayEnd(b)
    <3>1. b # a /\ UNCHANGED <<row, key>>
      BY <1>1, <2>3 DEF StrayRelease, StrayUndo, StrayUndone, StrayEnd, Straying, guardVars
    <3>2. claim'[a] = claim[a]
      BY <2>3, <3>1 DEF StrayRelease, StrayUndo, StrayUndone, StrayEnd, StrayLeaves, Finish,
         TypeInv, TypeOK
    <3> QED
      BY <1>3, <3>1, <3>2
  <2> QED
    BY <1>6, <2>1, <2>2, <2>3 DEF Stray
<1>7. CASE Time
  <2>1. row'[key[a]] = row[key[a]]
    BY <1>7 DEF Time, Age, Expire, Prune, DropRow, TypeInv, TypeOK
  <2> QED
    BY <1>3, <1>7, <2>1 DEF Time, Age, Expire, Prune, reqVars
<1>8. CASE UNCHANGED vars
  BY <1>3, <1>8 DEF vars, guardVars, reqVars
<1> QED
  BY <1>3, <1>4, <1>5, <1>6, <1>7, <1>8 DEF Next

\* A request that works inside its window keeps its claim, whatever other requests under
\* its key claim, reclaim, release or time out (the locked_at predicates of RECLAIM_SQL,
\* RELEASE_CLAIM_SQL and STORE_RESPONSE_SQL).
THEOREM FreshClaimsLast == Spec => FreshClaimKept
<1> DEFINE Lasts == \A a \in Attempts :
              (pc[a] \in Working /\ pc'[a] \in Working /\ Holds(a)
                  /\ ~aged[key[a]] /\ ~expired[key[a]]) => Holds(a)'
<1>1. ASSUME TypeInv, ClaimsInv, StaleInv, [Next]_vars, NEW a \in Attempts,
             pc[a] \in Working, pc'[a] \in Working, Holds(a), ~aged[key[a]], ~expired[key[a]]
      PROVE  Holds(a)'
  <2>1. ASSUME NEW b \in Attempts, ClaimWon(b) \/ Reclaim(b) PROVE key[b] # key[a]
    BY <1>1, <2>1 DEF ClaimWon, Claimable, Reclaim, StaleInv, Holds, Unlocked
  <2>2. \A k \in Keys : Prune(k) => k # key[a]
    BY <1>1 DEF Prune
  <2> QED
    BY <1>1, <2>1, <2>2, RowKept
<1>2. TypeInv /\ ClaimsInv /\ StaleInv /\ [Next]_vars => Lasts
  BY <1>1
<1> QED
  BY <1>2, ReachableClaims, ReachableStale, PTL DEF Spec, FreshClaimKept

-----------------------------------------------------------------------------
(* The inductive invariant behind AtMostOnce.  It speaks of the guard as    *)
(* the plugin intends it to be used: the handler writes through the request *)
(* transaction, and is not cut off in the middle.                           *)

Managed == ~Aborts /\ ~Direct

\* The s-th write of the run a request makes.
RunWrite(a, s) == [key |-> key[a], run |-> claim[a], stmt |-> s, hash |-> body[a]]

\* A client is with the request that took it, and pending writes belong to an open
\* transaction.
ClientInv ==
  /\ \A a \in Attempts :
        /\ pc[a] \notin Straying
        /\ pc[a] \in Working => owner[conn[a]] = a
        /\ pc[a] \notin Working \cup {"free"} => \A c \in Clients : owner[c] # a
  /\ \A c \in Clients :
        pend[c] # {} => owner[c] # None /\ pc[owner[c]] \in Working /\ conn[owner[c]] = c
  /\ \A c \in Clients : ~broken[c]

\* The transaction of a request holds the statements it has executed, STORE_RESPONSE
\* after the handler's last.
PendInv ==
  \A a \in Attempts :
     /\ pc[a] \notin Working \cup {"free"} => stmt[a] = 0
     /\ pc[a] = "done" => stmt[a] = NStmts + 1
     /\ pc[a] = "stored" => stmt[a] = NStmts + 2
     /\ pc[a] \in Working =>
          pend[conn[a]] = {RunWrite(a, s) : s \in 1 .. (stmt[a] - 1)}

\* A locked_at is given out once, to one request, for the body in the row; the one a
\* loser observed still stands for the body it compared.
ClaimInv ==
  /\ \A a \in Attempts : pc[a] \in Claiming =>
        /\ claim[a] \in 1 .. runs
        /\ \A b \in Attempts : pc[b] \in Claiming /\ claim[b] = claim[a] => b = a
        /\ \A x \in applied : x.write.run # claim[a]
        /\ Holds(a) => row[key[a]].hash = body[a]
  /\ \A a \in Attempts : pc[a] = "stale" /\ claim[a] # None =>
        /\ claim[a] \in 1 .. runs
        /\ Holds(a) => row[key[a]].hash = body[a]
  /\ \A x \in applied : x.write.run \in 1 .. runs
  /\ \A k \in Keys : row[k] # None /\ row[k].token # None => row[k].token \in 1 .. runs

\* The committed writes of a key's present row are those of the run it answers with.
CommitInv ==
  /\ \A x \in applied :
        /\ x.epoch \in 0 .. epoch[x.write.key]
        /\ x.epoch = epoch[x.write.key] =>
              Stored(x.write.key) = [run |-> x.write.run, hash |-> x.write.hash]
  /\ \A k \in Keys : Stored(k) # None =>
        \A s \in Stmts :
           [write |-> [key |-> k, run |-> Stored(k).run, stmt |-> s, hash |-> Stored(k).hash],
            epoch |-> epoch[k]] \in applied

\* Nobody takes the claim from under an uncommitted STORE_RESPONSE.
LockInv == \A a \in Attempts : pc[a] = "stored" => Holds(a)

RunsInv == ClientInv /\ PendInv /\ ClaimInv /\ CommitInv /\ AtMostOnce /\ AnswerMeansApplied
OnceInv == RunsInv /\ LockInv

\* Nothing is committed, claimed or answered at the start.
LEMMA InitOnce == Init => OnceInv
  BY GuardAssumption DEF Init, OnceInv, ClientInv, PendInv, ClaimInv, CommitInv, AtMostOnce,
     AnswerMeansApplied, RunsInv, LockInv, Claiming, Straying, Working, Stored, Unanswered

\* A step that commits nothing and shows no other answer keeps what is committed right.
LEMMA QuietCommit ==
  ASSUME CommitInv, AtMostOnce, UNCHANGED <<applied, epoch>>,
         \A k \in Keys : Stored(k)' = Stored(k),
         TypeInv
  PROVE  CommitInv' /\ AtMostOnce'
<1>1. \A x \in applied : x.write.key \in Keys
  BY DEF TypeInv, TypeOK, Write
<1> QED
  BY <1>1 DEF CommitInv, AtMostOnce

\* A step that gives no new success and takes back no write keeps the answers true.
LEMMA QuietTruth ==
  ASSUME AnswerMeansApplied, applied \subseteq applied',
         \A a \in Attempts :
            \/ UNCHANGED <<reply[a], key[a], body[a]>>
            \/ reply[a]'.kind \notin {"ok", "replay"}
  PROVE  AnswerMeansApplied'
  BY DEF AnswerMeansApplied

\* What a statement on an unanswered row does to it shows nothing.
LEMMA QuietRow ==
  ASSUME NEW k \in Keys, \A q \in Keys \ {k} : row'[q] = row[q],
         row[k] = None \/ row[k].resp = None,
         row'[k] = None \/ row'[k].resp = None
  PROVE  \A q \in Keys : Stored(q)' = Stored(q)
  BY DEF Stored

\* An answer that is not a success ends a request that has no client.
LEMMA EndOnce ==
  ASSUME Managed, TypeInv, OnceInv, NEW a \in Attempts, NEW r \in Replies,
         r.kind \notin {"ok", "replay"}, pc[a] \notin Working \cup {"free"},
         Finish(a, r), UNCHANGED <<guardVars, key, body, dbVars>>
  PROVE  RunsInv'
<1> USE DEF OnceInv, RunsInv, guardVars, dbVars
<1>0. pc[a] \in Pcs /\ a \in DOMAIN pc /\ a \in DOMAIN reply /\ a \in DOMAIN stmt
  BY DEF TypeInv, TypeOK
<1>1. ClientInv' /\ PendInv'
  BY <1>0 DEF TypeInv, TypeOK, Finish, Goto, ClientInv, PendInv, Straying, Working, Claiming, RunWrite
<1>2. ClaimInv'
  BY <1>0 DEF TypeInv, TypeOK, Finish, Goto, ClaimInv, Claiming, Straying, Working, Holds, Unlocked
<1>3. CommitInv' /\ AtMostOnce'
  BY QuietCommit DEF Stored
<1>4. AnswerMeansApplied'
  BY QuietTruth DEF TypeInv, TypeOK, Finish
<1> QED
  BY <1>1, <1>2, <1>3, <1>4

\* The preHandler keeps the invariant.
LEMMA PreHandlerOnce ==
  ASSUME Managed, TypeInv, OnceInv, NEW a \in Attempts,
         \/ \E k \in Keys, h \in Bodies : Arrive(a, k, h)
         \/ ClaimLost(a) \/ Fetch(a)
         \/ ReclaimLost(a) \/ PoolTimeout(a) \/ BeginFails(a)
  PROVE  RunsInv'
<1> USE DEF OnceInv, RunsInv
<1>0. TypeInv'
  BY PreHandlerType
<1>1. ASSUME UNCHANGED <<guardVars, key, body, dbVars, conn, stmt, reply>>,
             \/ pc[a] \in {"claim", "lost"} /\ Goto(a, "again") /\ UNCHANGED claim
             \/ pc[a] = "claim" /\ Goto(a, "lost") /\ UNCHANGED claim
             \/ /\ pc[a] = "lost" /\ Goto(a, "stale")
                /\ claim' = [claim EXCEPT ![a] = row[key[a]].token]
                /\ row[key[a]] # None /\ row[key[a]].hash = body[a]
             \/ pc[a] = "begin" /\ Goto(a, "free") /\ UNCHANGED claim
      PROVE  RunsInv'
  <2> USE <1>1 DEF guardVars, dbVars
  <2>0. \A b \in Attempts : b # a => pc'[b] = pc[b] /\ claim'[b] = claim[b]
    BY DEF TypeInv, TypeOK, Goto
  <2>1. ClientInv' /\ PendInv'
    <3>1. pc[a] \notin Working \cup {"free"} \cup Straying /\ pc'[a] \notin Working \cup Straying
      BY DEF TypeInv, TypeOK, Goto, Straying, Working
    <3>2. ClientInv'
      <4>2. \A c \in Clients : owner[c] # a
        BY <3>1 DEF ClientInv
      <4>3. \A b \in Attempts :
               /\ pc'[b] \notin Straying
               /\ pc'[b] \in Working => owner[conn[b]] = b
               /\ pc'[b] \notin Working \cup {"free"} => \A c \in Clients : owner[c] # b
        BY <2>0, <3>1, <4>2 DEF ClientInv
      <4>4. \A c \in Clients : pend[c] # {} =>
               owner[c] # None /\ pc'[owner[c]] \in Working /\ conn[owner[c]] = c
        BY <2>0, <4>2 DEF ClientInv, TypeInv, TypeOK
      <4> QED
        BY <4>3, <4>4 DEF ClientInv
    <3>3. PendInv'
      BY <2>0, <3>1 DEF PendInv, RunWrite, Working
    <3> QED
      BY <3>2, <3>3
  <2>2. ClaimInv'
    <3>1. CASE UNCHANGED claim
      BY <3>1 DEF TypeInv, TypeOK, Goto, ClaimInv, Claiming, Straying, Working, Holds, Unlocked
    <3>2. CASE /\ pc[a] = "lost" /\ Goto(a, "stale")
               /\ claim' = [claim EXCEPT ![a] = row[key[a]].token]
               /\ row[key[a]] # None /\ row[key[a]].hash = body[a]
      <4>1. \A b \in Attempts : b # a => pc'[b] = pc[b] /\ claim'[b] = claim[b]
        BY <3>2 DEF TypeInv, TypeOK, Goto
      <4>2. pc'[a] = "stale" /\ claim'[a] = row[key[a]].token /\ "stale" \notin Claiming
        BY <3>2 DEF TypeInv, TypeOK, Goto, Claiming, Straying, Working
      <4>3. claim'[a] # None => claim'[a] \in 1 .. runs
        BY <3>2, <4>2 DEF ClaimInv, TypeInv, TypeOK
      <4> QED
        BY <3>2, <4>1, <4>2, <4>3 DEF ClaimInv, Holds, Unlocked
    <3> QED
      BY <3>1, <3>2
  <2>3. CommitInv' /\ AtMostOnce'
    BY QuietCommit DEF Stored
  <2>4. AnswerMeansApplied'
    BY QuietTruth
  <2> QED
    BY <2>1, <2>2, <2>3, <2>4
<1>2. CASE \E k \in Keys, h \in Bodies : Arrive(a, k, h)
  <2>1. ClientInv' /\ PendInv'
    BY <1>2 DEF TypeInv, TypeOK, Arrive, Goto, guardVars, dbVars, ClientInv, PendInv, Straying, Working,
       Claiming, RunWrite
  <2>2. ClaimInv'
    BY <1>2 DEF TypeInv, TypeOK, Arrive, Goto, guardVars, dbVars, ClaimInv, Claiming, Straying, Working,
       Holds, Unlocked
  <2>3. CommitInv' /\ AtMostOnce'
    BY <1>2, QuietCommit DEF Arrive, guardVars, dbVars, Stored
  <2>4. AnswerMeansApplied'
    BY <1>2, QuietTruth DEF TypeInv, TypeOK, Arrive, dbVars, Unanswered
  <2> QED
    BY <2>1, <2>2, <2>3, <2>4
<1>3. CASE ClaimLost(a)
  <2>1. CASE pc[a] = "claim"
    BY <1>1, <1>3, <2>1 DEF ClaimLost
  <2>2. CASE pc[a] = "again"
    BY <1>3, <2>2, EndOnce, AnswerType DEF ClaimLost, Answer, Claiming, Straying, Working
  <2> QED
    BY <1>3, <2>1, <2>2 DEF ClaimLost
<1>4. CASE Fetch(a)
  <2>1. CASE Goto(a, "again") /\ UNCHANGED <<claim, conn, stmt, reply>>
    BY <1>1, <1>4, <2>1 DEF Fetch
  <2>2. CASE \E w \in {"reused", "inflight"} : Finish(a, Answer(w, None))
    BY <1>4, <2>2, EndOnce, AnswerType DEF Fetch, Answer, Claiming, Straying, Working
  <2>3. CASE /\ row[key[a]] # None /\ row[key[a]].hash = body[a] /\ row[key[a]].resp # None
             /\ Finish(a, Answer("replay", row[key[a]].resp))
    <3>1. UNCHANGED <<guardVars, key, body, dbVars>> /\ pc[a] = "lost"
      BY <1>4 DEF Fetch
    <3>2. ClientInv' /\ PendInv'
      BY <2>3, <3>1 DEF TypeInv, TypeOK, Finish, Goto, guardVars, dbVars, ClientInv, PendInv, Straying, Working,
         Claiming, RunWrite
    <3>3. ClaimInv'
      BY <2>3, <3>1 DEF TypeInv, TypeOK, Finish, Goto, guardVars, dbVars, ClaimInv, Claiming, Straying, Working,
         Holds, Unlocked
    <3>4. CommitInv' /\ AtMostOnce'
      BY <3>1, QuietCommit DEF guardVars, dbVars, Stored
    <3>5. \A s \in Stmts : \E x \in applied :
             x.write = [key |-> key[a], run |-> row[key[a]].resp, stmt |-> s, hash |-> body[a]]
      <4>1. Stored(key[a]) = [run |-> row[key[a]].resp, hash |-> body[a]] /\ Stored(key[a]) # None
        <5>1. row[key[a]] \in Row
          BY <2>3 DEF TypeInv, TypeOK
        <5>2. row[key[a]].resp \in Nat /\ body[a] \in Bodies
          BY <2>3, <5>1, GuardAssumption DEF TypeInv, TypeOK, Row, Tokens
        <5> QED
          BY <2>3, <5>2, GuardAssumption DEF Stored
      <4>2. key[a] \in Keys
        BY DEF TypeInv, TypeOK
      <4>3. ASSUME NEW s \in Stmts
            PROVE  \E x \in applied : x.write =
                     [key |-> key[a], run |-> row[key[a]].resp, stmt |-> s, hash |-> body[a]]
        <5>1. [write |-> [key |-> key[a], run |-> row[key[a]].resp, stmt |-> s, hash |-> body[a]],
               epoch |-> epoch[key[a]]] \in applied
          BY <4>1, <4>2, <4>3 DEF CommitInv
        <5> QED
          BY <5>1
      <4> QED
        BY <4>3
    <3>6. AnswerMeansApplied'
      BY <2>3, <3>1, <3>5 DEF TypeInv, TypeOK, Finish, Answer, AnswerMeansApplied, dbVars
    <3> QED
      BY <3>2, <3>3, <3>4, <3>6
  <2>4. CASE /\ Goto(a, "stale") /\ claim' = [claim EXCEPT ![a] = row[key[a]].token]
             /\ row[key[a]] # None /\ row[key[a]].hash = body[a]
             /\ UNCHANGED <<conn, stmt, reply>>
    BY <1>1, <1>4, <2>4 DEF Fetch
  <2> QED
    BY <1>4, <2>1, <2>2, <2>3, <2>4 DEF Fetch
<1>5. CASE ReclaimLost(a)
  BY <1>5, EndOnce, AnswerType DEF ReclaimLost, Answer, Claiming, Straying, Working
<1>6. CASE BeginFails(a)
  BY <1>1, <1>6 DEF BeginFails
<1>7. CASE PoolTimeout(a)
  BY <1>7, EndOnce, AnswerType DEF PoolTimeout, Answer, Working
<1> QED
  BY <1>2, <1>3, <1>4, <1>5, <1>6, <1>7

\* Winning a claim, or taking over a stale one, gives out a new locked_at.
LEMMA TakeOnce ==
  ASSUME Managed, TypeInv, OnceInv, NEW a \in Attempts, NEW r \in Row,
         pc[a] \in {"claim", "again", "stale"},
         row[key[a]] = None \/ row[key[a]].resp = None,
         r.token = runs + 1, r.resp = None, r.hash = body[a],
         Take(a, r)
  PROVE  RunsInv'
<1> USE DEF OnceInv, RunsInv, Take, dbVars
<1>1. /\ pc'[a] = "begin" /\ \A b \in Attempts \ {a} : pc'[b] = pc[b] /\ claim'[b] = claim[b]
      /\ pc[a] \notin Working \cup {"free"} \cup Straying /\ "begin" \notin Working \cup {"free"} \cup Straying
  BY DEF TypeInv, TypeOK, Goto, Working, Straying
<1>5. \A c \in Clients : owner[c] \in Attempts \cup {None}
  BY DEF TypeInv, TypeOK
<1>6. ClientInv'
  BY <1>1, <1>5 DEF ClientInv
<1>7. PendInv'
  BY <1>1 DEF PendInv, RunWrite, Working
<1>2. ClaimInv'
  <2>1. runs \in Nat /\ runs' = runs + 1 /\ claim'[a] = runs + 1 /\ pc'[a] = "begin"
        /\ row'[key[a]] = r
    BY GuardAssumption DEF TypeInv, TypeOK, Goto
  <2>2. \A b \in Attempts \ {a} : claim'[b] = claim[b] /\ pc'[b] = pc[b]
    BY DEF TypeInv, TypeOK, Goto
  <2>3. \A k \in Keys : k # key[a] => row'[k] = row[k]
    BY DEF TypeInv, TypeOK
  <2>4. ASSUME NEW b \in Attempts, pc'[b] \in Claiming
        PROVE  /\ claim'[b] \in 1 .. runs'
               /\ \A c \in Attempts : pc'[c] \in Claiming /\ claim'[c] = claim'[b] => c = b
               /\ \A x \in applied' : x.write.run # claim'[b]
               /\ Holds(b)' => row'[key'[b]].hash = body'[b]
    <3>1. CASE b = a
      BY <2>1, <2>2, <3>1 DEF ClaimInv
    <3>2. CASE b # a /\ key[b] = key[a]
      BY <2>1, <2>2, <2>4, <3>2 DEF ClaimInv, Holds, Unlocked, TypeInv, TypeOK
    <3>3. CASE b # a /\ key[b] # key[a]
      BY <2>1, <2>2, <2>3, <2>4, <3>3 DEF ClaimInv, Holds, Unlocked, TypeInv, TypeOK
    <3> QED
      BY <3>1, <3>2, <3>3
  <2>7. ASSUME NEW b \in Attempts, pc'[b] = "stale", claim'[b] # None
        PROVE  claim'[b] \in 1 .. runs' /\ (Holds(b)' => row'[key'[b]].hash = body'[b])
    <3>1. b # a /\ claim[b] \in 1 .. runs
      BY <2>1, <2>2, <2>7 DEF ClaimInv
    <3>2. CASE key[b] = key[a]
      BY <2>1, <2>2, <2>7, <3>1, <3>2 DEF ClaimInv, Holds, Unlocked, TypeInv, TypeOK
    <3>3. CASE key[b] # key[a]
      BY <2>1, <2>2, <2>3, <2>7, <3>1, <3>3 DEF ClaimInv, Holds, Unlocked, TypeInv, TypeOK
    <3> QED
      BY <3>2, <3>3
  <2>5. \A x \in applied' : x.write.run \in 1 .. runs'
    BY <2>1 DEF ClaimInv
  <2>6. \A k \in Keys : row'[k] # None /\ row'[k].token # None => row'[k].token \in 1 .. runs'
    BY <2>1, <2>3 DEF ClaimInv
  <2> QED
    BY <2>4, <2>5, <2>6, <2>7 DEF ClaimInv
<1>3. CommitInv' /\ AtMostOnce'
  <2>1. \A q \in Keys \ {key[a]} : row'[q] = row[q]
    BY DEF TypeInv, TypeOK
  <2>2. row'[key[a]].resp = None /\ key[a] \in Keys
    BY DEF TypeInv, TypeOK
  <2>3. \A q \in Keys : Stored(q)' = Stored(q)
    BY <2>1, <2>2, QuietRow
  <2> QED
    BY <2>3, QuietCommit
<1>4. AnswerMeansApplied'
  BY QuietTruth
<1> QED
  BY <1>2, <1>3, <1>4, <1>6, <1>7

\* ClaimWon and Reclaim both take the row of a key without an answer.

LEMMA ClaimOnce ==
  ASSUME Managed, TypeInv, OnceInv, NEW a \in Attempts, ClaimWon(a) \/ Reclaim(a)
  PROVE  RunsInv'
<1>1. CASE ClaimWon(a)
  <2>1. [hash |-> body[a], token |-> runs + 1, resp |-> None] \in Row
    BY <1>1, GuardAssumption DEF ClaimWon, Take, Row, Tokens, TypeInv, TypeOK
  <2> QED
    BY <1>1, <2>1, TakeOnce DEF ClaimWon, Claimable
<1>2. CASE Reclaim(a)
  <2>1. row[key[a]] \in Row /\ row[key[a]].resp = None
    BY <1>2 DEF Reclaim, Holds, Unlocked, TypeInv, TypeOK
  <2>2. [row[key[a]] EXCEPT !.token = runs + 1] \in Row
    <3>1. runs + 1 \in Tokens
      BY <1>2, GuardAssumption DEF Reclaim, Take, Tokens, TypeInv, TypeOK
    <3> QED
      BY <2>1, <3>1 DEF Row
  <2>3. row[key[a]].hash = body[a] /\ pc[a] = "stale" /\ Take(a, [row[key[a]] EXCEPT !.token = runs + 1])
    BY <1>2 DEF Reclaim, OnceInv, RunsInv, ClaimInv
  <2>4. /\ [row[key[a]] EXCEPT !.token = runs + 1].token = runs + 1
        /\ [row[key[a]] EXCEPT !.token = runs + 1].resp = None
        /\ [row[key[a]] EXCEPT !.token = runs + 1].hash = body[a]
    BY <2>1, <2>3 DEF Row
  <2> QED
    BY <2>1, <2>2, <2>3, <2>4, TakeOnce
<1> QED
  BY <1>1, <1>2

\* Opening the transaction and running the handler in it keep the invariant.
LEMMA HandlerOnce ==
  ASSUME Managed, TypeInv, OnceInv, NEW a \in Attempts,
         \/ \E c \in Clients : Begin(a, c)
         \/ Savepoint(a) \/ Execute(a) \/ HandlerReturns(a) \/ Store(a)
  PROVE  RunsInv'
<1> USE DEF OnceInv, RunsInv, guardVars, dbVars
<1>1. ASSUME NEW c \in Clients, Begin(a, c)
      PROVE  RunsInv'
  <2>1. pend[c] = {} /\ stmt[a] = 0 /\ owner[c] = None
    BY <1>1 DEF Begin, ClientInv, PendInv, Straying, Working
  <2>2. /\ pc'[a] = "work" /\ conn'[a] = c /\ owner'[c] = a
        /\ \A b \in Attempts \ {a} : pc'[b] = pc[b] /\ conn'[b] = conn[b]
        /\ \A d \in Clients \ {c} : owner'[d] = owner[d] /\ owner[d] # a
    <3>1. \A d \in Clients : owner[d] # a
      BY <1>1 DEF Begin, ClientInv, Working
    <3> QED
      BY <1>1, <3>1 DEF Begin, Goto, TypeInv, TypeOK
  <2>3. None \notin Attempts /\ UNCHANGED <<guardVars, key, body, claim, stmt, reply, txVars, applied>>
    BY <1>1, GuardAssumption DEF Begin
  <2>4. ClientInv'
    <3>1. \A b \in Attempts : b # a /\ pc[b] \in Working => conn[b] \in Clients /\ conn[b] # c
      BY <2>1, <2>3 DEF ClientInv, TypeInv, Shape
    <3>2. \A b \in Attempts :
             /\ pc'[b] \notin Straying
             /\ pc'[b] \in Working => owner'[conn'[b]] = b
             /\ pc'[b] \notin Working \cup {"free"} => \A d \in Clients : owner'[d] # b
      BY <2>2, <3>1 DEF ClientInv, Straying, Working
    <3>3. \A d \in Clients : pend'[d] # {} =>
             owner'[d] # None /\ pc'[owner'[d]] \in Working /\ conn'[owner'[d]] = d
      <4>1. \A d \in Clients : owner[d] \in Attempts \cup {None}
        BY DEF TypeInv, TypeOK
      <4>2. ASSUME NEW d \in Clients, d # c, pend[d] # {}
            PROVE  owner[d] \in Attempts \ {a} /\ pc[owner[d]] \in Working /\ conn[owner[d]] = d
        BY <2>2, <4>1, <4>2 DEF ClientInv
      <4> QED
        BY <2>1, <2>2, <2>3, <4>2 DEF txVars
    <3> QED
      BY <2>3, <3>2, <3>3 DEF ClientInv, txVars
  <2>5. PendInv'
    BY <1>1, <2>1, <2>2, <2>3 DEF Begin, PendInv, RunWrite, Working, txVars
  <2>6. ClaimInv'
    BY <1>1, <2>2 DEF Begin, ClaimInv, Claiming, Straying, Working, Holds, Unlocked
  <2>7. CommitInv' /\ AtMostOnce'
    BY <1>1, QuietCommit DEF Begin, Stored
  <2>8. AnswerMeansApplied'
    BY <1>1, QuietTruth DEF Begin
  <2> QED
    BY <2>4, <2>5, <2>6, <2>7, <2>8
<1>2. CASE Savepoint(a)
  <2>1. ClientInv' /\ ClaimInv'
    BY <1>2 DEF Savepoint, ClientInv, ClaimInv, Holds, Unlocked
  <2>2. PendInv'
    <3>1. /\ pc[a] = "work" /\ stmt[a] = 0 /\ stmt'[a] = 1
          /\ UNCHANGED <<pc, key, body, claim, conn, pend>>
          /\ \A b \in Attempts : b # a => stmt'[b] = stmt[b]
      BY <1>2 DEF Savepoint, dbVars, TypeInv, TypeOK
    <3>2. 1 .. (stmt'[a] - 1) = 1 .. (stmt[a] - 1)
      BY <3>1
    <3>3. \A b \in Attempts : \A s : RunWrite(b, s)' = RunWrite(b, s)
      BY <3>1 DEF RunWrite
    <3>4. \A b \in Attempts : pc[b] \in Working =>
            pend[conn[b]] = {RunWrite(b, s) : s \in 1 .. (stmt'[b] - 1)}
      BY <3>1, <3>2 DEF PendInv
    <3>5. \A b \in Attempts : /\ pc[b] \notin Working \cup {"free"} => stmt'[b] = 0
                              /\ pc[b] = "done" => stmt'[b] = NStmts + 1
      BY <3>1 DEF PendInv, Working
    <3> QED
      BY <3>1, <3>3, <3>4, <3>5 DEF PendInv, RunWrite
  <2>3. CommitInv' /\ AtMostOnce' /\ AnswerMeansApplied'
    BY <1>2, QuietCommit, QuietTruth DEF Savepoint, Stored
  <2> QED
    BY <2>1, <2>2, <2>3
<1>3. CASE Execute(a)
  <2>1. /\ pend' = [pend EXCEPT ![conn[a]] = @ \cup {WriteOf(a)}]
        /\ pc[a] = "work" /\ stmt[a] \in Stmts /\ stmt' = [stmt EXCEPT ![a] = @ + 1]
        /\ UNCHANGED <<guardVars, pc, key, body, claim, conn, reply, owner, broken, applied>>
    BY <1>3 DEF Execute, Managed
  <2>2. conn[a] \in Clients /\ owner[conn[a]] = a
    BY <2>1 DEF TypeInv, Shape, ClientInv, Straying, Working
  <2>3. ClientInv'
    BY <2>1, <2>2, GuardAssumption DEF ClientInv, Working, TypeInv, TypeOK
  <2>6. ClaimInv'
    BY <2>1 DEF ClaimInv, Holds, Unlocked
  <2>4. PendInv'
    <3>1. WriteOf(a) = RunWrite(a, stmt[a])
      BY DEF WriteOf, RunWrite
    <3>2. 1 .. (stmt[a] + 1 - 1) = (1 .. (stmt[a] - 1)) \cup {stmt[a]}
      BY <2>1, GuardAssumption DEF Stmts
    <3>3. pend'[conn[a]] = {RunWrite(a, s) : s \in 1 .. (stmt'[a] - 1)}
      BY <2>1, <2>2, <3>1, <3>2 DEF PendInv, Working, TypeInv, TypeOK
    <3>4. \A b \in Attempts : b # a /\ pc[b] \in Working => conn[b] # conn[a]
      BY <2>2 DEF ClientInv
    <3>5. \A b \in Attempts : b # a => stmt'[b] = stmt[b]
      BY <2>1 DEF TypeInv, TypeOK
    <3>6. \A b \in Attempts : b # a /\ pc[b] \in Working => pend'[conn[b]] = pend[conn[b]]
      BY <2>1, <2>2, <3>4 DEF TypeInv, TypeOK, Shape
    <3> QED
      BY <2>1, <3>3, <3>5, <3>6 DEF PendInv, RunWrite, Working
  <2>5. CommitInv' /\ AtMostOnce' /\ AnswerMeansApplied'
    BY <2>1, QuietCommit, QuietTruth DEF Stored
  <2> QED
    BY <2>3, <2>4, <2>5, <2>6
<1>4. CASE HandlerReturns(a)
  <2>1. /\ pc[a] = "work" /\ pc'[a] \in {"done", "failed"}
        /\ pc'[a] = "done" => stmt[a] = NStmts + 1
        /\ \A b \in Attempts : b # a => pc'[b] = pc[b]
    BY <1>4 DEF HandlerReturns, Goto, TypeInv, TypeOK
  <2>2. UNCHANGED <<guardVars, key, body, claim, conn, stmt, reply, owner, pend, broken, applied>>
    BY <1>4 DEF HandlerReturns
  <2>7. owner' = owner /\ conn' = conn /\ pend' = pend /\ broken' = broken
    BY <2>2
  <2>3. ClientInv'
    <3>1. \A b \in Attempts :
             /\ (pc'[b] \in Working <=> pc[b] \in Working)
             /\ pc'[b] \notin Straying
             /\ (pc'[b] \notin Working \cup {"free"} => pc[b] \notin Working \cup {"free"})
      BY <2>1 DEF ClientInv, Straying, Working
    <3>2. \A c \in Clients : owner[c] \in Attempts \cup {None}
      BY DEF TypeInv, TypeOK
    <3>3. \A c \in Clients : pend'[c] # {} =>
             owner'[c] # None /\ pc'[owner'[c]] \in Working /\ conn'[owner'[c]] = c
      <4>1. \A c \in Clients : pend[c] # {} => owner[c] # None /\ pc[owner[c]] \in Working /\ conn[owner[c]] = c
        BY DEF ClientInv
      <4> QED
        BY ONLY <2>7, <3>1, <3>2, <4>1
    <3>4. \A b \in Attempts :
             /\ pc'[b] \notin Straying
             /\ (pc'[b] \in Working => owner'[conn'[b]] = b)
             /\ (pc'[b] \notin Working \cup {"free"} => \A c \in Clients : owner'[c] # b)
      BY <2>7, <3>1 DEF ClientInv
    <3> QED
      BY <2>7, <3>3, <3>4 DEF ClientInv
  <2>4. PendInv'
    BY <2>1, <2>2 DEF PendInv, RunWrite, Working
  <2>5. ClaimInv'
    BY <2>1, <2>2 DEF ClaimInv, Claiming, Straying, Working, Holds, Unlocked
  <2>6. CommitInv' /\ AtMostOnce' /\ AnswerMeansApplied'
    BY <2>2, QuietCommit, QuietTruth DEF Stored
  <2> QED
    BY <2>3, <2>4, <2>5, <2>6
<1>5. CASE Store(a)
  <2>1. /\ pc[a] = "done" /\ pc' = [pc EXCEPT ![a] = "stored"]
        /\ pend' = [pend EXCEPT ![conn[a]] = @ \cup {StoreOf(a)}]
        /\ stmt' = [stmt EXCEPT ![a] = @ + 1]
        /\ UNCHANGED <<guardVars, key, body, claim, conn, reply, owner, broken, applied>>
    BY <1>5 DEF Store, Goto
  <2>2. conn[a] \in Clients /\ owner[conn[a]] = a
    BY <2>1 DEF TypeInv, Shape, ClientInv, Working
  <2>3. /\ pc'[a] = "stored" /\ stmt[a] = NStmts + 1 /\ stmt'[a] = NStmts + 2
        /\ \A b \in Attempts : b # a => pc'[b] = pc[b] /\ stmt'[b] = stmt[b]
    BY <2>1, GuardAssumption DEF PendInv, TypeInv, TypeOK
  <2>4. \A c \in Clients : c # conn[a] => pend'[c] = pend[c]
    BY <2>1 DEF TypeInv, TypeOK
  <2>5. ClientInv'
    <3>1. \A b \in Attempts :
             /\ pc'[b] \notin Straying
             /\ pc'[b] \in Working => owner'[conn'[b]] = b
             /\ pc'[b] \notin Working \cup {"free"} => \A c \in Clients : owner'[c] # b
      BY <2>1, <2>2, <2>3 DEF ClientInv, Straying, Working
    <3>2. \A c \in Clients :
             /\ pend'[c] # {} => owner'[c] # None /\ pc'[owner'[c]] \in Working /\ conn'[owner'[c]] = c
             /\ ~broken'[c]
      BY <2>1, <2>2, <2>3, <2>4, GuardAssumption DEF ClientInv, Working, TypeInv, TypeOK
    <3> QED
      BY <3>1, <3>2 DEF ClientInv
  <2>6. PendInv'
    <3>1. StoreOf(a) = RunWrite(a, stmt[a])
      BY <2>3 DEF StoreOf, WriteOf, RunWrite
    <3>2. 1 .. (stmt'[a] - 1) = (1 .. (stmt[a] - 1)) \cup {stmt[a]}
      BY <2>3, GuardAssumption
    <3>3. pend'[conn[a]] = {RunWrite(a, s) : s \in 1 .. (stmt'[a] - 1)}
      BY <2>1, <2>2, <3>1, <3>2 DEF PendInv, Working, TypeInv, TypeOK
    <3>4. \A b \in Attempts : b # a /\ pc[b] \in Working => pend'[conn[b]] = pend[conn[b]]
      BY <2>2, <2>4 DEF ClientInv, TypeInv, Shape
    <3> QED
      BY <2>1, <2>3, <3>3, <3>4 DEF PendInv, RunWrite, Working
  <2>7. ClaimInv'
    BY <2>1, <2>3 DEF ClaimInv, Claiming, Straying, Working, Holds, Unlocked
  <2>8. CommitInv' /\ AtMostOnce' /\ AnswerMeansApplied'
    BY <2>1, QuietCommit, QuietTruth DEF Stored
  <2> QED
    BY <2>5, <2>6, <2>7, <2>8
<1> QED
  BY <1>1, <1>2, <1>3, <1>4, <1>5

\* A request that ends gives its client back with nothing pending on it.
LEMMA ClientEnds ==
  ASSUME Managed, TypeInv, ClientInv, PendInv, NEW a \in Attempts, NEW r \in Replies,
         \/ pc[a] \in Working /\ EndTx(a)
         \/ pc[a] \notin Working /\ UNCHANGED txVars,
         Finish(a, r), FreeClient(a), UNCHANGED <<key, body>>
  PROVE  ClientInv' /\ PendInv'
<1>1. /\ pc'[a] = "idle" /\ stmt'[a] = 0
      /\ \A b \in Attempts : b # a =>
            pc'[b] = pc[b] /\ conn'[b] = conn[b] /\ claim'[b] = claim[b] /\ stmt'[b] = stmt[b]
  BY DEF Finish, Goto, TypeInv, TypeOK
<1>2. \A c \in Clients : owner'[c] = IF owner[c] = a THEN None ELSE owner[c]
  BY DEF FreeClient, TypeInv, TypeOK
<1>3. None \notin Attempts
  BY GuardAssumption
<1>4. \A c \in Clients : /\ owner[c] = a => pend'[c] = {}
                         /\ owner[c] # a => pend'[c] = pend[c]
                         /\ ~broken'[c]
  <2>1. CASE pc[a] \in Working
    <3>1. EndTx(a) /\ conn[a] \in Clients /\ owner[conn[a]] = a
      BY <2>1 DEF TypeInv, Shape, ClientInv
    <3> QED
      BY <2>1, <3>1 DEF EndTx, ClientInv, TypeInv, TypeOK
  <2>2. CASE pc[a] \notin Working
    BY <2>2 DEF ClientInv, txVars
  <2> QED
    BY <2>1, <2>2
<1>5. ClientInv'
  <2>1. \A b \in Attempts :
           /\ pc'[b] \notin Straying
           /\ pc'[b] \in Working => owner'[conn'[b]] = b
           /\ pc'[b] \notin Working \cup {"free"} => \A c \in Clients : owner'[c] # b
    <3>1. \A b \in Attempts : b # a /\ pc[b] \in Working => conn[b] \in Clients /\ owner[conn[b]] = b
      BY DEF ClientInv, TypeInv, Shape
    <3> QED
      BY <1>1, <1>2, <1>3, <3>1 DEF ClientInv, Straying, Working
  <2>2. \A c \in Clients : pend'[c] # {} =>
           owner'[c] # None /\ pc'[owner'[c]] \in Working /\ conn'[owner'[c]] = c
    <3>1. ASSUME NEW c \in Clients, pend'[c] # {}
          PROVE  /\ owner[c] \in Attempts \ {a} /\ pc[owner[c]] \in Working /\ conn[owner[c]] = c
                 /\ owner'[c] = owner[c]
      <4>1. owner[c] \in Attempts \cup {None}
        BY DEF TypeInv, TypeOK
      <4> QED
        BY <1>2, <1>4, <3>1, <4>1 DEF ClientInv
    <3> QED
      BY <1>1, <3>1, GuardAssumption
  <2> QED
    BY <1>4, <2>1, <2>2 DEF ClientInv
<1>6. PendInv'
  <2>1. \A b \in Attempts : b # a /\ pc[b] \in Working => pend'[conn[b]] = pend[conn[b]]
    BY <1>4 DEF ClientInv, TypeInv, Shape
  <2> QED
    BY <1>1, <2>1 DEF PendInv, RunWrite, Working
<1> QED
  BY <1>5, <1>6

\* A step that grants no claim and commits nothing keeps what is known of claims.
LEMMA ClaimQuiet ==
  ASSUME TypeInv, ClaimInv, UNCHANGED <<runs, key, body, applied>>,
         \A k \in Keys : row'[k] = row[k] \/ row'[k] = None,
         \A b \in Attempts :
            \/ UNCHANGED <<pc[b], claim[b]>>
            \/ pc'[b] \notin Claiming \cup {"stale"}
            \/ pc[b] \in Claiming /\ pc'[b] \in Claiming /\ UNCHANGED claim[b]
  PROVE  ClaimInv'
<1>1. \A b \in Attempts : key[b] \in Keys
  BY DEF TypeInv, TypeOK
<1>2. \A b \in Attempts : Holds(b)' /\ UNCHANGED claim[b] => Holds(b) /\ row'[key[b]] = row[key[b]]
  BY <1>1 DEF Holds, Unlocked
<1>3. "stale" \notin Claiming
  BY DEF Claiming, Straying, Working
<1>4. ASSUME NEW b \in Attempts, pc'[b] \in Claiming
      PROVE  /\ claim'[b] \in 1 .. runs'
             /\ \A c \in Attempts : pc'[c] \in Claiming /\ claim'[c] = claim'[b] => c = b
             /\ \A x \in applied' : x.write.run # claim'[b]
             /\ Holds(b)' => row'[key'[b]].hash = body'[b]
  <2>1. \A c \in Attempts : pc'[c] \in Claiming => pc[c] \in Claiming /\ claim'[c] = claim[c]
    BY <1>3
  <2> QED
    BY <1>2, <1>4, <2>1 DEF ClaimInv
<1>5. ASSUME NEW b \in Attempts, pc'[b] = "stale", claim'[b] # None
      PROVE  claim'[b] \in 1 .. runs' /\ (Holds(b)' => row'[key'[b]].hash = body'[b])
  BY <1>2, <1>3, <1>5 DEF ClaimInv
<1> QED
  BY <1>4, <1>5 DEF ClaimInv

\* A request whose response is stored has all it commits in its transaction.
LEMMA StoredPend ==
  ASSUME TypeInv, PendInv, NEW a \in Attempts, pc[a] = "stored"
  PROVE  /\ pc[a] \in Working /\ conn[a] \in Clients
         /\ pend[conn[a]] = {RunWrite(a, s) : s \in 1 .. (NStmts + 1)}
<1>1. pc[a] \in Working /\ conn[a] \in Clients
  BY DEF Working, TypeInv, Shape
<1>2. stmt[a] = NStmts + 2 /\ pend[conn[a]] = {RunWrite(a, s) : s \in 1 .. (stmt[a] - 1)}
  BY <1>1 DEF PendInv
<1>3. stmt[a] - 1 = NStmts + 1
  BY <1>2, GuardAssumption
<1> QED
  BY <1>1, <1>2, <1>3

\* COMMIT: the run's writes and its answer appear together, in a key that had none.
LEMMA CommitOnce ==
  ASSUME Managed, TypeInv, OnceInv, NEW a \in Attempts, SettleCommit(a)
  PROVE  /\ RunsInv'
         /\ applied' = applied \cup
              {[write |-> RunWrite(a, s), epoch |-> epoch[key[a]]] : s \in Stmts}
         /\ \A k \in Keys : Stored(k)' = IF k = key[a]
                                          THEN [run |-> claim[a], hash |-> body[a]]
                                          ELSE Stored(k)
         /\ Stored(key[a]) = None
<1> USE DEF OnceInv, RunsInv
<1> DEFINE k0 == key[a]
           new == {[write |-> RunWrite(a, s), epoch |-> epoch[k0]] : s \in Stmts}
<1>1. /\ pc[a] = "stored" /\ pc[a] \in Working /\ pc[a] \in Claiming
      /\ stmt[a] = NStmts + 2
      /\ k0 \in Keys /\ claim[a] \in Tokens /\ claim[a] \in Nat /\ conn[a] \in Clients
      /\ row[k0] \in Row /\ row[k0].resp = None /\ row[k0].hash = body[a] /\ body[a] \in Bodies
      /\ epoch[k0] \in Nat
  <2>1. pc[a] = "stored" /\ Holds(a)
    BY DEF SettleCommit, LockInv
  <2>2. pc[a] \in Working /\ pc[a] \in Claiming
    BY <2>1 DEF Working, Claiming
  <2>3. stmt[a] = NStmts + 2
    BY <2>1 DEF PendInv
  <2>4. /\ k0 \in Keys /\ claim[a] \in Tokens /\ conn[a] \in Clients
        /\ body[a] \in Bodies /\ epoch[k0] \in 0 .. MaxEpoch
    BY <2>2 DEF TypeInv, TypeOK, Shape
  <2>5. claim[a] \in Nat /\ epoch[k0] \in Nat
    BY <2>4, GuardAssumption DEF Tokens
  <2>6. row[k0] \in Row /\ row[k0].resp = None
    BY <2>1, <2>4 DEF Holds, Unlocked, TypeInv, TypeOK
  <2>7. row[k0].hash = body[a]
    BY <2>1, <2>2 DEF ClaimInv
  <2> QED
    BY <2>1, <2>2, <2>3, <2>4, <2>5, <2>6, <2>7
<1>2. /\ Finish(a, Answer("ok", claim[a])) /\ EndTx(a) /\ FreeClient(a)
      /\ row' = [row EXCEPT ![k0] = [@ EXCEPT !.token = None, !.resp = claim[a]]]
      /\ applied' = applied \cup {Commit(w) : w \in {v \in pend[conn[a]] : v.stmt \in Stmts}}
      /\ UNCHANGED <<expired, epoch, runs, key, body>>
  <2>1. pend[conn[a]] = {RunWrite(a, s) : s \in 1 .. (NStmts + 1)} /\ ~broken[conn[a]]
    BY <1>1, StoredPend DEF ClientInv
  <2>2. StoreOf(a) = RunWrite(a, NStmts + 1) /\ NStmts + 1 \in 1 .. (NStmts + 1)
    BY GuardAssumption DEF StoreOf, WriteOf, RunWrite
  <2>3. Lands(a)
    BY <1>1, <2>1, <2>2 DEF Lands, LockInv
  <2> QED
    BY <2>1, <2>3 DEF SettleCommit
<1>3. applied' = applied \cup new
  <2>1. {v \in pend[conn[a]] : v.stmt \in Stmts} = {RunWrite(a, s) : s \in Stmts}
    <3>1. pend[conn[a]] = {RunWrite(a, s) : s \in 1 .. (NStmts + 1)} /\ Stmts \subseteq 1 .. (NStmts + 1)
      BY <1>1, StoredPend, GuardAssumption DEF Stmts
    <3>2. \A s : RunWrite(a, s).stmt = s
      BY DEF RunWrite
    <3> QED
      BY <3>1, <3>2
  <2>2. \A s \in Stmts : Commit(RunWrite(a, s)) = [write |-> RunWrite(a, s), epoch |-> epoch[k0]]
    BY DEF Commit, RunWrite
  <2> QED
    BY <1>2, <2>1, <2>2
<1>4. Stored(k0) = None
  BY <1>1 DEF Stored
<1>5. claim[a] # None /\ [run |-> claim[a], hash |-> body[a]] # None
  BY <1>1, GuardAssumption
<1>6. /\ row'[k0].resp = claim[a] /\ row'[k0].token = None /\ row'[k0].hash = body[a]
      /\ row'[k0] \in Row /\ row'[k0] # None
      /\ \A k \in Keys : k # k0 => row'[k] = row[k]
  <2>1. row'[k0] = [row[k0] EXCEPT !.token = None, !.resp = claim[a]]
    BY <1>1, <1>2 DEF TypeInv, TypeOK
  <2>2. row'[k0] \in Row
    BY <1>1, <2>1 DEF Row
  <2> QED
    <3>1. \A k \in Keys : k # k0 => row'[k] = row[k]
      BY <1>2 DEF TypeInv, TypeOK
    <3>2. row'[k0].resp = claim[a] /\ row'[k0].token = None /\ row'[k0].hash = body[a]
      BY <1>1, <2>1 DEF Row
    <3>3. None \notin Row
      BY GuardAssumption DEF Row, Tokens
    <3> QED
      BY <2>2, <3>1, <3>2, <3>3
<1>7. \A k \in Keys : Stored(k)' = IF k = k0 THEN [run |-> claim[a], hash |-> body[a]] ELSE Stored(k)
  BY <1>5, <1>6 DEF Stored
<1>8. \A x \in new : x.epoch = epoch[k0] /\ x.write.key = k0 /\ x.write.run = claim[a]
                     /\ x.write.hash = body[a]
  BY DEF RunWrite
<1>9. \A x \in applied : x.write.key = k0 => x.epoch # epoch[k0]
  <2>1. ASSUME NEW x \in applied, x.write.key = k0, x.epoch = epoch[k0]
        PROVE  FALSE
    <3>1. x.write.run \in Nat /\ x.write.hash \in Bodies
      BY GuardAssumption DEF TypeInv, TypeOK, Write, Tokens
    <3>2. [run |-> x.write.run, hash |-> x.write.hash] # None
      BY <3>1, GuardAssumption
    <3> QED
      BY <1>4, <2>1, <3>2 DEF CommitInv
  <2> QED
    BY <2>1
<1>10. ClientInv' /\ PendInv'
  BY <1>1, <1>2, ClientEnds, AnswerType
<1>11. ClaimInv'
  <2>1. \A b \in Attempts : b # a => pc'[b] = pc[b] /\ claim'[b] = claim[b]
    BY <1>2 DEF Finish, Goto, TypeInv, TypeOK
  <2>2. pc'[a] = "idle" /\ "idle" \notin Claiming \cup {"stale"}
    BY <1>2 DEF Finish, Goto, TypeInv, TypeOK, Claiming, Straying, Working
  <2>3. ASSUME NEW b \in Attempts, b # a, Holds(b)'
        PROVE  key[b] # k0 /\ Holds(b)
    BY <1>2, <1>5, <1>6, <2>1, <2>3 DEF Holds, Unlocked, TypeInv, TypeOK
  <2>4. ASSUME NEW b \in Attempts, pc'[b] \in Claiming
        PROVE  /\ claim'[b] \in 1 .. runs'
               /\ \A c \in Attempts : pc'[c] \in Claiming /\ claim'[c] = claim'[b] => c = b
               /\ \A x \in applied' : x.write.run # claim'[b]
               /\ Holds(b)' => row'[key'[b]].hash = body'[b]
    <3>1. b # a /\ pc[b] \in Claiming /\ claim'[b] = claim[b] /\ claim[b] # claim[a]
      BY <1>1, <2>1, <2>2, <2>4 DEF ClaimInv
    <3>2. claim'[b] \in 1 .. runs'
      BY <1>2, <3>1 DEF ClaimInv
    <3>3. \A c \in Attempts : pc'[c] \in Claiming /\ claim'[c] = claim'[b] => c = b
      BY <2>1, <2>2, <3>1 DEF ClaimInv
    <3>4. \A x \in applied' : x.write.run # claim'[b]
      BY <1>3, <1>8, <3>1 DEF ClaimInv
    <3>5. Holds(b)' => row'[key'[b]].hash = body'[b]
      BY <1>2, <1>6, <2>3, <3>1 DEF ClaimInv, TypeInv, TypeOK
    <3> QED
      BY <3>2, <3>3, <3>4, <3>5
  <2>5. ASSUME NEW b \in Attempts, pc'[b] = "stale", claim'[b] # None
        PROVE  claim'[b] \in 1 .. runs' /\ (Holds(b)' => row'[key'[b]].hash = body'[b])
    <3>1. b # a /\ pc[b] = "stale" /\ claim'[b] = claim[b] /\ UNCHANGED <<key, body, runs>> /\ key[b] \in Keys
      BY <1>2, <2>1, <2>2, <2>5 DEF TypeInv, TypeOK
    <3> QED
      BY <1>6, <2>3, <2>5, <3>1 DEF ClaimInv
  <2>6. \A x \in applied' : x.write.run \in 1 .. runs'
    BY <1>1, <1>2, <1>3, <1>8 DEF ClaimInv
  <2>7. \A k \in Keys : row'[k] # None /\ row'[k].token # None => row'[k].token \in 1 .. runs'
    BY <1>2, <1>6 DEF ClaimInv
  <2> QED
    BY <2>4, <2>5, <2>6, <2>7 DEF ClaimInv
<1>12. CommitInv'
  <2>1. ASSUME NEW x \in applied'
        PROVE  /\ x.epoch \in 0 .. epoch[x.write.key]
               /\ x.epoch = epoch[x.write.key] =>
                     Stored(x.write.key)' = [run |-> x.write.run, hash |-> x.write.hash]
    <3>1. CASE x \in new
      BY <1>1, <1>7, <1>8, <3>1
    <3>2. CASE x \in applied
      <4>1. x.write.key \in Keys
        BY <3>2 DEF TypeInv, TypeOK, Write
      <4> QED
        BY <1>7, <1>9, <3>2, <4>1 DEF CommitInv
    <3> QED
      BY <1>3, <2>1, <3>1, <3>2
  <2>2. ASSUME NEW k \in Keys, Stored(k)' # None, NEW s \in Stmts
        PROVE  [write |-> [key |-> k, run |-> Stored(k)'.run, stmt |-> s, hash |-> Stored(k)'.hash],
                epoch |-> epoch[k]] \in applied'
    <3>1. CASE k = k0
      <4>1. [write |-> RunWrite(a, s), epoch |-> epoch[k0]] \in applied'
        BY <1>3
      <4>2. Stored(k)' = [run |-> claim[a], hash |-> body[a]]
        BY <1>7, <3>1
      <4> QED
        BY <3>1, <4>1, <4>2 DEF RunWrite
    <3>2. CASE k # k0
      BY <1>3, <1>7, <2>2, <3>2 DEF CommitInv
    <3> QED
      BY <3>1, <3>2
  <2> QED
    BY <1>2, <2>1, <2>2 DEF CommitInv
<1>13. AtMostOnce'
  BY <1>3, <1>8, <1>9 DEF AtMostOnce
<1>14. AnswerMeansApplied'
  <2>1. ASSUME NEW b \in Attempts, reply'[b].kind \in {"ok", "replay"}, NEW s \in Stmts
        PROVE  \E x \in applied' :
                 x.write = [key |-> key'[b], run |-> reply'[b].run, stmt |-> s, hash |-> body'[b]]
    <3>1. CASE b = a
      <4>1. reply'[b].run = claim[a]
        BY <1>2, <3>1 DEF Finish, Answer, TypeInv, TypeOK
      <4>2. [write |-> RunWrite(a, s), epoch |-> epoch[k0]] \in applied'
        BY <1>3
      <4> QED
        BY <1>2, <3>1, <4>1, <4>2 DEF RunWrite
    <3>2. CASE b # a
      <4>1. reply'[b] = reply[b]
        BY <1>2, <3>2 DEF Finish, TypeInv, TypeOK
      <4> QED
        BY <1>2, <1>3, <2>1, <4>1 DEF AnswerMeansApplied
    <3> QED
      BY <3>1, <3>2
  <2> QED
    BY <2>1 DEF AnswerMeansApplied
<1> QED
  BY <1>3, <1>4, <1>7, <1>10, <1>11, <1>12, <1>13, <1>14

\* Ending without a commit, in any of the ways there are, shows no other answer.
LEMMA LeaveOnce ==
  ASSUME Managed, TypeInv, OnceInv, NEW a \in Attempts,
         SettleLost(a) \/ SettleFail(a) \/ Release(a) \/ Lose(a)
  PROVE  RunsInv' /\ UNCHANGED <<applied, epoch>> /\ \A k \in Keys : Stored(k)' = Stored(k)
<1> USE DEF OnceInv, RunsInv
<1>1. CASE SettleFail(a)
  <2>1. /\ pc[a] = "failed" /\ pc'[a] = "free" /\ \A b \in Attempts : b # a => pc'[b] = pc[b]
        /\ UNCHANGED <<guardVars, key, body, claim, conn, stmt, reply, owner, applied>>
        /\ pend' = [pend EXCEPT ![conn[a]] = {}] /\ broken' = [broken EXCEPT ![conn[a]] = FALSE]
    BY <1>1 DEF SettleFail, EndTx, Goto, TypeInv, TypeOK
  <2>2. conn[a] \in Clients /\ owner[conn[a]] = a
    BY <2>1 DEF TypeInv, Shape, ClientInv, Straying, Working
  <2>3. \A c \in Clients : /\ owner[c] = a => pend'[c] = {}
                           /\ owner[c] # a => pend'[c] = pend[c]
                           /\ ~broken'[c]
    BY <2>1, <2>2 DEF ClientInv, TypeInv, TypeOK
  <2>4. ClientInv'
    <3>1. \A b \in Attempts :
             /\ pc'[b] \notin Straying
             /\ pc'[b] \in Working => owner'[conn'[b]] = b
             /\ pc'[b] \notin Working \cup {"free"} => \A c \in Clients : owner'[c] # b
      BY <2>1 DEF ClientInv, Straying, Working
    <3>2. \A c \in Clients : pend'[c] # {} =>
             owner'[c] # None /\ pc'[owner'[c]] \in Working /\ conn'[owner'[c]] = c
      <4>1. ASSUME NEW c \in Clients, pend'[c] # {}
            PROVE  owner[c] \in Attempts \ {a} /\ pc[owner[c]] \in Working /\ conn[owner[c]] = c
        <5>1. owner[c] \in Attempts \cup {None}
          BY DEF TypeInv, TypeOK
        <5> QED
          BY <2>3, <4>1, <5>1 DEF ClientInv
      <4> QED
        BY <2>1, <4>1, GuardAssumption
    <3> QED
      BY <2>3, <3>1, <3>2 DEF ClientInv
  <2>5. PendInv'
    <3>1. \A b \in Attempts : b # a /\ pc[b] \in Working => pend'[conn[b]] = pend[conn[b]]
      BY <2>3 DEF ClientInv, TypeInv, Shape
    <3> QED
      BY <2>1, <3>1 DEF PendInv, RunWrite, Working
  <2>6. ClaimInv'
    BY <2>1, ClaimQuiet DEF guardVars, Claiming, Straying, Working
  <2>7. UNCHANGED <<applied, epoch>> /\ \A k \in Keys : Stored(k)' = Stored(k)
    BY <2>1 DEF guardVars, Stored
  <2>8. AnswerMeansApplied'
    BY <2>1, QuietTruth
  <2> QED
    BY <2>4, <2>5, <2>6, <2>7, <2>8, QuietCommit
<1>2. ASSUME NEW r \in Replies, r.kind \notin {"ok", "replay"},
             \/ pc[a] \in Working /\ EndTx(a)
             \/ pc[a] \notin Working /\ UNCHANGED txVars,
             Finish(a, r), FreeClient(a), UNCHANGED <<key, body, applied, epoch, runs>>,
             UNCHANGED row \/ (Holds(a) /\ DropRow(key[a]))
      PROVE  RunsInv' /\ UNCHANGED <<applied, epoch>> /\ \A k \in Keys : Stored(k)' = Stored(k)
  <2>1. ClientInv' /\ PendInv'
    BY <1>2, ClientEnds
  <2>2. \A k \in Keys : row'[k] = row[k] \/ row'[k] = None
    BY <1>2 DEF DropRow, TypeInv, TypeOK
  <2>3. \A b \in Attempts : \/ UNCHANGED <<pc[b], claim[b]>>
                            \/ pc'[b] \notin Claiming \cup {"stale"}
    BY <1>2 DEF Finish, Goto, Claiming, Straying, Working, TypeInv, TypeOK
  <2>4. ClaimInv'
    BY <1>2, <2>2, <2>3, ClaimQuiet
  <2>5. \A k \in Keys : Stored(k)' = Stored(k)
    BY <1>2 DEF DropRow, Stored, Holds, Unlocked, TypeInv, TypeOK
  <2>6. AnswerMeansApplied'
    BY <1>2, QuietTruth DEF Finish, TypeInv, TypeOK
  <2> QED
    BY <1>2, <2>1, <2>4, <2>5, <2>6, QuietCommit
<1>3. CASE SettleLost(a)
  BY <1>2, <1>3, AnswerType DEF SettleLost, Answer, guardVars, Working
<1>4. CASE Release(a)
  BY <1>2, <1>4, AnswerType DEF Release, ReleaseClaim, Answer, Working
<1>5. CASE Lose(a)
  BY <1>2, <1>5, AnswerType DEF Lose, Unanswered, guardVars
<1> QED
  BY <1>1, <1>3, <1>4, <1>5

\* Time passes: the window, the expiry and the prune touch only rows.
LEMMA TimeOnce ==
  ASSUME Managed, TypeInv, OnceInv, NEW k \in Keys, Age(k) \/ Expire(k) \/ Prune(k)
  PROVE  /\ RunsInv' /\ UNCHANGED applied
         /\ \/ UNCHANGED epoch /\ \A q \in Keys : Stored(q)' = Stored(q)
            \/ /\ Stored(k) # None /\ epoch[k] < MaxEpoch
               /\ epoch' = [epoch EXCEPT ![k] = @ + 1]
               /\ \A q \in Keys : Stored(q)' = IF q = k THEN None ELSE Stored(q)
<1> USE DEF OnceInv, RunsInv
<1>1. /\ UNCHANGED <<reqVars, dbVars, runs>>
      /\ \A q \in Keys : row'[q] = row[q] \/ row'[q] = None
    BY DEF Age, Expire, Prune, DropRow, TypeInv, TypeOK
<1>2. ClientInv' /\ PendInv'
  BY <1>1 DEF reqVars, dbVars, ClientInv, PendInv, RunWrite
<1>3. ClaimInv'
  BY <1>1, ClaimQuiet DEF reqVars, dbVars
<1>4. AnswerMeansApplied'
  BY <1>1 DEF reqVars, dbVars, AnswerMeansApplied
<1>5. CASE UNCHANGED epoch /\ \A q \in Keys : Stored(q)' = Stored(q)
  BY <1>1, <1>2, <1>3, <1>4, <1>5, QuietCommit DEF dbVars
<1>6. CASE Prune(k) /\ row[k].resp # None
  <2>1. /\ row[k] # None /\ epoch[k] < MaxEpoch /\ epoch' = [epoch EXCEPT ![k] = @ + 1]
        /\ row' = [row EXCEPT ![k] = None] /\ UNCHANGED applied
    BY <1>6 DEF Prune, DropRow, dbVars
  <2>2. /\ epoch[k] \in Nat /\ epoch'[k] = epoch[k] + 1
        /\ \A q \in Keys : q # k => epoch'[q] = epoch[q]
    BY <2>1, GuardAssumption DEF TypeInv, TypeOK
  <2>3. \A q \in Keys : Stored(q)' = IF q = k THEN None ELSE Stored(q)
    BY <2>1 DEF Stored, TypeInv, TypeOK
  <2>4. Stored(k) # None
    <3>1. row[k] \in Row
      BY <2>1 DEF TypeInv, TypeOK
    <3>2. row[k].resp \in Nat /\ row[k].hash \in Bodies
      BY <1>6, <3>1, GuardAssumption DEF Row, Tokens
    <3> QED
      BY <1>6, <2>1, <3>2, GuardAssumption DEF Stored
  <2>5. CommitInv'
    <3>1. ASSUME NEW x \in applied'
          PROVE  /\ x.epoch \in 0 .. epoch'[x.write.key]
                 /\ x.epoch = epoch'[x.write.key] =>
                       Stored(x.write.key)' = [run |-> x.write.run, hash |-> x.write.hash]
      <4>1. x \in applied /\ x.write.key \in Keys
        BY <2>1, <3>1 DEF TypeInv, TypeOK, Write
      <4> QED
        BY <2>2, <2>3, <4>1 DEF CommitInv
    <3>2. ASSUME NEW q \in Keys, Stored(q)' # None, NEW s \in Stmts
          PROVE  [write |-> [key |-> q, run |-> Stored(q)'.run, stmt |-> s, hash |-> Stored(q)'.hash],
                  epoch |-> epoch'[q]] \in applied'
      BY <2>1, <2>2, <2>3, <3>2 DEF CommitInv
    <3> QED
      BY <3>1, <3>2 DEF CommitInv
  <2>6. AtMostOnce'
    BY <2>1 DEF AtMostOnce
  <2> QED
    BY <1>2, <1>3, <1>4, <2>1, <2>3, <2>4, <2>5, <2>6
<1>7. CASE Age(k) \/ Expire(k)
  BY <1>5, <1>7 DEF Age, Expire, Stored
<1>8. CASE Prune(k) /\ row[k].resp = None
  BY <1>5, <1>8 DEF Prune, DropRow, Stored, TypeInv, TypeOK
<1> QED
  BY <1>6, <1>7, <1>8

\* A response is stored by STORE_RESPONSE_SQL alone.
LEMMA StoredByStore ==
  ASSUME TypeInv, [Next]_vars, NEW a \in Attempts, pc[a] # "stored", pc'[a] = "stored"
  PROVE  Store(a)
<1>1. ASSUME NEW b \in Attempts, NEW p, Goto(b, p), p # "stored" PROVE FALSE
  BY <1>1 DEF Goto, TypeInv, TypeOK
<1>2. ASSUME NEW b \in Attempts, Plugin(b) PROVE Store(a)
  <2>1. ASSUME NEW r, Finish(b, r) PROVE FALSE
    BY <1>1, <2>1 DEF Finish
  <2>2. ASSUME NEW r, Take(b, r) PROVE FALSE
    BY <1>1, <2>2 DEF Take
  <2>3. CASE Store(b)
    BY <2>3 DEF Store, Goto, TypeInv, TypeOK
  <2>4. ~Savepoint(b) /\ ~Execute(b)
    BY DEF Savepoint, Execute
  <2> QED
    BY <1>1, <1>2, <2>1, <2>2, <2>3, <2>4 DEF Plugin, ClaimWon, ClaimLost, Fetch, Reclaim, ReclaimLost,
       Begin, PoolBroken, BeginFails, PoolTimeout, HandlerReturns, StoreFails, SettleCommit, SettleLost,
       SettleFail, Release
<1>3. ASSUME NEW b \in Attempts, Abort(b) \/ Stray(b) \/ Lose(b) PROVE FALSE
  <2>1. ~AbortRelease(b) /\ ~StraySavepoint(b) /\ ~StrayExecute(b)
    BY DEF AbortRelease, StraySavepoint, StrayExecute, reqVars
  <2> QED
    BY <1>1, <1>3, <2>1 DEF Abort, Stray, Lose, StrayRelease, StrayThrows, StrayUndo, StrayUndone, StrayEnd,
       StrayLeaves, Finish
<1>4. ASSUME NEW b \in Attempts, NEW k \in Keys, NEW h \in Bodies, Arrive(b, k, h) PROVE FALSE
  BY <1>1, <1>4 DEF Arrive
<1>5. ~Time /\ ~UNCHANGED vars
  BY DEF Time, Age, Expire, Prune, vars, reqVars
<1> QED
  BY <1>2, <1>3, <1>4, <1>5 DEF Next

\* Without strays no transaction is broken when its response is stored or its client
\* goes back.
LEMMA NothingBroken ==
  ASSUME TypeInv, OnceInv, NEW a \in Attempts
  PROVE  ~StoreFails(a) /\ \A c \in Clients : ~PoolBroken(a, c)
BY DEF StoreFails, PoolBroken, OnceInv, RunsInv, ClientInv, TypeInv, Shape, Working

LEMMA NoStrays ==
  ASSUME Managed, TypeInv, OnceInv, NEW a \in Attempts
  PROVE  ~Abort(a) /\ ~Stray(a)
BY DEF Abort, Stray, AbortRelease, StrayExecute, StraySavepoint, StrayRelease, StrayThrows, StrayUndo,
   StrayUndone, StrayEnd, Straying, Managed, OnceInv, RunsInv, ClientInv

\* The uncommitted STORE_RESPONSE keeps the row: CLAIM_SQL, RECLAIM_SQL and the prune wait
\* for its lock, and RELEASE_CLAIM_SQL names another claim.
LEMMA NextLock ==
  ASSUME Managed, TypeInv, OnceInv, [Next]_vars
  PROVE  LockInv'
<1> USE DEF OnceInv, RunsInv
<1>1. ClaimsInv
  BY DEF ClaimInv, ClaimsInv, Fits
<1>2. ASSUME NEW a \in Attempts, pc[a] = "stored", pc'[a] = "stored"
      PROVE  Holds(a)'
  <2>1. Locked(key[a])
    <3>1. /\ pc[a] \in Working /\ conn[a] \in Clients
          /\ pend[conn[a]] = {RunWrite(a, s) : s \in 1 .. (NStmts + 1)}
      BY <1>2, StoredPend
    <3>2. RunWrite(a, NStmts + 1) \in pend[conn[a]]
      BY <3>1, GuardAssumption
    <3>3. RunWrite(a, NStmts + 1).key = key[a] /\ RunWrite(a, NStmts + 1).stmt \notin Stmts
      BY GuardAssumption DEF RunWrite, Stmts
    <3> QED
      BY <3>1, <3>2, <3>3 DEF Locked
  <2>2. \A b \in Attempts : ClaimWon(b) \/ Reclaim(b) => key[b] # key[a]
    BY <2>1 DEF ClaimWon, Reclaim
  <2>3. \A k \in Keys : Prune(k) => k # key[a]
    BY <2>1 DEF Prune
  <2>4. Holds(a) /\ pc[a] \in Working /\ pc'[a] \in Working
    BY <1>2 DEF LockInv, Working
  <2> QED
    BY <1>1, <2>2, <2>3, <2>4, RowKept
<1>3. ASSUME NEW a \in Attempts, pc[a] # "stored", pc'[a] = "stored"
      PROVE  Holds(a)'
  <2>1. Store(a)
    BY <1>3, StoredByStore
  <2> QED
    BY <2>1 DEF Store, Holds, Unlocked, guardVars
<1> QED
  BY <1>2, <1>3 DEF LockInv

Quiet == UNCHANGED <<applied, epoch>> /\ \A k \in Keys : Stored(k)' = Stored(k)

\* Of all the steps of the guard only the COMMIT and the prune show outside.
LEMMA PluginQuiet ==
  ASSUME Managed, TypeInv, OnceInv, NEW a \in Attempts,
         Plugin(a), ~SettleCommit(a)
  PROVE  Quiet
<1>0. ~StoreFails(a) /\ \A c \in Clients : ~PoolBroken(a, c)
  BY NothingBroken
<1>1. ASSUME NEW r, Take(a, r), r.resp = None, row[key[a]] = None \/ row[key[a]].resp = None
      PROVE  Quiet
  <2>1. key[a] \in Keys /\ row'[key[a]] = r /\ \A q \in Keys \ {key[a]} : row'[q] = row[q]
    BY <1>1 DEF Take, TypeInv, TypeOK
  <2> QED
    BY <1>1, <2>1, QuietRow DEF Quiet, Take, dbVars
<1>2. CASE ClaimWon(a)
  BY <1>1, <1>2 DEF ClaimWon, Claimable
<1>3. CASE Reclaim(a)
  <2>1. row[key[a]] \in Row
    BY <1>3 DEF Reclaim, Holds, Unlocked, TypeInv, TypeOK
  <2>2. [row[key[a]] EXCEPT !.token = runs + 1].resp = row[key[a]].resp
    BY <2>1 DEF Row
  <2> QED
    BY <1>1, <1>3, <2>2 DEF Reclaim, Holds, Unlocked
<1>4. CASE SettleLost(a) \/ SettleFail(a) \/ Release(a)
  BY <1>4, LeaveOnce DEF Quiet
<1>5. CASE Execute(a)
  BY <1>5 DEF Execute, Managed, Quiet, Stored, guardVars
<1>6. CASE \/ ClaimLost(a) \/ Fetch(a) \/ ReclaimLost(a) \/ BeginFails(a) \/ PoolTimeout(a)
           \/ (\E c \in Clients : Begin(a, c)) \/ Savepoint(a) \/ HandlerReturns(a) \/ Store(a)
  <2>1. UNCHANGED <<row, epoch, applied>>
    BY <1>6 DEF ClaimLost, Fetch, ReclaimLost, BeginFails, PoolTimeout, Begin, Savepoint,
       HandlerReturns, Store, guardVars, dbVars
  <2> QED
    BY <2>1 DEF Quiet, Stored
<1> QED
  BY <1>0, <1>2, <1>3, <1>4, <1>5, <1>6 DEF Plugin

\* Every step keeps the invariant.
LEMMA NextOnce ==
  ASSUME Managed, TypeInv, OnceInv, [Next]_vars
  PROVE  OnceInv'
<1>1. ASSUME NEW a \in Attempts, Plugin(a)
      PROVE  RunsInv'
  <2>1. ~StoreFails(a) /\ \A c \in Clients : ~PoolBroken(a, c)
    BY NothingBroken
  <2> QED
    BY <1>1, <2>1, PreHandlerOnce, ClaimOnce, HandlerOnce, CommitOnce, LeaveOnce DEF Plugin
<1>2. ASSUME UNCHANGED vars PROVE RunsInv'
  <2>1. ClientInv' /\ PendInv' /\ AtMostOnce' /\ AnswerMeansApplied'
    BY <1>2 DEF vars, guardVars, reqVars, dbVars, OnceInv, RunsInv, ClientInv, PendInv, RunWrite,
       AtMostOnce, AnswerMeansApplied
  <2>2. ClaimInv'
    BY <1>2 DEF vars, guardVars, reqVars, dbVars, OnceInv, RunsInv, ClaimInv, Holds, Unlocked
  <2>3. CommitInv'
    BY <1>2 DEF vars, guardVars, dbVars, OnceInv, RunsInv, CommitInv, Stored
  <2> QED
    BY <2>1, <2>2, <2>3 DEF RunsInv
<1>3. RunsInv'
  <2>1. ASSUME NEW a \in Attempts, Lose(a) \/ \E k \in Keys, h \in Bodies : Arrive(a, k, h)
        PROVE  RunsInv'
    BY <2>1, PreHandlerOnce, LeaveOnce
  <2>2. ASSUME Time PROVE RunsInv'
    BY <2>2, TimeOnce DEF Time
  <2> QED
    BY <1>1, <1>2, <2>1, <2>2, NoStrays DEF Next
<1> QED
  BY <1>3, NextLock DEF OnceInv

\* The two invariants hold in every reachable state of a guard that is used through
\* its transaction.
LEMMA Reachable == ASSUME Managed PROVE Spec => [](TypeInv /\ OnceInv)
<1>1. Init => TypeInv /\ OnceInv
  BY InitType, InitOnce
<1>2. TypeInv /\ OnceInv /\ [Next]_vars => (TypeInv /\ OnceInv)'
  BY NextType, NextOnce
<1> QED
  BY <1>1, <1>2, PTL DEF Spec

\* The business rows of one key come from one run of its handler, however many
\* requests carry the key, overlap, overrun their window, fail or are lost.
THEOREM OnceCorrect == ASSUME Managed PROVE Spec => []AtMostOnce
<1>1. OnceInv => AtMostOnce
  BY DEF OnceInv, RunsInv
<1> QED
  BY <1>1, Reachable, PTL

\* A success or a replay names a run whose every statement is committed for the body
\* the client sent (the stored response commits with the business rows).
THEOREM AnswersCorrect == ASSUME Managed PROVE Spec => []AnswerMeansApplied
<1>1. OnceInv => AnswerMeansApplied
  BY DEF OnceInv, RunsInv
<1> QED
  BY <1>1, Reachable, PTL

\* A key's rows and its stored response are committed together.
THEOREM TogetherCorrect == ASSUME Managed PROVE Spec => []CommitTogether
<1>1. ASSUME TypeInv, OnceInv, NEW k \in Keys
      PROVE  {x.write.run : x \in Current(k)} = IF Stored(k) = None THEN {} ELSE {row[k].resp}
  <2>1. ASSUME NEW x \in Current(k)
        PROVE  Stored(k) # None /\ x.write.run = row[k].resp
    <3>1. Stored(k) = [run |-> x.write.run, hash |-> x.write.hash] /\ x \in applied
      BY <1>1, <2>1 DEF Current, OnceInv, RunsInv, CommitInv
    <3>2. x.write.run \in Nat /\ x.write.hash \in Bodies
      BY <1>1, <3>1, GuardAssumption DEF TypeInv, TypeOK, Write, Tokens
    <3>3. Stored(k) # None
      BY <3>1, <3>2, GuardAssumption
    <3> QED
      BY <3>1, <3>3 DEF Stored
  <2>2. ASSUME Stored(k) # None
        PROVE  \E x \in Current(k) : x.write.run = row[k].resp
    <3>1. 1 \in Stmts /\ Stored(k).run = row[k].resp
      BY <2>2, GuardAssumption DEF Stmts, Stored
    <3>2. [write |-> [key |-> k, run |-> Stored(k).run, stmt |-> 1, hash |-> Stored(k).hash],
           epoch |-> epoch[k]] \in applied
      BY <1>1, <2>2, <3>1 DEF OnceInv, RunsInv, CommitInv
    <3> QED
      BY <3>1, <3>2 DEF Current
  <2> QED
    BY <2>1, <2>2
<1>2. TypeInv /\ OnceInv => CommitTogether
  BY <1>1 DEF CommitTogether
<1> QED
  BY <1>2, Reachable, PTL

-----------------------------------------------------------------------------
(* The guard implements OncePerKey.                                         *)

AbsVars == <<[k \in Keys |-> Stored(k)], epoch, applied>>

\* A step that shows nothing is a stutter of the abstract specification.
LEMMA QuietStutters == ASSUME Quiet PROVE UNCHANGED AbsVars
  BY DEF Quiet, AbsVars

\* The COMMIT is the abstract Run of the key.
LEMMA CommitRuns ==
  ASSUME Managed, TypeInv, OnceInv, NEW a \in Attempts, SettleCommit(a)
  PROVE  Abstract!Run(key[a], claim[a], body[a]) /\ key[a] \in Keys
         /\ claim[a] \in 1 .. MaxRuns /\ body[a] \in Bodies
<1>1. /\ key[a] \in Keys /\ claim[a] \in 1 .. MaxRuns /\ body[a] \in Bodies
      /\ pc[a] \in Claiming
  BY DEF SettleCommit, TypeInv, TypeOK, Shape, Claiming, Straying, Working, Tokens
<1>2. \A x \in applied : x.write.run # claim[a]
  BY <1>1 DEF OnceInv, RunsInv, ClaimInv
<1>3. /\ applied' = applied \cup
              {[write |-> RunWrite(a, s), epoch |-> epoch[key[a]]] : s \in Stmts}
      /\ \A k \in Keys : Stored(k)' = IF k = key[a]
                                       THEN [run |-> claim[a], hash |-> body[a]]
                                       ELSE Stored(k)
      /\ Stored(key[a]) = None
  BY CommitOnce
<1>4. UNCHANGED epoch
  BY DEF SettleCommit
<1>5. [k \in Keys |-> Stored(k)]'
        = [[k \in Keys |-> Stored(k)] EXCEPT ![key[a]] = [run |-> claim[a], hash |-> body[a]]]
  BY <1>1, <1>3
<1>6. \A s \in Stmts : Abstract!Write(key[a], claim[a], s, body[a]) = RunWrite(a, s)
  BY DEF Abstract!Write, RunWrite
<1>7. applied' = applied \cup
        {[write |-> Abstract!Write(key[a], claim[a], s, body[a]), epoch |-> epoch[key[a]]] :
            s \in 1 .. NStmts}
  BY <1>3, <1>6 DEF Stmts
<1> QED
  BY <1>1, <1>2, <1>3, <1>4, <1>5, <1>7 DEF Abstract!Run

\* Every step of the guard is a step of the abstract specification or a stutter.
LEMMA StepRefines ==
  ASSUME Managed, TypeInv, OnceInv, [Next]_vars
  PROVE  Abstract!Next \/ UNCHANGED AbsVars
<1>1. ASSUME NEW a \in Attempts, SettleCommit(a)
      PROVE  Abstract!Next
  BY <1>1, CommitRuns DEF Abstract!Next
<1>2. ASSUME NEW a \in Attempts, Plugin(a), ~SettleCommit(a)
      PROVE  UNCHANGED AbsVars
  BY <1>2, PluginQuiet, QuietStutters
<1>3. ASSUME NEW a \in Attempts, NEW k \in Keys, NEW h \in Bodies, Arrive(a, k, h)
      PROVE  UNCHANGED AbsVars
  BY <1>3, QuietStutters DEF Arrive, guardVars, dbVars, Quiet, Stored
<1>4. ASSUME NEW a \in Attempts, Lose(a)
      PROVE  UNCHANGED AbsVars
  BY <1>4, LeaveOnce, QuietStutters DEF Quiet
<1>5. ASSUME NEW a \in Attempts, Abort(a) \/ Stray(a)
      PROVE  FALSE
  BY <1>5, NoStrays
<1>6. ASSUME NEW k \in Keys, Age(k) \/ Expire(k) \/ Prune(k)
      PROVE  Abstract!Next \/ UNCHANGED AbsVars
  <2>1. CASE UNCHANGED epoch /\ \A q \in Keys : Stored(q)' = Stored(q)
    BY <1>6, <2>1, TimeOnce, QuietStutters DEF Quiet
  <2>2. CASE /\ Stored(k) # None /\ epoch[k] < MaxEpoch
             /\ epoch' = [epoch EXCEPT ![k] = @ + 1]
             /\ \A q \in Keys : Stored(q)' = IF q = k THEN None ELSE Stored(q)
    <3>1. [q \in Keys |-> Stored(q)]' = [[q \in Keys |-> Stored(q)] EXCEPT ![k] = None]
      BY <2>2
    <3>2. UNCHANGED applied
      BY <1>6, TimeOnce
    <3> QED
      BY <2>2, <3>1, <3>2 DEF Abstract!Forget, Abstract!Next
  <2> QED
    BY <1>6, <2>1, <2>2, TimeOnce
<1>7. CASE UNCHANGED vars
  BY <1>7, QuietStutters DEF vars, guardVars, reqVars, dbVars, Quiet, Stored
<1> QED
  BY <1>1, <1>2, <1>3, <1>4, <1>5, <1>6, <1>7 DEF Next, Time

\* Claims, windows, overlapping transactions, crashes and the prune together are no
\* more than one run per key and its memory.
THEOREM GuardRefines == ASSUME Managed PROVE Spec => OnceOnly
<1>1. Init => Abstract!Init
  BY DEF Init, Abstract!Init, Stored
<1>2. TypeInv /\ OnceInv /\ [Next]_vars => [Abstract!Next]_AbsVars
  BY StepRefines
<1> QED
  BY <1>1, <1>2, Reachable, PTL DEF Spec, OnceOnly, Abstract!Spec, AbsVars

-----------------------------------------------------------------------------
(* What is committed, and what a row goes through.                          *)

\* Business writes appear only at a COMMIT, and then all those of a run.
LEMMA AppliedMoves ==
  ASSUME Managed, TypeInv, OnceInv, [Next]_vars
  PROVE  \/ applied' = applied
         \/ \E a \in Attempts :
              /\ pc[a] = "stored" /\ Stored(key[a]) = None
              /\ applied' = applied \cup
                   {[write |-> RunWrite(a, s), epoch |-> epoch[key[a]]] : s \in Stmts}
<1>1. ASSUME NEW a \in Attempts, SettleCommit(a)
      PROVE  /\ pc[a] = "stored" /\ Stored(key[a]) = None
             /\ applied' = applied \cup
                  {[write |-> RunWrite(a, s), epoch |-> epoch[key[a]]] : s \in Stmts}
  BY <1>1, CommitOnce DEF SettleCommit
<1>2. ASSUME NEW a \in Attempts, Plugin(a), ~SettleCommit(a)
      PROVE  applied' = applied
  BY <1>2, PluginQuiet DEF Quiet
<1>3. ASSUME NEW a \in Attempts, Lose(a) \/ \E k \in Keys, h \in Bodies : Arrive(a, k, h)
      PROVE  applied' = applied
  BY <1>3 DEF Lose, Arrive, dbVars
<1>4. ASSUME NEW a \in Attempts, Abort(a) \/ Stray(a)
      PROVE  FALSE
  BY <1>4, NoStrays
<1>5. CASE Time \/ UNCHANGED vars
  BY <1>5 DEF Time, Age, Expire, Prune, vars, dbVars
<1> QED
  BY <1>1, <1>2, <1>3, <1>4, <1>5 DEF Next

\* The write of another statement of the same run.
Sibling(x, s) == [x EXCEPT !.write.stmt = s]

LEMMA SiblingIs ==
  ASSUME NEW a \in Attempts, NEW t \in Stmts, NEW s \in Stmts, NEW e
  PROVE  Sibling([write |-> RunWrite(a, t), epoch |-> e], s) = [write |-> RunWrite(a, s), epoch |-> e]
  BY DEF Sibling, RunWrite

\* A run leaves all of its statements behind or none, however it is overtaken, refused,
\* lost or overrun by its window (COMMIT or ROLLBACK of the request transaction).
THEOREM WholeRuns == ASSUME Managed PROVE Spec => []AllOrNothing
<1>1. Init => AllOrNothing
  BY DEF Init, AllOrNothing
<1>2. ASSUME TypeInv, OnceInv, AllOrNothing, [Next]_vars PROVE AllOrNothing'
  <2>1. CASE applied' = applied
    BY <1>2, <2>1 DEF AllOrNothing
  <2>2. ASSUME NEW a \in Attempts,
               applied' = applied \cup
                 {[write |-> RunWrite(a, s), epoch |-> epoch[key[a]]] : s \in Stmts}
        PROVE  AllOrNothing'
    <3>1. ASSUME NEW x \in applied', NEW s \in Stmts PROVE Sibling(x, s) \in applied'
      <4>1. CASE x \in applied
        BY <1>2, <2>2, <4>1 DEF AllOrNothing, Sibling
      <4>2. CASE x \notin applied
        <5>1. PICK t \in Stmts : x = [write |-> RunWrite(a, t), epoch |-> epoch[key[a]]]
          BY <2>2, <3>1, <4>2
        <5>2. Sibling(x, s) = [write |-> RunWrite(a, s), epoch |-> epoch[key[a]]]
          BY <5>1, SiblingIs
        <5> QED
          BY <2>2, <5>2
      <4> QED
        BY <4>1, <4>2
    <3> QED
      BY <3>1 DEF AllOrNothing, Sibling
  <2> QED
    BY <1>2, <2>1, <2>2, AppliedMoves
<1>3. TypeInv /\ OnceInv /\ AllOrNothing /\ [Next]_vars => AllOrNothing'
  BY <1>2
<1> QED
  BY <1>1, <1>3, Reachable, PTL DEF Spec

\* A stored answer stands until the prune takes its expired row: every statement that
\* touches a row of somebody else's names a row without an answer.
THEOREM AnswersStand == Spec => StoredAnswerStable
<1> DEFINE Stands == \A k \in Keys : (row[k] # None /\ row[k].resp # None) =>
              row'[k] = row[k] \/ (row'[k] = None /\ expired[k])
<1>1. ASSUME TypeInv, [Next]_vars, NEW k \in Keys, row[k] # None, row[k].resp # None
      PROVE  row'[k] = row[k] \/ (row'[k] = None /\ expired[k])
  <2>1. ~Unlocked(k)
    BY <1>1 DEF Unlocked
  <2>2. ASSUME NEW a \in Attempts, ClaimWon(a) \/ Reclaim(a) \/ SettleCommit(a)
        PROVE  row'[k] = row[k]
    <3>1. key[a] # k \/ UNCHANGED row
      BY <1>1, <2>1, <2>2 DEF ClaimWon, Claimable, Reclaim, SettleCommit, Lands, Holds
    <3> QED
      BY <1>1, <2>2, <3>1 DEF ClaimWon, Reclaim, SettleCommit, Take, TypeInv, TypeOK
  <2>3. ASSUME NEW a \in Attempts, ReleaseClaim(a)
        PROVE  row'[k] = row[k]
    BY <1>1, <2>1, <2>3 DEF ReleaseClaim, Holds, DropRow, TypeInv, TypeOK
  <2>4. ASSUME NEW a \in Attempts,
               \/ Plugin(a) \/ Abort(a) \/ Stray(a) \/ Lose(a)
               \/ \E q \in Keys, h \in Bodies : Arrive(a, q, h)
        PROVE  row'[k] = row[k]
    <3>1. CASE ClaimWon(a) \/ Reclaim(a) \/ SettleCommit(a)
      BY <2>2, <3>1
    <3>2. CASE Release(a) \/ AbortRelease(a)
      BY <2>3, <3>2 DEF Release, AbortRelease
    <3>3. CASE ~(ClaimWon(a) \/ Reclaim(a) \/ SettleCommit(a) \/ Release(a) \/ AbortRelease(a))
      BY <2>4, <3>3 DEF Plugin, ClaimLost, Fetch, ReclaimLost, Begin, PoolBroken, BeginFails,
         PoolTimeout, Savepoint, Execute, HandlerReturns, Store, StoreFails, SettleLost, SettleFail,
         Abort, Stray, StrayExecute, StraySavepoint, StrayRelease, StrayThrows, StrayUndo, StrayUndone,
         StrayEnd, Lose, Arrive, guardVars
    <3> QED
      BY <3>1, <3>2, <3>3
  <2>5. ASSUME NEW q \in Keys, Age(q) \/ Expire(q) \/ Prune(q)
        PROVE  row'[k] = row[k] \/ (row'[k] = None /\ expired[k])
    BY <1>1, <2>5 DEF Age, Expire, Prune, DropRow, TypeInv, TypeOK
  <2>6. CASE UNCHANGED vars
    BY <2>6 DEF vars, guardVars
  <2> QED
    BY <1>1, <2>4, <2>5, <2>6 DEF Next, Time
<1>2. TypeInv /\ [Next]_vars => Stands
  BY <1>1
<1>3. Spec => []TypeInv
  BY InitType, NextType, PTL DEF Spec
<1> QED
  BY <1>2, <1>3, PTL DEF Spec, StoredAnswerStable

-----------------------------------------------------------------------------
(* The writer in front of the guard.                                        *)

\* The writer is a client of the guard.
LEMMA WriterUsesGuard == WriterSpec => Spec
<1>1. WriterInit => Init
  BY DEF WriterInit
<1>2. ASSUME [WriterNext]_allVars PROVE [Next]_vars
  <2>1. CASE \E a \in Attempts, k \in Keys : Send(a, k)
    BY <2>1, IntentAssumption DEF Send, Next
  <2>2. CASE \/ \E k \in Keys : SendLost(k) \/ SendRefused(k)
             \/ NotReached \/ Accepted \/ ServerFailed \/ Refused
    BY <2>2 DEF SendLost, SendRefused, NotReached, Accepted, ServerFailed, Refused
  <2>3. CASE Server
    BY <2>3 DEF Server, Next
  <2>4. CASE UNCHANGED allVars
    BY <2>4 DEF allVars
  <2> QED
    BY <1>2, <2>1, <2>2, <2>3, <2>4 DEF WriterNext, Writer
<1>3. [WriterNext]_allVars => [Next]_vars
  BY <1>2
<1> QED
  BY <1>1, <1>3, PTL DEF WriterSpec, Spec

\* What the writer knows: the request it waits for carries the form, and until a 4xx was
\* answered there is one key, which every request and every committed write is under, and
\* which stays pinned until the form is saved.
OneKey ==
  /\ \A k, q \in minted : k = q
  /\ told # "saved" => minted \subseteq {pinned}
  /\ \A a \in Attempts : pc[a] # "idle" => key[a] \in minted
  /\ \A x \in applied : x.write.key \in minted

WriterInv ==
  /\ pinned \in Keys \cup {None} /\ minted \subseteq Keys
  /\ sending \in Attempts \cup {None}
  /\ told \in Told /\ refused \in BOOLEAN
  /\ sending # None => body[sending] = Intent /\ told # "saved"
  /\ SavedIsSaved
  /\ ~refused => OneKey

\* Where the writes of a step come from.
LEMMA AppliedKeys ==
  ASSUME Managed, TypeInv, OnceInv, [Next]_vars
  PROVE  /\ applied \subseteq applied'
         /\ \A x \in applied' : x \in applied \/ \E a \in Attempts : pc[a] # "idle" /\ x.write.key = key[a]
<1>1. \A a \in Attempts : \A s : RunWrite(a, s).key = key[a]
  BY DEF RunWrite
<1> QED
  BY <1>1, AppliedMoves

\* A step of the server starts no request.
LEMMA ServerStarts ==
  ASSUME Managed, TypeInv, OnceInv, Server
  PROVE  \A a \in Attempts : UNCHANGED <<key[a], body[a]>> /\ (pc'[a] # "idle" => pc[a] # "idle")
<1>1. ASSUME NEW b \in Attempts, Plugin(b) \/ Lose(b)
      PROVE  UNCHANGED <<key, body>> /\ \A a \in Attempts : pc'[a] # "idle" => pc[a] # "idle"
  BY <1>1 DEF Plugin, Lose, ClaimWon, ClaimLost, Fetch, Reclaim, Take,
     ReclaimLost, Begin, PoolBroken, BeginFails, PoolTimeout, Savepoint, Execute, HandlerReturns,
     Store, StoreFails, Working, SettleCommit, SettleLost, SettleFail, Release, Finish, Goto, TypeInv, TypeOK
<1>2. CASE Time
  BY <1>2 DEF Time, Age, Expire, Prune, reqVars
<1> QED
  BY <1>1, <1>2 DEF Server

\* The write SavedIsSaved looks for is the statement's write of the same run.
OfForm(x, s) == [x EXCEPT !.write.stmt = s, !.write.hash = Intent]
Formed(x) == [x EXCEPT !.write.hash = Intent]

LEMMA FormedIs ==
  ASSUME NEW k, NEW r, NEW e, NEW s, NEW h
  PROVE  Formed([write |-> [key |-> k, run |-> r, stmt |-> s, hash |-> h], epoch |-> e])
            = [write |-> [key |-> k, run |-> r, stmt |-> s, hash |-> Intent], epoch |-> e]
  BY DEF Formed

LEMMA FormSibling ==
  ASSUME NEW k, NEW r, NEW e, NEW s,
         NEW x, x = [write |-> [key |-> k, run |-> r, stmt |-> 1, hash |-> Intent], epoch |-> e]
  PROVE  OfForm(x, s) = Sibling(x, s)
<1>1. OfForm(x, s) = Formed(Sibling(x, s))
  BY DEF OfForm, Formed, Sibling
<1>2. Sibling(x, s) = [write |-> [key |-> k, run |-> r, stmt |-> s, hash |-> Intent], epoch |-> e]
  BY DEF Sibling
<1> QED
  BY <1>1, <1>2, FormedIs

LEMMA SavedStays ==
  ASSUME SavedIsSaved, applied \subseteq applied', told' = "saved" => told = "saved"
  PROVE  SavedIsSaved'
  BY DEF SavedIsSaved

LEMMA StepWriter ==
  ASSUME Managed, TypeInv, OnceInv, AllOrNothing, WriterInv, [WriterNext]_allVars
  PROVE  WriterInv'
<1> USE DEF WriterInv, Told
<1>1. CASE \E a \in Attempts, k \in Keys : Send(a, k)
  <2>1. PICK a \in Attempts, k \in Keys : Send(a, k)
    BY <1>1
  <2>2. /\ sending = None /\ told # "saved" /\ NextKey(k) /\ pinned' = k /\ minted' = minted \cup {k}
        /\ sending' = a /\ UNCHANGED <<told, refused, applied>>
        /\ key'[a] = k /\ body'[a] = Intent
        /\ \A b \in Attempts : b # a => pc'[b] = pc[b] /\ key'[b] = key[b]
    BY <2>1 DEF Send, Arrive, Goto, dbVars, TypeInv, TypeOK
  <2>3. ASSUME OneKey PROVE OneKey'
    <3>1. minted \subseteq {k}
      BY <2>2, <2>3, GuardAssumption DEF OneKey, NextKey
    <3> QED
      BY <2>2, <2>3, <3>1 DEF OneKey
  <2>4. SavedIsSaved'
    BY <2>2, SavedStays
  <2> QED
    BY <2>2, <2>3, <2>4
<1>2. CASE \E k \in Keys : SendLost(k)
  <2>1. PICK k \in Keys : SendLost(k)
    BY <1>2
  <2>2. /\ sending = None /\ told # "saved" /\ NextKey(k) /\ pinned' = k /\ minted' = minted \cup {k}
        /\ told' = "unreached" /\ UNCHANGED <<sending, refused, applied, pc, key, body>>
    BY <2>1 DEF SendLost, vars, reqVars, dbVars
  <2>3. ASSUME OneKey PROVE OneKey'
    <3>1. minted \subseteq {k}
      BY <2>2, <2>3, GuardAssumption DEF OneKey, NextKey
    <3> QED
      BY <2>2, <2>3, <3>1 DEF OneKey
  <2>4. SavedIsSaved'
    BY <2>2, SavedStays
  <2> QED
    BY <2>2, <2>3, <2>4
<1>3. CASE (\E k \in Keys : SendRefused(k)) \/ Refused
  <2>1. /\ refused' = TRUE /\ told' = "refused" /\ pinned' = None /\ minted' \subseteq Keys
        /\ sending' \in {sending, None} /\ UNCHANGED <<body, applied>>
    BY <1>3 DEF SendRefused, Refused, vars, reqVars, dbVars
  <2>2. SavedIsSaved'
    BY <2>1 DEF SavedIsSaved
  <2> QED
    BY <2>1, <2>2
<1>4. CASE NotReached \/ ServerFailed
  <2>1. /\ sending' = None /\ told' \in {"unreached", "failed"} /\ sending # None
        /\ UNCHANGED <<pinned, minted, refused, applied, pc, key, body>>
    BY <1>4 DEF NotReached, ServerFailed, Got, vars, reqVars, dbVars
  <2>2. SavedIsSaved'
    BY <2>1, SavedStays
  <2>3. OneKey => OneKey'
    BY <2>1 DEF OneKey
  <2> QED
    BY <2>1, <2>2, <2>3
<1>5. CASE Accepted
  <2>1. /\ sending \in Attempts /\ reply[sending].kind \in {"ok", "replay"} /\ body[sending] = Intent
        /\ pinned' = None /\ sending' = None /\ told' = "saved"
        /\ UNCHANGED <<minted, refused, applied, pc, key, body>>
    BY <1>5 DEF Accepted, Got, vars, reqVars, dbVars
  <2>2. SavedIsSaved'
    <3>1. 1 \in Stmts
      BY GuardAssumption DEF Stmts
    <3>2. PICK x \in applied :
            x.write = [key |-> key[sending], run |-> reply[sending].run, stmt |-> 1, hash |-> Intent]
      BY <2>1, <3>1 DEF OnceInv, RunsInv, AnswerMeansApplied
    <3>4. PICK k, r, e : x = [write |-> [key |-> k, run |-> r, stmt |-> 1, hash |-> Intent], epoch |-> e]
      <4>1. x = [write |-> x.write, epoch |-> x.epoch]
        BY DEF TypeInv, TypeOK
      <4> QED
        BY <3>2, <4>1
    <3>3. ASSUME NEW s \in Stmts
          PROVE  [x EXCEPT !.write.stmt = s, !.write.hash = Intent] \in applied
      <4>1. Sibling(x, s) \in applied
        BY <3>3 DEF AllOrNothing, Sibling
      <4>2. [x EXCEPT !.write.stmt = s, !.write.hash = Intent] = OfForm(x, s)
        BY DEF OfForm
      <4>3. OfForm(x, s) = Sibling(x, s)
        BY <3>4, FormSibling
      <4> QED
        BY <4>1, <4>2, <4>3
    <3> QED
      BY <2>1, <3>3 DEF SavedIsSaved
  <2>3. OneKey => OneKey'
    BY <2>1 DEF OneKey
  <2> QED
    BY <2>1, <2>2, <2>3
<1>6. CASE Server
  <2>1. UNCHANGED <<pinned, minted, sending, told, refused>> /\ [Next]_vars
    BY <1>6 DEF Server, writerVars, Next
  <2>2. \A a \in Attempts : UNCHANGED <<key[a], body[a]>> /\ (pc'[a] # "idle" => pc[a] # "idle")
    BY <1>6, ServerStarts
  <2>3. applied \subseteq applied'
    BY <2>1, AppliedKeys
  <2>4. ASSUME OneKey PROVE OneKey'
    <3>1. \A x \in applied' : x.write.key \in minted
      BY <2>1, <2>4, AppliedKeys DEF OneKey
    <3> QED
      BY <2>1, <2>2, <2>4, <3>1 DEF OneKey
  <2>5. SavedIsSaved'
    BY <2>1, <2>3, SavedStays
  <2>6. sending # None => body'[sending] = body[sending]
    BY <2>2
  <2> QED
    BY <2>1, <2>4, <2>5, <2>6
<1>7. CASE UNCHANGED allVars
  <2>1. UNCHANGED <<pinned, minted, sending, told, refused, applied, pc, key, body>>
    BY <1>7 DEF allVars, writerVars, vars, reqVars, dbVars
  <2>2. SavedIsSaved'
    BY <2>1, SavedStays
  <2> QED
    BY <2>1, <2>2 DEF OneKey
<1> QED
  BY <1>1, <1>2, <1>3, <1>4, <1>5, <1>6, <1>7 DEF WriterNext, Writer

LEMMA ReachableWriter == ASSUME Managed PROVE WriterSpec => [](TypeInv /\ OnceInv /\ WriterInv)
<1>1. WriterInit => WriterInv
  BY DEF WriterInit, Init, WriterInv, Told, OneKey, SavedIsSaved
<1>2. TypeInv /\ OnceInv /\ AllOrNothing /\ WriterInv /\ [WriterNext]_allVars => WriterInv'
  BY StepWriter
<1>3. WriterSpec => [](TypeInv /\ OnceInv) /\ []AllOrNothing
  BY WriterUsesGuard, Reachable, WholeRuns, PTL
<1> QED
  BY <1>1, <1>2, <1>3, PTL DEF WriterSpec

\* When the writer tells the user that the form is saved, a run of that form is committed
\* whole, whichever attempt was answered (intentWrite.ts, the "saved" branch).
THEOREM SavedMeansSaved == ASSUME Managed PROVE WriterSpec => []SavedIsSaved
<1>1. WriterInv => SavedIsSaved
  BY DEF WriterInv
<1> QED
  BY <1>1, ReachableWriter, PTL

\* As long as no 4xx was answered the form is saved by one run, for any number of
\* attempts lost, timed out, failed or overlapping (the pinned idempotency key).
THEOREM RetriesRepeatNothing == ASSUME Managed PROVE WriterSpec => []RetriesReplay
<1>1. ASSUME TypeInv, OnceInv, WriterInv PROVE RetriesReplay
  <2>1. SUFFICES ASSUME ~refused, \A k \in Keys : epoch[k] = 0, NEW x \in applied, NEW y \in applied
                 PROVE  x.write.run = y.write.run
    BY DEF RetriesReplay
  <2>2. x.write.key \in Keys /\ y.write.key \in Keys /\ x.write.key = y.write.key
    BY <1>1, <2>1 DEF WriterInv, OneKey
  <2>3. x.epoch \in 0 .. 0 /\ y.epoch \in 0 .. 0
    BY <1>1, <2>1, <2>2 DEF OnceInv, RunsInv, CommitInv
  <2>4. x.epoch = y.epoch
    BY <2>3
  <2> QED
    BY <1>1, <2>2, <2>4 DEF OnceInv, RunsInv, AtMostOnce
<1>2. TypeInv /\ OnceInv /\ WriterInv => RetriesReplay
  BY <1>1
<1> QED
  BY <1>2, ReachableWriter, PTL
=============================================================================

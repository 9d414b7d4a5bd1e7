--------------------------- MODULE CashDay_proofs ---------------------------
(***************************************************************************)
(* The row locks of CashDay do what they are for, for any number of days,  *)
(* jobs and transactions.  LockInv is the inductive part: a transaction    *)
(* past its SELECT ... FOR UPDATE holds the row, and what it read is still *)
(* the committed row.                                                      *)
(***************************************************************************)
EXTENDS CashDay, TLAPS

\* A transaction on a day whose statement ran owns the row it read.
DayHeld(t) ==
  tx[t] # None /\ tx[t].op \in DayOps =>
     /\ tx[t].op # "declare" => rec[tx[t].day] # None
     /\ tx[t].phase = "written" =>
          /\ recLock[tx[t].day] = t
          /\ tx[t].op = "declare" => rec[tx[t].day] = None
          /\ tx[t].op # "declare" =>
               tx[t].read = rec[tx[t].day] /\ Decide(t)

\* A correction past its first statement owns the completion it read.
JobHeld(t) ==
  tx[t] # None /\ tx[t].op = "correct" =>
     /\ comp[tx[t].job] # None
     /\ tx[t].phase # "asked" =>
          /\ compLock[tx[t].job] = t
          /\ tx[t].read = comp[tx[t].job]
          /\ comp[tx[t].job].version < MaxVersion

LockInv == \A t \in Txs : DayHeld(t) /\ JobHeld(t)

-----------------------------------------------------------------------------
\* Ending a transaction keeps the types of the locks and the slots.
LEMMA EndType ==
  ASSUME TypeOK, NEW t \in Txs, End(t)
  PROVE  /\ tx' \in [Txs -> DayTx \cup JobTx \cup {None}]
         /\ recLock' \in [Days -> Txs \cup {None}]
         /\ compLock' \in [Jobs -> Txs \cup {None}]
  BY DEF TypeOK, End

\* A slot at work on an operation of a day holds a DayTx, one at a correction a JobTx.
LEMMA OpType ==
  ASSUME TypeOK, NEW t \in Txs, tx[t] # None
  PROVE  /\ tx[t].op \in DayOps => tx[t] \in DayTx
         /\ tx[t].op = "correct" => tx[t] \in JobTx
  BY DEF TypeOK, DayTx, JobTx, DayOps

\* A request arriving keeps the types.
LEMMA ArrivalType == ASSUME TypeOK, LockInv, Arrival PROVE TypeOK'
<1>1. ASSUME NEW t \in Txs, NEW op \in DayOps, NEW d \in Days, NEW m \in Amounts,
             NEW v \in 1 .. MaxVersion, Ask(t, op, d, m, v)
      PROVE  TypeOK'
  <2>1. [op |-> op, phase |-> "asked", day |-> d, amount |-> m, ifMatch |-> v, read |-> None]
          \in DayTx
    BY DEF DayTx
  <2>2. QED
    BY <1>1, <2>1 DEF Ask, TypeOK
<1>2. ASSUME NEW t \in Txs, NEW j \in Jobs, NEW m \in Amounts, AskCorrection(t, j, m)
      PROVE  TypeOK'
  <2>1. [op |-> "correct", phase |-> "asked", job |-> j, amount |-> m, read |-> None] \in JobTx
    BY DEF JobTx
  <2>2. QED
    BY <1>2, <2>1 DEF AskCorrection, TypeOK
<1>3. ASSUME NEW j \in Jobs, NEW d \in Days, NEW m \in Amounts, Complete(j, d, m)
      PROVE  TypeOK'
  <2>1. [day |-> d, cash |-> m, version |-> 1] \in Completion
    BY CashAssumption DEF Completion
  <2>2. QED
    BY <1>3, <2>1 DEF Complete, TypeOK
<1>4. QED
  BY <1>1, <1>2, <1>3 DEF Arrival

\* The touch trigger keeps the type of a row that is below the bound.
LEMMA BumpType ==
  ASSUME NEW r, r.version < MaxVersion
  PROVE  /\ r \in Handover => Bump(r) \in Handover
         /\ r \in Completion => Bump(r) \in Completion
<1>1. ASSUME r \in Handover PROVE Bump(r) \in Handover
  <2>1. r.version + 1 \in 1 .. MaxVersion
    BY <1>1, CashAssumption DEF Handover
  <2>2. QED
    BY <1>1, <2>1 DEF Handover, Bump
<1>2. ASSUME r \in Completion PROVE Bump(r) \in Completion
  <2>1. r.version + 1 \in 1 .. MaxVersion
    BY <1>2, CashAssumption DEF Completion
  <2>2. QED
    BY <1>2, <2>1 DEF Completion, Bump
<1>3. QED
  BY <1>1, <1>2

\* The statements that write a row keep the types of the rows.
LEMMA RowType ==
  ASSUME NEW r \in Handover, r.version < MaxVersion, NEW x, x.amount \in Amounts
  PROVE  /\ Amended(r, x) \in Handover /\ Confirmed(r, x) \in Handover
         /\ Disputed(r) \in Handover /\ Reopened(r) \in Handover
<1>1. Amended(r, x) \in Handover
  <2>1. [r EXCEPT !.declared = x.amount] \in Handover /\ [r EXCEPT !.declared = x.amount].version < MaxVersion
    BY DEF Handover
  <2>2. QED
    BY <2>1, BumpType DEF Amended
<1>2. Confirmed(r, x) \in Handover
  <2> DEFINE s == [r EXCEPT !.status = "confirmed", !.confirmed = x.amount]
  <2>1. s \in Handover /\ s.version < MaxVersion
    BY DEF Handover, Statuses
  <2>2. QED
    BY <2>1, BumpType DEF Confirmed
<1>3. Disputed(r) \in Handover
  <2>1. [r EXCEPT !.status = "disputed"] \in Handover /\ [r EXCEPT !.status = "disputed"].version < MaxVersion
    BY DEF Handover, Statuses
  <2>2. QED
    BY <2>1, BumpType DEF Disputed
<1>4. Reopened(r) \in Handover
  <2> DEFINE s == [r EXCEPT !.status = "submitted", !.confirmed = None]
  <2>1. s \in Handover /\ s.version < MaxVersion
    BY DEF Handover, Statuses
  <2>2. QED
    BY <2>1, BumpType DEF Reopened
<1>5. QED
  BY <1>1, <1>2, <1>3, <1>4

\* What each COMMIT makes of the row its transaction holds.
LEMMA RowDone ==
  ASSUME TypeOK, LockInv, NEW t \in Txs,
         CommitDeclare(t) \/ CommitAmend(t) \/ CommitAnswer(t) \/ CommitReopen(t)
  PROVE  /\ tx[t] \in DayTx
         /\ rec'[tx[t].day] \in Handover
         /\ CommitDeclare(t) => rec[tx[t].day] = None
         /\ ~CommitDeclare(t) => /\ rec[tx[t].day] \in Handover
                                /\ tx[t].read = rec[tx[t].day]
                                /\ Decide(t)
         /\ \A d \in Days \ {tx[t].day} : rec'[d] = rec[d]
<1>1. tx[t] \in DayTx /\ tx[t].day \in Days
  BY OpType DEF CommitDeclare, CommitAmend, CommitAnswer, CommitReopen, At, DayOps, DayTx
<1>2. \A d \in Days \ {tx[t].day} : rec'[d] = rec[d]
  BY <1>1 DEF CommitDeclare, CommitAmend, CommitAnswer, CommitReopen, TypeOK
<1>3. CASE CommitDeclare(t)
  <2>1. rec[tx[t].day] = None
    BY <1>3 DEF CommitDeclare, At, LockInv, DayHeld, DayOps
  <2>2. rec'[tx[t].day] = [status |-> "submitted", declared |-> tx[t].amount,
                           confirmed |-> None, version |-> 1]
    BY <1>1, <1>3 DEF CommitDeclare, TypeOK
  <2>3. rec'[tx[t].day] \in Handover
    BY <1>1, <2>2, CashAssumption DEF Handover, Statuses, DayTx
  <2>4. QED
    BY <1>1, <1>2, <1>3, <2>1, <2>3
<1>4. CASE ~CommitDeclare(t)
  <2>1. /\ tx[t].op \in DayOps \ {"declare"} /\ tx[t].phase = "written" /\ tx[t] # None
    BY <1>4 DEF CommitAmend, CommitAnswer, CommitReopen, At, DayOps
  <2>2. rec[tx[t].day] \in Handover /\ tx[t].read = rec[tx[t].day] /\ Decide(t)
    BY <1>1, <2>1 DEF LockInv, DayHeld, TypeOK
  <2>3. /\ Amended(rec[tx[t].day], tx[t]) \in Handover
        /\ Confirmed(rec[tx[t].day], tx[t]) \in Handover
        /\ Disputed(rec[tx[t].day]) \in Handover /\ Reopened(rec[tx[t].day]) \in Handover
    BY <1>1, <2>2, RowType DEF DayTx, Decide
  <2>4. rec'[tx[t].day] \in Handover
    BY <1>1, <1>4, <2>3 DEF CommitAmend, CommitAnswer, CommitReopen, TypeOK
  <2>5. QED
    BY <1>1, <1>2, <1>4, <2>2, <2>4
<1>5. QED
  BY <1>3, <1>4

\* Every statement of a transaction keeps the types.
LEMMA StepType == ASSUME TypeOK, LockInv, NEW t \in Txs, Step(t) \/ Rollback(t) PROVE TypeOK'
<1>1. CASE Refuse(t)
  BY <1>1, EndType DEF Refuse, TypeOK
<1>2. CASE Insert(t)
  <2>1. tx[t] \in DayTx
    BY <1>2, OpType DEF Insert, At, DayOps
  <2>2. [tx[t] EXCEPT !.phase = "written"] \in DayTx
    BY <2>1 DEF DayTx
  <2>3. QED
    BY <1>1, <1>2, <2>1, <2>2 DEF Insert, Goto, TypeOK, DayTx
<1>3. CASE LockById(t)
  <2>1. tx[t] \in DayTx /\ tx[t].op \in DayOps \ {"declare"}
    BY <1>3, OpType DEF LockById, Awaits, At
  <2>2. rec[tx[t].day] \in Handover
    BY <1>3, <2>1 DEF LockInv, DayHeld, TypeOK, DayTx, LockById, Awaits, At
  <2>3. [tx[t] EXCEPT !.phase = "written", !.read = rec[tx[t].day]] \in DayTx
    BY <2>1, <2>2 DEF DayTx
  <2>4. QED
    BY <1>1, <1>3, <2>1, <2>3 DEF LockById, Keep, TypeOK, DayTx
<1>4. CASE CommitDeclare(t) \/ CommitAmend(t) \/ CommitAnswer(t) \/ CommitReopen(t)
  <2>1. /\ tx[t].day \in Days /\ rec'[tx[t].day] \in Handover
        /\ \A d \in Days \ {tx[t].day} : rec'[d] = rec[d]
    BY <1>4, RowDone DEF DayTx
  <2>2. rec' \in [Days -> Handover \cup {None}] /\ comp' = comp /\ End(t)
    BY <1>4, <2>1 DEF CommitDeclare, CommitAmend, CommitAnswer, CommitReopen, TypeOK
  <2>3. audit' \subseteq Entry
    <3>1. CASE UNCHANGED audit
      BY <3>1 DEF TypeOK
    <3>2. CASE CommitAmend(t) \/ CommitReopen(t)
      <4>1. ~CommitDeclare(t)
        BY <3>2 DEF CommitAmend, CommitReopen, CommitDeclare, At
      <4>2. [of |-> tx[t].day, was |-> tx[t].read] \in Entry
        BY <2>1, <3>2, <4>1, RowDone DEF Entry
      <4>3. QED
        BY <3>2, <4>2 DEF CommitAmend, CommitReopen, Log, TypeOK
    <3>3. QED
      BY <1>4, <3>1, <3>2 DEF CommitDeclare, CommitAnswer
  <2>4. QED
    BY <2>2, <2>3, EndType DEF TypeOK
<1>6. CASE LockCompletion(t)
  <2>1. tx[t] \in JobTx /\ comp[tx[t].job] \in Completion
    BY <1>6, OpType DEF LockCompletion, At, LockInv, JobHeld, TypeOK, JobTx
  <2>2. [tx[t] EXCEPT !.phase = "held", !.read = comp[tx[t].job]] \in JobTx
    BY <2>1 DEF JobTx
  <2>3. QED
    BY <1>1, <1>6, <2>1, <2>2 DEF LockCompletion, Keep, TypeOK, JobTx
<1>7. CASE Probe(t)
  <2>1. tx[t] \in JobTx
    BY <1>7, OpType DEF Probe, At
  <2>2. [tx[t] EXCEPT !.phase = "probed"] \in JobTx
    BY <2>1 DEF JobTx
  <2>3. QED
    BY <1>1, <1>7, <2>2 DEF Probe, Goto, TypeOK
<1>8. CASE CommitCorrection(t)
  <2>1. /\ tx[t] \in JobTx /\ comp[tx[t].job] \in Completion
        /\ comp[tx[t].job].version < MaxVersion /\ tx[t].read = comp[tx[t].job]
    BY <1>8, OpType DEF CommitCorrection, At, LockInv, JobHeld, TypeOK, JobTx
  <2> DEFINE s == [comp[tx[t].job] EXCEPT !.cash = tx[t].amount]
  <2>5. s \in Completion /\ s.version < MaxVersion
    BY <2>1 DEF Completion, JobTx
  <2>2. Bump(s) \in Completion
    BY <2>5, BumpType
  <2>3. comp' \in [Jobs -> Completion \cup {None}] /\ audit' \subseteq Entry
    BY <1>8, <2>1, <2>2 DEF CommitCorrection, Log, TypeOK, Entry, JobTx
  <2>4. QED
    BY <1>8, <2>3, EndType DEF CommitCorrection, TypeOK
<1>9. QED
  BY <1>1, <1>2, <1>3, <1>4, <1>6, <1>7, <1>8 DEF Step, Rollback

-----------------------------------------------------------------------------
(* The locks. *)

\* Nothing is held at the start.
LEMMA InitLock == Init => TypeOK /\ LockInv
  BY CashAssumption DEF Init, TypeOK, LockInv, DayHeld, JobHeld

\* A request arriving holds nothing yet, and the rows it names are there.
LEMMA ArrivalLock == ASSUME TypeOK, LockInv, Arrival PROVE LockInv'
<1>1. ASSUME NEW t \in Txs, NEW op \in DayOps, NEW d \in Days, NEW m \in Amounts,
             NEW v \in 1 .. MaxVersion, Ask(t, op, d, m, v), NEW u \in Txs
      PROVE  DayHeld(u)' /\ JobHeld(u)'
  <2>1. CASE u = t
    BY <1>1, <2>1 DEF Ask, TypeOK, DayHeld, JobHeld, DayOps
  <2>2. CASE u # t
    <3>1. tx'[u] = tx[u]
      BY <1>1, <2>2 DEF Ask, TypeOK
    <3>2. QED
      BY <1>1, <3>1 DEF Ask, LockInv, DayHeld, JobHeld, Decide, Allowed
  <2>3. QED
    BY <2>1, <2>2
<1>2. ASSUME NEW t \in Txs, NEW j \in Jobs, NEW m \in Amounts, AskCorrection(t, j, m),
             NEW u \in Txs
      PROVE  DayHeld(u)' /\ JobHeld(u)'
  <2>1. CASE u = t
    BY <1>2, <2>1 DEF AskCorrection, TypeOK, DayHeld, JobHeld, DayOps
  <2>2. CASE u # t
    <3>1. tx'[u] = tx[u]
      BY <1>2, <2>2 DEF AskCorrection, TypeOK
    <3>2. QED
      BY <1>2, <3>1 DEF AskCorrection, LockInv, DayHeld, JobHeld, Decide, Allowed
  <2>3. QED
    BY <2>1, <2>2
<1>3. ASSUME NEW j \in Jobs, NEW d \in Days, NEW m \in Amounts, Complete(j, d, m),
             NEW u \in Txs
      PROVE  DayHeld(u)' /\ JobHeld(u)'
  <2>1. DayHeld(u)'
    BY <1>3 DEF Complete, LockInv, DayHeld, Decide, Allowed
  <2>2. JobHeld(u)'
    <3>1. comp' = [comp EXCEPT ![j] = [day |-> d, cash |-> m, version |-> 1]] /\ comp[j] = None
      BY <1>3 DEF Complete
    <3>2. [day |-> d, cash |-> m, version |-> 1] # None
      BY CashAssumption DEF Completion
    <3>3. CASE tx[u] # None /\ tx[u].op = "correct"
      <4>1. tx[u].job \in Jobs /\ tx[u].job # j
        BY <3>1, <3>3, OpType DEF LockInv, JobHeld, JobTx
      <4>2. comp'[tx[u].job] = comp[tx[u].job]
        BY <3>1, <4>1 DEF TypeOK
      <4>3. QED
        BY <1>3, <3>3, <4>2 DEF Complete, LockInv, JobHeld
    <3>4. QED
      BY <1>3, <3>3 DEF Complete, JobHeld
  <2>3. QED
    BY <2>1, <2>2
<1>4. QED
  BY <1>1, <1>2, <1>3 DEF Arrival, LockInv

\* The end of a transaction that leaves the rows alone takes no other's lock.
LEMMA RefuseLock ==
  ASSUME TypeOK, LockInv, NEW t \in Txs, Refuse(t)
  PROVE  LockInv'
<1>1. SUFFICES ASSUME NEW u \in Txs PROVE DayHeld(u)' /\ JobHeld(u)'
  BY DEF LockInv
<1>2. CASE u = t
  BY <1>2 DEF Refuse, End, TypeOK, DayHeld, JobHeld
<1>3. CASE u # t
  <2>1. tx'[u] = tx[u]
    BY <1>3 DEF Refuse, End, TypeOK
  <2>2. DayHeld(u)'
    BY <1>3, <2>1, OpType DEF Refuse, End, LockInv, DayHeld, Decide, Allowed, DayTx
  <2>3. JobHeld(u)'
    BY <1>3, <2>1, OpType DEF Refuse, End, LockInv, JobHeld, JobTx
  <2>4. QED
    BY <2>2, <2>3
<1>4. QED
  BY <1>2, <1>3

\* What a statement under the lock leaves of its transaction.
LEMMA KeepEffect ==
  ASSUME TypeOK, NEW t \in Txs, tx[t] # None, NEW p, NEW r, Keep(t, p, r)
  PROVE  /\ tx'[t].op = tx[t].op /\ tx'[t].phase = p /\ tx'[t].read = r
         /\ tx[t] \in DayTx => tx'[t].day = tx[t].day /\ tx'[t].ifMatch = tx[t].ifMatch
         /\ tx[t] \in JobTx => tx'[t].job = tx[t].job
<1>1. tx'[t] = [tx[t] EXCEPT !.phase = p, !.read = r]
  BY DEF Keep, TypeOK
<1>2. CASE tx[t] \in DayTx
  <2>1. tx[t] \notin JobTx
    BY <1>2 DEF DayTx, JobTx, DayOps
  <2>2. QED
    BY <1>1, <1>2, <2>1 DEF DayTx
<1>3. CASE tx[t] \in JobTx
  <2>1. tx[t] \notin DayTx
    BY <1>3 DEF DayTx, JobTx, DayOps
  <2>2. QED
    BY <1>1, <1>3, <2>1 DEF JobTx
<1>4. QED
  BY <1>2, <1>3 DEF TypeOK

\* A transaction that waits takes a row nobody holds.
LEMMA TakeLock ==
  ASSUME TypeOK, LockInv, NEW t \in Txs,
         Insert(t) \/ LockById(t) \/ LockCompletion(t) \/ Probe(t)
  PROVE  LockInv'
<1>1. SUFFICES ASSUME ~Refuse(t), NEW u \in Txs PROVE DayHeld(u)' /\ JobHeld(u)'
  BY RefuseLock DEF LockInv
<1>2. UNCHANGED <<rec, comp>>
  BY <1>1 DEF Insert, LockById, LockCompletion, Probe
<1>3. CASE u # t
  <2>1. tx'[u] = tx[u]
    BY <1>1, <1>3 DEF Insert, LockById, LockCompletion, Probe, Goto, Keep, TypeOK
  <2>2. DayHeld(u)'
    <3>1. CASE tx[u] # None /\ tx[u].op \in DayOps /\ tx[u].phase = "written"
      <4>1. recLock[tx[u].day] = u /\ u # None /\ tx[u].day \in Days
        BY <3>1, OpType, CashAssumption DEF LockInv, DayHeld, DayTx
      <4>2. recLock'[tx[u].day] = u
        BY <1>1, <1>3, <4>1 DEF Insert, LockById, LockCompletion, Probe, TypeOK
      <4>3. QED
        BY <1>2, <2>1, <3>1, <4>2 DEF LockInv, DayHeld, Decide, Allowed
    <3>2. QED
      BY <1>2, <2>1, <3>1 DEF LockInv, DayHeld
  <2>3. JobHeld(u)'
    <3>1. CASE tx[u] # None /\ tx[u].op = "correct" /\ tx[u].phase # "asked"
      <4>1. compLock[tx[u].job] = u /\ u # None /\ tx[u].job \in Jobs
        BY <3>1, OpType, CashAssumption DEF LockInv, JobHeld, JobTx
      <4>2. compLock'[tx[u].job] = u
        BY <1>1, <1>3, <4>1 DEF Insert, LockById, LockCompletion, Probe, TypeOK
      <4>3. QED
        BY <1>2, <2>1, <3>1, <4>2 DEF LockInv, JobHeld
    <3>2. QED
      BY <1>2, <2>1, <3>1 DEF LockInv, JobHeld
  <2>4. QED
    BY <2>2, <2>3
<1>4. CASE u = t /\ Insert(t)
  <2>1. /\ tx[t] \in DayTx /\ tx[t].op = "declare"
        /\ tx' = [tx EXCEPT ![t].phase = "written"]
        /\ recLock' = [recLock EXCEPT ![tx[t].day] = t] /\ rec[tx[t].day] = None
    BY <1>1, <1>4, OpType DEF Insert, At, Goto, DayOps
  <2>2. /\ tx'[t] = [tx[t] EXCEPT !.phase = "written"] /\ tx[t].day \in Days
        /\ recLock'[tx[t].day] = t
    BY <2>1 DEF TypeOK, DayTx
  <2>3. tx'[t].op = "declare" /\ tx'[t].day = tx[t].day
    BY <2>1, <2>2 DEF DayTx
  <2>4. QED
    BY <1>2, <1>4, <2>1, <2>2, <2>3 DEF DayHeld, JobHeld
<1>5. CASE u = t /\ LockById(t)
  <2>1. /\ tx[t] \in DayTx /\ tx[t].op \in DayOps \ {"declare"} /\ Decide(t)
        /\ Keep(t, "written", rec[tx[t].day])
        /\ recLock' = [recLock EXCEPT ![tx[t].day] = t] /\ rec[tx[t].day] # None
    BY <1>1, <1>5, OpType DEF LockById, Awaits, At, LockInv, DayHeld
  <2>2. tx[t].day \in Days /\ recLock'[tx[t].day] = t
    BY <2>1 DEF TypeOK, DayTx
  <2>3. /\ tx'[t].op = tx[t].op /\ tx'[t].day = tx[t].day /\ tx'[t].ifMatch = tx[t].ifMatch
        /\ tx'[t].read = rec[tx[t].day]
    BY <2>1, KeepEffect, CashAssumption
  <2>4. Decide(t)'
    BY <1>2, <2>1, <2>3 DEF Decide, Allowed
  <2>5. QED
    BY <1>2, <1>5, <2>1, <2>2, <2>3, <2>4 DEF DayHeld, JobHeld, DayOps
<1>6. CASE u = t /\ LockCompletion(t)
  <2>1. /\ tx[t] \in JobTx /\ tx[t].op = "correct" /\ comp[tx[t].job] # None
        /\ comp[tx[t].job].version < MaxVersion
        /\ Keep(t, "held", comp[tx[t].job])
        /\ compLock' = [compLock EXCEPT ![tx[t].job] = t]
    BY <1>1, <1>6, OpType DEF LockCompletion, At, LockInv, JobHeld
  <2>2. tx[t].job \in Jobs /\ compLock'[tx[t].job] = t
    BY <2>1 DEF TypeOK, JobTx
  <2>3. /\ tx'[t].op = "correct" /\ tx'[t].job = tx[t].job /\ tx'[t].read = comp[tx[t].job]
    BY <2>1, KeepEffect, CashAssumption
  <2>4. QED
    BY <1>2, <1>6, <2>1, <2>2, <2>3 DEF DayHeld, JobHeld, DayOps
<1>7. CASE u = t /\ Probe(t)
  <2>1. /\ tx[t] \in JobTx /\ tx[t].op = "correct" /\ tx[t].phase = "held"
        /\ tx' = [tx EXCEPT ![t].phase = "probed"] /\ UNCHANGED compLock
    BY <1>1, <1>7, OpType DEF Probe, At, Goto
  <2>2. tx'[t] = [tx[t] EXCEPT !.phase = "probed"]
    BY <2>1 DEF TypeOK
  <2>3. /\ tx'[t].op = "correct" /\ tx'[t].job = tx[t].job /\ tx'[t].read = tx[t].read
    BY <2>1, <2>2 DEF JobTx
  <2>4. tx[t] # None /\ JobHeld(t)
    BY <2>1, CashAssumption DEF LockInv
  <2>5. JobHeld(t)'
    BY <1>2, <2>1, <2>3, <2>4 DEF JobHeld
  <2>6. DayHeld(t)'
    BY <2>3 DEF DayHeld, DayOps
  <2>7. QED
    BY <1>7, <2>5, <2>6
<1>8. QED
  BY <1>1, <1>3, <1>4, <1>5, <1>6, <1>7

\* A COMMIT leaves every other transaction the row it holds.
LEMMA CommitLock ==
  ASSUME TypeOK, LockInv, NEW t \in Txs,
         CommitDeclare(t) \/ CommitAmend(t) \/ CommitAnswer(t) \/ CommitReopen(t)
           \/ CommitCorrection(t)
  PROVE  LockInv'
<1>1. SUFFICES ASSUME NEW u \in Txs PROVE DayHeld(u)' /\ JobHeld(u)'
  BY DEF LockInv
<1>2. End(t) /\ tx[t] # None
  BY DEF CommitDeclare, CommitAmend, CommitAnswer, CommitReopen, CommitCorrection, At
<1>3. CASE u = t
  BY <1>2, <1>3 DEF End, TypeOK, DayHeld, JobHeld
<1>4. CASE u # t
  <2>1. tx'[u] = tx[u]
    BY <1>2, <1>4 DEF End, TypeOK
  <2>2. CASE CommitCorrection(t)
    <3>1. /\ UNCHANGED rec /\ tx[t] \in JobTx /\ compLock[tx[t].job] = t
          /\ comp' = [comp EXCEPT ![tx[t].job] = Bump([@ EXCEPT !.cash = tx[t].amount])]
      BY <2>2, OpType DEF CommitCorrection, At, LockInv, JobHeld
    <3>2. DayHeld(u)'
      BY <1>2, <1>4, <2>1, <3>1, OpType DEF End, LockInv, DayHeld, Decide, Allowed, DayTx
    <3>3. JobHeld(u)'
      <4>1. SUFFICES ASSUME tx[u] # None, tx[u].op = "correct" PROVE JobHeld(u)'
        BY <2>1 DEF JobHeld
      <4>2. tx[u].job \in Jobs /\ comp[tx[u].job] # None /\ comp[tx[u].job] \in Completion
        BY <4>1, OpType DEF JobTx, LockInv, JobHeld, TypeOK
      <4>3. CASE tx[u].job = tx[t].job
        <5>1. tx[u].phase = "asked"
          BY <1>4, <3>1, <4>1, <4>3 DEF LockInv, JobHeld
        <5>2. comp'[tx[u].job] # None
          <6>1. comp'[tx[u].job] = Bump([comp[tx[u].job] EXCEPT !.cash = tx[t].amount])
            BY <3>1, <4>2, <4>3 DEF TypeOK
          <6>2. comp[tx[u].job].version < MaxVersion
            BY <2>2, <3>1, <4>3 DEF LockInv, JobHeld, CommitCorrection, At
          <6>3. /\ [comp[tx[u].job] EXCEPT !.cash = tx[t].amount] \in Completion
                /\ [comp[tx[u].job] EXCEPT !.cash = tx[t].amount].version < MaxVersion
            BY <3>1, <4>2, <6>2 DEF Completion, JobTx
          <6>4. QED
            BY <6>1, <6>3, BumpType, CashAssumption
        <5>3. QED
          BY <2>1, <4>1, <5>1, <5>2 DEF JobHeld
      <4>4. CASE tx[u].job # tx[t].job
        <5>1. comp'[tx[u].job] = comp[tx[u].job]
          BY <3>1, <4>2, <4>4 DEF TypeOK
        <5>2. QED
          BY <1>2, <1>4, <2>1, <4>1, <4>2, <5>1 DEF End, LockInv, JobHeld
      <4>5. QED
        BY <4>3, <4>4
    <3>4. QED
      BY <3>2, <3>3
  <2>3. CASE CommitDeclare(t) \/ CommitAmend(t) \/ CommitAnswer(t) \/ CommitReopen(t)
    <3>1. /\ UNCHANGED comp /\ tx[t] \in DayTx /\ recLock[tx[t].day] = t
          /\ \A d \in Days \ {tx[t].day} : rec'[d] = rec[d]
      BY <2>3, OpType DEF CommitDeclare, CommitAmend, CommitAnswer, CommitReopen, At, LockInv,
         DayHeld, DayOps, TypeOK
    <3>2. JobHeld(u)'
      BY <1>2, <1>4, <2>1, <3>1, OpType DEF End, LockInv, JobHeld, JobTx
    <3>3. rec'[tx[t].day] # None
      BY <2>3, RowDone, CashAssumption
    <3>4. DayHeld(u)'
      <4>1. SUFFICES ASSUME tx[u] # None, tx[u].op \in DayOps PROVE DayHeld(u)'
        BY <2>1 DEF DayHeld
      <4>2. tx[u].day \in Days
        BY <4>1, OpType DEF DayTx
      <4>3. CASE tx[u].day = tx[t].day
        BY <1>4, <2>1, <3>1, <3>3, <4>1, <4>3 DEF LockInv, DayHeld
      <4>4. CASE tx[u].day # tx[t].day
        <5>1. rec'[tx[u].day] = rec[tx[u].day]
          BY <3>1, <4>2, <4>4
        <5>2. QED
          BY <1>2, <1>4, <2>1, <4>1, <4>2, <5>1 DEF End, LockInv, DayHeld, Decide, Allowed
      <4>5. QED
        BY <4>3, <4>4
    <3>5. QED
      BY <3>2, <3>4
  <2>4. QED
    BY <2>2, <2>3
<1>5. QED
  BY <1>3, <1>4

\* Every step keeps the types and the locks.
LEMMA NextLock == TypeOK /\ LockInv /\ [Next]_vars => TypeOK' /\ LockInv'
<1>1. SUFFICES ASSUME TypeOK, LockInv, [Next]_vars PROVE TypeOK' /\ LockInv'
  OBVIOUS
<1>2. CASE Arrival
  BY <1>1, <1>2, ArrivalType, ArrivalLock
<1>3. ASSUME NEW t \in Txs, Step(t) \/ Rollback(t) PROVE TypeOK' /\ LockInv'
  <2>1. TypeOK'
    BY <1>1, <1>3, StepType
  <2>2. LockInv'
    BY <1>1, <1>3, RefuseLock, TakeLock, CommitLock DEF Step, Rollback
  <2>3. QED
    BY <2>1, <2>2
<1>4. CASE UNCHANGED vars
  BY <1>1, <1>4 DEF vars, TypeOK, LockInv, DayHeld, JobHeld, Decide, Allowed
<1>5. QED
  BY <1>1, <1>2, <1>3, <1>4 DEF Next

\* The types and the locks hold in every reachable state.
LEMMA Reachable == Spec => [](TypeOK /\ LockInv)
<1>1. Init => TypeOK /\ LockInv
  BY InitLock
<1>2. TypeOK /\ LockInv /\ [Next]_vars => (TypeOK /\ LockInv)'
  BY NextLock
<1>3. QED
  BY <1>1, <1>2, PTL DEF Spec

\* The rows, the locks and the transactions of the handover stay well typed.
THEOREM TypeCorrect == Spec => []TypeOK
<1>1. TypeOK /\ LockInv => TypeOK
  OBVIOUS
<1>2. QED
  BY <1>1, Reachable, PTL

-----------------------------------------------------------------------------
(* What the locks give. *)

\* Only a COMMIT changes a row, and the first insert of a completion.
LEMMA WhoWrites ==
  ASSUME [Next]_vars
  PROVE  /\ rec' # rec => \E t \in Txs : CommitDeclare(t) \/ CommitAmend(t)
                                          \/ CommitAnswer(t) \/ CommitReopen(t)
         /\ comp' # comp => \/ \E t \in Txs : CommitCorrection(t)
                           \/ \E j \in Jobs, d \in Days, m \in Amounts : Complete(j, d, m)
  BY DEF Next, Arrival, Step, Rollback, Refuse, Ask, AskCorrection, Complete, Insert, LockById,
     LockCompletion, Probe, CommitDeclare, CommitAmend, CommitAnswer, CommitReopen,
     CommitCorrection, vars

\* What becomes of a row that was there: it is amended, answered or reopened, and the
\* operation was allowed on the row that is replaced.
LEMMA RowMoves ==
  ASSUME TypeOK, LockInv, [Next]_vars, NEW d \in Days, rec[d] # None, rec'[d] # rec[d]
  PROVE  \E t \in Txs :
            /\ tx[t].day = d /\ tx[t].read = rec[d] /\ rec[d] \in Handover
            /\ \/ /\ CommitAmend(t) /\ rec[d].status = "submitted"
                  /\ rec'[d].status = "submitted" /\ rec'[d].confirmed = rec[d].confirmed
               \/ /\ CommitAnswer(t) /\ rec[d].status = "submitted"
                  /\ rec'[d].declared = rec[d].declared
                  /\ \/ rec'[d].status = "disputed"
                     \/ rec'[d].status = "confirmed" /\ rec'[d].confirmed \in Amounts
               \/ /\ CommitReopen(t) /\ rec'[d].declared = rec[d].declared
                  /\ rec'[d].status = "submitted" /\ rec'[d].confirmed = None
<1>1. PICK t \in Txs : CommitDeclare(t) \/ CommitAmend(t) \/ CommitAnswer(t) \/ CommitReopen(t)
  BY WhoWrites
<1>2. tx[t].day = d /\ ~CommitDeclare(t)
  BY <1>1, RowDone
<1>3. rec[d] \in Handover /\ tx[t].read = rec[d] /\ Allowed(rec[d], tx[t]) /\ tx[t] \in DayTx
  BY <1>1, <1>2, RowDone DEF Decide
<1>4. CASE CommitAmend(t)
  <2>1. rec[d].status = "submitted" /\ rec'[d] = Amended(rec[d], tx[t])
    BY <1>2, <1>3, <1>4 DEF CommitAmend, At, Allowed, TypeOK
  <2>2. rec'[d].status = rec[d].status /\ rec'[d].confirmed = rec[d].confirmed
    BY <1>3, <2>1 DEF Handover, Amended, Bump
  <2>3. QED
    BY <1>2, <1>3, <1>4, <2>1, <2>2
<1>5. CASE CommitAnswer(t)
  <2>1. rec[d].status = "submitted" /\ tx[t].amount \in Amounts
    BY <1>3, <1>5 DEF CommitAnswer, At, Allowed, DayTx
  <2>2. CASE rec'[d] = Confirmed(rec[d], tx[t])
    <3>1. /\ rec'[d].declared = rec[d].declared /\ rec'[d].status = "confirmed"
          /\ rec'[d].confirmed = tx[t].amount
      BY <1>3, <2>2 DEF Handover, Confirmed, Bump
    <3>2. QED
      BY <1>2, <1>3, <1>5, <2>1, <3>1
  <2>3. CASE rec'[d] = Disputed(rec[d])
    <3>1. rec'[d].declared = rec[d].declared /\ rec'[d].status = "disputed"
      BY <1>3, <2>3 DEF Handover, Disputed, Bump
    <3>2. QED
      BY <1>2, <1>3, <1>5, <2>1, <3>1
  <2>4. QED
    BY <1>2, <1>5, <2>2, <2>3 DEF CommitAnswer, TypeOK
<1>6. CASE CommitReopen(t)
  <2>1. rec'[d] = Reopened(rec[d])
    BY <1>2, <1>6 DEF CommitReopen, TypeOK
  <2>2. /\ rec'[d].declared = rec[d].declared /\ rec'[d].status = "submitted"
        /\ rec'[d].confirmed = None
    BY <1>3, <2>1 DEF Handover, Reopened, Bump
  <2>3. QED
    BY <1>2, <1>3, <1>6, <2>2
<1>7. QED
  BY <1>1, <1>2, <1>4, <1>5, <1>6

\* An answered day is frozen until it is reopened, for any number of racing operations.
THEOREM AnswerStandsCorrect == Spec => AnswerStands
<1> DEFINE Frozen == \A d \in Days :
                        (rec[d] # None /\ rec[d].status # "submitted" /\ rec'[d] # rec[d]) =>
                           /\ rec'[d].status = "submitted"
                           /\ rec'[d].declared = rec[d].declared
                           /\ rec'[d].confirmed = None
<1>1. ASSUME TypeOK, LockInv, [Next]_vars, NEW d \in Days,
             rec[d] # None, rec[d].status # "submitted", rec'[d] # rec[d]
      PROVE  /\ rec'[d].status = "submitted" /\ rec'[d].declared = rec[d].declared
             /\ rec'[d].confirmed = None
  BY <1>1, RowMoves
<1>2. TypeOK /\ LockInv /\ [Next]_vars => Frozen
  BY <1>1
<1>3. QED
  BY <1>2, Reachable, PTL DEF Spec, AnswerStands

\* The trail holds every figure that no longer stands.
THEOREM TrailCorrect == Spec => TrailKeepsFigures
<1> DEFINE Moved(d) == rec[d] # None /\ (rec'[d].declared # rec[d].declared
                                          \/ (rec[d].status # "submitted" /\ rec'[d] # rec[d]))
           Trail == /\ \A d \in Days : Moved(d) => [of |-> d, was |-> rec[d]] \in audit'
                    /\ \A j \in Jobs :
                         (comp[j] # None /\ comp'[j] # comp[j])
                            => [of |-> j, was |-> comp[j]] \in audit'
                    /\ audit \subseteq audit'
<1>1. ASSUME TypeOK, LockInv, [Next]_vars, NEW d \in Days, Moved(d)
      PROVE  [of |-> d, was |-> rec[d]] \in audit'
  <2>1. PICK t \in Txs : /\ tx[t].day = d /\ tx[t].read = rec[d]
                         /\ CommitAmend(t) \/ CommitReopen(t)
    BY <1>1, RowMoves
  <2>2. QED
    BY <2>1 DEF CommitAmend, CommitReopen, Log
<1>2. ASSUME TypeOK, LockInv, [Next]_vars, NEW j \in Jobs, comp[j] # None, comp'[j] # comp[j]
      PROVE  [of |-> j, was |-> comp[j]] \in audit'
  <2>1. ~ \E i \in Jobs, d \in Days, m \in Amounts : Complete(i, d, m)
    BY <1>2 DEF Complete, TypeOK
  <2>2. PICK t \in Txs : CommitCorrection(t)
    BY <1>2, <2>1, WhoWrites
  <2>3. tx[t].job = j /\ tx[t].read = comp[tx[t].job]
    BY <1>2, <2>2, OpType DEF CommitCorrection, TypeOK, At, LockInv, JobHeld
  <2>4. QED
    BY <2>2, <2>3 DEF CommitCorrection, Log
<1>3. ASSUME [Next]_vars PROVE audit \subseteq audit'
  BY <1>3 DEF Next, Arrival, Step, Rollback, Refuse, Ask, AskCorrection, Complete, Insert, LockById,
     LockCompletion, Probe, CommitDeclare, CommitAmend, CommitAnswer, CommitReopen,
     CommitCorrection, Log, vars
<1>4. TypeOK /\ LockInv /\ [Next]_vars => Trail
  BY <1>1, <1>2, <1>3
<1>5. QED
  BY <1>4, Reachable, PTL DEF Spec, TrailKeepsFigures

\* An amendment that commits was made on the version its sender saw.
THEOREM AmendCorrect == Spec => AmendsWhatWasSeen
<1>1. ASSUME LockInv, NEW t \in Txs, At(t, "amend", "written")
      PROVE  rec[tx[t].day].version = tx[t].ifMatch
  BY <1>1 DEF LockInv, DayHeld, At, Decide, Allowed, DayOps
<1>2. LockInv => \A t \in Txs : At(t, "amend", "written") => rec[tx[t].day].version = tx[t].ifMatch
  BY <1>1
<1>3. LockInv => [\A t \in Txs :
                     (At(t, "amend", "written") /\ rec' # rec /\ tx'[t] = None)
                        => rec[tx[t].day].version = tx[t].ifMatch]_vars
  BY <1>2
<1>4. QED
  BY <1>3, Reachable, PTL DEF AmendsWhatWasSeen

\* A row carries the owner's figure exactly as long as his answer stands.
THEOREM OpenCorrect == Spec => []OpenMeansUnanswered
<1>1. Init => OpenMeansUnanswered
  BY DEF Init, OpenMeansUnanswered
<1>2. ASSUME TypeOK, LockInv, OpenMeansUnanswered, [Next]_vars, NEW d \in Days, rec'[d] # None
      PROVE  /\ rec'[d].status = "submitted" => rec'[d].confirmed = None
             /\ rec'[d].status = "confirmed" => rec'[d].confirmed # None
  <2>1. CASE rec'[d] = rec[d]
    BY <1>2, <2>1 DEF OpenMeansUnanswered
  <2>2. CASE rec[d] # None /\ rec'[d] # rec[d]
    BY <1>2, <2>2, RowMoves, CashAssumption DEF OpenMeansUnanswered
  <2>3. CASE rec[d] = None
    <3>1. PICK t \in Txs : CommitDeclare(t) \/ CommitAmend(t) \/ CommitAnswer(t) \/ CommitReopen(t)
      BY <1>2, <2>3, WhoWrites
    <3>2. tx[t].day = d /\ CommitDeclare(t)
      BY <1>2, <2>3, <3>1, RowDone, CashAssumption
    <3>3. QED
      BY <1>2, <3>2 DEF CommitDeclare, TypeOK
  <2>4. QED
    BY <2>1, <2>2, <2>3
<1>3. TypeOK /\ LockInv /\ OpenMeansUnanswered /\ [Next]_vars => OpenMeansUnanswered'
  BY <1>2 DEF OpenMeansUnanswered
<1>4. QED
  BY <1>1, <1>3, Reachable, PTL DEF Spec
=============================================================================

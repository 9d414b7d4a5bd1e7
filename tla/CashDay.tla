------------------------------ MODULE CashDay ------------------------------
(***************************************************************************)
(* The daily cash handover: an employee declares what he hands over for a  *)
(* day and may correct it, the owner confirms, disputes or reopens it      *)
(* (apps/api/src/modules/cash), and corrects the completions that feed the *)
(* day's expected figure (amendCompletion in modules/jobs).                *)
(*                                                                         *)
(* Every operation is a READ COMMITTED transaction on one row of           *)
(* cash_reconciliations, or of job_completions: it takes the row with      *)
(* SELECT ... FOR UPDATE, decides on what it read, writes, and commits or  *)
(* is lost.  Transactions interleave statement by statement.  A day here   *)
(* stands for the pair (employee_id, business_date).                       *)
(***************************************************************************)
EXTENDS Integers

CONSTANTS
  Days,       \* employee-days
  Jobs,       \* job cards
  Txs,        \* slots for transactions in progress
  Amounts,    \* money
  None,
  MaxVersion  \* bound: version of a row

VARIABLES
  rec,        \* rec[d]: the committed row of cash_reconciliations, or None
  comp,       \* comp[j]: the committed row of job_completions, or None
  recLock,    \* recLock[d]: the transaction that holds the row, or inserts it
  compLock,   \* compLock[j]: the transaction that holds the row
  tx,         \* tx[t]: the operation t runs
  audit       \* audit_log, and the completion_amended events

vars == <<rec, comp, recLock, compLock, tx, audit>>

Statuses == {"submitted", "confirmed", "disputed"}
Handover == [status : Statuses, declared : Amounts, confirmed : Amounts \cup {None},
             version : 1 .. MaxVersion]
Completion == [day : Days, cash : Amounts, version : 1 .. MaxVersion]

\* The operations on a handover.
DayOps == {"declare", "amend", "confirm", "dispute", "reopen"}

\* An operation in progress: what was asked, how far it is, and the row it read under
\* the lock.  amendCompletion works on a job, the others on a day.
DayTx == [op : DayOps, phase : {"asked", "written"}, day : Days, amount : Amounts,
          ifMatch : 1 .. MaxVersion, read : Handover \cup {None}]
JobTx == [op : {"correct"}, phase : {"asked", "held", "probed"}, job : Jobs,
          amount : Amounts, read : Completion \cup {None}]

\* An audit row: the day or the job, and the row whose figures no longer stand.
Entry == [of : Days \cup Jobs, was : Handover \cup Completion]

ASSUME CashAssumption ==
  /\ MaxVersion \in Nat \ {0}
  /\ None \notin Txs \cup Amounts
  /\ None \notin Handover /\ None \notin Completion
  /\ None \notin DayTx /\ None \notin JobTx

TypeOK ==
  /\ rec \in [Days -> Handover \cup {None}]
  /\ comp \in [Jobs -> Completion \cup {None}]
  /\ recLock \in [Days -> Txs \cup {None}]
  /\ compLock \in [Jobs -> Txs \cup {None}]
  /\ tx \in [Txs -> DayTx \cup JobTx \cup {None}]
  /\ audit \subseteq Entry

Init ==
  /\ rec = [d \in Days |-> None] /\ comp = [j \in Jobs |-> None]
  /\ recLock = [d \in Days |-> None] /\ compLock = [j \in Jobs |-> None]
  /\ tx = [t \in Txs |-> None]
  /\ audit = {}

-----------------------------------------------------------------------------
At(t, op, phase) == tx[t] # None /\ tx[t].op = op /\ tx[t].phase = phase
Goto(t, phase) == tx' = [tx EXCEPT ![t].phase = phase]
Keep(t, phase, r) == tx' = [tx EXCEPT ![t].phase = phase, ![t].read = r]

\* The transaction is over: its row locks go with it.
End(t) ==
  /\ tx' = [tx EXCEPT ![t] = None]
  /\ recLock' = [d \in Days |-> IF recLock[d] = t THEN None ELSE recLock[d]]
  /\ compLock' = [j \in Jobs |-> IF compLock[j] = t THEN None ELSE compLock[j]]

\* Mutant: the connection goes back to the pool with its transaction open.
Refuse_Leaks(t) == tx' = [tx EXCEPT ![t] = None] /\ UNCHANGED <<rec, comp, recLock, compLock, audit>>

\* A refusal throws: ROLLBACK.
Refuse(t) == End(t) /\ UNCHANGED <<rec, comp, audit>>

\* A request arrives.  An amendment carries the version its sender last read, which
\* may be any version the row has had; the others carry none.
Ask(t, op, d, m, v) ==
  /\ tx[t] = None
  /\ op # "declare" => rec[d] # None
  /\ IF op = "amend" THEN v <= rec[d].version ELSE v = 1
  /\ tx' = [tx EXCEPT ![t] = [op |-> op, phase |-> "asked", day |-> d, amount |-> m,
                               ifMatch |-> v, read |-> None]]
  /\ UNCHANGED <<rec, comp, recLock, compLock, audit>>

-----------------------------------------------------------------------------
(* createCashService: declare, amend, confirm, dispute, reopen. *)

\* declare: the unique constraint on (employee_id, business_date) makes a second
\* insert wait for the first, and fail if it commits.
Insert(t) ==
  LET d == tx[t].day IN
  /\ At(t, "declare", "asked") /\ recLock[d] = None
  /\ \/ /\ rec[d] = None
        /\ recLock' = [recLock EXCEPT ![d] = t]
        /\ Goto(t, "written")
        /\ UNCHANGED <<rec, comp, compLock, audit>>
     \/ rec[d] # None /\ Refuse(t)

\* Mutant: the version is compared with the sender's copy of the row only.
Allowed_NoVersion(r, x) ==
  \/ x.op \in {"amend", "confirm", "dispute"} /\ r.status = "submitted"
  \/ x.op = "reopen" /\ r.status # "submitted"

\* Mutant: only a confirmed day is an answered one.
Allowed_Disputed(r, x) ==
  \/ x.op = "amend" /\ r.status # "confirmed" /\ r.version = x.ifMatch
  \/ x.op \in {"confirm", "dispute"} /\ r.status # "confirmed"
  \/ x.op = "reopen" /\ r.status # "submitted"

\* What each operation asks of the row it has locked.
Allowed(r, x) ==
  \/ x.op = "amend" /\ r.status = "submitted" /\ r.version = x.ifMatch
  \/ x.op \in {"confirm", "dispute"} /\ r.status = "submitted"
  \/ x.op = "reopen" /\ r.status # "submitted"

Awaits(t) == \E op \in DayOps \ {"declare"} : At(t, op, "asked")
\* The bound on versions counts as a refusal.
Decide(t) == Allowed(rec[tx[t].day], tx[t]) /\ rec[tx[t].day].version < MaxVersion

\* Mutant: the row is read without FOR UPDATE.
LockById_NoLock(t) ==
  LET d == tx[t].day IN
  /\ Awaits(t)
  /\ \/ /\ Decide(t)
        /\ Keep(t, "written", rec[d])
        /\ UNCHANGED <<rec, comp, recLock, compLock, audit>>
     \/ ~Decide(t) /\ Refuse(t)

\* lockById, the decision on the row it returns, and the UPDATE and the audit row
\* that stay invisible until the commit.
LockById(t) ==
  LET d == tx[t].day IN
  /\ Awaits(t) /\ recLock[d] = None
  /\ \/ /\ Decide(t)
        /\ recLock' = [recLock EXCEPT ![d] = t]
        /\ Keep(t, "written", rec[d])
        /\ UNCHANGED <<rec, comp, compLock, audit>>
     \/ ~Decide(t) /\ Refuse(t)

\* The columns each UPDATE sets; the touch trigger counts it.
Bump(r) == [r EXCEPT !.version = @ + 1]
Amended(r, x)   == Bump([r EXCEPT !.declared = x.amount])
Confirmed(r, x) == Bump([r EXCEPT !.status = "confirmed", !.confirmed = x.amount])
Disputed(r)     == Bump([r EXCEPT !.status = "disputed"])
\* Mutant: the reopen leaves the figure that was signed.
Reopened_Signed(r) == Bump([r EXCEPT !.status = "submitted"])

Reopened(r)     == Bump([r EXCEPT !.status = "submitted", !.confirmed = None])

CommitDeclare(t) ==
  LET x == tx[t] IN
  /\ At(t, "declare", "written")
  /\ rec' = [rec EXCEPT ![x.day] = [status |-> "submitted", declared |-> x.amount,
                                    confirmed |-> None, version |-> 1]]
  /\ End(t) /\ UNCHANGED <<comp, audit>>

\* The figures an UPDATE replaced go to the audit trail as they were read.
Log(k, t) == audit' = audit \cup {[of |-> k, was |-> tx[t].read]}

CommitAmend(t) ==
  LET x == tx[t] IN
  /\ At(t, "amend", "written")
  /\ rec' = [rec EXCEPT ![x.day] = Amended(@, x)] /\ Log(x.day, t)
  /\ End(t) /\ UNCHANGED comp

CommitAnswer(t) ==
  LET x == tx[t] IN
  /\ \/ At(t, "confirm", "written") /\ rec' = [rec EXCEPT ![x.day] = Confirmed(@, x)]
     \/ At(t, "dispute", "written") /\ rec' = [rec EXCEPT ![x.day] = Disputed(@)]
  /\ End(t) /\ UNCHANGED <<comp, audit>>

CommitReopen(t) ==
  LET x == tx[t] IN
  /\ At(t, "reopen", "written")
  /\ rec' = [rec EXCEPT ![x.day] = Reopened(@)] /\ Log(x.day, t)
  /\ End(t) /\ UNCHANGED comp

-----------------------------------------------------------------------------
(* The completions behind the expected figure. *)

\* completeJob files the money row under the job's own lock.  It asks nothing of the
\* day: a completion that syncs late lands on a day that is already signed.
Complete(j, d, m) ==
  /\ comp[j] = None
  /\ comp' = [comp EXCEPT ![j] = [day |-> d, cash |-> m, version |-> 1]]
  /\ UNCHANGED <<rec, recLock, compLock, tx, audit>>

AskCorrection(t, j, m) ==
  /\ tx[t] = None /\ comp[j] # None
  /\ tx' = [tx EXCEPT ![t] = [op |-> "correct", phase |-> "asked", job |-> j,
                               amount |-> m, read |-> None]]
  /\ UNCHANGED <<rec, comp, recLock, compLock, audit>>

\* Mutant: the completion is read without FOR UPDATE.
LockCompletion_NoLock(t) ==
  /\ At(t, "correct", "asked")
  /\ \/ comp[tx[t].job].version < MaxVersion /\ Keep(t, "held", comp[tx[t].job])
     \/ comp[tx[t].job].version = MaxVersion /\ tx' = [tx EXCEPT ![t] = None]
  /\ UNCHANGED <<rec, comp, recLock, compLock, audit>>

\* lockCompletionForAmend.  The bound on versions counts as a refusal.
LockCompletion(t) ==
  LET j == tx[t].job IN
  /\ At(t, "correct", "asked") /\ compLock[j] = None
  /\ \/ /\ comp[j].version < MaxVersion
        /\ compLock' = [compLock EXCEPT ![j] = t]
        /\ Keep(t, "held", comp[j])
        /\ UNCHANGED <<rec, comp, recLock, audit>>
     \/ comp[j].version = MaxVersion /\ Refuse(t)

\* lockCoveringReconciliation: FOR UPDATE of the rows the WHERE selects.  A row whose
\* committed status is not confirmed is not selected, so it is neither locked nor
\* waited for; one that is confirmed is waited for, and read again.
Probe(t) ==
  LET d == tx[t].read.day
      covered == rec[d] # None /\ rec[d].status = "confirmed" IN
  /\ At(t, "correct", "held")
  /\ \/ /\ ~covered
        /\ Goto(t, "probed")
        /\ UNCHANGED <<rec, comp, recLock, compLock, audit>>
     \/ covered /\ recLock[d] = None /\ Refuse(t)

\* The new figures and the completion_amended event with the old ones.
CommitCorrection(t) ==
  LET x == tx[t] IN
  /\ At(t, "correct", "probed")
  /\ comp' = [comp EXCEPT ![x.job] = Bump([@ EXCEPT !.cash = x.amount])]
  /\ Log(x.job, t)
  /\ End(t) /\ UNCHANGED rec

-----------------------------------------------------------------------------
\* The transaction fails before it commits: a lost connection, a failed statement, or
\* the request transaction around it rolling back.
Rollback(t) == tx[t] # None /\ Refuse(t)

Step(t) ==
  \/ Insert(t) \/ LockById(t)
  \/ CommitDeclare(t) \/ CommitAmend(t) \/ CommitAnswer(t) \/ CommitReopen(t)
  \/ LockCompletion(t) \/ Probe(t) \/ CommitCorrection(t)

Arrival ==
  \/ \E t \in Txs, op \in DayOps, d \in Days, m \in Amounts, v \in 1 .. MaxVersion :
       Ask(t, op, d, m, v)
  \/ \E t \in Txs, j \in Jobs, m \in Amounts : AskCorrection(t, j, m)
  \/ \E j \in Jobs, d \in Days, m \in Amounts : Complete(j, d, m)

Next == Arrival \/ \E t \in Txs : Step(t) \/ Rollback(t)

Spec == Init /\ [][Next]_vars

\* A statement that can run does; PostgreSQL queues the waiters of a row, so one that
\* can run again and again gets its turn.
FairSpec == Spec /\ \A t \in Txs : SF_vars(Step(t))

-----------------------------------------------------------------------------
(* Properties. *)

\* An answered day is frozen: while the owner's answer stands, nobody moves the
\* declared or the confirmed figure, answers it again, or skips the reopen, whoever
\* raced him (PLAN-BACKEND.md section 10: "correctable until it is signed off, then it
\* takes a deliberate second action").
AnswerStands ==
  [][\A d \in Days :
       (rec[d] # None /\ rec[d].status # "submitted" /\ rec'[d] # rec[d]) =>
          /\ rec'[d].status = "submitted"
          /\ rec'[d].declared = rec[d].declared
          /\ rec'[d].confirmed = None]_vars

\* An open day never carries a figure of the owner's, and a confirmed one always does.
OpenMeansUnanswered ==
  \A d \in Days : rec[d] # None =>
     /\ rec[d].status = "submitted" => rec[d].confirmed = None
     /\ rec[d].status = "confirmed" => rec[d].confirmed # None

\* Every figure that stopped standing is in the trail exactly as it stood: a declared
\* amount that was amended, an answer that was reopened, a completion that was
\* corrected, however the transactions that replaced them overlapped.
TrailKeepsFigures ==
  [][/\ \A d \in Days :
          (rec[d] # None /\ (rec'[d].declared # rec[d].declared
                               \/ (rec[d].status # "submitted" /\ rec'[d] # rec[d])))
            => [of |-> d, was |-> rec[d]] \in audit'
     /\ \A j \in Jobs :
          (comp[j] # None /\ comp'[j] # comp[j]) => [of |-> j, was |-> comp[j]] \in audit'
     /\ audit \subseteq audit']_vars

\* An amendment replaces the very version its sender saw: a correction made on a stale
\* copy never overwrites another.
AmendsWhatWasSeen ==
  [][\A t \in Txs :
       (At(t, "amend", "written") /\ rec' # rec /\ tx'[t] = None)
          => rec[tx[t].day].version = tx[t].ifMatch]_vars

\* The covering day is locked like the completion, "so a concurrent confirm waits
\* rather than signing a day whose figure is mid-move" (jobs/repo.ts:396-404): no
\* completion is corrected under a day that is signed off.
SignedDayStands ==
  [][\A j \in Jobs :
       (comp[j] # None /\ comp'[j] # comp[j]) =>
          LET d == comp[j].day IN rec[d] = None \/ rec[d].status # "confirmed"]_vars

\* No operation waits for ever: the row locks are taken in an order without a cycle
\* and every path gives them back.
EveryTxEnds == \A t \in Txs : tx[t] # None ~> tx[t] = None
=============================================================================

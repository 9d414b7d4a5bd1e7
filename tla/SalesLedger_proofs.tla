------------------------- MODULE SalesLedger_proofs -------------------------
(***************************************************************************)
(* The numbers of the sales documents have no gap and no repetition, and   *)
(* what is confirmed stands, for any number of cards, payments and         *)
(* operations in progress.  Ledger is inductive: a transaction past its    *)
(* SELECT ... FOR UPDATE holds the row as it was checked, and the one that *)
(* holds a row of sequences has drawn the number that is next.             *)
(***************************************************************************)
EXTENDS SalesLedger, TLAPS

-----------------------------------------------------------------------------
(* Numbered rows. *)

\* What one write does to the numbers of a table: a row that gets one adds it, and a row
\* that keeps what it had changes nothing.
LEMMA OneRow ==
  ASSUME NEW D, NEW f, f = [d \in D |-> f[d]], NEW d \in D, NEW r, r # None,
         NEW g, g = [f EXCEPT ![d] = r]
  PROVE  /\ f[d] # None /\ r.number = f[d].number =>
              Numbered(g) = Numbered(f) /\ NumbersOf(g) = NumbersOf(f)
         /\ f[d] = None /\ r.number = None =>
              Numbered(g) = Numbered(f) /\ NumbersOf(g) = NumbersOf(f)
         /\ (f[d] = None \/ f[d].number = None) /\ r.number # None =>
              Numbered(g) = Numbered(f) \cup {d} /\ NumbersOf(g) = NumbersOf(f) \cup {r.number}
<1>1. DOMAIN f = D /\ DOMAIN g = D /\ g[d] = r /\ \A e \in D \ {d} : g[e] = f[e]
  OBVIOUS
<1>2. ASSUME f[d] # None, r.number = f[d].number
      PROVE  Numbered(g) = Numbered(f) /\ NumbersOf(g) = NumbersOf(f)
  <2>1. \A e \in D : (g[e] # None) = (f[e] # None) /\ (g[e] # None => g[e].number = f[e].number)
    BY <1>1, <1>2
  <2>2. QED
    BY <1>1, <2>1 DEF Numbered, NumbersOf
<1>3. ASSUME f[d] = None, r.number = None
      PROVE  Numbered(g) = Numbered(f) /\ NumbersOf(g) = NumbersOf(f)
  BY <1>1, <1>3 DEF Numbered, NumbersOf
<1>4. ASSUME f[d] = None \/ f[d].number = None, r.number # None
      PROVE  Numbered(g) = Numbered(f) \cup {d} /\ NumbersOf(g) = NumbersOf(f) \cup {r.number}
  <2>1. Numbered(g) = Numbered(f) \cup {d}
    BY <1>1, <1>4 DEF Numbered
  <2>2. NumbersOf(g) = {g[e].number : e \in Numbered(g)} /\ NumbersOf(f) = {f[e].number : e \in Numbered(f)}
    BY DEF Numbered, NumbersOf
  <2>3. d \notin Numbered(f) /\ Numbered(f) \subseteq D
    BY <1>1, <1>4 DEF Numbered
  <2>4. QED
    BY <1>1, <2>1, <2>2, <2>3
<1>5. QED
  BY <1>2, <1>3, <1>4

\* A table whose numbers are 1 .. n, each once.
Counted(f, n) ==
  /\ NumbersOf(f) = 1 .. n
  /\ \A d, e \in Numbered(f) : f[d].number = f[e].number => d = e

\* A write keeps the count, or moves it by one with the next number.
LEMMA CountKept ==
  ASSUME NEW n \in Nat, NEW D, NEW f, f = [d \in D |-> f[d]], NEW d \in D, NEW r, r # None,
         NEW g, g = [f EXCEPT ![d] = r], Counted(f, n)
  PROVE  /\ f[d] # None /\ r.number = f[d].number => Counted(g, n)
         /\ f[d] = None /\ r.number = None => Counted(g, n)
         /\ (f[d] = None \/ f[d].number = None) /\ r.number = n + 1 /\ r.number # None
              => Counted(g, n + 1)
<1>1. g[d] = r /\ \A e \in D \ {d} : g[e] = f[e]
  OBVIOUS
<1>2. Numbered(f) \subseteq D
  BY DEF Numbered
<1>3. ASSUME \/ f[d] # None /\ r.number = f[d].number
             \/ f[d] = None /\ r.number = None
      PROVE  Counted(g, n)
  <2>1. Numbered(g) = Numbered(f) /\ NumbersOf(g) = NumbersOf(f)
    BY <1>3, OneRow
  <2>2. \A e \in Numbered(f) : g[e].number = f[e].number
    BY <1>1, <1>2, <1>3 DEF Numbered
  <2>3. QED
    BY <2>1, <2>2 DEF Counted
<1>4. ASSUME f[d] = None \/ f[d].number = None, r.number = n + 1, r.number # None
      PROVE  Counted(g, n + 1)
  <2>1. Numbered(g) = Numbered(f) \cup {d} /\ NumbersOf(g) = NumbersOf(f) \cup {n + 1}
    BY <1>4, OneRow
  <2>2. \A e \in Numbered(f) : e # d /\ g[e].number = f[e].number /\ f[e].number \in NumbersOf(f)
    BY <1>1, <1>2, <1>4 DEF Numbered, NumbersOf
  <2>3. \A e \in Numbered(f) : g[e].number \in 1 .. n
    BY <2>2 DEF Counted
  <2>4. (1 .. n) \cup {n + 1} = 1 .. n + 1 /\ n + 1 \notin 1 .. n
    OBVIOUS
  <2>5. \A e, h \in Numbered(g) : g[e].number = g[h].number => e = h
    <3>1. g[d].number = n + 1 /\ n + 1 \notin 1 .. n
      BY <1>1, <1>4, <2>4
    <3>2. \A e \in Numbered(f) : e # d /\ g[e].number # g[d].number
      BY <2>2, <2>3, <3>1
    <3>3. \A e, h \in Numbered(f) : g[e].number = g[h].number => e = h
      BY <2>2 DEF Counted
    <3>4. QED
      BY <2>1, <3>2, <3>3
  <2>6. QED
    BY <2>1, <2>4, <2>5 DEF Counted
<1>5. ASSUME f[d] # None /\ r.number = f[d].number PROVE Counted(g, n)
  BY <1>3, <1>5
<1>6. ASSUME f[d] = None /\ r.number = None PROVE Counted(g, n)
  BY <1>3, <1>6
<1>7. QED
  BY <1>4, <1>5, <1>6

\* The gapless ledger, one table at a time.
LEMMA GaplessCounts == Gapless <=> Counted(card, seq["sale"]) /\ Counted(payment, seq["payment"])
  BY DEF Gapless, Counted

-----------------------------------------------------------------------------
(* Types. *)

\* A row whose document the operation is done with, as it leaves it.
LEMMA RowType ==
  ASSUME NEW x \in Tx, NEW r, r = None \/ r \in Card,
         x.op \in {"create"} \cup CardOps, x.op # "create" => r \in Card,
         x.op = "create" => x.lines # None, x.op = "confirm" => x.number # None
  PROVE  Rewritten(x, r) \in Card
<1>1. CASE x.op = "create"
  BY <1>1 DEF Rewritten, Card, Tx
<1>2. ASSUME x.op \in CardOps
      PROVE  /\ r \in Card /\ r.version \in Nat \ {0} /\ r.version + 1 \in Nat \ {0}
             /\ x.lines # None => x.lines \in Contents
             /\ x.number # None => x.number \in Numbers
  BY <1>2 DEF CardOps, Card, Tx
<1>3. CASE x.op = "patch"
  <2>1. Rewritten(x, r) = [r EXCEPT !.lines = IF x.lines = None THEN r.lines ELSE x.lines,
                                    !.version = IF x.fields THEN r.version + 1 ELSE r.version]
    BY <1>3 DEF Rewritten
  <2>2. QED
    BY <1>2, <1>3, <2>1 DEF Card, CardOps
<1>4. CASE x.op = "confirm"
  <2>1. Rewritten(x, r) = [r EXCEPT !.status = "confirmed", !.number = x.number, !.version = r.version + 1]
    BY <1>4 DEF Rewritten
  <2>2. QED
    BY <1>2, <1>4, <2>1 DEF Card, CardOps
<1>5. CASE x.op = "void"
  <2>1. Rewritten(x, r) = [r EXCEPT !.status = "void", !.version = r.version + 1]
    BY <1>5 DEF Rewritten
  <2>2. QED
    BY <1>2, <1>5, <2>1 DEF Card, CardOps
<1>6. QED
  BY <1>1, <1>3, <1>4, <1>5 DEF CardOps

\* A refused or lost operation gives its locks and its slot back.
LEMMA RefuseType ==
  ASSUME TypeOK, NEW t \in Txs, Refuse(t)
  PROVE  TypeOK'
  BY DEF TypeOK, Refuse, Unlock, rows

LEMMA AskType ==
  ASSUME TypeOK, NEW t \in Txs, NEW op \in Ops, NEW d \in Documents,
         NEW lines \in Contents \cup {None}, NEW fields \in BOOLEAN,
         NEW against \in Cards \cup {None}, Ask(t, op, d, lines, fields, against)
  PROVE  TypeOK'
<1> DEFINE y == [op |-> op, phase |-> "asked", doc |-> d, lines |-> lines, fields |-> fields,
                 seen |-> IF op = "patch" THEN card[d] ELSE None, against |-> against, number |-> None]
<1>1. op = "patch" => card[d] \in Card \cup {None}
  BY DEF Ask, TypeOK, CardOps
<1>2. y \in Tx
  BY <1>1 DEF Tx
<1>3. tx' = [tx EXCEPT ![t] = y] /\ UNCHANGED <<rows, lock, seqLock>>
  BY DEF Ask
<1>4. QED
  BY <1>2, <1>3 DEF TypeOK, rows

\* The statements before the last one keep the types.
LEMMA StepType ==
  ASSUME TypeOK, NEW t \in Txs, LockRow(t) \/ FindCard(t) \/ Allocate(t) \/ Insert(t)
  PROVE  TypeOK'
<1>1. tx[t] # None /\ tx[t] \in Tx
  BY DEF TypeOK, LockRow, FindCard, Allocate, Insert, At
<1>2. CASE LockRow(t) /\ Allowed(tx[t])
  <2>1. [tx[t] EXCEPT !.phase = "locked"] \in Tx
    BY <1>1 DEF Tx
  <2>2. tx[t].doc \in Documents
    BY <1>1 DEF Tx
  <2>3. QED
    BY <1>2, <2>1, <2>2 DEF LockRow, TypeOK, rows
<1>3. CASE LockRow(t) /\ ~Allowed(tx[t])
  BY <1>3, RefuseType DEF LockRow
<1>4. CASE FindCard(t)
  <2>1. [tx[t] EXCEPT !.phase = "found"] \in Tx
    BY <1>1 DEF Tx
  <2>2. QED
    BY <1>4, <2>1, RefuseType DEF FindCard, TypeOK, rows
<1>5. CASE Allocate(t)
  <2>1. ScopeOf(tx[t]) \in Scopes
    BY DEF ScopeOf, Scopes
  <2>2. seq[ScopeOf(tx[t])] + 1 \in Numbers
    BY <2>1 DEF TypeOK, Numbers
  <2>3. [tx[t] EXCEPT !.phase = "numbered", !.number = seq[ScopeOf(tx[t])] + 1] \in Tx
    BY <1>1, <2>2 DEF Tx
  <2>4. QED
    BY <1>5, <2>1, <2>3 DEF Allocate, TypeOK, rows
<1>6. CASE Insert(t)
  <2>1. [tx[t] EXCEPT !.phase = "inserted"] \in Tx
    BY <1>1 DEF Tx
  <2>2. QED
    BY <1>6, <2>1 DEF Insert, TypeOK, rows
<1>7. QED
  BY <1>2, <1>3, <1>4, <1>5, <1>6

\* What a COMMIT does to the documents: one row of one table.
LEMMA CommitRows ==
  ASSUME TypeOK, NEW t \in Txs, Commit(t), Sound(t)
  PROVE  LET x == tx[t]
         IN  /\ x \in Tx
             /\ x.op \in {"create"} \cup CardOps =>
                  /\ x.doc \in Cards /\ payment' = payment
                  /\ Rewritten(x, card[x.doc]) \in Card
                  /\ card' = [card EXCEPT ![x.doc] = Rewritten(x, card[x.doc])]
             /\ x.op = "collect" =>
                  /\ x.doc \in Payments /\ card' = card /\ x.number \in Numbers
                  /\ payment' = [payment EXCEPT ![x.doc] =
                        [status |-> "collected", number |-> x.number, against |-> x.against]]
             /\ x.op = "refund" =>
                  /\ x.doc \in Payments /\ card' = card /\ payment[x.doc] \in Payment
                  /\ payment' = [payment EXCEPT ![x.doc] = [payment[x.doc] EXCEPT !.status = "void"]]
<1> DEFINE x == tx[t]
<1>1. x # None /\ x \in Tx
  BY DEF TypeOK, Commit, Ready, At
<1>2. x.op \in Ops /\ x.doc \in Documents /\ x.number \in Numbers \cup {None}
  BY <1>1 DEF Tx
<1>3. Cards \cap Payments = {}
  BY LedgerAssumption
<1>4. ASSUME x.op \in {"create"} \cup CardOps
      PROVE  /\ x.doc \in Cards /\ payment' = payment
             /\ Rewritten(x, card[x.doc]) \in Card
             /\ card' = [card EXCEPT ![x.doc] = Rewritten(x, card[x.doc])]
  <2>1. x.doc \in Cards /\ card[x.doc] \in Card \cup {None}
    BY <1>4 DEF Sound, TypeOK
  <2>2. x.op # "create" => card[x.doc] \in Card
    BY <1>4, <2>1 DEF Sound
  <2>3. x.op = "create" => x.lines # None
    BY DEF Sound
  <2>4. x.op = "confirm" => x.number # None
    BY DEF Commit, Ready, At, Sound
  <2>5. Rewritten(x, card[x.doc]) \in Card
    BY <1>1, <1>4, <2>1, <2>2, <2>3, <2>4, RowType
  <2>6. payment' = payment
    BY <1>4 DEF Commit, CardOps
  <2>7. card' = [card EXCEPT ![x.doc] = Rewritten(x, card[x.doc])]
    BY <2>1 DEF Commit
  <2>8. QED
    BY <2>1, <2>5, <2>6, <2>7
<1>5. ASSUME x.op = "collect" \/ x.op = "refund" PROVE x.doc \in Payments /\ card' = card
  <2>1. x.doc \notin Cards
    BY <1>5 DEF Sound, CardOps
  <2>2. QED
    BY <1>2, <2>1 DEF Commit, Documents
<1>6. ASSUME x.op = "collect"
      PROVE  /\ x.number \in Numbers
             /\ payment' = [payment EXCEPT ![x.doc] =
                   [status |-> "collected", number |-> x.number, against |-> x.against]]
  <2>1. x.number # None
    BY <1>6 DEF Commit, Ready, At, Sound, CardOps
  <2>2. QED
    BY <1>2, <1>6, <2>1 DEF Commit
<1>7. ASSUME x.op = "refund"
      PROVE  /\ payment[x.doc] \in Payment
             /\ payment' = [payment EXCEPT ![x.doc] = [payment[x.doc] EXCEPT !.status = "void"]]
  <2>1. payment[x.doc] \in Payment
    BY <1>5, <1>7 DEF Sound, TypeOK
  <2>2. QED
    BY <1>7, <2>1 DEF Commit
<1>8. QED
  BY <1>1, <1>4, <1>5, <1>6, <1>7

-----------------------------------------------------------------------------
(* Ledger is inductive. *)

\* While the rows stand, an operation keeps what it holds when another one gets on.
LEMMA Bystander ==
  ASSUME TypeOK, NEW t \in Txs, NEW u \in Txs \ {t}, tx[u] # None, Sound(u), UNCHANGED rows,
         NEW y, tx' = [tx EXCEPT ![t] = y], y = None \/ (tx[t] # None /\ y.doc = tx[t].doc),
         \A d \in Documents : lock[d] = u => lock'[d] = u,
         \A s \in Scopes : seqLock[s] = u => seqLock'[s] = u
  PROVE  Sound(u)'
<1>1. tx'[u] = tx[u] /\ tx[u] \in Tx /\ tx[u].doc \in Documents /\ ScopeOf(tx[u]) \in Scopes
  BY DEF TypeOK, Tx, ScopeOf, Scopes
<1>2. Allowed(tx[u]) => Allowed(tx[u])'
  BY <1>1 DEF Allowed, rows
<1>3. \A v \in Txs \ {u} : tx'[v] # None => tx[v] # None /\ tx'[v].doc = tx[v].doc
  BY DEF TypeOK
<1>4. QED
  BY <1>1, <1>2, <1>3 DEF Sound, rows, ScopeOf

\* A step that writes no row and leaves t either gone or sound keeps the ledger.
LEMMA Quiet ==
  ASSUME Ledger, NEW t \in Txs, tx[t] # None, TypeOK', UNCHANGED rows,
         NEW y, tx' = [tx EXCEPT ![t] = y], y = None \/ (y.doc = tx[t].doc /\ Sound(t)'),
         \A u \in Txs \ {t} :
           /\ \A d \in Documents : lock[d] = u => lock'[d] = u
           /\ \A s \in Scopes : seqLock[s] = u => seqLock'[s] = u
  PROVE  Ledger'
<1>1. Gapless' /\ NumberedWhenConfirmed'
  BY DEF Ledger, Gapless, NumberedWhenConfirmed, NumbersOf, Numbered, rows
<1>2. ASSUME NEW u \in Txs, tx'[u] # None PROVE Sound(u)'
  <2>1. CASE u = t
    BY <1>2, <2>1 DEF Ledger, TypeOK
  <2>2. CASE u # t
    <3>1. tx[u] # None /\ Sound(u)
      BY <1>2, <2>2 DEF Ledger, HoldsItsRows, TypeOK
    <3>2. QED
      BY <2>2, <3>1, Bystander DEF Ledger
  <2>3. QED
    BY <2>1, <2>2
<1>3. QED
  BY <1>1, <1>2 DEF Ledger, HoldsItsRows

LEMMA RefuseLedger == ASSUME Ledger, NEW t \in Txs, tx[t] # None, Refuse(t) PROVE Ledger'
<1>1. TypeOK'
  BY RefuseType DEF Ledger
<1>2. tx' = [tx EXCEPT ![t] = None] /\ UNCHANGED rows
  BY DEF Refuse
<1>3. \A u \in Txs \ {t} :
        /\ \A d \in Documents : lock[d] = u => lock'[d] = u
        /\ \A s \in Scopes : seqLock[s] = u => seqLock'[s] = u
  BY DEF Refuse, Unlock
<1>4. QED
  BY <1>1, <1>2, <1>3, Quiet

LEMMA AskLedger ==
  ASSUME Ledger, NEW t \in Txs, NEW op \in Ops, NEW d \in Documents,
         NEW lines \in Contents \cup {None}, NEW fields \in BOOLEAN,
         NEW against \in Cards \cup {None}, Ask(t, op, d, lines, fields, against)
  PROVE  Ledger'
<1> DEFINE y == [op |-> op, phase |-> "asked", doc |-> d, lines |-> lines, fields |-> fields,
                 seen |-> IF op = "patch" THEN card[d] ELSE None, against |-> against, number |-> None]
<1>0. TypeOK'
  BY AskType DEF Ledger
<1>1. TypeOK' /\ tx[t] = None /\ tx' = [tx EXCEPT ![t] = y] /\ UNCHANGED <<rows, lock, seqLock>>
  BY <1>0 DEF Ask
<1>2. Gapless' /\ NumberedWhenConfirmed'
  BY <1>1 DEF Ledger, Gapless, NumberedWhenConfirmed, NumbersOf, Numbered, rows
<1>3. Cards \cap Payments = {}
  BY LedgerAssumption
<1>4. tx'[t] = y
  BY <1>1 DEF Ledger, TypeOK
<1>5. Sound(t)'
  <2>1. /\ (op \in {"create"} \cup CardOps) = (d \in Cards)
        /\ op = "create" => card[d] = None /\ lines # None
        /\ op \in CardOps => card[d] # None
        /\ op = "collect" => payment[d] = None
        /\ op = "refund" => payment[d] # None
        /\ op \in {"create", "collect"} => \A u \in Txs : tx[u] # None => tx[u].doc # d
    BY <1>3 DEF Ask, CardOps, Ops
  <2>2. \A u \in Txs \ {t} : tx'[u] = tx[u]
    BY <1>1
  <2>3. tx'[t].op = op /\ tx'[t].doc = d /\ tx'[t].phase = "asked" /\ tx'[t].number = None /\ tx'[t].lines = lines
    BY <1>4
  <2>4. op = "patch" => tx'[t].seen # None
    BY <1>4, <2>1 DEF CardOps
  <2>5. QED
    BY <1>1, <2>1, <2>2, <2>3, <2>4 DEF Sound, rows
<1>6. ASSUME NEW u \in Txs \ {t}, tx'[u] # None PROVE Sound(u)'
  <2>1. tx'[u] = tx[u] /\ tx[u] # None /\ Sound(u) /\ tx[u] \in Tx
    BY <1>1, <1>6 DEF Ledger, HoldsItsRows, TypeOK
  <2>2. tx[u].op \in {"create", "collect"} => tx[u].doc # d
    <3>1. CASE op \in {"create", "collect"}
      BY <2>1, <3>1 DEF Ask
    <3>2. CASE op = "refund"
      BY <1>3, <2>1, <3>2 DEF Ask, Sound, CardOps
    <3>3. CASE op \in CardOps
      BY <1>3, <2>1, <3>3 DEF Ask, Sound, CardOps
    <3>4. QED
      BY <3>1, <3>2, <3>3 DEF Ops
  <2>3. \A v \in Txs \ {u} : tx'[v] # None => (v = t /\ tx'[v].doc = d) \/ tx'[v] = tx[v]
    BY <1>1, <1>4 DEF Ledger, TypeOK
  <2>4. Allowed(tx[u]) => Allowed(tx[u])'
    BY <1>1 DEF Allowed, rows
  <2>5. QED
    BY <1>1, <2>1, <2>2, <2>3, <2>4 DEF Sound, rows, ScopeOf
<1>7. QED
  BY <1>1, <1>2, <1>5, <1>6 DEF Ledger, HoldsItsRows

\* The statements before the last one.
LEMMA StepLedger ==
  ASSUME Ledger, NEW t \in Txs, LockRow(t) \/ FindCard(t) \/ Allocate(t) \/ Insert(t)
  PROVE  Ledger'
<1>1. tx[t] # None /\ tx[t] \in Tx /\ Sound(t) /\ TypeOK /\ TypeOK'
  BY StepType DEF Ledger, HoldsItsRows, TypeOK, LockRow, FindCard, Allocate, Insert, At
<1>2. CASE LockRow(t) /\ Allowed(tx[t])
  <2> DEFINE y == [tx[t] EXCEPT !.phase = "locked"]
  <2>1. /\ tx' = [tx EXCEPT ![t] = y] /\ UNCHANGED <<rows, seqLock>>
        /\ lock[tx[t].doc] = None /\ lock' = [lock EXCEPT ![tx[t].doc] = t]
        /\ tx[t].op \in CardOps \cup {"refund"} /\ tx[t].phase = "asked"
    BY <1>2 DEF LockRow, At
  <2>2. None \notin Txs /\ tx[t].doc \in Documents
    BY <1>1, LedgerAssumption DEF Tx
  <2>3. Sound(t)'
    <3>1. tx'[t] = y /\ \A u \in Txs \ {t} : tx'[u] = tx[u]
      BY <1>1, <2>1 DEF TypeOK
    <3>2. Allowed(tx[t])'
      BY <1>2, <2>1 DEF Allowed, rows
    <3>3. y.op = tx[t].op /\ y.doc = tx[t].doc /\ y.seen = tx[t].seen /\ y.lines = tx[t].lines /\ y.number = tx[t].number /\ y.phase = "locked"
      BY <1>1 DEF Tx
    <3>4. Allowed(y)'
      BY <3>2, <3>3, <2>1, <1>2 DEF Allowed, rows
    <3>5. lock'[tx[t].doc] = t
      BY <1>1, <2>1, <2>2 DEF TypeOK
    <3>6. tx[t].number = None
      BY <1>1, <2>1 DEF Sound
    <3>7. QED
      BY <1>1, <2>1, <3>1, <3>3, <3>4, <3>5, <3>6 DEF Sound, rows, CardOps
  <2>4. y.doc = tx[t].doc
    BY <1>1 DEF Tx
  <2>5. \A u \in Txs \ {t} :
          /\ \A d \in Documents : lock[d] = u => lock'[d] = u
          /\ \A s \in Scopes : seqLock[s] = u => seqLock'[s] = u
    BY <1>1, <2>1, <2>2 DEF TypeOK
  <2>6. QED
    BY <1>1, <2>1, <2>3, <2>4, <2>5, Quiet
<1>3. CASE LockRow(t) /\ ~Allowed(tx[t])
  BY <1>1, <1>3, RefuseLedger DEF LockRow
<1>4. CASE FindCard(t)
  <2> DEFINE y == [tx[t] EXCEPT !.phase = "found"]
  <2>1. CASE tx' = [tx EXCEPT ![t] = y] /\ UNCHANGED <<rows, lock, seqLock>>
    <3>1. tx'[t] = y /\ \A u \in Txs \ {t} : tx'[u] = tx[u]
      BY <1>1, <2>1 DEF TypeOK
    <3>2. y.op = tx[t].op /\ y.doc = tx[t].doc /\ y.number = tx[t].number /\ y.phase = "found"
      BY <1>1 DEF Tx
    <3>3. tx[t].op = "collect" /\ tx[t].phase = "asked"
      BY <1>4 DEF FindCard, At
    <3>4. Sound(t)'
      BY <1>1, <2>1, <3>1, <3>2, <3>3 DEF Sound, rows, CardOps
    <3>5. QED
      BY <1>1, <2>1, <3>2, <3>4, Quiet
  <2>2. QED
    BY <1>1, <1>4, <2>1, RefuseLedger DEF FindCard
<1>5. CASE Allocate(t)
  <2> DEFINE s == ScopeOf(tx[t])
             n == seq[s] + 1
             y == [tx[t] EXCEPT !.phase = "numbered", !.number = n]
  <2>1. /\ tx' = [tx EXCEPT ![t] = y] /\ UNCHANGED <<rows, lock>>
        /\ seqLock[s] = None /\ seqLock' = [seqLock EXCEPT ![s] = t]
    BY <1>5 DEF Allocate
  <2>2. None \notin Txs /\ s \in Scopes /\ n # None /\ n \in Nat
    BY <1>1, LedgerAssumption DEF ScopeOf, Scopes, TypeOK, Numbers
  <2>3. tx'[t] = y /\ \A u \in Txs \ {t} : tx'[u] = tx[u]
    BY <1>1, <2>1 DEF TypeOK
  <2>4. /\ y.op = tx[t].op /\ y.doc = tx[t].doc /\ y.seen = tx[t].seen /\ y.lines = tx[t].lines
        /\ y.number = n /\ y.phase = "numbered"
    BY <1>1 DEF Tx
  <2>5. \/ tx[t].op = "confirm" /\ tx[t].phase = "locked"
        \/ tx[t].op = "collect" /\ tx[t].phase = "found"
    BY <1>1, <1>5 DEF Allocate, At, Sound
  <2>6. Allowed(tx[t]) => Allowed(tx[t])'
    BY <2>1, <2>3, <2>4 DEF Allowed, rows
  <2>7. ScopeOf(y) = s /\ seqLock'[s] = t /\ y.number = seq'[s] + 1
    BY <1>1, <2>1, <2>2, <2>4 DEF TypeOK, ScopeOf, rows
  <2>8. Sound(t)'
    BY <1>1, <2>1, <2>2, <2>3, <2>4, <2>5, <2>6, <2>7 DEF Sound, rows, CardOps
  <2>9. \A u \in Txs \ {t} :
          /\ \A d \in Documents : lock[d] = u => lock'[d] = u
          /\ \A r \in Scopes : seqLock[r] = u => seqLock'[r] = u
    BY <1>1, <2>1, <2>2 DEF TypeOK
  <2>10. QED
    BY <1>1, <2>1, <2>4, <2>8, <2>9, Quiet
<1>6. CASE Insert(t)
  <2> DEFINE y == [tx[t] EXCEPT !.phase = "inserted"]
  <2>1. /\ tx' = [tx EXCEPT ![t] = y] /\ UNCHANGED <<rows, lock, seqLock>>
        /\ tx[t].op = "collect" /\ tx[t].phase = "numbered"
    BY <1>6 DEF Insert, At
  <2>2. tx'[t] = y /\ \A u \in Txs \ {t} : tx'[u] = tx[u]
    BY <1>1, <2>1 DEF TypeOK
  <2>3. y.op = tx[t].op /\ y.doc = tx[t].doc /\ y.number = tx[t].number /\ y.phase = "inserted"
    BY <1>1 DEF Tx
  <2>4. Sound(t)'
    BY <1>1, <2>1, <2>2, <2>3 DEF Sound, rows, CardOps, ScopeOf
  <2>5. QED
    BY <1>1, <2>1, <2>3, <2>4, Quiet
<1>7. QED
  BY <1>2, <1>3, <1>4, <1>5, <1>6

\* A transaction that is ready has its row as it was checked, and its number if it needs
\* one.
LEMMA ReadyRow ==
  ASSUME Ledger, NEW t \in Txs, Commit(t)
  PROVE  /\ Sound(t) /\ tx[t] # None /\ tx[t] \in Tx
         /\ tx[t].op \in CardOps \cup {"refund"} => lock[tx[t].doc] = t /\ Allowed(tx[t])
         /\ (tx[t].number # None) = (tx[t].op \in {"confirm", "collect"})
<1>1. Sound(t) /\ tx[t] # None /\ tx[t] \in Tx
  BY DEF Ledger, HoldsItsRows, TypeOK, Commit, Ready, At
<1>2. \/ tx[t].phase = "asked" /\ tx[t].op = "create"
      \/ tx[t].phase = "locked" /\ tx[t].op \in CardOps \cup {"refund"} /\ tx[t].op # "confirm"
      \/ tx[t].phase = "numbered" /\ tx[t].op = "confirm"
      \/ tx[t].phase = "inserted" /\ tx[t].op = "collect"
  BY <1>1 DEF Commit, Ready, At, Sound
<1>3. QED
  BY <1>1, <1>2 DEF Sound, CardOps

\* The table a COMMIT writes keeps its count, or counts one more.
LEMMA CommitCounts ==
  ASSUME Ledger, NEW t \in Txs, Commit(t)
  PROVE  TypeOK' /\ Gapless' /\ NumberedWhenConfirmed'
<1> DEFINE x == tx[t]
           d == x.doc
<1>1. /\ Sound(t) /\ x # None /\ x \in Tx
      /\ x.op \in CardOps \cup {"refund"} => Allowed(x)
      /\ (x.number # None) = (x.op \in {"confirm", "collect"})
  BY ReadyRow
<1>2. /\ TypeOK /\ Counted(card, seq["sale"]) /\ Counted(payment, seq["payment"])
      /\ NumberedWhenConfirmed
  BY GaplessCounts DEF Ledger
<1>3. seq["sale"] \in Nat /\ seq["payment"] \in Nat /\ DOMAIN seq = Scopes
  BY <1>2 DEF TypeOK, Scopes, Numbers
<1>4. /\ card = [c \in Cards |-> card[c]] /\ payment = [p \in Payments |-> payment[p]]
  BY <1>2 DEF TypeOK
<1>5. seq' = IF x.number = None THEN seq ELSE [seq EXCEPT ![ScopeOf(x)] = x.number]
  BY DEF Commit
<1>6. x.number # None => x.number = seq[ScopeOf(x)] + 1
  BY <1>1 DEF Sound
<1>7. None \notin Card /\ None \notin Payment /\ None \notin Nat
  BY LedgerAssumption
<1>8. x.op \in {"create"} \cup CardOps \cup {"collect", "refund"}
  BY <1>1 DEF Tx, Ops
<1>9. ASSUME x.op \in {"create"} \cup CardOps
      PROVE  /\ card' \in [Cards -> Card \cup {None}] /\ payment' = payment
             /\ Counted(card', seq'["sale"]) /\ seq'["payment"] = seq["payment"]
             /\ NumberedWhenConfirmed'
  <2> DEFINE r == Rewritten(x, card[d])
  <2>1. /\ d \in Cards /\ payment' = payment /\ r \in Card
        /\ card' = [card EXCEPT ![d] = r]
    BY <1>1, <1>2, <1>9, CommitRows
  <2>2. card' \in [Cards -> Card \cup {None}] /\ r # None
    BY <1>2, <1>7, <2>1 DEF TypeOK
  <2>3. /\ x.op = "create" => card[d] = None
        /\ x.op # "create" => card[d] # None /\ card[d] \in Card
    BY <1>1, <1>2, <1>9, <2>1 DEF Sound, TypeOK
  <2>4. card[d] # None => (card[d].status = "draft") = (card[d].number = None)
    BY <1>2, <2>1 DEF NumberedWhenConfirmed
  <2>5. CASE x.op = "create"
    <3>1. r.number = None /\ r.status = "draft"
      BY <2>5 DEF Rewritten
    <3>2. Counted(card', seq["sale"])
      BY <1>2, <1>3, <1>4, <2>1, <2>2, <2>3, <2>5, <3>1, CountKept
    <3>3. QED
      BY <1>1, <1>2, <1>5, <2>1, <2>2, <2>5, <3>1, <3>2 DEF NumberedWhenConfirmed, TypeOK
  <2>6. CASE x.op = "patch" \/ x.op = "void"
    <3>1. r.number = card[d].number /\ (r.status = "draft") = (card[d].status = "draft")
      BY <1>1, <2>3, <2>6 DEF Rewritten, Allowed, Card, CardOps
    <3>2. Counted(card', seq["sale"])
      BY <1>2, <1>3, <1>4, <2>1, <2>2, <2>3, <2>6, <3>1, CountKept
    <3>3. QED
      BY <1>1, <1>2, <1>5, <2>1, <2>2, <2>3, <2>4, <2>6, <3>1, <3>2 DEF NumberedWhenConfirmed, TypeOK
  <2>7. CASE x.op = "confirm"
    <3>1. r.number = x.number /\ r.status = "confirmed"
      BY <2>3, <2>7 DEF Rewritten, Card
    <3>2. card[d].number = None
      BY <1>1, <2>3, <2>4, <2>7 DEF Allowed, CardOps
    <3>3. x.number = seq["sale"] + 1 /\ x.number # None /\ seq' = [seq EXCEPT !["sale"] = x.number]
      BY <1>1, <1>5, <1>6, <2>7 DEF ScopeOf
    <3>4. seq'["sale"] = seq["sale"] + 1 /\ seq'["payment"] = seq["payment"]
      BY <1>3, <3>3 DEF Scopes
    <3>5. Counted(card', seq["sale"] + 1)
      BY <1>2, <1>3, <1>4, <2>1, <2>2, <3>1, <3>2, <3>3, CountKept
    <3>6. QED
      BY <1>2, <2>1, <2>2, <3>1, <3>3, <3>4, <3>5 DEF NumberedWhenConfirmed, TypeOK
  <2>8. QED
    BY <1>9, <2>5, <2>6, <2>7 DEF CardOps
<1>10. ASSUME x.op = "collect" \/ x.op = "refund"
       PROVE  /\ payment' \in [Payments -> Payment \cup {None}] /\ card' = card
              /\ Counted(payment', seq'["payment"]) /\ seq'["sale"] = seq["sale"]
              /\ NumberedWhenConfirmed'
  <2>1. card' = card /\ d \in Payments
    BY <1>1, <1>2, <1>10, CommitRows
  <2>2. NumberedWhenConfirmed'
    BY <1>2, <2>1 DEF NumberedWhenConfirmed
  <2>3. CASE x.op = "collect"
    <3> DEFINE r == [status |-> "collected", number |-> x.number, against |-> x.against]
    <3>1. x.number \in Numbers /\ payment' = [payment EXCEPT ![d] = r] /\ payment[d] = None
      BY <1>1, <1>2, <2>3, CommitRows DEF Sound
    <3>2. r \in Payment /\ r # None
      BY <1>1, <1>7, <3>1 DEF Payment, Tx
    <3>3. x.number = seq["payment"] + 1 /\ x.number # None /\ seq' = [seq EXCEPT !["payment"] = x.number]
      BY <1>1, <1>5, <1>6, <2>3 DEF ScopeOf
    <3>4. seq'["payment"] = seq["payment"] + 1 /\ seq'["sale"] = seq["sale"]
      BY <1>3, <3>3 DEF Scopes
    <3>5. Counted(payment', seq["payment"] + 1)
      BY <1>2, <1>3, <1>4, <2>1, <3>1, <3>2, <3>3, CountKept
    <3>6. QED
      BY <1>2, <2>1, <2>2, <3>1, <3>2, <3>4, <3>5 DEF TypeOK
  <2>4. CASE x.op = "refund"
    <3> DEFINE r == [payment[d] EXCEPT !.status = "void"]
    <3>1. payment[d] \in Payment /\ payment' = [payment EXCEPT ![d] = r]
      BY <1>1, <1>2, <2>4, CommitRows
    <3>2. r \in Payment /\ r # None /\ r.number = payment[d].number /\ payment[d] # None
      BY <1>7, <3>1 DEF Payment
    <3> HIDE DEF r
    <3>3. Counted(payment', seq["payment"])
      BY <1>2, <1>3, <1>4, <2>1, <3>1, <3>2, CountKept
    <3>4. QED
      BY <1>1, <1>2, <1>5, <2>1, <2>2, <2>4, <3>1, <3>2, <3>3 DEF TypeOK
  <2>5. QED
    BY <1>10, <2>3, <2>4
<1>11. /\ seq' \in [Scopes -> Numbers \cup {0}]
       /\ lock' \in [Documents -> Txs \cup {None}] /\ seqLock' \in [Scopes -> Txs \cup {None}]
       /\ tx' \in [Txs -> Tx \cup {None}]
  <2>1. x.number \in Numbers \cup {None} /\ ScopeOf(x) \in Scopes
    BY <1>1 DEF Tx, ScopeOf, Scopes
  <2>2. QED
    BY <1>2, <1>5, <2>1 DEF TypeOK, Commit, Unlock
<1>12. QED
  BY <1>2, <1>8, <1>9, <1>10, <1>11, GaplessCounts DEF TypeOK, Gapless, Counted

\* What the others hold is not what a COMMIT writes.
LEMMA CommitHolds == ASSUME Ledger, NEW t \in Txs, Commit(t) PROVE HoldsItsRows'
<1> DEFINE x == tx[t]
<1>1. /\ Sound(t) /\ x # None /\ x \in Tx
      /\ x.op \in CardOps \cup {"refund"} => lock[x.doc] = t
      /\ (x.number # None) = (x.op \in {"confirm", "collect"})
  BY ReadyRow
<1>2. SUFFICES ASSUME NEW u \in Txs, tx'[u] # None PROVE Sound(u)'
  BY DEF HoldsItsRows
<1>3. u # t /\ tx'[u] = tx[u] /\ tx[u] # None /\ tx[u] \in Tx /\ Sound(u)
  BY <1>2 DEF Commit, Ledger, TypeOK, HoldsItsRows
<1> DEFINE y == tx[u]
<1>4. TypeOK /\ Cards \cap Payments = {} /\ None \notin Card \cup Payment
  BY LedgerAssumption DEF Ledger
<1>5. /\ x.op \in {"create", "collect"} => y.doc # x.doc
      /\ y.op \in {"create", "collect"} => y.doc # x.doc
      /\ lock[y.doc] = u => y.doc # x.doc
  BY <1>1, <1>3 DEF Sound, Ops, CardOps, Tx
<1>6. /\ \A c \in Cards \ {x.doc} : card'[c] = card[c]
      /\ \A p \in Payments \ {x.doc} : payment'[p] = payment[p]
      /\ \A c \in Cards : card[c] # None => card'[c] # None
      /\ \A p \in Payments : payment[p] # None => payment'[p] # None
  <2>1. CASE x.op \in {"create"} \cup CardOps
    <3> DEFINE r == Rewritten(x, card[x.doc])
    <3>1. x.doc \in Cards /\ payment' = payment /\ r \in Card /\ card' = [card EXCEPT ![x.doc] = r]
      BY <1>1, <1>4, <2>1, CommitRows
    <3> HIDE DEF r
    <3>2. r # None
      BY <1>4, <3>1
    <3>3. QED
      BY <1>4, <3>1, <3>2 DEF TypeOK
  <2>2. CASE x.op = "collect"
    <3> DEFINE r == [status |-> "collected", number |-> x.number, against |-> x.against]
    <3>1. x.doc \in Payments /\ card' = card /\ x.number \in Numbers /\ payment' = [payment EXCEPT ![x.doc] = r]
      BY <1>1, <1>4, <2>2, CommitRows
    <3>2. r \in Payment
      BY <1>1, <3>1 DEF Payment, Tx
    <3> HIDE DEF r
    <3>3. r # None
      BY <1>4, <3>2
    <3>4. QED
      BY <1>4, <3>1, <3>3 DEF TypeOK
  <2>3. CASE x.op = "refund"
    <3> DEFINE r == [payment[x.doc] EXCEPT !.status = "void"]
    <3>1. x.doc \in Payments /\ card' = card /\ payment[x.doc] \in Payment /\ payment' = [payment EXCEPT ![x.doc] = r]
      BY <1>1, <1>4, <2>3, CommitRows
    <3>2. r \in Payment
      BY <3>1 DEF Payment
    <3> HIDE DEF r
    <3>3. r # None
      BY <1>4, <3>2
    <3>4. QED
      BY <1>4, <3>1, <3>3 DEF TypeOK
  <2>4. QED
    BY <1>1, <2>1, <2>2, <2>3 DEF Tx, Ops
<1>7. y.number # None => seqLock'[ScopeOf(y)] = u /\ seq'[ScopeOf(y)] = seq[ScopeOf(y)]
  <2>1. ASSUME y.number # None PROVE seqLock[ScopeOf(y)] = u /\ ScopeOf(y) \in Scopes
    BY <1>3, <2>1 DEF Sound, ScopeOf, Scopes
  <2>2. x.number # None => seqLock[ScopeOf(x)] = t
    BY <1>1 DEF Sound
  <2>3. QED
    BY <1>3, <1>4, <2>1, <2>2 DEF Commit, Unlock, TypeOK
<1>8. lock[y.doc] = u => lock'[y.doc] = u
  BY <1>3 DEF Commit, Unlock, Tx
<1>9. y.doc # x.doc /\ (y.doc \in Cards => y.op # "refund") /\ y.op \in CardOps \cup {"refund"}
        => (Allowed(y) => Allowed(tx[u])')
  BY <1>3, <1>6 DEF Allowed, CardOps, Sound, Tx, Documents
<1>10. \A v \in Txs \ {u} : tx'[v] # None => tx'[v] = tx[v] /\ tx[v] # None
  BY <1>4 DEF Commit, TypeOK
<1>11. y.doc \in Cards \cup Payments /\ y.op \in CardOps \cup {"create", "collect", "refund"}
  BY <1>3 DEF Tx, Documents, Ops
<1>12. /\ y.op = "create" => card'[y.doc] = None
       /\ y.op \in CardOps => card'[y.doc] # None
       /\ y.op = "collect" => payment'[y.doc] = None
       /\ y.op = "refund" => payment'[y.doc] # None
  BY <1>3, <1>5, <1>6, <1>11 DEF Sound, CardOps
<1>13. y.phase = "locked" \/ (y.op = "confirm" /\ y.phase = "numbered") =>
         lock'[y.doc] = u /\ y.op \in CardOps \cup {"refund"} /\ Allowed(tx[u])'
  BY <1>3, <1>5, <1>8, <1>9, <1>11 DEF Sound, CardOps
<1>14. QED
  BY <1>3, <1>7, <1>10, <1>11, <1>12, <1>13 DEF Sound

LEMMA InitLedger == Init => Ledger
<1>1. SUFFICES ASSUME Init PROVE Ledger
  OBVIOUS
<1>2. TypeOK
  BY <1>1 DEF Init, TypeOK
<1>3. Gapless
  BY <1>1 DEF Init, Gapless, NumbersOf, Numbered, Scopes
<1>4. NumberedWhenConfirmed /\ HoldsItsRows
  BY <1>1 DEF Init, NumberedWhenConfirmed, HoldsItsRows
<1>5. QED
  BY <1>2, <1>3, <1>4 DEF Ledger

LEMMA NextLedger == Ledger /\ [Next]_vars => Ledger'
<1>1. SUFFICES ASSUME Ledger, [Next]_vars PROVE Ledger'
  OBVIOUS
<1>2. ASSUME NEW t \in Txs, NEW op \in Ops, NEW d \in Documents, NEW lines \in Contents \cup {None},
             NEW fields \in BOOLEAN, NEW against \in Cards \cup {None},
             Ask(t, op, d, lines, fields, against)
      PROVE  Ledger'
  BY <1>1, <1>2, AskLedger
<1>3. ASSUME NEW t \in Txs, Step(t) PROVE Ledger'
  <2>1. CASE Commit(t)
    BY <1>1, <2>1, CommitCounts, CommitHolds DEF Ledger
  <2>2. QED
    BY <1>1, <1>3, <2>1, StepLedger DEF Step
<1>4. ASSUME NEW t \in Txs, Lost(t) PROVE Ledger'
  BY <1>1, <1>4, RefuseLedger DEF Lost
<1>5. CASE UNCHANGED vars
  BY <1>1, <1>5 DEF vars, Ledger, TypeOK, Gapless, NumbersOf, Numbered, NumberedWhenConfirmed,
     HoldsItsRows, Sound, Allowed, ScopeOf
<1>6. QED
  BY <1>1, <1>2, <1>3, <1>4, <1>5 DEF Next

\* The numbers of the sales cards and of the payments are 1, 2, ... with no gap and no
\* repetition, and a card has one exactly when it was confirmed, whatever operations
\* overlap and whatever is lost after it drew a number (allocateNumber in the caller's
\* transaction).
THEOREM LedgerCorrect == Spec => []Ledger
  BY InitLedger, NextLedger, PTL DEF Spec

\* One step on the documents.
LEMMA NextStands ==
  ASSUME Ledger, [Next]_vars
  PROVE  /\ \A c \in Cards : card[c] # None /\ card[c].status # "draft" =>
              /\ card'[c].lines = card[c].lines /\ card'[c].number = card[c].number
              /\ card'[c].status \in {card[c].status, "void"}
         /\ \A p \in Payments : payment[p] # None =>
              payment'[p] \in {payment[p], [payment[p] EXCEPT !.status = "void"]}
<1>1. ASSUME NEW t \in Txs, Commit(t)
      PROVE  /\ \A c \in Cards : card[c] # None /\ card[c].status # "draft" =>
                  /\ card'[c].lines = card[c].lines /\ card'[c].number = card[c].number
                  /\ card'[c].status \in {card[c].status, "void"}
             /\ \A p \in Payments : payment[p] # None =>
                  payment'[p] \in {payment[p], [payment[p] EXCEPT !.status = "void"]}
  <2> DEFINE x == tx[t]
             d == x.doc
  <2>1. /\ TypeOK /\ Sound(t) /\ x # None /\ x \in Tx
        /\ x.op \in CardOps \cup {"refund"} => Allowed(x)
    BY <1>1, ReadyRow DEF Ledger
  <2>2. CASE x.op \in {"create"} \cup CardOps
    <3>1. /\ d \in Cards /\ payment' = payment
          /\ card' = [card EXCEPT ![d] = Rewritten(x, card[d])]
      BY <1>1, <2>1, <2>2, CommitRows
    <3>2. \A c \in Cards \ {d} : card'[c] = card[c]
      BY <2>1, <3>1 DEF TypeOK
    <3>3. card[d] # None /\ card[d].status # "draft" => x.op = "void"
      BY <2>1, <2>2 DEF Sound, Allowed, CardOps
    <3>4. x.op = "void" => card'[d] = [card[d] EXCEPT !.status = "void", !.version = card[d].version + 1]
      BY <2>1, <3>1 DEF TypeOK, Rewritten
    <3>5. card[d] # None => card[d] \in Card
      BY <2>1, <3>1 DEF TypeOK
    <3>6. card[d] # None /\ card[d].status # "draft" =>
            /\ card'[d].lines = card[d].lines /\ card'[d].number = card[d].number
            /\ card'[d].status = "void"
      BY <3>3, <3>4, <3>5 DEF Card
    <3>7. QED
      BY <3>1, <3>2, <3>6
  <2>3. CASE x.op = "collect"
    <3>1. card' = card /\ payment[d] = None /\ \A p \in Payments \ {d} : payment'[p] = payment[p]
      BY <1>1, <2>1, <2>3, CommitRows DEF Sound, TypeOK
    <3>2. QED
      BY <3>1
  <2>4. CASE x.op = "refund"
    <3>1. /\ d \in Payments /\ card' = card
          /\ payment' = [payment EXCEPT ![d] = [payment[d] EXCEPT !.status = "void"]]
      BY <1>1, <2>1, <2>4, CommitRows
    <3>2. payment'[d] = [payment[d] EXCEPT !.status = "void"] /\ \A p \in Payments \ {d} : payment'[p] = payment[p]
      BY <2>1, <3>1 DEF TypeOK
    <3>3. QED
      BY <3>1, <3>2
  <2>5. QED
    BY <2>1, <2>2, <2>3, <2>4 DEF Tx, Ops
<1>2. CASE UNCHANGED <<card, payment>>
  BY <1>2
<1>3. ASSUME NEW t \in Txs, Refuse(t) PROVE UNCHANGED <<card, payment>>
  BY <1>3 DEF Refuse, rows
<1>4. ASSUME NEW t \in Txs, LockRow(t) \/ FindCard(t) \/ Allocate(t) \/ Insert(t)
      PROVE  UNCHANGED <<card, payment>>
  BY <1>3, <1>4 DEF LockRow, FindCard, Allocate, Insert, rows
<1>5. QED
  BY <1>1, <1>2, <1>3, <1>4 DEF Next, Step, Lost, Ask, rows, vars

\* A confirmed card keeps its number and its lines and a payment its number and its card;
\* either can only be voided (patchSale, confirmSale, voidSale, voidPayment under the row
\* lock).
THEOREM StandCorrect == Spec => DocumentsStand
<1>1. Ledger /\ [Next]_vars =>
        [/\ \A c \in Cards : card[c] # None /\ card[c].status # "draft" =>
               /\ card'[c].lines = card[c].lines /\ card'[c].number = card[c].number
               /\ card'[c].status \in {card[c].status, "void"}
         /\ \A p \in Payments : payment[p] # None =>
               payment'[p] \in {payment[p], [payment[p] EXCEPT !.status = "void"]}]_vars
  BY NextStands
<1>2. QED
  BY <1>1, LedgerCorrect, PTL DEF Spec, DocumentsStand

-----------------------------------------------------------------------------
(* The cards and the payments implement NumberSeries, each for itself. *)

\* What one write does to the numbers a table shows.
LEMMA OneNumber ==
  ASSUME NEW D, NEW f, f = [d \in D |-> f[d]], NEW d \in D, NEW r, r # None,
         NEW g, g = [f EXCEPT ![d] = r]
  PROVE  /\ NumberOf(g) = [NumberOf(f) EXCEPT ![d] = r.number]
         /\ NumberOf(f)[d] = IF f[d] = None THEN None ELSE f[d].number
         /\ r.number = NumberOf(f)[d] => NumberOf(g) = NumberOf(f)
<1>1. DOMAIN f = D /\ DOMAIN g = D /\ g[d] = r /\ \A e \in D \ {d} : g[e] = f[e]
  OBVIOUS
<1>2. NumberOf(f) = [e \in D |-> IF f[e] = None THEN None ELSE f[e].number]
  BY <1>1 DEF NumberOf
<1>3. NumberOf(g) = [e \in D |-> IF e = d THEN r.number ELSE NumberOf(f)[e]]
  BY <1>1, <1>2 DEF NumberOf
<1>4. QED
  BY <1>2, <1>3

SalesVars == <<NumberOf(card), seq["sale"]>>
CollectionVars == <<NumberOf(payment), seq["payment"]>>

LEMMA CommitSeries ==
  ASSUME Ledger, NEW t \in Txs, Commit(t)
  PROVE  /\ Sales!Next \/ UNCHANGED SalesVars
         /\ Collections!Next \/ UNCHANGED CollectionVars
<1> DEFINE x == tx[t]
           d == x.doc
<1>1. /\ TypeOK /\ Sound(t) /\ x # None /\ x \in Tx /\ NumberedWhenConfirmed
      /\ x.op \in CardOps \cup {"refund"} => Allowed(x)
      /\ (x.number # None) = (x.op \in {"confirm", "collect"})
  BY ReadyRow DEF Ledger
<1>2. seq["sale"] \in Nat /\ seq["payment"] \in Nat /\ DOMAIN seq = Scopes
  BY <1>1 DEF TypeOK, Scopes, Numbers
<1>3. card = [c \in Cards |-> card[c]] /\ payment = [p \in Payments |-> payment[p]]
  BY <1>1 DEF TypeOK
<1>4. seq' = IF x.number = None THEN seq ELSE [seq EXCEPT ![ScopeOf(x)] = x.number]
  BY DEF Commit
<1>5. x.number # None => x.number = seq[ScopeOf(x)] + 1
  BY <1>1 DEF Sound
<1>6. None \notin Card /\ None \notin Payment
  BY LedgerAssumption
<1>7. CASE x.op \in {"create"} \cup CardOps
  <2> DEFINE r == Rewritten(x, card[d])
  <2>1. d \in Cards /\ payment' = payment /\ r \in Card /\ r # None /\ card' = [card EXCEPT ![d] = r]
    BY <1>1, <1>6, <1>7, CommitRows
  <2>2. /\ x.op = "create" => card[d] = None
        /\ x.op # "create" => card[d] # None /\ card[d] \in Card
    BY <1>1, <1>7, <2>1 DEF Sound, TypeOK
  <2>3. /\ NumberOf(card') = [NumberOf(card) EXCEPT ![d] = r.number]
        /\ NumberOf(card)[d] = IF card[d] = None THEN None ELSE card[d].number
        /\ r.number = NumberOf(card)[d] => NumberOf(card') = NumberOf(card)
    <3> HIDE DEF r, d
    <3>1. card' = [card EXCEPT ![d] = r] /\ card = [c \in Cards |-> card[c]] /\ d \in Cards /\ r # None
      BY <1>3, <2>1
    <3>2. QED
      BY ONLY <3>1, OneNumber
  <2>4. CASE x.op # "confirm"
    <3>1. r.number = NumberOf(card)[d]
      BY <1>1, <1>7, <2>2, <2>3, <2>4 DEF Rewritten, Card, CardOps
    <3>2. seq' = seq
      BY <1>1, <1>4, <1>7, <2>4 DEF CardOps
    <3>3. QED
      BY <2>1, <2>3, <3>1, <3>2 DEF SalesVars, CollectionVars
  <2>5. CASE x.op = "confirm"
    <3>1. r.number = x.number /\ NumberOf(card)[d] = None
      BY <1>1, <2>1, <2>2, <2>3, <2>5 DEF Rewritten, Card, Allowed, CardOps, NumberedWhenConfirmed
    <3>2. x.number = seq["sale"] + 1 /\ seq' = [seq EXCEPT !["sale"] = x.number]
      BY <1>1, <1>4, <1>5, <2>5 DEF ScopeOf
    <3>3. seq'["sale"] = seq["sale"] + 1 /\ seq'["payment"] = seq["payment"]
      BY <1>2, <3>2 DEF Scopes
    <3>4. Sales!Next
      BY <2>1, <2>3, <3>1, <3>2, <3>3 DEF Sales!Next, Sales!Issue
    <3>5. QED
      BY <2>1, <3>3, <3>4 DEF CollectionVars
  <2>6. QED
    BY <2>4, <2>5
<1>8. CASE x.op = "collect"
  <2> DEFINE r == [status |-> "collected", number |-> x.number, against |-> x.against]
  <2>1. /\ d \in Payments /\ card' = card /\ x.number \in Numbers
        /\ payment' = [payment EXCEPT ![d] = r] /\ payment[d] = None
    BY <1>1, <1>8, CommitRows DEF Sound
  <2>2. r \in Payment /\ r # None
    BY <1>1, <1>6, <2>1 DEF Payment, Tx
  <2>3. x.number = seq["payment"] + 1 /\ seq' = [seq EXCEPT !["payment"] = x.number]
    BY <1>1, <1>4, <1>5, <1>8 DEF ScopeOf
  <2>4. seq'["payment"] = seq["payment"] + 1 /\ seq'["sale"] = seq["sale"]
    BY <1>2, <2>3 DEF Scopes
  <2>5. NumberOf(payment') = [NumberOf(payment) EXCEPT ![d] = x.number] /\ NumberOf(payment)[d] = None
    <3>1. r.number = x.number
      OBVIOUS
    <3> HIDE DEF r, d
    <3>2. /\ payment' = [payment EXCEPT ![d] = r] /\ payment = [p \in Payments |-> payment[p]]
          /\ d \in Payments /\ r # None
      BY <1>3, <2>1, <2>2
    <3>3. /\ NumberOf(payment') = [NumberOf(payment) EXCEPT ![d] = r.number]
          /\ NumberOf(payment)[d] = IF payment[d] = None THEN None ELSE payment[d].number
      BY ONLY <3>2, OneNumber
    <3>4. QED
      BY <2>1, <3>1, <3>3
  <2>6. Collections!Next
    BY <2>1, <2>3, <2>4, <2>5 DEF Collections!Next, Collections!Issue
  <2>7. QED
    BY <2>1, <2>4, <2>6 DEF SalesVars
<1>9. CASE x.op = "refund"
  <2> DEFINE r == [payment[d] EXCEPT !.status = "void"]
  <2>1. /\ d \in Payments /\ card' = card /\ payment[d] \in Payment
        /\ payment' = [payment EXCEPT ![d] = r]
    BY <1>1, <1>9, CommitRows
  <2>2. r \in Payment /\ r # None /\ payment[d] # None /\ r.number = payment[d].number
    BY <1>6, <2>1 DEF Payment
  <2>3. seq' = seq
    BY <1>1, <1>4, <1>9
  <2> HIDE DEF r
  <2>4. NumberOf(payment') = NumberOf(payment)
    <3> HIDE DEF d
    <3>1. /\ payment' = [payment EXCEPT ![d] = r] /\ payment = [p \in Payments |-> payment[p]]
          /\ d \in Payments /\ r # None
      BY <1>3, <2>1, <2>2
    <3>2. /\ NumberOf(payment)[d] = IF payment[d] = None THEN None ELSE payment[d].number
          /\ r.number = NumberOf(payment)[d] => NumberOf(payment') = NumberOf(payment)
      BY ONLY <3>1, OneNumber
    <3>3. QED
      BY <2>2, <3>2
  <2>5. QED
    BY <2>1, <2>3, <2>4 DEF SalesVars, CollectionVars
<1>10. QED
  BY <1>1, <1>7, <1>8, <1>9 DEF Tx, Ops

LEMMA NextSeries ==
  Ledger /\ [Next]_vars => [Sales!Next]_SalesVars /\ [Collections!Next]_CollectionVars
<1> SUFFICES ASSUME Ledger, [Next]_vars
             PROVE  /\ Sales!Next \/ UNCHANGED SalesVars
                    /\ Collections!Next \/ UNCHANGED CollectionVars
  OBVIOUS
<1>1. CASE UNCHANGED rows
  BY <1>1 DEF rows, SalesVars, CollectionVars
<1>2. ASSUME NEW t \in Txs, Refuse(t) PROVE UNCHANGED rows
  BY <1>2 DEF Refuse
<1>3. ASSUME NEW t \in Txs, LockRow(t) \/ FindCard(t) \/ Allocate(t) \/ Insert(t)
      PROVE  UNCHANGED rows
  BY <1>2, <1>3 DEF LockRow, FindCard, Allocate, Insert
<1>4. QED
  BY <1>1, <1>2, <1>3, CommitSeries DEF Next, Step, Lost, Ask, rows, vars

\* Every confirmed card and every payment took the next number of its own series, together
\* with its own row, and keeps it (allocateNumber in the transactions of confirmSale and
\* createPayment).
THEOREM LedgerImplementsSeries == Spec => NumbersInOrder
<1>1. Init => Sales!Init /\ Collections!Init
  BY DEF Init, Sales!Init, Collections!Init, NumberOf, Scopes
<1>2. QED
  BY <1>1, NextSeries, LedgerCorrect, PTL
     DEF Spec, NumbersInOrder, Sales!Spec, Collections!Spec, SalesVars, CollectionVars
=============================================================================

----------------------------- MODULE SalesLedger -----------------------------
(***************************************************************************)
(* The sales documents: a card is drafted, edited under If-Match,          *)
(* confirmed with the next number, voided; a payment is collected with a   *)
(* number of its own, on account or against a card, and voided             *)
(* (apps/api/src/modules/sales, modules/payments, lib/sequences.ts).       *)
(*                                                                         *)
(* Every operation is a READ COMMITTED transaction that takes its row with *)
(* SELECT ... FOR UPDATE, decides on it and commits or is lost.  A request *)
(* its sender may not make (a rep on another's card) ends as a lost one    *)
(* does, with no effect.                                                   *)
(***************************************************************************)
EXTENDS Integers, FiniteSets

CONSTANTS
  Cards, Payments,
  Contents,   \* what the lines of a card can say: the schema takes no card without lines
  Txs,        \* slots for operations in progress
  None,
  MaxVersion  \* bound: a card at this version is asked nothing that would move it

VARIABLES
  card,       \* card[c]: the committed row of sales_cards with its lines, or None
  payment,    \* payment[p]: the committed row of payments, or None
  seq,        \* sequences.current_value of the year's "sale" and "payment"
  lock,       \* lock[d]: the transaction that holds the row of document d
  seqLock,    \* the transactions that hold the rows of sequences
  tx          \* tx[t]: the operation t runs, or None

vars == <<card, payment, seq, lock, seqLock, tx>>
rows == <<card, payment, seq>>

Documents == Cards \cup Payments
Scopes == {"sale", "payment"}
Numbers == Nat \ {0}

Card == [status : {"draft", "confirmed", "void"}, lines : Contents,
         number : Numbers \cup {None}, version : Nat \ {0}]
Payment == [status : {"collected", "void"}, number : Numbers, against : Cards \cup {None}]

CardOps == {"patch", "confirm", "void"}
Ops == CardOps \cup {"create", "collect", "refund"}
\* seen: the card as its sender last read it, whose version a PATCH sends as its If-Match; lines: the
\* new lines, or None where the request sends none; fields: whether it sends others.
Tx == [op : Ops, phase : {"asked", "found", "locked", "numbered", "inserted"}, doc : Documents,
       seen : Card \cup {None}, lines : Contents \cup {None}, fields : BOOLEAN,
       against : Cards \cup {None}, number : Numbers \cup {None}]

ASSUME LedgerAssumption ==
  /\ Cards \cap Payments = {}
  /\ MaxVersion \in Nat \ {0}
  /\ None \notin Documents \cup Txs \cup Nat \cup Contents
  /\ None \notin Card \cup Payment \cup Tx

TypeOK ==
  /\ card \in [Cards -> Card \cup {None}]
  /\ payment \in [Payments -> Payment \cup {None}]
  /\ seq \in [Scopes -> Numbers \cup {0}]
  /\ lock \in [Documents -> Txs \cup {None}]
  /\ seqLock \in [Scopes -> Txs \cup {None}]
  /\ tx \in [Txs -> Tx \cup {None}]

Init ==
  /\ card = [c \in Cards |-> None] /\ payment = [p \in Payments |-> None]
  /\ seq = [s \in Scopes |-> 0]
  /\ lock = [d \in Documents |-> None] /\ seqLock = [s \in Scopes |-> None]
  /\ tx = [t \in Txs |-> None]

-----------------------------------------------------------------------------
At(t, phase) == tx[t] # None /\ tx[t].phase = phase

Unlock(t) ==
  /\ lock' = [d \in Documents |-> IF lock[d] = t THEN None ELSE lock[d]]
  /\ seqLock' = [s \in Scopes |-> IF seqLock[s] = t THEN None ELSE seqLock[s]]

\* A refusal throws: ROLLBACK.
Refuse(t) == Unlock(t) /\ tx' = [tx EXCEPT ![t] = None] /\ UNCHANGED rows

\* A request arrives.  A document to be created has an id nobody else uses.
Ask(t, op, d, lines, fields, against) ==
  /\ tx[t] = None
  /\ CASE op \in {"create", "collect"} ->
            /\ d \in (IF op = "create" THEN Cards ELSE Payments)
            /\ IF op = "create" THEN card[d] = None ELSE payment[d] = None
            /\ \A u \in Txs : tx[u] # None => tx[u].doc # d
       [] op = "refund" -> d \in Payments /\ payment[d] # None
       [] OTHER -> d \in Cards /\ card[d] # None
  /\ op = "create" => lines # None
  /\ op \notin {"create", "patch"} => lines = None
  /\ op = "patch" => fields \/ lines # None
  /\ op # "patch" => ~fields
  /\ op # "collect" => against = None
  /\ tx' = [tx EXCEPT ![t] =
       [op |-> op, phase |-> "asked", doc |-> d, lines |-> lines, fields |-> fields,
        seen |-> IF op = "patch" THEN card[d] ELSE None, against |-> against, number |-> None]]
  /\ UNCHANGED <<rows, lock, seqLock>>

\* What each operation asks of the row it has locked.
Allowed(x) ==
  CASE x.op = "patch"   -> card[x.doc].version = x.seen.version /\ card[x.doc].status = "draft"
    [] x.op = "confirm" -> card[x.doc].status = "draft"
    [] x.op = "void"    -> card[x.doc].status = "confirmed"
    [] OTHER            -> payment[x.doc].status = "collected"

\* A payment being inserted holds its card's key: a FOR UPDATE waits for it, and it for
\* one.
KeyShared(c) == \E t \in Txs : At(t, "inserted") /\ tx[t].against = c

\* Mutant: the row is read without FOR UPDATE.
LockRow_Plain(t) ==
  /\ At(t, "asked") /\ tx[t].op \in CardOps \cup {"refund"}
  /\ \/ /\ Allowed(tx[t])
        /\ tx' = [tx EXCEPT ![t].phase = "locked"]
        /\ UNCHANGED <<rows, lock, seqLock>>
     \/ ~Allowed(tx[t]) /\ Refuse(t)

\* lockSale, lockPayment; then the checks, under the lock.
LockRow(t) ==
  /\ At(t, "asked") /\ tx[t].op \in CardOps \cup {"refund"}
  /\ lock[tx[t].doc] = None /\ ~KeyShared(tx[t].doc)
  /\ \/ /\ Allowed(tx[t])
        /\ lock' = [lock EXCEPT ![tx[t].doc] = t]
        /\ tx' = [tx EXCEPT ![t].phase = "locked"]
        /\ UNCHANGED <<rows, seqLock>>
     \/ ~Allowed(tx[t]) /\ Refuse(t)

Confirmed == {c \in Cards : card[c] # None /\ card[c].status = "confirmed"}

\* findSalesCardForPayment: a plain SELECT.
FindCard(t) ==
  LET c == tx[t].against
  IN  /\ At(t, "asked") /\ tx[t].op = "collect"
      /\ \/ /\ c \in Confirmed \cup {None}
            /\ tx' = [tx EXCEPT ![t].phase = "found"]
            /\ UNCHANGED <<rows, lock, seqLock>>
         \/ c \notin Confirmed \cup {None} /\ Refuse(t)

ScopeOf(x) == IF x.op = "confirm" THEN "sale" ELSE "payment"

\* Mutant: the number is drawn outside the transaction, which may still be lost.
Allocate_Outside(t) ==
  LET s == ScopeOf(tx[t])
  IN  /\ (At(t, "locked") /\ tx[t].op = "confirm") \/ At(t, "found")
      /\ seqLock[s] = None
      /\ seq' = [seq EXCEPT ![s] = @ + 1]
      /\ tx' = [tx EXCEPT ![t].phase = "numbered", ![t].number = seq[s] + 1]
      /\ UNCHANGED <<card, payment, lock, seqLock>>

\* allocateNumber: next_in_sequence takes the row and holds it to the end.
Allocate(t) ==
  LET s == ScopeOf(tx[t])
  IN  /\ (At(t, "locked") /\ tx[t].op = "confirm") \/ At(t, "found")
      /\ seqLock[s] = None
      /\ seqLock' = [seqLock EXCEPT ![s] = t]
      /\ tx' = [tx EXCEPT ![t].phase = "numbered", ![t].number = seq[s] + 1]
      /\ UNCHANGED <<rows, lock>>

\* The INSERT of a payment, whose foreign key takes the card's row.
Insert(t) ==
  /\ At(t, "numbered") /\ tx[t].op = "collect"
  /\ tx[t].against # None => lock[tx[t].against] = None
  /\ tx' = [tx EXCEPT ![t].phase = "inserted"]
  /\ UNCHANGED <<rows, lock, seqLock>>

\* The row as the operation leaves it.  The touch trigger moves the version of a card
\* whose row is updated; updateSaleFields issues no UPDATE where only the lines change.
Rewritten(x, r) ==
  CASE x.op = "create" -> [status |-> "draft", lines |-> x.lines, number |-> None, version |-> 1]
    [] x.op = "patch" -> [r EXCEPT !.lines = IF x.lines = None THEN r.lines ELSE x.lines,
                                   !.version = IF x.fields THEN r.version + 1 ELSE r.version]
    [] x.op = "confirm" -> [r EXCEPT !.status = "confirmed", !.number = x.number, !.version = @ + 1]
    [] x.op = "void" -> [r EXCEPT !.status = "void", !.version = @ + 1]

\* The operation has made its last write.  What it wrote is seen when it commits.
Ready(t) ==
  \/ At(t, "asked") /\ tx[t].op = "create"
  \/ At(t, "locked") /\ tx[t].op # "confirm"
  \/ At(t, "numbered") /\ tx[t].op = "confirm"
  \/ At(t, "inserted")

Commit(t) ==
  LET x == tx[t]
  IN  /\ Ready(t)
      /\ card' = IF x.doc \in Cards THEN [card EXCEPT ![x.doc] = Rewritten(x, @)] ELSE card
      /\ payment' = CASE x.op = "collect" ->
                           [payment EXCEPT ![x.doc] = [status |-> "collected", number |-> x.number,
                                                       against |-> x.against]]
                      [] x.op = "refund" -> [payment EXCEPT ![x.doc].status = "void"]
                      [] OTHER -> payment
      /\ seq' = IF x.number = None THEN seq ELSE [seq EXCEPT ![ScopeOf(x)] = x.number]
      /\ Unlock(t)
      /\ tx' = [tx EXCEPT ![t] = None]

\* The connection or the process ends before the commit.
Lost(t) == tx[t] # None /\ Refuse(t)

Step(t) == LockRow(t) \/ FindCard(t) \/ Allocate(t) \/ Insert(t) \/ Commit(t)

\* Bound: no update is asked for beyond MaxVersion.
Room(op, d, fields) ==
  op \in {"confirm", "void"} \/ fields =>
    card[d].version + Cardinality({u \in Txs : tx[u] # None /\ tx[u].doc = d}) < MaxVersion

Next ==
  \/ \E t \in Txs, op \in Ops, d \in Documents, lines \in Contents \cup {None},
        fields \in BOOLEAN, against \in Cards \cup {None} :
       Ask(t, op, d, lines, fields, against) /\ (op \in CardOps => Room(op, d, fields))
  \/ \E t \in Txs : Step(t) \/ Lost(t)

Spec == Init /\ [][Next]_vars

-----------------------------------------------------------------------------
(* Properties *)

NumbersOf(f) == {f[d].number : d \in {e \in DOMAIN f : f[e] # None /\ f[e].number # None}}
Numbered(f) == {d \in DOMAIN f : f[d] # None /\ f[d].number # None}

\* The numbers of the confirmed and voided cards, and those of the payments, are 1, 2, ...
\* with no gap and no repetition, whatever is refused or lost after it drew one.
Gapless ==
  /\ NumbersOf(card) = 1 .. seq["sale"] /\ NumbersOf(payment) = 1 .. seq["payment"]
  /\ \A c, d \in Numbered(card) : card[c].number = card[d].number => c = d
  /\ \A p, q \in Numbered(payment) : payment[p].number = payment[q].number => p = q

\* Two series of numbers: a card draws from one when it is confirmed, a payment from the
\* other when it is collected, each together with the move of its own sequence, and keeps
\* what it drew.
NumberOf(f) == [d \in DOMAIN f |-> IF f[d] = None THEN None ELSE f[d].number]
Sales == INSTANCE NumberSeries
  WITH Documents <- Cards, number <- NumberOf(card), count <- seq["sale"]
Collections == INSTANCE NumberSeries
  WITH Documents <- Payments, number <- NumberOf(payment), count <- seq["payment"]
NumbersInOrder == Sales!Spec /\ Collections!Spec

\* A card has a number if and only if it was confirmed.
NumberedWhenConfirmed ==
  \A c \in Cards : card[c] # None => (card[c].status = "draft") = (card[c].number = None)

\* What transaction t has locked is as it was when it was checked, and the number it drew
\* is still the next.
Sound(t) ==
  LET x == tx[t]
  IN  /\ (x.op \in {"create"} \cup CardOps) = (x.doc \in Cards)
      /\ x.op = "create" => card[x.doc] = None /\ x.lines # None
      /\ x.op \in CardOps => card[x.doc] # None
      /\ x.op = "collect" => payment[x.doc] = None
      /\ x.op = "refund" => payment[x.doc] # None
      /\ x.op = "patch" => x.seen # None
      /\ x.op \in {"create", "collect"} =>
           \A u \in Txs \ {t} : tx[u] # None => tx[u].doc # x.doc
      /\ x.phase = "locked" \/ (x.op = "confirm" /\ x.phase = "numbered") =>
           lock[x.doc] = t /\ x.op \in CardOps \cup {"refund"} /\ Allowed(x)
      /\ x.phase \in {"numbered", "inserted"} <=> x.number # None
      /\ x.number # None =>
           /\ seqLock[ScopeOf(x)] = t /\ x.number = seq[ScopeOf(x)] + 1
           /\ x.op \in {"confirm", "collect"}
      /\ x.phase \in {"found", "inserted"} => x.op = "collect"

HoldsItsRows == \A t \in Txs : tx[t] # None => Sound(t)

\* The ledger, as every commit leaves it.
Ledger == TypeOK /\ Gapless /\ NumberedWhenConfirmed /\ HoldsItsRows

\* A confirmed card keeps its number and its lines for good and can only be voided; a
\* payment keeps its number and its card and can only be voided: an edit that was begun
\* while the card was a draft never lands on the confirmed one.
DocumentsStand ==
  [][/\ \A c \in Cards : card[c] # None /\ card[c].status # "draft" =>
          /\ card'[c].lines = card[c].lines /\ card'[c].number = card[c].number
          /\ card'[c].status \in {card[c].status, "void"}
     /\ \A p \in Payments : payment[p] # None =>
          payment'[p] \in {payment[p], [payment[p] EXCEPT !.status = "void"]}]_vars

\* An edit lands on the card its sender saw: If-Match refuses it where lines or fields
\* changed since.
EditsWhatWasSeen ==
  [][\A t \in Txs :
       Commit(t) /\ tx[t].op = "patch" => card[tx[t].doc] = tx[t].seen]_vars
=============================================================================

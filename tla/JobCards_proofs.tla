--------------------------- MODULE JobCards_proofs ---------------------------
(***************************************************************************)
(* The rows of a job card, its trail, its closure and its number agree,    *)
(* and no operation acts on a card that changed since it was read, for any *)
(* number of cards, technicians and operations in progress.  Orderly is    *)
(* inductive: until it commits, a transaction holds every card it has      *)
(* accepted as it read it, and the sequence as it numbered from it.        *)
(***************************************************************************)
EXTENDS JobCards, FiniteSetTheorems, SequenceTheorems, TLAPS

Raised == {j \in Jobs : card[j] # None}

\* Whether what t writes is still its own.
Pending(t) == Keyed \/ tx[t].phase \notin {"committed", "told"}

\* What every operation knows of what it asked for.
Shaped(t) ==
  LET x == tx[t] IN
  /\ \A j \in DOMAIN x.seen : card[j] # None
  /\ x.todo \subseteq DOMAIN x.seen /\ DOMAIN x.read \subseteq DOMAIN x.seen
  /\ x.op # "bulk" => \A i, j \in DOMAIN x.seen : i = j
  /\ x.op \in {"create", "deactivate"} => DOMAIN x.seen = {}
  /\ x.fresh = None <=> x.number = None
  /\ x.fresh # None => x.op \in {"create", "renew"} /\ x.phase \in {"written", "committed", "told"}
  /\ x.phase = "numbering" => x.op \in {"create", "renew"}

\* Until it commits, a card it has accepted is locked by it and still as it was
\* decided on, and the number it has drawn is the next one and nobody else's.
Holding(t) ==
  LET x == tx[t] IN
  /\ \A j \in DOMAIN x.read :
       /\ lock[j] = t /\ x.read[j] = card[j]
       /\ card[j].version < MaxVersion /\ Allowed(x, j, card[j])
  /\ x.fresh # None => seqLock = t /\ card[x.fresh] = None /\ x.number = seq + 1

\* After it has committed, every card it wrote is past the version it read.
Passed(t) == \A j \in DOMAIN tx[t].read : card[j].version > tx[t].read[j].version

Sound(t) == Shaped(t) /\ IF Pending(t) THEN Holding(t) ELSE Passed(t)

\* The inductive invariant.
Orderly ==
  /\ TypeOK
  /\ Cardinality(Raised) = seq
  /\ \A t \in Txs : tx[t] # None => Sound(t)
  /\ TrailIsChain /\ ClosedOnce /\ NumbersDistinct

-----------------------------------------------------------------------------
(* Partial functions, and what an operation makes of a card. *)

LEMMA PartOfIs ==
  ASSUME NEW S, NEW f
  PROVE  f \in PartOf(S) <=> f \in [DOMAIN f -> S] /\ DOMAIN f \subseteq Jobs
<1>1. ASSUME f \in PartOf(S) PROVE f \in [DOMAIN f -> S] /\ DOMAIN f \subseteq Jobs
  <2>1. PICK D \in SUBSET Jobs : f \in [D -> S]
    BY <1>1 DEF PartOf
  <2>2. QED
    BY <2>1
<1>2. ASSUME f \in [DOMAIN f -> S], DOMAIN f \subseteq Jobs PROVE f \in PartOf(S)
  BY <1>2 DEF PartOf
<1>3. QED
  BY <1>1, <1>2

LEMMA TxFields ==
  ASSUME NEW x \in Tx
  PROVE  /\ x.op \in Ops /\ x.phase \in Phases /\ x.who \in Techs \cup {None}
         /\ x.seen \in PartOf(Versions) /\ DOMAIN x.seen \subseteq Jobs
         /\ x.seen \in [DOMAIN x.seen -> Versions]
         /\ x.todo \subseteq Jobs
         /\ x.read \in PartOf(Card) /\ DOMAIN x.read \subseteq Jobs
         /\ x.read \in [DOMAIN x.read -> Card]
         /\ x.fresh \in Jobs \cup {None} /\ x.number \in Numbers \cup {None}
<1>1. /\ x.op \in Ops /\ x.phase \in Phases /\ x.who \in Techs \cup {None}
      /\ x.seen \in PartOf(Versions) /\ x.todo \subseteq Jobs /\ x.read \in PartOf(Card)
      /\ x.fresh \in Jobs \cup {None} /\ x.number \in Numbers \cup {None}
  BY DEF Tx
<1>2. QED
  BY <1>1, PartOfIs

\* The status and the technician a card has after an operation that accepted it: the
\* version is one more, the number stays.
LEMMA AfterIs ==
  ASSUME NEW x \in Tx, NEW r \in Card, x.op \in CardOps, r.version < MaxVersion
  PROVE  /\ After(x, r) \in Card
         /\ After(x, r).version = r.version + 1
         /\ After(x, r).number = r.number
         /\ After(x, r).by = IF x.op \in {"assign", "bulk"} THEN x.who ELSE r.by
         /\ After(x, r).status = CASE x.op \in {"assign", "bulk"} -> "assigned"
                                   [] x.op \in {"en_route", "in_progress"} -> x.op
                                   [] x.op = "reschedule" -> r.status
                                   [] x.op \in {"cancel", "renew"} -> "cancelled"
                                   [] x.op = "complete" -> "completed"
<1>1. /\ r.status \in Statuses /\ r.by \in Techs \cup {None}
      /\ r.version \in Versions /\ r.number \in Numbers
  BY DEF Card
<1>2. r.version + 1 \in Versions
  BY <1>1, JobsAssumption DEF Versions
<1>3. x.who \in Techs \cup {None}
  BY TxFields
<1>4. CASE x.op \in {"assign", "bulk"}
  BY <1>1, <1>2, <1>3, <1>4 DEF After, Bump, Card, Statuses
<1>5. CASE x.op \in {"en_route", "in_progress"}
  BY <1>1, <1>2, <1>5 DEF After, Bump, Card, Statuses
<1>6. CASE x.op = "reschedule"
  BY <1>1, <1>2, <1>6 DEF After, Bump, Card, Statuses
<1>7. CASE x.op \in {"cancel", "renew"}
  BY <1>1, <1>2, <1>7 DEF After, Bump, Card, Statuses
<1>8. CASE x.op = "complete"
  BY <1>1, <1>2, <1>8 DEF After, Bump, Card, Statuses
<1>9. QED
  BY <1>4, <1>5, <1>6, <1>7, <1>8 DEF CardOps

-----------------------------------------------------------------------------
(* The steps that write no row. *)

\* While the rows stand, an operation keeps what it holds when another one gets on.
LEMMA Quiet ==
  ASSUME Orderly, NEW t \in Txs, UNCHANGED rows,
         NEW y \in Tx \cup {None}, tx' = [tx EXCEPT ![t] = y], y # None => Sound(t)',
         lock' \in [Jobs -> Txs \cup {None}], seqLock' \in Txs \cup {None},
         \A u \in Txs \ {t} : /\ \A j \in Jobs : lock[j] = u => lock'[j] = u
                              /\ seqLock = u => seqLock' = u
  PROVE  Orderly'
<1>1. TypeOK'
  BY DEF Orderly, TypeOK, rows
<1>2. Cardinality(Raised)' = seq'
  <2>1. Raised' = Raised
    BY DEF Raised, rows
  <2>2. QED
    BY <2>1 DEF Orderly, rows
<1>3. TrailIsChain' /\ ClosedOnce' /\ NumbersDistinct'
  <2>1. TrailIsChain /\ ClosedOnce /\ NumbersDistinct /\ UNCHANGED <<card, trail, closed, seq>>
    BY DEF Orderly, rows
  <2>2. TrailIsChain'
    BY <2>1 DEF TrailIsChain
  <2>3. ClosedOnce'
    BY <2>1 DEF ClosedOnce
  <2>4. NumbersDistinct'
    BY <2>1 DEF NumbersDistinct
  <2>5. QED
    BY <2>2, <2>3, <2>4
<1>4. ASSUME NEW u \in Txs, tx'[u] # None PROVE Sound(u)'
  <2>1. CASE u = t
    BY <1>4, <2>1 DEF Orderly, TypeOK
  <2>2. CASE u # t
    <3>1. tx'[u] = tx[u] /\ tx[u] # None /\ Sound(u) /\ tx[u] \in Tx
      BY <1>4, <2>2 DEF Orderly, TypeOK
    <3>2. Shaped(u)' /\ Pending(u)' = Pending(u) /\ (Passed(u) => Passed(u)')
      BY <3>1 DEF Sound, Shaped, Pending, Passed, rows
    <3>3. DOMAIN tx[u].read \subseteq Jobs
      BY <3>1, TxFields
    <3>4. Holding(u) => Holding(u)'
      BY <2>2, <3>1, <3>3 DEF Holding, rows
    <3>5. QED
      BY <3>1, <3>2, <3>4 DEF Sound
  <2>3. QED
    BY <2>1, <2>2
<1>5. QED
  BY <1>1, <1>2, <1>3, <1>4 DEF Orderly

LEMMA RefuseOrderly == ASSUME Orderly, NEW t \in Txs, Refuse(t) PROVE Orderly'
<1>1. tx' = [tx EXCEPT ![t] = None] /\ UNCHANGED rows
  BY DEF Refuse
<1>2. /\ lock' \in [Jobs -> Txs \cup {None}] /\ seqLock' \in Txs \cup {None}
      /\ \A u \in Txs \ {t} : /\ \A j \in Jobs : lock[j] = u => lock'[j] = u
                              /\ seqLock = u => seqLock' = u
  BY DEF Refuse, Unlock, Orderly, TypeOK
<1>3. QED
  BY <1>1, <1>2, Quiet

\* A step that only moves an operation to its next phase, with the locks as they are.
LEMMA PhaseOrderly ==
  ASSUME Orderly, NEW t \in Txs, tx[t] # None, NEW p \in Phases,
         tx' = [tx EXCEPT ![t].phase = p], UNCHANGED <<rows, lock, seqLock>>,
         p = "numbering" => tx[t].op = "renew",
         tx[t].fresh # None => p \in {"written", "committed", "told"},
         Keyed \/ (tx[t].phase \in {"committed", "told"} <=> p \in {"committed", "told"})
  PROVE  Orderly'
<1> DEFINE x == tx[t]
           y == [x EXCEPT !.phase = p]
<1>1. x \in Tx /\ Sound(t)
  BY DEF Orderly, TypeOK
<1>2. y \in Tx /\ y # None
  BY <1>1, JobsAssumption DEF Tx
<1>3. tx' = [tx EXCEPT ![t] = y] /\ tx'[t] = y
  BY DEF Orderly, TypeOK
<1>4. /\ y.op = x.op /\ y.who = x.who /\ y.seen = x.seen /\ y.todo = x.todo /\ y.read = x.read
      /\ y.fresh = x.fresh /\ y.number = x.number /\ y.phase = p
  BY <1>1 DEF Tx
<1>5. Shaped(t)'
  BY <1>1, <1>3, <1>4 DEF Sound, Shaped, rows
<1>6. Pending(t)' = Pending(t)
  BY <1>3, <1>4 DEF Pending
<1>7. Passed(t) => Passed(t)'
  BY <1>3, <1>4 DEF Passed, rows
<1>8. \A j, r : Allowed(x, j, r) => Allowed(y, j, r)
  BY <1>4 DEF Allowed, Own, Seen
<1>9. Holding(t) => Holding(t)'
  BY <1>3, <1>4, <1>8 DEF Holding, rows
<1>10. Sound(t)'
  BY <1>1, <1>5, <1>6, <1>7, <1>9 DEF Sound
<1>11. /\ UNCHANGED rows
       /\ lock' \in [Jobs -> Txs \cup {None}] /\ seqLock' \in Txs \cup {None}
       /\ \A u \in Txs \ {t} : /\ \A j \in Jobs : lock[j] = u => lock'[j] = u
                               /\ seqLock = u => seqLock' = u
  BY DEF Orderly, TypeOK
<1>12. tx' = [tx EXCEPT ![t] = y]
  BY <1>3
<1> HIDE DEF y
<1>13. QED
  BY <1>2, <1>10, <1>11, <1>12, Quiet

LEMMA AskOrderly ==
  ASSUME Orderly, NEW t \in Txs, NEW op \in Sent, NEW who \in Techs \cup {None},
         NEW seen \in PartOf(Versions), Ask(t, op, who, seen)
  PROVE  Orderly'
<1> DEFINE p == CASE op \in {"assign", "bulk", "deactivate"} -> "asked"
                  [] op = "create" -> "numbering"
                  [] OTHER -> "locking"
           y == [op |-> op, who |-> who, seen |-> seen, todo |-> DOMAIN seen, phase |-> p,
                 read |-> <<>>, fresh |-> None, number |-> None]
<1>1. /\ tx[t] = None /\ tx' = [tx EXCEPT ![t] = y] /\ UNCHANGED <<rows, lock, seqLock>>
      /\ \A j \in DOMAIN seen : card[j] # None
  BY DEF Ask
<1>2. op # "bulk" => \A i, j \in DOMAIN seen : i = j
  <2>1. CASE op \in {"create", "deactivate"}
    BY <2>1 DEF Ask
  <2>2. CASE op \notin {"create", "deactivate", "bulk"}
    <3>1. \E j \in Jobs : DOMAIN seen = {j}
      BY <2>2 DEF Ask
    <3>2. QED
      BY <3>1
  <2>3. QED
    BY <2>1, <2>2
<1>3. op \in {"create", "deactivate"} => DOMAIN seen = {}
  BY DEF Ask
<1>4. DOMAIN seen \subseteq Jobs
  BY PartOfIs
<1>5. <<>> \in PartOf(Card) /\ DOMAIN <<>> = {}
  <2>1. DOMAIN <<>> = {} /\ <<>> \in [{} -> Card]
    OBVIOUS
  <2>2. QED
    BY <2>1, PartOfIs
<1>6. op \in Ops /\ p \in Phases
  BY JobsAssumption DEF Phases
<1>7. y \in Tx
  BY <1>4, <1>5, <1>6 DEF Tx
<1>8. tx'[t] = y
  BY <1>1 DEF Orderly, TypeOK
<1>9. p \notin {"written", "committed", "told"} /\ (p = "numbering" => op = "create")
  OBVIOUS
<1>10. Shaped(t)'
  BY <1>1, <1>2, <1>3, <1>5, <1>8, <1>9 DEF Shaped, rows
<1>11. Pending(t)' /\ Holding(t)'
  BY <1>5, <1>8, <1>9 DEF Pending, Holding
<1>12. Sound(t)'
  BY <1>10, <1>11 DEF Sound
<1>13. /\ UNCHANGED rows
       /\ lock' \in [Jobs -> Txs \cup {None}] /\ seqLock' \in Txs \cup {None}
       /\ \A u \in Txs \ {t} : /\ \A j \in Jobs : lock[j] = u => lock'[j] = u
                               /\ seqLock = u => seqLock' = u
  BY <1>1 DEF Orderly, TypeOK
<1>14. tx' = [tx EXCEPT ![t] = y] /\ y \in Tx \cup {None}
  BY <1>1, <1>7
<1>15. QED
  BY <1>12, <1>13, <1>14, Quiet

\* A card is locked, and what the operation makes of it is the row it holds.
LEMMA LockNextOrderly == ASSUME Orderly, NEW t \in Txs, LockNext(t) PROVE Orderly'
<1>1. PICK j \in tx[t].todo : lock[j] = None /\ Decide(t, j)
  BY DEF LockNext
<1> DEFINE x    == [tx[t] EXCEPT !.todo = @ \ {j}]
           ok   == Allowed(x, j, card[j]) /\ card[j].version < MaxVersion
           took == [x EXCEPT !.read = [i \in DOMAIN x.read \cup {j} |->
                                         IF i = j THEN card[j] ELSE x.read[i]]]
           done == IF ok THEN took ELSE x
           y    == [done EXCEPT !.phase = Locked(x)]
<1>2. tx[t] # None /\ tx[t] \in Tx /\ tx[t].phase = "locking" /\ Sound(t) /\ TypeOK
  BY DEF LockNext, At, Orderly, TypeOK
<1>3. /\ tx[t].todo \subseteq DOMAIN tx[t].seen /\ DOMAIN tx[t].seen \subseteq Jobs
      /\ tx[t].fresh = None /\ tx[t].number = None
      /\ j \in Jobs /\ card[j] # None /\ card[j] \in Card
  BY <1>1, <1>2, TxFields DEF Sound, Shaped, TypeOK
<1>4. Holding(t)
  BY <1>2 DEF Sound, Pending
<1>5. CASE ~(ok \/ x.op = "bulk")
  <2>1. Refuse(t)
    BY <1>1, <1>5 DEF Decide
  <2>2. QED
    BY <2>1, RefuseOrderly
<1>6. CASE ok \/ x.op = "bulk"
  <2>1. tx' = [tx EXCEPT ![t] = y] /\ lock' = [lock EXCEPT ![j] = t] /\ UNCHANGED <<rows, seqLock>>
    BY <1>1, <1>6 DEF Decide
  <2>2. /\ x \in Tx /\ x.op = tx[t].op /\ x.who = tx[t].who /\ x.seen = tx[t].seen
        /\ x.todo = tx[t].todo \ {j} /\ x.read = tx[t].read /\ x.fresh = None /\ x.number = None
    BY <1>2, <1>3 DEF Tx
  <2>3. Locked(x) \in {"locking", "numbering", "written"} /\ (Locked(x) = "numbering" => x.op = "renew")
    BY DEF Locked
  <2>4. /\ done \in Tx /\ done.op = x.op /\ done.who = x.who /\ done.seen = x.seen /\ done.todo = x.todo
        /\ done.fresh = None /\ done.number = None
        /\ DOMAIN done.read \subseteq DOMAIN x.read \cup {j}
        /\ \A i \in DOMAIN done.read :
             \/ i = j /\ done.read[j] = card[j] /\ Allowed(x, j, card[j]) /\ card[j].version < MaxVersion
             \/ i \in DOMAIN x.read /\ done.read[i] = x.read[i]
    <3>1. CASE ok
      <4> DEFINE g == [i \in DOMAIN x.read \cup {j} |-> IF i = j THEN card[j] ELSE x.read[i]]
      <4>1. /\ g \in PartOf(Card) /\ DOMAIN g = DOMAIN x.read \cup {j}
            /\ g[j] = card[j] /\ \A i \in DOMAIN x.read \ {j} : g[i] = x.read[i]
        <5>1. x.read \in [DOMAIN x.read -> Card] /\ DOMAIN x.read \subseteq Jobs
          BY <2>2, TxFields
        <5> HIDE DEF x
        <5>2. /\ g \in [DOMAIN x.read \cup {j} -> Card] /\ DOMAIN g = DOMAIN x.read \cup {j}
              /\ g[j] = card[j] /\ \A i \in DOMAIN x.read \ {j} : g[i] = x.read[i]
          BY <1>3, <5>1
        <5> HIDE DEF g
        <5>3. QED
          BY <1>3, <5>1, <5>2, PartOfIs
      <4>2. took = [x EXCEPT !.read = g]
        OBVIOUS
      <4> HIDE DEF g
      <4>3. /\ took \in Tx /\ took.op = x.op /\ took.who = x.who /\ took.seen = x.seen /\ took.todo = x.todo
            /\ took.fresh = None /\ took.number = None /\ took.read = g
        BY <2>2, <4>1, <4>2 DEF Tx
      <4> HIDE DEF took, x
      <4>4. QED
        BY <3>1, <4>1, <4>3
    <3>2. CASE ~ok
      BY <2>2, <3>2
    <3>3. QED
      BY <3>1, <3>2
  <2> HIDE DEF done, x
  <2>5. /\ y \in Tx /\ y.op = tx[t].op /\ y.who = tx[t].who /\ y.seen = tx[t].seen
        /\ y.todo = tx[t].todo \ {j}
        /\ y.fresh = None /\ y.number = None /\ y.read = done.read /\ y.phase = Locked(x)
    BY <2>2, <2>3, <2>4 DEF Tx, Phases
  <2> HIDE DEF y
  <2>6. tx'[t] = y
    BY <1>2, <2>1 DEF TypeOK
  <2>7. Shaped(t)'
    <3>1. DOMAIN y.read \subseteq DOMAIN y.seen
      BY <1>1, <1>2, <1>3, <2>2, <2>4, <2>5 DEF Sound, Shaped
    <3>2. QED
      BY <1>2, <1>3, <2>1, <2>2, <2>3, <2>5, <2>6, <3>1 DEF Sound, Shaped, rows
  <2>8. Pending(t)'
    BY <2>3, <2>5, <2>6 DEF Pending
  <2>9. \A i, r : Allowed(x, i, r) => Allowed(y, i, r)
    BY <2>2, <2>5 DEF Allowed, Own, Seen
  <2>10. \A i, r : Allowed(tx[t], i, r) => Allowed(y, i, r)
    BY <2>5 DEF Allowed, Own, Seen
  <2>11. Holding(t)'
    <3>1. ASSUME NEW i \in DOMAIN y.read
          PROVE  lock'[i] = t /\ y.read[i] = card[i] /\ card[i].version < MaxVersion /\ Allowed(y, i, card[i])
      <4>1. CASE i = j /\ done.read[j] = card[j] /\ Allowed(x, j, card[j]) /\ card[j].version < MaxVersion
        BY <1>2, <1>3, <2>1, <2>5, <2>9, <4>1 DEF TypeOK
      <4>2. CASE i \in DOMAIN x.read /\ done.read[i] = x.read[i]
        <5>1. /\ i \in DOMAIN tx[t].read /\ y.read[i] = tx[t].read[i] /\ i \in Jobs
              /\ lock[i] = t
          BY <1>2, <1>4, <2>2, <2>5, <4>2, TxFields DEF Holding
        <5>2. QED
          BY <1>2, <1>4, <2>1, <2>10, <5>1 DEF Holding, TypeOK
      <4>3. QED
        BY <2>4, <2>5, <3>1, <4>1, <4>2
    <3>2. QED
      BY <2>1, <2>5, <2>6, <3>1 DEF Holding, rows
  <2>12. Sound(t)'
    BY <2>7, <2>8, <2>11 DEF Sound
  <2>13. /\ lock' \in [Jobs -> Txs \cup {None}] /\ seqLock' \in Txs \cup {None}
         /\ \A u \in Txs \ {t} : /\ \A i \in Jobs : lock[i] = u => lock'[i] = u
                                 /\ seqLock = u => seqLock' = u
    BY <1>1, <1>2, <1>3, <2>1, JobsAssumption DEF TypeOK
  <2>14. UNCHANGED rows /\ y \in Tx \cup {None}
    BY <2>1, <2>5
  <2>15. QED
    BY <2>1, <2>12, <2>13, <2>14, Quiet
<1>7. QED
  BY <1>5, <1>6

\* A number is drawn: the row of sequences is taken, and the number after it is for one
\* card more, so it is still one of Numbers.
LEMMA AllocateOrderly == ASSUME Orderly, NEW t \in Txs, Allocate(t) PROVE Orderly'
<1>1. CASE Spare = {} /\ Refuse(t)
  BY <1>1, RefuseOrderly
<1>2. ASSUME NEW j \in Spare, seqLock' = t, UNCHANGED <<rows, lock>>,
             tx' = [tx EXCEPT ![t].fresh = j, ![t].number = seq + 1, ![t].phase = "written"]
      PROVE  Orderly'
  <2> DEFINE x == tx[t]
             y == [x EXCEPT !.fresh = j, !.number = seq + 1, !.phase = "written"]
  <2>1. x # None /\ x \in Tx /\ x.phase = "numbering" /\ Sound(t) /\ TypeOK /\ seqLock = None
    BY DEF Allocate, At, Orderly, TypeOK
  <2>2. j \in Jobs /\ card[j] = None
    BY DEF Spare
  <2>3. seq + 1 \in Numbers
    <3>1. IsFiniteSet(Jobs) /\ Raised \subseteq Jobs \ {j} /\ IsFiniteSet(Jobs \ {j})
      BY <2>2, JobsAssumption, FS_RemoveElement DEF Raised
    <3>2. Cardinality(Raised) <= Cardinality(Jobs \ {j})
      BY <3>1, FS_Subset
    <3>3. Cardinality(Jobs \ {j}) = Cardinality(Jobs) - 1 /\ Cardinality(Jobs) \in Nat
      BY <2>2, JobsAssumption, FS_RemoveElement, FS_CardinalityType
    <3>4. seq = Cardinality(Raised) /\ seq \in Numbers \cup {0}
      BY DEF Orderly, TypeOK
    <3>5. QED
      BY <3>2, <3>3, <3>4 DEF Numbers
  <2>4. /\ y \in Tx /\ y.op = x.op /\ y.who = x.who /\ y.seen = x.seen /\ y.todo = x.todo
        /\ y.read = x.read /\ y.fresh = j /\ y.number = seq + 1 /\ y.phase = "written"
    BY <2>1, <2>2, <2>3 DEF Tx, Phases
  <2>5. tx' = [tx EXCEPT ![t] = y]
    BY <1>2, <2>1 DEF TypeOK
  <2> HIDE DEF y
  <2>6. tx'[t] = y
    BY <2>1, <2>5 DEF TypeOK
  <2>7. j # None /\ seq + 1 # None
    BY <2>2, <2>3, JobsAssumption DEF Numbers
  <2>8. Shaped(t)'
    BY <1>2, <2>1, <2>4, <2>6, <2>7 DEF Sound, Shaped, rows
  <2>9. Pending(t) /\ Pending(t)'
    BY <2>1, <2>4, <2>6 DEF Pending
  <2>10. \A i, r : Allowed(x, i, r) => Allowed(y, i, r)
    BY <2>4 DEF Allowed, Own, Seen
  <2>11. Holding(t)'
    BY <1>2, <2>1, <2>2, <2>4, <2>6, <2>9, <2>10 DEF Sound, Holding, rows
  <2>12. Sound(t)'
    BY <2>8, <2>9, <2>11 DEF Sound
  <2>13. /\ lock' \in [Jobs -> Txs \cup {None}] /\ seqLock' \in Txs \cup {None}
         /\ \A u \in Txs \ {t} : /\ \A i \in Jobs : lock[i] = u => lock'[i] = u
                                 /\ seqLock = u => seqLock' = u
    BY <1>2, <2>1, JobsAssumption DEF TypeOK
  <2>14. UNCHANGED rows /\ y \in Tx \cup {None}
    BY <1>2, <2>4
  <2>15. QED
    BY <2>5, <2>12, <2>13, <2>14, Quiet
<1>3. QED
  BY <1>1, <1>2 DEF Allocate

-----------------------------------------------------------------------------
(* The commit. *)

\* What a COMMIT does to the cards: those it holds move by one version, the one it
\* raises had no row, and no other changes.
LEMMA CommitCards ==
  ASSUME Orderly, NEW t \in Txs, Commit(t), NEW x, x = tx[t]
  PROVE  /\ x \in Tx /\ x # None /\ Shaped(t) /\ Holding(t) /\ Pending(t)
         /\ \A j \in DOMAIN x.read :
              /\ j \in Jobs /\ lock[j] = t /\ card[j] \in Card /\ card[j] # None /\ x.read[j] = card[j]
              /\ x.op \in CardOps /\ Allowed(x, j, card[j]) /\ card[j].version < MaxVersion
              /\ After(x, card[j]) \in Card /\ card'[j] = After(x, card[j])
         /\ x.fresh # None =>
              /\ x.fresh \in Jobs /\ card[x.fresh] = None /\ x.fresh \notin DOMAIN x.read
              /\ seq + 1 \in Numbers /\ seqLock = t
              /\ card'[x.fresh] = NewCard(seq + 1) /\ NewCard(seq + 1) \in Card
         /\ seq' = IF x.fresh = None THEN seq ELSE seq + 1
         /\ \A j \in Jobs \ DOMAIN x.read : j # x.fresh => card'[j] = card[j]
<1>1. x \in Tx /\ x # None /\ Sound(t) /\ TypeOK
  BY DEF Orderly, TypeOK, Commit, At
<1>2. Shaped(t) /\ Holding(t) /\ Pending(t)
  BY <1>1 DEF Sound, Pending, Commit, At
<1>3. card' = [j \in Jobs |-> IF j \in DOMAIN x.read THEN After(x, card[j])
                              ELSE IF j = x.fresh THEN NewCard(x.number) ELSE card[j]]
  BY DEF Commit
<1>4. ASSUME NEW j \in DOMAIN x.read
      PROVE  /\ j \in Jobs /\ lock[j] = t /\ card[j] \in Card /\ card[j] # None /\ x.read[j] = card[j]
             /\ x.op \in CardOps /\ Allowed(x, j, card[j]) /\ card[j].version < MaxVersion
             /\ After(x, card[j]) \in Card /\ card'[j] = After(x, card[j])
  <2>1. j \in Jobs /\ x.read[j] \in Card
    BY <1>1, TxFields
  <2>2. lock[j] = t /\ x.read[j] = card[j] /\ card[j].version < MaxVersion /\ Allowed(x, j, card[j])
    BY <1>2 DEF Holding
  <2>3. x.op \in CardOps
    BY <2>2 DEF Allowed, CardOps
  <2>4. After(x, card[j]) \in Card
    BY <1>1, <2>1, <2>2, <2>3, AfterIs
  <2>5. QED
    BY <1>3, <2>1, <2>2, <2>3, <2>4, JobsAssumption
<1>5. ASSUME x.fresh # None
      PROVE  /\ x.fresh \in Jobs /\ card[x.fresh] = None /\ x.fresh \notin DOMAIN x.read
             /\ seq + 1 \in Numbers /\ seqLock = t /\ x.number = seq + 1
             /\ card'[x.fresh] = NewCard(seq + 1) /\ NewCard(seq + 1) \in Card
  <2>1. x.fresh \in Jobs /\ x.number \in Numbers \cup {None}
    BY <1>1, <1>5, TxFields
  <2>2. card[x.fresh] = None /\ seqLock = t /\ x.number = seq + 1
    BY <1>2, <1>5 DEF Holding
  <2>3. x.number # None
    BY <1>2, <1>5 DEF Shaped
  <2>4. x.fresh \notin DOMAIN x.read
    BY <1>2, <2>2 DEF Shaped
  <2>5. NewCard(seq + 1) \in Card
    BY <2>1, <2>2, <2>3, JobsAssumption DEF NewCard, Card, Statuses, Versions
  <2>6. QED
    BY <1>3, <2>1, <2>2, <2>3, <2>4, <2>5
<1>6. seq' = IF x.fresh = None THEN seq ELSE seq + 1
  <2>1. seq' = IF x.number # None THEN x.number ELSE seq
    BY DEF Commit
  <2>2. x.fresh = None <=> x.number = None
    BY <1>2 DEF Shaped
  <2>3. QED
    BY <1>5, <2>1, <2>2
<1>7. \A j \in Jobs \ DOMAIN x.read : j # x.fresh => card'[j] = card[j]
  BY <1>3
<1>8. QED
  BY <1>1, <1>2, <1>4, <1>5, <1>6, <1>7

\* A card that is there stays, with its number, and its version never goes back.
LEMMA CardsGrow ==
  ASSUME Orderly, NEW t \in Txs, Commit(t), NEW j \in Jobs, card[j] # None
  PROVE  card'[j] # None /\ card'[j].version >= card[j].version /\ card'[j].number = card[j].number
<1> DEFINE x == tx[t]
<1>1. card[j] \in Card /\ card[j].version \in Nat
  BY DEF Orderly, TypeOK, Card, Versions
<1>2. CASE j \in DOMAIN x.read
  <2>1. /\ x \in Tx /\ x.op \in CardOps /\ card[j].version < MaxVersion
        /\ card'[j] = After(x, card[j]) /\ After(x, card[j]) \in Card
    BY <1>2, CommitCards
  <2>2. card'[j].version = card[j].version + 1 /\ card'[j].number = card[j].number
    BY <1>1, <2>1, AfterIs
  <2>3. QED
    BY <1>1, <2>1, <2>2, JobsAssumption
<1>3. CASE j \notin DOMAIN x.read
  <2>1. j # x.fresh
    BY CommitCards, JobsAssumption
  <2>2. card'[j] = card[j]
    BY <1>3, <2>1, CommitCards
  <2>3. QED
    BY <1>1, <2>2
<1>4. QED
  BY <1>2, <1>3

LEMMA CommitType == ASSUME Orderly, NEW t \in Txs, Commit(t) PROVE TypeOK'
<1> DEFINE x == tx[t]
<1>1. TypeOK /\ x \in Tx
  BY CommitCards DEF Orderly
<1>2. card' \in [Jobs -> Card \cup {None}]
  <2>1. card' = [j \in Jobs |-> card'[j]]
    BY DEF Commit
  <2>2. ASSUME NEW j \in Jobs PROVE card'[j] \in Card \cup {None}
    <3>1. CASE j \in DOMAIN x.read
      BY <3>1, CommitCards
    <3>2. CASE j \notin DOMAIN x.read /\ j = x.fresh
      <4>1. x.fresh # None
        BY <3>2, JobsAssumption
      <4>2. QED
        BY <3>2, <4>1, CommitCards
    <3>3. CASE j \notin DOMAIN x.read /\ j # x.fresh
      BY <1>1, <3>3, CommitCards DEF TypeOK
    <3>4. QED
      BY <3>1, <3>2, <3>3
  <2>3. QED
    BY <2>1, <2>2
<1>3. trail' \in [Jobs -> Seq(Event)]
  <2>1. Created \in Event
    BY DEF Created, Event, Statuses
  <2>2. ASSUME NEW j \in DOMAIN x.read PROVE EventOf(x, j) \in Event
    <3>1. card[j] \in Card /\ After(x, card[j]) \in Card /\ x.read[j] = card[j]
      BY CommitCards
    <3>2. QED
      BY <3>1 DEF EventOf, Event, Card
  <2>3. ASSUME NEW j \in Jobs
        PROVE  (IF j \in DOMAIN x.read THEN Append(trail[j], EventOf(x, j))
                ELSE IF j = x.fresh THEN <<Created>> ELSE trail[j]) \in Seq(Event)
    <3>1. trail[j] \in Seq(Event)
      BY <1>1 DEF TypeOK
    <3>2. <<Created>> \in Seq(Event)
      BY <2>1
    <3>3. QED
      BY <2>2, <3>1, <3>2
  <2>4. trail' = [j \in Jobs |-> IF j \in DOMAIN x.read THEN Append(trail[j], EventOf(x, j))
                                 ELSE IF j = x.fresh THEN <<Created>> ELSE trail[j]]
    BY DEF Commit
  <2>5. QED
    BY <2>3, <2>4
<1>4. closed' \subseteq Closure
  <2>1. x.fresh \in Jobs \cup {None} /\ DOMAIN x.read \subseteq Jobs
    BY <1>1, TxFields
  <2>2. Closures(x) \subseteq Closure
    BY <2>1 DEF Closures, Closure
  <2>3. QED
    BY <1>1, <2>2 DEF Commit, TypeOK
<1>5. active' \subseteq Techs
  BY <1>1 DEF Commit, TypeOK
<1>6. seq' \in Numbers \cup {0}
  BY <1>1, CommitCards DEF TypeOK
<1>7. lock' \in [Jobs -> Txs \cup {None}] /\ seqLock' \in Txs \cup {None}
  BY <1>1 DEF Commit, Unlock, TypeOK
<1>8. tx' \in [Txs -> Tx \cup {None}]
  <2>1. [x EXCEPT !.phase = "committed"] \in Tx
    BY <1>1 DEF Tx, Phases
  <2>2. tx' = [tx EXCEPT ![t] = IF Keyed THEN None ELSE [x EXCEPT !.phase = "committed"]]
    BY DEF Commit
  <2>3. QED
    BY <1>1, <2>1, <2>2 DEF TypeOK
<1>9. QED
  BY <1>2, <1>3, <1>4, <1>5, <1>6, <1>7, <1>8 DEF TypeOK

LEMMA CommitRaised ==
  ASSUME Orderly, NEW t \in Txs, Commit(t)
  PROVE  Cardinality(Raised)' = seq' /\ NumbersDistinct'
<1> DEFINE x == tx[t]
<1>1. Cardinality(Raised) = seq /\ NumbersDistinct /\ TypeOK /\ seq \in Nat
  <2>1. Numbers \cup {0} \subseteq Nat
    BY DEF Numbers
  <2>2. QED
    BY <2>1 DEF Orderly, TypeOK
<1>2. \A j \in Jobs : card[j] # None => card'[j] # None /\ card'[j].number = card[j].number /\ card[j].number \in Nat
  BY <1>1, CardsGrow DEF TypeOK, Card, Numbers
<1>3. \A j \in Jobs : card[j] = None => card'[j] = None \/ (x.fresh # None /\ j = x.fresh)
  <2>1. ASSUME NEW j \in Jobs, card[j] = None PROVE card'[j] = None \/ (x.fresh # None /\ j = x.fresh)
    <3>1. j \notin DOMAIN x.read
      BY <2>1, CommitCards
    <3>2. CASE j = x.fresh
      BY <2>1, <3>2, JobsAssumption
    <3>3. CASE j # x.fresh
      BY <2>1, <3>1, <3>3, CommitCards
    <3>4. QED
      BY <3>2, <3>3
  <2>2. QED
    BY <2>1
<1>4. CASE x.fresh = None
  <2>1. Raised' = Raised /\ seq' = seq
    BY <1>2, <1>3, <1>4, CommitCards DEF Raised
  <2>2. NumbersDistinct'
    BY <1>1, <1>2, <1>3, <1>4, <2>1 DEF NumbersDistinct
  <2>3. QED
    BY <1>1, <2>1, <2>2
<1>5. CASE x.fresh # None
  <2>1. /\ x.fresh \in Jobs /\ card[x.fresh] = None /\ seq' = seq + 1
        /\ card'[x.fresh] \in Card /\ card'[x.fresh] = NewCard(seq + 1)
    BY <1>5, CommitCards
  <2>2. card'[x.fresh] # None /\ card'[x.fresh].number = seq + 1
    BY <2>1, JobsAssumption DEF NewCard
  <2>3. Raised' = Raised \cup {x.fresh} /\ x.fresh \notin Raised
    BY <1>2, <1>3, <2>1, <2>2 DEF Raised
  <2>4. IsFiniteSet(Raised)
    BY JobsAssumption, FS_Subset DEF Raised
  <2>5. Cardinality(Raised \cup {x.fresh}) = Cardinality(Raised) + 1
    BY <2>3, <2>4, FS_AddElement
  <2>6. NumbersDistinct'
    BY <1>1, <1>2, <1>3, <2>1, <2>2 DEF NumbersDistinct
  <2>7. QED
    BY <1>1, <2>1, <2>3, <2>5, <2>6
<1>6. QED
  BY <1>4, <1>5

\* The event of a move starts where the trail of the card ends.
LEMMA CommitTrail == ASSUME Orderly, NEW t \in Txs, Commit(t) PROVE TrailIsChain'
<1> DEFINE x == tx[t]
           Chain(s, r) == /\ Len(s) = r.version
                          /\ s[1] = Created
                          /\ \A i \in 2 .. Len(s) : s[i].from = s[i - 1].to
                          /\ s[Len(s)].to = r.status
<1>1. ASSUME NEW j \in Jobs, card'[j] # None PROVE Chain(trail'[j], card'[j])
  <2>1. CASE j \in DOMAIN x.read
    <3> DEFINE r == card[j]
               e == EventOf(x, j)
    <3>1. /\ r \in Card /\ r # None /\ x.read[j] = r /\ x.op \in CardOps /\ x \in Tx
          /\ r.version < MaxVersion /\ card'[j] = After(x, r)
      BY <2>1, CommitCards
    <3>2. trail'[j] = Append(trail[j], e)
      BY <2>1 DEF Commit
    <3>3. trail[j] \in Seq(Event) /\ Chain(trail[j], r)
      BY <3>1 DEF Orderly, TypeOK, TrailIsChain
    <3>4. e.from = r.status /\ e.to = card'[j].status
      BY <3>1 DEF EventOf
    <3>5. card'[j].version = r.version + 1 /\ r.version \in Nat \ {0}
      BY <3>1, AfterIs DEF Card, Versions
    <3> HIDE DEF e, r
    <3>6. /\ Len(trail'[j]) = Len(trail[j]) + 1 /\ Len(trail[j]) \in Nat \ {0}
          /\ trail'[j][Len(trail[j]) + 1] = e
          /\ \A i \in 1 .. Len(trail[j]) : trail'[j][i] = trail[j][i]
      BY <3>2, <3>3, <3>5
    <3>7. ASSUME NEW i \in 2 .. Len(trail'[j]) PROVE trail'[j][i].from = trail'[j][i - 1].to
      <4> DEFINE n == Len(trail[j])
      <4>1. /\ trail[j][n].to = r.status /\ n \in Nat \ {0}
            /\ \A k \in 2 .. n : trail[j][k].from = trail[j][k - 1].to
            /\ trail'[j][n + 1] = e /\ \A k \in 1 .. n : trail'[j][k] = trail[j][k]
            /\ i \in 2 .. n + 1
        BY <3>3, <3>6
      <4> HIDE DEF n
      <4>2. CASE i = n + 1
        <5>1. i - 1 = n /\ trail'[j][i] = e /\ trail'[j][n] = trail[j][n]
          BY <4>1, <4>2
        <5>2. QED
          BY <3>4, <4>1, <5>1
      <4>3. CASE i \in 2 .. n
        <5>1. i - 1 \in 1 .. n /\ i \in 1 .. n
          BY <4>1, <4>3
        <5>2. QED
          BY <4>1, <4>3, <5>1
      <4>4. QED
        BY <4>1, <4>2, <4>3
    <3>8. QED
      BY <3>3, <3>4, <3>5, <3>6, <3>7
  <2>2. CASE j \notin DOMAIN x.read /\ j = x.fresh
    <3>1. x.fresh # None
      BY <2>2, JobsAssumption
    <3>2. card'[j] = NewCard(seq + 1)
      BY <2>2, <3>1, CommitCards
    <3>3. trail'[j] = <<Created>>
      BY <2>2 DEF Commit
    <3>4. QED
      BY <3>2, <3>3 DEF NewCard, Created
  <2>3. CASE j \notin DOMAIN x.read /\ j # x.fresh
    <3>1. card'[j] = card[j] /\ trail'[j] = trail[j]
      BY <2>3, CommitCards DEF Commit
    <3>2. QED
      BY <1>1, <3>1 DEF Orderly, TrailIsChain
  <2>4. QED
    BY <2>1, <2>2, <2>3
<1>2. QED
  BY <1>1 DEF TrailIsChain

\* What a card in a status must have among the closures.
KindsFor(r) == IF r = None \/ r.status \in Open THEN {} ELSE {r.status}

LEMMA CommitClosed == ASSUME Orderly, NEW t \in Txs, Commit(t) PROVE ClosedOnce'
<1> DEFINE x == tx[t]
           closing == x.op \in {"cancel", "renew", "complete"}
           kind == IF x.op = "complete" THEN "completed" ELSE "cancelled"
           new(j) == [job |-> j, kind |-> kind, successor |-> x.fresh]
<1>1. x \in Tx /\ ClosedOnce /\ closed \subseteq Closure /\ closed' = closed \cup Closures(x)
  BY CommitCards DEF Orderly, TypeOK, Commit
<1>2. Closures(x) = {new(j) : j \in IF closing THEN DOMAIN x.read ELSE {}}
  BY DEF Closures
<1>3. \A c \in closed : c.job \in Jobs /\ (c.successor # None => card[c.successor] # None)
  BY <1>1 DEF ClosedOnce, Closure
<1>4. ASSUME NEW j \in DOMAIN x.read, closing PROVE \A c \in closed : c.job # j
  <2>1. j \in Jobs /\ card[j] # None /\ card[j].status \in Open
    BY <1>4, CommitCards DEF Allowed, Held
  <2>2. {c.kind : c \in {d \in closed : d.job = j}} = {}
    BY <1>1, <2>1 DEF ClosedOnce
  <2>3. QED
    BY <2>2
<1>5. ASSUME NEW j \in Jobs
      PROVE  {c.kind : c \in {d \in closed' : d.job = j}} = KindsFor(card'[j])
  <2> DEFINE kinds == {c.kind : c \in {d \in closed : d.job = j}}
  <2>1. kinds = KindsFor(card[j])
    BY <1>1 DEF ClosedOnce, KindsFor
  <2>2. CASE j \in DOMAIN x.read /\ closing
    <3>1. {d \in closed' : d.job = j} = {new(j)}
      BY <1>1, <1>2, <1>4, <2>2
    <3>2. {c.kind : c \in {d \in closed' : d.job = j}} = {kind}
      <4>1. new(j).kind = kind
        OBVIOUS
      <4> HIDE DEF new, kind
      <4>2. {c.kind : c \in {new(j)}} = {kind}
        BY <4>1
      <4>3. QED
        BY <3>1, <4>2
    <3>3. card[j] \in Card /\ card[j].version < MaxVersion /\ card'[j] = After(x, card[j]) /\ After(x, card[j]) \in Card
      BY <2>2, CommitCards
    <3>4. card'[j] # None /\ card'[j].status = kind
      BY <1>1, <2>2, <3>3, AfterIs, JobsAssumption DEF CardOps
    <3>5. QED
      BY <3>2, <3>4 DEF KindsFor, Open
  <2>3. CASE j \notin DOMAIN x.read \/ ~closing
    <3>1. {d \in closed' : d.job = j} = {d \in closed : d.job = j}
      BY <1>1, <1>2, <2>3
    <3>2. {c.kind : c \in {d \in closed' : d.job = j}} = kinds
      BY <3>1
    <3>3. KindsFor(card'[j]) = KindsFor(card[j])
      <4>1. CASE j \in DOMAIN x.read
        <5>1. /\ card[j] \in Card /\ card[j] # None /\ card[j].version < MaxVersion
              /\ card'[j] = After(x, card[j]) /\ After(x, card[j]) \in Card /\ x.op \in CardOps
              /\ Allowed(x, j, card[j])
          BY <4>1, CommitCards
        <5>2. card'[j] # None
          BY <5>1, JobsAssumption
        <5>3. CASE x.op = "reschedule"
          <6>1. card'[j].status = card[j].status
            BY <1>1, <5>1, <5>3, AfterIs
          <6>2. QED
            BY <5>1, <5>2, <6>1 DEF KindsFor
        <5>4. CASE x.op \in {"assign", "bulk", "en_route", "in_progress"}
          <6>1. card'[j].status \in Open
            BY <1>1, <5>1, <5>4, AfterIs DEF Open
          <6>2. card[j].status \in Open
            BY <5>1, <5>4 DEF Allowed, Open
          <6>3. QED
            BY <6>1, <6>2 DEF KindsFor
        <5>5. QED
          BY <2>3, <4>1, <5>1, <5>3, <5>4 DEF CardOps
      <4>2. CASE j \notin DOMAIN x.read /\ j = x.fresh
        <5>1. x.fresh # None
          BY <4>2, JobsAssumption
        <5>2. card[j] = None /\ card'[j] = NewCard(seq + 1)
          BY <4>2, <5>1, CommitCards
        <5>3. QED
          BY <5>2 DEF KindsFor, NewCard, Open
      <4>3. CASE j \notin DOMAIN x.read /\ j # x.fresh
        BY <4>3, CommitCards
      <4>4. QED
        BY <4>1, <4>2, <4>3
    <3>4. QED
      BY <2>1, <3>2, <3>3
  <2>4. QED
    BY <2>2, <2>3
<1>6. ASSUME NEW c \in closed', NEW d \in closed'
      PROVE  /\ c.job = d.job => c = d
             /\ c.successor # None => /\ card'[c.successor] # None /\ c.successor # c.job
                                      /\ c.successor = d.successor => c = d
  <2>1. CASE c \in closed /\ d \in closed
    <3>1. /\ c.job = d.job => c = d
          /\ c.successor # None => c.successor # c.job /\ (c.successor = d.successor => c = d)
      BY <1>1, <2>1 DEF ClosedOnce
    <3>2. c.successor # None => card'[c.successor] # None
      BY <1>1, <1>3, <2>1, CardsGrow DEF Closure
    <3>3. QED
      BY <3>1, <3>2
  <2>2. CASE c \in Closures(x)
    <3>1. PICK j \in DOMAIN x.read : c = new(j) /\ closing
      BY <1>2, <2>2
    <3>2. c.job = j /\ c.successor = x.fresh
      BY <3>1
    <3>3. x.fresh # None => /\ card[x.fresh] = None /\ card'[x.fresh] # None /\ x.fresh # j
                            /\ x.op \in {"create", "renew"}
      BY <3>1, CommitCards, JobsAssumption DEF Shaped
    <3>4. CASE d \in closed
      BY <1>3, <1>4, <3>1, <3>2, <3>3, <3>4
    <3>5. CASE d \in Closures(x)
      <4>1. PICK i \in DOMAIN x.read : d = new(i)
        BY <1>2, <3>5
      <4>2. x.fresh # None => i = j
        BY <3>1, <3>3, <4>1, CommitCards DEF Shaped
      <4>3. d.job = i
        BY <4>1
      <4>4. QED
        BY <3>1, <3>2, <3>3, <4>1, <4>2, <4>3
    <3>6. QED
      BY <1>1, <3>4, <3>5
  <2>3. CASE c \in closed /\ d \in Closures(x)
    <3>1. PICK j \in DOMAIN x.read : d = new(j) /\ closing
      BY <1>2, <2>3
    <3>2. d.job = j /\ d.successor = x.fresh
      BY <3>1
    <3>3. c.job # d.job
      BY <1>4, <2>3, <3>1, <3>2
    <3>4. c.successor # None => card[c.successor] # None /\ card'[c.successor] # None /\ c.successor # c.job
      BY <1>1, <1>3, <2>3, CardsGrow DEF ClosedOnce, Closure
    <3>5. x.fresh # None => card[x.fresh] = None
      BY CommitCards
    <3>6. QED
      BY <3>2, <3>3, <3>4, <3>5
  <2>4. QED
    BY <1>1, <2>1, <2>2, <2>3
<1>7. QED
  BY <1>5, <1>6 DEF ClosedOnce, KindsFor

\* Nobody else held what a COMMIT writes, and after it the cards of its own operation
\* are past what it read.
LEMMA CommitSound ==
  ASSUME Orderly, NEW t \in Txs, Commit(t), NEW u \in Txs, tx'[u] # None
  PROVE  Sound(u)'
<1> DEFINE x == tx[t]
<1>1. TypeOK /\ x \in Tx /\ x # None /\ Shaped(t) /\ Holding(t) /\ Pending(t)
  BY CommitCards DEF Orderly
<1>2. tx' = [tx EXCEPT ![t] = IF Keyed THEN None ELSE [x EXCEPT !.phase = "committed"]]
  BY DEF Commit
<1>3. CASE u = t
  <2>1. ~Keyed /\ tx'[t] = [x EXCEPT !.phase = "committed"]
    BY <1>1, <1>2, <1>3 DEF TypeOK
  <2> DEFINE y == [x EXCEPT !.phase = "committed"]
  <2>2. /\ y.op = x.op /\ y.seen = x.seen /\ y.todo = x.todo /\ y.read = x.read
        /\ y.fresh = x.fresh /\ y.number = x.number /\ y.phase = "committed"
    BY <1>1 DEF Tx
  <2> HIDE DEF y
  <2>3. ~Pending(t)'
    BY <2>1, <2>2 DEF Pending
  <2>4. Shaped(t)'
    <3>1. DOMAIN x.seen \subseteq Jobs
      BY <1>1, TxFields
    <3>2. \A j \in DOMAIN x.seen : card'[j] # None
      BY <1>1, <3>1, CardsGrow DEF Shaped
    <3>3. x.phase # "numbering"
      BY DEF Commit, At
    <3>4. QED
      BY <1>1, <2>1, <2>2, <3>2, <3>3 DEF Shaped
  <2>5. Passed(t)'
    <3>1. ASSUME NEW j \in DOMAIN x.read PROVE card'[j].version > x.read[j].version
      <4>1. /\ x.read[j] = card[j] /\ card[j] \in Card /\ card[j].version < MaxVersion
            /\ x.op \in CardOps /\ card'[j] = After(x, card[j])
        BY CommitCards
      <4>2. card'[j].version = card[j].version + 1 /\ card[j].version \in Nat
        BY <1>1, <4>1, AfterIs DEF Card, Versions
      <4>3. QED
        BY <4>1, <4>2
    <3>2. QED
      BY <2>1, <2>2, <3>1 DEF Passed
  <2>6. QED
    BY <1>3, <2>3, <2>4, <2>5 DEF Sound
<1>4. CASE u # t
  <2> DEFINE z == tx[u]
  <2>1. tx'[u] = z /\ z # None /\ z \in Tx /\ Sound(u)
    BY <1>2, <1>4 DEF Orderly, TypeOK
  <2>2. DOMAIN z.seen \subseteq Jobs /\ DOMAIN z.read \subseteq Jobs /\ z.read \in [DOMAIN z.read -> Card]
    BY <2>1, TxFields
  <2>3. Shaped(u)'
    <3>1. \A j \in DOMAIN z.seen : card'[j] # None
      BY <2>1, <2>2, CardsGrow DEF Sound, Shaped
    <3>2. QED
      BY <2>1, <3>1 DEF Sound, Shaped
  <2>4. Pending(u)' = Pending(u)
    BY <2>1 DEF Pending
  <2>5. Holding(u) => Holding(u)'
    <3>1. ASSUME Holding(u), NEW j \in DOMAIN z.read
          PROVE  lock'[j] = u /\ card'[j] = card[j]
      <4>1. lock[j] = u /\ card[j] \in Card /\ j \in Jobs /\ lock'[j] = u
        BY <1>4, <2>2, <3>1 DEF Holding, Commit, Unlock
      <4>2. j \notin DOMAIN x.read
        BY <1>4, <4>1, CommitCards
      <4>3. j # x.fresh
        BY <4>1, CommitCards, JobsAssumption
      <4>4. QED
        BY <4>1, <4>2, <4>3, CommitCards
    <3>2. ASSUME Holding(u), z.fresh # None
          PROVE  seqLock' = u /\ card'[z.fresh] = None /\ seq' = seq
      <4>1. seqLock = u /\ card[z.fresh] = None /\ z.fresh \in Jobs
        BY <2>1, <3>2, TxFields DEF Holding
      <4>2. x.fresh = None
        BY <1>4, <4>1, CommitCards
      <4>3. z.fresh \notin DOMAIN x.read
        BY <4>1, CommitCards
      <4>4. QED
        BY <1>4, <3>2, <4>1, <4>2, <4>3, CommitCards DEF Commit, Unlock
    <3>3. QED
      BY <2>1, <3>1, <3>2 DEF Holding
  <2>6. Passed(u) => Passed(u)'
    <3>1. ASSUME Shaped(u), Passed(u), NEW j \in DOMAIN z.read PROVE card'[j].version > z.read[j].version
      <4>1. j \in Jobs /\ card[j] # None /\ card[j] \in Card /\ card[j].version > z.read[j].version
        BY <1>1, <2>1, <2>2, <3>1 DEF Shaped, Passed, TypeOK
      <4>2. card'[j].version >= card[j].version /\ card'[j] # None
        BY <4>1, CardsGrow
      <4>3. card'[j] \in Card
        BY <4>1, <4>2, CommitType DEF TypeOK
      <4>4. card[j].version \in Nat /\ card'[j].version \in Nat /\ z.read[j].version \in Nat
        BY <2>2, <3>1, <4>1, <4>3 DEF Card, Versions
      <4>5. QED
        BY <4>1, <4>2, <4>4
    <3>2. QED
      BY <2>1, <3>1 DEF Passed, Sound
  <2>7. QED
    BY <2>1, <2>3, <2>4, <2>5, <2>6 DEF Sound
<1>5. QED
  BY <1>3, <1>4

LEMMA CommitOrderly == ASSUME Orderly, NEW t \in Txs, Commit(t) PROVE Orderly'
  BY CommitType, CommitRaised, CommitTrail, CommitClosed, CommitSound DEF Orderly

-----------------------------------------------------------------------------
(* Every step. *)

LEMMA StepOrderly == ASSUME Orderly, NEW t \in Txs, Step(t) \/ Rollback(t) PROVE Orderly'
<1>1. CASE FindTechnician(t)
  <2>1. tx[t] # None /\ Sound(t) /\ tx[t].phase = "asked"
    BY <1>1 DEF FindTechnician, At, Orderly
  <2>2. CASE tx[t].who \notin active /\ Refuse(t)
    BY <2>2, RefuseOrderly
  <2>3. CASE tx' = [tx EXCEPT ![t].phase = "locking"] /\ UNCHANGED <<rows, lock, seqLock>>
    BY <2>1, <2>3, PhaseOrderly DEF Sound, Shaped, Phases
  <2>4. QED
    BY <1>1, <2>2, <2>3 DEF FindTechnician
<1>2. CASE LockNext(t)
  BY <1>2, LockNextOrderly
<1>3. CASE Allocate(t)
  BY <1>3, AllocateOrderly
<1>4. CASE CheckOpenWork(t)
  <2>1. tx[t] # None /\ tx[t].phase = "asked"
    BY <1>4 DEF CheckOpenWork, At
  <2>2. CASE Refuse(t)
    BY <2>2, RefuseOrderly
  <2>3. CASE tx' = [tx EXCEPT ![t].phase = "written"] /\ UNCHANGED <<rows, lock, seqLock>>
    BY <2>1, <2>3, PhaseOrderly DEF Phases
  <2>4. QED
    BY <1>4, <2>2, <2>3 DEF CheckOpenWork
<1>5. CASE Commit(t)
  BY <1>5, CommitOrderly
<1>6. CASE Notify(t)
  <2>1. /\ tx[t] # None /\ (Keyed \/ tx[t].phase = "committed")
        /\ tx' = [tx EXCEPT ![t].phase = "told"] /\ UNCHANGED <<rows, lock, seqLock>>
    BY <1>6 DEF Notify, At
  <2>2. QED
    BY <2>1, PhaseOrderly DEF Phases
<1>7. CASE Answered(t) \/ Rollback(t)
  BY <1>7, RefuseOrderly DEF Answered, Rollback
<1>8. QED
  BY <1>1, <1>2, <1>3, <1>4, <1>5, <1>6, <1>7 DEF Step

LEMMA InitOrderly == ASSUME Init PROVE Orderly
<1>1. TypeOK
  BY JobsAssumption DEF Init, TypeOK
<1>2. Raised = {} /\ Cardinality({}) = 0
  BY FS_EmptySet DEF Init, Raised
<1>3. TrailIsChain /\ NumbersDistinct
  BY DEF Init, TrailIsChain, NumbersDistinct
<1>4. ClosedOnce
  BY DEF Init, ClosedOnce
<1>5. QED
  BY <1>1, <1>2, <1>3, <1>4 DEF Init, Orderly

LEMMA NextOrderly == ASSUME Orderly, [Next]_vars PROVE Orderly'
<1>1. ASSUME NEW t \in Txs, NEW op \in Sent, NEW who \in Techs \cup {None},
             NEW seen \in PartOf(Versions), Ask(t, op, who, seen)
      PROVE  Orderly'
  BY <1>1, AskOrderly
<1>2. ASSUME NEW t \in Txs, Step(t) \/ Rollback(t) PROVE Orderly'
  BY <1>2, StepOrderly
<1>3. CASE UNCHANGED <<card, trail, closed, seq, lock, seqLock, tx>> /\ active' \subseteq Techs
  <2>1. TypeOK'
    BY <1>3 DEF Orderly, TypeOK
  <2>2. \A t \in Txs : Sound(t) => Sound(t)'
    BY <1>3 DEF Sound, Shaped, Pending, Holding, Passed
  <2>3. TrailIsChain' /\ ClosedOnce' /\ NumbersDistinct' /\ Cardinality(Raised)' = seq'
    BY <1>3 DEF Orderly, TrailIsChain, ClosedOnce, NumbersDistinct, Raised
  <2>4. QED
    BY <1>3, <2>1, <2>2, <2>3 DEF Orderly
<1>4. ASSUME NEW e \in Techs, Reactivate(e) PROVE Orderly'
  BY <1>3, <1>4 DEF Reactivate, Orderly, TypeOK
<1>5. CASE UNCHANGED vars
  BY <1>3, <1>5 DEF vars, Orderly, TypeOK
<1>6. QED
  BY <1>1, <1>2, <1>4, <1>5 DEF Next, Arrival

LEMMA AlwaysOrderly == Spec => []Orderly
  BY InitOrderly, NextOrderly, PTL DEF Spec

-----------------------------------------------------------------------------
(* The theorems. *)

\* The rows keep their types: what an operation reads, holds and writes is a card, and
\* the numbers given out never exceed the cards they are given to.
THEOREM TypeCorrect == Spec => []TypeOK
<1>1. Orderly => TypeOK
  BY DEF Orderly
<1>2. QED
  BY <1>1, AlwaysOrderly, PTL

\* The trail of every card replays to the card (job_events against job_cards).
THEOREM TrailsReplay == Spec => []TrailIsChain
<1>1. Orderly => TrailIsChain
  BY DEF Orderly
<1>2. QED
  BY <1>1, AlwaysOrderly, PTL

\* A card ends once and one way, and a successor is raised for one card only
\* (job_completions and job_cancellations against job_cards).
THEOREM ClosesOnce == Spec => []ClosedOnce
<1>1. Orderly => ClosedOnce
  BY DEF Orderly
<1>2. QED
  BY <1>1, AlwaysOrderly, PTL

\* No two cards have one number, and none is ahead of the sequence (next_in_sequence).
THEOREM NumbersAreDistinct == Spec => []NumbersDistinct
<1>1. Orderly => NumbersDistinct
  BY DEF Orderly
<1>2. QED
  BY <1>1, AlwaysOrderly, PTL

\* Nor is a number passed over: as many cards are there as the sequence has counted,
\* whichever operations were refused or lost after they had drawn one.
THEOREM NumbersAreGapless ==
  Spec => [](\A n \in 1 .. seq : \E j \in Jobs : card[j] # None /\ card[j].number = n)
<1> DEFINE numberOf == [j \in Raised |-> card[j].number]
           Gapless == \A n \in 1 .. seq : \E j \in Jobs : card[j] # None /\ card[j].number = n
<1>1. ASSUME Orderly PROVE Gapless
  <2>1. /\ seq \in Nat /\ IsFiniteSet(1 .. seq) /\ Cardinality(1 .. seq) = seq
    BY <1>1, FS_Interval DEF Orderly, TypeOK, Numbers
  <2>2. IsFiniteSet(Raised) /\ Cardinality(Raised) = seq
    BY <1>1, JobsAssumption, FS_Subset DEF Orderly, Raised
  <2>3. numberOf \in Injection(Raised, 1 .. seq)
    <3>1. \A j \in Raised : card[j].number \in 1 .. seq
      BY <1>1 DEF Orderly, TypeOK, NumbersDistinct, Raised, Card, Numbers
    <3>2. \A i, j \in Raised : card[i].number = card[j].number => i = j
      BY <1>1 DEF Orderly, NumbersDistinct, Raised
    <3>3. QED
      BY <3>1, <3>2 DEF Injection, IsInjective
  <2>4. numberOf \in Surjection(Raised, 1 .. seq)
    BY <2>1, <2>2, <2>3, FS_Injection
  <2>5. QED
    BY <2>4 DEF Surjection, Raised
<1>2. QED
  BY <1>1, AlwaysOrderly, PTL

-----------------------------------------------------------------------------
(* The cards implement NumberSeries. *)

LEMMA SeriesStep ==
  ASSUME Orderly, [Next]_vars PROVE Series!Next \/ UNCHANGED <<NumberOf(card), seq>>
<1>1. CASE UNCHANGED <<card, seq>>
  BY <1>1 DEF NumberOf
<1>2. ASSUME NEW t \in Txs, Commit(t) PROVE Series!Next \/ UNCHANGED <<NumberOf(card), seq>>
  <2> DEFINE x == tx[t]
  <2>1. DOMAIN card = Jobs /\ DOMAIN card' = Jobs /\ seq \in Nat
    <3>1. Numbers \cup {0} \subseteq Nat
      BY DEF Numbers
    <3>2. QED
      BY <1>2, <3>1, CommitType DEF Orderly, TypeOK
  <2>2. \A j \in Jobs : card[j] # None => card'[j] # None /\ card'[j].number = card[j].number
    BY <1>2, CardsGrow
  <2>3. ASSUME NEW j \in Jobs, card[j] = None, j # x.fresh PROVE card'[j] = None
    <3>1. j \notin DOMAIN x.read
      BY <1>2, <2>3, CommitCards
    <3>2. QED
      BY <1>2, <2>3, <3>1, CommitCards
  <2>4. ASSUME NEW j \in Jobs, j # x.fresh PROVE NumberOf(card)'[j] = NumberOf(card)[j]
    BY <2>1, <2>2, <2>3, <2>4 DEF NumberOf
  <2>5. CASE x.fresh = None
    <3>1. seq' = seq
      BY <1>2, <2>5, CommitCards
    <3>2. \A j \in Jobs : j # x.fresh
      BY <2>5, JobsAssumption
    <3>3. NumberOf(card)' = NumberOf(card)
      BY <2>1, <2>4, <3>2 DEF NumberOf
    <3>4. QED
      BY <3>1, <3>3
  <2>6. CASE x.fresh # None
    <3>1. /\ x.fresh \in Jobs /\ card[x.fresh] = None /\ seq' = seq + 1
          /\ card'[x.fresh] \in Card /\ card'[x.fresh] = NewCard(seq + 1)
      BY <1>2, <2>6, CommitCards
    <3>2. card'[x.fresh] # None /\ card'[x.fresh].number = seq + 1
      BY <3>1, JobsAssumption DEF NewCard
    <3>3. NumberOf(card)[x.fresh] = None /\ NumberOf(card)'[x.fresh] = seq + 1
      BY <2>1, <3>1, <3>2 DEF NumberOf
    <3>4. NumberOf(card)' = [NumberOf(card) EXCEPT ![x.fresh] = seq + 1]
      BY <2>1, <2>4, <3>3 DEF NumberOf
    <3>5. QED
      BY <3>1, <3>3, <3>4 DEF Series!Next, Series!Issue
  <2>7. QED
    BY <2>5, <2>6
<1>3. ASSUME NEW t \in Txs, Step(t) \/ Rollback(t), ~Commit(t) PROVE UNCHANGED <<card, seq>>
  BY <1>3 DEF Step, FindTechnician, LockNext, Decide, Allocate, CheckOpenWork, Notify, Answered,
              Rollback, Refuse, rows
<1>4. ASSUME Arrival \/ UNCHANGED vars PROVE UNCHANGED <<card, seq>>
  BY <1>4 DEF Arrival, Ask, Reactivate, rows, vars
<1>5. QED
  BY <1>1, <1>2, <1>3, <1>4 DEF Next

\* The cards take the numbers of their series one by one: each gets the next one together
\* with its own row, and keeps it (allocateNumber in the transaction of the INSERT).
THEOREM CardsImplementSeries == Spec => NumbersInOrder
<1>1. Init => Series!Init
  BY DEF Init, Series!Init, NumberOf
<1>2. Orderly /\ [Next]_vars => Series!Next \/ UNCHANGED <<NumberOf(card), seq>>
  BY SeriesStep
<1>3. QED
  BY <1>1, <1>2, AlwaysOrderly, PTL DEF Spec, NumbersInOrder, Series!Spec

\* Only a COMMIT changes a card, and only one its operation holds.
LEMMA CardMoves ==
  ASSUME Orderly, [Next]_vars, NEW j \in Jobs, card[j] # None, card'[j] # card[j]
  PROVE  \E t \in Txs : /\ Commit(t) /\ j \in DOMAIN tx[t].read /\ tx[t] \in Tx
                        /\ tx[t].op \in CardOps /\ Allowed(tx[t], j, card[j])
                        /\ card[j] \in Card /\ card[j].version < MaxVersion
                        /\ card'[j] = After(tx[t], card[j])
<1>1. PICK t \in Txs : Commit(t)
  <2>1. ASSUME NEW t \in Txs, Step(t) \/ Rollback(t), ~Commit(t) PROVE card' = card
    BY <2>1 DEF Step, FindTechnician, LockNext, Decide, Allocate, CheckOpenWork, Notify, Answered,
                Rollback, Refuse, rows
  <2>2. ASSUME Arrival \/ UNCHANGED vars PROVE card' = card
    BY <2>2 DEF Arrival, Ask, Reactivate, rows, vars
  <2>3. QED
    BY <2>1, <2>2 DEF Next
<1> DEFINE x == tx[t]
<1>2. j \in DOMAIN x.read
  BY <1>1, CommitCards, JobsAssumption
<1>3. /\ x \in Tx /\ x.op \in CardOps /\ Allowed(x, j, card[j])
      /\ card[j] \in Card /\ card[j].version < MaxVersion /\ card'[j] = After(x, card[j])
  BY <1>1, <1>2, CommitCards
<1>4. QED
  BY <1>1, <1>2, <1>3

\* Closed is closed, and a technician at work keeps the card (assignmentRefusal and the
\* statuses a move, a cancellation and a completion start from).
THEOREM NobodyIsOusted == Spec => NobodyOusted
<1> DEFINE Kept == \A j \in Jobs : (card[j] # None /\ card'[j] # card[j]) =>
              /\ card[j].status \notin Open =>
                   card'[j].status = card[j].status /\ card'[j].by = card[j].by
              /\ card[j].status = "in_progress" =>
                   card'[j].by = card[j].by /\ card'[j].status \notin {"assigned", "en_route", "unassigned"}
<1>1. ASSUME Orderly, [Next]_vars, NEW j \in Jobs, card[j] # None, card'[j] # card[j]
      PROVE  /\ card[j].status \notin Open =>
                  card'[j].status = card[j].status /\ card'[j].by = card[j].by
             /\ card[j].status = "in_progress" =>
                  card'[j].by = card[j].by /\ card'[j].status \notin {"assigned", "en_route", "unassigned"}
  <2>1. PICK t \in Txs : /\ Commit(t) /\ tx[t] \in Tx /\ tx[t].op \in CardOps /\ Allowed(tx[t], j, card[j])
                         /\ card[j] \in Card /\ card[j].version < MaxVersion
                         /\ card'[j] = After(tx[t], card[j])
    BY <1>1, CardMoves
  <2>2. CASE tx[t].op = "reschedule"
    BY <2>1, <2>2, AfterIs
  <2>3. CASE tx[t].op # "reschedule"
    <3>1. card[j].status \in Open
      BY <2>1, <2>3 DEF Allowed, Open, Held
    <3>2. card[j].status = "in_progress" => tx[t].op \in {"cancel", "renew", "complete"}
      BY <2>1, <2>3 DEF Allowed
    <3>3. QED
      BY <2>1, <3>1, <3>2, AfterIs
  <2>4. QED
    BY <2>2, <2>3
<1>2. Orderly /\ [Next]_vars => Kept
  BY <1>1
<1>3. QED
  BY <1>2, AlwaysOrderly, PTL DEF Spec, NobodyOusted

\* An operation commits on the card as it is: the technician it belongs to moves it, and
\* the version a dispatcher saw is the one he replaces (SELECT ... FOR UPDATE held to
\* the COMMIT).
THEOREM ActsOnCurrent == Spec => ActsOnWhatIs
<1> DEFINE Current == \A t \in Txs, j \in Jobs :
              (tx[t] # None /\ j \in DOMAIN tx[t].read /\ tx'[t] # tx[t] /\ card'[j] # card[j]) =>
                 /\ tx[t].op \in {"en_route", "in_progress", "cancel", "renew", "complete"} =>
                      Own(tx[t], card[j])
                 /\ tx[t].op \in {"assign", "bulk", "reschedule"} => Seen(tx[t], j, card[j])
<1>1. ASSUME Orderly, [Next]_vars, NEW t \in Txs, NEW j \in Jobs,
             tx[t] # None, j \in DOMAIN tx[t].read, tx'[t] # tx[t], card'[j] # card[j]
      PROVE  /\ tx[t].op \in {"en_route", "in_progress", "cancel", "renew", "complete"} =>
                  Own(tx[t], card[j])
             /\ tx[t].op \in {"assign", "bulk", "reschedule"} => Seen(tx[t], j, card[j])
  <2>1. card[j] # None
    <3>1. tx[t] \in Tx /\ Sound(t)
      BY <1>1 DEF Orderly, TypeOK
    <3>2. QED
      BY <1>1, <3>1 DEF Sound, Shaped
  <2>2. PICK u \in Txs : Commit(u) /\ Allowed(tx[u], j, card[j])
    BY <1>1, <2>1, CardMoves
  <2>3. u = t
    BY <1>1, <2>2 DEF Commit, Orderly, TypeOK
  <2>4. QED
    BY <2>2, <2>3 DEF Allowed
<1>2. Orderly /\ [Next]_vars => Current
  BY <1>1
<1>3. QED
  BY <1>2, AlwaysOrderly, PTL DEF Spec, ActsOnWhatIs
=============================================================================

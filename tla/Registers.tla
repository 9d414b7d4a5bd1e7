------------------------------ MODULE Registers ------------------------------
(***************************************************************************)
(* The rows that are corrected in place: the equipment of a site, its AMC  *)
(* contracts and the site itself, the companies and who owns them, the     *)
(* employees, the catalogue (modules/customers, contracts, companies,      *)
(* employees, catalog, and the equipment a completion of modules/jobs      *)
(* puts in place).                                                         *)
(*                                                                         *)
(* Every operation is a READ COMMITTED transaction.  A statement reads the *)
(* committed rows; SELECT ... FOR UPDATE waits for the row and then looks  *)
(* at it again; an INSERT or UPDATE that meets an uncommitted row under a  *)
(* unique index or an exclusion constraint waits for that transaction.     *)
(* Where transactions wait in a circle PostgreSQL ends one of them.  A     *)
(* refusal by the row scope of equipment ends as a lost operation does.    *)
(***************************************************************************)
EXTENDS Integers, Sequences

CONSTANTS
  Sites,      \* customers
  Units,      \* ids of rows of customer_products
  Serials,
  Contracts,  \* ids of rows of service_contracts
  Companies,  \* ids of rows of companies
  Staff,      \* ids of rows of employees; the owner of the business is None
  Wares,      \* ids of rows of products or services
  Names,      \* names of companies, SKUs and codes
  LastDay,    \* bound: days are 1 .. LastDay
  MaxVersion, \* bound: version of a row
  MaxPlain,   \* bound: version of a row of customers or employees
  Apart,      \* bound: one behaviour writes registers of one group only
  Txs,        \* slots for operations in progress
  None

VARIABLES
  row,        \* row[i]: the committed row with id i, or None
  lock,       \* lock[i]: the transaction that holds row i
  tx          \* tx[t]: the operation t runs, or None

vars == <<row, lock, tx>>

Items == Sites \cup Units \cup Contracts \cup Companies \cup Staff \cup Wares
Versions == 1 .. MaxVersion
\* Both ends of a term belong to it.
Terms == {d \in (1 .. LastDay) \X (1 .. LastDay) : d[1] <= d[2]}
Owners == Staff \cup {None}

Site == [version : Versions]
Unit == [site : Sites, serial : Serials, active : BOOLEAN, version : Versions]
Contract == [site : Sites, term : Terms, live : BOOLEAN, version : Versions]
Company == [name : Names, owner : Owners, version : Versions]
Employee == [active : BOOLEAN, version : Versions]
Ware == [name : Names, active : BOOLEAN, version : Versions]
Row == Site \cup Unit \cup Contract \cup Company \cup Employee \cup Ware
Handover == [from : Owners, to : Owners]

\* The operations, each with the register it writes.
Register ==
  [install |-> Units, correct |-> Units, remove |-> Units,
   relocate |-> Sites, sign |-> Contracts, amend |-> Contracts, cancel |-> Contracts,
   open |-> Companies, edit |-> Companies, move |-> Companies,
   update |-> Staff, list |-> Wares, revise |-> Wares]

\* Registers that share rows or reads are in one group.
Groups == {Units, Sites \cup Contracts, Companies \cup Staff, Wares}

Phases == {"asked", "look", "waiting", "check", "queued", "gated", "allowed", "free", "written"}

\* by: who asks, None is the owner; seen: the version sent as If-Match; todo: the serials
\* still to be put in place, in the order of the request; term, name, active: the new
\* value, None where it is left; owner: the new owner of a company; holder: the row waited
\* for; handover: the audit row; puts: what it wrote.
Tx == [op : DOMAIN Register, phase : Phases, by : Owners, site : Sites \cup {None},
       item : Items \cup {None}, seen : Versions \cup {None}, todo : Seq(Serials),
       term : Terms \cup {None}, name : Names \cup {None}, active : BOOLEAN \cup {None},
       owner : Owners, holder : Units \cup {None}, handover : Handover \cup {None},
       puts : [Items -> Row \cup {None}]]

ASSUME RegistersAssumption ==
  /\ LET tables == <<Sites, Units, Contracts, Companies, Staff, Wares>>
     IN  \A m, n \in 1 .. 6 : m # n => tables[m] \cap tables[n] = {}
  /\ Apart \in BOOLEAN /\ LastDay \in Nat /\ MaxVersion \in Nat /\ MaxPlain \in 1 .. MaxVersion
  /\ None \notin Items \cup Serials \cup Names \cup Txs \cup Nat \cup Terms \cup BOOLEAN
  /\ None \notin Row \cup Tx \cup Handover

TypeOK ==
  /\ \A i \in Items : row[i] \in Row \cup {None}
  /\ lock \in [Items -> Txs \cup {None}]
  /\ tx \in [Txs -> Tx \cup {None}]

\* Customers and employees are there from the start.
First(i) ==
  IF i \in Sites THEN [version |-> 1]
  ELSE IF i \in Staff THEN [active |-> TRUE, version |-> 1]
  ELSE None

Init ==
  /\ row = [i \in Items |-> First(i)]
  /\ lock = [i \in Items |-> None]
  /\ tx = [t \in Txs |-> None]

-----------------------------------------------------------------------------
At(t, phase) == tx[t] # None /\ tx[t].phase = phase
Unlock(t) == lock' = [i \in Items |-> IF lock[i] = t THEN None ELSE lock[i]]

\* A refusal throws: ROLLBACK.
Refuse(t) == Unlock(t) /\ tx' = [tx EXCEPT ![t] = None] /\ UNCHANGED row

Goes(t, x) == tx' = [tx EXCEPT ![t] = x] /\ UNCHANGED <<row, lock>>
Takes(t, i, x) == tx' = [tx EXCEPT ![t] = x] /\ lock' = [lock EXCEPT ![i] = t] /\ UNCHANGED row
On(x, phase) == [x EXCEPT !.phase = phase]

Bump(r) == [r EXCEPT !.version = @ + 1]
New(old, value) == IF value = None THEN old ELSE value

\* The row an operation makes, and the row it leaves of the one that is there.
Fresh(x) ==
  CASE x.op = "install" -> [site |-> x.site, serial |-> Head(x.todo), active |-> TRUE, version |-> 1]
    [] x.op = "sign" -> [site |-> x.site, term |-> x.term, live |-> TRUE, version |-> 1]
    [] x.op = "open" -> [name |-> x.name, owner |-> x.by, version |-> 1]
    [] x.op = "list" -> [name |-> x.name, active |-> TRUE, version |-> 1]

Changed(x) ==
  LET r == row[x.item]
  IN  Bump(CASE x.op = "correct" -> [r EXCEPT !.serial = IF x.todo = <<>> THEN @ ELSE Head(x.todo)]
             [] x.op = "remove" -> [r EXCEPT !.active = FALSE]
             [] x.op = "relocate" -> r
             [] x.op = "amend" -> [r EXCEPT !.term = New(@, x.term)]
             [] x.op = "cancel" -> [r EXCEPT !.live = FALSE]
             [] x.op = "edit" -> [r EXCEPT !.name = New(@, x.name)]
             [] x.op = "move" -> [r EXCEPT !.owner = x.owner]
             [] x.op \in {"update", "revise"} -> [r EXCEPT !.active = New(@, x.active)])

Proposed(x) == IF x.item = None THEN Fresh(x) ELSE Changed(x)

\* x wrote row i; an install goes on with its next serial.
Put(x, i, r) ==
  [x EXCEPT !.puts[i] = r, !.holder = None,
            !.todo = IF @ = <<>> THEN @ ELSE Tail(@),
            !.phase = IF Len(x.todo) > 1 THEN "asked" ELSE "written"]

\* Rows that may not both stand: the unique indexes, the exclusion constraint.
Meet(a, b) == a[1] <= b[2] /\ b[1] <= a[2]
Clash(register, r, p) ==
  /\ r # None
  /\ CASE register = Units -> r.active /\ p.active /\ r.serial = p.serial
       [] register = Contracts -> r.live /\ p.live /\ r.site = p.site /\ Meet(r.term, p.term)
       [] register \in {Companies, Wares} -> r.name = p.name

Others(x) == Register[x.op] \ {x.item}
Taken(x) == \E j \in Others(x) : Clash(Register[x.op], row[j], Proposed(x))

\* An uncommitted row of another transaction decides whether Proposed may stand.
InDoubt(t) ==
  LET x == tx[t]
      clash(r) == Clash(Register[x.op], r, Proposed(x))
  IN  \E v \in Txs \ {t}, j \in Others(x) :
        tx[v] # None /\ tx[v].puts[j] # None /\ clash(tx[v].puts[j]) # clash(row[j])

\* An id nobody uses.
Unused(I) == {i \in I : row[i] = None /\ \A v \in Txs : tx[v] # None => tx[v].puts[i] = None}

-----------------------------------------------------------------------------
(* Requests *)

\* A code is not looked for before its INSERT.
Request(op) ==
  [op |-> op, phase |-> IF op = "list" THEN "free" ELSE "asked", by |-> None,
   site |-> None, item |-> None, seen |-> None, todo |-> <<>>, term |-> None, name |-> None,
   active |-> None, owner |-> None, holder |-> None, handover |-> None,
   puts |-> [i \in Items |-> None]]

\* New rows.  An addition of one unit and a completion with a list of them are both an install.
Install(a, d) == [Request("install") EXCEPT !.site = a, !.todo = d]
Sign(a, d) == [Request("sign") EXCEPT !.site = a, !.term = d]
Open(e, n) == [Request("open") EXCEPT !.by = e, !.name = n]
List(n) == [Request("list") EXCEPT !.name = n]

\* Operations on rows their senders have read.
Known(I) == {i \in I : row[i] # None}
OnRow(op, i) == [Request(op) EXCEPT !.item = i]
OnSeen(op, i) == [OnRow(op, i) EXCEPT !.seen = row[i].version]
Correct(i, d) == [OnSeen("correct", i) EXCEPT !.todo = d]
Amend(i, d) == [OnSeen("amend", i) EXCEPT !.term = d]
Edit(i, e, n) == [OnSeen("edit", i) EXCEPT !.by = e, !.name = n]
Move(i, e) == [OnRow("move", i) EXCEPT !.owner = e]
Update(i, b) == [OnSeen("update", i) EXCEPT !.active = b]
Revise(i, b) == [OnSeen("revise", i) EXCEPT !.active = b]

\* The serials of a request: one, two that differ.
Single == {<<s>> : s \in Serials}
Lists == Single \cup {d \in Serials \X Serials : d[1] # d[2]}

\* What clients can ask for now.
Requests ==
  {Install(a, d) : a \in Sites, d \in Lists}
    \cup {Correct(i, d) : i \in Known(Units), d \in Single \cup {<<>>}}
    \cup {OnRow("remove", i) : i \in Known(Units)}
    \cup {OnSeen("relocate", i) : i \in Known(Sites)}
    \cup {Sign(a, d) : a \in Sites, d \in Terms}
    \cup {Amend(i, d) : i \in Known(Contracts), d \in Terms \cup {None}}
    \cup {OnRow("cancel", i) : i \in Known(Contracts)}
    \cup {Open(e, n) : e \in Owners, n \in Names}
    \cup {Edit(i, e, n) : i \in Known(Companies), e \in Owners, n \in Names \cup {None}}
    \cup {Move(i, e) : i \in Known(Companies), e \in Owners}
    \cup {Update(i, b) : i \in Known(Staff), b \in BOOLEAN \cup {None}}
    \cup {List(n) : n \in Names}
    \cup {Revise(i, b) : i \in Known(Wares), b \in {FALSE, None}}

Room(op) ==
  Apart => \A G \in Groups : Register[op] \subseteq G =>
    /\ \A i \in Items \ G : row[i] = First(i)
    /\ \A t \in Txs : tx[t] # None => Register[tx[t].op] \subseteq G

\* A request arrives.
Ask(t) ==
  /\ tx[t] = None
  /\ \E x \in Requests : Room(x.op) /\ Goes(t, x)

-----------------------------------------------------------------------------
(* One row under its lock: lockStackItem, lockContract, lockCustomer, lockCompany, *)
(* lockProduct, lockService.                                                       *)

Limit(i) == IF i \in Sites \cup Staff THEN MaxPlain ELSE MaxVersion

Stands(i) ==
  CASE i \in Units \cup Wares -> row[i].active
    [] i \in Contracts -> row[i].live
    [] i \in Sites \cup Companies -> TRUE

\* The row scope of a representative; the new owner of a company is an active employee.
Permitted(x) ==
  /\ x.op = "edit" /\ x.by # None => row[x.item].owner \in {x.by, None}
  /\ x.op = "move" /\ x.owner # None => row[x.owner].active

\* The operation once it holds its row.
Holding(x) ==
  CASE x.op = "correct" /\ x.todo \notin {<<>>, <<row[x.item].serial>>} -> On(x, "look")
    [] x.op = "amend" /\ x.term # None -> On(x, "check")
    [] x.op = "edit" /\ x.name \notin {None, row[x.item].name} -> On(x, "free")
    [] x.op = "move" -> [Put(x, x.item, Changed(x)) EXCEPT
                           !.handover = [from |-> row[x.item].owner, to |-> x.owner]]
    [] OTHER -> Put(x, x.item, Changed(x))

\* Mutant: the version is not compared under the lock.
LockItem_Blind(t) ==
  LET x == tx[t]
  IN  /\ At(t, "asked") /\ x.item # None /\ x.op # "update" /\ lock[x.item] = None
      /\ \/ /\ Stands(x.item) /\ row[x.item].version < Limit(x.item) /\ Permitted(x)
            /\ Takes(t, x.item, Holding(x))
         \/ /\ ~(Stands(x.item) /\ row[x.item].version < Limit(x.item) /\ Permitted(x))
            /\ Refuse(t)

\* A bound on versions counts as a refusal.
LockItem(t) ==
  LET x == tx[t]
      may == /\ Stands(x.item) /\ row[x.item].version < Limit(x.item)
             /\ x.seen # None => x.seen = row[x.item].version
             /\ Permitted(x)
  IN  /\ At(t, "asked") /\ x.item # None /\ x.op # "update" /\ lock[x.item] = None
      /\ (may /\ Takes(t, x.item, Holding(x))) \/ (~may /\ Refuse(t))

-----------------------------------------------------------------------------
(* The serial rule. *)

Carries(r, s) == r # None /\ r.active /\ r.serial = s

\* Mutant: a unit found at another site is taken over.
Found_Moves(t, u) ==
  LET x == tx[t]
  IN  IF x.op = "install" /\ row[u].version < MaxVersion
      THEN Takes(t, u, Put(x, u, [Bump(row[u]) EXCEPT !.site = x.site]))
      ELSE Refuse(t)

\* The unit that carries the serial is locked: an install at its site refreshes it,
\* every other operation is refused.
Found(t, u) ==
  LET x == tx[t]
  IN  IF x.op = "install" /\ row[u].site = x.site /\ row[u].version < MaxVersion
      THEN Takes(t, u, Put(x, u, Bump(row[u])))
      ELSE Refuse(t)

\* lockActiveUnitBySerial: the committed row with the serial, if there is one.
Look(t) ==
  /\ At(t, "look") \/ (At(t, "asked") /\ tx[t].op = "install")
  /\ LET holders == {u \in Units : Carries(row[u], Head(tx[t].todo))}
     IN  \/ holders = {} /\ Goes(t, On(tx[t], "free"))
         \/ \E u \in holders :
              \/ lock[u] = None /\ Found(t, u)
              \/ lock[u] \notin {None, t} /\ Goes(t, [On(tx[t], "waiting") EXCEPT !.holder = u])

\* The lock is granted: the row is looked at again, and no other row is.
Wake(t) ==
  /\ At(t, "waiting") /\ lock[tx[t].holder] = None
  /\ \/ Carries(row[tx[t].holder], Head(tx[t].todo)) /\ Found(t, tx[t].holder)
     \/ /\ ~Carries(row[tx[t].holder], Head(tx[t].todo))
        /\ Goes(t, [On(tx[t], "free") EXCEPT !.holder = None])

-----------------------------------------------------------------------------
(* What is looked for before it is written. *)

\* Mutant: the customer is not locked.
LockSite_Not(t) ==
  /\ At(t, "check") \/ (At(t, "asked") /\ tx[t].op = "sign")
  /\ Goes(t, On(tx[t], "queued"))

\* lockCustomer: first thing of a create, after the contract's own row in an amendment.
LockSite(t) ==
  LET x == tx[t]
      site == Proposed(x).site
  IN  /\ At(t, "check") \/ (At(t, "asked") /\ x.op = "sign")
      /\ lock[site] = None
      /\ Takes(t, site, On(x, "queued"))

\* findOverlapping, findActiveByName: a plain SELECT.
Find(t) ==
  /\ At(t, "queued") \/ (At(t, "asked") /\ tx[t].op = "open")
  /\ (Taken(tx[t]) /\ Refuse(t)) \/ (~Taken(tx[t]) /\ Goes(t, On(tx[t], "free")))

-----------------------------------------------------------------------------
(* The edit of an employee compares the version, and chooses its path, before it *)
(* has a transaction.                                                            *)

\* findEmployeeAdminById.
ReadEmployee(t) ==
  LET x == tx[t]
      r == row[x.item]
  IN  /\ At(t, "asked") /\ x.op = "update"
      /\ \/ r.version # x.seen /\ Refuse(t)
         \/ /\ r.version = x.seen
            /\ Goes(t, On(x, IF x.active = FALSE /\ r.active THEN "gated" ELSE "allowed"))

\* collectBlockingRows of a deactivation: the companies he owns.
FindOpenWork(t) ==
  LET owns == \E c \in Companies : row[c] # None /\ row[c].owner = tx[t].item
  IN  /\ At(t, "gated")
      /\ (owns /\ Refuse(t)) \/ (~owns /\ Goes(t, On(tx[t], "allowed")))

\* updateEmployeeFields: the UPDATE names the row and nothing else.
UpdateEmployee(t) ==
  LET x == tx[t]
  IN  /\ At(t, "allowed") /\ lock[x.item] = None
      /\ IF row[x.item].version < Limit(x.item)
         THEN Takes(t, x.item, Put(x, x.item, Changed(x)))
         ELSE Refuse(t)

-----------------------------------------------------------------------------
\* The INSERT or UPDATE under the unique index or the exclusion constraint.  What was
\* free may have been taken since; a bound on rows refuses.
Write(t) ==
  LET x == tx[t]
      ids == IF x.item = None THEN Unused(Register[x.op]) ELSE {x.item}
  IN  /\ At(t, "free") /\ ~InDoubt(t)
      /\ \/ (Taken(x) \/ ids = {}) /\ Refuse(t)
         \/ ~Taken(x) /\ \E i \in ids : Goes(t, Put(x, i, Proposed(x)))

Commit(t) ==
  LET x == tx[t]
  IN  /\ At(t, "written")
      /\ row' = [i \in Items |-> New(row[i], x.puts[i])]
      /\ Unlock(t)
      /\ tx' = [tx EXCEPT ![t] = None]

\* The connection or the process ends, or PostgreSQL ends a transaction of a circle.
Lost(t) == tx[t] # None /\ Refuse(t)

Step(t) ==
  \/ LockItem(t) \/ Look(t) \/ Wake(t) \/ LockSite(t) \/ Find(t)
  \/ ReadEmployee(t) \/ FindOpenWork(t) \/ UpdateEmployee(t)
  \/ Write(t) \/ Commit(t)

Next == \E t \in Txs : Ask(t) \/ Step(t) \/ Lost(t)

Spec == Init /\ [][Next]_vars
-----------------------------------------------------------------------------
(* Properties *)

\* No two active units carry one serial, at one site or at two.
OneUnitPerSerial ==
  \A u, v \in Units, s \in Serials : Carries(row[u], s) /\ Carries(row[v], s) => u = v

\* A site has one AMC on a day.
OneContractADay ==
  \A k, m \in Contracts : k # m /\ row[k] # None /\ row[m] # None /\ row[k].live /\ row[m].live =>
    row[k].site # row[m].site \/ ~Meet(row[k].term, row[m].term)

\* Two companies never share a name, nor two entries of the catalogue a code ("a retired SKU must
\* not be reissued", migration 005).
OneName ==
  \A I \in {Companies, Wares} : \A i, j \in I :
    row[i] # None /\ row[j] # None /\ row[i].name = row[j].name => i = j

\* What findOverlapping found free stays free until the contract is written: the lock on
\* the customer leaves nothing to the exclusion constraint, "the race the customer lock
\* exists to prevent" (contracts/service.ts).
VerdictIsFinal ==
  \A t \in Txs : At(t, "free") /\ Register[tx[t].op] = Contracts => ~InDoubt(t) /\ ~Taken(tx[t])

\* A transaction writes rows it holds, or new ones no other transaction has.
WritesItsOwn ==
  \A t \in Txs : tx[t] # None =>
    \A i \in Items : tx[t].puts[i] # None =>
      IF row[i] = None
      THEN \A v \in Txs \ {t} : tx[v] # None => tx[v].puts[i] = None
      ELSE lock[i] = t

\* The registers as every commit leaves them.
Standing ==
  /\ TypeOK /\ OneUnitPerSerial /\ OneContractADay /\ OneName
  /\ VerdictIsFinal /\ WritesItsOwn

\* A serial that stands at a site never turns up at another: it is removed there first
\* ("A serial cannot be installed at two sites at once", migration 006).  A unit that was
\* removed, a contract that was cancelled and an entry that was retired are never brought
\* back.  Every hand-over of a company starts from the owner the last one left, and it
\* changes hands in no other way: "a committed one leaves both owners"
\* (companies/service.ts).
StaysPut ==
  [][/\ \A u, v \in Units, s \in Serials :
          Carries(row[u], s) /\ Carries(row'[v], s) => row'[v].site = row[u].site
     /\ \A i \in Units \cup Contracts \cup Wares :
          row[i] # None /\ ~Stands(i) => row'[i] = row[i]
     /\ \A t \in Txs, c \in Companies : Commit(t) /\ tx[t].puts[c] # None /\ row[c] # None =>
          LET moved == [from |-> row[c].owner, to |-> row'[c].owner]
          IN  tx[t].handover = moved \/ (tx[t].handover = None /\ moved.from = moved.to)]_vars

\* A correction, an amendment and an edit land on the version their sender saw, which still
\* stands; an edit by a representative lands on a company of his or of the house.
CorrectsWhatWasSeen ==
  [][\A t \in Txs : Commit(t) /\ tx[t].op \in {"correct", "relocate", "amend", "edit", "revise"} =>
       /\ Stands(tx[t].item) /\ row[tx[t].item].version = tx[t].seen
       /\ tx[t].op = "edit" /\ tx[t].by # None => row[tx[t].item].owner \in {tx[t].by, None}]_vars

\* An install is told that the serial stands at another site only where it does ("Same
\* serial at THIS site refreshes the row in place", customers/service.ts).
RefusedElsewhere ==
  [][\A t \in Txs :
       At(t, "free") /\ tx[t].op = "install" /\ Write(t) /\ Refuse(t) /\ Unused(Units) # {} =>
         \E u \in Units : Carries(row[u], Head(tx[t].todo)) /\ row[u].site # tx[t].site]_vars

\* A company that is not the house's has an active employee for its owner: "a real, active
\* employee" (companies/repo.ts), and none is deactivated while he owns one.
OwnersWork ==
  \A c \in Companies : row[c] # None /\ row[c].owner # None => row[row[c].owner].active

\* An edit of an employee lands on the version its sender saw ("under If-Match",
\* employees/service.ts).
EditsEmployeeSeen ==
  [][\A t \in Txs : Commit(t) /\ tx[t].op = "update" => row[tx[t].item].version = tx[t].seen]_vars
=============================================================================

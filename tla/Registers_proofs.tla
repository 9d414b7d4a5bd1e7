-------------------------- MODULE Registers_proofs --------------------------
(***************************************************************************)
(* The rows that are corrected in place stand as every commit left them,   *)
(* for any number of rows, serials, days and operations in progress.       *)
(* Kept is inductive: no two rows that are committed or about to be clash, *)
(* a transaction holds what it changes as it found it, and what is written *)
(* to a row that stands says the same of its site, its owner and its days. *)
(***************************************************************************)
EXTENDS Registers, TLAPS

Registering == {"install", "sign", "open", "list"}
\* The operations that carry an If-Match.
Matching == {"correct", "relocate", "amend", "edit", "update", "revise"}
\* The phases in which the operation still has a statement to write.
Writing(op) ==
  CASE op = "install" -> {"asked", "waiting", "free"}
    [] op = "correct" -> {"asked", "look", "waiting", "free"}
    [] op = "sign" -> {"asked", "queued", "free"}
    [] op = "amend" -> {"asked", "check", "queued", "free"}
    [] op \in {"open", "edit", "list"} -> {"asked", "free"}
    [] op = "update" -> {"asked", "gated", "allowed"}
    [] OTHER -> {"asked"}

OfKind(i, r) ==
  /\ i \in Sites => r \in Site
  /\ i \in Units => r \in Unit
  /\ i \in Contracts => r \in Contract
  /\ i \in Companies => r \in Company
  /\ i \in Staff => r \in Employee
  /\ i \in Wares => r \in Ware

\* Every row is of the kind of its id, and one that somebody holds is there.
Rows ==
  /\ row = [i \in Items |-> row[i]]
  /\ \A i \in Items :
       /\ row[i] # None => OfKind(i, row[i])
       /\ i \in Sites \cup Staff \/ lock[i] # None => row[i] # None

\* What every operation carries, by its kind and phase.
Shaped(x) ==
  /\ x.phase \in Writing(x.op) \cup {"written"}
  /\ x.item = None <=> x.op \in Registering
  /\ x.item # None => x.item \in Register[x.op] /\ row[x.item] # None
  /\ x.op \in {"install", "sign"} => x.site \in Sites
  /\ x.op = "install" /\ x.phase # "written" => x.todo # <<>>
  /\ \A k, m \in DOMAIN x.todo : x.todo[k] = x.todo[m] => k = m
  /\ x.op # "install" => Len(x.todo) <= 1
  /\ x.op = "correct" /\ x.phase \notin {"asked", "written"} => x.todo # <<>>
  /\ x.op = "sign" \/ (x.op = "amend" /\ x.phase \notin {"asked", "written"}) => x.term # None
  /\ x.op \in {"open", "list"} \/ (x.op = "edit" /\ x.phase = "free") => x.name # None
  /\ x.op \in Matching <=> x.seen # None
  /\ x.phase = "waiting" => x.holder # None /\ row[x.holder] # None
  /\ x.phase # "written" => x.handover = None /\ (x.op # "install" => \A i \in Items : x.puts[i] = None)

\* The row an operation corrects is locked by it, stands and is as it was decided on.
Holds(t) ==
  LET x == tx[t]
  IN  x.item # None /\ x.op # "update" /\ x.phase # "asked" =>
        /\ lock[x.item] = t /\ Stands(x.item)
        /\ row[x.item].version < Limit(x.item)
        /\ x.seen # None => x.seen = row[x.item].version
        /\ x.op = "edit" /\ x.by # None => row[x.item].owner \in {x.by, None}

\* What becomes of a row that is there.
Keeps(x, i, r) ==
  /\ i \in Units => row[i].active /\ r.site = row[i].site
  /\ i \in Contracts => row[i].live /\ r.site = row[i].site
  /\ i \in Wares => row[i].active
  /\ i \in Companies =>
       \/ x.handover = [from |-> row[i].owner, to |-> r.owner]
       \/ x.handover = None /\ r.owner = row[i].owner

\* A row an operation has written is new and its own, or held by it.
Puts(t) ==
  LET x == tx[t]
  IN  \A i \in Items : x.puts[i] # None =>
        /\ i \in Register[x.op] /\ OfKind(i, x.puts[i])
        /\ row[i] = None => \A v \in Txs \ {t} : tx[v] # None => tx[v].puts[i] = None
        /\ row[i] # None => lock[i] = t /\ Keeps(x, i, x.puts[i])
        /\ i \in Units /\ x.op = "install" => \A k \in DOMAIN x.todo : x.puts[i].serial # x.todo[k]

\* The days of a contract are new only under the lock of its site, and what is found free
\* under that lock is free.
Days(t) ==
  LET x == tx[t]
  IN  /\ x.op \in {"sign", "amend"} /\ x.phase \in {"queued", "free"} => lock[Proposed(x).site] = t
      /\ x.op \in {"sign", "amend"} /\ x.phase = "free" => ~Taken(x)
      /\ \A k \in Contracts : x.puts[k] # None =>
           \/ lock[x.puts[k].site] = t
           \/ /\ row[k] # None /\ x.puts[k].term = row[k].term
              /\ x.puts[k].live => row[k].live

\* The rows with id i: the committed one, and those about to be.
Writ(i) == {r \in Row : r = row[i] \/ \E t \in Txs : tx[t] # None /\ r = tx[t].puts[i]}

NoClash ==
  \A I \in {Units, Contracts, Companies, Wares} : \A i, j \in I : i # j =>
    \A r \in Writ(i), p \in Writ(j) : ~Clash(I, r, p)

\* The inductive invariant.
Kept ==
  /\ TypeOK /\ Rows /\ NoClash
  /\ \A t \in Txs : tx[t] # None => Shaped(tx[t]) /\ Holds(t) /\ Puts(t) /\ Days(t)

-----------------------------------------------------------------------------
(* The registers, and the rows in them. *)

LEMMA RegisterIs ==
  /\ DOMAIN Register = {"install", "correct", "remove", "relocate", "sign", "amend", "cancel",
                        "open", "edit", "move", "update", "list", "revise"}
  /\ \A op \in {"install", "correct", "remove"} : Register[op] = Units
  /\ Register["relocate"] = Sites
  /\ \A op \in {"sign", "amend", "cancel"} : Register[op] = Contracts
  /\ \A op \in {"open", "edit", "move"} : Register[op] = Companies
  /\ Register["update"] = Staff
  /\ \A op \in {"list", "revise"} : Register[op] = Wares
  BY DEF Register

\* An id is in one register.
LEMMA OneRegister ==
  /\ \A i \in Sites : i \notin Units \cup Contracts \cup Companies \cup Staff \cup Wares
  /\ \A i \in Units : i \notin Sites \cup Contracts \cup Companies \cup Staff \cup Wares
  /\ \A i \in Contracts : i \notin Sites \cup Units \cup Companies \cup Staff \cup Wares
  /\ \A i \in Companies : i \notin Sites \cup Units \cup Contracts \cup Staff \cup Wares
  /\ \A i \in Staff : i \notin Sites \cup Units \cup Contracts \cup Companies \cup Wares
  /\ \A i \in Wares : i \notin Sites \cup Units \cup Contracts \cup Companies \cup Staff
<1> DEFINE tables == <<Sites, Units, Contracts, Companies, Staff, Wares>>
<1>1. \A m, n \in 1 .. 6 : m # n => tables[m] \cap tables[n] = {}
  BY RegistersAssumption
<1>2. /\ tables[1] = Sites /\ tables[2] = Units /\ tables[3] = Contracts
      /\ tables[4] = Companies /\ tables[5] = Staff /\ tables[6] = Wares
  OBVIOUS
<1> HIDE DEF tables
<1>3. /\ \A n \in 2 .. 6 : Sites \cap tables[n] = {}
      /\ \A n \in 3 .. 6 : Units \cap tables[n] = {}
      /\ \A n \in 4 .. 6 : Contracts \cap tables[n] = {}
      /\ \A n \in 5 .. 6 : Companies \cap tables[n] = {}
      /\ Staff \cap Wares = {}
  BY <1>1, <1>2
<1> QED
  BY <1>2, <1>3

LEMMA TxFields ==
  ASSUME NEW x \in Tx
  PROVE  /\ x.op \in DOMAIN Register /\ x.phase \in Phases /\ x.by \in Owners
         /\ x.site \in Sites \cup {None} /\ x.item \in Items \cup {None}
         /\ x.seen \in Versions \cup {None} /\ x.todo \in Seq(Serials)
         /\ x.term \in Terms \cup {None} /\ x.name \in Names \cup {None}
         /\ x.active \in BOOLEAN \cup {None} /\ x.owner \in Owners
         /\ x.holder \in Units \cup {None} /\ x.handover \in Handover \cup {None}
         /\ x.puts \in [Items -> Row \cup {None}]
  BY DEF Tx

LEMMA KindIsRow ==
  ASSUME NEW i \in Items, NEW r, OfKind(i, r)
  PROVE  r \in Row /\ r # None
  BY RegistersAssumption DEF OfKind, Items, Row

\* The row a correction leaves.
LEMMA ChangedIs ==
  ASSUME NEW x \in Tx, x.op \notin Registering, x.item \in Register[x.op],
         OfKind(x.item, row[x.item]), row[x.item].version \in Nat, row[x.item].version < MaxVersion
  PROVE  LET r == row[x.item]
             c == Changed(x)
         IN  /\ OfKind(x.item, c)
             /\ x.op \in {"correct", "remove"} => c.site = r.site
             /\ x.op = "correct" => /\ c.active = r.active
                                    /\ c.serial = IF x.todo = <<>> THEN r.serial ELSE Head(x.todo)
             /\ x.op = "remove" => c.active = FALSE /\ c.serial = r.serial
             /\ x.op \in {"amend", "cancel"} => c.site = r.site
             /\ x.op = "amend" => c.live = r.live /\ c.term = IF x.term = None THEN r.term ELSE x.term
             /\ x.op = "cancel" => c.live = FALSE /\ c.term = r.term
             /\ x.op = "edit" => c.owner = r.owner /\ c.name = IF x.name = None THEN r.name ELSE x.name
             /\ x.op = "move" => c.name = r.name /\ c.owner = x.owner
             /\ x.op = "revise" => c.name = r.name
<1> DEFINE r == row[x.item]
           c == Changed(x)
<1>1. r.version + 1 \in Versions
  BY RegistersAssumption DEF Versions
<1>2. x.op \in {"correct", "remove", "relocate", "amend", "cancel", "edit", "move", "update", "revise"}
  BY RegisterIs, TxFields DEF Registering
<1>3. CASE x.op = "correct"
  <2>1. c = [r EXCEPT !.serial = IF x.todo = <<>> THEN r.serial ELSE Head(x.todo), !.version = r.version + 1]
    BY <1>3 DEF Changed, Bump
  <2>2. x.item \in Units /\ r \in Unit
    BY <1>3, RegisterIs DEF OfKind
  <2>3. x.todo # <<>> => Head(x.todo) \in Serials
    BY TxFields
  <2>4. c \in Unit
    BY <1>1, <2>1, <2>2, <2>3 DEF Unit
  <2>5. OfKind(x.item, c)
    BY <2>2, <2>4, OneRegister DEF OfKind
  <2>6. QED
    BY <1>3, <2>1, <2>2, <2>5 DEF Unit
<1>4. CASE x.op = "remove"
  <2>1. c = [r EXCEPT !.active = FALSE, !.version = r.version + 1]
    BY <1>4 DEF Changed, Bump
  <2>2. x.item \in Units /\ r \in Unit
    BY <1>4, RegisterIs DEF OfKind
  <2>3. c \in Unit
    BY <1>1, <2>1, <2>2 DEF Unit
  <2>4. OfKind(x.item, c)
    BY <2>2, <2>3, OneRegister DEF OfKind
  <2>5. QED
    BY <1>4, <2>1, <2>2, <2>4 DEF Unit
<1>5. CASE x.op = "relocate"
  <2>1. c = [r EXCEPT !.version = r.version + 1]
    BY <1>5 DEF Changed, Bump
  <2>2. x.item \in Sites /\ r \in Site
    BY <1>5, RegisterIs DEF OfKind
  <2>3. c \in Site
    BY <1>1, <2>1, <2>2 DEF Site
  <2>4. OfKind(x.item, c)
    BY <2>2, <2>3, OneRegister DEF OfKind
  <2>5. QED
    BY <1>5, <2>4
<1>6. CASE x.op = "amend"
  <2>1. c = [r EXCEPT !.term = IF x.term = None THEN r.term ELSE x.term, !.version = r.version + 1]
    BY <1>6 DEF Changed, Bump, New
  <2>2. x.item \in Contracts /\ r \in Contract
    BY <1>6, RegisterIs DEF OfKind
  <2>3. x.term # None => x.term \in Terms
    BY TxFields
  <2>4. c \in Contract
    BY <1>1, <2>1, <2>2, <2>3 DEF Contract
  <2>5. OfKind(x.item, c)
    BY <2>2, <2>4, OneRegister DEF OfKind
  <2>6. QED
    BY <1>6, <2>1, <2>2, <2>5 DEF Contract
<1>7. CASE x.op = "cancel"
  <2>1. c = [r EXCEPT !.live = FALSE, !.version = r.version + 1]
    BY <1>7 DEF Changed, Bump
  <2>2. x.item \in Contracts /\ r \in Contract
    BY <1>7, RegisterIs DEF OfKind
  <2>3. c \in Contract
    BY <1>1, <2>1, <2>2 DEF Contract
  <2>4. OfKind(x.item, c)
    BY <2>2, <2>3, OneRegister DEF OfKind
  <2>5. QED
    BY <1>7, <2>1, <2>2, <2>4 DEF Contract
<1>8. CASE x.op = "edit"
  <2>1. c = [r EXCEPT !.name = IF x.name = None THEN r.name ELSE x.name, !.version = r.version + 1]
    BY <1>8 DEF Changed, Bump, New
  <2>2. x.item \in Companies /\ r \in Company
    BY <1>8, RegisterIs DEF OfKind
  <2>3. x.name # None => x.name \in Names
    BY TxFields
  <2>4. c \in Company
    BY <1>1, <2>1, <2>2, <2>3 DEF Company
  <2>5. OfKind(x.item, c)
    BY <2>2, <2>4, OneRegister DEF OfKind
  <2>6. QED
    BY <1>8, <2>1, <2>2, <2>5 DEF Company
<1>9. CASE x.op = "move"
  <2>1. c = [r EXCEPT !.owner = x.owner, !.version = r.version + 1]
    BY <1>9 DEF Changed, Bump
  <2>2. x.item \in Companies /\ r \in Company
    BY <1>9, RegisterIs DEF OfKind
  <2>3. c \in Company
    BY <1>1, <2>1, <2>2, TxFields DEF Company
  <2>4. OfKind(x.item, c)
    BY <2>2, <2>3, OneRegister DEF OfKind
  <2>5. QED
    BY <1>9, <2>1, <2>2, <2>4 DEF Company
<1>10. CASE x.op \in {"update", "revise"}
  <2>1. c = [r EXCEPT !.active = IF x.active = None THEN r.active ELSE x.active, !.version = r.version + 1]
    BY <1>10 DEF Changed, Bump, New
  <2>2. x.active # None => x.active \in BOOLEAN
    BY TxFields
  <2>3. CASE x.op = "update"
    <3>1. x.item \in Staff /\ r \in Employee
      BY <2>3, RegisterIs DEF OfKind
    <3>2. c \in Employee
      BY <1>1, <2>1, <2>2, <3>1 DEF Employee
    <3>3. OfKind(x.item, c)
      BY <3>1, <3>2, OneRegister DEF OfKind
    <3>4. QED
      BY <2>3, <3>3
  <2>4. CASE x.op = "revise"
    <3>1. x.item \in Wares /\ r \in Ware
      BY <2>4, RegisterIs DEF OfKind
    <3>2. c \in Ware
      BY <1>1, <2>1, <2>2, <3>1 DEF Ware
    <3>3. OfKind(x.item, c)
      BY <3>1, <3>2, OneRegister DEF OfKind
    <3>4. QED
      BY <2>1, <2>4, <3>1, <3>3 DEF Ware
  <2>5. QED
    BY <1>10, <2>3, <2>4
<1>11. QED
  BY <1>2, <1>3, <1>4, <1>5, <1>6, <1>7, <1>8, <1>9, <1>10

\* The row a registration makes.
LEMMA FreshIs ==
  ASSUME NEW x \in Tx, x.op \in Registering, x.phase # "written", Shaped(x)
  PROVE  /\ \A i \in Register[x.op] : OfKind(i, Fresh(x))
         /\ x.op = "install" => Fresh(x).serial = Head(x.todo) /\ x.todo # <<>>
         /\ x.op = "sign" => Fresh(x).site = x.site /\ x.site \in Sites
<1>1. 1 \in Versions
  BY RegistersAssumption DEF Versions
<1>2. CASE x.op = "install"
  <2>1. Fresh(x) = [site |-> x.site, serial |-> Head(x.todo), active |-> TRUE, version |-> 1]
    BY <1>2 DEF Fresh
  <2>2. x.site \in Sites /\ x.todo # <<>> /\ Head(x.todo) \in Serials
    BY <1>2, TxFields DEF Shaped
  <2>3. Fresh(x) \in Unit /\ Fresh(x).serial = Head(x.todo)
    BY <1>1, <2>1, <2>2 DEF Unit
  <2>4. QED
    BY <1>2, <2>2, <2>3, RegisterIs, OneRegister DEF OfKind
<1>3. CASE x.op = "sign"
  <2>1. Fresh(x) = [site |-> x.site, term |-> x.term, live |-> TRUE, version |-> 1]
    BY <1>3 DEF Fresh
  <2>2. x.site \in Sites /\ x.term \in Terms
    BY <1>3, TxFields DEF Shaped
  <2>3. Fresh(x) \in Contract /\ Fresh(x).site = x.site
    BY <1>1, <2>1, <2>2 DEF Contract
  <2>4. QED
    BY <1>3, <2>2, <2>3, RegisterIs, OneRegister DEF OfKind
<1>4. CASE x.op = "open"
  <2>1. Fresh(x) = [name |-> x.name, owner |-> x.by, version |-> 1]
    BY <1>4 DEF Fresh
  <2>2. x.name \in Names /\ x.by \in Owners
    BY <1>4, TxFields DEF Shaped
  <2>3. Fresh(x) \in Company
    BY <1>1, <2>1, <2>2 DEF Company
  <2>4. QED
    BY <1>4, <2>3, RegisterIs, OneRegister DEF OfKind
<1>5. CASE x.op = "list"
  <2>1. Fresh(x) = [name |-> x.name, active |-> TRUE, version |-> 1]
    BY <1>5 DEF Fresh
  <2>2. x.name \in Names
    BY <1>5, TxFields DEF Shaped
  <2>3. Fresh(x) \in Ware
    BY <1>1, <2>1, <2>2 DEF Ware
  <2>4. QED
    BY <1>5, <2>3, RegisterIs, OneRegister DEF OfKind
<1>6. QED
  BY <1>2, <1>3, <1>4, <1>5 DEF Registering

-----------------------------------------------------------------------------
(* Rows that clash. *)

Unique == {Units, Contracts, Companies, Wares}

LEMMA ClashIs ==
  ASSUME NEW r, NEW p
  PROVE  /\ Units # {} =>
              (Clash(Units, r, p) <=> r # None /\ r.active /\ p.active /\ r.serial = p.serial)
         /\ Contracts # {} =>
              (Clash(Contracts, r, p) <=>
                 r # None /\ r.live /\ p.live /\ r.site = p.site /\ Meet(r.term, p.term))
         /\ Companies # {} => (Clash(Companies, r, p) <=> r # None /\ r.name = p.name)
         /\ Wares # {} => (Clash(Wares, r, p) <=> r # None /\ r.name = p.name)
<1>1. Units # {} => Units \notin {Contracts, Companies, Wares}
  BY OneRegister
<1>2. Contracts # {} => Contracts \notin {Units, Companies, Wares}
  BY OneRegister
<1>3. Companies # {} => Companies \notin {Units, Contracts}
  BY OneRegister
<1>4. Wares # {} => Wares \notin {Units, Contracts}
  BY OneRegister
<1>5. QED
  BY <1>1, <1>2, <1>3, <1>4 DEF Clash

LEMMA ClashSym ==
  ASSUME NEW I \in Unique, I # {}, NEW r, r # None, NEW p, p # None
  PROVE  Clash(I, r, p) <=> Clash(I, p, r)
<1>1. CASE I = Units
  BY <1>1, ClashIs
<1>2. CASE I = Contracts
  BY <1>2, ClashIs DEF Meet
<1>3. CASE I \in {Companies, Wares}
  BY <1>3, ClashIs
<1>4. QED
  BY <1>1, <1>2, <1>3 DEF Unique

\* A row that takes no more than s does.
Within(i, r, s) ==
  /\ i \in Units => r.serial = s.serial /\ (r.active => s.active)
  /\ i \in Contracts => r.site = s.site /\ r.term = s.term /\ (r.live => s.live)
  /\ i \in Companies \cup Wares => r.name = s.name

LEMMA WithinClash ==
  ASSUME NEW I \in Unique, NEW i \in I, NEW r, r # None, NEW s, s # None, Within(i, r, s),
         NEW q, Clash(I, q, r)
  PROVE  Clash(I, q, s)
<1>1. CASE I = Units
  BY <1>1, ClashIs DEF Within
<1>2. CASE I = Contracts
  BY <1>2, ClashIs DEF Within
<1>3. CASE I \in {Companies, Wares}
  BY <1>3, ClashIs DEF Within
<1>4. QED
  BY <1>1, <1>2, <1>3 DEF Unique

\* One more row about to be, which clashes with none that is or is about to be.
LEMMA NoClashMore ==
  ASSUME NoClash, NEW i \in Items, NEW r, r # None,
         \A j \in Items \ {i} : Writ(j)' \subseteq Writ(j),
         Writ(i)' \subseteq Writ(i) \cup {r},
         \A I \in Unique : i \in I => \A j \in I \ {i} : \A q \in Writ(j) : ~Clash(I, q, r)
  PROVE  NoClash'
<1>1. \A j \in Items : None \notin Writ(j)
  BY RegistersAssumption DEF Writ
<1>2. ASSUME NEW I \in Unique, NEW j \in I, NEW k \in I, j # k,
             NEW q \in Writ(j)', NEW p \in Writ(k)'
      PROVE  ~Clash(I, q, p)
  <2>1. j \in Items /\ k \in Items
    BY DEF Unique, Items
  <2>2. CASE q \in Writ(j) /\ p \in Writ(k)
    BY <1>2, <2>2 DEF NoClash, Unique
  <2>3. CASE k = i /\ p = r /\ q \in Writ(j)
    BY <1>2, <2>3
  <2>4. CASE j = i /\ q = r /\ p \in Writ(k)
    <3>1. ~Clash(I, p, r) /\ p # None
      BY <1>1, <1>2, <2>1, <2>4
    <3>2. QED
      BY <2>4, <3>1, ClashSym
  <2>5. QED
    BY <1>2, <2>1, <2>2, <2>3, <2>4
<1>3. QED
  BY <1>2 DEF NoClash, Unique

\* No new row about to be.
LEMMA NoClashFewer ==
  ASSUME NoClash, \A j \in Items : Writ(j)' \subseteq Writ(j)
  PROVE  NoClash'
<1>1. ASSUME NEW I \in Unique, NEW j \in I, NEW k \in I, j # k,
             NEW q \in Writ(j)', NEW p \in Writ(k)'
      PROVE  ~Clash(I, q, p)
  <2>1. j \in Items /\ k \in Items
    BY DEF Unique, Items
  <2>2. QED
    BY <1>1, <2>1 DEF NoClash, Unique
<1>2. QED
  BY <1>1 DEF NoClash, Unique

-----------------------------------------------------------------------------
(* The steps that commit nothing. *)

\* What an operation proposes depends on what was asked and on the committed rows.
LEMMA SameRequest ==
  ASSUME NEW x, NEW y,
         y.op = x.op, y.by = x.by, y.site = x.site, y.item = x.item, y.todo = x.todo,
         y.term = x.term, y.name = x.name, y.active = x.active, y.owner = x.owner
  PROVE  Proposed(y) = Proposed(x) /\ (Taken(y) <=> Taken(x))
<1>1. Fresh(y) = Fresh(x)
  BY DEF Fresh
<1>2. Changed(y) = Changed(x)
  BY DEF Changed
<1>3. Proposed(y) = Proposed(x)
  BY <1>1, <1>2 DEF Proposed
<1>4. QED
  BY <1>3 DEF Taken, Others

LEMMA SameProposal ==
  ASSUME NEW u \in Txs, NEW y, tx'[u] = y, row' = row
  PROVE  Proposed(tx[u])' = Proposed(y) /\ (Taken(tx[u])' <=> Taken(y))
<1>1. Fresh(tx[u])' = Fresh(y)
  BY DEF Fresh
<1>2. Changed(tx[u])' = Changed(y)
  BY DEF Changed
<1>3. Proposed(tx[u])' = Proposed(y)
  BY <1>1, <1>2 DEF Proposed
<1>4. QED
  BY <1>3 DEF Taken, Others

\* What an operation is about to write, once it may.
LEMMA ProposedIs ==
  ASSUME Kept, NEW t \in Txs, tx[t] # None,
         \/ tx[t].op \in Registering /\ tx[t].phase # "written"
         \/ tx[t].op \notin Registering \cup {"update"} /\ tx[t].phase # "asked"
  PROVE  LET x == tx[t]
         IN  /\ x.op \in Registering =>
                  Proposed(x) = Fresh(x) /\ \A i \in Register[x.op] : OfKind(i, Proposed(x))
             /\ x.op \notin Registering =>
                  /\ Proposed(x) = Changed(x) /\ OfKind(x.item, Proposed(x)) /\ x.item \in Register[x.op]
                  /\ OfKind(x.item, row[x.item])
                  /\ row[x.item].version \in Nat /\ row[x.item].version < MaxVersion
             /\ x.op \in {"sign", "amend"} => Proposed(x).site \in Sites
<1> PICK x : x = tx[t]
  OBVIOUS
<1>1. x \in Tx /\ Shaped(x) /\ Holds(t) /\ x.op \in DOMAIN Register /\ x.item \in Items \cup {None} /\ Rows
  BY TxFields DEF Kept, TypeOK
<1>2. CASE x.op \in Registering
  <2>1. x.item = None /\ Proposed(x) = Fresh(x)
    BY <1>1, <1>2 DEF Shaped, Proposed
  <2>2. QED
    BY <1>1, <1>2, <2>1, FreshIs DEF Registering
<1>3. CASE x.op \notin Registering
  <2>1. /\ x.item # None /\ x.item \in Items /\ x.item \in Register[x.op] /\ row[x.item] # None
        /\ OfKind(x.item, row[x.item]) /\ Proposed(x) = Changed(x)
    BY <1>1, <1>3 DEF Shaped, Proposed, Rows
  <2>2. row[x.item].version < Limit(x.item)
    BY <1>1, <1>3, <2>1 DEF Holds
  <2>3. row[x.item].version \in Nat /\ row[x.item].version < MaxVersion
    <3>1. row[x.item].version \in Versions
      BY <2>1 DEF OfKind, Items, Site, Unit, Contract, Company, Employee, Ware
    <3>2. QED
      BY <2>2, <3>1, RegistersAssumption DEF Limit, Versions
  <2>4. OfKind(x.item, Changed(x)) /\ (x.op = "amend" => Changed(x).site = row[x.item].site)
    BY <1>1, <1>3, <2>1, <2>3, ChangedIs
  <2>5. x.op = "amend" => Changed(x).site \in Sites
    BY <2>1, <2>4, RegisterIs DEF OfKind, Contract
  <2>6. QED
    BY <1>3, <2>1, <2>3, <2>4, <2>5 DEF Registering
<1>4. QED
  BY <1>2, <1>3

\* While the rows stand, an operation keeps what it holds when another one gets on.
LEMMA Bystander ==
  ASSUME Kept, NEW t \in Txs, NEW u \in Txs \ {t}, tx[u] # None, row' = row,
         NEW y, tx' = [tx EXCEPT ![t] = y],
         \A i \in Items : lock[i] = u => lock'[i] = u,
         y # None => \A i \in Items : row[i] = None /\ y.puts[i] # None =>
           (tx[t] # None /\ tx[t].puts[i] # None) \/ tx[u].puts[i] = None
  PROVE  tx'[u] = tx[u] /\ Shaped(tx[u])' /\ Holds(u)' /\ Puts(u)' /\ Days(u)'
<1>1. tx'[u] = tx[u] /\ tx[u] \in Tx /\ Shaped(tx[u]) /\ Holds(u) /\ Puts(u) /\ Days(u)
  BY DEF Kept, TypeOK
<1>2. Shaped(tx[u])'
  BY <1>1 DEF Shaped
<1>3. Holds(u)'
  <2>1. tx[u].item \in Items \cup {None}
    BY <1>1, TxFields
  <2>2. QED
    BY <1>1, <2>1 DEF Holds, Stands, Limit
<1>4. Puts(u)'
  <2>1. ASSUME NEW i \in Items, tx[u].puts[i] # None, row[i] = None, NEW v \in Txs \ {u}, tx'[v] # None
        PROVE  tx'[v].puts[i] = None
    <3>1. CASE v = t
      BY <1>1, <2>1, <3>1 DEF Puts, Kept, TypeOK
    <3>2. CASE v # t
      BY <1>1, <2>1, <3>2 DEF Puts, Kept, TypeOK
    <3>3. QED
      BY <3>1, <3>2
  <2>2. \A i \in Items : Keeps(tx[u], i, tx[u].puts[i]) => Keeps(tx[u], i, tx[u].puts[i])'
    BY <1>1 DEF Keeps
  <2>3. QED
    BY <1>1, <2>1, <2>2 DEF Puts
<1>5. Days(u)'
  <2>1. Proposed(tx[u])' = Proposed(tx[u]) /\ (Taken(tx[u])' <=> Taken(tx[u]))
    BY <1>1, SameProposal
  <2>2. tx[u].op \in {"sign", "amend"} /\ tx[u].phase \in {"queued", "free"} =>
          Proposed(tx[u]).site \in Items
    BY ProposedIs DEF Items, Registering
  <2>3. \A k \in Contracts : tx[u].puts[k] # None => tx[u].puts[k].site \in Items
    BY <1>1 DEF Puts, OfKind, Contract, Items
  <2>4. /\ tx'[u].op \in {"sign", "amend"} /\ tx'[u].phase \in {"queued", "free"} =>
             lock'[Proposed(tx[u])'.site] = u
        /\ tx'[u].op \in {"sign", "amend"} /\ tx'[u].phase = "free" => ~Taken(tx[u])'
    BY <1>1, <2>1, <2>2 DEF Days
  <2>5. ASSUME NEW k \in Contracts, tx[u].puts[k] # None
        PROVE  \/ lock'[tx[u].puts[k].site] = u
               \/ /\ row[k] # None /\ tx[u].puts[k].term = row[k].term
                  /\ tx[u].puts[k].live => row[k].live
    BY <1>1, <2>3, <2>5 DEF Days
  <2>6. QED
    BY <1>1, <2>4, <2>5 DEF Days
<1>6. QED
  BY <1>1, <1>2, <1>3, <1>4, <1>5

\* A step that commits nothing and leaves t either gone or in order.
LEMMA Quiet ==
  ASSUME Kept, NEW t \in Txs, row' = row, NEW y \in Tx \cup {None}, tx' = [tx EXCEPT ![t] = y],
         y # None => Shaped(tx[t])' /\ Holds(t)' /\ Puts(t)' /\ Days(t)',
         y # None => \A i \in Items : row[i] = None /\ y.puts[i] # None =>
           \/ tx[t] # None /\ tx[t].puts[i] # None
           \/ \A u \in Txs \ {t} : tx[u] # None => tx[u].puts[i] = None,
         lock' \in [Items -> Txs \cup {None}],
         \A i \in Items : /\ lock'[i] # None => row[i] # None
                          /\ \A u \in Txs \ {t} : lock[i] = u => lock'[i] = u,
         NoClash'
  PROVE  Kept'
<1>1. TypeOK'
  BY DEF Kept, TypeOK
<1>2. Rows'
  BY DEF Kept, Rows
<1>3. ASSUME NEW u \in Txs, tx'[u] # None
      PROVE  Shaped(tx[u])' /\ Holds(u)' /\ Puts(u)' /\ Days(u)'
  <2>1. CASE u = t
    BY <1>3, <2>1 DEF Kept, TypeOK
  <2>2. CASE u # t
    <3>1. tx[u] # None
      BY <1>3, <2>2 DEF Kept, TypeOK
    <3>2. y # None => \A i \in Items : row[i] = None /\ y.puts[i] # None =>
            (tx[t] # None /\ tx[t].puts[i] # None) \/ tx[u].puts[i] = None
      BY <2>2, <3>1
    <3>3. \A i \in Items : lock[i] = u => lock'[i] = u
      BY <2>2
    <3>4. QED
      BY <2>2, <3>1, <3>2, <3>3, Bystander
  <2>3. QED
    BY <2>1, <2>2
<1>4. QED
  BY <1>1, <1>2, <1>3 DEF Kept

\* The locks of an operation that goes on, with one row more or none.
LEMMA LocksGo ==
  ASSUME Kept, NEW t \in Txs,
         \/ lock' = lock
         \/ \E i \in Items : lock[i] = None /\ row[i] # None /\ lock' = [lock EXCEPT ![i] = t]
  PROVE  /\ lock' \in [Items -> Txs \cup {None}]
         /\ \A i \in Items : /\ lock'[i] # None => row[i] # None
                             /\ \A u \in Txs : lock[i] = u => lock'[i] = u
  BY RegistersAssumption DEF Kept, TypeOK, Rows

LEMMA RefuseKept == ASSUME Kept, NEW t \in Txs, Refuse(t) PROVE Kept'
<1>1. row' = row /\ tx' = [tx EXCEPT ![t] = None] /\ None \in Tx \cup {None}
  BY DEF Refuse
<1>2. /\ lock' \in [Items -> Txs \cup {None}]
      /\ \A i \in Items : /\ lock'[i] # None => row[i] # None
                          /\ \A u \in Txs \ {t} : lock[i] = u => lock'[i] = u
  BY DEF Refuse, Unlock, Kept, TypeOK, Rows
<1>3. \A j \in Items : Writ(j)' \subseteq Writ(j)
  BY <1>1 DEF Writ, Kept, TypeOK
<1>4. NoClash'
  BY <1>3, NoClashFewer DEF Kept
<1>5. QED
  BY <1>1, <1>2, <1>4, Quiet

\* An operation goes on to another phase and has written nothing new.
Turned(x, p, h) == [x EXCEPT !.phase = p, !.holder = h]

GoesOn(t, p, h) ==
  LET x == tx[t]
  IN  /\ x # None /\ row' = row /\ tx' = [tx EXCEPT ![t] = Turned(x, p, h)]
      /\ x.phase # "written" /\ p \in Writing(x.op) \ {"asked"} /\ p \in Phases
      /\ h \in Units \cup {None} /\ (p = "waiting" => h # None /\ row[h] # None)
      /\ x.op = "correct" => x.todo # <<>>
      /\ x.op = "amend" => x.term # None
      /\ x.op = "edit" /\ p = "free" => x.name # None
      /\ \/ lock' = lock
         \/ \E i \in Items : lock[i] = None /\ row[i] # None /\ lock' = [lock EXCEPT ![i] = t]
      /\ x.item # None /\ x.op # "update" =>
           /\ lock'[x.item] = t /\ Stands(x.item)
           /\ row[x.item].version < Limit(x.item)
           /\ x.seen # None => x.seen = row[x.item].version
           /\ x.op = "edit" /\ x.by # None => row[x.item].owner \in {x.by, None}
      /\ x.op \in {"sign", "amend"} /\ p \in {"queued", "free"} => lock'[Proposed(x).site] = t
      /\ x.op \in {"sign", "amend"} /\ p = "free" => ~Taken(x)

LEMMA GoOn == ASSUME Kept, NEW t \in Txs, NEW p, NEW h, GoesOn(t, p, h) PROVE Kept'
<1> PICK x : x = tx[t]
  OBVIOUS
<1> PICK y : y = Turned(x, p, h)
  OBVIOUS
<1>0. /\ tx[t] # None /\ row' = row /\ tx' = [tx EXCEPT ![t] = y]
      /\ x.phase # "written" /\ p \in Writing(x.op) \ {"asked"} /\ p \in Phases
      /\ h \in Units \cup {None} /\ (p = "waiting" => h # None /\ row[h] # None)
      /\ x.op = "correct" => x.todo # <<>>
      /\ x.op = "amend" => x.term # None
      /\ x.op = "edit" /\ p = "free" => x.name # None
      /\ \/ lock' = lock
         \/ \E i \in Items : lock[i] = None /\ row[i] # None /\ lock' = [lock EXCEPT ![i] = t]
      /\ x.item # None /\ x.op # "update" =>
           /\ lock'[x.item] = t /\ Stands(x.item)
           /\ row[x.item].version < Limit(x.item)
           /\ x.seen # None => x.seen = row[x.item].version
           /\ x.op = "edit" /\ x.by # None => row[x.item].owner \in {x.by, None}
      /\ x.op \in {"sign", "amend"} /\ p \in {"queued", "free"} => lock'[Proposed(x).site] = t
      /\ x.op \in {"sign", "amend"} /\ p = "free" => ~Taken(x)
  BY DEF GoesOn
<1> USE <1>0
<1>1. x \in Tx /\ x # None /\ Shaped(x) /\ Puts(t) /\ Days(t) /\ TypeOK
  BY DEF Kept, TypeOK
<1>2. /\ y \in Tx /\ y.op = x.op /\ y.phase = p /\ y.by = x.by /\ y.site = x.site /\ y.item = x.item
      /\ y.seen = x.seen /\ y.todo = x.todo /\ y.term = x.term /\ y.name = x.name
      /\ y.active = x.active /\ y.owner = x.owner /\ y.holder = h /\ y.handover = x.handover
      /\ y.puts = x.puts
  BY <1>1 DEF Tx, Turned
<1>3. y # None /\ tx'[t] = y
  BY <1>1, <1>2, RegistersAssumption DEF TypeOK
<1>4. p # "written"
  BY DEF Writing
<1>5. Shaped(tx[t])'
  BY <1>1, <1>2, <1>3, <1>4 DEF Shaped
<1>6. Holds(t)'
  <2>1. Stands(tx[t].item)' <=> Stands(x.item)
    BY <1>2, <1>3 DEF Stands
  <2>2. Limit(tx[t].item)' = Limit(x.item)
    BY <1>2, <1>3
  <2>3. QED
    BY <1>1, <1>2, <1>3, <2>1, <2>2 DEF Holds
<1>7. /\ lock' \in [Items -> Txs \cup {None}]
      /\ \A i \in Items : /\ lock'[i] # None => row[i] # None
                          /\ \A u \in Txs : lock[i] = u => lock'[i] = u
  BY LocksGo
<1>8. Puts(t)'
  <2>1. \A v \in Txs \ {t} : tx'[v] = tx[v]
    BY <1>1
  <2>2. \A i \in Items : Keeps(x, i, x.puts[i]) => Keeps(y, i, y.puts[i])'
    BY <1>2 DEF Keeps
  <2>3. QED
    BY <1>1, <1>2, <1>3, <1>7, <2>1, <2>2 DEF Puts
<1>9. Days(t)'
  <2>1. Proposed(y) = Proposed(x) /\ (Taken(y) <=> Taken(x))
    BY ONLY <1>2, SameRequest
  <2>2. Proposed(tx[t])' = Proposed(y) /\ (Taken(tx[t])' <=> Taken(y))
    <3>1. tx'[t] = y /\ row' = row
      BY <1>3
    <3>2. Fresh(tx[t])' = Fresh(y)
      BY ONLY <3>1 DEF Fresh
    <3>3. Changed(tx[t])' = Changed(y)
      BY ONLY <3>1 DEF Changed
    <3>4. Proposed(tx[t])' = Proposed(y)
      BY ONLY <3>1, <3>2, <3>3 DEF Proposed
    <3>5. QED
      BY ONLY <3>1, <3>4 DEF Taken, Others
  <2>3. /\ tx'[t].op \in {"sign", "amend"} /\ tx'[t].phase \in {"queued", "free"} =>
             lock'[Proposed(tx[t])'.site] = t
        /\ tx'[t].op \in {"sign", "amend"} /\ tx'[t].phase = "free" => ~Taken(tx[t])'
    <3>1. /\ x.op \in {"sign", "amend"} /\ p \in {"queued", "free"} => lock'[Proposed(x).site] = t
          /\ x.op \in {"sign", "amend"} /\ p = "free" => ~Taken(x)
      OBVIOUS
    <3>2. QED
      BY ONLY <1>2, <1>3, <2>1, <2>2, <3>1
  <2>4. \A k \in Contracts : x.puts[k] # None => x.puts[k].site \in Items
    BY <1>1 DEF Puts, OfKind, Contract, Items
  <2>5. ASSUME NEW k \in Contracts, x.puts[k] # None
        PROVE  \/ lock'[x.puts[k].site] = t
               \/ /\ row[k] # None /\ x.puts[k].term = row[k].term
                  /\ x.puts[k].live => row[k].live
    BY <1>1, <1>7, <2>4, <2>5 DEF Days
  <2>6. QED
    BY <1>2, <1>3, <2>3, <2>5 DEF Days
<1>10. NoClash'
  <2>1. \A j \in Items : Writ(j)' \subseteq Writ(j)
    BY <1>1, <1>2, <1>3 DEF Writ, TypeOK
  <2>2. QED
    BY <2>1, NoClashFewer DEF Kept
<1>11. \A i \in Items : row[i] = None /\ y.puts[i] # None => tx[t] # None /\ tx[t].puts[i] # None
  BY <1>1, <1>2
<1>12. Kept /\ t \in Txs /\ row' = row /\ y \in Tx \cup {None} /\ tx' = [tx EXCEPT ![t] = y]
  BY <1>2
<1>13. /\ y # None => Shaped(tx[t])' /\ Holds(t)' /\ Puts(t)' /\ Days(t)'
       /\ y # None => \A i \in Items : row[i] = None /\ y.puts[i] # None =>
            \/ tx[t] # None /\ tx[t].puts[i] # None
            \/ \A u \in Txs \ {t} : tx[u] # None => tx[u].puts[i] = None
  BY ONLY <1>5, <1>6, <1>8, <1>9, <1>11
<1>14. /\ lock' \in [Items -> Txs \cup {None}]
       /\ \A i \in Items : /\ lock'[i] # None => row[i] # None
                           /\ \A u \in Txs \ {t} : lock[i] = u => lock'[i] = u
  BY ONLY <1>7
<1>15. QED
  BY ONLY <1>10, <1>12, <1>13, <1>14, Quiet

\* What an operation is after it has written row i.
Wrote(x, y, i, r) ==
  /\ y \in Tx /\ y.op = x.op /\ y.by = x.by /\ y.site = x.site /\ y.item = x.item /\ y.seen = x.seen
  /\ y.term = x.term /\ y.name = x.name /\ y.owner = x.owner
  /\ y.puts = [x.puts EXCEPT ![i] = r]
  /\ y.todo = IF x.todo = <<>> THEN <<>> ELSE Tail(x.todo)
  /\ y.phase = IF Len(x.todo) > 1 THEN "asked" ELSE "written"

LEMMA PutIs ==
  ASSUME NEW x \in Tx, NEW i \in Items, NEW r \in Row, NEW h \in Handover
  PROVE  /\ Wrote(x, Put(x, i, r), i, r) /\ Put(x, i, r).handover = x.handover
         /\ Wrote(x, [Put(x, i, r) EXCEPT !.handover = h], i, r)
<1> DEFINE todo  == IF x.todo = <<>> THEN x.todo ELSE Tail(x.todo)
           phase == IF Len(x.todo) > 1 THEN "asked" ELSE "written"
           puts  == [x.puts EXCEPT ![i] = r]
           y     == [x EXCEPT !.puts = puts, !.holder = None, !.todo = todo, !.phase = phase]
<1>1. Put(x, i, r) = y
  BY DEF Put
<1>2. todo \in Seq(Serials) /\ todo = IF x.todo = <<>> THEN <<>> ELSE Tail(x.todo)
  BY TxFields
<1>3. puts \in [Items -> Row \cup {None}]
  BY TxFields
<1>4. phase \in Phases
  BY DEF Phases
<1> HIDE DEF todo, puts, phase
<1>5. /\ y \in Tx /\ y.op = x.op /\ y.by = x.by /\ y.site = x.site /\ y.item = x.item /\ y.seen = x.seen
      /\ y.term = x.term /\ y.name = x.name /\ y.owner = x.owner /\ y.handover = x.handover
      /\ y.puts = puts /\ y.todo = todo /\ y.phase = phase
  <2>1. todo \in Seq(Serials) /\ phase \in Phases /\ puts \in [Items -> Row \cup {None}]
    BY <1>2, <1>3, <1>4
  <2>2. PICK a \in Tx : a = [x EXCEPT !.puts = puts, !.holder = None]
    BY <2>1 DEF Tx
  <2>3. /\ a.op = x.op /\ a.by = x.by /\ a.site = x.site /\ a.item = x.item /\ a.seen = x.seen
        /\ a.term = x.term /\ a.name = x.name /\ a.owner = x.owner /\ a.handover = x.handover
        /\ a.puts = puts
    BY <2>2 DEF Tx
  <2>4. y = [a EXCEPT !.todo = todo, !.phase = phase]
    BY <2>2
  <2> HIDE DEF y
  <2>5. QED
    BY ONLY <2>1, <2>3, <2>4 DEF Tx
<1> HIDE DEF y
<1>6. Wrote(x, y, i, r) /\ y.handover = x.handover
  BY <1>2, <1>5 DEF Wrote, phase, puts
<1> DEFINE z == [y EXCEPT !.handover = h]
<1>7. /\ z \in Tx /\ z.op = y.op /\ z.by = y.by /\ z.site = y.site /\ z.item = y.item /\ z.seen = y.seen
      /\ z.term = y.term /\ z.name = y.name /\ z.owner = y.owner
      /\ z.puts = y.puts /\ z.todo = y.todo /\ z.phase = y.phase
  <2>1. y \in Tx /\ h \in Handover \cup {None}
    BY <1>5
  <2>2. z = [y EXCEPT !.handover = h]
    OBVIOUS
  <2> HIDE DEF z
  <2>3. QED
    BY ONLY <2>1, <2>2 DEF Tx
<1> HIDE DEF z
<1>8. Wrote(x, z, i, r)
  BY <1>6, <1>7 DEF Wrote
<1>9. QED
  BY <1>1, <1>6, <1>8 DEF z

\* The serials that are left when the first one is done.
LEMMA Left ==
  ASSUME NEW S, NEW s \in Seq(S), NEW d, d = IF s = <<>> THEN <<>> ELSE Tail(s)
  PROVE  /\ \A k \in DOMAIN d : k + 1 \in DOMAIN s /\ d[k] = s[k + 1] /\ k \in Nat \ {0}
         /\ Len(s) > 1 => d # <<>>
         /\ Len(s) <= 1 => Len(d) <= 1
         /\ s # <<>> => Head(s) = s[1] /\ 1 \in DOMAIN s
<1>1. CASE s = <<>>
  BY <1>1
<1>2. CASE s # <<>>
  <2>1. d = Tail(s) /\ Len(d) = Len(s) - 1 /\ d \in Seq(S) /\ Len(s) \in Nat \ {0}
    BY <1>2
  <2>2. /\ DOMAIN s = 1 .. Len(s) /\ DOMAIN d = 1 .. Len(d)
        /\ \A k \in 1 .. Len(d) : d[k] = s[k + 1]
    BY <2>1
  <2>3. Len(s) > 1 => d # <<>>
    BY <2>1
  <2>4. Head(s) = s[1]
    BY <1>2
  <2>5. QED
    BY <2>1, <2>2, <2>3, <2>4
<1>3. QED
  BY <1>1, <1>2

\* A row is written: new and nobody else's, or as the one that stands and is held.
LEMMA PutKept ==
  ASSUME Kept, NEW t \in Txs, tx[t] # None, row' = row, NEW x, x = tx[t], x.phase # "written",
         NEW i \in Items, i \in Register[x.op], NEW r, OfKind(i, r),
         NEW y, Wrote(x, y, i, r), tx' = [tx EXCEPT ![t] = y],
         y.handover # None => x.op = "move",
         \/ lock' = lock
         \/ \E j \in Items : lock[j] = None /\ row[j] # None /\ lock' = [lock EXCEPT ![j] = t],
         row[i] = None => \A v \in Txs : tx[v] # None => tx[v].puts[i] = None,
         row[i] # None => lock'[i] = t /\ Keeps(y, i, r),
         x.op = "install" => r.serial = Head(x.todo),
         x.item # None /\ x.op # "update" =>
           /\ lock'[x.item] = t /\ Stands(x.item)
           /\ row[x.item].version < Limit(x.item)
           /\ x.seen # None => x.seen = row[x.item].version
           /\ x.op = "edit" /\ x.by # None => row[x.item].owner \in {x.by, None},
         i \in Contracts =>
           \/ lock'[r.site] = t
           \/ row[i] # None /\ r.term = row[i].term /\ (r.live => row[i].live),
         \A I \in Unique : i \in I => \A j \in I \ {i} : \A q \in Writ(j) : ~Clash(I, q, r)
  PROVE  Kept'
<1>1. x \in Tx /\ x # None /\ Shaped(x) /\ Puts(t) /\ Days(t) /\ TypeOK /\ x.puts \in [Items -> Row \cup {None}]
      /\ x.todo \in Seq(Serials)
  BY TxFields DEF Kept, TypeOK
<1>2. /\ y \in Tx /\ y.op = x.op /\ y.by = x.by /\ y.site = x.site /\ y.item = x.item /\ y.seen = x.seen
      /\ y.term = x.term /\ y.name = x.name /\ y.owner = x.owner
      /\ y.puts = [x.puts EXCEPT ![i] = r]
      /\ y.todo = (IF x.todo = <<>> THEN <<>> ELSE Tail(x.todo))
      /\ y.phase = IF Len(x.todo) > 1 THEN "asked" ELSE "written"
  BY DEF Wrote
<1>3. y # None /\ tx'[t] = y /\ r # None /\ r \in Row
  BY <1>1, <1>2, KindIsRow, RegistersAssumption DEF TypeOK
<1>4. y.puts[i] = r /\ \A j \in Items \ {i} : y.puts[j] = x.puts[j]
  BY <1>1, <1>2
<1>5. y.phase = "asked" => x.op = "install" /\ y.handover = None /\ Len(x.todo) > 1
  BY <1>1, <1>2 DEF Shaped
<1>6. /\ \A k \in DOMAIN y.todo : k + 1 \in DOMAIN x.todo /\ y.todo[k] = x.todo[k + 1] /\ k \in Nat \ {0}
      /\ Len(x.todo) > 1 => y.todo # <<>>
      /\ Len(x.todo) <= 1 => Len(y.todo) <= 1
      /\ x.todo # <<>> => Head(x.todo) = x.todo[1] /\ 1 \in DOMAIN x.todo
  <2>1. x.todo \in Seq(Serials) /\ y.todo = IF x.todo = <<>> THEN <<>> ELSE Tail(x.todo)
    BY ONLY <1>1, <1>2
  <2>2. QED
    BY ONLY <2>1, Left
<1>7. \A k, m \in DOMAIN y.todo : y.todo[k] = y.todo[m] => k = m
  BY <1>1, <1>6 DEF Shaped
<1>8. Shaped(tx[t])'
  <2>1. /\ y.phase \in Writing(y.op) \cup {"written"}
        /\ y.op = "install" /\ y.phase # "written" => y.todo # <<>>
    BY <1>2, <1>5, <1>6 DEF Writing
  <2>2. y.op # "install" => Len(y.todo) <= 1
    BY <1>1, <1>2, <1>6 DEF Shaped
  <2>3. y.phase \in {"asked", "written"} /\ (y.phase = "written" \/ y.op = "install")
    BY <1>2, <1>5
  <2>4. row' = row
    OBVIOUS
  <2>5. /\ x.item = None <=> x.op \in Registering
        /\ x.item # None => x.item \in Register[x.op] /\ row[x.item] # None
        /\ x.op \in {"install", "sign"} => x.site \in Sites
        /\ x.op = "sign" => x.term # None
        /\ x.op \in {"open", "list"} => x.name # None
        /\ x.op \in Matching <=> x.seen # None
    BY <1>1 DEF Shaped
  <2>6. x.op \in {"edit", "amend"} => y.phase = "written"
    BY <1>2, <2>3
  <2>7. QED
    BY ONLY <1>2, <1>3, <1>5, <1>7, <2>1, <2>2, <2>3, <2>4, <2>5, <2>6 DEF Shaped
<1>9. Holds(t)'
  <2>1. Stands(tx[t].item)' <=> Stands(x.item)
    BY <1>2, <1>3 DEF Stands
  <2>2. Limit(tx[t].item)' = Limit(x.item)
    BY <1>2, <1>3
  <2>3. QED
    BY <1>1, <1>2, <1>3, <2>1, <2>2 DEF Holds
<1>10. /\ lock' \in [Items -> Txs \cup {None}]
       /\ \A j \in Items : /\ lock'[j] # None => row[j] # None
                           /\ \A u \in Txs : lock[j] = u => lock'[j] = u
  BY LocksGo
<1>11. Puts(t)'
  <2>1. \A v \in Txs \ {t} : tx'[v] = tx[v]
    BY <1>1
  <2>2. ASSUME NEW j \in Items, y.puts[j] # None
        PROVE  /\ j \in Register[y.op] /\ OfKind(j, y.puts[j])
               /\ row[j] = None => \A v \in Txs \ {t} : tx'[v] # None => tx'[v].puts[j] = None
               /\ row[j] # None => lock'[j] = t /\ Keeps(y, j, y.puts[j])
               /\ j \in Units /\ y.op = "install" => \A k \in DOMAIN y.todo : y.puts[j].serial # y.todo[k]
    <3>1. CASE j = i
      <4>1. ASSUME x.op = "install", NEW k \in DOMAIN y.todo PROVE r.serial # y.todo[k]
        <5>1. x.todo # <<>>
          BY <1>1, <4>1 DEF Shaped
        <5>2. /\ r.serial = x.todo[1] /\ 1 \in DOMAIN x.todo
              /\ k + 1 \in DOMAIN x.todo /\ y.todo[k] = x.todo[k + 1] /\ k + 1 # 1
          BY <1>6, <4>1, <5>1
        <5>3. QED
          BY <1>1, <5>2 DEF Shaped
      <4>2. QED
        BY <1>2, <1>4, <2>1, <3>1, <4>1
    <3>2. CASE j # i
      <4>1. y.puts[j] = x.puts[j] /\ x.puts[j] # None /\ x.op = "install" /\ y.handover = None /\ x.handover = None
        BY <1>1, <1>4, <2>2, <3>2 DEF Shaped
      <4>2. /\ j \in Register[x.op] /\ OfKind(j, x.puts[j])
            /\ row[j] = None => \A v \in Txs \ {t} : tx[v] # None => tx[v].puts[j] = None
            /\ row[j] # None => lock[j] = t /\ Keeps(x, j, x.puts[j])
            /\ j \in Units => \A k \in DOMAIN x.todo : x.puts[j].serial # x.todo[k]
        BY <1>1, <4>1 DEF Puts
      <4>3. Keeps(x, j, x.puts[j]) => Keeps(y, j, x.puts[j])
        BY <4>1 DEF Keeps
      <4>4. QED
        BY <1>2, <1>6, <1>10, <2>1, <4>1, <4>2, <4>3
    <3>3. QED
      BY <3>1, <3>2
  <2>3. \A j \in Items : Keeps(tx[t], j, tx[t].puts[j])' <=> Keeps(y, j, y.puts[j])
    BY <1>3 DEF Keeps
  <2>4. row' = row
    OBVIOUS
  <2>5. QED
    BY ONLY <1>3, <2>2, <2>3, <2>4 DEF Puts
<1>12. Days(t)'
  <2>1. \A k \in Contracts : x.puts[k] # None => x.puts[k].site \in Items
    BY <1>1 DEF Puts, OfKind, Contract, Items
  <2>2. ASSUME NEW k \in Contracts, y.puts[k] # None
        PROVE  \/ lock'[y.puts[k].site] = t
               \/ /\ row[k] # None /\ y.puts[k].term = row[k].term
                  /\ y.puts[k].live => row[k].live
    <3>1. CASE k = i
      BY <1>4, <2>2, <3>1
    <3>2. CASE k # i
      <4>1. y.puts[k] = x.puts[k]
        BY <1>4, <3>2 DEF Items
      <4>2. QED
        BY <1>1, <1>10, <2>1, <2>2, <4>1 DEF Days
    <3>3. QED
      BY <3>1, <3>2
  <2>3. y.phase \notin {"queued", "free"} /\ row' = row
    BY <1>2
  <2>4. QED
    BY ONLY <1>3, <2>2, <2>3 DEF Days
<1>13. NoClash'
  <2>1. \A j \in Items \ {i} : Writ(j)' \subseteq Writ(j)
    BY <1>1, <1>3, <1>4 DEF Writ, TypeOK
  <2>2. Writ(i)' \subseteq Writ(i) \cup {r}
    BY <1>1, <1>3, <1>4 DEF Writ, TypeOK
  <2>3. \A I \in Unique : i \in I => \A j \in I \ {i} : \A q \in Writ(j) : ~Clash(I, q, r)
    OBVIOUS
  <2>4. NoClash /\ i \in Items
    BY DEF Kept
  <2>5. QED
    BY ONLY <1>3, <2>1, <2>2, <2>3, <2>4, NoClashMore
<1>14. \A j \in Items : row[j] = None /\ y.puts[j] # None =>
         \/ tx[t] # None /\ tx[t].puts[j] # None
         \/ \A u \in Txs \ {t} : tx[u] # None => tx[u].puts[j] = None
  BY <1>4
<1>15. Kept /\ t \in Txs /\ row' = row /\ y \in Tx \cup {None} /\ tx' = [tx EXCEPT ![t] = y]
  BY <1>2
<1>16. /\ y # None => Shaped(tx[t])' /\ Holds(t)' /\ Puts(t)' /\ Days(t)'
       /\ y # None => \A j \in Items : row[j] = None /\ y.puts[j] # None =>
            \/ tx[t] # None /\ tx[t].puts[j] # None
            \/ \A u \in Txs \ {t} : tx[u] # None => tx[u].puts[j] = None
  BY ONLY <1>8, <1>9, <1>11, <1>12, <1>14
<1>17. /\ lock' \in [Items -> Txs \cup {None}]
       /\ \A j \in Items : /\ lock'[j] # None => row[j] # None
                           /\ \A u \in Txs \ {t} : lock[j] = u => lock'[j] = u
  BY ONLY <1>10
<1>18. QED
  BY ONLY <1>13, <1>15, <1>16, <1>17, Quiet

-----------------------------------------------------------------------------
(* A request arrives. *)

LEMMA RequestIs ==
  ASSUME NEW op \in DOMAIN Register
  PROVE  LET q == Request(op)
         IN  /\ q \in Tx /\ q.op = op /\ q.phase = (IF op = "list" THEN "free" ELSE "asked")
             /\ q.site = None /\ q.item = None /\ q.seen = None /\ q.todo = <<>> /\ q.term = None
             /\ q.name = None /\ q.holder = None /\ q.handover = None
             /\ q.puts = [i \in Items |-> None]
<1>1. [i \in Items |-> None] \in [Items -> Row \cup {None}] /\ <<>> \in Seq(Serials)
  OBVIOUS
<1> DEFINE puts == [i \in Items |-> None]
           phase == IF op = "list" THEN "free" ELSE "asked"
<1>2. phase \in Phases /\ puts \in [Items -> Row \cup {None}]
  BY <1>1 DEF Phases
<1>3. Request(op) =
        [op |-> op, phase |-> phase, by |-> None,
         site |-> None, item |-> None, seen |-> None, todo |-> <<>>, term |-> None, name |-> None,
         active |-> None, owner |-> None, holder |-> None, handover |-> None, puts |-> puts]
  BY DEF Request
<1> HIDE DEF puts, phase
<1>4. QED
  BY <1>1, <1>2, <1>3 DEF Tx, Owners, puts, phase

\* What every request has, whatever it asks for.
Fit(y) ==
  /\ y \in Tx /\ y.phase = (IF y.op = "list" THEN "free" ELSE "asked") /\ y.holder = None
  /\ y.handover = None /\ y.puts = [i \in Items |-> None]

LEMMA Bare ==
  ASSUME NEW op \in DOMAIN Register
  PROVE  /\ Fit(Request(op)) /\ Request(op).op = op
         /\ Request(op).site = None /\ Request(op).item = None /\ Request(op).seen = None
         /\ Request(op).todo = <<>> /\ Request(op).term = None /\ Request(op).name = None
  BY RequestIs DEF Fit

LEMMA OnRowIs ==
  ASSUME NEW op \in DOMAIN Register, NEW i \in Items
  PROVE  LET x == OnRow(op, i)
         IN  /\ Fit(x) /\ x.op = op /\ x.item = i /\ x.seen = None
             /\ x.todo = <<>> /\ x.term = None /\ x.name = None
<1> DEFINE q == Request(op)
<1>1. Fit(q) /\ q.op = op /\ q.seen = None /\ q.todo = <<>> /\ q.term = None /\ q.name = None
  BY Bare
<1> HIDE DEF q
<1>2. OnRow(op, i) = [q EXCEPT !.item = i]
  BY DEF q, OnRow
<1>3. QED
  BY <1>1, <1>2 DEF Fit, Tx

LEMMA OnSeenIs ==
  ASSUME NEW op \in DOMAIN Register, NEW i \in Items, row[i].version \in Versions
  PROVE  LET x == OnSeen(op, i)
         IN  /\ Fit(x) /\ x.op = op /\ x.item = i /\ x.seen = row[i].version
             /\ x.todo = <<>> /\ x.term = None /\ x.name = None
<1> DEFINE q == OnRow(op, i)
           n == row[i].version
<1>1. Fit(q) /\ q.op = op /\ q.item = i /\ q.todo = <<>> /\ q.term = None /\ q.name = None /\ n \in Versions
  BY OnRowIs
<1>2. OnSeen(op, i) = [q EXCEPT !.seen = n]
  BY DEF OnSeen
<1> HIDE DEF q, n
<1>3. [q EXCEPT !.seen = n].seen = n /\ Fit([q EXCEPT !.seen = n])
  BY ONLY <1>1 DEF Fit, Tx
<1>4. QED
  BY <1>1, <1>2, <1>3 DEF Fit, Tx, n

\* An operation that registers something new, on no row and under no version.
LEMMA RegisteringShaped ==
  ASSUME NEW y, Fit(y), y.op \in Registering, y.item = None, y.seen = None,
         y.op \in {"install", "sign"} => y.site \in Sites,
         y.op = "install" => y.todo # <<>>,
         y.op # "install" => y.todo = <<>>,
         \A k, m \in DOMAIN y.todo : y.todo[k] = y.todo[m] => k = m,
         y.op = "sign" => y.term # None,
         y.op \in {"open", "list"} => y.name # None
  PROVE  Shaped(y)
  BY DEF Fit, Shaped, Registering, Matching, Writing

\* An operation on a row that is there.
LEMMA CorrectingShaped ==
  ASSUME NEW y, Fit(y), y.op \in DOMAIN Register \ Registering,
         y.item # None, y.item \in Register[y.op], row[y.item] # None,
         y.op \in Matching <=> y.seen # None,
         y.todo = <<>> \/ \E s : y.todo = <<s>>
  PROVE  Shaped(y)
<1>1. Len(y.todo) <= 1 /\ \A k, m \in DOMAIN y.todo : y.todo[k] = y.todo[m] => k = m
  <2>1. CASE y.todo = <<>>
    BY <2>1
  <2>2. CASE \E s : y.todo = <<s>>
    BY <2>2
  <2>3. QED
    BY <2>1, <2>2
<1>2. y.op \notin {"install", "sign", "open", "list"} /\ y.phase = "asked" /\ "asked" \in Writing(y.op)
  BY DEF Fit, Registering, Writing
<1>3. QED
  BY <1>1, <1>2 DEF Fit, Shaped, Registering

LEMMA RequestKept ==
  ASSUME Kept, NEW t \in Txs, tx[t] = None, row' = row, lock' = lock,
         NEW y, Fit(y), Shaped(y), tx' = [tx EXCEPT ![t] = y]
  PROVE  Kept'
<1>1. /\ y \in Tx /\ y # None /\ tx'[t] = y /\ y.puts = [i \in Items |-> None]
      /\ y.phase \in {"asked", "free"} /\ (y.phase = "free" => y.op = "list") /\ TypeOK
  BY RegistersAssumption DEF Fit, Kept, TypeOK
<1>2. \A i \in Items : y.puts[i] = None
  BY <1>1
<1>3. Shaped(tx[t])'
  BY <1>1 DEF Shaped
<1>4. Holds(t)'
  BY <1>1 DEF Holds, Shaped, Registering
<1>5. Puts(t)'
  BY <1>1, <1>2 DEF Puts
<1>6. Days(t)'
  BY <1>1, <1>2 DEF Days, Items
<1>7. NoClash'
  <2>1. \A j \in Items : Writ(j)' \subseteq Writ(j)
    BY <1>1, <1>2, RegistersAssumption DEF Writ, TypeOK
  <2>2. QED
    BY <2>1, NoClashFewer DEF Kept
<1>8. /\ lock' \in [Items -> Txs \cup {None}]
      /\ \A i \in Items : /\ lock'[i] # None => row[i] # None
                          /\ \A u \in Txs \ {t} : lock[i] = u => lock'[i] = u
  BY DEF Kept, TypeOK, Rows
<1>9. Kept /\ t \in Txs /\ row' = row /\ y \in Tx \cup {None} /\ tx' = [tx EXCEPT ![t] = y]
  BY <1>1
<1>10. /\ y # None => Shaped(tx[t])' /\ Holds(t)' /\ Puts(t)' /\ Days(t)'
       /\ y # None => \A j \in Items : row[j] = None /\ y.puts[j] # None =>
            \/ tx[t] # None /\ tx[t].puts[j] # None
            \/ \A u \in Txs \ {t} : tx[u] # None => tx[u].puts[j] = None
  BY ONLY <1>2, <1>3, <1>4, <1>5, <1>6
<1>11. QED
  BY ONLY <1>7, <1>8, <1>9, <1>10, Quiet

LEMMA RequestsShaped == ASSUME Kept, NEW y \in Requests PROVE Fit(y) /\ Shaped(y)
<1>1. ASSUME NEW i \in Items, row[i] # None
      PROVE  i # None /\ row[i].version \in Versions /\ row[i].version # None
  <2>1. OfKind(i, row[i]) /\ i # None
    BY <1>1, RegistersAssumption DEF Kept, Rows
  <2>2. row[i].version \in Versions
    BY <2>1 DEF OfKind, Items, Site, Unit, Contract, Company, Employee, Ware
  <2>3. None \notin Nat
    BY RegistersAssumption
  <2>4. QED
    BY ONLY <2>1, <2>2, <2>3 DEF Versions
<1>2. ASSUME NEW op \in DOMAIN Register \ Registering, op \in Matching,
             NEW i \in Register[op], i \in Items, row[i] # None,
             NEW x, x = OnSeen(op, i)
      PROVE  /\ Fit(x) /\ x.op = op /\ x.item = i /\ x.item # None /\ x.seen # None
             /\ x.item \in Register[x.op] /\ row[x.item] # None /\ (x.op \in Matching <=> x.seen # None)
             /\ x.todo = <<>>
  <2>1. op \in DOMAIN Register /\ i \in Items /\ row[i].version \in Versions /\ row[i].version # None /\ i # None
    BY <1>1, <1>2
  <2>2. Fit(x) /\ x.op = op /\ x.item = i /\ x.seen = row[i].version /\ x.todo = <<>>
    BY ONLY <1>2, <2>1, OnSeenIs
  <2>3. QED
    BY <1>2, <2>1, <2>2
<1>3. ASSUME NEW op \in DOMAIN Register \ Registering, op \notin Matching,
             NEW i \in Register[op], i \in Items, row[i] # None,
             NEW x, x = OnRow(op, i)
      PROVE  /\ Fit(x) /\ x.op = op /\ x.item = i /\ x.item # None /\ x.seen = None
             /\ x.item \in Register[x.op] /\ row[x.item] # None /\ (x.op \in Matching <=> x.seen # None)
             /\ x.todo = <<>>
  <2>1. x = OnRow(op, i) /\ op \in DOMAIN Register /\ i \in Items
    BY <1>3
  <2>2. Fit(x) /\ x.op = op /\ x.item = i /\ x.seen = None /\ x.todo = <<>>
    BY ONLY <2>1, OnRowIs
  <2>3. QED
    BY <1>1, <1>3, <2>2
<1>4. /\ \A d \in Lists : d \in Seq(Serials) /\ d # <<>> /\ \A k, m \in DOMAIN d : d[k] = d[m] => k = m
      /\ \A d \in Single \cup {<<>>} : d \in Seq(Serials) /\ (d = <<>> \/ \E s : d = <<s>>)
  <2>1. ASSUME NEW s \in Serials
        PROVE  <<s>> \in Seq(Serials) /\ <<s>> # <<>> /\ \A k, m \in DOMAIN <<s>> : <<s>>[k] = <<s>>[m] => k = m
    OBVIOUS
  <2>2. ASSUME NEW a \in Serials, NEW b \in Serials, a # b, NEW d, d = <<a, b>>
        PROVE  d \in Seq(Serials) /\ d # <<>> /\ \A k, m \in DOMAIN d : d[k] = d[m] => k = m
    <3>1. DOMAIN d = {1, 2} /\ d[1] = a /\ d[2] = b /\ d \in Seq(Serials) /\ d # <<>>
      BY <2>2
    <3>2. QED
      BY ONLY <2>2, <3>1
  <2>3. \A d \in Serials \X Serials : d[1] # d[2] => \E a, b \in Serials : a # b /\ d = <<a, b>>
    OBVIOUS
  <2>4. <<>> \in Seq(Serials)
    OBVIOUS
  <2>5. \A d \in Lists : (\E s \in Serials : d = <<s>>) \/ (\E a, b \in Serials : a # b /\ d = <<a, b>>)
    BY <2>3 DEF Lists, Single
  <2>6. \A d \in Single \cup {<<>>} : d = <<>> \/ \E s \in Serials : d = <<s>>
    BY DEF Single
  <2>7. ASSUME NEW d \in Lists
        PROVE  d \in Seq(Serials) /\ d # <<>> /\ \A k, m \in DOMAIN d : d[k] = d[m] => k = m
    <3>1. CASE \E s \in Serials : d = <<s>>
      BY <2>1, <3>1
    <3>2. CASE \E a, b \in Serials : a # b /\ d = <<a, b>>
      BY <2>2, <3>2
    <3>3. QED
      BY <2>5, <3>1, <3>2
  <2>8. QED
    BY <2>1, <2>4, <2>6, <2>7
<1> DEFINE Retired == {FALSE, None}
           R1 == {Install(a, d) : a \in Sites, d \in Lists}
           R2 == {Correct(i, d) : i \in Known(Units), d \in Single \cup {<<>>}}
           R3 == {OnRow("remove", i) : i \in Known(Units)}
           R4 == {OnSeen("relocate", i) : i \in Known(Sites)}
           R5 == {Sign(a, d) : a \in Sites, d \in Terms}
           R6 == {Amend(i, d) : i \in Known(Contracts), d \in Terms \cup {None}}
           R7 == {OnRow("cancel", i) : i \in Known(Contracts)}
           R8 == {Open(e, n) : e \in Owners, n \in Names}
           R9 == {Edit(i, e, n) : i \in Known(Companies), e \in Owners, n \in Names \cup {None}}
           R10 == {Move(i, e) : i \in Known(Companies), e \in Owners}
           R11 == {Update(i, b) : i \in Known(Staff), b \in BOOLEAN \cup {None}}
           R12 == {List(n) : n \in Names}
           R13 == {Revise(i, b) : i \in Known(Wares), b \in Retired}
<1>5. Requests = R1 \cup R2 \cup R3 \cup R4 \cup R5 \cup R6 \cup R7 \cup R8 \cup R9 \cup R10 \cup R11 \cup R12 \cup R13
  BY DEF Requests
<1> HIDE DEF R1, R2, R3, R4, R5, R6, R7, R8, R9, R10, R11, R12, R13, Retired
<1>10. CASE y \in R1
  <2>1. PICK a \in Sites, d \in Lists : y = Install(a, d)
    BY <1>10 DEF R1
  <2>2. PICK q : q = Request("install")
    OBVIOUS
  <2>3. Fit(q) /\ q.op = "install" /\ q.item = None /\ q.seen = None
    BY <2>2, Bare, RegisterIs
  <2>4. y = [q EXCEPT !.site = a, !.todo = d] /\ d \in Seq(Serials)
    BY <1>4, <2>1, <2>2
   DEF Install
<2>5. /\ Fit(y) /\ y.op = "install" /\ y.item = None /\ y.seen = None /\ y.site = a /\ y.todo = d
    BY ONLY <2>3, <2>4, a \in Sites DEF Fit, Tx
  <2>6. QED
    <3>1. /\ Fit(y) /\ y.op \in Registering /\ y.item = None /\ y.seen = None
          /\ y.site \in Sites /\ y.todo # <<>> /\ y.op = "install"
          /\ \A k, m \in DOMAIN y.todo : y.todo[k] = y.todo[m] => k = m
      BY <1>4, <2>5 DEF Registering
    <3>2. QED
      BY ONLY <3>1, RegisteringShaped
<1>11. CASE y \in R5
  <2>1. PICK a \in Sites, d \in Terms : y = Sign(a, d)
    BY <1>11 DEF R5
  <2>2. PICK q : q = Request("sign")
    OBVIOUS
  <2>3. Fit(q) /\ q.op = "sign" /\ q.item = None /\ q.seen = None /\ q.todo = <<>>
    BY <2>2, Bare, RegisterIs
  <2>4. y = [q EXCEPT !.site = a, !.term = d] /\ d # None
    BY <2>1, <2>2, RegistersAssumption
   DEF Sign
<2>5. /\ Fit(y) /\ y.op = "sign" /\ y.item = None /\ y.seen = None /\ y.site = a
        /\ y.todo = <<>> /\ y.term = d
    BY ONLY <2>3, <2>4, a \in Sites, d \in Terms DEF Fit, Tx
  <2>6. QED
    <3>1. /\ Fit(y) /\ y.op \in Registering /\ y.item = None /\ y.seen = None
          /\ y.site \in Sites /\ y.term # None /\ y.todo = <<>> /\ y.op = "sign"
          /\ \A k, m \in DOMAIN y.todo : y.todo[k] = y.todo[m] => k = m
      BY <2>4, <2>5 DEF Registering
    <3>2. QED
      BY ONLY <3>1, RegisteringShaped
<1>12. CASE y \in R8
  <2>1. PICK e \in Owners, n \in Names : y = Open(e, n)
    BY <1>12 DEF R8
  <2>2. PICK q : q = Request("open")
    OBVIOUS
  <2>3. Fit(q) /\ q.op = "open" /\ q.item = None /\ q.seen = None /\ q.todo = <<>>
    BY <2>2, Bare, RegisterIs
  <2>4. y = [q EXCEPT !.by = e, !.name = n] /\ n # None
    BY <2>1, <2>2, RegistersAssumption
   DEF Open
<2>5. Fit(y) /\ y.op = "open" /\ y.item = None /\ y.seen = None /\ y.todo = <<>> /\ y.name = n
    BY ONLY <2>3, <2>4, e \in Owners, n \in Names DEF Fit, Tx
  <2>6. QED
    <3>1. /\ Fit(y) /\ y.op \in Registering /\ y.item = None /\ y.seen = None
          /\ y.name # None /\ y.todo = <<>> /\ y.op = "open"
          /\ \A k, m \in DOMAIN y.todo : y.todo[k] = y.todo[m] => k = m
      BY <2>4, <2>5 DEF Registering
    <3>2. QED
      BY ONLY <3>1, RegisteringShaped
<1>13. CASE y \in R12
  <2>1. PICK n \in Names : y = List(n)
    BY <1>13 DEF R12
  <2>2. PICK q : q = Request("list")
    OBVIOUS
  <2>3. Fit(q) /\ q.op = "list" /\ q.item = None /\ q.seen = None /\ q.todo = <<>>
    BY <2>2, Bare, RegisterIs
  <2>4. y = [q EXCEPT !.name = n] /\ n # None
    BY <2>1, <2>2, RegistersAssumption
   DEF List
<2>5. Fit(y) /\ y.op = "list" /\ y.item = None /\ y.seen = None /\ y.todo = <<>> /\ y.name = n
    BY ONLY <2>3, <2>4, n \in Names DEF Fit, Tx
  <2>6. QED
    <3>1. /\ Fit(y) /\ y.op \in Registering /\ y.item = None /\ y.seen = None
          /\ y.name # None /\ y.todo = <<>> /\ y.op = "list"
          /\ \A k, m \in DOMAIN y.todo : y.todo[k] = y.todo[m] => k = m
      BY <2>4, <2>5 DEF Registering
    <3>2. QED
      BY ONLY <3>1, RegisteringShaped
<1>14. CASE y \in R2
  <2>1. PICK i \in Known(Units), d \in Single \cup {<<>>} : y = Correct(i, d)
    BY <1>14 DEF R2
  <2>2. PICK q : q = OnSeen("correct", i)
    OBVIOUS
  <2>3. /\ Fit(q) /\ q.op = "correct" /\ q.item # None /\ q.item \in Register[q.op] /\ row[q.item] # None
        /\ (q.op \in Matching <=> q.seen # None)
    BY <1>2, <2>2, RegisterIs DEF Matching, Registering, Items, Known
  <2>4. y = [q EXCEPT !.todo = d] /\ d \in Seq(Serials) /\ (d = <<>> \/ \E s : d = <<s>>)
    BY <1>4, <2>1, <2>2
   DEF Correct
<2>5. Fit(y) /\ y.op = q.op /\ y.item = q.item /\ y.seen = q.seen /\ y.todo = d
    BY ONLY <2>3, <2>4 DEF Fit, Tx
  <2>6. QED
    BY <2>3, <2>4, <2>5, CorrectingShaped, RegisterIs DEF Registering
<1>15. CASE y \in R3
  <2>1. PICK i \in Known(Units) : y = OnRow("remove", i)
    BY <1>15 DEF R3
  <2>2. /\ Fit(y) /\ y.op = "remove" /\ y.item # None /\ y.item \in Register[y.op] /\ row[y.item] # None
        /\ (y.op \in Matching <=> y.seen # None) /\ y.todo = <<>>
    BY <1>3, <2>1, RegisterIs DEF Matching, Registering, Items, Known
  <2>3. QED
    BY <2>2, CorrectingShaped, RegisterIs DEF Registering
<1>16. CASE y \in R4
  <2>1. PICK i \in Known(Sites) : y = OnSeen("relocate", i)
    BY <1>16 DEF R4
  <2>2. /\ Fit(y) /\ y.op = "relocate" /\ y.item # None /\ y.item \in Register[y.op] /\ row[y.item] # None
        /\ (y.op \in Matching <=> y.seen # None) /\ y.todo = <<>>
    BY <1>2, <2>1, RegisterIs DEF Matching, Registering, Items, Known
  <2>3. QED
    BY <2>2, CorrectingShaped, RegisterIs DEF Registering
<1>17. CASE y \in R6
  <2>1. PICK i \in Known(Contracts), d \in Terms \cup {None} : y = Amend(i, d)
    BY <1>17 DEF R6
  <2>2. PICK q : q = OnSeen("amend", i)
    OBVIOUS
  <2>3. /\ Fit(q) /\ q.op = "amend" /\ q.item # None /\ q.item \in Register[q.op] /\ row[q.item] # None
        /\ (q.op \in Matching <=> q.seen # None) /\ q.todo = <<>>
    BY <1>2, <2>2, RegisterIs DEF Matching, Registering, Items, Known
  <2>4. y = [q EXCEPT !.term = d]
    BY <2>1, <2>2
   DEF Amend
<2>5. Fit(y) /\ y.op = q.op /\ y.item = q.item /\ y.seen = q.seen /\ y.todo = <<>>
    BY ONLY <2>3, <2>4, d \in Terms \cup {None} DEF Fit, Tx
  <2>6. QED
    BY <2>3, <2>5, CorrectingShaped, RegisterIs DEF Registering
<1>18. CASE y \in R7
  <2>1. PICK i \in Known(Contracts) : y = OnRow("cancel", i)
    BY <1>18 DEF R7
  <2>2. /\ Fit(y) /\ y.op = "cancel" /\ y.item # None /\ y.item \in Register[y.op] /\ row[y.item] # None
        /\ (y.op \in Matching <=> y.seen # None) /\ y.todo = <<>>
    BY <1>3, <2>1, RegisterIs DEF Matching, Registering, Items, Known
  <2>3. QED
    BY <2>2, CorrectingShaped, RegisterIs DEF Registering
<1>19. CASE y \in R9
  <2>1. PICK i \in Known(Companies), e \in Owners, n \in Names \cup {None} :
          y = Edit(i, e, n)
    BY <1>19 DEF R9
  <2>2. PICK q : q = OnSeen("edit", i)
    OBVIOUS
  <2>3. /\ Fit(q) /\ q.op = "edit" /\ q.item # None /\ q.item \in Register[q.op] /\ row[q.item] # None
        /\ (q.op \in Matching <=> q.seen # None) /\ q.todo = <<>>
    BY <1>2, <2>2, RegisterIs DEF Matching, Registering, Items, Known
  <2>4. y = [q EXCEPT !.by = e, !.name = n]
    BY <2>1, <2>2
   DEF Edit
<2>5. Fit(y) /\ y.op = q.op /\ y.item = q.item /\ y.seen = q.seen /\ y.todo = <<>>
    BY ONLY <2>3, <2>4, e \in Owners, n \in Names \cup {None} DEF Fit, Tx
  <2>6. QED
    BY <2>3, <2>5, CorrectingShaped, RegisterIs DEF Registering
<1>20. CASE y \in R10
  <2>1. PICK i \in Known(Companies), e \in Owners : y = Move(i, e)
    BY <1>20 DEF R10
  <2>2. PICK q : q = OnRow("move", i)
    OBVIOUS
  <2>3. /\ Fit(q) /\ q.op = "move" /\ q.item # None /\ q.item \in Register[q.op] /\ row[q.item] # None
        /\ (q.op \in Matching <=> q.seen # None) /\ q.todo = <<>>
    BY <1>3, <2>2, RegisterIs DEF Matching, Registering, Items, Known
  <2>4. y = [q EXCEPT !.owner = e]
    BY <2>1, <2>2
   DEF Move
<2>5. Fit(y) /\ y.op = q.op /\ y.item = q.item /\ y.seen = q.seen /\ y.todo = <<>>
    BY ONLY <2>3, <2>4, e \in Owners DEF Fit, Tx
  <2>6. QED
    BY <2>3, <2>5, CorrectingShaped, RegisterIs DEF Registering
<1>21. CASE y \in R11
  <2>1. PICK i \in Known(Staff), b \in BOOLEAN \cup {None} : y = Update(i, b)
    BY <1>21 DEF R11
  <2>2. PICK q : q = OnSeen("update", i)
    OBVIOUS
  <2>3. /\ Fit(q) /\ q.op = "update" /\ q.item # None /\ q.item \in Register[q.op] /\ row[q.item] # None
        /\ (q.op \in Matching <=> q.seen # None) /\ q.todo = <<>>
    BY <1>2, <2>2, RegisterIs DEF Matching, Registering, Items, Known
  <2>4. y = [q EXCEPT !.active = b]
    BY <2>1, <2>2
   DEF Update
<2>5. Fit(y) /\ y.op = q.op /\ y.item = q.item /\ y.seen = q.seen /\ y.todo = <<>>
    BY ONLY <2>3, <2>4, b \in BOOLEAN \cup {None} DEF Fit, Tx
  <2>6. QED
    BY <2>3, <2>5, CorrectingShaped, RegisterIs DEF Registering
<1>22. CASE y \in R13
  <2>1. PICK i \in Known(Wares), b \in Retired : y = Revise(i, b)
    BY <1>22 DEF R13
  <2>2. PICK q : q = OnSeen("revise", i)
    OBVIOUS
  <2>3. /\ Fit(q) /\ q.op = "revise" /\ q.item # None /\ q.item \in Register[q.op] /\ row[q.item] # None
        /\ (q.op \in Matching <=> q.seen # None) /\ q.todo = <<>>
    BY <1>2, <2>2, RegisterIs DEF Matching, Registering, Items, Known
  <2>4. y = [q EXCEPT !.active = b]
    BY <2>1, <2>2
   DEF Revise
<2>5. Fit(y) /\ y.op = q.op /\ y.item = q.item /\ y.seen = q.seen /\ y.todo = <<>>
    BY ONLY <2>3, <2>4, b \in Retired DEF Fit, Tx, Retired
  <2>6. QED
    BY <2>3, <2>5, CorrectingShaped, RegisterIs DEF Registering
<1>23. QED
  BY <1>5, <1>10, <1>11, <1>12, <1>13, <1>14, <1>15, <1>16, <1>17, <1>18, <1>19, <1>20, <1>21, <1>22

LEMMA AskKept == ASSUME Kept, NEW t \in Txs, Ask(t) PROVE Kept'
<1>1. PICK y \in Requests : tx' = [tx EXCEPT ![t] = y]
  BY DEF Ask, Goes
<1>2. tx[t] = None /\ row' = row /\ lock' = lock
  BY DEF Ask, Goes
<1>3. Fit(y) /\ Shaped(y)
  BY RequestsShaped
<1>4. QED
  BY <1>1, <1>2, <1>3, RequestKept

-----------------------------------------------------------------------------
(* The statements that lock, read and write. *)

LEMMA OnIs ==
  ASSUME NEW x \in Tx, NEW p \in Phases
  PROVE  On(x, p) = Turned(x, p, x.holder) /\ x.holder \in Units \cup {None}
  BY DEF On, Tx, Turned

\* The row that stands and one that takes no more clash with the same rows: with none.
LEMMA NoClashWithin ==
  ASSUME Kept, NEW i \in Items, row[i] # None, NEW r, r # None, Within(i, r, row[i])
  PROVE  \A I \in Unique : i \in I => \A j \in I \ {i} : \A q \in Writ(j) : ~Clash(I, q, r)
<1>1. ASSUME NEW I \in Unique, i \in I, NEW j \in I \ {i}, NEW q \in Writ(j), Clash(I, q, r)
      PROVE  FALSE
  <2>1. row[i] \in Writ(i)
    BY KindIsRow DEF Writ, Kept, Rows
  <2>2. Clash(I, q, row[i])
    BY <1>1, WithinClash
  <2>3. QED
    BY <1>1, <2>1, <2>2 DEF Kept, NoClash, Unique
<1>2. QED
  BY <1>1

\* What a transaction knows of the row it corrects.
LEMMA ItemIs ==
  ASSUME Kept, NEW t \in Txs, tx[t] # None, NEW x, x = tx[t], x.item # None
  PROVE  /\ x.item \in Items /\ x.item \in Register[x.op] /\ x.op \in DOMAIN Register \ Registering
         /\ row[x.item] # None /\ OfKind(x.item, row[x.item]) /\ row[x.item].version \in Nat
<1>1. x \in Tx /\ Shaped(x) /\ Rows
  BY DEF Kept, TypeOK
<1>2. x.item \in Items /\ x.item \in Register[x.op] /\ row[x.item] # None /\ x.op \in DOMAIN Register \ Registering
  BY <1>1, TxFields DEF Shaped
<1>3. OfKind(x.item, row[x.item])
  BY <1>1, <1>2 DEF Rows
<1>4. row[x.item].version \in Versions
  BY <1>2, <1>3 DEF OfKind, Items, Site, Unit, Contract, Company, Employee, Ware
<1>5. QED
  BY <1>2, <1>3, <1>4 DEF Versions

LEMMA LimitIs == ASSUME NEW i PROVE \A n \in Nat : n < Limit(i) => n < MaxVersion
  BY RegistersAssumption DEF Limit

LEMMA LockItemKept == ASSUME Kept, NEW t \in Txs, LockItem(t) PROVE Kept'
<1> DEFINE x == tx[t]
           i == x.item
           may == /\ Stands(i) /\ row[i].version < Limit(i)
                  /\ x.seen # None => x.seen = row[i].version
                  /\ Permitted(x)
<1>1. /\ x # None /\ x.phase = "asked" /\ i # None /\ x.op # "update" /\ lock[i] = None
      /\ (may /\ Takes(t, i, Holding(x))) \/ (~may /\ Refuse(t))
  BY DEF LockItem, At
<1>2. CASE Refuse(t)
  BY <1>2, RefuseKept
<1>3. CASE may /\ Takes(t, i, Holding(x))
  <2> DEFINE r == Changed(x)
  <2>1. /\ i \in Items /\ i \in Register[x.op] /\ x.op \in DOMAIN Register \ Registering
        /\ row[i] # None /\ OfKind(i, row[i]) /\ row[i].version \in Nat
    BY <1>1, ItemIs
  <2>2. x \in Tx /\ Shaped(x) /\ row[i].version < MaxVersion /\ TypeOK
    BY <1>1, <1>3, <2>1, LimitIs DEF Kept, TypeOK
  <2>3. row' = row /\ lock' = [lock EXCEPT ![i] = t] /\ tx' = [tx EXCEPT ![t] = Holding(x)] /\ lock'[i] = t
    BY <1>3, <2>1, <2>2 DEF Takes, TypeOK
  <2>4. x.op \in {"correct", "remove", "relocate", "amend", "cancel", "edit", "move", "revise"}
    BY <1>1, <2>1, RegisterIs DEF Registering
  <2>5. /\ lock'[i] = t /\ Stands(i) /\ row[i].version < Limit(i)
        /\ x.seen # None => x.seen = row[i].version
        /\ x.op = "edit" /\ x.by # None => row[i].owner \in {x.by, None}
    BY <1>3, <2>3 DEF Permitted
  <2>6. \E j \in Items : lock[j] = None /\ row[j] # None /\ lock' = [lock EXCEPT ![j] = t]
    BY <1>1, <2>1, <2>3
  <2> DEFINE goes(p) == /\ Holding(x) = On(x, p) /\ p \in {"look", "check", "free"}
                        /\ p \in Writing(x.op)
                        /\ x.op = "correct" => x.todo # <<>>
                        /\ x.op = "amend" => x.term # None
                        /\ x.op = "edit" => x.name # None
                        /\ x.op \in {"sign", "amend"} => p = "check"
  <2>7. ASSUME NEW p, goes(p) PROVE Kept'
    <3>1. p \in Phases /\ p \in Writing(x.op) \ {"asked"} /\ p # "waiting"
      BY <2>7 DEF Phases
    <3>2. tx' = [tx EXCEPT ![t] = Turned(x, p, x.holder)] /\ x.holder \in Units \cup {None}
      BY <2>2, <2>3, <2>7, <3>1, OnIs
    <3>3. GoesOn(t, p, x.holder)
      BY <1>1, <2>3, <2>5, <2>6, <2>7, <3>1, <3>2 DEF GoesOn
    <3>4. QED
      BY <3>3, GoOn
  <2>8. ASSUME NEW y, Wrote(x, y, i, r), Holding(x) = y,
               y.handover = IF x.op = "move" THEN [from |-> row[i].owner, to |-> r.owner] ELSE None,
               Within(i, r, row[i])
        PROVE  Kept'
    <3>1. PICK p : p = r
      OBVIOUS
    <3>2. OfKind(i, p)
      BY <2>1, <2>2, <3>1, ChangedIs
    <3>3. /\ Kept /\ t \in Txs /\ tx[t] # None /\ row' = row /\ x = tx[t] /\ x.phase # "written"
          /\ i \in Items /\ i \in Register[x.op] /\ Wrote(x, y, i, p) /\ tx' = [tx EXCEPT ![t] = y]
      BY <1>1, <2>1, <2>3, <2>8, <3>1
    <3>4. /\ y.handover # None => x.op = "move"
          /\ row[i] = None => \A v \in Txs : tx[v] # None => tx[v].puts[i] = None
          /\ x.op = "install" => p.serial = Head(x.todo)
      BY <2>1, <2>4, <2>8
    <3>5. row[i] # None => lock'[i] = t /\ Keeps(y, i, p)
      <4>1. /\ i \in Units => x.op \in {"correct", "remove"}
            /\ i \in Contracts => x.op \in {"amend", "cancel"}
            /\ i \in Companies => x.op \in {"edit", "move"}
        BY <2>1, <2>4, RegisterIs, OneRegister
      <4>2. /\ i \in Units \cup Wares => row[i].active
            /\ i \in Contracts => row[i].live
        BY <2>5, OneRegister DEF Stands
      <4>3. /\ i \in Units \cup Contracts => p.site = row[i].site
            /\ x.op = "edit" => p.owner = row[i].owner
        BY <2>1, <2>2, <3>1, <4>1, ChangedIs
      <4>4. QED
        BY <2>5, <2>8, <3>1, <4>1, <4>2, <4>3 DEF Keeps
    <3>6. i \in Contracts =>
            \/ lock'[p.site] = t
            \/ row[i] # None /\ p.term = row[i].term /\ (p.live => row[i].live)
      <4>1. i \in Contracts => row[i].live
        BY <2>5, OneRegister DEF Stands
      <4>2. QED
        BY <2>1, <2>8, <3>1, <4>1 DEF Within
    <3>7. x.item # None /\ x.op # "update" =>
            /\ lock'[x.item] = t /\ Stands(x.item)
            /\ row[x.item].version < Limit(x.item)
            /\ x.seen # None => x.seen = row[x.item].version
            /\ x.op = "edit" /\ x.by # None => row[x.item].owner \in {x.by, None}
      BY <2>5
    <3>8. \A I \in Unique : i \in I => \A j \in I \ {i} : \A q \in Writ(j) : ~Clash(I, q, p)
      BY <2>1, <2>8, <3>1, <3>2, KindIsRow, NoClashWithin
    <3> HIDE DEF x, i, may, goes, r
    <3>9. QED
      BY ONLY <2>6, <3>2, <3>3, <3>4, <3>5, <3>6, <3>7, <3>8, PutKept
  <2>9. /\ OfKind(i, r)
        /\ x.op = "correct" => /\ r.active = row[i].active
                               /\ r.serial = IF x.todo = <<>> THEN row[i].serial ELSE Head(x.todo)
        /\ x.op = "remove" => r.active = FALSE /\ r.serial = row[i].serial
        /\ x.op \in {"amend", "cancel"} => r.site = row[i].site
        /\ x.op = "amend" => r.live = row[i].live /\ r.term = IF x.term = None THEN row[i].term ELSE x.term
        /\ x.op = "cancel" => r.live = FALSE /\ r.term = row[i].term
        /\ x.op = "edit" => r.owner = row[i].owner /\ r.name = IF x.name = None THEN row[i].name ELSE x.name
        /\ x.op = "move" => r.name = row[i].name /\ r.owner = x.owner
        /\ x.op = "revise" => r.name = row[i].name
    BY <2>1, <2>2, ChangedIs
  <2>10. r \in Row /\ x.handover = None
    BY <1>1, <2>1, <2>2, <2>9, KindIsRow DEF Shaped
  <2>11. CASE x.op = "correct" /\ x.todo \notin {<<>>, <<row[i].serial>>}
    <3>1. Holding(x) = On(x, "look")
      BY <2>11 DEF Holding
    <3>2. goes("look")
      BY <2>11, <3>1 DEF Writing
    <3>3. QED
      BY <2>7, <3>2
  <2>12. CASE x.op = "amend" /\ x.term # None
    <3>1. Holding(x) = On(x, "check")
      BY <2>12 DEF Holding
    <3>2. goes("check")
      BY <2>12, <3>1 DEF Writing
    <3>3. QED
      BY <2>7, <3>2
  <2>13. CASE x.op = "edit" /\ x.name \notin {None, row[i].name}
    <3>1. Holding(x) = On(x, "free")
      BY <2>13 DEF Holding
    <3>2. goes("free")
      BY <2>13, <3>1 DEF Writing
    <3>3. QED
      BY <2>7, <3>2
  <2>14. CASE x.op = "move"
    <3> DEFINE h == [from |-> row[i].owner, to |-> x.owner]
               y == [Put(x, i, r) EXCEPT !.handover = h]
    <3>1. i \in Companies /\ x.owner \in Owners /\ row[i] \in Company
      BY <2>1, <2>2, <2>14, RegisterIs, TxFields DEF OfKind
    <3>2. h \in Handover
      BY <3>1 DEF Handover, Company
    <3>3. Wrote(x, y, i, r) /\ y.handover = h
      <4>1. Wrote(x, y, i, r)
        BY <2>1, <2>2, <2>10, <3>2, PutIs
      <4>2. Put(x, i, r) \in Tx
        BY <2>1, <2>2, <2>10, <3>2, PutIs DEF Wrote
      <4>3. QED
        BY <4>1, <4>2 DEF Tx
    <3>4. Holding(x) = y
      BY <2>14 DEF Holding
    <3>5. Within(i, r, row[i])
      BY <2>9, <2>14, <3>1, OneRegister DEF Within
    <3> HIDE DEF y
    <3>6. QED
      BY <2>8, <2>9, <2>14, <3>3, <3>4, <3>5
  <2>15. CASE /\ ~(x.op = "correct" /\ x.todo \notin {<<>>, <<row[i].serial>>})
              /\ ~(x.op = "amend" /\ x.term # None)
              /\ ~(x.op = "edit" /\ x.name \notin {None, row[i].name})
              /\ x.op # "move"
    <3> DEFINE y == Put(x, i, r)
    <3>1. [from |-> None, to |-> None] \in Handover
      BY DEF Handover, Owners
    <3>2. Wrote(x, y, i, r) /\ y.handover = None
      BY <2>1, <2>2, <2>10, <3>1, PutIs
    <3>3. Holding(x) = y
      BY <2>15 DEF Holding
    <3>4. Within(i, r, row[i])
      <4>1. /\ i \in Units => x.op \in {"correct", "remove"}
            /\ i \in Contracts => x.op \in {"amend", "cancel"}
            /\ i \in Companies => x.op \in {"edit", "move"}
            /\ i \in Wares => x.op = "revise"
        BY <2>1, <2>4, RegisterIs, OneRegister
      <4>2. x.op = "correct" => r.serial = row[i].serial
        BY <2>9, <2>15
      <4>3. QED
        BY <2>9, <2>15, <4>1, <4>2 DEF Within
    <3> HIDE DEF y
    <3>5. QED
      BY <2>8, <2>15, <3>2, <3>3, <3>4
  <2>16. QED
    BY <2>11, <2>12, <2>13, <2>14, <2>15
<1>4. QED
  BY <1>1, <1>2, <1>3

\* The unit that carries the serial is refreshed.
LEMMA FoundKept ==
  ASSUME Kept, NEW t \in Txs, tx[t] # None, tx[t].op \in {"install", "correct"}, tx[t].phase # "written",
         NEW u \in Units, lock[u] = None, Carries(row[u], Head(tx[t].todo)), Found(t, u)
  PROVE  Kept'
<1> DEFINE x == tx[t]
           r == Bump(row[u])
           y == Put(x, u, r)
<1>1. CASE Refuse(t)
  BY <1>1, RefuseKept
<1>2. CASE x.op = "install" /\ row[u].version < MaxVersion /\ Takes(t, u, y)
  <2>1. x \in Tx /\ Shaped(x) /\ u \in Items /\ TypeOK /\ Rows
    BY DEF Kept, TypeOK, Items
  <2>2. row[u] \in Unit /\ row[u].active /\ row[u].serial = Head(x.todo) /\ row[u] # None
    BY <2>1 DEF Carries, Rows, OfKind
  <2>3. r = [row[u] EXCEPT !.version = row[u].version + 1] /\ row[u].version + 1 \in Versions
    BY <1>2, <2>2, RegistersAssumption DEF Bump, Unit, Versions
  <2>4. r \in Unit /\ r.site = row[u].site /\ r.serial = row[u].serial /\ r.active = row[u].active
    BY <2>2, <2>3 DEF Unit
  <2>5. OfKind(u, r) /\ Within(u, r, row[u]) /\ r \in Row /\ r # None
    BY <2>1, <2>4, OneRegister, KindIsRow DEF OfKind, Within
  <2>6. [from |-> None, to |-> None] \in Handover
    BY DEF Handover, Owners
  <2>7. Wrote(x, y, u, r) /\ y.handover = x.handover
    BY <2>1, <2>5, <2>6, PutIs
  <2>8. row' = row /\ lock' = [lock EXCEPT ![u] = t] /\ tx' = [tx EXCEPT ![t] = y] /\ lock'[u] = t
    BY <1>2, <2>1 DEF Takes, TypeOK
  <2>9. PICK z, p : z = y /\ p = r
    OBVIOUS
  <2>10. x.item = None /\ x.handover = None
    BY <1>2, <2>1 DEF Shaped, Registering
  <2>11. /\ Kept /\ t \in Txs /\ tx[t] # None /\ row' = row /\ x = tx[t] /\ x.phase # "written"
         /\ u \in Items /\ u \in Register[x.op] /\ OfKind(u, p) /\ Wrote(x, z, u, p)
         /\ tx' = [tx EXCEPT ![t] = z]
    BY <1>2, <2>1, <2>5, <2>7, <2>8, <2>9, RegisterIs
  <2>12. /\ z.handover # None => x.op = "move"
         /\ \E j \in Items : lock[j] = None /\ row[j] # None /\ lock' = [lock EXCEPT ![j] = t]
         /\ row[u] = None => \A v \in Txs : tx[v] # None => tx[v].puts[u] = None
         /\ x.op = "install" => p.serial = Head(x.todo)
    BY <2>1, <2>2, <2>4, <2>7, <2>8, <2>9, <2>10
  <2>13. row[u] # None => lock'[u] = t /\ Keeps(z, u, p)
    BY <2>2, <2>4, <2>8, <2>9, OneRegister DEF Keeps
  <2>14. x.item # None /\ x.op # "update" =>
           /\ lock'[x.item] = t /\ Stands(x.item)
           /\ row[x.item].version < Limit(x.item)
           /\ x.seen # None => x.seen = row[x.item].version
           /\ x.op = "edit" /\ x.by # None => row[x.item].owner \in {x.by, None}
    BY <2>10
  <2>15. u \in Contracts =>
           \/ lock'[p.site] = t
           \/ row[u] # None /\ p.term = row[u].term /\ (p.live => row[u].live)
    BY OneRegister
  <2>16. \A I \in Unique : u \in I => \A j \in I \ {u} : \A q \in Writ(j) : ~Clash(I, q, p)
    BY <2>1, <2>2, <2>5, <2>9, NoClashWithin
  <2> HIDE DEF x, r, y
  <2>17. QED
    BY ONLY <2>11, <2>12, <2>13, <2>14, <2>15, <2>16, PutKept
<1>3. QED
  BY <1>1, <1>2 DEF Found

LEMMA LookKept == ASSUME Kept, NEW t \in Txs, Look(t) PROVE Kept'
<1> PICK x : x = tx[t]
  OBVIOUS
<1>1. x # None /\ x.phase \in {"look", "asked"} /\ (x.phase = "asked" => x.op = "install")
  BY DEF Look, At
<1>2. x \in Tx /\ Shaped(x) /\ TypeOK /\ Holds(t)
  BY <1>1 DEF Kept, TypeOK
<1>3. x.op \in {"install", "correct"} /\ x.todo # <<>> /\ (x.op = "install" => x.item = None)
  BY <1>1, <1>2, TxFields, RegisterIs DEF Shaped, Writing, Registering
<1>4. x.phase = "look" => x.op = "correct"
  BY <1>1, <1>2, <1>3 DEF Shaped, Writing
<1>5. ASSUME NEW p \in {"free", "waiting"}, NEW h \in Units \cup {None},
             p = "waiting" => h # None /\ row[h] # None,
             row' = row, lock' = lock, tx' = [tx EXCEPT ![t] = Turned(x, p, h)]
      PROVE  Kept'
  <2>1. p \in Phases /\ p \in Writing(x.op) \ {"asked"}
    BY <1>3 DEF Phases, Writing
  <2>2. /\ x.op = "correct" /\ x.item # None =>
             /\ lock'[x.item] = t /\ Stands(x.item)
             /\ row[x.item].version < Limit(x.item)
             /\ x.seen # None => x.seen = row[x.item].version
    BY <1>1, <1>2, <1>3, <1>4, <1>5 DEF Holds
  <2>3. GoesOn(t, p, h)
    BY <1>1, <1>3, <1>5, <2>1, <2>2 DEF GoesOn
  <2>4. QED
    BY <2>3, GoOn
<1>6. CASE Goes(t, On(x, "free"))
  <2>1. On(x, "free") = Turned(x, "free", x.holder) /\ x.holder \in Units \cup {None}
    BY <1>2, OnIs DEF Phases
  <2>2. QED
    BY <1>5, <1>6, <2>1 DEF Goes
<1>7. ASSUME NEW u \in Units, Carries(row[u], Head(x.todo)), lock[u] = None, Found(t, u)
      PROVE  Kept'
  BY <1>1, <1>3, <1>7, FoundKept
<1>8. ASSUME NEW u \in Units, Carries(row[u], Head(x.todo)), Goes(t, [On(x, "waiting") EXCEPT !.holder = u])
      PROVE  Kept'
  <2>1. [On(x, "waiting") EXCEPT !.holder = u] = Turned(x, "waiting", u)
    BY <1>2 DEF On, Turned, Tx
  <2>2. u # None /\ row[u] # None
    BY <1>8, RegistersAssumption DEF Carries, Items
  <2>3. QED
    BY <1>5, <1>8, <2>1, <2>2 DEF Goes
<1>9. QED
  BY <1>6, <1>7, <1>8 DEF Look

LEMMA WakeKept == ASSUME Kept, NEW t \in Txs, Wake(t) PROVE Kept'
<1> PICK x : x = tx[t]
  OBVIOUS
<1>1. x # None /\ x.phase = "waiting" /\ lock[x.holder] = None
  BY DEF Wake, At
<1>2. x \in Tx /\ Shaped(x) /\ TypeOK /\ Holds(t)
  BY <1>1 DEF Kept, TypeOK
<1>3. x.op \in {"install", "correct"} /\ x.todo # <<>> /\ (x.op = "install" => x.item = None)
  BY <1>1, <1>2, TxFields, RegisterIs DEF Shaped, Writing, Registering
<1>4. x.holder \in Units
  BY <1>1, <1>2, TxFields DEF Shaped
<1>5. CASE Carries(row[x.holder], Head(x.todo)) /\ Found(t, x.holder)
  BY <1>1, <1>3, <1>4, <1>5, FoundKept
<1>6. CASE Goes(t, [On(x, "free") EXCEPT !.holder = None])
  <2>1. [On(x, "free") EXCEPT !.holder = None] = Turned(x, "free", None)
    BY <1>2 DEF On, Turned, Tx
  <2>2. "free" \in Phases /\ "free" \in Writing(x.op) \ {"asked"}
    BY <1>3 DEF Phases, Writing
  <2>3. /\ x.op = "correct" /\ x.item # None =>
             /\ lock[x.item] = t /\ Stands(x.item)
             /\ row[x.item].version < Limit(x.item)
             /\ x.seen # None => x.seen = row[x.item].version
    BY <1>1, <1>2, <1>3 DEF Holds
  <2>4. GoesOn(t, "free", None)
    BY <1>1, <1>3, <1>6, <2>1, <2>2, <2>3 DEF GoesOn, Goes
  <2>5. QED
    BY <2>4, GoOn
<1>7. QED
  BY <1>5, <1>6 DEF Wake

LEMMA LockSiteKept == ASSUME Kept, NEW t \in Txs, LockSite(t) PROVE Kept'
<1> PICK x : x = tx[t]
  OBVIOUS
<1> DEFINE site == Proposed(x).site
<1>1. /\ x # None /\ x.phase \in {"check", "asked"} /\ (x.phase = "asked" => x.op = "sign")
      /\ lock[site] = None /\ Takes(t, site, On(x, "queued"))
  BY DEF LockSite, At
<1>2. x \in Tx /\ Shaped(x) /\ TypeOK /\ Rows /\ Holds(t)
  BY <1>1 DEF Kept, TypeOK
<1>3. x.op \in {"sign", "amend"} /\ (x.op = "sign" => x.item = None) /\ (x.op = "amend" => x.phase = "check")
  BY <1>1, <1>2, TxFields, RegisterIs DEF Shaped, Writing, Registering
<1>4. site \in Sites
  <2>1. /\ Kept /\ t \in Txs /\ tx[t] # None /\ tx[t].op \in {"sign", "amend"}
        /\ \/ tx[t].op \in Registering /\ tx[t].phase # "written"
           \/ tx[t].op \notin Registering \cup {"update"} /\ tx[t].phase # "asked"
    BY <1>1, <1>3 DEF Registering
  <2>2. Proposed(tx[t]).site \in Sites
    BY ONLY <2>1, ProposedIs
  <2>3. QED
    BY <2>2
<1>5. site \in Items /\ row[site] # None
  BY <1>2, <1>4 DEF Rows, Items
<1>6. /\ row' = row /\ lock' = [lock EXCEPT ![site] = t] /\ lock'[site] = t
      /\ tx' = [tx EXCEPT ![t] = Turned(x, "queued", x.holder)] /\ x.holder \in Units \cup {None}
  BY <1>1, <1>2, <1>5, OnIs DEF Takes, TypeOK, Phases
<1> HIDE DEF site
<1>7. \E i \in Items : lock[i] = None /\ row[i] # None /\ lock' = [lock EXCEPT ![i] = t]
  BY <1>1, <1>5, <1>6
<1>8. \A i \in Items : \A u \in Txs : lock[i] = u => lock'[i] = u
  BY <1>7, LocksGo
<1>9. x.item # None => lock'[x.item] = t
  BY <1>1, <1>2, <1>3, <1>8, TxFields DEF Holds
<1>10. "queued" \in Phases /\ "queued" \in Writing(x.op) \ {"asked"} /\ (x.op = "amend" => x.term # None)
  BY <1>1, <1>2, <1>3 DEF Phases, Writing, Shaped
<1>11. x.item # None /\ x.op # "update" =>
         /\ lock'[x.item] = t /\ Stands(x.item)
         /\ row[x.item].version < Limit(x.item)
         /\ x.seen # None => x.seen = row[x.item].version
  BY <1>1, <1>2, <1>3, <1>9 DEF Holds
<1>12. lock'[Proposed(x).site] = t
  BY <1>6 DEF site
<1>13. GoesOn(t, "queued", x.holder)
  BY <1>1, <1>3, <1>6, <1>7, <1>10, <1>11, <1>12 DEF GoesOn
<1>14. QED
  BY <1>13, GoOn

LEMMA FindKept == ASSUME Kept, NEW t \in Txs, Find(t) PROVE Kept'
<1> PICK x : x = tx[t]
  OBVIOUS
<1>1. /\ x # None /\ x.phase \in {"queued", "asked"} /\ (x.phase = "asked" => x.op = "open")
      /\ Refuse(t) \/ (~Taken(x) /\ Goes(t, On(x, "free")))
  BY DEF Find, At
<1>2. x \in Tx /\ Shaped(x) /\ TypeOK /\ Holds(t) /\ Days(t)
  BY <1>1 DEF Kept, TypeOK
<1>3. x.op \in {"sign", "amend", "open"} /\ (x.op # "amend" => x.item = None) /\ (x.op # "open" => x.phase = "queued")
  BY <1>1, <1>2, TxFields, RegisterIs DEF Shaped, Writing, Registering
<1>4. CASE Refuse(t)
  BY <1>4, RefuseKept
<1>5. CASE ~Taken(x) /\ Goes(t, On(x, "free"))
  <2>1. /\ row' = row /\ lock' = lock
        /\ tx' = [tx EXCEPT ![t] = Turned(x, "free", x.holder)] /\ x.holder \in Units \cup {None}
    BY <1>2, <1>5, OnIs DEF Goes, Phases
  <2>2. "free" \in Phases /\ "free" \in Writing(x.op) \ {"asked"} /\ (x.op = "amend" => x.term # None)
    BY <1>1, <1>2, <1>3 DEF Phases, Writing, Shaped
  <2>3. x.item # None /\ x.op # "update" =>
           /\ lock'[x.item] = t /\ Stands(x.item)
           /\ row[x.item].version < Limit(x.item)
           /\ x.seen # None => x.seen = row[x.item].version
    BY <1>1, <1>2, <1>3, <2>1 DEF Holds
  <2>4. x.op \in {"sign", "amend"} => lock'[Proposed(x).site] = t
    BY <1>1, <1>2, <1>3, <2>1 DEF Days
  <2>5. GoesOn(t, "free", x.holder)
    BY <1>1, <1>3, <1>5, <2>1, <2>2, <2>3, <2>4 DEF GoesOn
  <2>6. QED
    BY <2>5, GoOn
<1>6. QED
  BY <1>1, <1>4, <1>5

\* The steps of the edit of an employee that only read.
LEMMA GatedKept ==
  ASSUME Kept, NEW t \in Txs, tx[t] # None, tx[t].op = "update", tx[t].phase # "written",
         NEW p \in {"gated", "allowed"}, Goes(t, On(tx[t], p))
  PROVE  Kept'
<1> PICK x : x = tx[t]
  OBVIOUS
<1>1. x \in Tx
  BY DEF Kept, TypeOK
<1>2. /\ row' = row /\ lock' = lock
      /\ tx' = [tx EXCEPT ![t] = Turned(x, p, x.holder)] /\ x.holder \in Units \cup {None}
  BY <1>1, OnIs DEF Goes, Phases
<1>3. p \in Phases /\ p \in Writing(x.op) \ {"asked"}
  BY DEF Phases, Writing
<1>4. GoesOn(t, p, x.holder)
  BY <1>2, <1>3 DEF GoesOn
<1>5. QED
  BY <1>4, GoOn

LEMMA ReadEmployeeKept == ASSUME Kept, NEW t \in Txs, ReadEmployee(t) PROVE Kept'
<1>1. CASE Refuse(t)
  BY <1>1, RefuseKept
<1>2. ASSUME NEW p \in {"gated", "allowed"}, Goes(t, On(tx[t], p)) PROVE Kept'
  BY <1>2, GatedKept DEF ReadEmployee, At
<1>3. QED
  BY <1>1, <1>2 DEF ReadEmployee

LEMMA FindOpenWorkKept == ASSUME Kept, NEW t \in Txs, FindOpenWork(t) PROVE Kept'
<1>1. tx[t] # None /\ tx[t].phase = "gated"
  BY DEF FindOpenWork, At
<1>2. tx[t].op = "update"
  BY <1>1, TxFields, RegisterIs DEF Kept, TypeOK, Shaped, Writing
<1>3. CASE Refuse(t)
  BY <1>3, RefuseKept
<1>4. CASE Goes(t, On(tx[t], "allowed"))
  BY <1>1, <1>2, <1>4, GatedKept
<1>5. QED
  BY <1>3, <1>4 DEF FindOpenWork

LEMMA UpdateEmployeeKept == ASSUME Kept, NEW t \in Txs, UpdateEmployee(t) PROVE Kept'
<1> DEFINE x == tx[t]
           i == x.item
           r == Changed(x)
           y == Put(x, i, r)
<1>1. /\ x # None /\ x.phase = "allowed" /\ lock[i] = None
      /\ Refuse(t) \/ (row[i].version < Limit(i) /\ Takes(t, i, y))
  BY DEF UpdateEmployee, At
<1>2. CASE Refuse(t)
  BY <1>2, RefuseKept
<1>3. CASE row[i].version < Limit(i) /\ Takes(t, i, y)
  <2>1. x \in Tx /\ Shaped(x) /\ TypeOK
    BY <1>1 DEF Kept, TypeOK
  <2>2. x.op = "update" /\ i # None /\ x.handover = None
    BY <1>1, <2>1, TxFields, RegisterIs DEF Shaped, Writing, Registering
  <2>3. /\ i \in Items /\ i \in Register[x.op] /\ x.op \in DOMAIN Register \ Registering
        /\ row[i] # None /\ OfKind(i, row[i]) /\ row[i].version \in Nat
    BY <1>1, <2>2, ItemIs
  <2>4. row[i].version < MaxVersion
    BY <1>3, <2>3, LimitIs
  <2>5. OfKind(i, r) /\ r \in Row
    BY <2>1, <2>3, <2>4, ChangedIs, KindIsRow
  <2>6. i \in Staff
    BY <2>2, <2>3, RegisterIs
  <2>7. [from |-> None, to |-> None] \in Handover
    BY DEF Handover, Owners
  <2>8. Wrote(x, y, i, r) /\ y.handover = None
    BY <2>1, <2>2, <2>3, <2>5, <2>7, PutIs
  <2>9. row' = row /\ lock' = [lock EXCEPT ![i] = t] /\ tx' = [tx EXCEPT ![t] = y] /\ lock'[i] = t
    BY <1>3, <2>1, <2>3 DEF Takes, TypeOK
  <2>10. PICK z, p : z = y /\ p = r
    OBVIOUS
  <2>11. /\ Kept /\ t \in Txs /\ tx[t] # None /\ row' = row /\ x = tx[t] /\ x.phase # "written"
         /\ i \in Items /\ i \in Register[x.op] /\ OfKind(i, p) /\ Wrote(x, z, i, p)
         /\ tx' = [tx EXCEPT ![t] = z]
    BY <1>1, <2>3, <2>5, <2>8, <2>9, <2>10
  <2>12. /\ z.handover # None => x.op = "move"
         /\ \E j \in Items : lock[j] = None /\ row[j] # None /\ lock' = [lock EXCEPT ![j] = t]
         /\ row[i] = None => \A v \in Txs : tx[v] # None => tx[v].puts[i] = None
         /\ x.op = "install" => p.serial = Head(x.todo)
    BY <1>1, <2>2, <2>3, <2>8, <2>9, <2>10
  <2>13. row[i] # None => lock'[i] = t /\ Keeps(z, i, p)
    BY <2>6, <2>9, OneRegister DEF Keeps
  <2>14. x.item # None /\ x.op # "update" =>
           /\ lock'[x.item] = t /\ Stands(x.item)
           /\ row[x.item].version < Limit(x.item)
           /\ x.seen # None => x.seen = row[x.item].version
           /\ x.op = "edit" /\ x.by # None => row[x.item].owner \in {x.by, None}
    BY <2>2
  <2>15. i \in Contracts =>
           \/ lock'[p.site] = t
           \/ row[i] # None /\ p.term = row[i].term /\ (p.live => row[i].live)
    BY <2>6, OneRegister
  <2>16. \A I \in Unique : i \in I => \A j \in I \ {i} : \A q \in Writ(j) : ~Clash(I, q, p)
    BY <2>6, OneRegister DEF Unique
  <2> HIDE DEF x, i, r, y
  <2>17. QED
    BY ONLY <2>11, <2>12, <2>13, <2>14, <2>15, <2>16, PutKept
<1>4. QED
  BY <1>1, <1>2, <1>3

LEMMA WriteKept == ASSUME Kept, NEW t \in Txs, Write(t) PROVE Kept'
<1> PICK x : x = tx[t]
  OBVIOUS
<1> PICK r : r = Proposed(x)
  OBVIOUS
<1> DEFINE ids == IF x.item = None THEN Unused(Register[x.op]) ELSE {x.item}
<1>1. /\ x # None /\ x.phase = "free" /\ ~InDoubt(t)
      /\ Refuse(t) \/ (~Taken(x) /\ \E i \in ids : Goes(t, Put(x, i, r)))
  BY DEF Write, At
<1>2. CASE Refuse(t)
  BY <1>2, RefuseKept
<1>3. ASSUME NEW i \in ids, ~Taken(x), Goes(t, Put(x, i, r)) PROVE Kept'
  <2>1. x \in Tx /\ Shaped(x) /\ Holds(t) /\ Puts(t) /\ Days(t) /\ TypeOK
    BY <1>1 DEF Kept, TypeOK
  <2>2. x.op \in {"install", "correct", "sign", "amend", "open", "edit", "list"} /\ x.handover = None
    BY <1>1, <2>1, TxFields, RegisterIs DEF Shaped, Writing
  <2>3. /\ Kept /\ t \in Txs /\ tx[t] # None
        /\ \/ tx[t].op \in Registering /\ tx[t].phase # "written"
           \/ tx[t].op \notin Registering \cup {"update"} /\ tx[t].phase # "asked"
    BY <1>1, <2>2 DEF Registering
  <2>4. /\ x.op \in Registering => r = Fresh(x) /\ \A j \in Register[x.op] : OfKind(j, r)
        /\ x.op \notin Registering =>
             /\ r = Changed(x) /\ OfKind(x.item, r) /\ x.item \in Register[x.op]
             /\ OfKind(x.item, row[x.item])
             /\ row[x.item].version \in Nat /\ row[x.item].version < MaxVersion
    <3>1. LET z == tx[t]
          IN  /\ z.op \in Registering =>
                   Proposed(z) = Fresh(z) /\ \A j \in Register[z.op] : OfKind(j, Proposed(z))
              /\ z.op \notin Registering =>
                   /\ Proposed(z) = Changed(z) /\ OfKind(z.item, Proposed(z)) /\ z.item \in Register[z.op]
                   /\ OfKind(z.item, row[z.item])
                   /\ row[z.item].version \in Nat /\ row[z.item].version < MaxVersion
      BY ONLY <2>3, ProposedIs
    <3>2. QED
      BY <3>1
  <2>5. /\ x.op \in Registering <=> x.item = None
        /\ x.item # None => i = x.item /\ row[i] # None /\ lock[i] = t /\ Stands(i)
        /\ x.item = None => i \in Unused(Register[x.op])
    BY <1>1, <1>3, <2>1, <2>2 DEF Shaped, Holds
  <2>6. i \in Register[x.op] /\ i \in Items /\ OfKind(i, r)
    <3>1. i \in Register[x.op] /\ OfKind(i, r)
      BY <2>4, <2>5 DEF Unused
    <3>2. QED
      BY <2>2, <3>1, RegisterIs DEF Items
  <2>7. r \in Row /\ r # None /\ [from |-> None, to |-> None] \in Handover
    BY <2>6, KindIsRow DEF Handover, Owners
  <2>8. PICK y : y = Put(x, i, r)
    OBVIOUS
  <2>9. Wrote(x, y, i, r) /\ y.handover = None
    BY <2>1, <2>2, <2>6, <2>7, <2>8, PutIs
  <2>10. /\ Kept /\ t \in Txs /\ tx[t] # None /\ row' = row /\ x = tx[t] /\ x.phase # "written"
         /\ i \in Items /\ i \in Register[x.op] /\ OfKind(i, r) /\ Wrote(x, y, i, r)
         /\ tx' = [tx EXCEPT ![t] = y] /\ lock' = lock
    BY <1>1, <1>3, <2>6, <2>8, <2>9 DEF Goes
  <2>11. /\ y.handover # None => x.op = "move"
         /\ row[i] = None => \A v \in Txs : tx[v] # None => tx[v].puts[i] = None
    BY <2>5, <2>9 DEF Unused
  <2>12. x.op = "install" => r.serial = Head(x.todo) /\ x.todo # <<>> /\ x.todo[1] = Head(x.todo) /\ 1 \in DOMAIN x.todo
    <3>1. x.op = "install" => Fresh(x).serial = Head(x.todo) /\ x.todo # <<>>
      BY <1>1, <2>1, FreshIs DEF Registering
    <3>2. x.todo \in Seq(Serials)
      BY <2>1, TxFields
    <3>3. x.todo # <<>> => x.todo[1] = Head(x.todo) /\ 1 \in DOMAIN x.todo
      BY <3>2
    <3>4. QED
      BY <2>4, <3>1, <3>3 DEF Registering
  <2>13. row[i] # None => lock'[i] = t /\ Keeps(y, i, r)
    <3>1. row[i] # None => x.item # None /\ x.op \in {"correct", "amend", "edit"}
      BY <2>2, <2>5 DEF Unused, Registering
    <3>2. x.item # None => r = Changed(x) /\ i = x.item /\ x.op \notin Registering
      BY <2>4, <2>5
    <3>3. x.item # None =>
            /\ x.op = "correct" => r.site = row[i].site
            /\ x.op = "amend" => r.site = row[i].site
            /\ x.op = "edit" => r.owner = row[i].owner
      BY <2>1, <2>4, <3>2, ChangedIs
    <3>4. /\ x.op = "correct" => i \in Units
          /\ x.op = "amend" => i \in Contracts
          /\ x.op = "edit" => i \in Companies
      BY <2>6, RegisterIs
    <3>5. QED
      BY <2>5, <2>9, <2>10, <3>1, <3>3, <3>4, OneRegister DEF Keeps, Stands
  <2>14. x.item # None /\ x.op # "update" =>
           /\ lock'[x.item] = t /\ Stands(x.item)
           /\ row[x.item].version < Limit(x.item)
           /\ x.seen # None => x.seen = row[x.item].version
           /\ x.op = "edit" /\ x.by # None => row[x.item].owner \in {x.by, None}
    BY <1>1, <2>1, <2>10 DEF Holds
  <2>15. i \in Contracts =>
           \/ lock'[r.site] = t
           \/ row[i] # None /\ r.term = row[i].term /\ (r.live => row[i].live)
    <3>1. i \in Contracts => x.op \in {"sign", "amend"}
      BY <2>2, <2>6, RegisterIs, OneRegister
    <3>2. QED
      BY <1>1, <2>1, <2>10, <3>1 DEF Days
  <2>16. ASSUME NEW I \in Unique, i \in I, NEW j \in I \ {i}, NEW q \in Writ(j), Clash(I, q, r)
         PROVE  FALSE
    <3>1. I = Register[x.op]
      BY <2>2, <2>6, <2>16, RegisterIs, OneRegister DEF Unique
    <3>2. j \in Others(x) /\ j \in Items
      <4>1. j \in Items /\ j \in Register[x.op] /\ j # i
        BY <2>16, <3>1 DEF Unique, Items
      <4>2. j # x.item
        BY <2>5, <4>1, RegistersAssumption
      <4>3. QED
        BY <4>1, <4>2 DEF Others
    <3>3. ~Clash(I, row[j], r)
      BY <1>3, <3>1, <3>2 DEF Taken
    <3>4. CASE q = row[j]
      BY <2>16, <3>3, <3>4
    <3>5. ASSUME NEW v \in Txs \ {t}, tx[v] # None, q = tx[v].puts[j] PROVE FALSE
      <4>1. q # None
        BY <2>7, <2>16, RegistersAssumption DEF Writ
      <4>2. QED
        BY <1>1, <2>16, <3>1, <3>2, <3>3, <3>5, <4>1 DEF InDoubt
    <3>6. CASE q = x.puts[j]
      <4>1. x.puts[j] # None
        BY <2>16, <3>6, RegistersAssumption DEF Writ
      <4>2. x.op = "install"
        BY <1>1, <2>1, <3>2, <4>1 DEF Shaped
      <4>3. I = Units /\ j \in Units
        BY <2>16, <3>1, <4>2, RegisterIs
      <4>4. q.serial = r.serial
        BY <2>16, <4>3, ClashIs
      <4>5. q.serial # x.todo[1]
        BY <2>1, <2>12, <3>2, <3>6, <4>1, <4>2, <4>3 DEF Puts
      <4>6. QED
        BY <2>12, <4>2, <4>4, <4>5
    <3>7. QED
      BY <1>1, <2>16, <3>4, <3>5, <3>6 DEF Writ
  <2>17. \A I \in Unique : i \in I => \A j \in I \ {i} : \A q \in Writ(j) : ~Clash(I, q, r)
    BY <2>16
  <2>18. x.op = "install" => r.serial = Head(x.todo)
    BY <2>12
  <2> HIDE DEF ids
  <2>19. QED
    BY ONLY <2>10, <2>11, <2>13, <2>14, <2>15, <2>17, <2>18, PutKept
<1>4. QED
  BY <1>1, <1>2, <1>3

-----------------------------------------------------------------------------
(* The commit. *)

\* What a commit leaves, and what it cannot reach: the rows that others hold, and those they
\* are about to register.
LEMMA Commits ==
  ASSUME Kept, NEW t \in Txs, Commit(t)
  PROVE  /\ tx[t] # None /\ tx[t].phase = "written" /\ tx' = [tx EXCEPT ![t] = None]
         /\ row' = [i \in Items |-> row'[i]]
         /\ \A i \in Items : /\ row'[i] = New(row[i], tx[t].puts[i])
                             /\ row'[i] \in {row[i], tx[t].puts[i]}
                             /\ row[i] # None => row'[i] # None
                             /\ row'[i] # row[i] => tx[t].puts[i] # None /\ row'[i] = tx[t].puts[i]
         /\ lock' \in [Items -> Txs \cup {None}]
         /\ \A i \in Items : lock'[i] # None => lock'[i] = lock[i]
         /\ \A u \in Txs \ {t}, i \in Items : lock[i] = u => lock'[i] = u /\ row'[i] = row[i]
         /\ \A u \in Txs \ {t}, i \in Items :
              tx[u] # None /\ tx[u].puts[i] # None /\ row[i] = None => row'[i] = None
<1>1. /\ tx[t] # None /\ tx[t].phase = "written" /\ tx' = [tx EXCEPT ![t] = None]
      /\ row' = [i \in Items |-> New(row[i], tx[t].puts[i])]
      /\ lock' = [i \in Items |-> IF lock[i] = t THEN None ELSE lock[i]]
  BY DEF Commit, At, Unlock
<1>2. TypeOK /\ Rows /\ Puts(t) /\ \A u \in Txs : tx[u] # None => Puts(u)
  BY <1>1 DEF Kept
<1>3. \A i \in Items : /\ row'[i] = New(row[i], tx[t].puts[i])
                       /\ row'[i] \in {row[i], tx[t].puts[i]}
                       /\ row[i] # None => row'[i] # None
                       /\ row'[i] # row[i] => tx[t].puts[i] # None /\ row'[i] = tx[t].puts[i]
  BY <1>1 DEF New
<1>4. /\ lock' \in [Items -> Txs \cup {None}]
      /\ \A i \in Items : lock'[i] # None => lock'[i] = lock[i]
  BY <1>1, <1>2 DEF TypeOK
<1>5. ASSUME NEW u \in Txs \ {t}, NEW i \in Items, lock[i] = u PROVE lock'[i] = u /\ row'[i] = row[i]
  <2>1. row[i] # None /\ lock[i] # t /\ lock[i] # None
    BY <1>2, <1>5, RegistersAssumption DEF Rows
  <2>2. tx[t].puts[i] = None
    BY <1>2, <2>1 DEF Puts
  <2>3. QED
    BY <1>1, <1>5, <2>1, <2>2 DEF New
<1>6. ASSUME NEW u \in Txs \ {t}, NEW i \in Items, tx[u] # None, tx[u].puts[i] # None, row[i] = None
      PROVE  row'[i] = None
  <2>1. tx[t].puts[i] = None
    BY <1>1, <1>2, <1>6 DEF Puts
  <2>2. QED
    BY <1>1, <1>6, <2>1 DEF New
<1>7. row' = [i \in Items |-> row'[i]]
  BY <1>1
<1>8. QED
  BY <1>1, <1>3, <1>4, <1>5, <1>6, <1>7

\* A commit leaves the days that another transaction found free as it found them.
LEMMA StillFree ==
  ASSUME Kept, NEW t \in Txs, Commit(t), NEW u \in Txs \ {t}, tx[u] # None,
         tx[u].op \in {"sign", "amend"}, tx[u].phase \in {"queued", "free"}
  PROVE  /\ Proposed(tx[u])' = Proposed(tx[u])
         /\ tx[u].phase = "free" => ~Taken(tx[u])'
<1> PICK x : x = tx[u]
  OBVIOUS
<1>1. x \in Tx /\ Shaped(x) /\ Holds(u) /\ Days(u) /\ Days(t) /\ Puts(t) /\ tx'[u] = x /\ tx[t] # None
  BY Commits DEF Kept, TypeOK
<1>2. Register[x.op] = Contracts /\ (x.op = "sign" => x.item = None) /\ (x.op = "amend" => x.item # None)
  BY <1>1, RegisterIs DEF Shaped, Registering
<1>3. x.op = "amend" => x.item \in Items /\ lock[x.item] = u
  BY <1>1, <1>2, TxFields DEF Holds
<1>4. x.op = "amend" => row'[x.item] = row[x.item]
  BY <1>3, Commits
<1>5. Proposed(tx[u])' = Proposed(x)
  <2>1. CASE x.op = "sign"
    <3>1. Proposed(x) = Fresh(x)
      BY <1>2, <2>1 DEF Proposed
    <3>2. Proposed(tx[u])' = Fresh(tx[u])'
      BY <1>1, <1>2, <2>1 DEF Proposed
    <3>3. Fresh(tx[u])' = Fresh(x)
      BY <1>1 DEF Fresh
    <3>4. QED
      BY <3>1, <3>2, <3>3
  <2>2. CASE x.op = "amend"
    <3>1. Proposed(x) = Changed(x)
      BY <1>2, <2>2 DEF Proposed
    <3>2. Proposed(tx[u])' = Changed(tx[u])'
      BY <1>1, <1>2, <2>2 DEF Proposed
    <3>3. tx'[u] = x /\ row'[x.item] = row[x.item]
      BY <1>1, <1>4, <2>2
    <3>4. Changed(tx[u])' = Changed(x)
      BY ONLY <3>3 DEF Changed
    <3>5. QED
      BY <3>1, <3>2, <3>4
  <2>3. QED
    BY <2>1, <2>2
<1>6. ASSUME x.phase = "free", NEW j \in Contracts \ {x.item}, Clash(Contracts, row'[j], Proposed(x))
      PROVE  FALSE
  <2>1. ~Clash(Contracts, row[j], Proposed(x)) /\ lock[Proposed(x).site] = u
    BY <1>1, <1>2, <1>6 DEF Days, Taken, Others
  <2>2. j \in Items
    BY DEF Items
  <2>3. tx[t].puts[j] # None /\ row'[j] = tx[t].puts[j]
    BY <1>6, <2>1, <2>2, Commits
  <2>4. row'[j].site = Proposed(x).site
    BY <1>6, ClashIs
  <2>5. lock[row'[j].site] # t
    BY <2>1, <2>4
  <2>6. row[j] # None /\ row'[j].term = row[j].term /\ (row'[j].live => row[j].live)
    BY <1>1, <2>3, <2>5 DEF Days
  <2>7. row'[j].site = row[j].site
    <3>1. Keeps(tx[t], j, tx[t].puts[j])
      BY <1>1, <2>2, <2>3, <2>6 DEF Puts
    <3>2. QED
      BY <1>6, <2>3, <3>1 DEF Keeps
  <2>8. QED
    BY <1>6, <2>1, <2>6, <2>7, ClashIs
<1>7. x.phase = "free" => ~Taken(tx[u])'
  <2>1. Taken(tx[u])' <=> \E j \in Contracts \ {x.item} : Clash(Contracts, row'[j], Proposed(tx[u])')
    BY <1>1, <1>2 DEF Taken, Others
  <2>2. QED
    BY <1>5, <1>6, <2>1
<1>8. QED
  BY <1>5, <1>7

LEMMA CommitKept == ASSUME Kept, NEW t \in Txs, Commit(t) PROVE Kept'
<1>1. TypeOK /\ Rows /\ NoClash /\ Puts(t) /\ tx[t] # None /\ tx[t] \in Tx /\ tx' = [tx EXCEPT ![t] = None]
  BY Commits DEF Kept, TypeOK
<1>2. TypeOK'
  <2>1. \A i \in Items : row'[i] \in Row \cup {None}
    <3>1. tx[t].puts \in [Items -> Row \cup {None}]
      BY <1>1, TxFields
    <3>2. \A i \in Items : row'[i] \in {row[i], tx[t].puts[i]}
      BY Commits
    <3>3. QED
      BY <1>1, <3>1, <3>2 DEF TypeOK
  <2>2. lock' \in [Items -> Txs \cup {None}]
    BY Commits
  <2>3. tx' \in [Txs -> Tx \cup {None}]
    BY <1>1 DEF TypeOK
  <2>4. QED
    BY <2>1, <2>2, <2>3 DEF TypeOK
<1>3. Rows'
  <2>1. row' = [i \in Items |-> row'[i]]
    BY Commits
  <2>2. ASSUME NEW i \in Items
        PROVE  /\ row'[i] # None => OfKind(i, row'[i])
               /\ i \in Sites \cup Staff \/ lock'[i] # None => row'[i] # None
    <3>1. /\ row'[i] \in {row[i], tx[t].puts[i]} /\ (row[i] # None => row'[i] # None)
          /\ lock'[i] # None => lock'[i] = lock[i]
      BY Commits
    <3>2. /\ row[i] # None => OfKind(i, row[i])
          /\ i \in Sites \cup Staff \/ lock[i] # None => row[i] # None
          /\ tx[t].puts[i] # None => OfKind(i, tx[t].puts[i])
      BY <1>1 DEF Rows, Puts
    <3>3. QED
      BY ONLY <3>1, <3>2
  <2>3. QED
    BY ONLY <2>1, <2>2 DEF Rows, OfKind
<1>4. NoClash'
  <2>1. ASSUME NEW j \in Items PROVE Writ(j)' \subseteq Writ(j)
    <3>1. row'[j] \in {row[j], tx[t].puts[j]}
      BY Commits
    <3>2. \A u \in Txs : tx'[u] # None => tx'[u] = tx[u] /\ tx[u] # None
      BY <1>1 DEF TypeOK
    <3>3. QED
      BY <1>1, <3>1, <3>2 DEF Writ
  <2>2. QED
    BY <1>1, <2>1, NoClashFewer
<1>5. ASSUME NEW u \in Txs, tx'[u] # None
      PROVE  Shaped(tx[u])' /\ Holds(u)' /\ Puts(u)' /\ Days(u)'
  <2> PICK x : x = tx[u]
    OBVIOUS
  <2>1. u # t /\ tx'[u] = x /\ x # None /\ x \in Tx /\ Shaped(x) /\ Holds(u) /\ Puts(u) /\ Days(u)
    BY <1>1, <1>5 DEF Kept, TypeOK
  <2>2. /\ x.item \in Items \cup {None} /\ x.holder \in Units \cup {None}
    BY <2>1, TxFields
  <2>3. \A i \in Items : row[i] # None => row'[i] # None
    BY Commits
  <2>4. \A i \in Items : lock[i] = u => lock'[i] = u /\ row'[i] = row[i]
    BY <2>1, Commits
  <2>5. Shaped(tx[u])'
    <3>1. /\ x.item # None => row'[x.item] # None
          /\ x.phase = "waiting" => row'[x.holder] # None
      BY <2>1, <2>2, <2>3 DEF Shaped, Items
    <3>2. QED
      BY <2>1, <3>1 DEF Shaped
  <2>6. Holds(u)'
    BY <2>1, <2>2, <2>4 DEF Holds, Stands, Limit
  <2>7. Puts(u)'
    <3>1. ASSUME NEW i \in Items, x.puts[i] # None
          PROVE  /\ i \in Register[x.op] /\ OfKind(i, x.puts[i])
                 /\ row'[i] = None => \A v \in Txs \ {u} : tx'[v] # None => tx'[v].puts[i] = None
                 /\ row'[i] # None => lock'[i] = u /\ row'[i] = row[i] /\ Keeps(x, i, x.puts[i])
                 /\ i \in Units /\ x.op = "install" => \A k \in DOMAIN x.todo : x.puts[i].serial # x.todo[k]
      <4>1. i \in Register[x.op] /\ OfKind(i, x.puts[i])
            /\ (i \in Units /\ x.op = "install" => \A k \in DOMAIN x.todo : x.puts[i].serial # x.todo[k])
        BY <2>1, <3>1 DEF Puts
      <4>2. CASE row[i] = None
        <5>1. row'[i] = None
          BY <2>1, <3>1, <4>2, Commits
        <5>2. \A v \in Txs \ {u} : tx'[v] # None => tx'[v].puts[i] = None
          BY <1>1, <2>1, <3>1, <4>2 DEF Puts, TypeOK
        <5>3. QED
          BY <4>1, <5>1, <5>2
      <4>3. CASE row[i] # None
        <5>1. lock[i] = u /\ Keeps(x, i, x.puts[i])
          BY <2>1, <3>1, <4>3 DEF Puts
        <5>2. QED
          BY <2>3, <2>4, <4>1, <4>3, <5>1
      <4>4. QED
        BY <4>2, <4>3
    <3>2. \A i \in Items : row'[i] = row[i] /\ Keeps(x, i, x.puts[i]) => Keeps(tx[u], i, tx[u].puts[i])'
      BY <2>1 DEF Keeps
    <3>3. QED
      BY ONLY <2>1, <3>1, <3>2 DEF Puts, OfKind
  <2>8. Days(u)'
    <3>1. x.op \in {"sign", "amend"} /\ x.phase \in {"queued", "free"} =>
            /\ Proposed(tx[u])' = Proposed(tx[u])
            /\ tx[u].phase = "free" => ~Taken(tx[u])'
      BY <2>1, StillFree
    <3>2. x.op \in {"sign", "amend"} /\ x.phase \in {"queued", "free"} =>
            lock[Proposed(tx[u]).site] = u /\ Proposed(tx[u]).site \in Items
      <4>1. x.op \in {"sign", "amend"} /\ x.phase \in {"queued", "free"} => Proposed(tx[u]).site \in Sites
        BY <2>1, ProposedIs DEF Registering
      <4>2. QED
        BY <2>1, <4>1 DEF Days, Items
    <3>3. ASSUME NEW k \in Contracts, x.puts[k] # None
          PROVE  \/ lock'[x.puts[k].site] = u
                 \/ /\ row'[k] # None /\ x.puts[k].term = row'[k].term
                    /\ x.puts[k].live => row'[k].live
      <4>1. k \in Items /\ x.puts[k].site \in Items
        BY <2>1, <3>3 DEF Puts, OfKind, Contract, Items
      <4>2. CASE lock[x.puts[k].site] = u
        BY <2>4, <4>1, <4>2
      <4>3. CASE lock[x.puts[k].site] # u
        <5>1. row[k] # None /\ x.puts[k].term = row[k].term /\ (x.puts[k].live => row[k].live)
          BY <2>1, <3>3, <4>3 DEF Days
        <5>2. lock[k] = u
          BY <2>1, <3>3, <4>1, <5>1 DEF Puts
        <5>3. QED
          BY <2>4, <4>1, <5>1, <5>2
      <4>4. QED
        BY <4>2, <4>3
    <3>4. /\ x.op \in {"sign", "amend"} /\ x.phase \in {"queued", "free"} => lock'[Proposed(tx[u])'.site] = u
          /\ x.op \in {"sign", "amend"} /\ x.phase = "free" => ~Taken(tx[u])'
      BY <2>1, <2>4, <3>1, <3>2
    <3>5. QED
      BY ONLY <2>1, <3>3, <3>4 DEF Days
  <2>9. QED
    BY <2>5, <2>6, <2>7, <2>8
<1>6. QED
  BY <1>2, <1>3, <1>4, <1>5 DEF Kept

-----------------------------------------------------------------------------
(* Kept is inductive. *)

LEMMA InitKept == Init => Kept
<1> SUFFICES ASSUME Init PROVE Kept
  OBVIOUS
<1>1. 1 \in Versions /\ \A t \in Txs : tx[t] = None
  BY RegistersAssumption DEF Init, Versions
<1>2. ASSUME NEW i \in Items
      PROVE  /\ row[i] = First(i) /\ (row[i] # None => OfKind(i, row[i]) /\ i \in Sites \cup Staff)
             /\ i \in Sites \cup Staff => row[i] # None
  <2>1. row[i] = First(i)
    BY DEF Init
  <2>2. CASE i \in Sites
    <3>1. row[i] = [version |-> 1]
      BY <2>1, <2>2 DEF First
    <3>2. row[i] \in Site
      BY <1>1, <3>1 DEF Site
    <3>3. OfKind(i, row[i])
      BY <2>2, <3>2, OneRegister DEF OfKind
    <3>4. QED
      BY <2>1, <2>2, <3>3, KindIsRow
  <2>3. CASE i \in Staff
    <3>1. row[i] = [active |-> TRUE, version |-> 1]
      BY <2>1, <2>3, OneRegister DEF First
    <3>2. row[i] \in Employee
      BY <1>1, <3>1 DEF Employee
    <3>3. OfKind(i, row[i])
      BY <2>3, <3>2, OneRegister DEF OfKind
    <3>4. QED
      BY <2>1, <2>3, <3>3, KindIsRow
  <2>4. CASE i \notin Sites \cup Staff
    BY <2>1, <2>4 DEF First
  <2>5. QED
    BY <2>2, <2>3, <2>4
<1>3. TypeOK
  <2>1. \A i \in Items : row[i] \in Row \cup {None}
    BY <1>2, KindIsRow
  <2>2. lock \in [Items -> Txs \cup {None}] /\ tx \in [Txs -> Tx \cup {None}]
    BY DEF Init
  <2>3. QED
    BY <2>1, <2>2 DEF TypeOK
<1>4. Rows
  <2>1. row = [i \in Items |-> row[i]] /\ \A i \in Items : lock[i] = None
    BY DEF Init
  <2>2. QED
    BY <1>2, <2>1 DEF Rows
<1>5. NoClash
  <2>1. ASSUME NEW I \in Unique, NEW i \in I, NEW r \in Writ(i) PROVE FALSE
    <3>1. i \in Items /\ i \notin Sites \cup Staff
      BY OneRegister DEF Unique, Items
    <3>2. row[i] = None
      BY <1>2, <3>1
    <3>3. QED
      BY <1>1, <2>1, <3>2, RegistersAssumption DEF Writ
  <2>2. QED
    BY <2>1 DEF NoClash, Unique
<1>6. QED
  BY <1>1, <1>3, <1>4, <1>5 DEF Kept

LEMMA StepKept == Kept /\ [Next]_vars => Kept'
<1> SUFFICES ASSUME Kept, [Next]_vars PROVE Kept'
  OBVIOUS
<1>1. CASE UNCHANGED vars
  <2>1. row' = row /\ lock' = lock /\ tx' = tx
    BY <1>1 DEF vars
  <2>2. TypeOK' /\ Rows'
    BY <2>1 DEF Kept, TypeOK, Rows, OfKind
  <2>3. NoClash'
    BY <2>1, NoClashFewer DEF Kept, Writ
  <2>4. ASSUME NEW t \in Txs, tx'[t] # None
        PROVE  Shaped(tx[t])' /\ Holds(t)' /\ Puts(t)' /\ Days(t)'
    <3>1. tx[t] # None /\ Shaped(tx[t]) /\ Holds(t) /\ Puts(t) /\ Days(t) /\ tx'[t] = tx[t]
      BY <2>1, <2>4 DEF Kept
    <3>2. Shaped(tx[t])'
      BY <2>1, <3>1 DEF Shaped
    <3>3. Holds(t)'
      BY <2>1, <3>1 DEF Holds, Stands, Limit
    <3>4. \A x, i, r : Keeps(x, i, r)' <=> Keeps(x, i, r)
      BY <2>1 DEF Keeps
    <3>5. Puts(t)'
      BY <2>1, <3>1, <3>4 DEF Puts, OfKind
    <3>6. Proposed(tx[t])' = Proposed(tx[t]) /\ (Taken(tx[t])' <=> Taken(tx[t]))
      BY <2>1, SameProposal
    <3>7. Days(t)'
      BY <2>1, <3>1, <3>6 DEF Days
    <3>8. QED
      BY <3>2, <3>3, <3>5, <3>7
  <2>5. QED
    BY <2>2, <2>3, <2>4 DEF Kept
<1>2. ASSUME NEW t \in Txs, Ask(t) PROVE Kept'
  BY <1>2, AskKept
<1>3. ASSUME NEW t \in Txs, Step(t) PROVE Kept'
  BY <1>3, LockItemKept, LookKept, WakeKept, LockSiteKept, FindKept, ReadEmployeeKept,
     FindOpenWorkKept, UpdateEmployeeKept, WriteKept, CommitKept DEF Step
<1>4. ASSUME NEW t \in Txs, Lost(t) PROVE Kept'
  BY <1>4, RefuseKept DEF Lost
<1>5. QED
  BY <1>1, <1>2, <1>3, <1>4 DEF Next

LEMMA AlwaysKept == Spec => []Kept
<1>1. Init => Kept
  BY InitKept
<1>2. Kept /\ [Next]_vars => Kept'
  BY StepKept
<1>3. QED
  BY <1>1, <1>2, PTL DEF Spec

-----------------------------------------------------------------------------
(* What the registers promise. *)

LEMMA CommittedApart ==
  ASSUME Kept, NEW I \in Unique, NEW i \in I, NEW j \in I, i # j, NEW r \in Writ(i), NEW p \in Writ(j)
  PROVE  ~Clash(I, r, p)
  BY DEF Kept, NoClash, Unique

\* A committed row, and one about to be, are among those that may not clash.
LEMMA WritHas ==
  ASSUME Kept, NEW i \in Items
  PROVE  /\ row[i] # None => row[i] \in Writ(i)
         /\ \A t \in Txs : tx[t] # None /\ tx[t].puts[i] # None => tx[t].puts[i] \in Writ(i)
<1>1. row[i] # None => row[i] \in Row
  BY DEF Kept, TypeOK
<1>2. ASSUME NEW t \in Txs, tx[t] # None, tx[t].puts[i] # None PROVE tx[t].puts[i] \in Row
  BY <1>2, KindIsRow DEF Kept, Puts
<1>3. QED
  BY <1>1, <1>2 DEF Writ

LEMMA KeptUnits == Kept => OneUnitPerSerial
<1> SUFFICES ASSUME Kept, NEW u \in Units, NEW v \in Units, NEW s \in Serials,
                    Carries(row[u], s), Carries(row[v], s), u # v
             PROVE  FALSE
  BY DEF OneUnitPerSerial
<1>1. u \in Items /\ v \in Items /\ Units \in Unique
  BY DEF Items, Unique
<1>2. row[u] \in Writ(u) /\ row[v] \in Writ(v)
  BY <1>1, WritHas DEF Carries
<1>3. ~Clash(Units, row[u], row[v])
  BY <1>1, <1>2, CommittedApart
<1>4. QED
  BY <1>3, ClashIs DEF Carries

LEMMA KeptContracts == Kept => OneContractADay
<1> SUFFICES ASSUME Kept, NEW k \in Contracts, NEW m \in Contracts, k # m, row[k] # None, row[m] # None,
                    row[k].live, row[m].live, row[k].site = row[m].site, Meet(row[k].term, row[m].term)
             PROVE  FALSE
  BY DEF OneContractADay
<1>1. k \in Items /\ m \in Items /\ Contracts \in Unique
  BY DEF Items, Unique
<1>2. row[k] \in Writ(k) /\ row[m] \in Writ(m)
  BY <1>1, WritHas
<1>3. ~Clash(Contracts, row[k], row[m])
  BY <1>1, <1>2, CommittedApart
<1>4. QED
  BY <1>3, ClashIs

LEMMA KeptNames == Kept => OneName
<1> SUFFICES ASSUME Kept, NEW I \in {Companies, Wares}, NEW i \in I, NEW j \in I,
                    row[i] # None, row[j] # None, row[i].name = row[j].name, i # j
             PROVE  FALSE
  BY DEF OneName
<1>1. i \in Items /\ j \in Items /\ I \in Unique
  BY DEF Items, Unique
<1>2. row[i] \in Writ(i) /\ row[j] \in Writ(j)
  BY <1>1, WritHas
<1>3. ~Clash(I, row[i], row[j])
  BY <1>1, <1>2, CommittedApart
<1>4. QED
  BY <1>3, ClashIs

\* What another transaction writes to the days of a site that t holds takes none it did not have.
LEMMA KeptVerdict == Kept => VerdictIsFinal
<1> SUFFICES ASSUME Kept, NEW t \in Txs, At(t, "free"), Register[tx[t].op] = Contracts
             PROVE  ~InDoubt(t) /\ ~Taken(tx[t])
  BY DEF VerdictIsFinal
<1> PICK x : x = tx[t]
  OBVIOUS
<1> PICK r : r = Proposed(tx[t])
  OBVIOUS
<1>1. x # None /\ x.phase = "free" /\ x \in Tx /\ Shaped(x) /\ Days(t)
  BY DEF At, Kept, TypeOK
<1>2. CASE Contracts = {}
  BY <1>2 DEF InDoubt, Taken, Others
<1>3. CASE Contracts # {}
  <2>1. x.op \in {"sign", "amend"}
    <3>1. x.op \in DOMAIN Register /\ x.phase \in Writing(x.op)
      BY <1>1, TxFields DEF Shaped
    <3>2. x.op \in {"install", "correct", "sign", "amend", "open", "edit", "list"}
      BY <1>1, <3>1, RegisterIs DEF Writing
    <3>3. Contracts \notin {Units, Companies, Wares}
      BY <1>3, OneRegister
    <3>4. QED
      BY <3>2, <3>3, RegisterIs
  <2>2. ~Taken(tx[t]) /\ lock[r.site] = t
    BY <1>1, <2>1 DEF Days
  <2>3. ASSUME NEW v \in Txs \ {t}, NEW j \in Others(x), tx[v] # None, tx[v].puts[j] # None,
               Clash(Contracts, tx[v].puts[j], r)
        PROVE  FALSE
    <3> PICK q : q = tx[v].puts[j]
      OBVIOUS
    <3>1. j \in Contracts /\ j \in Items
      BY DEF Others, Items
    <3>2. q.site = r.site
      BY <1>3, <2>3, ClashIs
    <3>3. /\ row[j] # None /\ q.term = row[j].term /\ (q.live => row[j].live)
          /\ q.site = row[j].site
      <4>1. Days(v) /\ Puts(v) /\ lock[q.site] # v
        BY <2>2, <2>3, <3>2 DEF Kept
      <4>2. row[j] # None /\ q.term = row[j].term /\ (q.live => row[j].live)
        BY <2>3, <3>1, <4>1 DEF Days
      <4>3. q.site = row[j].site
        BY <2>3, <3>1, <4>1, <4>2 DEF Puts, Keeps
      <4>4. QED
        BY <4>2, <4>3
    <3>4. Clash(Contracts, row[j], r)
      BY <1>3, <2>3, <3>3, ClashIs
    <3>5. QED
      BY <2>2, <3>4 DEF Taken
  <2>4. \A j \in Others(x) : ~Clash(Contracts, row[j], r)
    BY <2>2 DEF Taken
  <2>5. ~InDoubt(t)
    <3>1. SUFFICES ASSUME NEW v \in Txs \ {t}, NEW j \in Others(x), tx[v] # None, tx[v].puts[j] # None,
                          Clash(Contracts, tx[v].puts[j], r) # Clash(Contracts, row[j], r)
                   PROVE  FALSE
      BY DEF InDoubt
    <3>2. ~Clash(Contracts, tx[v].puts[j], r) /\ ~Clash(Contracts, row[j], r)
      BY <2>3, <2>4, <3>1
    <3>3. Clash(Contracts, tx[v].puts[j], r) \in BOOLEAN /\ Clash(Contracts, row[j], r) \in BOOLEAN
      BY DEF Clash
    <3>4. QED
      BY <3>1, <3>2, <3>3
  <2>6. QED
    BY <2>2, <2>5
<1>4. QED
  BY <1>2, <1>3

\* The committed registers stand, whatever is in progress: one active unit per serial, one AMC
\* on a day, one company and one entry of the catalogue per name; what findOverlapping found
\* free stays free until the contract is written; and what is written is held, or new.
THEOREM RowsStand == Spec => []Standing
<1>1. Kept => Standing
  <2>1. Kept => WritesItsOwn
    BY DEF Kept, Puts, WritesItsOwn
  <2>2. Kept => TypeOK
    BY DEF Kept
  <2>3. QED
    BY <2>1, <2>2, KeptUnits, KeptContracts, KeptNames, KeptVerdict DEF Standing
<1>2. QED
  BY <1>1, AlwaysKept, PTL

\* Only a commit touches the committed rows, and it keeps the site of a unit, the rows that no
\* longer stand and the chain of owners.
THEOREM RowsStayPut == Spec => StaysPut
<1> DEFINE same == \A u, v \in Units, s \in Serials :
                     Carries(row[u], s) /\ Carries(row'[v], s) => row'[v].site = row[u].site
           gone == \A i \in Units \cup Contracts \cup Wares :
                     row[i] # None /\ ~Stands(i) => row'[i] = row[i]
           chain == \A t \in Txs, c \in Companies : Commit(t) /\ tx[t].puts[c] # None /\ row[c] # None =>
                      LET moved == [from |-> row[c].owner, to |-> row'[c].owner]
                      IN  tx[t].handover = moved \/ (tx[t].handover = None /\ moved.from = moved.to)
<1>1. ASSUME Kept, row' = row PROVE same /\ gone
  BY <1>1, KeptUnits DEF OneUnitPerSerial
<1>2. ASSUME Kept, NEW t \in Txs, Commit(t) PROVE same /\ gone
  <2>1. tx[t] # None /\ Puts(t)
    BY <1>2, Commits DEF Kept
  <2>2. ASSUME NEW u \in Units, NEW v \in Units, NEW s \in Serials, Carries(row[u], s), Carries(row'[v], s)
        PROVE  row'[v].site = row[u].site
    <3>1. u \in Items /\ v \in Items /\ Units \in Unique
      BY DEF Items, Unique
    <3>2. CASE row'[v] = row[v]
      BY <1>2, <2>2, <3>2, KeptUnits DEF OneUnitPerSerial
    <3>3. CASE row'[v] # row[v]
      <4>1. tx[t].puts[v] # None /\ row'[v] = tx[t].puts[v]
        BY <1>2, <3>1, <3>3, Commits
      <4>2. row[u] \in Writ(u) /\ row'[v] \in Writ(v)
        BY <1>2, <2>1, <2>2, <3>1, <4>1, WritHas DEF Carries
      <4>3. Clash(Units, row[u], row'[v])
        BY <2>2, ClashIs DEF Carries
      <4>4. u = v
        BY <1>2, <3>1, <4>2, <4>3, CommittedApart
      <4>5. QED
        BY <2>1, <2>2, <3>1, <4>1, <4>4 DEF Puts, Keeps, Carries
    <3>4. QED
      BY <3>2, <3>3
  <2>3. ASSUME NEW i \in Units \cup Contracts \cup Wares, row[i] # None, ~Stands(i)
        PROVE  row'[i] = row[i]
    <3>1. i \in Items
      BY DEF Items
    <3>2. tx[t].puts[i] # None => Keeps(tx[t], i, tx[t].puts[i])
      BY <2>1, <2>3, <3>1 DEF Puts
    <3>3. tx[t].puts[i] = None
      BY <2>3, <3>2, OneRegister DEF Keeps, Stands
    <3>4. QED
      BY <1>2, <3>1, <3>3, Commits
  <2>4. QED
    BY <2>2, <2>3
<1>3. ASSUME Kept, NEW t \in Txs, NEW c \in Companies, Commit(t), tx[t].puts[c] # None, row[c] # None
      PROVE  LET moved == [from |-> row[c].owner, to |-> row'[c].owner]
             IN  tx[t].handover = moved \/ (tx[t].handover = None /\ moved.from = moved.to)
  <2>1. c \in Items /\ tx[t] # None /\ Puts(t)
    BY <1>3, Commits DEF Kept, Items
  <2>2. row'[c] = tx[t].puts[c]
    BY <1>3, <2>1, Commits DEF New
  <2>3. QED
    BY <1>3, <2>1, <2>2 DEF Puts, Keeps
<1>4. Kept /\ [Next]_vars => same /\ gone
  <2> SUFFICES ASSUME Kept, [Next]_vars PROVE same /\ gone
    OBVIOUS
  <2>1. row' = row \/ \E t \in Txs : Commit(t)
    BY DEF Next, vars, Ask, Step, Lost, Refuse, Goes, Takes, LockItem, Look, Found, Wake, LockSite, Find,
           ReadEmployee, FindOpenWork, UpdateEmployee, Write
  <2>2. QED
    BY <1>1, <1>2, <2>1
<1>5. Kept /\ [Next]_vars => [same /\ gone /\ chain]_vars
  BY <1>3, <1>4
<1>6. QED
  BY <1>5, AlwaysKept, PTL DEF Spec, StaysPut

\* What a commit corrects is the row its sender saw, which the transaction held from the
\* comparison on.
THEOREM CorrectsTheRowSeen == Spec => CorrectsWhatWasSeen
<1> DEFINE seen == \A t \in Txs :
              Commit(t) /\ tx[t].op \in {"correct", "relocate", "amend", "edit", "revise"} =>
                /\ Stands(tx[t].item) /\ row[tx[t].item].version = tx[t].seen
                /\ tx[t].op = "edit" /\ tx[t].by # None => row[tx[t].item].owner \in {tx[t].by, None}
<1>1. ASSUME Kept, NEW t \in Txs, Commit(t),
             tx[t].op \in {"correct", "relocate", "amend", "edit", "revise"}
      PROVE  /\ Stands(tx[t].item) /\ row[tx[t].item].version = tx[t].seen
             /\ tx[t].op = "edit" /\ tx[t].by # None => row[tx[t].item].owner \in {tx[t].by, None}
  <2>1. tx[t] # None /\ tx[t].phase = "written" /\ Shaped(tx[t]) /\ Holds(t)
    BY <1>1, Commits DEF Kept
  <2>2. tx[t].item # None /\ tx[t].seen # None
    BY <1>1, <2>1 DEF Shaped, Registering, Matching
  <2>3. QED
    BY <1>1, <2>1, <2>2 DEF Holds
<1>2. Kept => [seen]_vars
  BY <1>1
<1>3. QED
  BY <1>2, AlwaysKept, PTL DEF CorrectsWhatWasSeen
=============================================================================

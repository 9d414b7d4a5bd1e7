--------------------------- MODULE Sessions_proofs ---------------------------
(***************************************************************************)
(* The chains of refresh tokens and the session of a handset, for any      *)
(* number of employees, tokens, requests and calls, and any of the faults. *)
(* Bound is inductive: the chains are lines, a transaction in progress     *)
(* still has what it read, and whoever waits on the handset waits for a    *)
(* request that is in progress.                                            *)
(***************************************************************************)
EXTENDS Sessions, TLAPS

\* The phases a request goes through.  A refresh that revokes has been refused.
Phased(w) ==
  /\ w.kind = "refresh" => w.phase \in {"sent", "rotating", "revoking"}
  /\ w.kind = "login" => w.phase \in {"sent", "minting"}
  /\ w.kind = "logout" => w.phase = "sent"
  /\ w.kind \in {"deactivate", "password"} => w.phase = "revoking"
  /\ w.kind = "refresh" /\ w.phase = "revoking" => w.verdict # "fine"

\* A request in progress names tokens that were issued; one that is rotating holds its
\* token, which is as it was read.
Progressing(x) ==
  LET w == tx[x] IN
  /\ Phased(w)
  /\ w.hits \subseteq Used
  /\ w.kind \in {"refresh", "logout"} => w.tok \in Used
  /\ w.kind \notin {"refresh", "logout"} => w.emp # None
  /\ w.phase = "rotating" => lock[w.tok] = x /\ Live(w.tok)

Served ==
  /\ token \in [Tokens -> Row \cup {None}]
  /\ active \subseteq Employees
  /\ lock \in [Tokens -> Txs \cup {None}]
  /\ tx \in [Txs -> Tx \cup {None}]
  /\ ChainsAreLines
  /\ \A x \in Txs : tx[x] # None => Progressing(x)

\* The handset holds tokens that were issued, and waits for requests in progress only.
Held ==
  /\ store \in Session \cup {None}
  /\ flight \in Flight \cup {None}
  /\ call \in [Calls -> Call \cup {None}]
  /\ form \in Form \cup {None}
  /\ user \in Employees \cup {None}
  /\ store # None => store.tok \in Used
  /\ flight # None =>
       /\ flight.phase # "load" => flight.session # None
       /\ flight.phase = "granted" => flight.fresh \in Used
       /\ flight.phase = "sent" =>
            flight.tx \in Txs /\ tx[flight.tx] # None /\ tx[flight.tx].kind = "refresh"
  /\ form # None =>
       /\ form.kind = "login" /\ form.phase = "done" => form.fresh \in Used
       /\ form.phase = "sent" => tx[form.tx] # None /\ tx[form.tx].kind = form.kind

Worldly ==
  age \in [Tokens -> 0 .. 2] /\ troubles \in 0 .. MaxTrouble /\ disturbed \in BOOLEAN

\* The inductive invariant.
Bound == Served /\ Held /\ Worldly

LEMMA BoundIsChains == ASSUME Bound PROVE Chains
<1>1. TypeOK
  BY DEF Bound, Served, Held, Worldly, TypeOK
<1>2. ChainsAreLines
  BY DEF Bound, Served
<1>3. ASSUME NEW x \in Txs, tx[x] # None
      PROVE  /\ tx[x].hits \subseteq Used
             /\ tx[x].kind \in {"refresh", "logout"} => tx[x].tok \in Used
             /\ tx[x].kind \notin {"refresh", "logout"} => tx[x].emp # None
             /\ tx[x].phase = "rotating" =>
                  tx[x].kind = "refresh" /\ lock[tx[x].tok] = x /\ Live(tx[x].tok)
             /\ tx[x].phase = "minting" => tx[x].kind = "login"
  <2>1. Progressing(x) /\ tx[x].kind \in Kinds
    BY <1>3 DEF Bound, Served, Tx
  <2>2. QED
    BY <2>1 DEF Progressing, Phased, Kinds
<1>4. /\ store # None => store.tok \in Used
      /\ flight # None =>
           /\ flight.phase # "load" => flight.session # None
           /\ flight.phase = "granted" => flight.fresh \in Used
      /\ form # None /\ form.kind = "login" /\ form.phase = "done" => form.fresh \in Used
  BY DEF Bound, Held
<1>5. QED
  BY <1>1, <1>2, <1>3, <1>4 DEF Chains, TokensKnown, RotatesWhatItRead

-----------------------------------------------------------------------------
(* The records. *)

LEMMA NoneIsNothing ==
  /\ None \notin Employees /\ None \notin Txs /\ None \notin Tokens
  /\ None \notin Row /\ None \notin Session /\ None \notin Tx
  /\ None \notin Flight /\ None \notin Call /\ None \notin Form
  BY SessionsAssumption DEF Tokens

LEMMA RowFields ==
  ASSUME NEW w \in Row
  PROVE  /\ w.emp \in Employees /\ w.revoked \in BOOLEAN
         /\ w.next \in Tokens \cup {None} /\ w.from \in Tokens \cup {None}
         /\ w.revoked => [w EXCEPT !.revoked = TRUE] = w
  BY DEF Row

\* A row that is revoked.
Dead(w) == [w EXCEPT !.revoked = TRUE]

LEMMA DeadIs ==
  ASSUME NEW w \in Row
  PROVE  /\ Dead(w) \in Row /\ Dead(w).revoked /\ Dead(w).emp = w.emp
         /\ Dead(w).next = w.next /\ Dead(w).from = w.from
         /\ w.revoked => Dead(w) = w
  BY DEF Dead, Row

\* What Present makes of the request, and what Rotate makes of the row.
Decided(w, p, h, v) == [w EXCEPT !.phase = p, !.hits = h, !.verdict = v]
Replaced(w, f) == [w EXCEPT !.revoked = TRUE, !.next = f]

LEMMA DecidedIs ==
  ASSUME NEW w \in Tx, NEW p \in {"rotating", "revoking"}, NEW h \in SUBSET Tokens,
         NEW v \in {"fine", "reused", "gone"}
  PROVE  /\ Decided(w, p, h, v) \in Tx
         /\ Decided(w, p, h, v).kind = w.kind /\ Decided(w, p, h, v).phase = p
         /\ Decided(w, p, h, v).tok = w.tok /\ Decided(w, p, h, v).emp = w.emp
         /\ Decided(w, p, h, v).hits = h /\ Decided(w, p, h, v).verdict = v
  BY DEF Decided, Tx

LEMMA ReplacedIs ==
  ASSUME NEW w \in Row, NEW f \in Tokens
  PROVE  /\ Replaced(w, f) \in Row /\ Replaced(w, f).revoked /\ Replaced(w, f).emp = w.emp
         /\ Replaced(w, f).next = f /\ Replaced(w, f).from = w.from
  BY DEF Replaced, Row

LEMMA UsedIs ==
  /\ Used \subseteq Tokens
  /\ Served => \A t \in Used : token[t] \in Row
  BY DEF Used, Served

-----------------------------------------------------------------------------
(* The tokens. *)

\* What the rows may become in a step that keeps the chains: rows revoked, a row added.
Kept ==
  /\ token' \in [Tokens -> Row \cup {None}]
  /\ Used \subseteq Used'
  /\ ChainsAreLines'
  /\ \A t \in Used : token[t].revoked => token'[t] = token[t]

LEMMA RevokedKeeps ==
  ASSUME Served, NEW S \in SUBSET Used,
         token' = [t \in Tokens |-> IF t \in S THEN Dead(token[t]) ELSE token[t]]
  PROVE  Kept /\ Used' = Used /\ \A t \in Used : t \in S => token'[t].revoked
<1>1. ASSUME NEW t \in Used
      PROVE  /\ token[t] \in Row /\ token'[t] \in Row
             /\ token'[t].next = token[t].next /\ token'[t].from = token[t].from
             /\ token[t].revoked => token'[t].revoked /\ token'[t] = token[t]
             /\ t \in S => token'[t].revoked
  BY UsedIs, DeadIs
<1>2. ASSUME NEW t \in Tokens \ Used PROVE token'[t] = None
  BY DEF Used
<1>3. Used' = Used
  BY <1>1, <1>2, UsedIs, NoneIsNothing DEF Used
<1>4. token' \in [Tokens -> Row \cup {None}]
  BY <1>1, <1>2
<1>5. ASSUME NEW t \in Used'
      PROVE  /\ token'[t].from # None => /\ token'[t].from \in Used' /\ token'[token'[t].from].revoked
                                         /\ token'[token'[t].from].next = t
             /\ token'[t].next # None => token'[t].revoked
  <2>1. PICK p : p = token[t].from
    OBVIOUS
  <2>2. t \in Used /\ token'[t].from = p /\ token'[t].next = token[t].next
    BY <1>1, <1>3, <2>1
  <2>3. p # None => p \in Used /\ token[p].revoked /\ token[p].next = t
    BY <2>1, <2>2 DEF Served, ChainsAreLines
  <2>4. p # None => p \in Used' /\ token'[p].revoked /\ token'[p].next = t
    BY <1>1, <1>3, <2>3
  <2>5. token[t].next # None => token[t].revoked
    BY <2>2 DEF Served, ChainsAreLines
  <2>6. token'[t].next # None => token'[t].revoked
    BY <1>1, <2>2, <2>5
  <2>7. QED
    BY <2>2, <2>4, <2>6
<1>6. QED
  BY <1>1, <1>3, <1>4, <1>5 DEF Kept, ChainsAreLines

LEMMA MintedKeeps ==
  ASSUME Served, NEW f \in Tokens \ Used, NEW e \in Employees,
         token' = [token EXCEPT ![f] = [emp |-> e, revoked |-> FALSE, next |-> None, from |-> None]]
  PROVE  Kept /\ Used' = Used \cup {f} /\ \A t \in Used : token'[t] = token[t]
<1>1. token'[f] \in Row /\ token'[f].from = None /\ token'[f].next = None
  BY DEF Served, Row
<1>2. \A t \in Tokens \ {f} : token'[t] = token[t]
  BY DEF Served
<1>3. Used' = Used \cup {f}
  BY <1>1, <1>2, NoneIsNothing DEF Used
<1>4. token' \in [Tokens -> Row \cup {None}]
  BY <1>1 DEF Served
<1>5. ASSUME NEW t \in Used'
      PROVE  /\ token'[t].from # None => /\ token'[t].from \in Used' /\ token'[token'[t].from].revoked
                                         /\ token'[token'[t].from].next = t
             /\ token'[t].next # None => token'[t].revoked
  BY <1>1, <1>2, <1>3, UsedIs DEF Served, ChainsAreLines
<1>6. QED
  BY <1>2, <1>3, <1>4, <1>5, UsedIs DEF Kept, ChainsAreLines

LEMMA RotatedKeeps ==
  ASSUME Served, NEW t \in Used, Live(t), NEW f \in Tokens \ Used,
         token' = [token EXCEPT
           ![f] = [emp |-> token[t].emp, revoked |-> FALSE, next |-> None, from |-> t],
           ![t] = Replaced(token[t], f)]
  PROVE  Kept /\ Used' = Used \cup {f} /\ Live(f)' /\ \A u \in Used \ {t} : token'[u] = token[u]
<1>1. t \in Tokens /\ f # t /\ token[t] \in Row /\ ~token[t].revoked
  BY UsedIs DEF Live, LiveAt
<1>2. /\ token'[f] \in Row /\ token'[f].from = t /\ token'[f].next = None /\ ~token'[f].revoked
  BY <1>1, RowFields DEF Served, Row
<1>3. /\ token'[t] \in Row /\ token'[t].revoked /\ token'[t].next = f
      /\ token'[t].from = token[t].from
  BY <1>1, ReplacedIs DEF Served
<1>4. \A u \in Tokens \ {f, t} : token'[u] = token[u]
  BY <1>1 DEF Served
<1>5. Used' = Used \cup {f}
  BY <1>1, <1>2, <1>3, <1>4, NoneIsNothing DEF Used
<1>6. token' \in [Tokens -> Row \cup {None}]
  BY <1>1, <1>2, <1>3, <1>4 DEF Served
<1>7. ASSUME NEW u \in Used'
      PROVE  /\ token'[u].from # None => /\ token'[u].from \in Used' /\ token'[token'[u].from].revoked
                                         /\ token'[token'[u].from].next = u
             /\ token'[u].next # None => token'[u].revoked
  <2>1. CASE u = f
    <3>1. token'[u].from = t /\ token'[u].next = None
      BY <1>2, <2>1
    <3>2. t \in Used' /\ token'[t].revoked /\ token'[t].next = u
      BY <1>3, <1>5, <2>1
    <3>3. QED
      BY <3>1, <3>2
  <2>2. CASE u # f
    <3>1. u \in Used /\ u # None /\ token'[u].from = token[u].from
      BY <1>3, <1>4, <1>5, <2>2, UsedIs, NoneIsNothing
    <3>2. PICK p : p = token[u].from
      OBVIOUS
    <3>3. p # None => p \in Used /\ token[p].revoked /\ token[p].next = u
      BY <3>1, <3>2 DEF Served, ChainsAreLines
    <3>4. p # None => p # t /\ p # f
      BY <1>1, <3>3
    <3>5. p # None => p \in Used' /\ token'[p].revoked /\ token'[p].next = u
      BY <1>4, <1>5, <3>3, <3>4, UsedIs
    <3>6. token[u].next # None => token[u].revoked
      BY <3>1 DEF Served, ChainsAreLines
    <3>7. token'[u].next # None => token'[u].revoked
      BY <1>3, <1>4, <2>2, <3>1, <3>6, UsedIs
    <3>8. QED
      BY <3>1, <3>2, <3>5, <3>7
  <2>3. QED
    BY <2>1, <2>2
<1>8. Live(f)'
  BY <1>2, NoneIsNothing DEF Live, LiveAt
<1>9. QED
  BY <1>1, <1>4, <1>5, <1>6, <1>7, <1>8, UsedIs DEF Kept, ChainsAreLines

-----------------------------------------------------------------------------
(* The requests at the server. *)

\* A step of one request: what it becomes goes on, and the others keep their locks.
LEMMA OneRequest ==
  ASSUME Bound, Kept, NEW x \in Txs, NEW y \in Tx \cup {None}, tx' = [tx EXCEPT ![x] = y],
         y # None => Progressing(x)',
         active' \subseteq Employees, lock' \in [Tokens -> Txs \cup {None}],
         \A u \in Txs \ {x}, t \in Used : lock[t] = u => lock'[t] = u /\ (Live(t) => Live(t)')
  PROVE  Served'
<1>1. tx' \in [Txs -> Tx \cup {None}] /\ \A u \in Txs \ {x} : tx'[u] = tx[u]
  BY DEF Bound, Served
<1>2. ASSUME NEW u \in Txs, tx'[u] # None PROVE Progressing(u)'
  <2>1. CASE u = x
    BY <1>2, <2>1 DEF Bound, Served
  <2>2. CASE u # x
    <3>1. tx'[u] = tx[u] /\ Progressing(u) /\ tx[u] \in Tx
      BY <1>1, <1>2, <2>2 DEF Bound, Served
    <3>2. Phased(tx[u])'
      BY <3>1 DEF Progressing, Phased
    <3>3. /\ tx'[u].hits \subseteq Used'
          /\ tx'[u].kind \in {"refresh", "logout"} => tx'[u].tok \in Used'
          /\ tx'[u].kind \notin {"refresh", "logout"} => tx'[u].emp # None
      BY <3>1 DEF Progressing, Kept
    <3>4. tx'[u].phase = "rotating" => lock'[tx'[u].tok] = u /\ Live(tx[u].tok)'
      <4>1. SUFFICES ASSUME tx[u].phase = "rotating"
                     PROVE  lock'[tx[u].tok] = u /\ Live(tx[u].tok)'
        BY <3>1
      <4>2. tx[u].kind = "refresh"
        <5>1. tx[u].kind \in Kinds
          BY <3>1 DEF Tx
        <5>2. QED
          BY <3>1, <4>1, <5>1 DEF Progressing, Phased, Kinds
      <4>3. PICK t \in Used : t = tx[u].tok
        BY <3>1, <4>2 DEF Progressing
      <4>4. lock[t] = u /\ Live(t)
        BY <3>1, <4>1, <4>3 DEF Progressing
      <4>5. lock'[t] = u /\ Live(t)'
        BY <2>2, <4>4
      <4>6. QED
        BY <3>1, <4>3, <4>5
    <3>5. QED
      BY <3>2, <3>3, <3>4 DEF Progressing
  <2>3. QED
    BY <2>1, <2>2
<1>3. QED
  BY <1>1, <1>2 DEF Served, Kept

LEMMA RowsStay == ASSUME Served, UNCHANGED token PROVE Kept /\ Used' = Used /\ \A t \in Used : Live(t)' = Live(t)
<1>1. Used' = Used
  BY DEF Used
<1>2. ChainsAreLines'
  BY <1>1 DEF Served, ChainsAreLines
<1>3. QED
  BY <1>1, <1>2 DEF Kept, Served, Live, LiveAt

\* The request is over: its rows are free, the others keep theirs.
LEMMA Freed ==
  ASSUME Bound, NEW x \in Txs, EndTx(x)
  PROVE  /\ lock' \in [Tokens -> Txs \cup {None}]
         /\ \A u \in Txs \ {x}, t \in Used : lock[t] = u => lock'[t] = u
         /\ tx' = [tx EXCEPT ![x] = None] /\ tx'[x] = None
         /\ \A u \in Txs \ {x} : tx'[u] = tx[u]
  BY UsedIs DEF Bound, Served, EndTx, Free

\* Nothing happens at the server.
LEMMA ServerStays == ASSUME Bound, UNCHANGED server PROVE Served'
<1>1. Kept
  BY RowsStay DEF Bound, server
<1>2. ASSUME NEW u \in Txs, tx'[u] # None PROVE Progressing(u)'
  <2>1. Progressing(u) /\ Used' = Used
    BY <1>2 DEF Bound, Served, server, Used
  <2>2. QED
    BY <2>1 DEF Progressing, Phased, Live, LiveAt, server
<1>3. QED
  BY <1>1, <1>2 DEF Bound, Served, Kept, server

-----------------------------------------------------------------------------
(* The handset. *)

LEMMA FlightFields ==
  ASSUME NEW w \in Flight
  PROVE  /\ w.phase \in {"load", "sent", "granted", "refused"}
         /\ w.session \in Session \cup {None} /\ w.tx \in Txs \cup {None}
         /\ w.fresh \in Tokens \cup {None}
  BY DEF Flight

\* How a flight and a form end.
Landed(w, p, f) == [w EXCEPT !.phase = p, !.fresh = f]

LEMMA LandedIs ==
  ASSUME NEW f \in Tokens \cup {None}
  PROVE  /\ \A w \in Flight, p \in {"granted", "refused"} :
              /\ Landed(w, p, f) \in Flight /\ Landed(w, p, f).phase = p
              /\ Landed(w, p, f).session = w.session /\ Landed(w, p, f).fresh = f
         /\ \A w \in Form :
              /\ Landed(w, "done", f) \in Form /\ Landed(w, "done", f).phase = "done"
              /\ Landed(w, "done", f).kind = w.kind /\ Landed(w, "done", f).fresh = f
  BY DEF Landed, Flight, Form

\* Nothing happens on the handset, and what it waits for is still in progress.
LEMMA HandsetStays ==
  ASSUME Bound, UNCHANGED handset, Used \subseteq Used',
         \A u \in Txs : tx[u] # None => tx'[u] # None /\ tx'[u].kind = tx[u].kind
  PROVE  Held'
<1>1. form # None => form.tx \in Txs
  BY DEF Bound, Held, Form
<1>2. QED
  BY <1>1 DEF Bound, Held, handset

\* The callers of a refresh that is over.
LEMMA Settled ==
  ASSUME Bound, NEW o, Settle(o)
  PROVE  call' \in [Calls -> Call \cup {None}]
<1>1. ASSUME NEW c \in Calls PROVE call'[c] \in Call \cup {None}
  <2>1. CASE call[c] # None /\ call[c].phase = "waiting"
    <3>1. call[c] \in Call
      BY <2>1 DEF Bound, Held
    <3>2. [call[c] EXCEPT !.phase = "refreshed"] \in Call
      BY <3>1 DEF Call
    <3>3. QED
      BY <2>1, <3>2 DEF Settle
  <2>2. CASE ~(call[c] # None /\ call[c].phase = "waiting")
    BY <2>2 DEF Settle, Bound, Held
  <2>3. QED
    BY <2>1, <2>2
<1>2. QED
  BY <1>1 DEF Settle

\* The answer to request x: whoever waits for it has it, with a token that was issued.
LEMMA Answered ==
  ASSUME Bound, NEW x \in Txs, NEW v \in {"fine", "reused", "gone"}, NEW f \in Tokens \cup {None},
         Answer(x, v, f), Used \subseteq Used', tx[x] # None,
         \A u \in Txs \ {x} : tx'[u] = tx[u],
         v = "fine" /\ tx[x].kind \in {"refresh", "login"} => f \in Used'
  PROVE  Held'
<1>1. store' = store /\ call' = call /\ user' = user
  BY DEF Answer
<1>2. /\ flight' \in Flight \cup {None}
      /\ flight' # None =>
           /\ flight'.phase # "load" => flight'.session # None
           /\ flight'.phase = "granted" => flight'.fresh \in Used'
           /\ flight'.phase = "sent" =>
                flight'.tx \in Txs /\ tx'[flight'.tx] # None /\ tx'[flight'.tx].kind = "refresh"
  <2>1. CASE FlightOf(x)
    <3>1. flight \in Flight /\ flight.session # None /\ tx[x].kind = "refresh"
      BY <2>1 DEF FlightOf, Bound, Held
    <3>2. PICK p \in {"granted", "refused"} : p = IF v = "fine" THEN "granted" ELSE "refused"
      OBVIOUS
    <3>3. flight' = Landed(flight, p, f)
      BY <2>1, <3>2 DEF Answer, Landed
    <3>4. /\ flight' \in Flight /\ flight'.phase = p
          /\ flight'.session = flight.session /\ flight'.fresh = f
      BY <3>1, <3>3, LandedIs
    <3>5. QED
      BY <3>1, <3>2, <3>4
  <2>2. CASE ~FlightOf(x)
    <3>1. flight' = flight
      BY <2>2 DEF Answer
    <3>2. flight # None /\ flight.phase = "sent" => flight.tx \in Txs \ {x}
      BY <2>2 DEF FlightOf, Bound, Held
    <3>3. QED
      BY <3>1, <3>2 DEF Bound, Held
  <2>3. QED
    BY <2>1, <2>2
<1>3. /\ form' \in Form \cup {None}
      /\ form' # None =>
           /\ form'.kind = "login" /\ form'.phase = "done" => form'.fresh \in Used'
           /\ form'.phase = "sent" => tx'[form'.tx] # None /\ tx'[form'.tx].kind = form'.kind
  <2>1. CASE FormOf(x)
    <3>1. form \in Form /\ tx[x].kind = form.kind
      BY <2>1 DEF FormOf, Bound, Held
    <3>2. CASE form.kind = "login" /\ v # "fine"
      BY <2>1, <3>2 DEF Answer
    <3>3. CASE ~(form.kind = "login" /\ v # "fine")
      <4>1. form' = Landed(form, "done", f)
        BY <2>1, <3>3 DEF Answer, Landed
      <4>2. form' \in Form /\ form'.phase = "done" /\ form'.kind = form.kind /\ form'.fresh = f
        BY <3>1, <4>1, LandedIs
      <4>3. QED
        BY <3>1, <3>3, <4>2
    <3>4. QED
      BY <3>2, <3>3
  <2>2. CASE ~FormOf(x)
    <3>1. form' = form
      BY <2>2 DEF Answer
    <3>2. form # None /\ form.phase = "sent" => form.tx \in Txs \ {x}
      BY <2>2 DEF FormOf, Bound, Held, Form
    <3>3. QED
      BY <3>1, <3>2 DEF Bound, Held
  <2>3. QED
    BY <2>1, <2>2
<1>4. QED
  BY <1>1, <1>2, <1>3 DEF Bound, Held

\* Request x ends without an answer, or nobody waits for it any more.
LEMMA Unanswered ==
  ASSUME Bound, NEW x \in Txs, NoAnswer(x), Used \subseteq Used',
         \A u \in Txs \ {x} : tx'[u] = tx[u]
  PROVE  Held'
<1>1. store' = store /\ user' = user
  BY DEF NoAnswer
<1>2. /\ flight' \in {flight, None} /\ (FlightOf(x) => flight' = None)
      /\ call' \in [Calls -> Call \cup {None}]
  BY Settled DEF NoAnswer, Bound, Held
<1>3. /\ form' \in Form \cup {None}
      /\ form' # None =>
           /\ form'.kind = "login" /\ form'.phase = "done" => form'.fresh \in Used'
           /\ form'.phase = "sent" => tx'[form'.tx] # None /\ tx'[form'.tx].kind = form'.kind
  <2>1. CASE FormOf(x)
    <3>1. form \in Form
      BY <2>1 DEF FormOf, Bound, Held
    <3>2. form.kind # "login" => form' = [form EXCEPT !.phase = "done"]
      BY <2>1 DEF NoAnswer
    <3>3. form.kind # "login" => form' \in Form /\ form'.kind = form.kind /\ form'.phase = "done"
      BY <3>1, <3>2 DEF Form
    <3>4. form.kind = "login" => form' = None
      BY <2>1 DEF NoAnswer
    <3>5. QED
      BY <3>3, <3>4
  <2>2. CASE ~FormOf(x)
    <3>1. form' = form
      BY <2>2 DEF NoAnswer
    <3>2. form # None /\ form.phase = "sent" => form.tx \in Txs \ {x}
      BY <2>2 DEF FormOf, Bound, Held, Form
    <3>3. QED
      BY <3>1, <3>2 DEF Bound, Held
  <2>3. QED
    BY <2>1, <2>2
<1>4. flight # None /\ flight.phase = "sent" /\ ~FlightOf(x) => flight.tx \in Txs \ {x}
  BY DEF FlightOf, Bound, Held
<1>5. QED
  BY <1>1, <1>2, <1>3, <1>4 DEF Bound, Held

-----------------------------------------------------------------------------
(* The steps of the server. *)

LEMMA PresentKeeps == ASSUME Bound, NEW x \in Txs, Present(x) PROVE Bound' /\ Kept
<1> DEFINE b == CASE token[tx[x].tok].revoked -> "reused"
                  [] ~token[tx[x].tok].revoked /\ age[tx[x].tok] = 2 -> "expired"
                  [] ~token[tx[x].tok].revoked /\ age[tx[x].tok] < 2
                       /\ token[tx[x].tok].emp \notin active -> "inactive"
                  [] OTHER -> "rotate"
           p == IF b = "rotate" THEN "rotating" ELSE "revoking"
           h == CASE b = "reused" -> {u \in ChainFrom(tx[x].tok) : Live(u)}
                  [] b = "inactive" -> LiveOf(token[tx[x].tok].emp)
                  [] OTHER -> {}
           v == CASE b = "reused" -> "reused"
                  [] b \in {"expired", "inactive"} -> "gone"
                  [] OTHER -> "fine"
<1>1. /\ tx[x] # None /\ tx[x].phase = "sent" /\ tx[x].kind = "refresh"
      /\ lock[tx[x].tok] = None /\ lock' = [lock EXCEPT ![tx[x].tok] = x]
      /\ UNCHANGED <<token, active, handset, world>>
  BY DEF Present
<1>2. tx[x] \in Tx /\ Progressing(x) /\ tx[x].tok \in Used /\ tx[x].tok \in Tokens
  BY <1>1, UsedIs DEF Bound, Served, Progressing
<1>3. Kept /\ Used' = Used /\ \A t \in Used : Live(t)' = Live(t)
  BY <1>1, RowsStay DEF Bound
<1>4. b \in {"reused", "expired", "inactive", "rotate"} /\ (b = "rotate" => ~token[tx[x].tok].revoked)
  BY <1>2 DEF Bound, Worldly
<1>5. ChainFrom(tx[x].tok) \subseteq Used /\ LiveOf(token[tx[x].tok].emp) \subseteq Used
  BY DEF ChainFrom, LiveOf
<1>6. tx' = [tx EXCEPT ![x] = Decided(tx[x], p, h, v)]
  BY <1>2 DEF Present, Decided, Bound, Served
<1>7. h \subseteq Used
  BY <1>5
<1>8. /\ p \in {"rotating", "revoking"} /\ v \in {"fine", "reused", "gone"}
      /\ p = "rotating" => ~token[tx[x].tok].revoked
      /\ p = "revoking" => v # "fine"
  BY <1>4
<1> HIDE DEF b, p, h, v
<1>9. PICK q \in {"rotating", "revoking"}, g \in SUBSET Used, o \in {"fine", "reused", "gone"} :
        /\ tx' = [tx EXCEPT ![x] = Decided(tx[x], q, g, o)]
        /\ q = "rotating" => ~token[tx[x].tok].revoked
        /\ q = "revoking" => o # "fine"
  BY <1>6, <1>7, <1>8
<1>10. PICK y : y = Decided(tx[x], q, g, o)
  OBVIOUS
<1>11. /\ y \in Tx /\ y.kind = "refresh" /\ y.phase = q /\ y.tok = tx[x].tok
       /\ y.hits = g /\ y.verdict = o
  BY <1>1, <1>2, <1>10, UsedIs, DecidedIs
<1>12. tx' = [tx EXCEPT ![x] = y] /\ tx'[x] = y /\ \A u \in Txs \ {x} : tx'[u] = tx[u]
  BY <1>9, <1>10 DEF Bound, Served
<1>13. lock' \in [Tokens -> Txs \cup {None}] /\ lock'[tx[x].tok] = x
  BY <1>1, <1>2 DEF Bound, Served
<1>14. Progressing(x)'
  <2>1. q = "rotating" => Live(tx[x].tok)
    BY <1>2, <1>9, UsedIs DEF Live, LiveAt, Used
  <2>2. Live(tx[x].tok)' = Live(tx[x].tok')
    BY <1>1, <1>11, <1>12 DEF Live, LiveAt
  <2>3. q = "rotating" => Live(tx[x].tok)'
    BY <1>1, <1>11, <1>12, <2>1 DEF Live, LiveAt
  <2>4. Phased(tx[x])'
    BY <1>9, <1>11, <1>12 DEF Phased
  <2>5. QED
    BY <1>2, <1>3, <1>11, <1>12, <1>13, <2>3, <2>4 DEF Progressing
<1>15. \A u \in Txs \ {x}, t \in Used : lock[t] = u => lock'[t] = u /\ (Live(t) => Live(t)')
  BY <1>1, <1>2, <1>3, NoneIsNothing, UsedIs DEF Bound, Served
<1>16. Served'
  BY <1>1, <1>3, <1>11, <1>12, <1>13, <1>14, <1>15, OneRequest DEF Bound, Served
<1>17. Held'
  BY <1>1, <1>3, <1>11, <1>12, HandsetStays, NoneIsNothing
<1>18. Worldly'
  BY <1>1 DEF Bound, Worldly, world
<1>19. QED
  BY <1>3, <1>16, <1>17, <1>18 DEF Bound

\* A request that ends, on rows it may have changed where no other request holds them.
LEMMA EndServed ==
  ASSUME Bound, Kept, NEW x \in Txs, EndTx(x), active' \subseteq Employees,
         \A u \in Txs \ {x}, t \in Used : lock[t] = u /\ Live(t) => Live(t)'
  PROVE  Served'
<1>1. /\ lock' \in [Tokens -> Txs \cup {None}] /\ tx' = [tx EXCEPT ![x] = None]
      /\ \A u \in Txs \ {x}, t \in Used : lock[t] = u => lock'[t] = u
  BY Freed
<1>2. \A u \in Txs \ {x}, t \in Used : lock[t] = u => lock'[t] = u /\ (Live(t) => Live(t)')
  BY <1>1
<1>3. PICK y \in Tx \cup {None} : y = None
  OBVIOUS
<1>4. QED
  BY <1>1, <1>2, <1>3, OneRequest

LEMMA RotateKeeps == ASSUME Bound, NEW x \in Txs, Rotate(x) PROVE Bound' /\ Kept
<1>1. tx[x] # None /\ tx[x].phase = "rotating" /\ EndTx(x) /\ UNCHANGED <<active, world>>
  BY DEF Rotate
<1>2. tx[x] \in Tx /\ tx[x].kind \in Kinds /\ Progressing(x)
  BY <1>1 DEF Bound, Served, Tx
<1>3. tx[x].kind = "refresh"
  BY <1>1, <1>2 DEF Progressing, Phased, Kinds
<1>4. tx[x].tok \in Used /\ lock[tx[x].tok] = x /\ Live(tx[x].tok)
  BY <1>1, <1>2, <1>3 DEF Progressing
<1>5. Worldly' /\ active' \subseteq Employees /\ \A u \in Txs \ {x} : tx'[u] = tx[u]
  BY <1>1, Freed DEF Bound, Worldly, Served, world
<1>6. CASE \E f \in Tokens :
             /\ NextToken(f)
             /\ token' = [token EXCEPT
                  ![f] = [emp |-> token[tx[x].tok].emp, revoked |-> FALSE, next |-> None, from |-> tx[x].tok],
                  ![tx[x].tok].revoked = TRUE, ![tx[x].tok].next = f]
             /\ Answer(x, "fine", f)
  <2>1. PICK f \in Tokens :
             /\ NextToken(f)
             /\ token' = [token EXCEPT
                  ![f] = [emp |-> token[tx[x].tok].emp, revoked |-> FALSE, next |-> None, from |-> tx[x].tok],
                  ![tx[x].tok].revoked = TRUE, ![tx[x].tok].next = f]
             /\ Answer(x, "fine", f)
    BY <1>6
  <2>2. f \in Tokens \ Used /\ f # tx[x].tok
    BY <1>4, <2>1 DEF NextToken
  <2>3. PICK t \in Used : t = tx[x].tok
    BY <1>4
  <2>4. token' = [token EXCEPT
            ![f] = [emp |-> token[t].emp, revoked |-> FALSE, next |-> None, from |-> t],
            ![t] = Replaced(token[t], f)]
    BY <2>1, <2>2, <2>3, UsedIs DEF Replaced, Bound, Served
  <2>5. Kept /\ Used' = Used \cup {f} /\ \A u \in Used \ {t} : token'[u] = token[u]
    BY <1>4, <2>2, <2>3, <2>4, RotatedKeeps DEF Bound
  <2>6. \A u \in Txs \ {x}, s \in Used : lock[s] = u /\ Live(s) => Live(s)'
    BY <1>4, <2>3, <2>5 DEF Live, LiveAt
  <2>7. Served'
    BY <1>1, <1>5, <2>5, <2>6, EndServed
  <2>8. Held'
    BY <1>1, <1>5, <2>1, <2>5, Answered
  <2>9. QED
    BY <1>5, <2>5, <2>7, <2>8 DEF Bound
<1>7. CASE NoAnswer(x) /\ UNCHANGED token
  <2>1. Kept /\ Used' = Used /\ \A t \in Used : Live(t)' = Live(t)
    BY <1>7, RowsStay DEF Bound
  <2>2. Served'
    BY <1>1, <1>5, <2>1, EndServed
  <2>3. Held'
    BY <1>5, <1>7, <2>1, Unanswered
  <2>4. QED
    BY <1>5, <2>1, <2>2, <2>3 DEF Bound
<1>8. QED
  BY <1>6, <1>7 DEF Rotate

LEMMA MintKeeps == ASSUME Bound, NEW x \in Txs, Mint(x) PROVE Bound' /\ Kept
<1>1. tx[x] # None /\ tx[x].phase = "minting" /\ EndTx(x) /\ UNCHANGED <<active, world>>
  BY DEF Mint
<1>2. tx[x] \in Tx /\ tx[x].kind \in Kinds /\ tx[x].emp \in Employees \cup {None} /\ Progressing(x)
  BY <1>1 DEF Bound, Served, Tx
<1>3. tx[x].kind = "login" /\ tx[x].emp \in Employees
  BY <1>1, <1>2 DEF Progressing, Phased, Kinds
<1>4. Worldly' /\ active' \subseteq Employees /\ \A u \in Txs \ {x} : tx'[u] = tx[u]
  BY <1>1, Freed DEF Bound, Worldly, Served, world
<1>5. CASE \E f \in Tokens :
             /\ NextToken(f)
             /\ token' = [token EXCEPT
                  ![f] = [emp |-> tx[x].emp, revoked |-> FALSE, next |-> None, from |-> None]]
             /\ Answer(x, "fine", f)
  <2>1. PICK f \in Tokens :
             /\ NextToken(f)
             /\ token' = [token EXCEPT
                  ![f] = [emp |-> tx[x].emp, revoked |-> FALSE, next |-> None, from |-> None]]
             /\ Answer(x, "fine", f)
    BY <1>5
  <2>2. f \in Tokens \ Used
    BY <2>1 DEF NextToken
  <2>3. PICK e \in Employees : e = tx[x].emp
    BY <1>3
  <2>4. token' = [token EXCEPT ![f] = [emp |-> e, revoked |-> FALSE, next |-> None, from |-> None]]
    BY <2>1, <2>3
  <2>5. Kept /\ Used' = Used \cup {f} /\ \A t \in Used : token'[t] = token[t]
    BY <2>2, <2>4, MintedKeeps DEF Bound
  <2>6. \A u \in Txs \ {x}, s \in Used : lock[s] = u /\ Live(s) => Live(s)'
    BY <2>5 DEF Live, LiveAt
  <2>7. Served'
    BY <1>1, <1>4, <2>5, <2>6, EndServed
  <2>8. Held'
    BY <1>1, <1>4, <2>1, <2>5, Answered
  <2>9. QED
    BY <1>4, <2>5, <2>7, <2>8 DEF Bound
<1>6. CASE NoAnswer(x) /\ UNCHANGED token
  <2>1. Kept /\ Used' = Used /\ \A t \in Used : Live(t)' = Live(t)
    BY <1>6, RowsStay DEF Bound
  <2>2. Served'
    BY <1>1, <1>4, <2>1, EndServed
  <2>3. Held'
    BY <1>4, <1>6, <2>1, Unanswered
  <2>4. QED
    BY <1>4, <2>1, <2>2, <2>3 DEF Bound
<1>7. QED
  BY <1>5, <1>6 DEF Mint

LEMMA RevokeKeeps == ASSUME Bound, NEW x \in Txs, Revoke(x) PROVE Bound' /\ Kept
<1>1. /\ tx[x] # None /\ tx[x].phase = "revoking" /\ \A t \in tx[x].hits : lock[t] \in {None, x}
      /\ EndTx(x) /\ Answer(x, tx[x].verdict, None) /\ UNCHANGED world
  BY DEF Revoke
<1>2. /\ tx[x] \in Tx /\ tx[x].kind \in Kinds /\ tx[x].verdict \in {"fine", "reused", "gone"}
      /\ Progressing(x)
  BY <1>1 DEF Bound, Served, Tx
<1>3. tx[x].verdict = "fine" => tx[x].kind \notin {"refresh", "login"}
  BY <1>1, <1>2 DEF Progressing, Phased
<1>4. PICK S \in SUBSET Used : S = tx[x].hits
  BY <1>2 DEF Progressing
<1>5. token' = [t \in Tokens |-> IF t \in S THEN Dead(token[t]) ELSE token[t]]
  BY <1>4 DEF Revoke, Dead
<1>6. Kept /\ Used' = Used
  BY <1>4, <1>5, RevokedKeeps DEF Bound
<1>7. \A u \in Txs \ {x}, s \in Used : lock[s] = u /\ Live(s) => Live(s)'
  <2>1. \A s \in Used \ S : token'[s] = token[s]
    BY <1>5, UsedIs
  <2>2. ASSUME NEW u \in Txs \ {x}, NEW s \in Used, lock[s] = u PROVE s \notin S
    BY <1>1, <1>4, <2>2, NoneIsNothing
  <2>3. QED
    BY <2>1, <2>2 DEF Live, LiveAt
<1>8. active' \subseteq Employees
  BY DEF Revoke, Bound, Served
<1>9. Served'
  BY <1>1, <1>6, <1>7, <1>8, EndServed
<1>10. \A u \in Txs \ {x} : tx'[u] = tx[u]
  BY <1>1, Freed
<1>11. Held'
  BY <1>1, <1>2, <1>3, <1>6, <1>10, Answered
<1>12. Worldly'
  BY <1>1 DEF Bound, Worldly, world
<1>13. QED
  BY <1>6, <1>9, <1>11, <1>12 DEF Bound

LEMMA RevokeOneKeeps == ASSUME Bound, NEW x \in Txs, RevokeOne(x) PROVE Bound' /\ Kept
<1>1. /\ tx[x] # None /\ tx[x].kind = "logout" /\ lock[tx[x].tok] = None
      /\ token' = [token EXCEPT ![tx[x].tok].revoked = TRUE]
      /\ EndTx(x) /\ Answer(x, "fine", None) /\ UNCHANGED <<active, world>>
  BY DEF RevokeOne
<1>2. tx[x] \in Tx /\ Progressing(x)
  BY <1>1 DEF Bound, Served
<1>3. PICK t \in Used : t = tx[x].tok
  BY <1>1, <1>2 DEF Progressing
<1>4. PICK S \in SUBSET Used : S = {t}
  OBVIOUS
<1>5. token' = [u \in Tokens |-> IF u \in S THEN Dead(token[u]) ELSE token[u]]
  BY <1>1, <1>3, <1>4, UsedIs DEF Dead, Bound, Served
<1>6. Kept /\ Used' = Used
  BY <1>4, <1>5, RevokedKeeps DEF Bound
<1>7. \A u \in Txs \ {x}, s \in Used : lock[s] = u /\ Live(s) => Live(s)'
  <2>1. \A s \in Used \ S : token'[s] = token[s]
    BY <1>5, UsedIs
  <2>2. ASSUME NEW u \in Txs \ {x}, NEW s \in Used, lock[s] = u PROVE s \notin S
    BY <1>1, <1>3, <1>4, <2>2, NoneIsNothing
  <2>3. QED
    BY <2>1, <2>2 DEF Live, LiveAt
<1>8. /\ active' \subseteq Employees /\ Worldly' /\ \A u \in Txs \ {x} : tx'[u] = tx[u]
  BY <1>1, Freed DEF Bound, Served, Worldly, world
<1>9. Served'
  BY <1>1, <1>6, <1>7, <1>8, EndServed
<1>10. Held'
  BY <1>1, <1>6, <1>8, Answered
<1>11. QED
  BY <1>6, <1>8, <1>9, <1>10 DEF Bound

LEMMA VerifyKeeps == ASSUME Bound, NEW x \in Txs, Verify(x) PROVE Bound' /\ Kept
<1>1. /\ tx[x] # None /\ tx[x].kind = "login" /\ tx[x].phase = "sent"
      /\ UNCHANGED <<token, active, world>>
  BY DEF Verify
<1>2. tx[x] \in Tx /\ Progressing(x)
  BY <1>1 DEF Bound, Served
<1>3. /\ Kept /\ Used' = Used /\ \A t \in Used : Live(t)' = Live(t)
      /\ active' \subseteq Employees /\ Worldly'
  BY <1>1, RowsStay DEF Bound, Served, Worldly, world
<1>4. CASE tx' = [tx EXCEPT ![x].phase = "minting"] /\ UNCHANGED <<lock, handset>>
  <2>1. PICK y : y = [tx[x] EXCEPT !.phase = "minting"]
    OBVIOUS
  <2>2. /\ y \in Tx /\ y.kind = "login" /\ y.phase = "minting" /\ y.hits = tx[x].hits
        /\ y.emp = tx[x].emp
    BY <1>1, <1>2, <2>1 DEF Tx
  <2>3. tx' = [tx EXCEPT ![x] = y] /\ tx'[x] = y /\ \A u \in Txs \ {x} : tx'[u] = tx[u]
    BY <1>4, <2>1 DEF Bound, Served
  <2>4. Progressing(x)'
    BY <1>1, <1>2, <1>3, <2>2, <2>3 DEF Progressing, Phased
  <2>5. /\ lock' \in [Tokens -> Txs \cup {None}]
        /\ \A u \in Txs \ {x}, t \in Used : lock[t] = u => lock'[t] = u /\ (Live(t) => Live(t)')
    BY <1>3, <1>4 DEF Bound, Served
  <2>6. Served'
    BY <1>3, <2>2, <2>3, <2>4, <2>5, OneRequest
  <2>7. Held'
    BY <1>1, <1>3, <1>4, <2>2, <2>3, HandsetStays, NoneIsNothing
  <2>8. QED
    BY <1>3, <2>6, <2>7 DEF Bound
<1>5. CASE EndTx(x) /\ Answer(x, "gone", None)
  <2>1. Served'
    BY <1>3, <1>5, EndServed
  <2>2. Held'
    BY <1>1, <1>3, <1>5, Freed, Answered
  <2>3. QED
    BY <1>3, <2>1, <2>2 DEF Bound
<1>6. QED
  BY <1>4, <1>5 DEF Verify

LEMMA AbortKeeps == ASSUME Bound, NEW x \in Txs, Abort(x) PROVE Bound' /\ Kept
<1>1. EndTx(x) /\ NoAnswer(x) /\ UNCHANGED <<token, active, world>>
  BY DEF Abort
<1>2. /\ Kept /\ Used' = Used /\ \A t \in Used : Live(t)' = Live(t)
      /\ active' \subseteq Employees /\ Worldly'
  BY <1>1, RowsStay DEF Bound, Served, Worldly, world
<1>3. Served'
  BY <1>1, <1>2, EndServed
<1>4. Held'
  BY <1>1, <1>2, Freed, Unanswered
<1>5. QED
  BY <1>2, <1>3, <1>4 DEF Bound

\* A request that is new in its slot.
LEMMA Sent ==
  ASSUME Bound, NEW x \in Txs, tx[x] = None, NEW y \in Tx, tx' = [tx EXCEPT ![x] = y],
         Phased(y), y.phase # "rotating", y.hits \subseteq Used,
         y.kind \in {"refresh", "logout"} => y.tok \in Used,
         y.kind \notin {"refresh", "logout"} => y.emp # None,
         UNCHANGED <<token, active, lock>>
  PROVE  /\ Served' /\ Kept /\ Used' = Used
         /\ tx'[x] = y /\ \A u \in Txs \ {x} : tx'[u] = tx[u]
<1>1. Kept /\ Used' = Used /\ \A t \in Used : Live(t)' = Live(t)
  BY RowsStay DEF Bound
<1>2. tx'[x] = y /\ \A u \in Txs \ {x} : tx'[u] = tx[u]
  BY DEF Bound, Served
<1>3. Phased(tx[x])'
  BY <1>2 DEF Phased
<1>4. Progressing(x)'
  BY <1>1, <1>2, <1>3 DEF Progressing
<1>5. /\ active' \subseteq Employees /\ lock' \in [Tokens -> Txs \cup {None}]
      /\ \A u \in Txs \ {x}, t \in Used : lock[t] = u => lock'[t] = u /\ (Live(t) => Live(t)')
  BY <1>1 DEF Bound, Served
<1>6. Served'
  BY <1>1, <1>4, <1>5, OneRequest
<1>7. QED
  BY <1>1, <1>2, <1>6

\* What the handset sends.
LEMMA RequestIs ==
  ASSUME NEW k \in {"refresh", "login", "logout"}, NEW o \in Tokens \cup {None},
         NEW e \in Employees \cup {None}
  PROVE  /\ Request(k, o, e) \in Tx /\ Phased(Request(k, o, e))
         /\ Request(k, o, e).kind = k /\ Request(k, o, e).phase = "sent"
         /\ Request(k, o, e).tok = o /\ Request(k, o, e).emp = e /\ Request(k, o, e).hits = {}
  BY DEF Request, Tx, Kinds, Phased

LEMMA OfficeKeeps ==
  ASSUME Bound, NEW x \in Txs, NEW e \in Employees, NEW k \in Office, OfficeActs(x, e, k)
  PROVE  Bound' /\ Kept
<1>1. /\ tx[x] = None /\ Trouble(TRUE) /\ UNCHANGED <<token, active, lock, handset, age>>
      /\ tx' = [tx EXCEPT ![x] = [Request(k, None, e) EXCEPT !.phase = "revoking", !.hits = LiveOf(e)]]
  BY DEF OfficeActs
<1>2. k \in {"deactivate", "password"} /\ k \in Kinds
  BY SessionsAssumption DEF Kinds
<1>3. PICK H \in SUBSET Used : H = LiveOf(e)
  BY DEF LiveOf
<1>4. PICK y : y = [Request(k, None, e) EXCEPT !.phase = "revoking", !.hits = LiveOf(e)]
  OBVIOUS
<1>5. y = [kind |-> k, phase |-> "revoking", tok |-> None, emp |-> e, hits |-> H, verdict |-> "fine"]
  BY <1>3, <1>4 DEF Request
<1>6. /\ y \in Tx /\ y.kind = k /\ y.phase = "revoking" /\ y.emp = e /\ y.hits = H
  BY <1>2, <1>5, UsedIs DEF Tx
<1>7. Phased(y)
  BY <1>2, <1>6 DEF Phased
<1>8. /\ Served' /\ Kept /\ Used' = Used /\ \A u \in Txs \ {x} : tx'[u] = tx[u]
  BY <1>1, <1>2, <1>4, <1>6, <1>7, NoneIsNothing, Sent
<1>9. Held'
  BY <1>1, <1>8, HandsetStays
<1>10. Worldly'
  BY <1>1, SessionsAssumption DEF Trouble, Bound, Worldly
<1>11. QED
  BY <1>8, <1>9, <1>10 DEF Bound

-----------------------------------------------------------------------------
(* The steps of the handset. *)

LEMMA CallFields ==
  ASSUME NEW w \in Call
  PROVE  /\ w.phase \in {"sent", "denied", "waiting", "refreshed", "again"} /\ w.tok \in Tokens \cup {None}
         /\ [w EXCEPT !.phase = "denied"] \in Call /\ [w EXCEPT !.phase = "waiting"] \in Call
  BY DEF Call

\* A step of the handset alone, that sends nothing.
LEMMA HandsetMoves ==
  ASSUME Bound, UNCHANGED server, Worldly',
         store' \in Session \cup {None}, store' # None => store'.tok \in Used,
         call' \in [Calls -> Call \cup {None}],
         user' \in Employees \cup {None},
         flight' \in Flight, flight' = flight \/ flight'.phase = "load",
         form' \in {form, None}
  PROVE  Bound' /\ Kept
<1>1. Served' /\ Kept /\ Used' = Used /\ tx' = tx
  BY ServerStays, RowsStay DEF Bound, server
<1>2. Held'
  BY <1>1 DEF Bound, Held
<1>3. QED
  BY <1>1, <1>2 DEF Bound

\* The same, with no flight any more, or the one there was.
LEMMA HandsetEnds ==
  ASSUME Bound, UNCHANGED server, Worldly',
         store' \in Session \cup {None}, store' # None => store'.tok \in Used,
         call' \in [Calls -> Call \cup {None}],
         user' \in Employees \cup {None},
         flight' \in {flight, None}, form' \in {form, None}
  PROVE  Bound' /\ Kept
<1>1. Served' /\ Kept /\ Used' = Used /\ tx' = tx
  BY ServerStays, RowsStay DEF Bound, server
<1>2. Held'
  BY <1>1 DEF Bound, Held
<1>3. QED
  BY <1>1, <1>2 DEF Bound

LEMMA StoreIs ==
  ASSUME Bound
  PROVE  /\ store \in Session \cup {None}
         /\ store # None => store \in Session /\ store.tok \in Used /\ store.tok \in Tokens
         /\ store # None => store.actor \in Employees
         /\ call \in [Calls -> Call \cup {None}] /\ user \in Employees \cup {None} /\ Worldly
<1>1. store \in Session \cup {None} /\ (store # None => store.tok \in Used)
  BY DEF Bound, Held
<1>2. store # None => store \in Session
  BY <1>1
<1>3. \A w \in Session : w.tok \in Tokens /\ w.actor \in Employees
  BY DEF Session
<1>4. QED
  BY <1>1, <1>2, <1>3 DEF Bound, Held

LEMMA CallsKeep ==
  ASSUME Bound, NEW c \in Calls, Do(c) \/ Reply(c) \/ RefreshOnce(c) \/ Retry(c)
  PROVE  Bound' /\ Kept
<1>1. UNCHANGED <<server, store, form, user, world>>
  BY DEF Do, Reply, RefreshOnce, Retry
<1>2. Worldly'
  BY <1>1 DEF Bound, Worldly, world
<1>3. call[c] # None => call[c] \in Call
  BY StoreIs
<1>4. call' \in [Calls -> Call \cup {None}]
  <2>1. CASE Do(c)
    <3>1. [phase |-> "sent", tok |-> store.tok] \in Call
      BY <2>1, StoreIs DEF Do, Call
    <3>2. QED
      BY <2>1, <3>1, StoreIs DEF Do
  <2>2. CASE Reply(c)
    <3>1. call[c] \in Call
      BY <1>3, <2>2 DEF Reply
    <3>2. PICK y \in {None, [call[c] EXCEPT !.phase = "denied"]} : call' = [call EXCEPT ![c] = y]
      BY <2>2 DEF Reply
    <3>3. y \in Call \cup {None}
      BY <3>1, <3>2, CallFields
    <3>4. QED
      BY <3>2, <3>3, StoreIs
  <2>3. CASE RefreshOnce(c)
    <3>1. call[c] \in Call /\ call' = [call EXCEPT ![c].phase = "waiting"]
      BY <1>3, <2>3 DEF RefreshOnce
    <3>2. QED
      BY <3>1, CallFields, StoreIs
  <2>4. CASE Retry(c)
    <3>1. PICK o \in Tokens \cup {None} : call' = [call EXCEPT ![c] = [phase |-> "again", tok |-> o]]
      BY <2>4, StoreIs DEF Retry
    <3>2. [phase |-> "again", tok |-> o] \in Call
      BY DEF Call
    <3>3. QED
      BY <3>1, <3>2, StoreIs
  <2>5. QED
    BY <2>1, <2>2, <2>3, <2>4
<1>5. flight' = flight \/ flight' = [phase |-> "load", session |-> None, tx |-> None, fresh |-> None]
  BY DEF Do, Reply, RefreshOnce, Retry
<1>6. CASE flight' = flight
  BY <1>1, <1>2, <1>4, <1>6, StoreIs, HandsetEnds
<1>7. CASE flight' = [phase |-> "load", session |-> None, tx |-> None, fresh |-> None]
  <2>1. flight' \in Flight /\ flight'.phase = "load"
    BY <1>7 DEF Flight
  <2>2. QED
    BY <1>1, <1>2, <1>4, <2>1, StoreIs, HandsetMoves
<1>8. QED
  BY <1>5, <1>6, <1>7

LEMMA LoadKeeps == ASSUME Bound, NEW x \in Txs, Load(x) PROVE Bound' /\ Kept
<1>1. /\ flight # None /\ flight.phase = "load" /\ flight \in Flight
      /\ UNCHANGED <<token, active, lock, store, form, user, world>>
  BY DEF Load, Bound, Held
<1>2. Worldly'
  BY <1>1 DEF Bound, Worldly, world
<1>3. CASE flight' = None /\ Settle("logged-out") /\ UNCHANGED tx
  <2>1. call' \in [Calls -> Call \cup {None}]
    BY <1>3, Settled
  <2>2. QED
    BY <1>1, <1>2, <1>3, <2>1, StoreIs, HandsetEnds DEF server
<1>4. CASE /\ store # None /\ tx[x] = None
           /\ tx' = [tx EXCEPT ![x] = Request("refresh", store.tok, None)]
           /\ flight' = [flight EXCEPT !.phase = "sent", !.session = store, !.tx = x]
           /\ UNCHANGED call
  <2>1. PICK y : y = Request("refresh", store.tok, None)
    OBVIOUS
  <2>2. store.tok \in Used /\ store.tok \in Tokens
    BY <1>4, StoreIs
  <2>3. /\ y \in Tx /\ Phased(y) /\ y.kind = "refresh" /\ y.phase = "sent"
        /\ y.tok = store.tok /\ y.hits = {}
    BY <2>1, <2>2, RequestIs
  <2>4. /\ Served' /\ Kept /\ Used' = Used /\ tx'[x] = y /\ \A u \in Txs \ {x} : tx'[u] = tx[u]
    BY <1>1, <1>4, <2>1, <2>2, <2>3, Sent
  <2>5. /\ Served' /\ Kept /\ Used' = Used
        /\ tx'[x] # None /\ tx'[x].kind = "refresh" /\ \A u \in Txs \ {x} : tx'[u] = tx[u]
    BY <2>3, <2>4, NoneIsNothing
  <2>6. PICK s \in Session : s = store
    BY <1>4, StoreIs
  <2>7. flight' = [flight EXCEPT !.phase = "sent", !.session = s, !.tx = x]
    BY <1>4, <2>6
  <2>8. /\ flight' \in Flight /\ flight'.phase = "sent" /\ flight'.session = s /\ flight'.tx = x
    BY <1>1, <2>7 DEF Flight
  <2>9. form # None /\ form.phase = "sent" => form.tx \in Txs \ {x}
    BY <1>4 DEF Bound, Held, Form
  <2>10. Held'
    BY <1>1, <1>4, <2>5, <2>8, <2>9, NoneIsNothing DEF Bound, Held
  <2>11. QED
    BY <1>2, <2>5, <2>10 DEF Bound
<1>5. QED
  BY <1>3, <1>4 DEF Load

LEMMA RefreshEnds == ASSUME Bound, SaveSession \/ ClearSession PROVE Bound' /\ Kept
<1>1. flight' = None /\ UNCHANGED <<server, form, user, world>>
  BY DEF SaveSession, ClearSession
<1>2. call' \in [Calls -> Call \cup {None}] /\ Worldly'
  BY <1>1, Settled DEF SaveSession, ClearSession, Bound, Worldly, world
<1>3. CASE SaveSession
  <2>1. flight \in Flight /\ flight.session # None /\ flight.fresh \in Used
    BY <1>3 DEF SaveSession, Bound, Held
  <2>2. flight.session \in Session /\ flight.fresh \in Tokens
    BY <2>1, FlightFields, UsedIs
  <2>3. store' = [flight.session EXCEPT !.tok = flight.fresh]
    BY <1>3 DEF SaveSession
  <2>4. store' \in Session /\ store'.tok = flight.fresh
    BY <2>2, <2>3 DEF Session
  <2>5. QED
    BY <1>1, <1>2, <2>1, <2>4, StoreIs, HandsetEnds
<1>4. CASE ClearSession
  <2>1. store' = None
    BY <1>4 DEF ClearSession
  <2>2. QED
    BY <1>1, <1>2, <2>1, StoreIs, HandsetEnds
<1>5. QED
  BY <1>3, <1>4

\* The user signs in or out: a form of his, and a request it waits for.
LEMMA Formed ==
  ASSUME Bound, NEW x \in Txs, NEW y \in Tx, tx' = [tx EXCEPT ![x] = y], tx[x] = None,
         Phased(y), y.phase # "rotating", y.hits \subseteq Used, y.kind \in {"login", "logout"},
         y.kind = "logout" => y.tok \in Used, y.kind = "login" => y.emp # None,
         form' \in Form, form'.kind = y.kind, form'.phase = "sent", form'.tx = x,
         UNCHANGED <<token, active, lock, store, flight, call, user>>
  PROVE  Served' /\ Held' /\ Kept
<1>1. /\ Served' /\ Kept /\ Used' = Used
      /\ tx'[x] = y /\ \A u \in Txs \ {x} : tx'[u] = tx[u]
  BY Sent
<1>2. flight # None /\ flight.phase = "sent" => flight.tx \in Txs \ {x}
  BY DEF Bound, Held
<1>3. tx'[x] # None /\ tx'[x].kind = form'.kind
  BY <1>1, NoneIsNothing
<1>4. Held'
  BY <1>1, <1>2, <1>3 DEF Bound, Held
<1>5. QED
  BY <1>1, <1>4

LEMMA TroubleIs ==
  ASSUME Bound, Trouble(TRUE) \/ UNCHANGED <<troubles, disturbed>>
  PROVE  troubles' \in 0 .. MaxTrouble /\ disturbed' \in BOOLEAN
<1>1. troubles \in 0 .. MaxTrouble /\ disturbed \in BOOLEAN
  BY DEF Bound, Worldly
<1>2. CASE Trouble(TRUE)
  <2>1. troubles < MaxTrouble /\ troubles' = troubles + 1 /\ disturbed' = TRUE
    BY <1>2 DEF Trouble
  <2>2. QED
    BY <1>1, <2>1, SessionsAssumption
<1>3. CASE UNCHANGED <<troubles, disturbed>>
  BY <1>1, <1>3
<1>4. QED
  BY <1>2, <1>3

LEMMA LoginKeeps ==
  ASSUME Bound, NEW x \in Txs, NEW e \in Employees, Login(x, e) PROVE Bound' /\ Kept
<1>1. /\ tx[x] = None /\ tx' = [tx EXCEPT ![x] = Request("login", None, e)]
      /\ form' = [kind |-> "login", phase |-> "sent", emp |-> e, tx |-> x, fresh |-> None]
      /\ UNCHANGED <<token, active, lock, store, flight, call, user, world>>
  BY DEF Login
<1>2. PICK y : y = Request("login", None, e)
  OBVIOUS
<1>3. /\ y \in Tx /\ Phased(y) /\ y.kind = "login" /\ y.phase = "sent" /\ y.emp = e /\ y.hits = {}
  BY <1>2, RequestIs
<1>4. form' \in Form /\ form'.kind = "login" /\ form'.phase = "sent" /\ form'.tx = x
  BY <1>1 DEF Form
<1>5. Served' /\ Held' /\ Kept
  BY <1>1, <1>2, <1>3, <1>4, NoneIsNothing, Formed
<1>6. QED
  BY <1>1, <1>5 DEF Bound, Worldly, world

LEMMA LogoutKeeps == ASSUME Bound, NEW x \in Txs, Logout(x) PROVE Bound' /\ Kept
<1>1. user # None /\ UNCHANGED <<token, active, lock, store, flight, call, user, age>>
  BY DEF Logout
<1>2. user \in Employees
  BY <1>1, StoreIs
<1>3. Worldly'
  <2>1. Trouble(TRUE) \/ UNCHANGED <<troubles, disturbed>>
    BY DEF Logout
  <2>2. QED
    BY <1>1, <2>1, TroubleIs DEF Bound, Worldly
<1>4. CASE /\ store # None /\ tx[x] = None
           /\ tx' = [tx EXCEPT ![x] = Request("logout", store.tok, None)]
           /\ form' = [kind |-> "logout", phase |-> "sent", emp |-> user, tx |-> x, fresh |-> None]
  <2>1. PICK y : y = Request("logout", store.tok, None)
    OBVIOUS
  <2>2. store.tok \in Used /\ store.tok \in Tokens
    BY <1>4, StoreIs
  <2>3. /\ y \in Tx /\ Phased(y) /\ y.kind = "logout" /\ y.phase = "sent" /\ y.hits = {}
        /\ y.tok = store.tok
    BY <2>1, <2>2, RequestIs
  <2>4. form' \in Form /\ form'.kind = "logout" /\ form'.phase = "sent" /\ form'.tx = x
    BY <1>2, <1>4 DEF Form
  <2>5. Served' /\ Held' /\ Kept
    BY <1>1, <1>4, <2>1, <2>2, <2>3, <2>4, Formed
  <2>6. QED
    BY <1>3, <2>5 DEF Bound
<1>5. CASE /\ store = None
           /\ form' = [kind |-> "logout", phase |-> "done", emp |-> user, tx |-> x, fresh |-> None]
           /\ UNCHANGED tx
  <2>1. form' \in Form /\ form'.kind = "logout" /\ form'.phase = "done"
    BY <1>2, <1>5 DEF Form
  <2>2. Served' /\ Kept /\ Used' = Used
    BY <1>1, <1>5, ServerStays, RowsStay DEF server, Bound
  <2>3. Held'
    BY <1>1, <1>5, <2>1, <2>2 DEF Bound, Held
  <2>4. QED
    BY <1>3, <2>2, <2>3 DEF Bound
<1>6. QED
  BY <1>4, <1>5 DEF Logout

LEMMA FormEnds == ASSUME Bound, LoggedIn \/ LoggedOut PROVE Bound' /\ Kept
<1>1. form' = None /\ UNCHANGED <<server, flight, call, world>>
  BY DEF LoggedIn, LoggedOut
<1>2. Worldly'
  BY <1>1 DEF Bound, Worldly, world
<1>3. CASE LoggedIn
  <2>1. /\ form \in Form /\ form.fresh \in Used
        /\ store' = [actor |-> form.emp, tok |-> form.fresh] /\ user' = form.emp
    BY <1>3 DEF LoggedIn, Bound, Held
  <2>2. form.emp \in Employees /\ form.fresh \in Tokens
    BY <2>1, UsedIs DEF Form
  <2>3. store' \in Session /\ store'.tok = form.fresh
    BY <2>1, <2>2 DEF Session
  <2>4. QED
    BY <1>1, <1>2, <2>1, <2>2, <2>3, StoreIs, HandsetEnds
<1>4. CASE LoggedOut
  <2>1. store' = None /\ user' = None
    BY <1>4 DEF LoggedOut
  <2>2. QED
    BY <1>1, <1>2, <2>1, StoreIs, HandsetEnds
<1>5. QED
  BY <1>3, <1>4

LEMMA SilenceKeeps == ASSUME Bound, NEW x \in Txs, Silence(x) PROVE Bound' /\ Kept
<1>1. NoAnswer(x) /\ Trouble(FlightOf(x)) /\ UNCHANGED <<server, age>>
  BY DEF Silence
<1>2. Served' /\ Kept /\ Used' = Used /\ tx' = tx
  BY <1>1, ServerStays, RowsStay DEF server, Bound
<1>3. Held'
  BY <1>1, <1>2, Unanswered
<1>4. troubles' \in 0 .. MaxTrouble
  BY <1>1, SessionsAssumption DEF Trouble, Bound, Worldly
<1>5. disturbed' \in BOOLEAN
  BY <1>1 DEF Trouble, FlightOf, Bound, Worldly
<1>6. QED
  BY <1>1, <1>2, <1>3, <1>4, <1>5 DEF Bound, Worldly

LEMMA CrashKeeps == ASSUME Bound, Crash PROVE Bound' /\ Kept
<1>1. /\ flight' = None /\ form' = None /\ call' = [c \in Calls |-> None]
      /\ user' = (IF store = None THEN None ELSE store.actor)
      /\ Trouble(flight # None) /\ UNCHANGED <<server, store, age>>
  BY DEF Crash
<1>2. user' \in Employees \cup {None} /\ call' \in [Calls -> Call \cup {None}]
  BY <1>1, StoreIs
<1>3. Worldly'
  BY <1>1, SessionsAssumption DEF Trouble, Bound, Worldly
<1>4. QED
  BY <1>1, <1>2, <1>3, StoreIs, HandsetEnds

LEMMA ExpireKeeps == ASSUME Bound, NEW t \in Tokens, Expire(t) PROVE Bound' /\ Kept
<1>1. /\ age[t] < MaxAge /\ age' = [age EXCEPT ![t] = @ + 1] /\ UNCHANGED <<server, handset>>
      /\ Trouble(TRUE) \/ UNCHANGED <<troubles, disturbed>>
  BY DEF Expire
<1>2. age' \in [Tokens -> 0 .. 2]
  <2>1. age \in [Tokens -> 0 .. 2] /\ age[t] \in 0 .. 2 /\ age[t] < 2
    BY <1>1, SessionsAssumption DEF Bound, Worldly
  <2>2. age[t] + 1 \in 0 .. 2
    BY <2>1
  <2>3. QED
    BY <1>1, <2>1, <2>2
<1>3. troubles' \in 0 .. MaxTrouble /\ disturbed' \in BOOLEAN
  BY <1>1, TroubleIs
<1>4. Worldly'
  BY <1>2, <1>3 DEF Worldly
<1>5. QED
  BY <1>1, <1>4, StoreIs, HandsetEnds DEF handset

-----------------------------------------------------------------------------
(* The invariant, and what follows. *)

LEMMA InitBound == Init => Bound
<1> SUFFICES ASSUME Init PROVE Bound
  OBVIOUS
<1>1. PICK e \in Employees :
        /\ token = [t \in Tokens |->
                      IF t = 1 THEN [emp |-> e, revoked |-> FALSE, next |-> None, from |-> None]
                      ELSE None]
        /\ active = Employees
        /\ lock = [t \in Tokens |-> None] /\ tx = [x \in Txs |-> None]
        /\ store = [actor |-> e, tok |-> 1]
        /\ flight = None /\ form = None
        /\ call = [c \in Calls |-> None]
        /\ user = e
        /\ age = [t \in Tokens |-> 0]
        /\ troubles = 0 /\ disturbed = FALSE
  BY DEF Init
<1>2. 1 \in Tokens
  BY SessionsAssumption DEF Tokens
<1>3. PICK r : r = [emp |-> e, revoked |-> FALSE, next |-> None, from |-> None]
  OBVIOUS
<1>4. r \in Row /\ r.next = None /\ r.from = None
  BY <1>3 DEF Row
<1>5. token = [t \in Tokens |-> IF t = 1 THEN r ELSE None]
  BY <1>1, <1>3
<1>6. Used = {1} /\ token[1] = r
  BY <1>2, <1>4, <1>5, NoneIsNothing DEF Used
<1>7. Served
  BY <1>1, <1>4, <1>5, <1>6 DEF Served, ChainsAreLines
<1>8. store \in Session /\ store.tok = 1
  BY <1>1, <1>2 DEF Session
<1>9. Held
  BY <1>1, <1>6, <1>8 DEF Held
<1>10. Worldly
  <2>1. 0 \in 0 .. MaxTrouble /\ 0 \in 0 .. 2
    BY SessionsAssumption
  <2>2. QED
    BY <1>1, <2>1 DEF Worldly
<1>11. QED
  BY <1>7, <1>9, <1>10 DEF Bound

LEMMA StepKeeps == ASSUME Bound, [Next]_vars PROVE Bound' /\ Kept
<1>1. CASE UNCHANGED vars
  <2>1. Served' /\ Kept /\ Used' = Used
    BY <1>1, ServerStays, RowsStay DEF vars, Bound, server
  <2>2. Held'
    BY <1>1, <2>1, HandsetStays DEF vars, server
  <2>3. QED
    BY <1>1, <2>1, <2>2 DEF Bound, Worldly, vars, world
<1>2. CASE \E c \in Calls : Do(c) \/ Reply(c) \/ RefreshOnce(c) \/ Retry(c)
  BY <1>2, CallsKeep
<1>3. CASE (\E x \in Txs : Load(x)) \/ SaveSession \/ ClearSession
  BY <1>3, LoadKeeps, RefreshEnds
<1>4. CASE LoggedIn \/ LoggedOut \/ Crash
  BY <1>4, FormEnds, CrashKeeps
<1>5. CASE \E x \in Txs : Present(x) \/ Rotate(x) \/ Revoke(x)
  BY <1>5, PresentKeeps, RotateKeeps, RevokeKeeps
<1>6. CASE \E x \in Txs : Verify(x) \/ Mint(x) \/ RevokeOne(x)
  BY <1>6, VerifyKeeps, MintKeeps, RevokeOneKeeps
<1>7. CASE \E x \in Txs : Logout(x) \/ Abort(x) \/ Silence(x)
  BY <1>7, LogoutKeeps, AbortKeeps, SilenceKeeps
<1>8. CASE \E x \in Txs, e \in Employees : Login(x, e)
  BY <1>8, LoginKeeps
<1>9. CASE \E x \in Txs, e \in Employees, kind \in Office : OfficeActs(x, e, kind)
  BY <1>9, OfficeKeeps
<1>10. CASE \E t \in Tokens : Expire(t)
  BY <1>10, ExpireKeeps
<1>11. QED
  BY <1>1, <1>2, <1>3, <1>4, <1>5, <1>6, <1>7, <1>8, <1>9, <1>10 DEF Next, Client, Serve

LEMMA AlwaysBound == Spec => []Bound
<1>1. Bound /\ [Next]_vars => Bound'
  BY StepKeeps
<1>2. QED
  BY InitBound, <1>1, PTL DEF Spec

\* A chain of tokens is a line whose youngest alone may be live, a rotation in progress
\* holds the row it read, and whoever holds a token holds one that was issued: for any
\* number of employees, tokens and requests, whatever is aborted, unanswered, killed,
\* revoked or expired meanwhile (findRefreshTokenForUpdate, markReplaced).
THEOREM ChainsStand == Spec => []Chains
<1>1. Bound => Chains
  BY BoundIsChains
<1>2. QED
  BY <1>1, AlwaysBound, PTL

\* A revoked token stays revoked, with the successor it was given, and no row goes
\* (revokeChainFrom, revokeAllForEmployee, markReplaced, revokeByHash).
THEOREM RevocationLasts == Spec => RevokedForGood
<1> DEFINE Lasts == \A t \in Used :
              /\ token'[t] # None
              /\ token[t].revoked => token'[t] = token[t]
<1>1. Bound /\ [Next]_vars => Lasts
  <2>1. SUFFICES ASSUME Bound, [Next]_vars, NEW t \in Used
                 PROVE  token'[t] # None /\ (token[t].revoked => token'[t] = token[t])
    OBVIOUS
  <2>2. Kept
    BY <2>1, StepKeeps
  <2>3. QED
    BY <2>1, <2>2 DEF Kept, Used
<1>2. QED
  BY <1>1, AlwaysBound, PTL DEF Spec, RevokedForGood

-----------------------------------------------------------------------------
(* The session of an undisturbed handset. *)

\* While nothing has happened that may end the session: the user is signed in and no
\* form is open; the one request there can be is the refresh in flight, with the token
\* of the store; and that token is live until the answer to it is in.
Calm ==
  ~disturbed =>
    /\ active = Employees /\ \A t \in Tokens : age[t] < 2
    /\ store # None /\ user # None /\ form = None
    /\ flight # None => flight.phase \in {"load", "sent", "granted"}
    /\ flight = None \/ flight.phase \in {"load", "sent"} => Live(store.tok)
    /\ flight # None /\ flight.phase = "granted" => Live(flight.fresh)
    /\ \A x \in Txs : tx[x] # None =>
         /\ FlightOf(x) /\ tx[x].kind = "refresh"
         /\ tx[x].phase \in {"sent", "rotating"} /\ tx[x].tok = store.tok

LEMMA CalmHolds == Bound /\ Calm => SessionHolds
<1>1. flight # None /\ Bound => flight.phase \in {"load", "sent", "granted", "refused"}
  BY FlightFields DEF Bound, Held
<1>2. QED
  BY <1>1 DEF Calm, SessionHolds

LEMMA InitCalm == Init /\ Bound => Calm
<1> SUFFICES ASSUME Init, Bound PROVE Calm
  OBVIOUS
<1>1. PICK e \in Employees :
        /\ token = [t \in Tokens |->
                      IF t = 1 THEN [emp |-> e, revoked |-> FALSE, next |-> None, from |-> None]
                      ELSE None]
        /\ active = Employees /\ tx = [x \in Txs |-> None]
        /\ store = [actor |-> e, tok |-> 1]
        /\ flight = None /\ form = None /\ user = e
        /\ age = [t \in Tokens |-> 0]
  BY DEF Init
<1>2. store # None /\ store.tok = 1 /\ user # None
  <2>1. [actor |-> e, tok |-> 1] \in Session
    BY SessionsAssumption DEF Session, Tokens
  <2>2. QED
    BY <1>1, <2>1, NoneIsNothing
<1>3. Live(1)
  <2>1. 1 \in Tokens
    BY SessionsAssumption DEF Tokens
  <2>2. token[1] = [emp |-> e, revoked |-> FALSE, next |-> None, from |-> None]
    BY <1>1, <2>1
  <2>3. token[1] \in Row /\ ~token[1].revoked
    BY <2>2 DEF Row
  <2>4. QED
    BY <2>3, NoneIsNothing DEF Live, LiveAt
<1>4. QED
  BY <1>1, <1>2, <1>3 DEF Calm

\* A step that is no disturbance starts from a calm state.
LEMMA Undisturbed ==
  ASSUME Bound, [Next]_vars, ~disturbed' PROVE ~disturbed
<1>1. disturbed \in BOOLEAN
  BY DEF Bound, Worldly
<1>2. \/ disturbed' = disturbed \/ Trouble(TRUE) \/ Trouble(flight # None)
      \/ \E x \in Txs : Trouble(FlightOf(x))
  <2>1. CASE UNCHANGED vars \/ Client
    BY <2>1 DEF vars, world, Client, Reply, RefreshOnce, Retry, Load, SaveSession, ClearSession,
                LoggedIn, LoggedOut
  <2>2. CASE \E x \in Txs : Serve(x) \/ Abort(x)
    BY <2>2 DEF world, Serve, Present, Rotate, Revoke, Verify, Mint, RevokeOne, Abort
  <2>3. CASE \/ \E c \in Calls : Do(c)
             \/ \E x \in Txs : Logout(x) \/ Silence(x)
             \/ \E x \in Txs, e \in Employees : Login(x, e)
             \/ \E x \in Txs, e \in Employees, kind \in Office : OfficeActs(x, e, kind)
             \/ Crash
             \/ \E t \in Tokens : Expire(t)
    BY <2>3 DEF world, Do, Logout, Silence, Login, OfficeActs, Crash, Expire
  <2>4. QED
    BY <2>1, <2>2, <2>3 DEF Next
<1>3. QED
  BY <1>1, <1>2 DEF Trouble

\* What is calm stays calm in a step that leaves the tokens and the world alone, and the
\* requests but for one that goes on.
LEMMA CalmStays ==
  ASSUME Bound, Calm, ~disturbed, UNCHANGED <<token, active, age, store, user, form>>,
         flight' # None => flight'.phase \in {"load", "sent"},
         flight = None \/ flight.phase \in {"load", "sent"},
         \A x \in Txs : tx'[x] # None =>
           /\ FlightOf(x)' /\ tx'[x].kind = "refresh"
           /\ tx'[x].phase \in {"sent", "rotating"} /\ tx'[x].tok = store.tok
  PROVE  Calm'
<1>1. Live(store.tok)' = Live(store.tok)
  BY DEF Live, LiveAt
<1>2. QED
  BY <1>1 DEF Calm

LEMMA CalmPresents ==
  ASSUME Bound, Calm, ~disturbed, NEW x \in Txs, Present(x) PROVE Calm'
<1>1. /\ tx[x] # None /\ tx[x].phase = "sent" /\ tx[x].kind = "refresh"
      /\ UNCHANGED <<token, active, handset, world>>
  BY DEF Present
<1>2. /\ FlightOf(x) /\ tx[x].tok = store.tok /\ Live(tx[x].tok)
  BY <1>1 DEF Calm, FlightOf
<1>3. tx[x] \in Tx /\ tx[x].tok \in Used /\ tx[x].tok \in Tokens
  BY <1>1, UsedIs DEF Bound, Served, Progressing
<1>4. token[tx[x].tok] \in Row /\ ~token[tx[x].tok].revoked
  BY <1>2, <1>3, UsedIs DEF Bound, Live, LiveAt
<1>5. token[tx[x].tok].emp \in active /\ age[tx[x].tok] < 2 /\ age[tx[x].tok] # 2
  <2>1. token[tx[x].tok].emp \in Employees /\ age[tx[x].tok] \in 0 .. 2
    BY <1>3, <1>4, RowFields DEF Bound, Worldly
  <2>2. QED
    BY <1>3, <2>1 DEF Calm
<1>6. PICK y : y = Decided(tx[x], "rotating", {}, "fine")
  OBVIOUS
<1>7. tx' = [tx EXCEPT ![x] = y]
  BY <1>3, <1>4, <1>5, <1>6 DEF Present, Decided, Bound, Served
<1>8. y.kind = "refresh" /\ y.phase = "rotating" /\ y.tok = tx[x].tok
  BY <1>1, <1>3, <1>6, DecidedIs
<1>9. tx'[x] = y /\ \A u \in Txs \ {x} : tx'[u] = tx[u]
  BY <1>7 DEF Bound, Served
<1>10. \A u \in Txs : FlightOf(u)' = FlightOf(u)
  BY <1>1 DEF FlightOf, handset
<1>11. UNCHANGED <<age, store, user, form, flight>>
  BY <1>1 DEF handset, world
<1>12. \A u \in Txs : tx'[u] # None =>
           /\ FlightOf(u)' /\ tx'[u].kind = "refresh"
           /\ tx'[u].phase \in {"sent", "rotating"} /\ tx'[u].tok = store.tok
  BY <1>2, <1>8, <1>9, <1>10 DEF Calm
<1>13. flight # None /\ flight.phase = "sent"
  BY <1>2 DEF FlightOf
<1>14. QED
  BY <1>1, <1>11, <1>12, <1>13, CalmStays

\* The refresh in flight ends, and nothing else is in progress: granted, or with no answer
\* and the token as it was.
LEMMA CalmEnds ==
  ASSUME Bound, Calm, ~disturbed, NEW x \in Txs, tx[x] # None, EndTx(x)
  PROVE  /\ FlightOf(x) /\ Live(store.tok) /\ \A u \in Txs : tx'[u] = None
         /\ tx[x].kind = "refresh" /\ tx[x].phase \in {"sent", "rotating"}
<1>1. FlightOf(x) /\ tx[x].kind = "refresh" /\ tx[x].phase \in {"sent", "rotating"}
  BY DEF Calm
<1>2. \A u \in Txs : tx[u] # None => FlightOf(u)
  BY DEF Calm
<1>3. \A u \in Txs \ {x} : tx[u] = None
  BY <1>1, <1>2 DEF FlightOf
<1>4. Live(store.tok)
  BY <1>1 DEF Calm, FlightOf
<1>5. QED
  BY <1>1, <1>3, <1>4, Freed

LEMMA CalmUnanswered ==
  ASSUME Bound, Calm, ~disturbed, NEW x \in Txs, tx[x] # None, EndTx(x), NoAnswer(x),
         UNCHANGED <<token, active, age>>
  PROVE  Calm'
<1>1. FlightOf(x) /\ \A u \in Txs : tx'[u] = None
  BY CalmEnds
<1>2. flight' = None /\ store' = store /\ user' = user
  BY <1>1 DEF NoAnswer
<1>3. form = None
  BY DEF Calm
<1>4. form' = form
  BY <1>3 DEF NoAnswer, FormOf
<1>5. flight.phase = "sent"
  BY <1>1 DEF FlightOf
<1>6. QED
  BY <1>1, <1>2, <1>4, <1>5, CalmStays

LEMMA CalmRotates ==
  ASSUME Bound, Calm, ~disturbed, NEW x \in Txs, Rotate(x) PROVE Calm'
<1>1. tx[x] # None /\ tx[x].phase = "rotating" /\ EndTx(x) /\ UNCHANGED <<active, world>>
  BY DEF Rotate
<1>2. /\ FlightOf(x) /\ \A u \in Txs : tx'[u] = None
      /\ tx[x].kind = "refresh"
  BY <1>1, CalmEnds
<1>3. tx[x].tok \in Used
  BY <1>1, <1>2 DEF Bound, Served, Progressing
<1>4. CASE \E f \in Tokens :
             /\ NextToken(f)
             /\ token' = [token EXCEPT
                  ![f] = [emp |-> token[tx[x].tok].emp, revoked |-> FALSE, next |-> None, from |-> tx[x].tok],
                  ![tx[x].tok].revoked = TRUE, ![tx[x].tok].next = f]
             /\ Answer(x, "fine", f)
  <2>1. PICK f \in Tokens :
             /\ NextToken(f)
             /\ token' = [token EXCEPT
                  ![f] = [emp |-> token[tx[x].tok].emp, revoked |-> FALSE, next |-> None, from |-> tx[x].tok],
                  ![tx[x].tok].revoked = TRUE, ![tx[x].tok].next = f]
             /\ Answer(x, "fine", f)
    BY <1>4
  <2>2. f \in Tokens \ Used /\ f # tx[x].tok
    BY <1>3, <2>1 DEF NextToken
  <2>3. PICK r : r = [emp |-> token[tx[x].tok].emp, revoked |-> FALSE, next |-> None, from |-> tx[x].tok]
    OBVIOUS
  <2>4. token'[f] # None /\ ~token'[f].revoked
    <3>1. token[tx[x].tok].emp \in Employees /\ tx[x].tok \in Tokens
      BY <1>3, UsedIs, RowFields DEF Bound
    <3>2. r \in Row /\ ~r.revoked
      BY <2>3, <3>1 DEF Row
    <3>3. token'[f] = r
      BY <2>1, <2>2, <2>3 DEF Bound, Served
    <3>4. QED
      BY <3>2, <3>3, NoneIsNothing
  <2>5. PICK w \in Flight : w = flight
    BY <1>2 DEF FlightOf, Bound, Held
  <2>6. flight' = Landed(w, "granted", f)
    BY <1>2, <2>1, <2>5 DEF Answer, Landed
  <2>7. flight' \in Flight /\ flight'.phase = "granted" /\ flight'.fresh = f
    BY <2>5, <2>6, LandedIs
  <2>8. store' = store /\ user' = user /\ form' = None /\ active' = active /\ age' = age
    BY <1>1, <2>1 DEF Answer, FormOf, Calm, world
  <2>9. Live(flight.fresh)'
    BY <2>4, <2>7 DEF Live, LiveAt
  <2>10. flight' # None
    BY <2>7, NoneIsNothing
  <2>11. QED
    BY <1>2, <2>7, <2>8, <2>9, <2>10 DEF Calm
<1>5. CASE NoAnswer(x) /\ UNCHANGED token
  BY <1>1, <1>5, CalmUnanswered DEF world
<1>6. QED
  BY <1>4, <1>5 DEF Rotate

\* The steps of the handset that send nothing and end nothing.
LEMMA CalmWaits ==
  ASSUME Bound, Calm, ~disturbed, UNCHANGED <<server, store, user, form, age>>,
         flight' = flight \/ (flight = None /\ flight' # None /\ flight'.phase = "load")
  PROVE  Calm'
<1>1. \A t : Live(t)' = Live(t)
  BY DEF Live, LiveAt, server
<1>2. UNCHANGED <<token, active, age, store, user, form>> /\ tx' = tx
  BY DEF server
<1>3. CASE flight' = flight
  <2>1. \A x \in Txs : FlightOf(x)' = FlightOf(x)
    BY <1>3 DEF FlightOf
  <2>2. CASE flight = None \/ flight.phase \in {"load", "sent"}
    <3>1. Live(store.tok)' = Live(store.tok)
      BY <1>2 DEF Live, LiveAt
    <3>2. QED
      BY <1>2, <1>3, <2>1, <2>2, <3>1 DEF Calm
  <2>3. CASE flight # None /\ flight.phase = "granted"
    <3>1. Live(flight.fresh)' = Live(flight.fresh)
      BY <1>2, <1>3 DEF Live, LiveAt
    <3>2. QED
      BY <1>2, <1>3, <2>1, <2>3, <3>1 DEF Calm
  <2>4. QED
    BY <2>2, <2>3 DEF Calm
<1>4. CASE flight = None /\ flight' # None /\ flight'.phase = "load"
  <2>1. \A x \in Txs : tx'[x] = None
    BY <1>2, <1>4 DEF Calm, FlightOf
  <2>2. QED
    BY <1>2, <1>4, <2>1, CalmStays
<1>5. QED
  BY <1>3, <1>4

LEMMA CalmLoads ==
  ASSUME Bound, Calm, ~disturbed, NEW x \in Txs, Load(x) PROVE Calm'
<1>1. /\ flight # None /\ flight.phase = "load" /\ flight \in Flight
      /\ UNCHANGED <<token, active, lock, store, form, user, world>>
  BY DEF Load, Bound, Held
<1>2. store # None /\ \A u \in Txs : tx[u] = None
  BY <1>1 DEF Calm, FlightOf
<1>3. /\ tx' = [tx EXCEPT ![x] = Request("refresh", store.tok, None)]
      /\ flight' = [flight EXCEPT !.phase = "sent", !.session = store, !.tx = x]
  BY <1>2 DEF Load
<1>4. PICK y : y = Request("refresh", store.tok, None)
  OBVIOUS
<1>5. y.kind = "refresh" /\ y.phase = "sent" /\ y.tok = store.tok
  BY <1>2, <1>4, StoreIs, RequestIs
<1>6. tx'[x] = y /\ \A u \in Txs \ {x} : tx'[u] = None
  BY <1>2, <1>3, <1>4 DEF Bound, Served
<1>7. PICK s \in Session : s = store
  BY <1>2, StoreIs
<1>8. flight' = [flight EXCEPT !.phase = "sent", !.session = s, !.tx = x]
  BY <1>3, <1>7
<1>9. flight' \in Flight /\ flight'.phase = "sent" /\ flight'.tx = x
  BY <1>1, <1>8 DEF Flight
<1>10. FlightOf(x)'
  BY <1>9, NoneIsNothing DEF FlightOf
<1>11. \A u \in Txs : tx'[u] # None =>
           /\ FlightOf(u)' /\ tx'[u].kind = "refresh"
           /\ tx'[u].phase \in {"sent", "rotating"} /\ tx'[u].tok = store.tok
  BY <1>5, <1>6, <1>10
<1>12. UNCHANGED age
  BY <1>1 DEF world
<1>13. QED
  BY <1>1, <1>9, <1>11, <1>12, CalmStays

LEMMA CalmSaves ==
  ASSUME Bound, Calm, ~disturbed, SaveSession PROVE Calm'
<1>1. /\ flight # None /\ flight.phase = "granted" /\ flight \in Flight /\ flight.session # None
      /\ flight.fresh \in Used /\ Live(flight.fresh)
  BY DEF SaveSession, Bound, Held, Calm
<1>2. /\ store' = [flight.session EXCEPT !.tok = flight.fresh] /\ flight' = None
      /\ UNCHANGED <<server, form, user, world>>
  BY DEF SaveSession
<1>3. store' \in Session /\ store'.tok = flight.fresh
  <2>1. flight.session \in Session /\ flight.fresh \in Tokens
    BY <1>1, FlightFields, UsedIs
  <2>2. QED
    BY <1>2, <2>1 DEF Session
<1>4. Live(store.tok)'
  BY <1>1, <1>2, <1>3 DEF Live, LiveAt, server
<1>5. \A x \in Txs : tx'[x] = None
  BY <1>1, <1>2 DEF Calm, FlightOf, server
<1>6. active' = active /\ age' = age /\ form' = form /\ user' = user /\ store' # None
  BY <1>2, <1>3, NoneIsNothing DEF server, world
<1>7. QED
  BY <1>2, <1>4, <1>5, <1>6 DEF Calm

LEMMA CalmAges ==
  ASSUME Bound, Calm, ~disturbed, ~disturbed', NEW t \in Tokens, Expire(t) PROVE Calm'
<1>1. /\ age' = [age EXCEPT ![t] = @ + 1] /\ UNCHANGED <<server, handset>>
      /\ age[t] = 1 => Trouble(TRUE)
  BY DEF Expire
<1>2. age[t] = 0
  <2>1. age[t] # 1
    BY <1>1 DEF Trouble
  <2>2. age[t] \in 0 .. 2 /\ age[t] < 2
    BY DEF Calm, Bound, Worldly
  <2>3. QED
    BY <2>1, <2>2
<1>3. \A s \in Tokens : age'[s] < 2
  BY <1>1, <1>2 DEF Calm, Bound, Worldly
<1>4. /\ Live(store.tok)' = Live(store.tok) /\ Live(flight.fresh)' = Live(flight.fresh)
      /\ \A x \in Txs : FlightOf(x)' = FlightOf(x)
  BY <1>1 DEF Live, LiveAt, FlightOf, server, handset
<1>5. UNCHANGED <<active, tx, store, user, form, flight>>
  BY <1>1 DEF server, handset
<1>6. QED
  BY <1>3, <1>4, <1>5 DEF Calm

LEMMA StepCalm == ASSUME Bound, Calm, [Next]_vars PROVE Calm'
<1> SUFFICES ASSUME ~disturbed' PROVE Calm'
  BY DEF Calm
<1>1. ~disturbed
  BY Undisturbed
<1>2. /\ store # None /\ user # None /\ form = None
      /\ \A x \in Txs : tx[x] # None => FlightOf(x) /\ tx[x].kind = "refresh" /\ tx[x].phase \in {"sent", "rotating"}
  BY <1>1 DEF Calm
<1>3. CASE UNCHANGED vars
  BY <1>1, <1>3, CalmWaits DEF vars, handset, world
<1>4. CASE \E c \in Calls : Do(c) \/ Reply(c) \/ RefreshOnce(c) \/ Retry(c)
  <2>1. PICK c \in Calls : Do(c) \/ Reply(c) \/ RefreshOnce(c) \/ Retry(c)
    BY <1>4
  <2>2. UNCHANGED <<server, store, form, user, world>>
    BY <2>1 DEF Do, Reply, RefreshOnce, Retry
  <2>3. \/ flight' = flight
        \/ flight = None /\ flight' = [phase |-> "load", session |-> None, tx |-> None, fresh |-> None]
    BY <2>1 DEF Do, Reply, RefreshOnce, Retry
  <2>4. [phase |-> "load", session |-> None, tx |-> None, fresh |-> None] \in Flight
    BY DEF Flight
  <2>5. flight' = flight \/ (flight = None /\ flight' # None /\ flight'.phase = "load")
    BY <2>3, <2>4, NoneIsNothing
  <2>6. QED
    BY <1>1, <2>2, <2>5, CalmWaits DEF world
<1>5. CASE (\E x \in Txs : Load(x)) \/ SaveSession
  BY <1>1, <1>5, CalmLoads, CalmSaves
<1>6. CASE ClearSession
  BY <1>1, <1>6 DEF ClearSession, Calm
<1>7. CASE LoggedIn \/ LoggedOut \/ \E x \in Txs, e \in Employees : Login(x, e)
  BY <1>2, <1>7 DEF LoggedIn, LoggedOut, Login
<1>8. CASE \E x \in Txs : Present(x) \/ Rotate(x)
  BY <1>1, <1>8, CalmPresents, CalmRotates
<1>9. CASE \E x \in Txs : Revoke(x) \/ Verify(x) \/ Mint(x) \/ RevokeOne(x)
  BY <1>2, <1>9 DEF Revoke, Verify, Mint, RevokeOne
<1>10. CASE \E x \in Txs : Abort(x)
  BY <1>1, <1>10, CalmUnanswered DEF Abort, world
<1>11. CASE \E x \in Txs : Logout(x) \/ Silence(x)
  <2>1. ASSUME NEW x \in Txs, Silence(x) PROVE FlightOf(x)
    BY <1>2, <2>1 DEF Silence
  <2>2. ASSUME NEW x \in Txs, Silence(x) PROVE FALSE
    <3>1. Trouble(FlightOf(x)) /\ FlightOf(x)
      BY <2>1, <2>2 DEF Silence
    <3>2. disturbed'
      BY <3>1 DEF Trouble
    <3>3. QED
      BY <3>2
  <2>3. ASSUME NEW x \in Txs, Logout(x) PROVE FALSE
    BY <1>2, <2>3 DEF Logout, Trouble
  <2>4. QED
    BY <1>11, <2>2, <2>3
<1>12. CASE \E x \in Txs, e \in Employees, kind \in Office : OfficeActs(x, e, kind)
  BY <1>12 DEF OfficeActs, Trouble
<1>13. CASE Crash
  <2>1. /\ flight' = None /\ form' = None /\ user' = store.actor /\ Trouble(flight # None)
        /\ UNCHANGED <<server, store, age>>
    BY <1>2, <1>13 DEF Crash
  <2>2. flight = None
    BY <2>1 DEF Trouble
  <2>3. user' # None /\ form' = form
    BY <1>2, <2>1, StoreIs, NoneIsNothing
  <2>4. \A x \in Txs : tx[x] = None
    BY <1>2, <2>2 DEF FlightOf
  <2>5. Live(store.tok)' = Live(store.tok) /\ UNCHANGED <<active, tx, store, age>>
    BY <2>1 DEF Live, LiveAt, server
  <2>6. QED
    BY <1>1, <2>1, <2>2, <2>3, <2>4, <2>5 DEF Calm
<1>14. CASE \E t \in Tokens : Expire(t)
  BY <1>1, <1>14, CalmAges
<1>15. QED
  BY <1>3, <1>4, <1>5, <1>6, <1>7, <1>8, <1>9, <1>10, <1>11, <1>12, <1>13, <1>14 DEF Next, Client, Serve

\* While no answer is lost, nobody logs out, the office does nothing and no refresh token
\* expires, a signed-in handset keeps the live token of its chain and no refresh is
\* refused, for any number of concurrent 401s and aborted rotations (refreshOnce,
\* doRefresh).
THEOREM SessionLasts == Spec => []SessionHolds
<1>1. Bound /\ Calm /\ [Next]_vars => Calm'
  BY StepCalm
<1>2. Init => Bound /\ Calm
  BY InitBound, InitCalm
<1>3. Bound /\ Calm => SessionHolds
  BY CalmHolds
<1>4. QED
  BY <1>1, <1>2, <1>3, AlwaysBound, PTL DEF Spec
=============================================================================

------------------------------ MODULE Sessions ------------------------------
(***************************************************************************)
(* Rotating refresh tokens, both ends: the auth service                    *)
(* (apps/api/src/modules/auth/service.ts, repo.ts) with the revocations of *)
(* modules/employees/service.ts, and one handset that holds the session    *)
(* (apps/mobile/src/lib/apiClient.ts over lib/tokenStore.ts).              *)
(*                                                                         *)
(* A token is an integer, given out in order; the access token issued with *)
(* it goes by the same integer.  A request is a slot x: it travels, runs   *)
(* as a READ COMMITTED transaction, and its answer reaches the promise on  *)
(* the handset that waits for x, if one still does.                        *)
(***************************************************************************)
EXTENDS Integers, FiniteSets

CONSTANTS
  Employees,
  Calls,      \* API calls the handset can have open at once
  Txs,        \* slots for requests in progress at the server
  Faults,     \* what may go wrong: "abort" a transaction, "silence" (no answer
              \* reaches the handset), "crash" of the app
  Office,     \* what the office does: "deactivate", "password"
  Users,      \* what the user does: "login", "logout"
  None,
  MaxToken,   \* bound: tokens ever issued
  MaxTrouble, \* bound: lost answers, crashes, logouts, acts of the office, 60 days gone
  MaxAge      \* bound: 1 lets access tokens expire, 2 refresh tokens as well

VARIABLES
  \* the server
  token,      \* token[t]: the committed row of refresh_tokens, or None
  active,     \* employees with is_active
  lock,       \* lock[t]: the transaction that holds the row
  tx,         \* tx[x]: the request in slot x, or None
  \* the handset
  store,      \* the session in the token store, or None
  flight,     \* the refresh in flight (refreshInFlight), or None
  call,       \* call[c]: an API call, or None
  form,       \* the login or logout the user has under way, or None
  user,       \* the actor of the screens (state/sessionStore.ts), or None
  \* the world
  age,        \* age[t]: 1 once its access token has expired, 2 once it has itself
  troubles,   \* how many of those there were
  disturbed   \* whether one of them may end the session

server == <<token, active, lock, tx>>
handset == <<store, flight, call, form, user>>
world == <<age, troubles, disturbed>>
vars == <<server, handset, world>>

Tokens == 1 .. MaxToken
Row == [emp : Employees, revoked : BOOLEAN, next : Tokens \cup {None}, from : Tokens \cup {None}]
Session == [actor : Employees, tok : Tokens]

Kinds == {"refresh", "login", "logout", "deactivate", "password"}
\* A request.  tok: the token presented; emp: whose login, or whose tokens die; hits:
\* the rows the revoking UPDATE has in its snapshot; verdict: what the caller is told.
Tx == [kind : Kinds, phase : {"sent", "rotating", "revoking", "minting"},
       tok : Tokens \cup {None}, emp : Employees \cup {None}, hits : SUBSET Tokens,
       verdict : {"fine", "reused", "gone"}]
\* doRefresh: what it loaded, the request it waits for, the token it was given.
Flight == [phase : {"load", "sent", "granted", "refused"}, session : Session \cup {None},
           tx : Txs \cup {None}, fresh : Tokens \cup {None}]
\* A call carries the access token it was sent with.
Call == [phase : {"sent", "denied", "waiting", "refreshed", "again"}, tok : Tokens \cup {None}]
Form == [kind : {"login", "logout"}, phase : {"sent", "done"}, emp : Employees,
         tx : Txs, fresh : Tokens \cup {None}]

ASSUME SessionsAssumption ==
  /\ MaxToken \in Nat \ {0} /\ MaxTrouble \in Nat /\ MaxAge \in 0 .. 2
  /\ Faults \subseteq {"abort", "silence", "crash"}
  /\ Office \subseteq {"deactivate", "password"} /\ Users \subseteq {"login", "logout"}
  /\ None \notin Employees \cup Txs \cup Nat
  /\ None \notin Row \cup Session \cup Tx
  /\ None \notin Flight \cup Call \cup Form

TypeOK ==
  /\ token \in [Tokens -> Row \cup {None}]
  /\ active \subseteq Employees
  /\ lock \in [Tokens -> Txs \cup {None}]
  /\ tx \in [Txs -> Tx \cup {None}]
  /\ store \in Session \cup {None}
  /\ flight \in Flight \cup {None}
  /\ call \in [Calls -> Call \cup {None}]
  /\ form \in Form \cup {None}
  /\ user \in Employees \cup {None}
  /\ age \in [Tokens -> 0 .. 2]
  /\ troubles \in 0 .. MaxTrouble
  /\ disturbed \in BOOLEAN

\* Somebody has signed in: his login is the one row.
Init ==
  \E e \in Employees :
    /\ token = [t \in Tokens |->
                  IF t = 1 THEN [emp |-> e, revoked |-> FALSE, next |-> None, from |-> None]
                  ELSE None]
    /\ active = Employees
    /\ lock = [t \in Tokens |-> None] /\ tx = [x \in Txs |-> None]
    /\ store = [actor |-> e, tok |-> 1]
    /\ flight = None /\ form = None
    /\ call = [c \in Calls |-> None]
    /\ user = e
    /\ age = [t \in Tokens |-> 0]
    /\ troubles = 0 /\ disturbed = FALSE

Trouble(ends) ==
  /\ troubles < MaxTrouble
  /\ troubles' = troubles + 1
  /\ disturbed' = (disturbed \/ ends)

-----------------------------------------------------------------------------
(* The server. *)

Used == {t \in Tokens : token[t] # None}
LiveAt(rows, t) == rows[t] # None /\ ~rows[t].revoked
Live(t) == LiveAt(token, t)
LiveOf(e) == {t \in Used : Live(t) /\ token[t].emp = e}

\* The walk down replaced_by.  A successor is always a younger row.
ChainFrom(t) ==
  LET reach[u \in Tokens] == u = t \/ \E v \in Used : v < u /\ token[v].next = u /\ reach[v]
  IN  {u \in Used : u >= t /\ reach[u]}

\* f is the token that mintRefreshToken makes next.
NextToken(f) == f \in Tokens \ Used /\ 1 .. f - 1 \subseteq Used

Request(kind, tok, emp) ==
  [kind |-> kind, phase |-> "sent", tok |-> tok, emp |-> emp, hits |-> {}, verdict |-> "fine"]

Free(x) == lock' = [t \in Tokens |-> IF lock[t] = x THEN None ELSE lock[t]]

\* How the promise that waits for x settles: refresh tells it granted or refused, and a
\* failed request (no answer, a 429, a 5xx) ends it with nothing changed.
FlightOf(x) == flight # None /\ flight.phase = "sent" /\ flight.tx = x
FormOf(x) == form # None /\ form.phase = "sent" /\ form.tx = x
\* The callers of refreshOnce go on: to their one retry, or to their end.
Settle(outcome) ==
  call' = [c \in Calls |->
             CASE call[c] # None /\ call[c].phase = "waiting" ->
                    IF outcome = "refreshed" THEN [call[c] EXCEPT !.phase = "refreshed"] ELSE None
               [] OTHER -> call[c]]

Answer(x, verdict, fresh) ==
  /\ IF FlightOf(x)
     THEN flight' = [flight EXCEPT !.phase = IF verdict = "fine" THEN "granted" ELSE "refused",
                                   !.fresh = fresh]
     ELSE UNCHANGED flight
  /\ IF FormOf(x)
     THEN form' = IF form.kind = "login" /\ verdict # "fine" THEN None
                  ELSE [form EXCEPT !.phase = "done", !.fresh = fresh]
     ELSE UNCHANGED form
  /\ UNCHANGED <<store, call, user>>

\* Mutant: a refresh that ends without an answer is tried again, and again.
NoAnswer_Again(x) ==
  /\ IF FlightOf(x)
     THEN /\ flight' = None
          /\ call' = [c \in Calls |-> IF call[c] # None /\ call[c].phase = "waiting"
                                     THEN [call[c] EXCEPT !.phase = "denied"] ELSE call[c]]
     ELSE UNCHANGED <<flight, call>>
  /\ IF FormOf(x)
     THEN form' = IF form.kind = "login" THEN None ELSE [form EXCEPT !.phase = "done"]
     ELSE UNCHANGED form
  /\ UNCHANGED <<store, user>>

NoAnswer(x) ==
  /\ IF FlightOf(x) THEN flight' = None /\ Settle("retryable") ELSE UNCHANGED <<flight, call>>
  /\ IF FormOf(x)
     THEN form' = IF form.kind = "login" THEN None ELSE [form EXCEPT !.phase = "done"]
     ELSE UNCHANGED form
  /\ UNCHANGED <<store, user>>

EndTx(x) == Free(x) /\ tx' = [tx EXCEPT ![x] = None]

\* The process, its connection or the deadlock detector ends the transaction: a 5xx.
Abort(x) ==
  /\ "abort" \in Faults
  /\ tx[x] # None
  /\ EndTx(x)
  /\ NoAnswer(x)
  /\ UNCHANGED <<token, active, world>>

\* Mutant: the SELECT has no FOR UPDATE.
Present_NoLock(x) ==
  LET t == tx[x].tok
  IN  /\ tx[x] # None /\ tx[x].phase = "sent" /\ tx[x].kind = "refresh"
      /\ ~token[t].revoked
      /\ tx' = [tx EXCEPT ![x].phase = "rotating"]
      /\ UNCHANGED <<token, active, lock, handset, world>>

\* findRefreshTokenForUpdate takes the row, whatever it says, and decides on it.  A
\* revoking branch runs its UPDATE on the rows that are committed now.
Present(x) ==
  LET t == tx[x].tok
      branch == CASE token[t].revoked -> "reused"
                  [] ~token[t].revoked /\ age[t] = 2 -> "expired"
                  [] ~token[t].revoked /\ age[t] < 2 /\ token[t].emp \notin active -> "inactive"
                  [] OTHER -> "rotate"
  IN  /\ tx[x] # None /\ tx[x].phase = "sent" /\ tx[x].kind = "refresh"
      /\ lock[t] = None
      /\ lock' = [lock EXCEPT ![t] = x]
      /\ tx' = [tx EXCEPT
           ![x].phase = IF branch = "rotate" THEN "rotating" ELSE "revoking",
           ![x].hits = CASE branch = "reused" -> {u \in ChainFrom(t) : Live(u)}
                         [] branch = "inactive" -> LiveOf(token[t].emp)
                         [] OTHER -> {},
           ![x].verdict = CASE branch = "reused" -> "reused"
                            [] branch \in {"expired", "inactive"} -> "gone"
                            [] OTHER -> "fine"]
      /\ UNCHANGED <<token, active, handset, world>>

\* insertRefreshToken, markReplaced, COMMIT.  Where the bound leaves no token, a 5xx.
Rotate(x) ==
  LET t == tx[x].tok
  IN  /\ tx[x] # None /\ tx[x].phase = "rotating"
      /\ EndTx(x)
      /\ \/ \E f \in Tokens :
               /\ NextToken(f)
               /\ token' = [token EXCEPT
                    ![f] = [emp |-> token[t].emp, revoked |-> FALSE, next |-> None, from |-> t],
                    ![t].revoked = TRUE, ![t].next = f]
               /\ Answer(x, "fine", f)
         \/ Used = Tokens /\ NoAnswer(x) /\ UNCHANGED token
      /\ UNCHANGED <<active, world>>

\* revokeChainFrom, revokeAllForEmployee: the UPDATE waits for the rows of its snapshot
\* and skips those revoked meanwhile; COMMIT, and only then the refusal is thrown.
Revoke(x) ==
  /\ tx[x] # None /\ tx[x].phase = "revoking"
  /\ \A t \in tx[x].hits : lock[t] \in {None, x}
  /\ token' = [t \in Tokens |-> IF t \in tx[x].hits THEN [token[t] EXCEPT !.revoked = TRUE] ELSE token[t]]
  /\ active' = IF tx[x].kind = "deactivate" THEN active \ {tx[x].emp} ELSE active
  /\ EndTx(x)
  /\ Answer(x, tx[x].verdict, None)
  /\ UNCHANGED world

\* login: the employee is read and the password verified, then the transaction mints.
Verify(x) ==
  /\ tx[x] # None /\ tx[x].kind = "login" /\ tx[x].phase = "sent"
  /\ \/ /\ tx[x].emp \in active
        /\ tx' = [tx EXCEPT ![x].phase = "minting"]
        /\ UNCHANGED <<lock, handset>>
     \/ tx[x].emp \notin active /\ EndTx(x) /\ Answer(x, "gone", None)
  /\ UNCHANGED <<token, active, world>>

Mint(x) ==
  /\ tx[x] # None /\ tx[x].phase = "minting"
  /\ EndTx(x)
  /\ \/ \E f \in Tokens :
           /\ NextToken(f)
           /\ token' = [token EXCEPT
                ![f] = [emp |-> tx[x].emp, revoked |-> FALSE, next |-> None, from |-> None]]
           /\ Answer(x, "fine", f)
     \/ Used = Tokens /\ NoAnswer(x) /\ UNCHANGED token
  /\ UNCHANGED <<active, world>>

\* logout: revokeByHash, one statement of its own.
RevokeOne(x) ==
  LET t == tx[x].tok
  IN  /\ tx[x] # None /\ tx[x].kind = "logout"
      /\ lock[t] = None
      /\ token' = [token EXCEPT ![t].revoked = TRUE]
      /\ EndTx(x)
      /\ Answer(x, "fine", None)
      /\ UNCHANGED <<active, world>>

\* The office deactivates an employee, or sets his password (resetPassword,
\* changePassword): every token of his that is live now.
OfficeActs(x, e, kind) ==
  /\ kind \in Office
  /\ tx[x] = None
  /\ kind = "deactivate" => e \in active
  /\ tx' = [tx EXCEPT ![x] = [Request(kind, None, e) EXCEPT !.phase = "revoking", !.hits = LiveOf(e)]]
  /\ Trouble(TRUE)
  /\ UNCHANGED <<token, active, lock, handset, age>>

-----------------------------------------------------------------------------
(* The handset. *)

Do(c) ==
  /\ call[c] = None /\ store # None
  /\ call' = [call EXCEPT ![c] = [phase |-> "sent", tok |-> store.tok]]
  /\ UNCHANGED <<server, store, flight, form, user, world>>

\* requireAuth looks at the access token alone.  A 401 to the retry is the end as well.
Reply(c) ==
  /\ call[c] # None /\ call[c].phase \in {"sent", "again"}
  /\ LET good == call[c].tok # None /\ age[call[c].tok] = 0
     IN  call' = [call EXCEPT ![c] =
                    IF good \/ call[c].phase = "again" THEN None ELSE [@ EXCEPT !.phase = "denied"]]
  /\ UNCHANGED <<server, store, flight, form, user, world>>

\* Mutant: every 401 runs a refresh of its own.
RefreshOnce_Each(c) ==
  /\ call[c] # None /\ call[c].phase = "denied"
  /\ call' = [call EXCEPT ![c].phase = "waiting"]
  /\ flight' = [phase |-> "load", session |-> None, tx |-> None, fresh |-> None]
  /\ UNCHANGED <<server, store, form, user, world>>

\* refreshOnce: join the refresh in flight, or start it.
RefreshOnce(c) ==
  /\ call[c] # None /\ call[c].phase = "denied"
  /\ call' = [call EXCEPT ![c].phase = "waiting"]
  /\ flight' = IF flight # None THEN flight
               ELSE [phase |-> "load", session |-> None, tx |-> None, fresh |-> None]
  /\ UNCHANGED <<server, store, form, user, world>>

\* doRefresh: load the session; none is an end, one is sent.
Load(x) ==
  /\ flight # None /\ flight.phase = "load"
  /\ \/ /\ store = None
        /\ flight' = None /\ Settle("logged-out")
        /\ UNCHANGED tx
     \/ /\ store # None
        /\ tx[x] = None
        /\ tx' = [tx EXCEPT ![x] = Request("refresh", store.tok, None)]
        /\ flight' = [flight EXCEPT !.phase = "sent", !.session = store, !.tx = x]
        /\ UNCHANGED call
  /\ UNCHANGED <<token, active, lock, store, form, user, world>>

\* The answer is in: saveSession over the session that was loaded.
SaveSession ==
  /\ flight # None /\ flight.phase = "granted"
  /\ store' = [flight.session EXCEPT !.tok = flight.fresh]
  /\ flight' = None /\ Settle("refreshed")
  /\ UNCHANGED <<server, form, user, world>>

\* A refused token ends the session: clearSession.
ClearSession ==
  /\ flight # None /\ flight.phase = "refused"
  /\ store' = None
  /\ flight' = None /\ Settle("logged-out")
  /\ UNCHANGED <<server, form, user, world>>

\* The one retry, with whatever the store holds now.
Retry(c) ==
  /\ call[c] # None /\ call[c].phase = "refreshed"
  /\ call' = [call EXCEPT ![c] = [phase |-> "again", tok |-> IF store = None THEN None ELSE store.tok]]
  /\ UNCHANGED <<server, store, flight, form, user, world>>

\* login: the screen is there while nobody is signed in.
Login(x, e) ==
  /\ "login" \in Users /\ user = None /\ form = None
  /\ tx[x] = None
  /\ tx' = [tx EXCEPT ![x] = Request("login", None, e)]
  /\ form' = [kind |-> "login", phase |-> "sent", emp |-> e, tx |-> x, fresh |-> None]
  /\ UNCHANGED <<token, active, lock, store, flight, call, user, world>>

LoggedIn ==
  /\ form # None /\ form.kind = "login" /\ form.phase = "done"
  /\ store' = [actor |-> form.emp, tok |-> form.fresh]
  /\ user' = form.emp
  /\ form' = None
  /\ UNCHANGED <<server, flight, call, world>>

\* logout: revoke the token of the session, if there is one; clear whatever the answer.
Logout(x) ==
  /\ "logout" \in Users /\ user # None /\ form = None
  /\ \/ /\ store # None
        /\ tx[x] = None
        /\ tx' = [tx EXCEPT ![x] = Request("logout", store.tok, None)]
        /\ form' = [kind |-> "logout", phase |-> "sent", emp |-> user, tx |-> x, fresh |-> None]
     \/ /\ store = None
        /\ form' = [kind |-> "logout", phase |-> "done", emp |-> user, tx |-> x, fresh |-> None]
        /\ UNCHANGED tx
  /\ IF store # None THEN Trouble(TRUE) ELSE UNCHANGED <<troubles, disturbed>>
  /\ UNCHANGED <<token, active, lock, store, flight, call, user, age>>

LoggedOut ==
  /\ form # None /\ form.kind = "logout" /\ form.phase = "done"
  /\ store' = None /\ user' = None
  /\ form' = None
  /\ UNCHANGED <<server, flight, call, world>>

-----------------------------------------------------------------------------
(* The network, the clock and the app process. *)

\* The handset stops waiting for x, which goes on, or has gone on, without it.
Silence(x) ==
  /\ "silence" \in Faults
  /\ tx[x] # None
  /\ FlightOf(x) \/ FormOf(x)
  /\ NoAnswer(x)
  /\ Trouble(FlightOf(x))
  /\ UNCHANGED <<server, age>>

\* The app is killed and started again: bootstrapSession reads the store.
Crash ==
  /\ "crash" \in Faults
  /\ flight' = None /\ form' = None /\ call' = [c \in Calls |-> None]
  /\ user' = IF store = None THEN None ELSE store.actor
  /\ Trouble(flight # None)
  /\ UNCHANGED <<server, store, age>>

Expire(t) ==
  /\ token[t] # None /\ age[t] < MaxAge
  /\ age' = [age EXCEPT ![t] = @ + 1]
  /\ IF age[t] = 1 THEN Trouble(TRUE) ELSE UNCHANGED <<troubles, disturbed>>
  /\ UNCHANGED <<server, handset>>

Serve(x) ==
  \/ Present(x) \/ Rotate(x) \/ Revoke(x)
  \/ Verify(x) \/ Mint(x) \/ RevokeOne(x)

Client ==
  \/ \E c \in Calls : Reply(c) \/ RefreshOnce(c) \/ Retry(c)
  \/ \E x \in Txs : Load(x)
  \/ SaveSession \/ ClearSession \/ LoggedIn \/ LoggedOut

Next ==
  \/ Client
  \/ \E x \in Txs : Serve(x)
  \/ \E c \in Calls : Do(c)
  \/ \E x \in Txs, e \in Employees : Login(x, e)
  \/ \E x \in Txs : Logout(x)
  \/ \E x \in Txs, e \in Employees, kind \in Office : OfficeActs(x, e, kind)
  \/ \E x \in Txs : Abort(x) \/ Silence(x)
  \/ Crash
  \/ \E t \in Tokens : Expire(t)

Spec == Init /\ [][Next]_vars

\* The event loops run: a request in progress gets on, and so does a call.
Fairness ==
  /\ \A x \in Txs : WF_vars(Serve(x))
  /\ \A c \in Calls : WF_vars(Reply(c)) /\ WF_vars(RefreshOnce(c)) /\ WF_vars(Retry(c))
  /\ WF_vars(\E x \in Txs : Load(x))
  /\ WF_vars(SaveSession) /\ WF_vars(ClearSession) /\ WF_vars(LoggedIn) /\ WF_vars(LoggedOut)

FairSpec == Spec /\ Fairness

-----------------------------------------------------------------------------
(* Safety *)

\* A chain is a line and its youngest row alone may be live: what a rotation inserts is
\* the one successor of a row that is revoked.  Two concurrent refreshes of one token
\* would fork it.
ChainsAreLines ==
  \A t \in Used :
    LET p == token[t].from
    IN  /\ p # None => p \in Used /\ token[p].revoked /\ token[p].next = t
        /\ token[t].next # None => token[t].revoked

\* A transaction that is rotating holds the row and the row is still what it read.
RotatesWhatItRead ==
  \A x \in Txs :
    tx[x] # None /\ tx[x].phase = "rotating" => lock[tx[x].tok] = x /\ Live(tx[x].tok)

\* Whatever holds a token holds one that was issued, and holds one where it needs one.
TokensKnown ==
  /\ \A x \in Txs : tx[x] # None =>
       /\ tx[x].hits \subseteq Used
       /\ tx[x].kind \in {"refresh", "logout"} => tx[x].tok \in Used
       /\ tx[x].kind \notin {"refresh", "logout"} => tx[x].emp # None
       /\ tx[x].phase = "rotating" => tx[x].kind = "refresh"
       /\ tx[x].phase = "minting" => tx[x].kind = "login"
  /\ store # None => store.tok \in Used
  /\ flight # None =>
       /\ flight.phase # "load" => flight.session # None
       /\ flight.phase = "granted" => flight.fresh \in Used
  /\ form # None /\ form.kind = "login" /\ form.phase = "done" => form.fresh \in Used

\* The invariant the proofs rest on.
Chains == TypeOK /\ TokensKnown /\ ChainsAreLines /\ RotatesWhatItRead

\* While nothing happened that may end a session (no lost answer, no logout, no act of
\* the office, no 60 days), the handset that is not mid-refresh holds the live token of
\* its chain, and no refresh is ever refused: an aborted rotation leaves the old token
\* valid, and concurrent 401s share one refresh instead of replaying the token.
SessionHolds ==
  ~disturbed =>
    /\ store # None
    /\ flight = None \/ flight.phase = "load" => Live(store.tok)
    /\ flight # None => flight.phase # "refused"

\* A revoked token stays revoked and keeps the successor it was given; no row goes.
RevokedForGood ==
  [][\A t \in Used :
       /\ token'[t] # None
       /\ token[t].revoked => token'[t] = token[t]]_vars

\* Every API call is answered to its screen, through any number of aborted transactions
\* and lost answers: the shared refresh never leaves a caller waiting.
CallsEnd == \A c \in Calls : call[c] # None ~> call[c] = None

\* Changing or resetting a password, or deactivating, ends every session of the employee.
EverySessionEnds ==
  [][\A x \in Txs :
       Revoke(x) /\ tx[x].kind \in Office
         => \A t \in Used : token[t].emp = tx[x].emp => token'[t].revoked]_vars

\* After a logout nobody is signed in on the handset, and a session in the store is that
\* of the user of the screens.
StoreIsTheUsers ==
  store # None /\ form = None => user = store.actor
=============================================================================

# ServGrid: models and proofs

TLA+ modules for the parts of ServGrid whose correctness depends on the order
in which things happen: requests that are sent twice, transactions that
overlap, answers that are lost, processes that die between two statements.
Each module is translated from the source; `PROJECT.json` maps every definition
to the lines it stands for. Paths below are relative to the repository.

    tlc -workers 2 -config MCCashDay.cfg MCCashDay.tla     # model-check
    tlapm CashDay_proofs.tla                               # check the proofs

## 1. The system

ServGrid is a field-service application: a Fastify/PostgreSQL API
(`apps/api`), one React Native app for technicians, dispatchers, sales
representatives and the owner (`apps/mobile`), and shared rules
(`packages/shared`). There is one API process; inside it requests interleave
at every `await`. All durable state is in PostgreSQL; every transaction that
writes runs at READ COMMITTED. Mutating requests carry an `Idempotency-Key`
and, where a screen edits a row it has read, an `If-Match` version.

| component | state it keeps | operations | what makes it correct | hard part |
|---|---|---|---|---|
| Replay guard `plugins/idempotency.ts`, `db/ambient-tx.ts`, `db/tx.ts`, `db/pool.ts` | `idempotency_keys`, a pool client per request | claim, fetch, reclaim, begin, settle, release, abort, prune | one key, one complete run; the answer commits with the rows; a crash poisons no key | duplicates, stale claims, losses at every await, a pool of ten |
| Intent writer `mobile/src/lib/intentWrite.ts` | one pinned key | send, retry, clear | a retry replays; "saved" is true | answers lost or late |
| Cash `modules/cash` | `cash_reconciliations`, `audit_log` | declare, amend, confirm, dispute, reopen | an answered day is frozen; no figure is lost | overlapping transactions |
| Completion amendment `modules/jobs` | `job_completions`, `job_events` | amendCompletion | no figure moves under a signed day; old figures in the trail | two tables, two locks |
| Job cards `modules/jobs`, `shared/src/status.ts` | `job_cards`, `job_events`, `job_cancellations`, `job_completions` | create, assign, bulk assign, status, reschedule, cancel, complete | the trail replays to the card; closed once; nobody acts on a card he has not seen; nobody is taken off a job he has started | races of dispatcher, technician and owner; deadlock |
| Numbers `lib/sequences.ts` | `sequences` | allocateNumber | distinct | drawn inside the caller's transaction |
| Employees `modules/employees` | `employees`, `devices` | create, update, deactivate | nobody leaves with open work or accounts | checks without a lock |
| Notifications `modules/notifications`, `jobs/release-held-notifications.ts` | `held_notifications` | wake, hold, release batch | a wake announces what is committed; each held row wakes once | fire-and-forget, window edges, boot sweep |
| Sales, payments `modules/sales`, `modules/payments` | `sales_cards`, items, `payments` | draft, patch, confirm, void, collect | collections name live cards; no lost update | a read without a lock; a version that does not move |
| Locate now `modules/location`, `jobs/expire-location-requests.ts`, mobile `location/` | `location_requests`, `location_pings`, a ping buffer | request, push, ping, fulfil, expire | one honest outcome per request | push, answer and expiry race; a crash between insert and fulfil |
| Auth sessions `modules/auth`, mobile `apiClient.ts` | `refresh_tokens`, the token store | login, rotate, reuse, revoke, single-flight refresh | a revoked chain stays dead; a lost answer logs nobody out wrongly | rotation against revocation |
| Contracts `modules/contracts` | `service_contracts` | create, patch, cancel | version and overlap rules | lock order |
| Companies `modules/companies` | `companies`, `audit_log` | create, patch, hand over | one name; an account moves by the owner's door only | scope and version under one lock |
| Customers, catalog `modules/customers`, `modules/catalog` | `customers`, `customer_products`, `products`, `services` | add, correct, remove; create, patch, retire | a serial is at one site; a code is never reissued | unique indexes under concurrent writes |
| Devices, consents, flags, service calls, technician | their rows | single-row writes | unique keys | little beyond the row |
| Attachments, storage | objects, `attachments` | put, then insert | no row without its object | two steps |
| Dashboard, screens | none | reads | | |

How they interact: every mutation route is wrapped by the guard; the handler
inside joins the guard's transaction through an AsyncLocalStorage, so a
service's `withTransaction` is only a SAVEPOINT of it. `getPool()` bypasses
that. Jobs calls Notifications after `withTransaction` returns; Jobs reads
Cash rows when a completion is amended; Employees reads Jobs, Companies and
Cash before a deactivation; the app's intent writer is the other end of the
guard.

## 2. Modules

| module | models | checked by |
|---|---|---|
| `OncePerKey` | what the guard promises: a key is answered by one complete run until it is forgotten | `OnceOnly` in run `guard` |
| `Idempotency` | the guard and the request transaction, statement by statement | `MCIdempotency*` |
| `IntentDelivery` | EXTENDS `Idempotency` with the app's writer, the network and the user's retries | `MCIntent*` |
| `Idempotency_proofs` | all safety of the guard, its refinement of `OncePerKey`, and the writer's promises | tlapm |
| `NumberSeries` | what a row of `sequences` promises to the documents that draw from it in their own transaction | `NumbersInOrder` in runs `cards` and `ledger` |
| `CashDay` | the cash handover and amendCompletion | `MCCashDay*` |
| `CashDay_proofs` | type correctness and four properties of answered days and the trail | tlapm |
| `JobCards` | cards, assignments, numbers, wakes, deactivation | `MCJobCards*` |
| `JobCards_proofs` | the rows of the cards, their trails and numbers, and what an operation may act on | tlapm |
| `SalesLedger` | sales cards, payments and their numbers | `MCSalesLedger` |
| `SalesLedger_proofs` | the ledger invariant and the standing of documents | tlapm |
| `Registers` | the rows corrected in place: equipment under the serial rule, AMC contracts under the rule of one a day, companies and their owners, employees, the catalogue | `MCRegisters` |
| `Registers_proofs` | the rows that stand, what becomes of them, and what a correction lands on | tlapm |
| `Sessions` | refresh tokens at the server and the session of one handset | `MCSessions` |
| `Sessions_proofs` | the chains, and the session nobody disturbs | tlapm |
| `LocateNow` | locate-now requests, the sweep, the intake of pings, the buffer of one handset | `MCLocateNow` |
| `LocateNow_proofs` | the trail and the answers | tlapm |
| `HeldWakes` | wakes held outside the work window and the batch that releases them | `MCHeldWakes` |
| `HeldWakes_proofs` | the invariant of the held rows | tlapm |

`Idempotency` implements `OncePerKey`, `JobCards` and (twice) `SalesLedger`
implement `NumberSeries`; `IntentDelivery` composes `Idempotency` with its
client, `Sessions` and `LocateNow` each compose a server and a handset. The
others are one component each: what they share (the number sequence, the request
transaction) is in each as far as it touches the component's rows.

### Idempotency

`row[k]` is the `idempotency_keys` row of a key (a key stands for the pair
`(employee_id, key)`); its `token` is `locked_at`, which doubles as the
ownership token of a claim, and `resp` names the run whose response is stored.
`aged` and `expired` say that the 30 s window, or `expires_at`, has passed.
`pc[a]` is where a request is, with one action per statement that is awaited:
`ClaimWon`/`ClaimLost` (CLAIM_SQL), `Fetch` (FETCH_SQL and the decision on what
it read), `Reclaim` (RECLAIM_SQL), `Begin` (beginWork), `Savepoint` and
`Execute` (the SAVEPOINT of withTransaction and one write of the handler),
`Store`/`SettleCommit`/`SettleLost`/`SettleFail`/`Release` (settle), and `Abort`
and `AbortRelease` (onRequestAbort). `Lose` is the end of the process or of a
database session. `pend[c]` holds the writes of the transaction open on client
`c`, the stored response among them; `applied` those that are committed. Data is
abstracted to the identity of a write: which run of which key wrote which
statement of which body.

STORE_RESPONSE_SQL and COMMIT are two actions. Between them the UPDATE holds the
lock of the row, so a claim, a reclaim or the prune of that key waits
(`Locked`); another handler on the same client does not. A statement of the
preHandler needs a free pool client; `PoolTimeout` is the ten-second refusal.

*Strays.* After an abort the handler runs on, on a client that is back in the
pool and that another request may have by then: `StraySavepoint`,
`StrayExecute`, `StrayRelease`, and, where it throws, the catch of
withTransaction, `StrayThrows`, `StrayUndo` (ROLLBACK TO SAVEPOINT) and
`StrayUndone` (RELEASE). `saves[c]` is the stack of savepoints of the
transaction open on `c`, all of one name, each with what was pending when it was
set: ROLLBACK TO goes back to the latest, whoever set it. `broken[c]` says that
a statement of that transaction has failed, so that PostgreSQL refuses all
others; `StoreFails` is settle in such a transaction, which releases the client
without a ROLLBACK, and `PoolBroken` the next request that gets that client. A
STORE or COMMIT that fails with its connection is `Lose`, before it or after it.
A stray that reaches a client left open by `StoreFails` finds nothing to go back
to: what was pending there can no longer be committed.

Two constants describe the surroundings. `Aborts`: the framework reports a
client gone mid-handler (Fastify does so only while the request stream has not
ended, for instance during a multipart upload). `Direct`: the handler writes
through `getPool()`, as `createServiceCall`, `createCompany`, `createCustomer`,
employee creation, the catalog and consent inserts and `ingestPings` do.

### IntentDelivery

`createIntentWriter`: `pinned` is the closure's `key`. `Send` pins before the
request leaves; `SendLost` is a request that never arrives; `NotReached` is
status 0, whatever the server is doing meanwhile; `ServerFailed` a 5xx;
`Refused` any other 4xx, the guard's own 409 included; `SendRefused` a 401 or
429 answered before the guard (`Gate`). The user keeps pressing the button and
does not edit the form. A press while an attempt is still out is left to the
`submitting` state of the screen: `key ??= await uuid()` has an await between
the check and the pin, and two presses in that gap would draw two keys.

### CashDay

`rec[d]` is the committed row of an employee-day. A transaction takes its row
(`Insert`, `LockById`, `LockCompletion`), decides, and commits or is lost. The
UPDATE and the audit row become visible together at `Commit*`. `Probe` is
`lockCoveringReconciliation`: `SELECT ... WHERE status = 'confirmed' FOR UPDATE`
neither locks nor waits for a row whose committed status is another.
`Complete` files a completion and asks nothing of the day, as in the code.

### JobCards

`card`, `trail`, `closed` are the committed rows. An operation is asked, checks
the technician without a lock (`FindTechnician`), locks its cards in id order
(`LockNext`, with `Allowed` for what each operation asks of the locked row),
draws a number (`Allocate`), commits (`Commit`) and wakes (`Notify`). With
`Keyed`, the operation is inside a request transaction and `Commit` comes after
`Notify`, because the COMMIT is in `settle`; every mutation the app sends is so
(apiClient.ts adds a key where the caller gives none). Callers without a key
pass the guard by; for them `Notify` comes after `Commit`. `CheckOpenWork` is
the deactivation check. Cancelling an unassigned card fails on the constraint
`job_assignment_coherent`, so `Allowed` refuses it. `amendCompletion`'s own
event is left to `CashDay`; it does not move the card.

### SalesLedger

`card[c]`, `payment[p]` and `seq` are committed rows. `Ask` is the arrival of a
request; `LockRow` is lockSale or lockPayment with the checks made under the
lock (`Allowed`), `FindCard` the plain read of the card a payment is collected
against, `Allocate` the draw of a number, whose row of `sequences` stays locked
to the end, `Insert` the INSERT of a payment, whose foreign key holds the card's
key until the commit. `Commit` shows what was written; `Lost` is a rollback at
any point. The touch trigger moves `version` where the row of the card is
updated; `updateSaleFields` issues no UPDATE where only the lines change, so the
version then stays (`Rewritten`).

### Registers

`row[i]` is the committed row with id `i` of `customer_products`,
`service_contracts`, `customers`, `companies`, `employees`, `products` or
`services`; `puts` of a transaction is what it has written and not yet
committed. `Register` gives each operation the table it writes, `Changed` and
`Fresh` the row it leaves or makes, `Clash` the rows that may not both stand.

A transaction does what PostgreSQL lets it do at READ COMMITTED. `LockItem` is
every `SELECT ... FOR UPDATE` of a row by id, with the checks made under it
(version, `Stands`, `Permitted`). `Look` reads committed units by serial; where
the row found is locked it waits, and `Wake` looks at that row again and at no
other. `Find` is a plain SELECT (findOverlapping, findActiveByName). `Write`
waits for every uncommitted row that would decide the unique index or the
exclusion constraint (`InDoubt`), and is refused where the row is taken.

| operation | code |
|---|---|
| `install`, `correct`, `remove` | addStackItem and the serials of a completion in the order of the input, patchStackItem, deleteStackItem |
| `sign`, `amend`, `cancel` | createContract, patchContract (own row first, then the customer, and only where the term moves), cancelContract |
| `relocate` | patchCustomer, which locks the row contracts lock |
| `open`, `edit`, `move` | createCompany (a representative becomes the owner), patchCompany under the row scope, patchOwner with its audit row |
| `update` | update of an employee: the version is compared, and the path chosen, on a row read before the transaction (`ReadEmployee`); a deactivation looks at the companies he owns (`FindOpenWork`); the UPDATE names the row only |
| `list`, `revise` | create and patch of a product or a service, with the retirement |

createCompany and the creates of the catalogue write through `getPool()`, so
their COMMIT follows the INSERT at once; in the module something may come
between, which only adds behaviours. A client sends the version it read when it
asks; what makes it stale happens while the request is on its way. `Permitted`
takes the lock of a company and the separate SELECT of its new owner as one
step, so no deactivation comes between those two; the gap between that SELECT
and the COMMIT, where `OwnersWork` fails, is there.

### Sessions

`token[t]` is a row of `refresh_tokens`; tokens are given out in order and the
access token of a rotation goes by the same integer. A request in slot `x`
travels, runs and is answered; `Present` is findRefreshTokenForUpdate with the
five outcomes of `refresh`, `Rotate` the insert, markReplaced and the COMMIT,
`Revoke` the UPDATE of revokeChainFrom or revokeAllForEmployee on the rows of
its snapshot (`hits`) and the refusal thrown after the commit. `Verify` and
`Mint` are the login, `RevokeOne` the logout, `OfficeActs` a deactivation or a
new password. On the handset `call[c]` is a call of `request` with its one
retry, `flight` the promise of `refreshOnce`, `store` the token store, `user`
the actor the screens show. `Crash` kills the app: what it had in memory goes,
the store and the requests at the server stay, and `bootstrapSession` reads the
store.

### LocateNow

`request[r]` is the row; `opening` says that createRequest is between its INSERT
and `RecordPushOutcome`, which writes the row whatever it has become. `Sweep` is
the UPDATE of expireLocationRequests. `Send` posts the oldest rows of the buffer,
which stay in it; at the server `Disabled`, or `Insert` with the verdicts, then
`Fulfil`; `Acknowledge` reaches the drain if it still waits, `Prune` removes the
rows of the acknowledged drain. `PostLost` ends the process between any two of
these, `GiveUp` is an answer that never came.

`now` is the clock of the server. A ping has a rowid of the buffer, the time the
handset stamps on it (`at`, `recorded_at`), which is off by anything from
`-Behind` to `Ahead`, its source, and, for the properties, the server's time at
the fix (`taken`) and whether the live window was up (`live`). `Rejected` has
the verdicts FUTURE (ahead by more than `Skew`), TOO_OLD and OUT_OF_WINDOW; of
pings with one `recorded_at` the first is stored and the others are DUPLICATE.
`Mode` is the mode of the requests; only `live` does anything on the handset,
which has no answer to a `fix`. Of the live window only the flag on the fixes is
modelled, not its timer and its revert. `Sources` are the sources clients of the
intake stamp. The handset of this repository stamps `scheduled` only, so in the
shipped system no ping answers a request; `on_demand` is in the run that asks
what the intake does with an answer, as its integration tests do.

### HeldWakes

`held[h]` is a row of `held_notifications`. `AssignmentChanged` looks at the
clock once for all recipients, `Notify` deals with one: his switch, the wake at
once, or the row. `BootSweep`, `Arm`, `Ring` are startReleaseScheduler and its
timer; a batch goes through `List`, `Mark`, `WakeEmployee` and `Finish`, or
`Fail`s; `Unheard` is the UPDATE of markAllReleased that commits while its
answer is lost, which marks rows nobody is woken for. `Stop` ends the process
anywhere. `open` is the clock, which is read afresh where the code reads it: the
window may open between the boot sweep and the computation of the next opening,
and that morning has then no batch. `night` remembers whether a row was inserted
outside the window.

## 3. Runs and bounds

| run | bounds | shows |
|---|---|---|
| `guard` | 1 key, 2 requests, 2 bodies, 2 clients, 2 statements, 3 claims, 1 prune of an answer | all guard safety, and that it implements `OncePerKey` |
| `guard_abort` | 1 key, 2 requests, 1 body, 1 client, 2 claims, `Aborts` | stored answers stand next to stray handlers, and `NotPoisoned`; that fresh claims do is proved |
| `intent` | 2 keys, 2 requests, 2 claims | the writer's promises |
| `cash` | 1 day, 1 job, 2 transactions, 2 amounts, versions up to 3 | cash safety and `EveryTxEnds` |
| `cards` | 2 cards, 1 technician, 2 operations, versions up to 3 | keyed: numbers and that they implement `NumberSeries`, successors, bulk order, termination |
| `cards_wake` | 1 card, 2 technicians, 1 operation, keyed | finding |
| `cards_life` | 1 card, 2 technicians, 2 operations, versions up to 5 | not keyed: the whole life of a card under every race |
| `ledger` | 2 cards, 1 payment, 2 contents, 2 transactions, versions up to 4 | gapless numbers and that they implement `NumberSeries`, what stands |
| `registers` | 2 of everything, 2 days, 2 transactions, versions up to 3 (customers and employees: 2), `Apart` | one place per serial, one AMC a day, one name each, who owns a company |
| `sessions` | 2 employees, 2 calls, 2 requests, 3 tokens, 1 trouble, both expiries | chains, the session of the handset, `CallsEnd` |
| `locate` | 1 request, 2 posts, 1 drain at a time, batches of 1, 2 pings, 3 ticks of which 2 in the window, a deadline of 1, a skew of 1, a clock ahead by up to 2, 2 sources | no gap in the trail, what an answer says of its age, and `RequestsClose` |
| `held` | 2 employees, 2 rows, 2 calls, 2 troubles | every row is released, every night row woken |

Why these are enough: all conflicts in this code are between two parties over
one row (a claim and its taker, an owner and an employee, two dispatchers), so
two requests or two transactions reach every pairing of operations, and a third
only repeats one. Two statements distinguish a whole run from half of one. Three
claims allow an owner, a taker and a late return. Two cards are needed for bulk
assigns and successors; two technicians for a reassignment; version 5 is a card
created, assigned, reassigned, started and closed. Two sites, units and serials
are the least at which a serial can stand elsewhere and two completions can
take the same serials in opposite order; two days are enough for terms that meet
in one day, contain each other, or miss each other. A closing of a card races one
other operation and raises one successor. In `cards` the technician does not act
himself, so of `ActsOnWhatIs` it exercises the versions; the part about whose
the card is, is proved (`ActsOnCurrent`). Three tokens are a login and
two rotations, or a rotation and a second login. Three ticks are a ping before a
request, one while it is open, and its deadline; a batch of one makes a backlog;
a clock ahead by 1 passes the intake at once, one ahead by 2 is FUTURE at first,
and two fixes a tick apart can carry one `recorded_at`.
A drain that gives up leaves its batch at the server, and the next one sends the
same rows in the second post: batches overlap where they are taken in. That two
drains wait at once (the task's and the foreground's) is left to the proof of
`Trail`, which holds for any number of them; one request suffices, since none
looks at another. `Behind` is 0 in the
runs: a slow clock only makes a ping TOO_OLD sooner or keeps it from answering.
Two held rows and two calls allow one employee with two rows and two employees
with one each, and a row inserted while a batch runs.

The bounds: `MaxRuns`, `MaxEpoch` (guards of `Take` and `Prune`), `MaxVersion`
(counts as a refusal), `Sent` (the operations clients request), `MaxToken` (a
rotation beyond it fails), `MaxTrouble`, `MaxAge`, `MaxTime`, `LastDay`,
`MaxPings`, `Room` (a hold has a row; a card has versions left), `MaxPlain` (the
same for customers and employees). `Apart` keeps one behaviour of `Registers` to
one of the `Groups`, which share no row and read none of each other's, but for
the customer of equipment, whose row equipment does not take. The pool of ten is
one or two clients, so that it can run out. What the proofs establish does not
depend on any of them.

Deadlock is checked except in `intent`, where the form is closed once the user
has read "saved", and in `locate`, where time ends at `MaxTime`.

The `Sent` sets split the operations between `cards` and `cards_life` to keep
each within minutes; every operation is in one of them, and `create`, `assign`
and `bulk` in both.

### Fairness

- `Idempotency!FairSpec`: weak fairness of a request's own steps (Node runs what
  can run; statements return or fail), weak fairness of the passing of the
  window, strong fairness of clients sending a request again (users and screens
  retry what failed). `NotPoisoned` moreover assumes that losses stop at some
  point and that the bound on claims is not reached.
- `CashDay!FairSpec` and `JobCards!FairSpec`: strong fairness of each
  transaction's steps, because PostgreSQL queues the waiters of a row and each
  gets its turn. Nothing forces a rollback, and PostgreSQL's deadlock detector
  is not used: `EveryTxEnds` holds without it.
- `Sessions!FairSpec`: weak fairness of the two event loops and of the request
  that is in flight. Nobody has to log in, call or fail.
- `LocateNow!FairSpec`: the clock and the one-minute timer of the sweep run, and
  a createRequest comes to its end or is lost with its process. No push, ping or
  batch has to arrive: `RequestsClose` rests on the sweep alone.
- `HeldWakes!FairSpec`: day and night follow each other, a process that is down
  is started, its timers fire, and the statements of a batch return or fail.
  Failures are bounded by `MaxTrouble`, so one batch succeeds in the end.

### Where the code and its promises part

One run expects a violation, and `PROJECT.json` lists it as a finding with the
lines it contradicts. `cards_wake`: under an Idempotency-Key, which every mutation
of the app carries, the COMMIT is in `settle`, after the handler has sent the
wake. The comments of jobs/service.ts say that the wake leaves after the COMMIT.

The following properties are stated in their modules and do not hold either;
putting the property into the named cfg, with the constant given, makes TLC
print the counterexample. Three of them contradict a sentence of the code, quoted
below the table.

| property | cfg and change | what happens |
|---|---|---|
| `AnswerMeansApplied` | `MCIdempotencyAbort` | a handler whose client vanished throws on a client another request has by then: its ROLLBACK TO SAVEPOINT undoes what that request has written, and the request commits its stored answer without it |
| `VanishedLeavesNothing` | `MCIdempotency`, `Aborts = TRUE` | a handler whose client vanished keeps writing on a released client |
| `CommitTogether` | `MCIdempotency`, `Direct = TRUE` | a handler that writes through `getPool()` commits without the stored answer, and its retry writes again |
| `RefusedMeansNothing` | `MCIntentDelivery`, `Gate = FALSE` | the 409 of a key in flight clears the pin although the first attempt then commits |
| `SignedDayStands` | `MCCashDay` | `lockCoveringReconciliation` cannot see a confirm that has not committed: a completion is corrected under a day that is being signed |
| `NoOrphanWork` | `MCJobCards` | an assignment and a deactivation pass each other's check |
| `EditsWhatWasSeen` | `MCSalesLedger` | a patch of the lines only does not move the version the next patch is compared with |
| `RefusedElsewhere` | `MCRegisters` | an install that loses the race for a serial to one at its own site is told that the serial stands elsewhere |
| `OwnersWork` | `MCRegisters` | a company opened by, or handed to, an employee who is being deactivated ends up with an owner who is gone |
| `EditsEmployeeSeen` | `MCRegisters`, `MaxPlain = 3` | two edits of an employee pass on one version |
| `EverySessionEnds` | `MCSessions` | a rotation that commits after the snapshot of a revocation leaves a live token |
| `StoreIsTheUsers` | `MCSessions` | a refresh that was in flight over a logout puts the session back into the store |
| `OneTerminalWrite` | `MCLocateNow` | the push outcome is written over a row that the sweep or a ping has closed |
| `LiveFixAnswers` | `MCLocateNow`, `Mode = "live"`, `Sources = {"scheduled"}` | the handset stamps the fixes of the live window `scheduled`, and only `on_demand` and `live` pings answer: a request is closed as unanswered however well the handset answers |
| `HoldsAreWoken` | `MCHeldWakes` | a row inserted between the list and the mark of a batch is marked and never woken |

The three: jobs/repo.ts:397-404 says that the day is "locked FOR UPDATE like the
completion row, so a concurrent confirm waits rather than signing a day whose
figure is mid-move" (`SignedDayStands`); plugins/idempotency.ts:28-30 says "never
a response for work that rolled back" (`AnswerMeansApplied`; it takes an abort the
framework reports while a handler runs, and a pool that hands the client out again
at once); location/service.ts:164-165 says "A device answering a locate-now request
arrives as an `on_demand` (fix) or `live` ping" (`LiveFixAnswers`). With a handset
that stamped an answering source, a process that ends between the INSERT of the
pings and fulfilOpenRequests would still leave the request unanswered by them: the
retry is all DUPLICATE.

Comments that say something else than the code, read while modelling:
`lib/sequences.ts` says that a rolled-back transaction still consumed its value,
but every caller passes its own client, so the row of `sequences` rolls back too
(`Gapless`, `NumbersInOrder`). `contracts/repo.ts` says the customer row is
locked at the top of every contract write; a cancellation and a patch without a
term do not take it, and an amendment takes it second (`Registers`; no property
suffers). `NOT_REACHED_MESSAGE` says that nothing was saved, which the app
cannot know.

## 4. Proofs

`tlapm` proves, for every value of the constants (where a theorem has a
hypothesis on them, it is named below), every safety property the passing runs
check. (`AllOrNothing` and `NumbersDistinct` are proved and not
run: the refinements `OnceOnly` and `NumbersInOrder` imply them.) Each proof
follows one pattern: an invariant that is inductive, one lemma per action, and
the properties read off it; an action property by cases on the few actions that
touch what it speaks of. No theorem uses the fairness; the assumptions on
constants are the named ones of each module (the null value is no member of the
sets, a bound is a natural number, tables do not share ids, cards are finitely
many), which TLC evaluates in the runs.

**Idempotency_proofs** works upwards from what needs least.

*No assumption on the surroundings.* `TypeCorrect`: typing is not inductive by
itself (a request in `work` must have a client), so it is proved with `Shape` as
`TypeInv`. `AnswersStand`: of the steps that write a row, those of a claim need
the row free or unanswered, and those of a settling request need its claim in
the row. `FreshClaimsLast`: a claim inside its window is taken by nobody. It
needs `ClaimsInv` (a `locked_at` is given out once, so an own claim is never met
in another's hands) and `StaleInv` (a request about to reclaim saw the row past
its window, and whatever makes the row young again gives it another
`locked_at`). All three hold next to strays and to writes past the transaction;
`RowKept` is the lemma that a claim stays in the row as long as no claim, reclaim
or prune meets its key. Between STORE and COMMIT a stray can come; the row is then
stamped at the COMMIT only if the stored response is still pending.

*Under `Managed`* (`~Aborts /\ ~Direct`; `AnswerMeansApplied` and `CommitTogether` in the table above
show that both are needed): `OnceCorrect`,
`AnswersCorrect`, `TogetherCorrect`, `WholeRuns` and `GuardRefines` follow from
`OnceInv`:

- `ClientInv`: a request that works owns the client it holds, and no other does;
- `PendInv`: the writes pending on a client are exactly those its owner has
  executed so far in this run;
- `ClaimInv`: tokens are drawn once, so two requests never hold one claim, and
  a run that was answered is nobody's claim;
- `CommitInv`: what is committed was granted, and an answered key has the whole
  run behind it, and nothing else in its epoch;
- `LockInv`: from its STORE to its COMMIT a request still holds its claim, since
  whatever would take it waits for the lock of the row;
- `AtMostOnce` and `AnswerMeansApplied` themselves. `CommitTogether` is read off
  `CommitInv`.

The step that commits (`SettleCommit`) is the heart: `LockInv` and `ClaimInv`
say that no other run has committed for the key, `PendInv` that the
run is whole.

*The writer, under `Managed`.* `WriterUsesGuard`: the writer is one more client
of the guard, `WriterSpec => Spec`, so all of the above holds behind it.
`WriterInv` adds what the writer knows: the request it waits for carries the
form, and, until a 4xx was answered, `OneKey`: one key is pinned, and every
request and every committed row is under it. `SavedMeansSaved` then is
`AnswerMeansApplied` for the request that was waited for, and
`RetriesRepeatNothing` is `AtMostOnce` for the one key. After a 4xx the pin is
cleared and the second does not hold in general (`RefusedMeansNothing` above).

**CashDay_proofs.** `LockInv` is inductive with `TypeOK`: a transaction past its
lock is the only one that holds the row, and what it read still is what is
committed. From it `AnswerStandsCorrect`, `TrailCorrect`, `AmendCorrect` and
`OpenCorrect` follow by cases on the commit actions.

**JobCards_proofs.** `Orderly` is `TypeOK`, the count `Cardinality({cards}) =
seq`, the three properties of the rows, and for each operation `Sound(t)`: it is
`Shaped` by its kind and phase, and as long as its writes are its own it is
`Holding` every card it has accepted, locked and as it was read, and the
sequence as it drew from it; once committed it has `Passed` the versions it
read. The count is what makes the numbers work: the number drawn is `seq + 1`,
held to the commit, and the commit adds one card to the set. With it
`NumbersAreGapless` follows, which says more than the runs check: n cards with n
distinct numbers in `1 .. n` use each of them. `CardsImplementSeries` maps the
numbers of the cards to `NumberSeries`: the commit of a create, or of a
cancellation that raises a successor, is one `Issue`, every other step a
stutter. `ActsOnCurrent` and `NobodyIsOusted` are `Holding` at the commit. All
of them hold with and without a key.

**SalesLedger_proofs.** `LedgerCorrect`: `Ledger` is inductive. `Gapless` alone
is not: a commit adds the number its transaction drew, so one needs that a drawn
number is still the next of its sequence, and that no other transaction has
drawn one (`Sound`: the row of `sequences` is held from the draw to the end).
`NumberedWhenConfirmed` needs in the same way that a card checked under its lock
is still what it was. The commit is proved per operation, over three lemmas on
what a row that was added, or changed with its number kept, does to the set of
numbers. `StandCorrect` follows: a step that changes a document is a commit, and
`Sound` says that its card was a draft, or confirmed and to be voided.
`LedgerImplementsSeries` maps the numbers of the cards and those of the payments
to a `NumberSeries` each: a confirm is an `Issue` of the one and a stutter of
the other.

**Registers_proofs.** `Standing` speaks of committed rows; its induction has to
speak of those about to be committed too. `Kept` therefore says `NoClash` of
every pair of rows of a table that are committed or written by anybody
(`Writ(i)`), which `Write` preserves because it waits for every row `InDoubt`,
and which a commit or a rollback only makes easier. With it go `Rows` (a row is
of the kind of its id), and of each operation `Shaped`, `Holds` (the row it
corrects is locked by it, stands and has the version it was asked with), `Puts`
(a row it has written is new and its own, or held, and says the same of site,
owner and retirement as the row that stands) and `Days` (days of a contract are
new only under the lock of the customer, and what was found free under it still
is). `RowsStand`, `RowsStayPut` and `CorrectsTheRowSeen` follow. The proof
asked for one assumption no run could show missing: that the ids of the six
tables are disjoint (`RegistersAssumption`).

**Sessions_proofs.** `Bound` is inductive: `Served` (the chains are lines, and a
rotation in progress holds a token that is still live and as it was read),
`Held` (the handset names tokens that were issued, and waits only for requests
that are in progress) and the ranges of the rest. `ChainsStand` is read off it,
`RevocationLasts` follows per action, over one lemma per way the tokens change.
`SessionLasts` needs a second invariant, `Calm`, for as long as nothing that may
end the session has happened: the token of the store is the live end of its
chain until the answer of the refresh in flight is in, then the answered one is,
and the only request there can be is that refresh. Both hold for any number of
calls that share one flight. The proof needs `MaxToken >= 1`: the handset starts
signed in with token 1.

**LocateNow_proofs.** `Sound` is `Trail` with what the induction needs besides:
the buffer holds only recorded pings, a rowid is one ping's, no ping is further
ahead of the server than `Ahead`, and a request that is being opened is there.
The interesting steps are `Insert` (a ping of a batch is stored, was stored
already, or has its verdict, the DUPLICATE of another ping included), `Prune`
(only what was acknowledged leaves the buffer) and `Tick` (what passed as not yet
FUTURE stays so). `TrailStands` holds for any deadline, window, size of batch,
skew and clock. It says of an answer what the code can know: the ping *says* it
was recorded after the request. By the server's clock it may be older, by up to
`Ahead`; the skew the intake allows (five minutes) is longer than the two
minutes a fix request waits.

**HeldWakes_proofs.** `DischargedCorrect`: `Discharged` is inductive.
`NightHoldsAreWoken` needs that what a batch marks it has listed
(`BatchesApart`), which holds because one batch at a time is between its two
statements, and by night none is (`Scheduled`). `WokenOnce` needs that the rows
of two batches that wake are apart, and that a row still to be woken for has not
been. The window is taken to be longer than the two statements of a batch (guard
of `Dusk`).

The strengthened invariants were model-checked on the instances of the runs
before they were proved (`ClaimsInv` and `StaleInv` with aborts, and both values
of `Direct`).

**Only model-checked**: liveness (`NotPoisoned`, `EveryTxEnds` of `CashDay` and of
`JobCards`, `CallsEnd`, `RequestsClose`, `HeldIsReleased`), which is out of the
prover's reach, as are ENABLED and induction over data. The property of the
finding and those of the table of section 3 do not hold and have no theorem;
`AnswerMeansApplied` has one for the case in which it holds (`Managed`).

## 5. Not modelled

Validation, authorisation by role, formatting, request and response shapes,
rendering: most of the repository's lines are screens, schemas, SQL that
reads, and tests, which keep no state that interleaves. Job completion's parts
and services and the site pin; the checks of createJob against customers and
services. The creation of employees and of customers, the unconfirmed cash of
a deactivation, the devices table and the push tokens. Devices, consents,
flags, service calls. Attachments: an object is put before its row is
inserted, and an orphan object is garbage without effect. The clock skew
between the API host, which judges the window, and the database, which stamps
`locked_at`: `aged` may become true at any time, which covers it. A COMMIT
that fails after it was sent: it appears as `Lose` before or after
`SettleCommit`, and as `Lost`, `Abort` elsewhere. What `StoreFails` does to a
transaction that is not broken (a STORE or COMMIT that fails on a connection
that lives on, and is released without a ROLLBACK). `withReadSnapshot` of the
technician's work, the one REPEATABLE READ transaction, which reads only. The
drain of the last sends at a shutdown (`drainNotificationSends`), which
nothing calls. Hash collisions. `PROJECT.json` gives the reason for each
component.

## 6. Plan

1. Proofs: what the guard promises without `Managed`, stated per request
   (the run of a request that was not aborted is whole).
2. The site pin and the link of a job to its contract; device tokens and the
   push that clears a token registered meanwhile.
3. The answers of a rename that meets a taken name: patchCompany reads the
   winner in the transaction that the unique index has aborted, so the client
   gets a 500 and not the refusal of the create.

----------------------------- MODULE LocateNow -----------------------------
(***************************************************************************)
(* Where is he now: the owner's locate-now request and its sweep, the      *)
(* intake of position pings that answers it                                *)
(* (apps/api/src/modules/location/service.ts, repo.ts,                     *)
(* jobs/expire-location-requests.ts), and the ping buffer of the handset   *)
(* (apps/mobile/src/location/buffer.native.ts, task.native.ts,             *)
(* live-window.ts).                                                        *)
(*                                                                         *)
(* One tracked employee, one handset.  The intake, the request and the     *)
(* sweep write through the pool: every statement commits by itself, and    *)
(* the process may end between two.  Time is a count of ticks of the       *)
(* server's clock; the handset's may be behind it or ahead of it, by       *)
(* something else at each fix.                                             *)
(***************************************************************************)
EXTENDS Integers, FiniteSets

CONSTANTS
  Requests,   \* ids of locate-now requests
  Mode,       \* their mode: "fix" or "live"
  Posts,      \* slots for batches at the server
  Flushes,    \* drains of the buffer that can overlap: the task's, the foreground's
  Sources,    \* the sources clients of the intake stamp on their pings; the handset of
              \* the app stamps "scheduled" whatever its cadence (task.native.ts:69)
  BatchSize,  \* pings a batch takes at most
  Window,     \* the ticks inside the work window
  TTL,        \* how long a request waits for an answer
  MaxAge,     \* age at which a ping is TOO_OLD
  Skew,       \* how far ahead of the server's clock a ping is not yet FUTURE
  Behind,     \* how far recorded_at can be behind the server's clock at the fix: a slow
              \* clock, or a fix the OS delivers late
  Ahead,      \* how far it can be ahead
  None,
  MaxTime,    \* bound: ticks; a request is asked while its deadline is within it
  MaxPings    \* bound: pings recorded

VARIABLES
  now,
  \* the server
  request,    \* request[r]: the row of location_requests, or None
  opening,    \* requests whose createRequest has not recorded the push outcome
  stored,     \* the rows of location_pings
  post,       \* post[x]: a batch being taken in, or None
  \* the handset
  buffer,     \* rows of location_ping_buffer
  flush,      \* flush[f]: a drain that waits for its batch, or None
  \* history
  recorded,   \* every ping the handset put in the buffer
  refused     \* every ping the server gave a final verdict against

vars == <<now, request, opening, stored, post, buffer, flush, recorded, refused>>
server == <<request, opening, stored, post>>
handset == <<buffer, flush, recorded>>

Time == 0 .. MaxTime
Answering == {"on_demand", "live"}
\* id: the rowid of the buffer; at: recorded_at; taken: the server's time at the fix;
\* live: whether the live window was up.
Ping == [id : 1 .. MaxPings, at : Int, source : {"scheduled"} \cup Answering,
         taken : Time, live : BOOLEAN]
\* fulfilled: the ping of fulfilled_ping_id; reason: failure_reason.
Request == [at : Time, expires : Time, pushed : BOOLEAN,
            fulfilled : Ping \cup {None}, reason : {None, "push", "unanswered"}]
\* answer: the landed ping that may answer requests.
Post == [batch : SUBSET Ping, phase : {"sent", "landed"}, answer : Ping \cup {None}]
Flush == [rows : SUBSET Ping, post : Posts, phase : {"sent", "acknowledged"}]

ASSUME LocateAssumption ==
  /\ Sources \subseteq {"scheduled"} \cup Answering /\ Mode \in {"fix", "live"}
  /\ BatchSize \in Nat \ {0} /\ TTL \in Nat \ {0} /\ MaxAge \in Nat /\ MaxTime \in Nat
  /\ Skew \in Nat /\ Behind \in Nat /\ Ahead \in Nat /\ MaxPings \in Nat
  /\ Window \subseteq Int
  /\ None \notin Ping \cup Request \cup Post \cup Flush

TypeOK ==
  /\ now \in Time
  /\ request \in [Requests -> Request \cup {None}]
  /\ opening \subseteq Requests
  /\ stored \subseteq Ping
  /\ post \in [Posts -> Post \cup {None}]
  /\ buffer \subseteq Ping /\ recorded \subseteq Ping /\ refused \subseteq Ping
  /\ flush \in [Flushes -> Flush \cup {None}]

Init ==
  /\ now = 0
  /\ request = [r \in Requests |-> None] /\ opening = {}
  /\ stored = {} /\ post = [x \in Posts |-> None]
  /\ buffer = {} /\ flush = [f \in Flushes |-> None]
  /\ recorded = {} /\ refused = {}

-----------------------------------------------------------------------------
(* The request. *)

Closed(row) == row.fulfilled # None \/ row.reason # None

\* createRequest: the row, before any push.
Open(r) ==
  /\ request[r] = None
  /\ now + TTL <= MaxTime
  /\ request' = [request EXCEPT ![r] =
       [at |-> now, expires |-> now + TTL, pushed |-> FALSE, fulfilled |-> None, reason |-> None]]
  /\ opening' = opening \cup {r}
  /\ UNCHANGED <<now, stored, post, handset, refused>>

\* The sends are over, one accepted or none: recordPushOutcome, on whatever the row has
\* become.
RecordPushOutcome(r, reason) ==
  /\ r \in opening
  /\ request' = [request EXCEPT ![r].pushed = TRUE, ![r].reason = reason]
  /\ opening' = opening \ {r}
  /\ UNCHANGED <<now, stored, post, handset, refused>>

\* The process ends in the middle of the sends.
OpeningLost(r) ==
  /\ r \in opening
  /\ opening' = opening \ {r}
  /\ UNCHANGED <<now, request, stored, post, handset, refused>>

Overdue(r) == request[r] # None /\ request[r].expires <= now /\ ~Closed(request[r])

\* Mutant: the sweep closes only what was pushed.
Sweep_Pushed ==
  /\ \E r \in Requests : Overdue(r) /\ request[r].pushed
  /\ request' = [r \in Requests |->
       IF Overdue(r) /\ request[r].pushed THEN [request[r] EXCEPT !.reason = "unanswered"] ELSE request[r]]
  /\ UNCHANGED <<now, opening, stored, post, handset, refused>>

\* expireLocationRequests, at boot and every minute.
Sweep ==
  /\ \E r \in Requests : Overdue(r)
  /\ request' = [r \in Requests |->
       IF Overdue(r) THEN [request[r] EXCEPT !.reason = "unanswered"] ELSE request[r]]
  /\ UNCHANGED <<now, opening, stored, post, handset, refused>>

-----------------------------------------------------------------------------
(* The handset. *)

\* A fix: the window filter, the flag if it has been heard of, the append under the next
\* rowid.  Its clock is off by off.  The live window can be up once a push has been sent,
\* for five minutes of ten-second fixes.
Record(source, off, live) ==
  /\ now + off \in Window
  /\ live => Mode = "live" /\ \E r \in Requests : request[r] # None
  /\ \E i \in 1 .. MaxPings :
       LET p == [id |-> i, at |-> now + off, source |-> source, taken |-> now, live |-> live]
       IN  /\ \A q \in recorded : q.id < i
           /\ i = 1 \/ \E q \in recorded : q.id = i - 1
           /\ buffer' = buffer \cup {p} /\ recorded' = recorded \cup {p}
  /\ UNCHANGED <<now, server, flush, refused>>

Oldest(S) ==
  {p \in S : Cardinality({q \in S : q.id < p.id}) < BatchSize}

\* flush: the oldest rows go out; they stay in the buffer.
Send(f, x) ==
  /\ flush[f] = None /\ buffer # {}
  /\ post[x] = None /\ \A g \in Flushes : flush[g] # None => flush[g].post # x
  /\ flush' = [flush EXCEPT ![f] = [rows |-> Oldest(buffer), post |-> x, phase |-> "sent"]]
  /\ post' = [post EXCEPT ![x] = [batch |-> Oldest(buffer), phase |-> "sent", answer |-> None]]
  /\ UNCHANGED <<now, request, opening, stored, buffer, recorded, refused>>

\* Mutant: the acknowledgement empties the buffer.
Prune_All(f) ==
  /\ flush[f] # None /\ flush[f].phase = "acknowledged"
  /\ buffer' = {}
  /\ flush' = [flush EXCEPT ![f] = None]
  /\ UNCHANGED <<now, server, recorded, refused>>

\* A 200 is the acknowledgement, verdicts included: the rows that were sent go.
Prune(f) ==
  /\ flush[f] # None /\ flush[f].phase = "acknowledged"
  /\ buffer' = buffer \ flush[f].rows
  /\ flush' = [flush EXCEPT ![f] = None]
  /\ UNCHANGED <<now, server, recorded, refused>>

\* No answer, or none that carries verdicts: the buffer stands.
GiveUp(f) ==
  /\ flush[f] # None /\ flush[f].phase = "sent"
  /\ flush' = [flush EXCEPT ![f] = None]
  /\ UNCHANGED <<now, server, buffer, recorded, refused>>

-----------------------------------------------------------------------------
(* The intake. *)

\* FUTURE, TOO_OLD, OUT_OF_WINDOW.
Rejected(p) == p.at > now + Skew \/ p.at < now - MaxAge \/ p.at \notin Window

\* The 200, if the drain still waits for it.
Acknowledge(x) ==
  flush' = [f \in Flushes |->
    IF flush[f] # None /\ flush[f].post = x /\ flush[f].phase = "sent"
    THEN [flush[f] EXCEPT !.phase = "acknowledged"] ELSE flush[f]]

\* tech.location, which the owner turns off and on as he likes, is off: every ping is
\* DISABLED.
Disabled(x) ==
  /\ post[x] # None /\ post[x].phase = "sent"
  /\ refused' = refused \cup post[x].batch
  /\ post' = [post EXCEPT ![x] = None]
  /\ Acknowledge(x)
  /\ UNCHANGED <<now, request, opening, stored, buffer, recorded>>

\* The verdicts, then insertPings: of one recorded_at the first of the batch lands, and
\* none where one is on disk already.  What has not landed and is not on disk itself has
\* its verdict, DUPLICATE of another ping included.
Insert(x) ==
  LET good == {p \in post[x].batch : ~Rejected(p)}
      first == {p \in good : \A q \in good : q.at = p.at => p.id <= q.id}
      landed == {p \in first : \A q \in stored : q.at # p.at}
      answers == {p \in landed : p.source \in Answering}
  IN  /\ post[x] # None /\ post[x].phase = "sent"
      /\ stored' = stored \cup landed
      /\ refused' = refused \cup (post[x].batch \ stored')
      /\ \E a \in IF answers = {} THEN {None} ELSE {p \in answers : \A q \in answers : p.at <= q.at} :
           post' = [post EXCEPT ![x].phase = "landed", ![x].answer = a]
      /\ UNCHANGED <<now, request, opening, handset>>

Answers(p, r) ==
  /\ request[r] # None /\ ~Closed(request[r])
  /\ request[r].at <= p.at

\* fulfilOpenRequests, if there is an answering ping; then the 200.
Fulfil(x) ==
  /\ post[x] # None /\ post[x].phase = "landed"
  /\ request' = [r \in Requests |->
       IF post[x].answer # None /\ Answers(post[x].answer, r)
       THEN [request[r] EXCEPT !.fulfilled = post[x].answer] ELSE request[r]]
  /\ post' = [post EXCEPT ![x] = None]
  /\ Acknowledge(x)
  /\ UNCHANGED <<now, opening, stored, buffer, recorded, refused>>

\* The batch never arrives, or the process ends between two statements.
PostLost(x) ==
  /\ post[x] # None
  /\ post' = [post EXCEPT ![x] = None]
  /\ UNCHANGED <<now, request, opening, stored, handset, refused>>

-----------------------------------------------------------------------------
Tick ==
  /\ now < MaxTime
  /\ now' = now + 1
  /\ UNCHANGED <<server, handset, refused>>

Next ==
  \/ \E r \in Requests : Open(r) \/ OpeningLost(r)
  \/ \E r \in Requests, reason \in {None, "push"} : RecordPushOutcome(r, reason)
  \/ Sweep
  \/ \E source \in Sources, off \in -Behind .. Ahead, live \in BOOLEAN : Record(source, off, live)
  \/ \E f \in Flushes, x \in Posts : Send(f, x)
  \/ \E f \in Flushes : Prune(f) \/ GiveUp(f)
  \/ \E x \in Posts : Disabled(x) \/ Insert(x) \/ Fulfil(x) \/ PostLost(x)
  \/ Tick

Spec == Init /\ [][Next]_vars

\* The clock and the sweep's timer run; a createRequest records its outcome or is lost.
Fairness ==
  /\ WF_vars(Tick) /\ WF_vars(Sweep)
  /\ \A r \in Requests :
       WF_vars(OpeningLost(r) \/ \E reason \in {None, "push"} : RecordPushOutcome(r, reason))

FairSpec == Spec /\ Fairness

-----------------------------------------------------------------------------
(* Properties *)

\* The trail has no gap the handset or the server made: a recorded ping is in the buffer
\* until the server stores it or gives a verdict against it, whatever drains overlap and
\* whatever answers are lost.
PingsKept == recorded \subseteq buffer \cup stored \cup refused

\* A moment is stored once, however often its batch is sent and whatever the handset's
\* clock does, and nothing is stored that says it is of a later moment than the skew allows.
StoredOnce ==
  /\ stored \subseteq recorded
  /\ \A p, q \in stored : p.at = q.at => p = q
  /\ \A p \in stored : p.at <= now + Skew

\* What answers a request is a stored ping of an answering source that says it was
\* recorded after the request was asked.  By the server's clock it can be older, by as
\* much as the handset's clock is ahead: up to Skew of that the intake lets pass at once,
\* more when the batch comes late.
AnswersAreFresh ==
  \A r \in Requests :
    request[r] # None /\ request[r].fulfilled # None =>
      /\ request[r].fulfilled \in stored
      /\ request[r].fulfilled.source \in Answering
      /\ request[r].fulfilled.at >= request[r].at
      /\ request[r].fulfilled.taken + Ahead >= request[r].at

\* An acknowledged batch has been dealt with: nothing that leaves the buffer on it is lost.
AcknowledgedIsKept ==
  \A f \in Flushes :
    flush[f] # None /\ flush[f].phase = "acknowledged" => flush[f].rows \subseteq stored \cup refused

\* The invariant the proofs rest on.
Trail ==
  /\ TypeOK
  /\ PingsKept /\ StoredOnce /\ AnswersAreFresh /\ AcknowledgedIsKept
  /\ \A x \in Posts : post[x] # None =>
       /\ post[x].batch \subseteq recorded
       /\ post[x].phase = "landed" => post[x].batch \subseteq stored \cup refused
       /\ post[x].answer # None => post[x].answer \in stored /\ post[x].answer.source \in Answering
  /\ \A f \in Flushes, x \in Posts :
       flush[f] # None /\ flush[f].post = x /\ flush[f].phase = "sent" /\ post[x] # None
         => flush[f].rows = post[x].batch

\* A fix of the live window answers (service.ts:164, "a device answering a locate-now
\* request arrives as an on_demand (fix) or live ping"): once the handset has the 200 for
\* a stored one, no request asked before it is still open.  The handset of the app stamps
\* such a fix "scheduled", which answers nothing.
LiveFixAnswers ==
  \A f \in Flushes : flush[f] # None /\ flush[f].phase = "acknowledged" =>
    \A p \in flush[f].rows \cap stored, r \in Requests :
      p.live /\ request[r] # None /\ request[r].at <= p.taken => Closed(request[r])

\* No request is left waiting for ever: it is answered, or closed with a reason, even when
\* its push was never sent, and stays so.
RequestsClose ==
  \A r \in Requests : request[r] # None ~> [](request[r] # None /\ Closed(request[r]))

\* One terminal write per row, whichever came first.
OneTerminalWrite ==
  [][\A r \in Requests :
       request[r] # None /\ Closed(request[r]) =>
         /\ request'[r].fulfilled = request[r].fulfilled
         /\ request'[r].reason = request[r].reason]_vars
=============================================================================

-------------------------- MODULE LocateNow_proofs --------------------------
(***************************************************************************)
(* The trail of a handset and the answers to locate-now requests, for any  *)
(* number of requests, batches, drains and pings, any window and any age.  *)
(***************************************************************************)
EXTENDS LocateNow, TLAPS

\* The inductive invariant: the trail, that the buffer and the opened requests hold
\* nothing that was never recorded or asked, that a rowid is one ping's, and that no ping
\* is further ahead of the server's clock than the handset's clock can be.
Sound ==
  /\ Trail
  /\ buffer \subseteq recorded
  /\ \A p, q \in recorded : p.id = q.id => p = q
  /\ \A p \in recorded : p.at <= p.taken + Ahead
  /\ \A r \in opening : request[r] # None

-----------------------------------------------------------------------------
LEMMA NoneIsNothing ==
  None \notin Ping /\ None \notin Request /\ None \notin Post /\ None \notin Flush
  BY LocateAssumption

LEMMA RequestFields ==
  ASSUME NEW w \in Request
  PROVE  /\ w.at \in Time /\ w.expires \in Time /\ w.pushed \in BOOLEAN
         /\ w.fulfilled \in Ping \cup {None} /\ w.reason \in {None, "push", "unanswered"}
         /\ \A b \in BOOLEAN, s \in {None, "push", "unanswered"} :
              /\ [w EXCEPT !.pushed = b, !.reason = s] \in Request
              /\ [w EXCEPT !.pushed = b, !.reason = s].at = w.at
              /\ [w EXCEPT !.pushed = b, !.reason = s].fulfilled = w.fulfilled
         /\ \A s \in {None, "push", "unanswered"} :
              /\ [w EXCEPT !.reason = s] \in Request
              /\ [w EXCEPT !.reason = s].at = w.at
              /\ [w EXCEPT !.reason = s].fulfilled = w.fulfilled
         /\ \A p \in Ping :
              /\ [w EXCEPT !.fulfilled = p] \in Request
              /\ [w EXCEPT !.fulfilled = p].at = w.at
              /\ [w EXCEPT !.fulfilled = p].fulfilled = p
  BY DEF Request

LEMMA PostFields ==
  ASSUME NEW w \in Post
  PROVE  /\ w.batch \in SUBSET Ping /\ w.phase \in {"sent", "landed"} /\ w.answer \in Ping \cup {None}
         /\ \A a \in Ping \cup {None} :
              /\ [w EXCEPT !.phase = "landed", !.answer = a] \in Post
              /\ [w EXCEPT !.phase = "landed", !.answer = a].batch = w.batch
              /\ [w EXCEPT !.phase = "landed", !.answer = a].phase = "landed"
              /\ [w EXCEPT !.phase = "landed", !.answer = a].answer = a
  BY DEF Post

LEMMA FlushFields ==
  ASSUME NEW w \in Flush
  PROVE  /\ w.rows \in SUBSET Ping /\ w.post \in Posts /\ w.phase \in {"sent", "acknowledged"}
         /\ [w EXCEPT !.phase = "acknowledged"] \in Flush
         /\ [w EXCEPT !.phase = "acknowledged"].rows = w.rows
         /\ [w EXCEPT !.phase = "acknowledged"].post = w.post
         /\ [w EXCEPT !.phase = "acknowledged"].phase = "acknowledged"
  BY DEF Flush

\* What a drain takes with it.
LEMMA OldestIn == \A S : Oldest(S) \subseteq S
  BY DEF Oldest

\* The batch of a drain, as long as the drain waits for it and the batch is there.
Waiting(f, x) == flush[f] # None /\ flush[f].post = x /\ flush[f].phase = "sent" /\ post[x] # None

\* A 200 reaches the drains that wait for batch x: they carry what the batch carried.
LEMMA Acknowledged ==
  ASSUME Sound, NEW x \in Posts, post[x] # None, Acknowledge(x),
         post'[x] = None, \A y \in Posts \ {x} : post'[y] = post[y],
         stored \subseteq stored', refused \subseteq refused', post[x].batch \subseteq stored' \cup refused'
  PROVE  /\ flush' \in [Flushes -> Flush \cup {None}]
         /\ AcknowledgedIsKept'
         /\ \A f \in Flushes, y \in Posts :
              flush'[f] # None /\ flush'[f].post = y /\ flush'[f].phase = "sent" /\ post'[y] # None
                => flush'[f].rows = post'[y].batch
<1>1. /\ flush \in [Flushes -> Flush \cup {None}] /\ AcknowledgedIsKept
      /\ \A f \in Flushes, y \in Posts : Waiting(f, y) => flush[f].rows = post[y].batch
  BY DEF Sound, Trail, TypeOK, Waiting
<1>2. ASSUME NEW f \in Flushes
      PROVE  /\ flush'[f] \in Flush \cup {None}
             /\ flush'[f] # None /\ flush'[f].phase = "acknowledged" =>
                  flush'[f].rows \subseteq stored' \cup refused'
             /\ flush'[f] # None /\ flush'[f].phase = "sent" => flush'[f] = flush[f] /\ flush[f].post # x
  <2>1. CASE flush[f] # None /\ flush[f].post = x /\ flush[f].phase = "sent"
    <3>1. flush[f] \in Flush /\ flush'[f] = [flush[f] EXCEPT !.phase = "acknowledged"]
      BY <1>1, <2>1 DEF Acknowledge
    <3>2. flush'[f] \in Flush /\ flush'[f].rows = flush[f].rows /\ flush'[f].phase = "acknowledged"
      BY <3>1, FlushFields
    <3>3. flush[f].rows = post[x].batch
      BY <1>1, <2>1 DEF Waiting
    <3>4. QED
      BY <3>2, <3>3
  <2>2. CASE ~(flush[f] # None /\ flush[f].post = x /\ flush[f].phase = "sent")
    <3>1. flush'[f] = flush[f]
      BY <2>2 DEF Acknowledge
    <3>2. QED
      BY <1>1, <2>2, <3>1 DEF AcknowledgedIsKept
  <2>3. QED
    BY <2>1, <2>2
<1>3. flush' \in [Flushes -> Flush \cup {None}]
  BY <1>2 DEF Acknowledge
<1>4. ASSUME NEW f \in Flushes, NEW y \in Posts,
             flush'[f] # None, flush'[f].post = y, flush'[f].phase = "sent", post'[y] # None
      PROVE  flush'[f].rows = post'[y].batch
  <2>1. flush'[f] = flush[f] /\ y # x
    BY <1>2, <1>4
  <2>2. post'[y] = post[y]
    BY <2>1
  <2>3. QED
    BY <1>1, <1>4, <2>1, <2>2 DEF Waiting
<1>5. QED
  BY <1>2, <1>3, <1>4 DEF AcknowledgedIsKept

-----------------------------------------------------------------------------
(* The request. *)

\* A step that changes nothing but requests, and neither what answered them nor since when
\* they wait.
LEMMA RequestsGoOn ==
  ASSUME Sound, request' \in [Requests -> Request \cup {None}], opening' \subseteq opening,
         \A r \in Requests : /\ request'[r] = None <=> request[r] = None
                             /\ request[r] # None => /\ request'[r].fulfilled = request[r].fulfilled
                                                     /\ request'[r].at = request[r].at,
         UNCHANGED <<now, stored, post, handset, refused>>
  PROVE  Sound'
<1>1. TypeOK'
  BY DEF Sound, Trail, TypeOK, handset
<1>2. AnswersAreFresh'
  BY DEF Sound, Trail, AnswersAreFresh
<1>3. /\ PingsKept' /\ StoredOnce' /\ AcknowledgedIsKept' /\ buffer' \subseteq recorded'
      /\ (\A p, q \in recorded' : p.id = q.id => p = q) /\ (\A p \in recorded' : p.at <= p.taken + Ahead)
  BY DEF Sound, Trail, PingsKept, StoredOnce, AcknowledgedIsKept, handset
<1>4. \A r \in opening' : request'[r] # None
  BY DEF Sound, Trail, TypeOK
<1>5. post' = post /\ flush' = flush /\ stored' = stored /\ refused' = refused /\ recorded' = recorded
  BY DEF handset
<1>6. QED
  BY <1>1, <1>2, <1>3, <1>4, <1>5 DEF Sound, Trail

LEMMA OpenSound == ASSUME Sound, NEW r \in Requests, Open(r) PROVE Sound'
<1> DEFINE w == [at |-> now, expires |-> now + TTL, pushed |-> FALSE, fulfilled |-> None, reason |-> None]
<1>1. /\ request[r] = None /\ now \in Time /\ now + TTL <= MaxTime
      /\ request' = [request EXCEPT ![r] = w] /\ opening' = opening \cup {r}
      /\ UNCHANGED <<now, stored, post, buffer, flush, recorded, refused>>
  BY DEF Open, Sound, Trail, TypeOK, handset
<1>2. now + TTL \in Time
  BY <1>1, LocateAssumption DEF Time
<1>3. w \in Request /\ w.fulfilled = None
  BY <1>1, <1>2 DEF Request
<1>4. w # None
  BY <1>3, NoneIsNothing
<1> HIDE DEF w
<1>5. request' \in [Requests -> Request \cup {None}] /\ request'[r] = w
      /\ \A q \in Requests \ {r} : request'[q] = request[q]
  BY <1>1, <1>3 DEF Sound, Trail, TypeOK
<1>6. TypeOK'
  BY <1>1, <1>5 DEF Sound, Trail, TypeOK
<1>7. AnswersAreFresh'
  BY <1>1, <1>3, <1>5 DEF Sound, Trail, AnswersAreFresh
<1>8. /\ PingsKept' /\ StoredOnce' /\ AcknowledgedIsKept' /\ buffer' \subseteq recorded'
      /\ (\A p, q \in recorded' : p.id = q.id => p = q) /\ (\A p \in recorded' : p.at <= p.taken + Ahead)
  BY <1>1 DEF Sound, Trail, PingsKept, StoredOnce, AcknowledgedIsKept
<1>9. \A q \in opening' : request'[q] # None
  BY <1>1, <1>4, <1>5 DEF Sound, Trail, TypeOK
<1>10. QED
  BY <1>1, <1>6, <1>7, <1>8, <1>9 DEF Sound, Trail

LEMMA RecordPushOutcomeSound ==
  ASSUME Sound, NEW r \in Requests, NEW s \in {None, "push"}, RecordPushOutcome(r, s) PROVE Sound'
<1> DEFINE w == [request[r] EXCEPT !.pushed = TRUE, !.reason = s]
<1>1. request[r] # None /\ request[r] \in Request /\ request \in [Requests -> Request \cup {None}]
  BY DEF RecordPushOutcome, Sound, Trail, TypeOK
<1>2. request' = [request EXCEPT ![r] = w] /\ opening' \subseteq opening
      /\ UNCHANGED <<now, stored, post, handset, refused>>
  BY <1>1 DEF RecordPushOutcome
<1>3. w \in Request /\ w.at = request[r].at /\ w.fulfilled = request[r].fulfilled
  BY <1>1 DEF Request
<1> HIDE DEF w
<1>4. QED
  BY <1>1, <1>2, <1>3, NoneIsNothing, RequestsGoOn

LEMMA OpeningLostSound == ASSUME Sound, NEW r \in Requests, OpeningLost(r) PROVE Sound'
  BY RequestsGoOn DEF OpeningLost, Sound, Trail, TypeOK

LEMMA SweepSound == ASSUME Sound, Sweep PROVE Sound'
<1>1. request \in [Requests -> Request \cup {None}]
  BY DEF Sound, Trail, TypeOK
<1>2. ASSUME NEW r \in Requests
      PROVE  /\ request'[r] \in Request \cup {None} /\ (request'[r] = None <=> request[r] = None)
             /\ request[r] # None => /\ request'[r].fulfilled = request[r].fulfilled
                                     /\ request'[r].at = request[r].at
  <2>1. CASE Overdue(r)
    <3>1. request[r] \in Request /\ request'[r] = [request[r] EXCEPT !.reason = "unanswered"]
      BY <1>1, <2>1 DEF Overdue, Sweep
    <3>2. /\ request'[r] \in Request /\ request'[r].fulfilled = request[r].fulfilled
          /\ request'[r].at = request[r].at
      BY <3>1 DEF Request
    <3>3. QED
      BY <3>1, <3>2, NoneIsNothing
  <2>2. CASE ~Overdue(r)
    BY <1>1, <2>2 DEF Sweep
  <2>3. QED
    BY <2>1, <2>2
<1>3. request' \in [Requests -> Request \cup {None}]
  BY <1>2 DEF Sweep
<1>4. QED
  BY <1>2, <1>3, RequestsGoOn DEF Sweep

-----------------------------------------------------------------------------
(* The handset. *)

LEMMA RecordSound ==
  ASSUME Sound, NEW source \in Sources, NEW off \in -Behind .. Ahead, NEW live \in BOOLEAN,
         Record(source, off, live)
  PROVE  Sound'
<1>1. PICK i \in 1 .. MaxPings :
        LET p == [id |-> i, at |-> now + off, source |-> source, taken |-> now, live |-> live]
        IN  /\ \A q \in recorded : q.id < i
            /\ buffer' = buffer \cup {p} /\ recorded' = recorded \cup {p}
  BY DEF Record
<1> DEFINE p == [id |-> i, at |-> now + off, source |-> source, taken |-> now, live |-> live]
<1>2. /\ \A q \in recorded : q.id < i
      /\ buffer' = buffer \cup {p} /\ recorded' = recorded \cup {p}
      /\ now \in Time /\ UNCHANGED <<now, request, opening, stored, post, flush, refused>>
  BY <1>1 DEF Record, Sound, Trail, TypeOK, server
<1>3. now \in Int /\ off \in Int /\ off <= Ahead /\ i \in Int
  BY <1>2, LocateAssumption DEF Time
<1>4. p \in Ping /\ p.id = i /\ p.at <= p.taken + Ahead
  BY <1>2, <1>3, LocateAssumption DEF Ping
<1> HIDE DEF p
<1>5. TypeOK'
  BY <1>2, <1>4 DEF Sound, Trail, TypeOK
<1>6. \A q, s \in recorded' : q.id = s.id => q = s
  <2>1. \A q \in recorded : q.id # i
    BY <1>2, <1>3
  <2>2. QED
    BY <1>2, <1>4, <2>1 DEF Sound
<1>7. \A q \in recorded' : q.at <= q.taken + Ahead
  BY <1>2, <1>4 DEF Sound
<1>8. PingsKept' /\ StoredOnce' /\ AnswersAreFresh' /\ AcknowledgedIsKept' /\ buffer' \subseteq recorded'
  BY <1>2 DEF Sound, Trail, PingsKept, StoredOnce, AnswersAreFresh, AcknowledgedIsKept
<1>9. QED
  BY <1>2, <1>5, <1>6, <1>7, <1>8 DEF Sound, Trail

LEMMA SendSound == ASSUME Sound, NEW f \in Flushes, NEW x \in Posts, Send(f, x) PROVE Sound'
<1> DEFINE rows == Oldest(buffer)
           w == [rows |-> rows, post |-> x, phase |-> "sent"]
           b == [batch |-> rows, phase |-> "sent", answer |-> None]
<1>1. /\ post[x] = None /\ \A g \in Flushes : flush[g] # None => flush[g].post # x
      /\ flush' = [flush EXCEPT ![f] = w] /\ post' = [post EXCEPT ![x] = b]
      /\ UNCHANGED <<now, request, opening, stored, buffer, recorded, refused>>
  BY DEF Send
<1>2. rows \subseteq buffer /\ rows \subseteq Ping /\ rows \subseteq recorded
  BY OldestIn DEF Sound, Trail, TypeOK
<1> HIDE DEF rows
<1>3. /\ w \in Flush /\ w.rows = rows /\ w.post = x /\ w.phase = "sent"
      /\ b \in Post /\ b.batch = rows /\ b.phase = "sent" /\ b.answer = None
  BY <1>2 DEF Flush, Post
<1> HIDE DEF w, b
<1>4. /\ flush' \in [Flushes -> Flush \cup {None}] /\ flush'[f] = w
      /\ \A g \in Flushes \ {f} : flush'[g] = flush[g]
      /\ post' \in [Posts -> Post \cup {None}] /\ post'[x] = b
      /\ \A y \in Posts \ {x} : post'[y] = post[y]
  BY <1>1, <1>3 DEF Sound, Trail, TypeOK
<1>5. TypeOK'
  BY <1>1, <1>4 DEF Sound, Trail, TypeOK
<1>6. /\ PingsKept' /\ StoredOnce' /\ AnswersAreFresh' /\ buffer' \subseteq recorded'
      /\ (\A p, q \in recorded' : p.id = q.id => p = q) /\ (\A p \in recorded' : p.at <= p.taken + Ahead)
      /\ \A r \in opening' : request'[r] # None
  BY <1>1 DEF Sound, Trail, PingsKept, StoredOnce, AnswersAreFresh
<1>7. AcknowledgedIsKept'
  BY <1>1, <1>3, <1>4 DEF Sound, Trail, AcknowledgedIsKept
<1>8. \A y \in Posts : post'[y] # None =>
        /\ post'[y].batch \subseteq recorded'
        /\ post'[y].phase = "landed" => post'[y].batch \subseteq stored' \cup refused'
        /\ post'[y].answer # None => post'[y].answer \in stored' /\ post'[y].answer.source \in Answering
  BY <1>1, <1>2, <1>3, <1>4 DEF Sound, Trail
<1>9. ASSUME NEW g \in Flushes, NEW y \in Posts,
             flush'[g] # None, flush'[g].post = y, flush'[g].phase = "sent", post'[y] # None
      PROVE  flush'[g].rows = post'[y].batch
  <2>1. CASE g = f
    BY <1>3, <1>4, <1>9, <2>1
  <2>2. CASE g # f
    <3>1. flush'[g] = flush[g] /\ y # x
      BY <1>1, <1>4, <1>9, <2>2
    <3>2. post'[y] = post[y]
      BY <1>4, <3>1
    <3>3. QED
      BY <1>9, <3>1, <3>2 DEF Sound, Trail
  <2>3. QED
    BY <2>1, <2>2
<1>10. QED
  BY <1>5, <1>6, <1>7, <1>8, <1>9 DEF Sound, Trail

\* A drain is over; what it takes from the buffer has been dealt with.
LEMMA DrainOver ==
  ASSUME Sound, NEW f \in Flushes, flush' = [flush EXCEPT ![f] = None],
         buffer' \subseteq buffer, buffer \subseteq buffer' \cup stored \cup refused,
         UNCHANGED <<now, request, opening, stored, post, recorded, refused>>
  PROVE  Sound'
<1>1. flush' \in [Flushes -> Flush \cup {None}] /\ \A g \in Flushes : flush'[g] \in {flush[g], None}
  BY DEF Sound, Trail, TypeOK
<1>2. TypeOK'
  BY <1>1 DEF Sound, Trail, TypeOK
<1>3. PingsKept'
  BY DEF Sound, Trail, PingsKept
<1>4. /\ StoredOnce' /\ AnswersAreFresh' /\ buffer' \subseteq recorded'
      /\ (\A p, q \in recorded' : p.id = q.id => p = q) /\ (\A p \in recorded' : p.at <= p.taken + Ahead)
      /\ \A r \in opening' : request'[r] # None
  BY DEF Sound, Trail, StoredOnce, AnswersAreFresh
<1>5. AcknowledgedIsKept'
  BY <1>1 DEF Sound, Trail, AcknowledgedIsKept
<1>6. \A g \in Flushes, x \in Posts :
        flush'[g] # None /\ flush'[g].post = x /\ flush'[g].phase = "sent" /\ post'[x] # None
          => flush'[g].rows = post'[x].batch
  BY <1>1 DEF Sound, Trail
<1>7. \A y \in Posts : post'[y] # None =>
        /\ post'[y].batch \subseteq recorded'
        /\ post'[y].phase = "landed" => post'[y].batch \subseteq stored' \cup refused'
        /\ post'[y].answer # None => post'[y].answer \in stored' /\ post'[y].answer.source \in Answering
  BY DEF Sound, Trail
<1>8. QED
  BY <1>2, <1>3, <1>4, <1>5, <1>6, <1>7 DEF Sound, Trail

LEMMA PruneSound == ASSUME Sound, NEW f \in Flushes, Prune(f) PROVE Sound'
<1>1. flush[f].rows \subseteq stored \cup refused
  BY DEF Prune, Sound, Trail, AcknowledgedIsKept
<1>2. QED
  BY <1>1, DrainOver DEF Prune, server

LEMMA GiveUpSound == ASSUME Sound, NEW f \in Flushes, GiveUp(f) PROVE Sound'
  BY DrainOver DEF GiveUp, server

-----------------------------------------------------------------------------
(* The intake. *)

LEMMA DisabledSound == ASSUME Sound, NEW x \in Posts, Disabled(x) PROVE Sound'
<1>1. /\ post[x] # None /\ refused' = refused \cup post[x].batch /\ post' = [post EXCEPT ![x] = None]
      /\ Acknowledge(x) /\ UNCHANGED <<now, request, opening, stored, buffer, recorded>>
  BY DEF Disabled
<1>2. post[x] \in Post /\ post[x].batch \subseteq Ping
  BY <1>1, PostFields DEF Sound, Trail, TypeOK
<1>3. post' \in [Posts -> Post \cup {None}] /\ post'[x] = None /\ \A y \in Posts \ {x} : post'[y] = post[y]
  BY <1>1 DEF Sound, Trail, TypeOK
<1>4. /\ flush' \in [Flushes -> Flush \cup {None}] /\ AcknowledgedIsKept'
      /\ \A f \in Flushes, y \in Posts :
           flush'[f] # None /\ flush'[f].post = y /\ flush'[f].phase = "sent" /\ post'[y] # None
             => flush'[f].rows = post'[y].batch
  BY <1>1, <1>3, Acknowledged
<1>5. TypeOK'
  BY <1>1, <1>2, <1>3, <1>4 DEF Sound, Trail, TypeOK
<1>6. /\ PingsKept' /\ StoredOnce' /\ AnswersAreFresh' /\ buffer' \subseteq recorded'
      /\ (\A p, q \in recorded' : p.id = q.id => p = q) /\ (\A p \in recorded' : p.at <= p.taken + Ahead)
      /\ \A r \in opening' : request'[r] # None
  BY <1>1 DEF Sound, Trail, PingsKept, StoredOnce, AnswersAreFresh
<1>7. \A y \in Posts : post'[y] # None =>
        /\ post'[y].batch \subseteq recorded'
        /\ post'[y].phase = "landed" => post'[y].batch \subseteq stored' \cup refused'
        /\ post'[y].answer # None => post'[y].answer \in stored' /\ post'[y].answer.source \in Answering
  BY <1>1, <1>3 DEF Sound, Trail
<1>8. QED
  BY <1>4, <1>5, <1>6, <1>7 DEF Sound, Trail

LEMMA InsertSound == ASSUME Sound, NEW x \in Posts, Insert(x) PROVE Sound'
<1> DEFINE good == {p \in post[x].batch : ~Rejected(p)}
           first == {p \in good : \A q \in good : q.at = p.at => p.id <= q.id}
           landed == {p \in first : \A q \in stored : q.at # p.at}
           answers == {p \in landed : p.source \in Answering}
<1>1. /\ post[x] # None /\ stored' = stored \cup landed /\ refused' = refused \cup (post[x].batch \ stored')
      /\ UNCHANGED <<now, request, opening, buffer, flush, recorded>>
  BY DEF Insert, handset
<1>2. PICK a \in answers \cup {None} : post' = [post EXCEPT ![x].phase = "landed", ![x].answer = a]
  BY DEF Insert
<1>3. post[x] \in Post /\ post[x].batch \subseteq Ping /\ post[x].batch \subseteq recorded
  BY <1>1, PostFields DEF Sound, Trail, TypeOK
<1>4. /\ landed \subseteq recorded /\ landed \subseteq Ping /\ a \in Ping \cup {None}
      /\ \A p \in landed : ~Rejected(p)
      /\ \A p \in landed, q \in stored : q.at # p.at
      /\ \A p, q \in landed : p.at = q.at => p.id <= q.id
      /\ a # None => a \in landed /\ a.source \in Answering
  BY <1>2, <1>3
\* Of one moment the first of the batch alone lands.
<1>5. \A p, q \in landed : p.at = q.at => p = q
  <2>1. ASSUME NEW p \in landed, NEW q \in landed, p.at = q.at PROVE p = q
    <3>1. p.id \in Int /\ q.id \in Int
      BY <1>4 DEF Ping
    <3>2. p.id <= q.id /\ q.id <= p.id
      BY <1>4, <2>1
    <3>3. p.id = q.id /\ p \in recorded /\ q \in recorded
      BY <1>4, <3>1, <3>2
    <3>4. QED
      BY <3>3 DEF Sound
  <2>2. QED
    BY <2>1
<1>6. post[x].batch \subseteq stored' \cup refused'
  BY <1>1
<1>7. \A p \in landed : p.at <= now + Skew
  <2>1. ASSUME NEW p \in landed PROVE p.at <= now + Skew
    <3>1. p.at \in Int /\ now \in Int /\ ~(p.at > now + Skew)
      BY <1>4, LocateAssumption DEF Ping, Rejected, Sound, Trail, TypeOK, Time
    <3>2. QED
      BY <3>1, LocateAssumption
  <2>2. QED
    BY <2>1
<1> DEFINE w == [post[x] EXCEPT !.phase = "landed", !.answer = a]
<1>8. post' = [post EXCEPT ![x] = w]
  BY <1>1, <1>2, <1>3 DEF Sound, Trail, TypeOK
<1>9. w \in Post /\ w.batch = post[x].batch /\ w.phase = "landed" /\ w.answer = a
  BY <1>3, <1>4, PostFields
<1> HIDE DEF w, good, first, landed, answers
<1>10. /\ post' \in [Posts -> Post \cup {None}] /\ post'[x] = w /\ \A y \in Posts \ {x} : post'[y] = post[y]
      /\ w # None
  BY <1>8, <1>9, NoneIsNothing DEF Sound, Trail, TypeOK
<1>11. TypeOK'
  BY <1>1, <1>3, <1>4, <1>10 DEF Sound, Trail, TypeOK
<1>12. StoredOnce'
  BY <1>1, <1>4, <1>5, <1>7 DEF Sound, Trail, StoredOnce
<1>13. /\ PingsKept' /\ AnswersAreFresh' /\ AcknowledgedIsKept' /\ buffer' \subseteq recorded'
       /\ (\A p, q \in recorded' : p.id = q.id => p = q) /\ (\A p \in recorded' : p.at <= p.taken + Ahead)
       /\ \A r \in opening' : request'[r] # None
  BY <1>1 DEF Sound, Trail, PingsKept, AnswersAreFresh, AcknowledgedIsKept
<1>14. ASSUME NEW y \in Posts, post'[y] # None
       PROVE  /\ post'[y].batch \subseteq recorded'
              /\ post'[y].phase = "landed" => post'[y].batch \subseteq stored' \cup refused'
              /\ post'[y].answer # None => post'[y].answer \in stored' /\ post'[y].answer.source \in Answering
  <2>1. CASE y = x
    BY <1>1, <1>3, <1>4, <1>6, <1>9, <1>10, <2>1
  <2>2. CASE y # x
    BY <1>1, <1>10, <1>14, <2>2 DEF Sound, Trail
  <2>3. QED
    BY <2>1, <2>2
<1>15. ASSUME NEW f \in Flushes, NEW y \in Posts,
              flush'[f] # None, flush'[f].post = y, flush'[f].phase = "sent", post'[y] # None
       PROVE  flush'[f].rows = post'[y].batch
  BY <1>1, <1>9, <1>10, <1>15 DEF Sound, Trail
<1>16. QED
  BY <1>11, <1>12, <1>13, <1>14, <1>15 DEF Sound, Trail

LEMMA FulfilSound == ASSUME Sound, NEW x \in Posts, Fulfil(x) PROVE Sound'
<1>1. /\ post[x] # None /\ post[x].phase = "landed" /\ post' = [post EXCEPT ![x] = None]
      /\ Acknowledge(x) /\ UNCHANGED <<now, opening, stored, buffer, recorded, refused>>
  BY DEF Fulfil
<1>2. /\ post[x] \in Post /\ post[x].batch \subseteq stored \cup refused
      /\ post[x].answer # None => post[x].answer \in stored /\ post[x].answer.source \in Answering
  BY <1>1 DEF Sound, Trail, TypeOK
<1>3. post' \in [Posts -> Post \cup {None}] /\ post'[x] = None /\ \A y \in Posts \ {x} : post'[y] = post[y]
  BY <1>1 DEF Sound, Trail, TypeOK
<1>4. /\ flush' \in [Flushes -> Flush \cup {None}] /\ AcknowledgedIsKept'
      /\ \A f \in Flushes, y \in Posts :
           flush'[f] # None /\ flush'[f].post = y /\ flush'[f].phase = "sent" /\ post'[y] # None
             => flush'[f].rows = post'[y].batch
  BY <1>1, <1>2, <1>3, Acknowledged
<1>5. ASSUME NEW r \in Requests
      PROVE  /\ request'[r] \in Request \cup {None}
             /\ request[r] # None => request'[r] # None
             /\ request'[r] # None /\ request'[r].fulfilled # None =>
                  /\ request'[r].fulfilled \in stored
                  /\ request'[r].fulfilled.source \in Answering
                  /\ request'[r].fulfilled.at >= request'[r].at
                  /\ request'[r].fulfilled.taken + Ahead >= request'[r].at
  <2>1. CASE post[x].answer # None /\ Answers(post[x].answer, r)
    <3>1. request \in [Requests -> Request \cup {None}]
      BY DEF Sound, Trail, TypeOK
    <3>2. request[r] # None /\ request[r].at <= post[x].answer.at
      BY <2>1 DEF Answers
    <3>3. PICK a : a = post[x].answer
      OBVIOUS
    <3>4. PICK w : w = request[r]
      OBVIOUS
    <3>5. w \in Request
      BY <3>1, <3>2, <3>4
    <3>6. a \in Ping
      BY <1>2, <2>1, <3>3, PostFields
    <3>7. request'[r] = [w EXCEPT !.fulfilled = a]
      BY <2>1, <3>3, <3>4 DEF Fulfil
    <3>8. request'[r] \in Request /\ request'[r].at = w.at /\ request'[r].fulfilled = a
      BY <3>5, <3>6, <3>7 DEF Request
    <3>9. w.at \in Int /\ a.at \in Int /\ a.taken \in Int /\ Ahead \in Int
      BY <3>5, <3>6, LocateAssumption DEF Request, Ping, Time
    <3>10. a \in stored /\ a.source \in Answering /\ a.at >= w.at
      BY <1>2, <2>1, <3>2, <3>3, <3>4, <3>9
    <3>11. a.at <= a.taken + Ahead
      BY <3>10 DEF Sound, Trail, StoredOnce
    <3>12. a.taken + Ahead >= w.at
      BY <3>9, <3>10, <3>11
    <3>13. QED
      BY <3>8, <3>10, <3>12, NoneIsNothing
  <2>2. CASE ~(post[x].answer # None /\ Answers(post[x].answer, r))
    <3>1. request'[r] = request[r]
      BY <2>2 DEF Fulfil
    <3>2. QED
      BY <3>1 DEF Sound, Trail, TypeOK, AnswersAreFresh
  <2>3. QED
    BY <2>1, <2>2
<1>6. request' \in [Requests -> Request \cup {None}]
  BY <1>5 DEF Fulfil
<1>7. TypeOK'
  BY <1>1, <1>3, <1>4, <1>6 DEF Sound, Trail, TypeOK
<1>8. AnswersAreFresh'
  BY <1>1, <1>5 DEF AnswersAreFresh
<1>9. /\ PingsKept' /\ StoredOnce' /\ buffer' \subseteq recorded'
      /\ (\A p, q \in recorded' : p.id = q.id => p = q) /\ (\A p \in recorded' : p.at <= p.taken + Ahead)
  BY <1>1 DEF Sound, Trail, PingsKept, StoredOnce
<1>10. \A r \in opening' : request'[r] # None
  BY <1>1, <1>5 DEF Sound, Trail, TypeOK
<1>11. \A y \in Posts : post'[y] # None =>
        /\ post'[y].batch \subseteq recorded'
        /\ post'[y].phase = "landed" => post'[y].batch \subseteq stored' \cup refused'
        /\ post'[y].answer # None => post'[y].answer \in stored' /\ post'[y].answer.source \in Answering
  BY <1>1, <1>3 DEF Sound, Trail
<1>12. QED
  BY <1>4, <1>7, <1>8, <1>9, <1>10, <1>11 DEF Sound, Trail

LEMMA PostLostSound == ASSUME Sound, NEW x \in Posts, PostLost(x) PROVE Sound'
<1>1. post' = [post EXCEPT ![x] = None]
      /\ UNCHANGED <<now, request, opening, stored, buffer, flush, recorded, refused>>
  BY DEF PostLost, handset
<1>2. post' \in [Posts -> Post \cup {None}] /\ \A y \in Posts : post'[y] \in {post[y], None}
  BY <1>1 DEF Sound, Trail, TypeOK
<1>3. TypeOK'
  BY <1>1, <1>2 DEF Sound, Trail, TypeOK
<1>4. /\ PingsKept' /\ StoredOnce' /\ AnswersAreFresh' /\ AcknowledgedIsKept' /\ buffer' \subseteq recorded'
      /\ (\A p, q \in recorded' : p.id = q.id => p = q) /\ (\A p \in recorded' : p.at <= p.taken + Ahead)
      /\ \A r \in opening' : request'[r] # None
  BY <1>1 DEF Sound, Trail, PingsKept, StoredOnce, AnswersAreFresh, AcknowledgedIsKept
<1>5. QED
  BY <1>1, <1>2, <1>3, <1>4 DEF Sound, Trail

-----------------------------------------------------------------------------
(* Sound is inductive. *)

LEMMA InitSound == Init => Sound
  BY LocateAssumption
  DEF Init, Sound, Trail, TypeOK, Time, PingsKept, StoredOnce, AnswersAreFresh, AcknowledgedIsKept

LEMMA TickSound == ASSUME Sound, Tick PROVE Sound'
<1>1. now' \in Time /\ now' = now + 1 /\ now \in Int
  BY LocateAssumption DEF Tick, Time, Sound, Trail, TypeOK
<1>2. UNCHANGED <<request, opening, stored, post, buffer, flush, recorded, refused>>
  BY DEF Tick, server, handset
<1>3. \A p \in stored : p.at <= now' + Skew
  <2>1. ASSUME NEW p \in stored PROVE p.at <= now' + Skew
    <3>1. p \in Ping /\ p.at <= now + Skew
      BY DEF Sound, Trail, TypeOK, StoredOnce
    <3>2. p.at \in Int
      BY <3>1 DEF Ping
    <3>3. QED
      BY <1>1, <3>1, <3>2, LocateAssumption
  <2>2. QED
    BY <2>1
<1>4. StoredOnce'
  BY <1>2, <1>3 DEF Sound, Trail, StoredOnce
<1>5. QED
  BY <1>1, <1>2, <1>4 DEF Sound, Trail, TypeOK, PingsKept, AnswersAreFresh, AcknowledgedIsKept

LEMMA StepSound == Sound /\ [Next]_vars => Sound'
<1> SUFFICES ASSUME Sound, [Next]_vars PROVE Sound'
  OBVIOUS
<1>1. CASE UNCHANGED vars
  BY <1>1 DEF vars, Sound, Trail, TypeOK, PingsKept, StoredOnce, AnswersAreFresh, AcknowledgedIsKept
<1>2. CASE \E r \in Requests : Open(r) \/ OpeningLost(r)
  BY <1>2, OpenSound, OpeningLostSound
<1>3. CASE \E r \in Requests, reason \in {None, "push"} : RecordPushOutcome(r, reason)
  BY <1>3, RecordPushOutcomeSound
<1>4. CASE \E source \in Sources, off \in -Behind .. Ahead, live \in BOOLEAN : Record(source, off, live)
  BY <1>4, RecordSound
<1>5. CASE \E f \in Flushes, x \in Posts : Send(f, x)
  BY <1>5, SendSound
<1>6. CASE \E f \in Flushes : Prune(f) \/ GiveUp(f)
  BY <1>6, PruneSound, GiveUpSound
<1>7. CASE \E x \in Posts : Disabled(x) \/ Insert(x) \/ Fulfil(x) \/ PostLost(x)
  BY <1>7, DisabledSound, InsertSound, FulfilSound, PostLostSound
<1>8. QED
  BY <1>1, <1>2, <1>3, <1>4, <1>5, <1>6, <1>7, SweepSound, TickSound DEF Next

\* No ping that was recorded is lost between the handset and the table without a verdict, no
\* moment is stored twice or from beyond the skew, and what answers a locate-now request says
\* it was recorded after it was asked, which is true up to how far the handset's clock is
\* ahead.
THEOREM TrailStands == Spec => []Trail
<1>1. Init => Sound
  BY InitSound
<1>2. Sound /\ [Next]_vars => Sound'
  BY StepSound
<1>3. Sound => Trail
  BY DEF Sound
<1>4. QED
  BY <1>1, <1>2, <1>3, PTL DEF Spec
=============================================================================

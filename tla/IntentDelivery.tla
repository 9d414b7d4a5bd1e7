--------------------------- MODULE IntentDelivery ---------------------------
(***************************************************************************)
(* One submit of the app, delivered through the replay guard: the intent   *)
(* writer (apps/mobile/src/lib/intentWrite.ts) pins one idempotency key    *)
(* and resends until it is told how the intent ended.  The user keeps      *)
(* pressing the button, the form is not edited, and the network may lose   *)
(* a request, its answer, or only the patience of the client.              *)
(***************************************************************************)
EXTENDS Idempotency

CONSTANTS
  Intent,    \* the request hash of the form
  Gate       \* whether 401 and 429 can be answered before the plugin runs

ASSUME IntentAssumption == Intent \in Bodies /\ Gate \in BOOLEAN

VARIABLES
  pinned,    \* the writer's key, or None
  minted,    \* keys minted so far
  sending,   \* the request the writer awaits, or None
  told,      \* what the user read last
  refused    \* whether any attempt was answered with a 4xx

writerVars == <<pinned, minted, sending, told, refused>>
allVars    == <<vars, writerVars>>

Told == {"nothing", "saved", "unreached", "failed", "refused"}

WriterInit ==
  /\ Init
  /\ pinned = None /\ minted = {} /\ sending = None
  /\ told = "nothing" /\ refused = FALSE

\* The key the next attempt carries: the pinned one, or a new uuid.
NextKey(k) == IF pinned # None THEN k = pinned ELSE k \in Keys \ minted

\* send: the key is pinned before the request leaves.
Send(a, k) ==
  /\ sending = None /\ told # "saved" /\ NextKey(k)
  /\ pinned' = k /\ minted' = minted \cup {k}
  /\ Arrive(a, k, Intent)
  /\ sending' = a
  /\ UNCHANGED <<told, refused>>

\* The request never leaves the phone.
SendLost(k) ==
  /\ sending = None /\ told # "saved" /\ NextKey(k)
  /\ pinned' = k /\ minted' = minted \cup {k}
  /\ told' = "unreached"
  /\ UNCHANGED <<vars, sending, refused>>

\* 401 with a refresh that failed, or 429: answered before the guard.
SendRefused(k) ==
  /\ Gate
  /\ sending = None /\ told # "saved" /\ NextKey(k)
  /\ pinned' = None /\ minted' = minted \cup {k}
  /\ told' = "refused" /\ refused' = TRUE
  /\ UNCHANGED <<vars, sending>>

\* Mutant: the key is cleared however the attempt ends.
NotReached_Clears ==
  /\ sending # None
  /\ sending' = None /\ told' = "unreached" /\ pinned' = None
  /\ UNCHANGED <<vars, minted, refused>>

\* Status 0: the request or its answer is lost, or the wait is over.  The server
\* may be working on it still.
NotReached ==
  /\ sending # None
  /\ sending' = None /\ told' = "unreached"
  /\ UNCHANGED <<vars, pinned, minted, refused>>

Got(kinds) == sending # None /\ pc[sending] = "idle" /\ reply[sending].kind \in kinds

\* Mutant: the 409 of a key in flight is read as "it will go through".
Accepted_InFlight ==
  /\ Got({"ok", "replay", "inflight"})
  /\ pinned' = None /\ sending' = None /\ told' = "saved"
  /\ UNCHANGED <<vars, minted, refused>>

Accepted ==
  /\ Got({"ok", "replay"})
  /\ pinned' = None /\ sending' = None /\ told' = "saved"
  /\ UNCHANGED <<vars, minted, refused>>

\* A 5xx keeps the key.
ServerFailed ==
  /\ Got({"error"})
  /\ sending' = None /\ told' = "failed"
  /\ UNCHANGED <<vars, pinned, minted, refused>>

\* Any 4xx clears it, the 409 of a key in flight included.
Refused ==
  /\ Got({"inflight", "reused", "refused"})
  /\ pinned' = None /\ sending' = None /\ told' = "refused" /\ refused' = TRUE
  /\ UNCHANGED <<vars, minted>>

Writer ==
  \/ \E a \in Attempts, k \in Keys : Send(a, k)
  \/ \E k \in Keys : SendLost(k) \/ SendRefused(k)
  \/ NotReached \/ Accepted \/ ServerFailed \/ Refused

Server ==
  /\ \/ \E a \in Attempts : Plugin(a) \/ Lose(a)
     \/ Time
  /\ UNCHANGED writerVars

WriterNext == Writer \/ Server
WriterSpec == WriterInit /\ [][WriterNext]_allVars

-----------------------------------------------------------------------------
\* "Saved" is true: a run of the form is committed, whole.
SavedIsSaved ==
  told = "saved" =>
    \E x \in applied : \A s \in Stmts :
       [x EXCEPT !.write.stmt = s, !.write.hash = Intent] \in applied

\* Until a 4xx was answered, however many attempts were lost, timed out or failed,
\* the form is saved by one run (intentWrite.ts:10-11, "the retry must replay it,
\* not repeat it").  The prune is past the patience of any user.
RetriesReplay ==
  (~refused /\ \A k \in Keys : epoch[k] = 0) =>
     \A x, y \in applied : x.write.run = y.write.run

\* A definite refusal means nothing was saved (intentWrite.ts:12-14).
RefusedMeansNothing == told = "refused" => applied = {}
=============================================================================

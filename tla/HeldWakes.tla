------------------------------ MODULE HeldWakes ------------------------------
(***************************************************************************)
(* The wakes of assignment pushes: sent at once inside the work window or  *)
(* for an urgent job, held as rows outside it, and released in one batch   *)
(* when the window opens                                                   *)
(* (apps/api/src/modules/notifications/service.ts, repo.ts,                *)
(* jobs/release-held-notifications.ts, server.ts).                         *)
(*                                                                         *)
(* One API process, which may end and be started again at any time.  Every *)
(* statement commits by itself.  A wake is a push to the devices of one    *)
(* technician, delivered or not: the code treats both alike.               *)
(***************************************************************************)
EXTENDS Integers, FiniteSets

CONSTANTS
  Employees,
  Holds,      \* ids of rows of held_notifications
  Events,     \* slots for assignmentChanged calls in progress
  None,
  MaxTrouble  \* bound: how often the process ends, or a batch or a wake fails

VARIABLES
  open,       \* whether the wall clock is inside the work window
  process,    \* where the start of the API has got to
  alarm,      \* the scheduler's timer
  batch,      \* batch[b]: a releaseHeldAtWindowOpen in progress, or None
  event,      \* event[e]: an assignmentChanged in progress, or None
  held,       \* held[h]: the row of held_notifications, or None
  enabled,    \* employees whose tech.notifications is on
  \* history
  woken,      \* woken[h]: how many release wakes covered row h
  excused,    \* rows whose wake a stop, a failure or the owner's switch dropped
  troubles

vars == <<open, process, alarm, batch, event, held, enabled, woken, excused, troubles>>
memory == <<process, alarm, batch, event>>
history == <<woken, excused, troubles>>

\* The boot sweep and the batch of the timer.
Batches == {"boot", "timer"}
Hold == [emp : Employees, released : BOOLEAN, night : BOOLEAN]
\* listed: the rows listUnreleased returned; todo: the employees still to be woken.
Batch == [phase : {"list", "mark", "wake"}, listed : SUBSET Holds, todo : SUBSET Employees]
\* now: the verdict on the window and the priority, taken when the call began.
Event == [todo : SUBSET Employees, now : BOOLEAN]

ASSUME HeldAssumption ==
  /\ MaxTrouble \in Nat
  /\ IsFiniteSet(Holds)
  /\ None \notin Hold \cup Batch \cup Event

TypeOK ==
  /\ open \in BOOLEAN
  /\ process \in {"down", "booting", "arming", "up"}
  /\ alarm \in {"off", "set", "ringing"}
  /\ batch \in [Batches -> Batch \cup {None}]
  /\ event \in [Events -> Event \cup {None}]
  /\ held \in [Holds -> Hold \cup {None}]
  /\ enabled \subseteq Employees
  /\ woken \in [Holds -> Nat] /\ excused \subseteq Holds
  /\ troubles \in 0 .. MaxTrouble

Init ==
  /\ open \in BOOLEAN
  /\ process = "booting" /\ alarm = "off"
  /\ batch = [b \in Batches |-> None] /\ event = [e \in Events |-> None]
  /\ held = [h \in Holds |-> None]
  /\ enabled = Employees
  /\ woken = [h \in Holds |-> 0] /\ excused = {} /\ troubles = 0

In(b, phase) == batch[b] # None /\ batch[b].phase = phase
Idle == [phase |-> "list", listed |-> {}, todo |-> {}]
Unreleased == {h \in Holds : held[h] # None /\ ~held[h].released}

-----------------------------------------------------------------------------
(* The clock.  The window is hours long: the timer of the morning has fired, and no batch
   is still between its two statements, when it closes. *)

Dawn ==
  /\ ~open
  /\ open' = TRUE
  /\ alarm' = IF alarm = "set" THEN "ringing" ELSE alarm
  /\ UNCHANGED <<process, batch, event, held, enabled, history>>

Dusk ==
  /\ open /\ alarm # "ringing"
  /\ \A b \in Batches : ~In(b, "list") /\ ~In(b, "mark")
  /\ open' = FALSE
  /\ UNCHANGED <<memory, held, enabled, history>>

-----------------------------------------------------------------------------
(* The scheduler. *)

Start ==
  /\ process = "down"
  /\ process' = "booting"
  /\ UNCHANGED <<open, alarm, batch, event, held, enabled, history>>

\* The boot sweep, where the clock is inside the window.
BootSweep ==
  /\ process = "booting"
  /\ process' = "arming"
  /\ batch' = IF open THEN [batch EXCEPT !["boot"] = Idle] ELSE batch
  /\ UNCHANGED <<open, alarm, event, held, enabled, history>>

\* scheduleNext: the clock is read once more.  What opens is the next window.
Arm ==
  /\ process = "arming"
  /\ process' = "up" /\ alarm' = "set"
  /\ UNCHANGED <<open, batch, event, held, enabled, history>>

Ring ==
  /\ alarm = "ringing"
  /\ alarm' = "off"
  /\ batch' = [batch EXCEPT !["timer"] = Idle]
  /\ UNCHANGED <<open, process, event, held, enabled, history>>

\* runBatch is over, one way or the other: the timer's batch schedules the next.
Ended(b) ==
  /\ batch' = [batch EXCEPT ![b] = None]
  /\ alarm' = IF b = "timer" THEN "set" ELSE alarm

Stop ==
  /\ process # "down" /\ troubles < MaxTrouble
  /\ process' = "down" /\ alarm' = "off"
  /\ batch' = [b \in Batches |-> None] /\ event' = [e \in Events |-> None]
  /\ excused' = excused \cup UNION {batch[b].listed : b \in {c \in Batches : In(c, "wake")}}
  /\ troubles' = troubles + 1
  /\ UNCHANGED <<open, held, enabled, woken>>

-----------------------------------------------------------------------------
(* releaseHeldAtWindowOpen. *)

\* listUnreleased.
List(b) ==
  /\ In(b, "list")
  /\ batch' = [batch EXCEPT ![b].phase = "mark", ![b].listed = Unreleased]
  /\ UNCHANGED <<open, process, alarm, event, held, enabled, history>>

ReleaseAll == held' = [h \in Holds |-> IF h \in Unreleased THEN [held[h] EXCEPT !.released = TRUE] ELSE held[h]]

\* Mutant: the rows are not marked before the wakes go out.
Mark_Later(b) ==
  /\ In(b, "mark")
  /\ batch' = [batch EXCEPT ![b].phase = "wake", ![b].todo = {held[h].emp : h \in batch[b].listed}]
  /\ UNCHANGED <<open, process, alarm, event, held, enabled, history>>

\* markAllReleased: every row that is unreleased now.
Mark(b) ==
  /\ In(b, "mark")
  /\ ReleaseAll
  /\ batch' = [batch EXCEPT ![b].phase = "wake", ![b].todo = {held[h].emp : h \in batch[b].listed}]
  /\ UNCHANGED <<open, process, alarm, event, enabled, history>>

\* Mutant: after a batch that failed nothing schedules the next.
Fail_Stays(b) ==
  /\ In(b, "list") \/ In(b, "mark")
  /\ troubles < MaxTrouble
  /\ troubles' = troubles + 1
  /\ batch' = [batch EXCEPT ![b] = None]
  /\ UNCHANGED <<open, process, alarm, event, held, enabled, woken, excused>>

\* One of the two statements fails.
Fail(b) ==
  /\ In(b, "list") \/ In(b, "mark")
  /\ troubles < MaxTrouble
  /\ troubles' = troubles + 1
  /\ Ended(b)
  /\ UNCHANGED <<open, process, event, held, enabled, woken, excused>>

\* markAllReleased commits and its answer is lost: what the batch listed is marked, and
\* nobody is woken for it.
Unheard(b) ==
  /\ In(b, "mark") /\ troubles < MaxTrouble
  /\ troubles' = troubles + 1
  /\ ReleaseAll
  /\ excused' = excused \cup batch[b].listed
  /\ Ended(b)
  /\ UNCHANGED <<open, process, event, enabled, woken>>

\* One wake for all the rows of an employee, unless his switch is off now or a
\* statement of it fails.
WakeEmployee(b, p) ==
  LET mine == {h \in batch[b].listed : held[h].emp = p}
  IN  /\ In(b, "wake") /\ p \in batch[b].todo
      /\ batch' = [batch EXCEPT ![b].todo = @ \ {p}]
      /\ \/ /\ p \in enabled
            /\ woken' = [h \in Holds |-> IF h \in mine THEN woken[h] + 1 ELSE woken[h]]
            /\ UNCHANGED <<excused, troubles>>
         \/ /\ p \notin enabled
            /\ excused' = excused \cup mine
            /\ UNCHANGED <<woken, troubles>>
         \/ /\ troubles < MaxTrouble
            /\ troubles' = troubles + 1
            /\ excused' = excused \cup mine
            /\ UNCHANGED woken
      /\ UNCHANGED <<open, process, alarm, event, held, enabled>>

Finish(b) ==
  /\ In(b, "wake") /\ batch[b].todo = {}
  /\ Ended(b)
  /\ UNCHANGED <<open, process, event, held, enabled, history>>

-----------------------------------------------------------------------------
(* assignmentChanged, after the commit of an assignment. *)

\* Bound: there is a row for every wake that will be held.
Room(S) ==
  Cardinality({h \in Holds : held[h] = None}) >=
    Cardinality(S) + Cardinality({p \in Events \X Employees : event[p[1]] # None /\ p[2] \in event[p[1]].todo})

\* The clock and the priority are looked at here, once for all recipients.
AssignmentChanged(e, S, urgent) ==
  /\ process = "up" /\ event[e] = None
  /\ Room(S)
  /\ event' = [event EXCEPT ![e] = [todo |-> S, now |-> open \/ urgent]]
  /\ UNCHANGED <<open, process, alarm, batch, held, enabled, history>>

\* The next recipient: nothing where his switch is off, and nothing more where the
\* statement fails; a wake now; or a row.
Notify(e, p) ==
  /\ event[e] # None /\ p \in event[e].todo
  /\ LET rest == event[e].todo \ {p}
     IN  event' = [event EXCEPT ![e] = IF rest = {} THEN None ELSE [event[e] EXCEPT !.todo = rest]]
  /\ \/ UNCHANGED held
     \/ /\ p \in enabled /\ ~event[e].now
        /\ \E h \in Holds :
             /\ held[h] = None
             /\ held' = [held EXCEPT ![h] = [emp |-> p, released |-> FALSE, night |-> ~open]]
  /\ UNCHANGED <<open, process, alarm, batch, enabled, history>>

\* The owner turns tech.notifications off or on for an employee.
Switch(p) ==
  /\ enabled' = IF p \in enabled THEN enabled \ {p} ELSE enabled \cup {p}
  /\ UNCHANGED <<open, memory, held, history>>

-----------------------------------------------------------------------------
Scheduler == Start \/ BootSweep \/ Arm \/ Ring
Release(b) == List(b) \/ Mark(b) \/ Finish(b) \/ \E p \in Employees : WakeEmployee(b, p)

Next ==
  \/ Dawn \/ Dusk \/ Scheduler \/ Stop
  \/ \E b \in Batches : Release(b) \/ Fail(b) \/ Unheard(b)
  \/ \E e \in Events, S \in SUBSET Employees \ {{}}, urgent \in BOOLEAN : AssignmentChanged(e, S, urgent)
  \/ \E e \in Events, p \in Employees : Notify(e, p)
  \/ \E p \in Employees : Switch(p)

Spec == Init /\ [][Next]_vars

\* The sun rises and sets, the process is started again, its timers fire and its
\* statements return.
Fairness ==
  /\ WF_vars(Dawn) /\ WF_vars(Dusk) /\ WF_vars(Scheduler)
  /\ \A b \in Batches : WF_vars(Release(b))

FairSpec == Spec /\ Fairness

-----------------------------------------------------------------------------
(* Properties *)

\* A row is covered by one wake at most and only once it is marked released: "a crash
\* mid-batch loses a wake but can never re-release the same rows into a second batch"
\* (notifications/service.ts).
WokenOnce == \A h \in Holds : woken[h] <= 1 /\ (woken[h] = 1 => held[h] # None /\ held[h].released)

\* "Held, don't drop" (migration 011): a row that was put there in the night and has been
\* released has had its wake, is about to have it, or lost it to a stop of the process, to
\* the answer to the mark that was lost, to its employee's switch or to a statement of the
\* wake that failed.
NightHoldsAreWoken ==
  \A h \in Holds :
    held[h] # None /\ held[h].night /\ held[h].released =>
      \/ woken[h] = 1 \/ h \in excused
      \/ \E b \in Batches : In(b, "wake") /\ h \in batch[b].listed /\ held[h].emp \in batch[b].todo

\* The same of every row.  It does not hold of a call that read the clock before the
\* window opened and reaches its INSERT between the two statements of the batch.
HoldsAreWoken ==
  \A h \in Holds :
    held[h] # None /\ held[h].released =>
      \/ woken[h] = 1 \/ h \in excused
      \/ \E b \in Batches : In(b, "wake") /\ h \in batch[b].listed /\ held[h].emp \in batch[b].todo

\* Where the process and its scheduler have got to.
Scheduled ==
  /\ process \in {"down", "booting"} => \A b \in Batches : batch[b] = None
  /\ process # "up" => alarm = "off" /\ batch["timer"] = None
  /\ alarm # "off" => batch["timer"] = None
  /\ alarm = "ringing" => open /\ \A b \in Batches : ~In(b, "list") /\ ~In(b, "mark")
  /\ \A b \in Batches : In(b, "list") \/ In(b, "mark") => open

\* Batches do not run over each other's rows: one at a time is between its two
\* statements, and what it lists then is what is unreleased.
BatchesApart ==
  /\ \A b, c \in Batches : b # c /\ (In(b, "list") \/ In(b, "mark")) => ~In(c, "list") /\ ~In(c, "mark")
  /\ \A b, c \in Batches : b # c /\ In(b, "wake") /\ In(c, "wake") => batch[b].listed \cap batch[c].listed = {}
  /\ \A b \in Batches :
       /\ In(b, "list") => batch[b].listed = {}
       /\ In(b, "mark") =>
            /\ batch[b].listed \subseteq Unreleased
            /\ \A h \in Unreleased : held[h].night => h \in batch[b].listed
       /\ In(b, "wake") => \A h \in batch[b].listed :
            /\ held[h] # None /\ held[h].released
            /\ held[h].emp \in batch[b].todo => woken[h] = 0

\* The invariant the proofs rest on.
Discharged == TypeOK /\ WokenOnce /\ NightHoldsAreWoken /\ Scheduled /\ BatchesApart

\* Whatever is held is released: at the next window, at a start inside one, or at a later
\* window where a batch failed.
HeldIsReleased ==
  \A h \in Holds : held[h] # None /\ ~held[h].released ~> held[h] # None /\ held[h].released
=============================================================================

-------------------------- MODULE HeldWakes_proofs --------------------------
(***************************************************************************)
(* Held wakes are discharged, for any number of employees, rows and calls  *)
(* in progress: Discharged is inductive.  One batch at a time is between   *)
(* its two statements, and only by day, so what it listed is all that was  *)
(* held by night; what a batch lists it marks before it wakes anybody, so  *)
(* no two batches wake for one row.                                        *)
(***************************************************************************)
EXTENDS HeldWakes, TLAPS

\* None is no batch, no row and no call.
LEMMA NoneApart == None \notin Batch /\ None \notin Hold /\ None \notin Event
  BY HeldAssumption

\* What the batches, the rows and the history leave alone.
Others == <<batch, held, woken, excused>>

\* The clock and the scheduler.
LEMMA ClockKeeps ==
  ASSUME Discharged, Dawn \/ Dusk \/ Start \/ Arm
  PROVE  Discharged'
<1>1. UNCHANGED Others
  BY DEF Dawn, Dusk, Start, Arm, Others, memory, history
<1>2. TypeOK'
  BY DEF Discharged, TypeOK, Dawn, Dusk, Start, Arm, memory, history
<1>3. WokenOnce' /\ NightHoldsAreWoken' /\ BatchesApart'
  BY <1>1 DEF Discharged, WokenOnce, NightHoldsAreWoken, BatchesApart, In, Unreleased, Others
<1>4. Scheduled'
  BY <1>1 DEF Discharged, TypeOK, Scheduled, In, Dawn, Dusk, Start, Arm, memory, Others
<1>5. QED
  BY <1>2, <1>3, <1>4 DEF Discharged

\* A batch begins: at the start of the process, or when the timer rings.
LEMMA BeginKeeps ==
  ASSUME Discharged, BootSweep \/ Ring
  PROVE  Discharged'
<1>1. CASE BootSweep /\ ~open
  BY <1>1 DEF Discharged, TypeOK, Scheduled, WokenOnce, NightHoldsAreWoken, BatchesApart, In,
     Unreleased, BootSweep, history
<1>2. ASSUME NEW b \in Batches, batch' = [batch EXCEPT ![b] = Idle], batch[b] = None, open,
             \A c \in Batches : ~In(c, "list") /\ ~In(c, "mark"),
             UNCHANGED <<open, event, held, enabled, history>>,
             alarm' = "off", process' # "booting", process' # "down",
             process' \in {"arming", "up"}, process' # "up" => b # "timer" /\ batch["timer"] = None
      PROVE  Discharged'
  <2>1. Idle \in Batch /\ Idle.phase = "list" /\ Idle.listed = {}
    BY DEF Idle, Batch
  <2>2. batch'[b] = Idle /\ \A c \in Batches \ {b} : batch'[c] = batch[c]
    BY <1>2 DEF Discharged, TypeOK
  <2>3. TypeOK'
    BY <1>2, <2>1 DEF Discharged, TypeOK, history
  <2>4. /\ \A c \in Batches : In(c, "wake")' <=> In(c, "wake")
        /\ \A c \in Batches : ~In(c, "mark")'
        /\ \A c \in Batches : In(c, "list")' => c = b
    BY <1>2, <2>1, <2>2, NoneApart DEF In
  <2>5. WokenOnce' /\ NightHoldsAreWoken'
    BY <1>2, <2>2, <2>4 DEF Discharged, WokenOnce, NightHoldsAreWoken, In, history
  <2>6. Scheduled'
    BY <1>2, <2>2, <2>4 DEF Discharged, Scheduled, Batches
  <2>7. BatchesApart'
    BY <1>2, <2>1, <2>2, <2>4 DEF Discharged, BatchesApart, In, Unreleased, history
  <2>8. QED
    BY <2>3, <2>5, <2>6, <2>7 DEF Discharged
<1>3. CASE BootSweep /\ open
  BY <1>2, <1>3 DEF BootSweep, Discharged, Scheduled, In, Batches, history
<1>4. CASE Ring
  BY <1>2, <1>4 DEF Ring, Discharged, TypeOK, Scheduled, Batches, history
<1>5. QED
  BY <1>1, <1>3, <1>4 DEF BootSweep

\* The process stops.
LEMMA StopKeeps == ASSUME Discharged, Stop PROVE Discharged'
<1>1. TypeOK'
  <2>1. UNION {batch[b].listed : b \in {c \in Batches : In(c, "wake")}} \subseteq Holds
    BY DEF Discharged, TypeOK, In, Batch
  <2>2. troubles + 1 \in 0 .. MaxTrouble
    BY HeldAssumption DEF Stop, Discharged, TypeOK
  <2>3. QED
    BY <2>1, <2>2 DEF Discharged, TypeOK, Stop
<1>2. \A b \in Batches : batch'[b] = None
  BY DEF Stop
<1>3. WokenOnce'
  BY DEF Discharged, WokenOnce, Stop
<1>4. NightHoldsAreWoken'
  BY DEF Discharged, NightHoldsAreWoken, Stop, In
<1>5. Scheduled' /\ BatchesApart'
  BY <1>2 DEF Stop, Scheduled, BatchesApart, In, Batches
<1>6. QED
  BY <1>1, <1>3, <1>4, <1>5 DEF Discharged

\* listUnreleased.
LEMMA ListKeeps == ASSUME Discharged, NEW b \in Batches, List(b) PROVE Discharged'
<1> DEFINE y == [batch[b] EXCEPT !.phase = "mark", !.listed = Unreleased]
<1>1. batch[b] \in Batch /\ batch[b] # None /\ batch[b].phase = "list"
  BY DEF List, In, Discharged, TypeOK
<1>2. Unreleased \subseteq Holds
  BY DEF Unreleased
<1>3. y \in Batch /\ y.phase = "mark" /\ y.listed = Unreleased /\ y # None
  BY <1>1, <1>2, NoneApart DEF Batch
<1>4. batch' = [batch EXCEPT ![b] = y] /\ UNCHANGED <<open, process, alarm, event, held, enabled, history>>
  BY DEF List
<1> HIDE DEF y
<1>5. batch'[b] = y /\ \A c \in Batches \ {b} : batch'[c] = batch[c]
  BY <1>4 DEF Discharged, TypeOK
<1>6. TypeOK'
  BY <1>3, <1>4 DEF Discharged, TypeOK, history
<1>7. /\ \A c \in Batches : In(c, "wake")' <=> In(c, "wake")
      /\ In(b, "mark")' /\ ~In(b, "list")' /\ ~In(b, "wake")
      /\ \A c \in Batches \ {b} : (In(c, "list")' <=> In(c, "list")) /\ (In(c, "mark")' <=> In(c, "mark"))
  BY <1>1, <1>3, <1>5 DEF In
<1>8. WokenOnce' /\ NightHoldsAreWoken'
  BY <1>4, <1>5, <1>7 DEF Discharged, WokenOnce, NightHoldsAreWoken, In, history
<1>9. Scheduled'
  BY <1>1, <1>4, <1>5, <1>7 DEF Discharged, Scheduled, In
<1>10. BatchesApart'
  BY <1>1, <1>3, <1>4, <1>5, <1>7 DEF Discharged, BatchesApart, In, Unreleased, history
<1>11. QED
  BY <1>6, <1>8, <1>9, <1>10 DEF Discharged

\* markAllReleased: what was held by night goes over to the batch that listed it.
LEMMA MarkKeeps == ASSUME Discharged, NEW b \in Batches, Mark(b) PROVE Discharged'
<1> DEFINE y == [batch[b] EXCEPT !.phase = "wake", !.todo = {held[h].emp : h \in batch[b].listed}]
<1>1. batch[b] \in Batch /\ batch[b] # None /\ batch[b].phase = "mark"
  BY DEF Mark, In, Discharged, TypeOK
<1>2. /\ batch[b].listed \subseteq Unreleased
      /\ \A h \in Unreleased : held[h] \in Hold /\ held[h].emp \in Employees /\ ~held[h].released
  BY <1>1 DEF Discharged, BatchesApart, In, Unreleased, TypeOK, Hold
<1>3. /\ y \in Batch /\ y.phase = "wake" /\ y.listed = batch[b].listed /\ y # None
      /\ y.todo = {held[h].emp : h \in batch[b].listed}
  <2>1. {held[h].emp : h \in batch[b].listed} \subseteq Employees
    BY <1>2
  <2>2. y \in Batch /\ y.phase = "wake" /\ y.listed = batch[b].listed
        /\ y.todo = {held[h].emp : h \in batch[b].listed}
    BY <1>1, <2>1 DEF Batch
  <2>3. QED
    BY <2>2, NoneApart
<1>4. batch' = [batch EXCEPT ![b] = y] /\ UNCHANGED <<open, process, alarm, event, enabled, history>>
  BY DEF Mark
<1> HIDE DEF y
<1>5. batch'[b] = y /\ \A c \in Batches \ {b} : batch'[c] = batch[c]
  BY <1>4 DEF Discharged, TypeOK
<1>6. /\ \A h \in Holds \ Unreleased : held'[h] = held[h]
      /\ \A h \in Unreleased : /\ held'[h] \in Hold /\ held'[h].released
                               /\ held'[h].emp = held[h].emp /\ held'[h].night = held[h].night
  BY <1>2 DEF Mark, ReleaseAll, Hold, Unreleased
<1>7. held' \in [Holds -> Hold \cup {None}]
  BY <1>6 DEF Mark, ReleaseAll, Discharged, TypeOK
<1>8. TypeOK'
  BY <1>3, <1>4, <1>7 DEF Discharged, TypeOK, history
<1>9. /\ \A c \in Batches \ {b} : (In(c, "wake")' <=> In(c, "wake")) /\ ~In(c, "list")' /\ ~In(c, "mark")'
      /\ In(b, "wake")' /\ ~In(b, "list")' /\ ~In(b, "mark")' /\ ~In(b, "wake")
  BY <1>1, <1>3, <1>5 DEF In, Discharged, BatchesApart
<1>10. \A h \in Holds : held[h] # None => held'[h] # None /\ (held[h].released => held'[h] = held[h])
  BY <1>6, NoneApart DEF Unreleased
<1>11. WokenOnce'
  BY <1>4, <1>10 DEF Discharged, WokenOnce, history
<1>12. NightHoldsAreWoken'
  <2>1. SUFFICES ASSUME NEW h \in Holds, held'[h] # None, held'[h].night, held'[h].released
                 PROVE  \/ woken'[h] = 1 \/ h \in excused'
                        \/ \E c \in Batches : In(c, "wake")' /\ h \in batch'[c].listed /\ held'[h].emp \in batch'[c].todo
    BY DEF NightHoldsAreWoken
  <2>2. CASE h \in Unreleased
    <3>1. h \in batch[b].listed
      BY <1>1, <1>6, <2>1, <2>2 DEF Discharged, BatchesApart, In
    <3>2. QED
      BY <1>3, <1>5, <1>6, <1>9, <2>2, <3>1
  <2>3. CASE h \notin Unreleased
    <3>1. held'[h] = held[h]
      BY <1>6, <2>3
    <3>2. \/ woken[h] = 1 \/ h \in excused
          \/ \E c \in Batches : In(c, "wake") /\ h \in batch[c].listed /\ held[h].emp \in batch[c].todo
      BY <2>1, <3>1 DEF Discharged, NightHoldsAreWoken
    <3>3. QED
      BY <1>4, <1>5, <1>9, <3>1, <3>2 DEF history
  <2>4. QED
    BY <2>2, <2>3
<1>13. Scheduled'
  BY <1>1, <1>4, <1>5, <1>9 DEF Discharged, Scheduled, In
<1>14. BatchesApart'
  <2>1. \A c \in Batches \ {b} : In(c, "wake") => batch[c].listed \cap Unreleased = {}
    BY DEF Discharged, BatchesApart, Unreleased
  <2>2. \A h \in batch[b].listed : woken'[h] = 0 /\ held'[h] # None /\ held'[h].released
    <3>1. \A h \in batch[b].listed : h \in Holds /\ h \in Unreleased
      BY <1>2 DEF Unreleased
    <3>2. \A h \in Unreleased : woken[h] = 0
      BY <1>2 DEF Discharged, WokenOnce, TypeOK, Unreleased
    <3>3. QED
      BY <1>4, <1>6, <3>1, <3>2, NoneApart DEF history
  <2>3. \A c \in Batches \ {b} : In(c, "wake") => \A h \in batch[c].listed :
          held'[h] = held[h] /\ held[h] # None /\ held[h].released /\ (held[h].emp \in batch[c].todo => woken[h] = 0)
    <3>1. \A c \in Batches : batch[c] # None => batch[c].listed \subseteq Holds
      BY DEF Discharged, TypeOK, Batch
    <3>2. QED
      BY <1>6, <2>1, <3>1 DEF Discharged, BatchesApart, In
  <2>4. QED
    BY <1>2, <1>3, <1>4, <1>5, <1>9, <2>1, <2>2, <2>3 DEF Discharged, BatchesApart, history
<1>15. QED
  BY <1>8, <1>11, <1>12, <1>13, <1>14 DEF Discharged

\* A batch that ends gives nothing up: it had not marked its rows, or has woken for all.
LEMMA EndKeeps ==
  ASSUME Discharged, NEW b \in Batches, Fail(b) \/ Finish(b)
  PROVE  Discharged'
<1>1. /\ batch[b] \in Batch /\ batch[b] # None
      /\ batch[b].phase # "wake" \/ batch[b].todo = {}
      /\ batch' = [batch EXCEPT ![b] = None]
      /\ alarm' = IF b = "timer" THEN "set" ELSE alarm
      /\ UNCHANGED <<open, process, event, held, enabled, woken, excused>>
  BY DEF Fail, Finish, Ended, In, Discharged, TypeOK, history
<1>2. batch'[b] = None /\ \A c \in Batches \ {b} : batch'[c] = batch[c]
  BY <1>1 DEF Discharged, TypeOK
<1>3. TypeOK'
  <2>1. troubles' \in 0 .. MaxTrouble
    BY HeldAssumption DEF Fail, Finish, Discharged, TypeOK, history
  <2>2. QED
    BY <1>1, <2>1 DEF Discharged, TypeOK
<1>4. \A c \in Batches : /\ In(c, "list")' => In(c, "list") /\ c # b
                         /\ In(c, "mark")' => In(c, "mark") /\ c # b
                         /\ In(c, "wake")' <=> In(c, "wake") /\ c # b
  BY <1>2 DEF In
<1>5. WokenOnce'
  BY <1>1 DEF Discharged, WokenOnce
<1>6. NightHoldsAreWoken'
  <2>1. ~In(b, "wake") \/ batch[b].todo = {}
    BY <1>1 DEF In
  <2>2. QED
    BY <1>1, <1>2, <1>4, <2>1 DEF Discharged, NightHoldsAreWoken
<1>7. Scheduled'
  <2>1. process = "up" \/ (process = "arming" /\ b = "boot")
    BY <1>1 DEF Discharged, TypeOK, Scheduled, Batches
  <2>2. b = "timer" => alarm = "off"
    BY <1>1 DEF Discharged, TypeOK, Scheduled
  <2>3. QED
    BY <1>1, <1>2, <1>4, <2>1, <2>2 DEF Discharged, Scheduled, Batches
<1>8. BatchesApart'
  BY <1>1, <1>2, <1>4 DEF Discharged, BatchesApart, Unreleased
<1>9. QED
  BY <1>3, <1>5, <1>6, <1>7, <1>8 DEF Discharged

\* A batch that ends because the answer to its mark was lost: what it had listed is excused.
LEMMA UnheardKeeps == ASSUME Discharged, NEW b \in Batches, Unheard(b) PROVE Discharged'
<1>1. /\ batch[b] \in Batch /\ batch[b] # None /\ batch[b].phase = "mark" /\ In(b, "mark")
      /\ batch' = [batch EXCEPT ![b] = None]
      /\ alarm' = IF b = "timer" THEN "set" ELSE alarm
      /\ excused' = excused \cup batch[b].listed
      /\ UNCHANGED <<open, process, event, enabled, woken>>
  BY DEF Unheard, Ended, In, Discharged, TypeOK
<1>2. /\ batch[b].listed \subseteq Unreleased
      /\ \A h \in Unreleased : held[h].night => h \in batch[b].listed
      /\ \A h \in Unreleased : h \in Holds /\ held[h] \in Hold /\ ~held[h].released
  BY <1>1 DEF Discharged, BatchesApart, Unreleased, TypeOK
<1>3. batch'[b] = None /\ \A c \in Batches \ {b} : batch'[c] = batch[c]
  BY <1>1 DEF Discharged, TypeOK
<1>4. \A c \in Batches : /\ ~In(c, "list")' /\ ~In(c, "mark")'
                         /\ In(c, "wake")' <=> In(c, "wake")
                         /\ In(c, "wake") => c # b
  BY <1>1, <1>3 DEF In, Discharged, BatchesApart
<1>5. /\ \A h \in Holds \ Unreleased : held'[h] = held[h]
      /\ \A h \in Unreleased : /\ held'[h] \in Hold /\ held'[h].released
                               /\ held'[h].emp = held[h].emp /\ held'[h].night = held[h].night
  BY <1>2 DEF Unheard, ReleaseAll, Hold, Unreleased
<1>6. TypeOK'
  <2>1. held' \in [Holds -> Hold \cup {None}]
    BY <1>5 DEF Unheard, ReleaseAll, Discharged, TypeOK
  <2>2. troubles' \in 0 .. MaxTrouble /\ excused' \subseteq Holds
    BY <1>1, <1>2, HeldAssumption DEF Unheard, Discharged, TypeOK
  <2>3. QED
    BY <1>1, <2>1, <2>2 DEF Discharged, TypeOK
<1>7. \A h \in Holds : held[h] # None => held'[h] # None /\ (held[h].released => held'[h] = held[h])
  BY <1>5, NoneApart DEF Unreleased
<1>8. WokenOnce'
  BY <1>1, <1>7 DEF Discharged, WokenOnce
<1>9. NightHoldsAreWoken'
  <2>1. SUFFICES ASSUME NEW h \in Holds, held'[h] # None, held'[h].night, held'[h].released
                 PROVE  \/ woken'[h] = 1 \/ h \in excused'
                        \/ \E c \in Batches : In(c, "wake")' /\ h \in batch'[c].listed /\ held'[h].emp \in batch'[c].todo
    BY DEF NightHoldsAreWoken
  <2>2. CASE h \in Unreleased
    BY <1>1, <1>2, <1>5, <2>1, <2>2
  <2>3. CASE h \notin Unreleased
    <3>1. held'[h] = held[h]
      BY <1>5, <2>3
    <3>2. \/ woken[h] = 1 \/ h \in excused
          \/ \E c \in Batches : In(c, "wake") /\ h \in batch[c].listed /\ held[h].emp \in batch[c].todo
      BY <2>1, <3>1 DEF Discharged, NightHoldsAreWoken
    <3>3. QED
      BY <1>1, <1>3, <1>4, <3>1, <3>2
  <2>4. QED
    BY <2>2, <2>3
<1>10. Scheduled'
  <2>1. process = "up" \/ (process = "arming" /\ b = "boot")
    BY <1>1 DEF Discharged, TypeOK, Scheduled, Batches
  <2>2. b = "timer" => alarm = "off"
    BY <1>1 DEF Discharged, TypeOK, Scheduled
  <2>3. QED
    BY <1>1, <1>3, <1>4, <2>1, <2>2 DEF Discharged, Scheduled, Batches
<1>11. BatchesApart'
  <2>1. \A c \in Batches : In(c, "wake") => \A h \in batch[c].listed :
          h \in Holds /\ held'[h] = held[h] /\ held[h] # None /\ held[h].released
            /\ (held[h].emp \in batch[c].todo => woken[h] = 0)
    <3>1. \A c \in Batches : batch[c] # None => batch[c].listed \subseteq Holds
      BY DEF Discharged, TypeOK, Batch
    <3>2. QED
      BY <1>7, <3>1 DEF Discharged, BatchesApart, In
  <2>2. QED
    BY <1>1, <1>3, <1>4, <2>1 DEF Discharged, BatchesApart
<1>12. QED
  BY <1>6, <1>8, <1>9, <1>10, <1>11 DEF Discharged

\* One employee of a batch.
LEMMA WakeKeeps ==
  ASSUME Discharged, NEW b \in Batches, NEW p \in Employees, WakeEmployee(b, p)
  PROVE  Discharged'
<1> DEFINE mine == {h \in batch[b].listed : held[h].emp = p}
           y == [batch[b] EXCEPT !.todo = batch[b].todo \ {p}]
<1>1. batch[b] \in Batch /\ batch[b] # None /\ batch[b].phase = "wake" /\ p \in batch[b].todo
  BY DEF WakeEmployee, In, Discharged, TypeOK
<1>2. y \in Batch /\ y.phase = "wake" /\ y.listed = batch[b].listed /\ y.todo = batch[b].todo \ {p} /\ y # None
  BY <1>1, NoneApart DEF Batch
<1>3. batch' = [batch EXCEPT ![b] = y] /\ UNCHANGED <<open, process, alarm, event, held, enabled>>
  BY DEF WakeEmployee
<1>4. \/ woken' = [h \in Holds |-> IF h \in mine THEN woken[h] + 1 ELSE woken[h]] /\ UNCHANGED <<excused, troubles>>
      \/ excused' = excused \cup mine /\ woken' = woken /\ troubles' = troubles
      \/ excused' = excused \cup mine /\ woken' = woken /\ troubles < MaxTrouble /\ troubles' = troubles + 1
  BY DEF WakeEmployee
<1> HIDE DEF y
<1>5. batch'[b] = y /\ \A c \in Batches \ {b} : batch'[c] = batch[c]
  BY <1>3 DEF Discharged, TypeOK
<1>6. mine \subseteq Holds /\ \A h \in mine : held[h] # None /\ held[h].released /\ woken[h] = 0
  BY <1>1 DEF Discharged, BatchesApart, In, Batch
<1>7. \A c \in Batches : /\ In(c, "list")' <=> In(c, "list")
                         /\ In(c, "mark")' <=> In(c, "mark")
                         /\ In(c, "wake")' <=> In(c, "wake")
  BY <1>1, <1>2, <1>5 DEF In
<1>8. /\ \A h \in Holds \ mine : woken'[h] = woken[h] /\ (h \in excused' <=> h \in excused)
      /\ \A h \in mine : woken'[h] \in {0, 1} /\ (woken'[h] = 1 \/ h \in excused')
      /\ \A h \in mine : held'[h].released
  BY <1>3, <1>4, <1>6 DEF Discharged, TypeOK
<1>9. TypeOK'
  <2>1. woken' \in [Holds -> Nat] /\ excused' \subseteq Holds
    BY <1>4, <1>6 DEF Discharged, TypeOK
  <2>2. troubles' \in 0 .. MaxTrouble
    BY <1>4, HeldAssumption DEF Discharged, TypeOK
  <2>3. QED
    BY <1>2, <1>3, <2>1, <2>2 DEF Discharged, TypeOK
<1>10. WokenOnce'
  BY <1>3, <1>6, <1>8 DEF Discharged, WokenOnce
<1>11. NightHoldsAreWoken'
  <2>1. SUFFICES ASSUME NEW h \in Holds, held[h] # None, held[h].night, held[h].released
                 PROVE  \/ woken'[h] = 1 \/ h \in excused'
                        \/ \E c \in Batches : In(c, "wake")' /\ h \in batch'[c].listed /\ held[h].emp \in batch'[c].todo
    BY <1>3 DEF NightHoldsAreWoken
  <2>2. \/ woken[h] = 1 \/ h \in excused
        \/ \E c \in Batches : In(c, "wake") /\ h \in batch[c].listed /\ held[h].emp \in batch[c].todo
    BY <2>1 DEF Discharged, NightHoldsAreWoken
  <2>3. CASE h \in mine
    BY <1>8, <2>3
  <2>4. CASE h \notin mine
    BY <1>2, <1>5, <1>7, <1>8, <2>2, <2>4
  <2>5. QED
    BY <2>3, <2>4
<1>12. Scheduled'
  BY <1>3, <1>5, <1>2, <1>7 DEF Discharged, Scheduled, Batches, In
<1>13. BatchesApart'
  <2>1. \A c \in Batches \ {b} : In(c, "wake") => batch[c].listed \cap mine = {}
    BY <1>1 DEF Discharged, BatchesApart, In
  <2>2. \A c \in Batches : batch[c] # None => batch[c].listed \subseteq Holds
    BY DEF Discharged, TypeOK, Batch
  <2>3. \A c \in Batches, h \in Holds : In(c, "wake") /\ h \in batch[c].listed /\ h \notin mine => woken'[h] = woken[h]
    BY <1>8
  <2>4. \A h \in batch[b].listed : held[h].emp \in y.todo => h \in Holds /\ h \notin mine
    BY <1>1, <1>2, <2>2
  <2>5. \A c \in Batches : In(c, "wake") => \A h \in batch[c].listed :
           held[h] # None /\ held[h].released /\ (held[h].emp \in batch'[c].todo => woken'[h] = 0)
    <3>1. ASSUME NEW c \in Batches, In(c, "wake"), NEW h \in batch[c].listed
          PROVE  held[h] # None /\ held[h].released /\ (held[h].emp \in batch'[c].todo => woken'[h] = 0)
      <4>1. h \in Holds /\ held[h] # None /\ held[h].released /\ (held[h].emp \in batch[c].todo => woken[h] = 0)
        BY <2>2, <3>1 DEF Discharged, BatchesApart, In
      <4>2. CASE c = b
        BY <1>2, <1>5, <2>3, <2>4, <3>1, <4>1, <4>2
      <4>3. CASE c # b
        BY <1>5, <2>1, <2>3, <3>1, <4>1, <4>3
      <4>4. QED
        BY <4>2, <4>3
    <3>2. QED
      BY <3>1
  <2>6. QED
    BY <1>2, <1>3, <1>5, <1>7, <2>5 DEF Discharged, BatchesApart, Unreleased
<1>14. QED
  BY <1>9, <1>10, <1>11, <1>12, <1>13 DEF Discharged

\* A call looks at the clock, and the owner at his switches.
LEMMA AskKeeps ==
  ASSUME Discharged, NEW e \in Events, NEW S \in SUBSET Employees, NEW urgent \in BOOLEAN,
         AssignmentChanged(e, S, urgent)
  PROVE  Discharged'
<1>1. [todo |-> S, now |-> open \/ urgent] \in Event
  BY DEF Event, Discharged, TypeOK
<1>2. TypeOK'
  BY <1>1 DEF AssignmentChanged, Discharged, TypeOK, history
<1>3. QED
  BY <1>2 DEF AssignmentChanged, Discharged, WokenOnce, NightHoldsAreWoken, Scheduled, BatchesApart,
     In, Unreleased, history

LEMMA SwitchKeeps == ASSUME Discharged, NEW p \in Employees, Switch(p) PROVE Discharged'
<1>1. TypeOK'
  BY DEF Switch, Discharged, TypeOK, memory, history
<1>2. QED
  BY <1>1 DEF Switch, Discharged, WokenOnce, NightHoldsAreWoken, Scheduled, BatchesApart,
     In, Unreleased, memory, history

\* A recipient is dealt with: a row that is new, and by night no batch is about to mark it.
LEMMA NotifyKeeps ==
  ASSUME Discharged, NEW e \in Events, NEW p \in Employees, Notify(e, p)
  PROVE  Discharged'
<1>1. /\ event' \in [Events -> Event \cup {None}]
      /\ UNCHANGED <<open, process, alarm, batch, enabled, woken, excused, troubles>>
  <2> DEFINE rest == [event[e] EXCEPT !.todo = event[e].todo \ {p}]
  <2>1. event[e] # None /\ event[e] \in Event /\ event \in [Events -> Event \cup {None}]
    BY DEF Notify, Discharged, TypeOK
  <2>2. rest \in Event
    BY <2>1 DEF Event
  <2>3. event' = [event EXCEPT ![e] = None] \/ event' = [event EXCEPT ![e] = rest]
    BY DEF Notify
  <2> HIDE DEF rest
  <2>4. event' \in [Events -> Event \cup {None}]
    BY <2>1, <2>2, <2>3
  <2>5. QED
    BY <2>4 DEF Notify, history
<1>2. CASE UNCHANGED held
  BY <1>1, <1>2 DEF Discharged, TypeOK, WokenOnce, NightHoldsAreWoken, Scheduled, BatchesApart,
     In, Unreleased
<1>3. ASSUME NEW h \in Holds, held[h] = None,
             held' = [held EXCEPT ![h] = [emp |-> p, released |-> FALSE, night |-> ~open]]
      PROVE  Discharged'
  <2> DEFINE r == [emp |-> p, released |-> FALSE, night |-> ~open]
  <2>1. r \in Hold /\ ~r.released /\ r.night = ~open
    BY DEF Hold, Discharged, TypeOK
  <2>2. r # None /\ held' = [held EXCEPT ![h] = r]
    BY <1>3, <2>1, NoneApart
  <2> HIDE DEF r
  <2>3. held'[h] = r /\ \A g \in Holds \ {h} : held'[g] = held[g]
    BY <2>2 DEF Discharged, TypeOK
  <2>4. TypeOK'
    BY <1>1, <2>1, <2>2 DEF Discharged, TypeOK
  <2>5. WokenOnce' /\ NightHoldsAreWoken'
    BY <1>1, <1>3, <2>1, <2>3 DEF Discharged, WokenOnce, NightHoldsAreWoken, In
  <2>6. Scheduled'
    BY <1>1 DEF Discharged, Scheduled, In
  <2>7. Unreleased' = Unreleased \cup {h} /\ h \notin Unreleased
    <3>1. \A g \in Holds \ {h} : g \in Unreleased' <=> g \in Unreleased
      BY <2>3 DEF Unreleased
    <3>2. h \in Unreleased' /\ h \notin Unreleased
      BY <1>3, <2>1, <2>2, <2>3 DEF Unreleased
    <3>3. Unreleased \subseteq Holds /\ Unreleased' \subseteq Holds
      BY DEF Unreleased
    <3>4. QED
      BY <3>1, <3>2, <3>3
  <2>8. \A b \in Batches : batch[b] # None => batch[b].listed \subseteq Holds
    BY DEF Discharged, TypeOK, Batch
  <2>9. \A b \in Batches : In(b, "mark") => ~r.night
    BY <2>1 DEF Discharged, Scheduled
  <2>10. \A b \in Batches : In(b, "wake") => h \notin batch[b].listed
    BY <1>3 DEF Discharged, BatchesApart
  <2>11. BatchesApart'
    <3>1. /\ \A b, c \in Batches : b # c /\ (In(b, "list") \/ In(b, "mark")) => ~In(c, "list") /\ ~In(c, "mark")
          /\ \A b, c \in Batches : b # c /\ In(b, "wake") /\ In(c, "wake") => batch[b].listed \cap batch[c].listed = {}
          /\ \A b \in Batches : In(b, "list") => batch[b].listed = {}
      BY DEF Discharged, BatchesApart
    <3>2. ASSUME NEW b \in Batches, In(b, "mark")
          PROVE  /\ batch[b].listed \subseteq Unreleased'
                 /\ \A g \in Unreleased' : held'[g].night => g \in batch[b].listed
      BY <2>3, <2>7, <2>9, <3>2 DEF Discharged, BatchesApart, Unreleased
    <3>3. ASSUME NEW b \in Batches, In(b, "wake"), NEW g \in batch[b].listed
          PROVE  /\ held'[g] # None /\ held'[g].released
                 /\ held'[g].emp \in batch[b].todo => woken[g] = 0
      <4>1. g # h /\ g \in Holds
        BY <2>8, <2>10, <3>3 DEF In
      <4>2. QED
        BY <2>3, <3>3, <4>1 DEF Discharged, BatchesApart
    <3>4. QED
      BY <1>1, <3>1, <3>2, <3>3 DEF BatchesApart, In
  <2>12. QED
    BY <2>4, <2>5, <2>6, <2>11 DEF Discharged
<1>4. QED
  BY <1>2, <1>3 DEF Notify

-----------------------------------------------------------------------------
LEMMA InitDischarged == Init => Discharged
  BY HeldAssumption DEF Init, Discharged, TypeOK, WokenOnce, NightHoldsAreWoken, Scheduled, BatchesApart,
     In, Unreleased, Batches

LEMMA NextDischarged == Discharged /\ [Next]_vars => Discharged'
<1>1. SUFFICES ASSUME Discharged, [Next]_vars PROVE Discharged'
  OBVIOUS
<1>2. CASE Dawn \/ Dusk
  BY <1>1, <1>2, ClockKeeps
<1>3. CASE Scheduler
  BY <1>1, <1>3, ClockKeeps, BeginKeeps DEF Scheduler
<1>4. CASE Stop
  BY <1>1, <1>4, StopKeeps
<1>5. ASSUME NEW b \in Batches, Release(b) \/ Fail(b) \/ Unheard(b) PROVE Discharged'
  BY <1>1, <1>5, ListKeeps, MarkKeeps, EndKeeps, UnheardKeeps, WakeKeeps DEF Release
<1>6. ASSUME NEW e \in Events, NEW S \in SUBSET Employees \ {{}}, NEW urgent \in BOOLEAN,
             AssignmentChanged(e, S, urgent)
      PROVE  Discharged'
  BY <1>1, <1>6, AskKeeps
<1>7. ASSUME NEW e \in Events, NEW p \in Employees, Notify(e, p) PROVE Discharged'
  BY <1>1, <1>7, NotifyKeeps
<1>8. ASSUME NEW p \in Employees, Switch(p) PROVE Discharged'
  BY <1>1, <1>8, SwitchKeeps
<1>9. CASE UNCHANGED vars
  BY <1>1, <1>9 DEF vars, memory, history, Discharged, TypeOK, WokenOnce, NightHoldsAreWoken, Scheduled,
     BatchesApart, In, Unreleased
<1>10. QED
  BY <1>1, <1>2, <1>3, <1>4, <1>5, <1>6, <1>7, <1>8, <1>9 DEF Next

\* A held row is woken for once at most, and what was held by night has had its wake when
\* it is marked released, is about to have it, or lost it to a stop, a failure or its
\* employee's switch (releaseHeldAtWindowOpen).
THEOREM DischargedCorrect == Spec => []Discharged
  BY InitDischarged, NextDischarged, PTL DEF Spec
=============================================================================

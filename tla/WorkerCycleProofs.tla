-------------------------- MODULE WorkerCycleProofs --------------------------
(***************************************************************************)
(* What holds of WorkerCycle for every set of monitors and jobs, every     *)
(* interval, evaluation period and length of a cycle: how long a signal    *)
(* can wait for the check that judges it, and that the loop makes nothing  *)
(* of the outbox that NotifyOutbox does not promise.                       *)
(***************************************************************************)
EXTENDS WorkerCycle, NotifyOutboxProofs

-----------------------------------------------------------------------------
(* The inductive invariant. *)

\* The worker touches the outbox only in the drain.
PcSound == turn # "drain" => pc[worker1] = "pruning"

\* A check is as old as its cycle at most, and a monitor is queued or still to
\* be asked about, not both.
BatchSound ==
    \A m \in Monitors :
        /\ begun[m] =< busy
        /\ phase[m] \notin {"checking", "applying"} => begun[m] = 0
        /\ turn = "due" => phase[m] \in {"idle", "queued"}
        /\ due[m] # "out" => turn = "due" /\ phase[m] = "idle"

\* This cycle has not judged m yet and is going to.
Coming(m) ==
    \/ turn = "loop"
    \/ turn = "due" /\ (due[m] = "due" \/ phase[m] = "queued")
    \/ turn = "batch" /\ phase[m] # "idle"

\* What a signal may have waited before the cycle that judges it: nothing when
\* its null stands, and less than a period when a time replaced it.
Slack(m) == IF m \in overtaken THEN Period(m) - 1 ELSE 0

\* How long signals have waited: those of a monitor whose check is to come in
\* this cycle may have missed the cycle before it.
Timely ==
    \A m \in JobMonitors :
        status[m] = "enabled" /\ unserved[m] # Null =>
            \/ unserved[m] =< Slack(m) + busy
            \/ Coming(m) /\ unserved[m] =< Slack(m) + MaxBusy + 1 + busy

\* A time that was taken a ago is no later than a signal that waits for s, or so
\* old that m is due.
Precedes(a, s, m) == s =< a \/ Period(m) =< a

\* A signal that waits makes its monitor due: it has left a null, or what was
\* written in the place of the null was taken before it.
Stamped ==
    \A m \in JobMonitors :
        unserved[m] # Null =>
            \/ checked[m] = Null
            \/ m \in overtaken /\ Precedes(checked[m], unserved[m], m)

\* So is what an edit is going to write.
Loaded ==
    \A e \in edits :
        e.monitor \in JobMonitors /\ unserved[e.monitor] # Null =>
            e.checked = Null \/ Precedes(e.checked, unserved[e.monitor], e.monitor)

\* What no check has read is among what none has judged.
Unread == \A m \in JobMonitors : unread[m] =< unserved[m]

\* The signals of a monitor that is paused do not grow older.
Held == \A m \in JobMonitors : status[m] # "enabled" => unserved[m] =< 0

Waiting == Stamped /\ Loaded /\ Unread /\ Held

\* A signal that came after the events were read is younger than the check.
Reading ==
    \A m \in JobMonitors :
        phase[m] = "applying" => unread[m] =< begun[m]

CycleInv ==
    CycleTypeOK /\ PcSound /\ BatchSound /\ Timely /\ Waiting /\ Reading

-----------------------------------------------------------------------------
(* Helpers. *)

LEMMA Bounds ==
    /\ MaxBusy \in Nat /\ JobPeriod \in Nat
    /\ SignalBound \in Nat
    /\ SignalBound = JobPeriod + 2 * MaxBusy
    /\ Workers = {worker1}
    /\ JobMonitors \subseteq Monitors
BY CycleAssumption DEF SignalBound

\* A JOB is evaluated at least every JobPeriod.
LEMMA PeriodBound ==
    ASSUME NEW m \in JobMonitors
    PROVE  Period(m) \in 1..JobPeriod
BY CycleAssumption DEF Period

\* A time that passes the bound of its counter stays there.
LEMMA OlderBound ==
    ASSUME NEW a \in Age, NEW top \in Nat
    PROVE  /\ Older(a, top) \in Age
           /\ Older(a, top) = Null <=> a = Null
           /\ a =< Older(a, top) /\ Older(a, top) =< a + 1
           /\ a # Null /\ a < top => Older(a, top) = a + 1
           /\ \A b \in Age : b =< a => Older(b, top) =< Older(a, top)
BY DEF Older, Age, Null

\* A step that moves none of the times leaves the signals as they wait.
LEMMA WaitingStays ==
    ASSUME Waiting, UNCHANGED <<status, edits, checked, unserved, unread, overtaken>>
    PROVE  Waiting'
BY DEF Waiting, Stamped, Loaded, Unread, Held, Precedes

LEMMA SlackBound ==
    ASSUME NEW m \in JobMonitors
    PROVE  Slack(m) \in 0..JobPeriod - 1
<1>1. JobPeriod \in Nat \ {0} /\ Period(m) \in 1..JobPeriod
    BY CycleAssumption, PeriodBound
<1> QED
    BY <1>1 DEF Slack

LEMMA CycleInitial == CycleInit => CycleInv
<1> SUFFICES ASSUME CycleInit PROVE CycleInv
    OBVIOUS
<1>1. Null \in Age
    BY DEF Age
<1>2. CycleTypeOK
    BY <1>1, Bounds DEF CycleInit, CycleTypeOK
<1>3. PcSound
    BY Bounds DEF CycleInit, Init, PcSound
<1>4. BatchSound /\ Timely /\ Waiting
    BY Bounds
    DEF CycleInit, BatchSound, Timely, Waiting, Stamped, Loaded, Unread, Held, Null
<1>5. Reading
    BY Bounds DEF CycleInit, Reading
<1> QED
    BY <1>2, <1>3, <1>4, <1>5 DEF CycleInv

-----------------------------------------------------------------------------
(* Administrators and clients. *)

LEMMA BeginEditStep ==
    ASSUME CycleInv, NEW m \in Monitors, BeginEdit(m)
    PROVE  CycleInv'
<1> USE DEF CycleInv
<1>1. /\ edits' = edits \cup {[monitor |-> m, checked |-> checked[m]]}
      /\ UNCHANGED <<vars, turn, status, deletions, checked, due, phase, begun, busy,
                     ghosts>>
    BY DEF BeginEdit
<1>2. UNCHANGED <<pc, unserved, unread, overtaken>>
    BY <1>1 DEF vars, worker, ghosts
<1>3. CycleTypeOK'
    <2>1. checked[m] \in Age
        BY DEF CycleTypeOK
    <2> QED
        BY <1>1, <1>2, <2>1 DEF CycleTypeOK
<1>4. PcSound' /\ BatchSound' /\ Timely' /\ Reading'
    BY <1>1, <1>2 DEF PcSound, BatchSound, Timely, Slack, Coming, Reading
<1>5. Stamped' /\ Unread' /\ Held'
    BY <1>1, <1>2 DEF Waiting, Stamped, Precedes, Unread, Held
<1>6. Loaded'
    <2> SUFFICES ASSUME NEW e \in edits', e.monitor \in JobMonitors,
                        unserved[e.monitor] # Null
                 PROVE  \/ e.checked = Null
                        \/ Precedes(e.checked, unserved[e.monitor], e.monitor)
        BY <1>2 DEF Loaded, Precedes
    <2>1. CASE e \in edits
        BY <2>1 DEF Waiting, Loaded
    <2>2. CASE e = [monitor |-> m, checked |-> checked[m]]
        BY <2>2 DEF Waiting, Stamped
    <2> QED
        BY <1>1, <2>1, <2>2
<1> QED
    BY <1>3, <1>4, <1>5, <1>6 DEF Waiting

\* The time an edit writes was loaded before the signals that wait, or it is
\* their null.
LEMMA SaveEditStep ==
    ASSUME CycleInv, NEW e \in edits, NEW on \in BOOLEAN, SaveEdit(e, on)
    PROVE  CycleInv'
<1> USE DEF CycleInv
<1> DEFINE m == e.monitor
<1>1. /\ edits' = edits \ {e}
      /\ status' = [status EXCEPT ![m] = IF on THEN "enabled" ELSE "disabled"]
      /\ checked' = [checked EXCEPT ![m] = e.checked]
      /\ unserved' = [i \in JobMonitors |->
            IF i = m /\ ~on /\ unserved[i] # Null THEN 0 ELSE unserved[i]]
      /\ unread' = [i \in JobMonitors |->
            IF i = m /\ ~on /\ unread[i] # Null THEN 0 ELSE unread[i]]
      /\ overtaken' = overtaken \cup
            {i \in JobMonitors : i = m /\ e.checked # Null /\ unserved[i] # Null}
      /\ UNCHANGED <<vars, turn, deletions, due, phase, begun, busy>>
    BY DEF SaveEdit
<1>2. UNCHANGED pc
    BY <1>1 DEF vars, worker
<1>3. m \in Monitors /\ e.checked \in Age
    BY DEF CycleTypeOK
<1>4. 0 \in Age /\ Age \subseteq Int
    BY DEF Age, Null
<1>5. ASSUME NEW j \in JobMonitors
      PROVE  /\ unserved[j] \in Age /\ unread[j] \in Age /\ checked[j] \in Age
             /\ begun[j] \in Nat
             /\ unserved'[j] = Null <=> unserved[j] = Null
             /\ unserved'[j] =< unserved[j]
             /\ unread'[j] =< unread[j]
             /\ unread'[j] =< unserved'[j]
    <2>1. /\ unserved[j] \in Age /\ unread[j] \in Age /\ checked[j] \in Age
          /\ begun[j] \in Nat
        BY Bounds DEF CycleTypeOK
    <2>2. unread[j] =< unserved[j]
        BY DEF Waiting, Unread
    <2> QED
        BY <1>1, <2>1, <2>2 DEF Age, Null
<1> HIDE DEF m
<1>6. CycleTypeOK'
    <2>1. status' \in [Monitors -> {"enabled", "disabled", "deleted"}]
        BY <1>1 DEF CycleTypeOK
    <2>2. checked' \in [Monitors -> Age] /\ edits' \subseteq edits
        BY <1>1, <1>3 DEF CycleTypeOK
    <2>3. unserved' \in [JobMonitors -> Age] /\ unread' \in [JobMonitors -> Age]
        BY <1>1, <1>4, <1>5
    <2>4. overtaken' \subseteq JobMonitors
        BY <1>1 DEF CycleTypeOK
    <2> QED
        BY <1>1, <2>1, <2>2, <2>3, <2>4 DEF CycleTypeOK
<1>7. PcSound' /\ BatchSound'
    BY <1>1, <1>2 DEF PcSound, BatchSound
<1>8. Reading'
    BY <1>1, <1>4, <1>5 DEF Reading
<1>9. Timely'
    <2> SUFFICES ASSUME NEW j \in JobMonitors,
                        status'[j] = "enabled", unserved'[j] # Null
                 PROVE  \/ unserved'[j] =< Slack(j)' + busy'
                        \/ Coming(j)' /\ unserved'[j] =< Slack(j)' + MaxBusy + 1 + busy'
        BY DEF Timely
    <2>1. /\ unserved'[j] =< unserved[j] /\ unserved[j] # Null
          /\ unserved'[j] \in Int /\ unserved[j] \in Int
        BY <1>4, <1>5, <1>6 DEF CycleTypeOK
    <2>2. /\ Slack(j) =< Slack(j)'
          /\ Slack(j) \in Nat /\ Slack(j)' \in Nat
        <3>1. Period(j) \in Nat \ {0}
            BY PeriodBound
        <3>2. j \in overtaken => j \in overtaken'
            BY <1>1
        <3> QED
            BY <3>1, <3>2 DEF Slack
    <2>3. Coming(j)' = Coming(j) /\ busy' = busy /\ busy \in Nat /\ MaxBusy \in Nat
        BY <1>1, Bounds DEF Coming, CycleTypeOK
    <2>4. CASE status[j] = "enabled"
        <3>1. \/ unserved[j] =< Slack(j) + busy
              \/ Coming(j) /\ unserved[j] =< Slack(j) + MaxBusy + 1 + busy
            BY <2>1, <2>4 DEF Timely
        <3> QED
            BY <2>1, <2>2, <2>3, <3>1
    <2>5. CASE status[j] # "enabled"
        <3>1. unserved[j] =< 0
            BY <2>5 DEF Waiting, Held
        <3> QED
            BY <2>1, <2>2, <2>3, <3>1
    <2> QED
        BY <2>4, <2>5
<1>10. ASSUME NEW j \in JobMonitors, NEW a \in Age, Precedes(a, unserved[j], j)
       PROVE  Precedes(a, unserved'[j], j)
    <2>1. unserved'[j] =< unserved[j] /\ unserved[j] \in Int /\ unserved'[j] \in Int
        BY <1>4, <1>5, <1>6 DEF CycleTypeOK
    <2>2. a \in Int
        BY <1>4
    <2>3. unserved[j] =< a \/ Period(j) =< a
        BY <1>10 DEF Precedes
    <2>4. unserved'[j] =< a \/ Period(j) =< a
        BY <2>1, <2>2, <2>3
    <2> QED
        BY <2>4 DEF Precedes
<1>11. Stamped'
    <2> SUFFICES ASSUME NEW j \in JobMonitors, unserved'[j] # Null, checked'[j] # Null
                 PROVE  j \in overtaken' /\ Precedes(checked'[j], unserved'[j], j)
        BY DEF Stamped
    <2>1. unserved[j] # Null /\ j \in Monitors
        BY <1>5, Bounds
    <2>2. CASE j = m
        <3>1. checked'[j] = e.checked
            BY <1>1, <2>1, <2>2 DEF CycleTypeOK
        <3>2. j \in overtaken'
            BY <1>1, <2>1, <2>2, <3>1
        <3>3. Precedes(e.checked, unserved[j], j)
            BY <2>1, <2>2, <3>1 DEF Waiting, Loaded, m
        <3> QED
            BY <1>3, <1>10, <3>1, <3>2, <3>3
    <2>3. CASE j # m
        <3>1. checked'[j] = checked[j]
            BY <1>1, <2>1, <2>3 DEF CycleTypeOK
        <3>2. j \in overtaken /\ Precedes(checked[j], unserved[j], j)
            BY <2>1, <3>1 DEF Waiting, Stamped
        <3> QED
            BY <1>1, <1>5, <1>10, <3>1, <3>2
    <2> QED
        BY <2>2, <2>3
<1>12. Loaded'
    <2> SUFFICES ASSUME NEW f \in edits, f.monitor \in JobMonitors,
                        unserved'[f.monitor] # Null, f.checked # Null
                 PROVE  Precedes(f.checked, unserved'[f.monitor], f.monitor)
        BY <1>1 DEF Loaded
    <2>1. unserved[f.monitor] # Null /\ f.checked \in Age
        BY <1>5 DEF CycleTypeOK
    <2>2. Precedes(f.checked, unserved[f.monitor], f.monitor)
        BY <2>1 DEF Waiting, Loaded
    <2> QED
        BY <1>10, <2>1, <2>2
<1>13. Unread'
    BY <1>5 DEF Unread
<1>14. Held'
    <2> SUFFICES ASSUME NEW j \in JobMonitors, status'[j] # "enabled"
                 PROVE  unserved'[j] =< 0
        BY DEF Held
    <2>1. CASE j = m
        <3>1. ~on
            BY <1>1, <1>3, <2>1 DEF CycleTypeOK
        <3>2. unserved'[j] = IF unserved[j] # Null THEN 0 ELSE unserved[j]
            BY <1>1, <2>1, <3>1
        <3> QED
            BY <3>2 DEF Null
    <2>2. CASE j # m
        <3>1. status'[j] = status[j] /\ unserved'[j] = unserved[j]
            BY <1>1, <2>2, Bounds DEF CycleTypeOK
        <3> QED
            BY <3>1 DEF Waiting, Held
    <2> QED
        BY <2>1, <2>2
<1> QED
    BY <1>6, <1>7, <1>8, <1>9, <1>11, <1>12, <1>13, <1>14 DEF Waiting

\* Nothing is left of the signals of a monitor that is deleted.
LEMMA DeleteStep ==
    ASSUME CycleInv, NEW m \in Monitors, Delete(m)
    PROVE  CycleInv'
<1> USE DEF CycleInv
<1>1. /\ status' = [status EXCEPT ![m] = "deleted"]
      /\ deletions' = deletions + 1
      /\ checked' = [checked EXCEPT ![m] = Null]
      /\ unserved' = [i \in JobMonitors |-> IF i = m THEN Null ELSE unserved[i]]
      /\ unread' = [i \in JobMonitors |-> IF i = m THEN Null ELSE unread[i]]
      /\ overtaken' = overtaken \ {m}
      /\ UNCHANGED <<vars, turn, edits, due, phase, begun, busy>>
    BY DEF Delete
<1>2. UNCHANGED pc
    BY <1>1 DEF vars, worker
<1>3. Null \in Age
    BY DEF Age
<1>4. CycleTypeOK'
    BY <1>1, <1>3 DEF CycleTypeOK
<1>5. ASSUME NEW j \in JobMonitors
      PROVE  /\ j = m => unserved'[j] = Null /\ unread'[j] = Null
             /\ j # m => /\ unserved'[j] = unserved[j] /\ unread'[j] = unread[j]
                         /\ checked'[j] = checked[j] /\ status'[j] = status[j]
                         /\ j \in overtaken' <=> j \in overtaken
    BY <1>1, Bounds DEF CycleTypeOK
<1>6. PcSound' /\ BatchSound'
    BY <1>1, <1>2 DEF PcSound, BatchSound
<1>7. Timely'
    BY <1>1, <1>5 DEF Timely, Slack, Coming
<1>8. Stamped' /\ Loaded'
    BY <1>1, <1>5 DEF Waiting, Stamped, Loaded, Precedes
<1>9. Unread' /\ Held'
    BY <1>5 DEF Waiting, Unread, Held, Null
<1>10. Reading'
    <2>1. \A j \in JobMonitors : Null =< begun[j]
        BY Bounds DEF CycleTypeOK, Null
    <2> QED
        BY <1>1, <1>5, <2>1 DEF Reading
<1> QED
    BY <1>4, <1>6, <1>7, <1>8, <1>9, <1>10 DEF Waiting

\* The signal leaves a null.
LEMMA SignalStep ==
    ASSUME CycleInv, NEW m \in JobMonitors, Signal(m)
    PROVE  CycleInv'
<1> USE DEF CycleInv
<1>1. /\ checked' = [checked EXCEPT ![m] = Null]
      /\ unserved' = [unserved EXCEPT ![m] = IF unserved[m] = Null THEN 0 ELSE unserved[m]]
      /\ unread' = [unread EXCEPT ![m] = IF unread[m] = Null THEN 0 ELSE unread[m]]
      /\ status[m] = "enabled"
      /\ UNCHANGED <<vars, turn, status, edits, deletions, due, phase, begun, busy,
                     overtaken>>
    BY DEF Signal, CheckedAfterSignal, administration
<1>2. UNCHANGED pc
    BY <1>1 DEF vars, worker
<1>3. 0 \in Age /\ Null \in Age
    BY DEF Age
<1>4. CycleTypeOK'
    BY <1>1, <1>3 DEF CycleTypeOK
<1>5. PcSound' /\ BatchSound'
    BY <1>1, <1>2 DEF PcSound, BatchSound
<1>6. Timely'
    <2> SUFFICES ASSUME NEW j \in JobMonitors,
                        status'[j] = "enabled", unserved'[j] # Null
                 PROVE  \/ unserved'[j] =< Slack(j)' + busy'
                        \/ Coming(j)' /\ unserved'[j] =< Slack(j)' + MaxBusy + 1 + busy'
        BY DEF Timely
    <2>1. CASE unserved'[j] = unserved[j]
        BY <1>1, <2>1 DEF Timely, Slack, Coming
    <2>2. CASE unserved'[j] # unserved[j]
        <3>1. unserved'[j] = 0
            BY <1>1, <2>2 DEF CycleTypeOK
        <3>2. Slack(j)' = Slack(j) /\ Slack(j) >= 0 /\ Slack(j) \in Int
            BY <1>1, SlackBound DEF Slack
        <3>3. busy' \in Nat
            BY <1>1 DEF CycleTypeOK
        <3> QED
            BY <3>1, <3>2, <3>3
    <2> QED
        BY <2>1, <2>2
<1>7. Stamped'
    BY <1>1, Bounds DEF Waiting, Stamped, Precedes, CycleTypeOK
<1>8. Loaded'
    <2> SUFFICES ASSUME NEW e \in edits, e.monitor = m, e.checked # Null
                 PROVE  Precedes(e.checked, unserved'[m], m)
        BY <1>1 DEF Waiting, Loaded, Precedes, CycleTypeOK
    <2>1. CASE unserved[m] # Null
        BY <1>1, <2>1 DEF Waiting, Loaded, Precedes, CycleTypeOK
    <2>2. CASE unserved[m] = Null
        <3>1. unserved'[m] = 0 /\ e.checked \in Nat
            BY <1>1, <2>2 DEF CycleTypeOK, Age
        <3> QED
            BY <3>1 DEF Precedes
    <2> QED
        BY <2>1, <2>2
<1>9. Unread' /\ Held'
    <2>1. \A j \in JobMonitors : unread[j] \in Age /\ unserved[j] \in Age
        BY DEF CycleTypeOK
    <2>2. Unread /\ Held
        BY DEF Waiting
    <2>3. Unread'
        BY <1>1, <2>1, <2>2 DEF Unread, Age, Null, CycleTypeOK
    <2>4. Held'
        BY <1>1, <2>2 DEF Held, CycleTypeOK
    <2> QED
        BY <2>3, <2>4
<1>10. Reading'
    <2>1. \A j \in JobMonitors : begun[j] >= 0
        BY Bounds DEF CycleTypeOK
    <2> QED
        BY <1>1, <2>1 DEF Reading, CycleTypeOK
<1> QED
    BY <1>4, <1>5, <1>6, <1>7, <1>8, <1>9, <1>10 DEF Waiting

-----------------------------------------------------------------------------
(* The loop. *)

\* A monitor the query leaves out has been looked at less than a period ago,
\* and then so is every signal it has not judged.
LEMMA QueryStep ==
    ASSUME CycleInv, Query
    PROVE  CycleInv'
<1> USE DEF CycleInv
<1>1. /\ turn = "loop" /\ turn' = "due"
      /\ due' = [m \in Monitors |->
            IF status[m] # "enabled" THEN "out"
            ELSE IF checked[m] = Null \/ checked[m] >= Period(m) THEN "due"
            ELSE "early"]
      /\ UNCHANGED <<vars, status, edits, deletions, checked, phase, begun, busy, ghosts>>
    BY DEF Query, administration
<1>2. UNCHANGED <<pc, unserved, unread, overtaken>>
    BY <1>1 DEF vars, worker, ghosts
<1>3. CycleTypeOK'
    <2>1. due' \in [Monitors -> {"out", "early", "due"}]
        BY <1>1
    <2> QED
        BY <1>1, <1>2, <2>1 DEF CycleTypeOK
<1>4. PcSound' /\ Waiting' /\ Reading'
    BY <1>1, <1>2, WaitingStays DEF PcSound, Reading
<1>5. BatchSound'
    BY <1>1, <1>2 DEF BatchSound, CycleTypeOK
<1>6. Timely'
    <2> SUFFICES ASSUME NEW j \in JobMonitors,
                        status[j] = "enabled", unserved[j] # Null
                 PROVE  \/ unserved[j] =< Slack(j) + busy
                        \/ Coming(j)' /\ unserved[j] =< Slack(j) + MaxBusy + 1 + busy
        BY <1>1, <1>2 DEF Timely, Slack
    <2>1. \/ unserved[j] =< Slack(j) + busy
          \/ unserved[j] =< Slack(j) + MaxBusy + 1 + busy
        BY DEF Timely
    <2>2. j \in Monitors
        BY Bounds
    <2>3. CASE due'[j] = "due"
        BY <1>1, <2>1, <2>3 DEF Coming
    <2>4. CASE due'[j] # "due"
        <3>1. checked[j] # Null /\ ~(checked[j] >= Period(j))
            BY <1>1, <2>2, <2>4
        <3>2. j \in overtaken /\ Precedes(checked[j], unserved[j], j)
            BY <3>1 DEF Waiting, Stamped
        <3>3. checked[j] \in Int /\ unserved[j] \in Int /\ busy \in Nat
            BY <2>2 DEF CycleTypeOK, Age, Null
        <3>4. unserved[j] =< Period(j) - 1 /\ Period(j) \in Nat
            BY <3>1, <3>2, <3>3, PeriodBound DEF Precedes
        <3>5. Slack(j) = Period(j) - 1
            BY <3>2 DEF Slack
        <3> QED
            BY <3>3, <3>4, <3>5
    <2> QED
        BY <2>3, <2>4
<1> QED
    BY <1>3, <1>4, <1>5, <1>6

LEMMA IsDueStep ==
    ASSUME CycleInv, NEW m \in Monitors, IsDue(m)
    PROVE  CycleInv'
<1> USE DEF CycleInv
<1>1. /\ turn = "due" /\ due[m] # "out" /\ status[m] # "deleted"
      /\ due' = [due EXCEPT ![m] = "out"]
      /\ phase' = [phase EXCEPT ![m] =
            IF due[m] = "due" /\ status[m] = "enabled" THEN "queued" ELSE "idle"]
      /\ UNCHANGED <<vars, turn, status, edits, deletions, checked, begun, busy, ghosts>>
    BY DEF IsDue, administration
<1>2. UNCHANGED <<pc, unserved, unread, overtaken>>
    BY <1>1 DEF vars, worker, ghosts
<1>3. phase[m] = "idle" /\ begun[m] = 0
    BY <1>1 DEF BatchSound
<1>4. CycleTypeOK'
    BY <1>1, <1>2 DEF CycleTypeOK
<1>5. PcSound' /\ Waiting'
    BY <1>1, <1>2, WaitingStays DEF PcSound
<1>6. Reading'
    BY <1>1, <1>2, Bounds DEF Reading, CycleTypeOK
<1>7. BatchSound'
    BY <1>1, <1>2, <1>3 DEF BatchSound, CycleTypeOK
<1>8. Timely'
    <2> SUFFICES ASSUME NEW j \in JobMonitors,
                        status[j] = "enabled", unserved[j] # Null
                 PROVE  Coming(j) => Coming(j)'
        BY <1>1, <1>2 DEF Timely, Slack
    <2>1. j \in Monitors
        BY Bounds
    <2>2. CASE j = m
        BY <1>1, <1>3, <2>1, <2>2 DEF Coming, CycleTypeOK
    <2>3. CASE j # m
        BY <1>1, <2>1, <2>3 DEF Coming, CycleTypeOK
    <2> QED
        BY <2>2, <2>3
<1> QED
    BY <1>4, <1>5, <1>6, <1>7, <1>8

LEMMA GatherStep ==
    ASSUME CycleInv, Gather
    PROVE  CycleInv'
<1> USE DEF CycleInv
<1>1. /\ turn = "due" /\ turn' = "batch"
      /\ \A m \in Monitors : due[m] = "out"
      /\ UNCHANGED <<vars, status, edits, deletions, checked, due, phase, begun, busy,
                     ghosts>>
    BY DEF Gather, administration
<1>2. UNCHANGED <<pc, unserved, unread, overtaken>>
    BY <1>1 DEF vars, worker, ghosts
<1>3. CycleTypeOK'
    BY <1>1, <1>2 DEF CycleTypeOK
<1>4. PcSound' /\ BatchSound' /\ Waiting' /\ Reading'
    BY <1>1, <1>2, WaitingStays DEF PcSound, BatchSound, Reading
<1>5. Timely'
    <2>1. \A j \in JobMonitors : Coming(j) => Coming(j)'
        BY <1>1, Bounds DEF Coming
    <2> QED
        BY <1>1, <1>2, <2>1 DEF Timely, Slack
<1> QED
    BY <1>3, <1>4, <1>5

LEMMA BeginStep ==
    ASSUME CycleInv, NEW m \in Monitors, Begin(m)
    PROVE  CycleInv'
<1> USE DEF CycleInv
<1>1. /\ turn = "batch" /\ phase[m] = "queued" /\ status[m] # "deleted"
      /\ phase' = [phase EXCEPT ![m] =
            IF status[m] = "enabled" THEN "checking" ELSE "idle"]
      /\ begun' = [begun EXCEPT ![m] = 0]
      /\ UNCHANGED <<vars, turn, status, edits, deletions, checked, due, busy, ghosts>>
    BY DEF Begin, administration
<1>2. UNCHANGED <<pc, unserved, unread, overtaken>>
    BY <1>1 DEF vars, worker, ghosts
<1>3. CycleTypeOK'
    BY <1>1, <1>2, Bounds DEF CycleTypeOK
<1>4. PcSound' /\ Waiting'
    BY <1>1, <1>2, WaitingStays DEF PcSound
<1>5. Reading'
    BY <1>1, <1>2, Bounds DEF Reading, CycleTypeOK
<1>6. BatchSound'
    <2>1. busy \in Nat
        BY DEF CycleTypeOK
    <2> QED
        BY <1>1, <2>1 DEF BatchSound, CycleTypeOK
<1>7. Timely'
    <2> SUFFICES ASSUME NEW j \in JobMonitors, status[j] = "enabled"
                 PROVE  Coming(j) => Coming(j)'
        BY <1>1, <1>2 DEF Timely, Slack
    <2> QED
        BY <1>1, Bounds DEF Coming, CycleTypeOK
<1> QED
    BY <1>3, <1>4, <1>5, <1>6, <1>7

\* The events are read: what comes later is not.
LEMMA PerformStep ==
    ASSUME CycleInv, NEW m \in Monitors, Perform(m)
    PROVE  CycleInv'
<1> USE DEF CycleInv
<1>1. /\ turn = "batch" /\ phase[m] = "checking"
      /\ phase' = [phase EXCEPT ![m] = "applying"]
      /\ unread' = [j \in JobMonitors |-> IF j = m THEN Null ELSE unread[j]]
      /\ UNCHANGED <<vars, turn, status, edits, deletions, checked, due, begun, busy,
                     unserved, overtaken>>
    BY DEF Perform, administration
<1>2. UNCHANGED pc
    BY <1>1 DEF vars, worker
<1>3. Null \in Age
    BY DEF Age
<1>4. CycleTypeOK'
    BY <1>1, <1>3 DEF CycleTypeOK
<1>5. PcSound' /\ Waiting'
    <2>1. \A j \in JobMonitors : Null =< unserved[j]
        BY DEF CycleTypeOK, Age, Null
    <2>2. Unread'
        BY <1>1, <2>1 DEF Waiting, Unread
    <2> QED
        BY <1>1, <1>2, <2>2 DEF PcSound, Waiting, Stamped, Loaded, Precedes, Held
<1>6. BatchSound'
    BY <1>1 DEF BatchSound, CycleTypeOK
<1>7. Timely'
    <2>1. \A j \in JobMonitors : Coming(j) => Coming(j)'
        BY <1>1, Bounds DEF Coming, CycleTypeOK
    <2> QED
        BY <1>1, <2>1 DEF Timely, Slack
<1>8. Reading'
    <2>1. \A j \in JobMonitors : begun[j] \in Nat
        BY Bounds DEF CycleTypeOK
    <2>2. \A j \in JobMonitors : Null =< begun[j]
        BY <2>1 DEF Null
    <2> QED
        BY <1>1, <2>2, Bounds DEF Reading, CycleTypeOK
<1> QED
    BY <1>4, <1>5, <1>6, <1>7, <1>8

LEMMA BeginDrainStep ==
    ASSUME CycleInv, BeginDrain
    PROVE  CycleInv'
<1> USE DEF CycleInv
<1>1. /\ turn = "batch" /\ turn' = "drain"
      /\ \A m \in Monitors : phase[m] = "idle"
      /\ UNCHANGED <<vars, status, edits, deletions, checked, due, phase, begun, busy,
                     ghosts>>
    BY DEF BeginDrain, Gathered, administration
<1>2. UNCHANGED <<pc, unserved, unread, overtaken>>
    BY <1>1 DEF vars, worker, ghosts
<1>3. CycleTypeOK'
    BY <1>1, <1>2 DEF CycleTypeOK
<1>4. PcSound' /\ BatchSound' /\ Waiting' /\ Reading'
    BY <1>1, <1>2, WaitingStays DEF PcSound, BatchSound, Reading
<1>5. Timely'
    <2>1. \A j \in JobMonitors : ~Coming(j)
        BY <1>1, Bounds DEF Coming
    <2> QED
        BY <1>1, <1>2, <2>1 DEF Timely, Slack
<1> QED
    BY <1>3, <1>4, <1>5

\* What the check has read is judged; what came since then is younger than its
\* start, which is what the column says from now on.
LEMMA ApplyStep ==
    ASSUME CycleInv, NEW m \in Monitors, Apply(m)
    PROVE  CycleInv'
<1> USE DEF CycleInv
<1>1. /\ turn = "batch" /\ phase[m] = "applying" /\ status[m] # "deleted"
      /\ phase' = [phase EXCEPT ![m] = "idle"]
      /\ checked' = [checked EXCEPT ![m] = begun[m]]
      /\ begun' = [begun EXCEPT ![m] = 0]
      /\ unserved' = [j \in JobMonitors |-> IF j = m THEN unread[j] ELSE unserved[j]]
      /\ overtaken' = {j \in overtaken : j # m} \cup
            {j \in JobMonitors : j = m /\ unread[j] # Null}
      /\ UNCHANGED <<turn, status, edits, deletions, due, busy, unread>>
    BY DEF Apply, administration
<1>2. UNCHANGED pc
    <2>1. (UNCHANGED vars) \/ \E i \in Items : Enqueue(i)
        BY DEF Apply
    <2> QED
        BY <2>1 DEF vars, worker, Enqueue
<1>3. begun[m] \in 0..MaxBusy /\ begun[m] \in Age /\ begun[m] =< busy /\ busy \in Nat
    <2>1. begun[m] \in 0..MaxBusy /\ begun[m] =< busy /\ busy \in Nat
        BY DEF CycleTypeOK, BatchSound
    <2> QED
        BY <2>1, Bounds DEF Age
<1>4. CycleTypeOK'
    <2>1. /\ phase' \in [Monitors -> {"idle", "queued", "checking", "applying"}]
          /\ begun' \in [Monitors -> 0..MaxBusy]
        BY <1>1, Bounds DEF CycleTypeOK
    <2>2. checked' \in [Monitors -> Age]
        BY <1>1, <1>3 DEF CycleTypeOK
    <2>3. unserved' \in [JobMonitors -> Age] /\ overtaken' \subseteq JobMonitors
        BY <1>1 DEF CycleTypeOK
    <2> QED
        BY <1>1, <2>1, <2>2, <2>3 DEF CycleTypeOK
<1>5. PcSound'
    BY <1>1, <1>2 DEF PcSound
<1>6. BatchSound'
    BY <1>1, <1>3 DEF BatchSound, CycleTypeOK
<1>7. Reading'
    BY <1>1, Bounds DEF Reading, CycleTypeOK
<1>8. ASSUME NEW j \in JobMonitors, j # m
      PROVE  /\ unserved'[j] = unserved[j]
             /\ checked'[j] = checked[j]
             /\ j \in overtaken' <=> j \in overtaken
             /\ phase'[j] = phase[j]
    BY <1>1, <1>8, Bounds DEF CycleTypeOK
<1>9. ASSUME m \in JobMonitors
      PROVE  /\ unserved'[m] = unread[m]
             /\ checked'[m] = begun[m]
             /\ m \in overtaken' <=> unread[m] # Null
             /\ unread[m] =< begun[m]
             /\ unserved'[m] =< unserved[m]
             /\ unserved'[m] # Null => unserved[m] # Null
    <2>1. unread[m] =< unserved[m] /\ unread[m] \in Age /\ unserved[m] \in Age
        BY <1>9 DEF Waiting, Unread, CycleTypeOK
    <2> QED
        BY <1>1, <1>9, <2>1 DEF CycleTypeOK, Reading, Age, Null
<1>10. Timely'
    <2> SUFFICES ASSUME NEW j \in JobMonitors,
                        status'[j] = "enabled", unserved'[j] # Null
                 PROVE  \/ unserved'[j] =< Slack(j)' + busy'
                        \/ Coming(j)' /\ unserved'[j] =< Slack(j)' + MaxBusy + 1 + busy'
        BY DEF Timely
    <2>1. CASE j = m
        <3>1. unserved'[j] =< begun[m] /\ j \in overtaken'
            BY <1>9, <2>1
        <3>2. Slack(j)' = Period(j) - 1 /\ Period(j) \in Nat \ {0}
            BY <3>1, PeriodBound DEF Slack
        <3>3. unserved'[j] \in Int
            BY <1>4 DEF CycleTypeOK, Age, Null
        <3>4. busy' = busy
            BY <1>1
        <3> QED
            BY <1>3, <3>1, <3>2, <3>3, <3>4
    <2>2. CASE j # m
        <3>1. Slack(j)' = Slack(j) /\ Coming(j)' = Coming(j)
            BY <1>1, <1>8, <2>2 DEF Slack, Coming
        <3> QED
            BY <1>1, <1>8, <2>2, <3>1 DEF Timely
    <2> QED
        BY <2>1, <2>2
<1>11. Stamped'
    BY <1>8, <1>9 DEF Waiting, Stamped, Precedes
<1>12. Loaded'
    <2> SUFFICES ASSUME NEW e \in edits, e.monitor = m, m \in JobMonitors,
                        unserved'[m] # Null, e.checked # Null
                 PROVE  Precedes(e.checked, unserved'[m], m)
        BY <1>1, <1>8 DEF Waiting, Loaded, Precedes
    <2>1. Precedes(e.checked, unserved[m], m)
        BY <1>9 DEF Waiting, Loaded
    <2>2. unserved'[m] =< unserved[m] /\ unserved[m] \in Int /\ unserved'[m] \in Int
        BY <1>4, <1>9 DEF CycleTypeOK, Age, Null
    <2>3. e.checked \in Int
        BY DEF CycleTypeOK, Age, Null
    <2> QED
        BY <2>1, <2>2, <2>3 DEF Precedes
<1>13. Unread' /\ Held'
    <2>1. \A j \in JobMonitors : unread[j] \in Int /\ unserved[j] \in Int
        BY DEF CycleTypeOK, Age, Null
    <2> QED
        BY <1>1, <1>8, <1>9, <2>1 DEF Waiting, Unread, Held
<1> QED
    BY <1>4, <1>5, <1>6, <1>7, <1>10, <1>11, <1>12, <1>13 DEF Waiting

-----------------------------------------------------------------------------
(* The process ends, and time passes. *)

\* A process that starts again begins a cycle of its own.
LEMMA StartAgainStep ==
    ASSUME CycleInv, TypeOK, Restart(worker1), StartAgain
    PROVE  CycleInv'
<1> USE DEF CycleInv
<1>1. /\ turn' = "loop"
      /\ due' = [m \in Monitors |-> "out"]
      /\ phase' = [m \in Monitors |-> "idle"]
      /\ begun' = [m \in Monitors |-> 0]
      /\ busy' = 0
      /\ unserved' = [m \in JobMonitors |-> IF unserved[m] = Null THEN Null ELSE 0]
      /\ unread' = unserved'
      /\ UNCHANGED <<status, edits, deletions, checked, overtaken>>
    BY DEF StartAgain, administration
<1>2. 0 \in Age /\ Null \in Age /\ 0 # Null
    BY DEF Age, Null
<1>3. CycleTypeOK'
    <2>1. unserved' \in [JobMonitors -> Age]
        BY <1>1, <1>2
    <2>2. begun' \in [Monitors -> 0..MaxBusy] /\ busy' \in 0..MaxBusy
        BY <1>1, Bounds
    <2> QED
        BY <1>1, <2>1, <2>2 DEF CycleTypeOK
<1>4. PcSound'
    BY Bounds DEF Restart, PcSound, TypeOK
<1>5. BatchSound' /\ Reading'
    BY <1>1, Bounds DEF BatchSound, Reading
<1>6. Timely'
    <2> SUFFICES ASSUME NEW j \in JobMonitors, unserved'[j] # Null
                 PROVE  unserved'[j] =< Slack(j)' + busy'
        BY DEF Timely
    <2>1. unserved'[j] = 0 /\ busy' = 0
        BY <1>1
    <2>2. Slack(j)' = Slack(j) /\ Slack(j) >= 0 /\ Slack(j) \in Int
        BY <1>1, SlackBound DEF Slack
    <2> QED
        BY <2>1, <2>2
<1>7. ASSUME NEW j \in JobMonitors
      PROVE  /\ unserved'[j] = Null <=> unserved[j] = Null
             /\ unserved'[j] =< unserved[j]
             /\ unserved'[j] \in Int /\ unserved[j] \in Int
    <2>1. unserved[j] \in Age
        BY DEF CycleTypeOK
    <2> QED
        BY <1>1, <2>1 DEF Age, Null
<1>8. ASSUME NEW j \in JobMonitors, NEW a \in Age, Precedes(a, unserved[j], j)
      PROVE  Precedes(a, unserved'[j], j)
    <2>1. a \in Int
        BY DEF Age, Null
    <2> QED
        BY <1>7, <1>8, <2>1 DEF Precedes
<1>9. Stamped'
    <2>1. \A j \in JobMonitors : checked[j] \in Age
        BY Bounds DEF CycleTypeOK
    <2> QED
        BY <1>1, <1>7, <1>8, <2>1 DEF Waiting, Stamped
<1>10. Loaded'
    <2>1. \A e \in edits : e.checked \in Age
        BY DEF CycleTypeOK
    <2> QED
        BY <1>1, <1>7, <1>8, <2>1 DEF Waiting, Loaded
<1>11. Unread' /\ Held'
    BY <1>1, <1>7 DEF Waiting, Unread, Held
<1> QED
    BY <1>3, <1>4, <1>5, <1>6, <1>9, <1>10, <1>11 DEF Waiting

\* The clock moves a signal, the column and a check under way alike, and the
\* cycle with them; a signal that misses its cycle is a cycle and a sleep old
\* when the next one begins.
LEMMA CycleTickStep ==
    ASSUME CycleInv, TypeOK, CycleTick
    PROVE  CycleInv'
<1> USE DEF CycleInv
<1> DEFINE asleep == pc[worker1] = "asleep"
<1>1. /\ asleep \/ busy < MaxBusy
      /\ busy' = IF asleep THEN 0 ELSE busy + 1
      /\ turn' = IF asleep THEN "loop" ELSE turn
      /\ checked' = [m \in Monitors |-> Older(checked[m], Period(m))]
      /\ begun' = [m \in Monitors |->
            IF phase[m] \in {"checking", "applying"} THEN begun[m] + 1 ELSE begun[m]]
      /\ unserved' = [m \in JobMonitors |->
            IF status[m] = "enabled" THEN Older(unserved[m], SignalBound + 1)
            ELSE unserved[m]]
      /\ unread' = [m \in JobMonitors |->
            IF status[m] = "enabled" THEN Older(unread[m], SignalBound + 1)
            ELSE unread[m]]
      /\ edits' =
            {[e EXCEPT !.checked = Older(e.checked, Period(e.monitor))] : e \in edits}
      /\ UNCHANGED <<status, deletions, due, phase, overtaken>>
    BY DEF CycleTick
<1>2. pc' = [k \in Workers |-> IF pc[k] = "asleep" THEN "pruning" ELSE pc[k]]
    BY DEF CycleTick, Tick
<1>3. asleep => turn = "drain" /\ \A m \in Monitors : phase[m] = "idle"
    BY DEF PcSound, CycleTypeOK
<1> HIDE DEF asleep
<1>4. busy \in Nat /\ MaxBusy \in Nat /\ busy =< MaxBusy
    BY Bounds DEF CycleTypeOK
<1>5. /\ \A j \in Monitors : checked[j] \in Age
      /\ \A j \in JobMonitors :
            checked[j] \in Age /\ unserved[j] \in Age /\ unread[j] \in Age
    BY Bounds DEF CycleTypeOK
<1>6. /\ Age \subseteq Int /\ SignalBound + 1 \in Nat
      /\ \A m \in Monitors : Period(m) \in Nat
    BY Bounds, CycleAssumption DEF Age, Null, Period
<1>7. ASSUME NEW m \in Monitors
      PROVE  /\ begun'[m] \in 0..MaxBusy
             /\ begun'[m] =< busy'
             /\ phase[m] \notin {"checking", "applying"} => begun'[m] = 0
             /\ phase[m] = "applying" => begun'[m] = begun[m] + 1
             /\ begun[m] \in Nat
    <2>1. /\ begun[m] \in Nat /\ begun[m] =< busy
          /\ phase[m] \notin {"checking", "applying"} => begun[m] = 0
        BY Bounds DEF BatchSound, CycleTypeOK
    <2>2. CASE phase[m] \in {"checking", "applying"}
        <3>1. ~asleep
            BY <1>3, <2>2
        <3>2. begun'[m] = begun[m] + 1 /\ busy' = busy + 1 /\ busy < MaxBusy
            BY <1>1, <2>2, <3>1
        <3> QED
            BY <1>4, <2>1, <2>2, <3>2
    <2>3. CASE phase[m] \notin {"checking", "applying"}
        <3>1. begun'[m] = 0 /\ begun[m] = 0
            BY <1>1, <2>1, <2>3
        <3>2. busy' \in Nat
            BY <1>1, <1>4
        <3> QED
            BY <1>4, <2>3, <3>1, <3>2
    <2> QED
        BY <2>2, <2>3
<1>8. CycleTypeOK'
    <2>1. checked' \in [Monitors -> Age]
        BY <1>1, <1>5, <1>6, OlderBound
    <2>2. unserved' \in [JobMonitors -> Age] /\ unread' \in [JobMonitors -> Age]
        BY <1>1, <1>5, <1>6, OlderBound
    <2>7. edits' \subseteq [monitor: Monitors, checked: Age]
        <3> SUFFICES ASSUME NEW e \in edits
                     PROVE  [e EXCEPT !.checked = Older(e.checked, Period(e.monitor))]
                                \in [monitor: Monitors, checked: Age]
            BY <1>1
        <3>1. e \in [monitor: Monitors, checked: Age]
            BY DEF CycleTypeOK
        <3>2. Older(e.checked, Period(e.monitor)) \in Age
            BY <1>6, <3>1, OlderBound
        <3> QED
            BY <3>1, <3>2
    <2>3. begun' \in [Monitors -> 0..MaxBusy]
        BY <1>1, <1>7
    <2>4. busy' \in 0..MaxBusy
        BY <1>1, <1>4
    <2>5. turn' \in {"loop", "due", "batch", "drain"}
        BY <1>1 DEF CycleTypeOK
    <2>6. turn' \in {"loop", "drain"} => \A m \in Monitors : phase'[m] = "idle"
        BY <1>1, <1>3 DEF CycleTypeOK
    <2> QED
        BY <1>1, <2>1, <2>2, <2>3, <2>4, <2>5, <2>6, <2>7 DEF CycleTypeOK
<1>9. PcSound'
    BY <1>1, <1>2, Bounds DEF PcSound, asleep
<1>10. BatchSound'
    BY <1>1, <1>3, <1>7 DEF BatchSound
<1>11. Reading'
    <2> SUFFICES ASSUME NEW j \in JobMonitors, phase[j] = "applying"
                 PROVE  unread'[j] =< begun'[j]
        BY <1>1 DEF Reading
    <2>1. begun'[j] = begun[j] + 1 /\ begun[j] \in Nat
        BY <1>7, Bounds
    <2>2. unread[j] =< begun[j] /\ unread[j] \in Int
        BY <1>5, <1>6 DEF Reading
    <2>3. unread'[j] =< unread[j] + 1 /\ unread'[j] \in Int
        <3>1. /\ Older(unread[j], SignalBound + 1) \in Int
              /\ Older(unread[j], SignalBound + 1) =< unread[j] + 1
            BY <1>5, <1>6, OlderBound
        <3> QED
            BY <1>1, <2>2, <3>1
    <2> QED
        BY <2>1, <2>2, <2>3
<1>12. ASSUME NEW j \in JobMonitors
       PROVE  /\ unserved'[j] = Null <=> unserved[j] = Null
              /\ unserved'[j] \in Int /\ unserved[j] \in Int
              /\ unserved'[j] =< unserved[j] + 1
    BY <1>1, <1>5, <1>6, OlderBound
<1>13. ASSUME NEW j \in JobMonitors, NEW a \in Age, a # Null, Precedes(a, unserved[j], j)
       PROVE  Precedes(Older(a, Period(j)), unserved'[j], j)
    <2>1. Period(j) \in Nat /\ a \in Int /\ Older(a, Period(j)) \in Int
        BY <1>6, Bounds, OlderBound
    <2>2. CASE Period(j) =< a
        <3>1. Period(j) =< Older(a, Period(j))
            BY <2>1, <2>2, OlderBound
        <3> QED
            BY <3>1 DEF Precedes
    <2>3. CASE a < Period(j)
        <3>1. Older(a, Period(j)) = a + 1 /\ unserved[j] =< a
            BY <1>13, <2>1, <2>3, OlderBound DEF Precedes
        <3>2. unserved'[j] =< a + 1
            BY <1>12, <2>1, <3>1
        <3> QED
            BY <3>1, <3>2 DEF Precedes
    <2> QED
        BY <2>1, <2>2, <2>3
<1>14. Stamped'
    <2> SUFFICES ASSUME NEW j \in JobMonitors, unserved'[j] # Null,
                        checked'[j] # Null
                 PROVE  j \in overtaken /\ Precedes(checked'[j], unserved'[j], j)
        BY <1>1 DEF Stamped
    <2>1. checked'[j] = Older(checked[j], Period(j)) /\ checked[j] # Null
        <3>1. checked'[j] = Older(checked[j], Period(j))
            BY <1>1, Bounds
        <3> QED
            BY <1>5, <1>6, <3>1, Bounds, OlderBound
    <2>2. j \in overtaken /\ Precedes(checked[j], unserved[j], j)
        BY <1>12, <2>1 DEF Waiting, Stamped
    <2>3. Precedes(Older(checked[j], Period(j)), unserved'[j], j)
        BY <1>5, <1>13, <2>1, <2>2
    <2> QED
        BY <2>1, <2>2, <2>3 DEF Precedes
<1>15. Loaded'
    <2> SUFFICES ASSUME NEW e \in edits, e.monitor \in JobMonitors,
                        unserved'[e.monitor] # Null,
                        Older(e.checked, Period(e.monitor)) # Null
                 PROVE  Precedes(Older(e.checked, Period(e.monitor)),
                                 unserved'[e.monitor], e.monitor)
        <3>1. \A e \in edits : e \in [monitor: Monitors, checked: Age]
            BY DEF CycleTypeOK
        <3> QED
            BY <1>1, <3>1 DEF Loaded, Precedes
    <2>1. e.checked \in Age
        BY DEF CycleTypeOK
    <2>2. e.checked # Null
        BY <1>6, <2>1, Bounds, OlderBound
    <2>3. Precedes(e.checked, unserved[e.monitor], e.monitor)
        BY <1>12, <2>2 DEF Waiting, Loaded
    <2> QED
        BY <1>13, <2>1, <2>2, <2>3
<1>16. Unread'
    <2> SUFFICES ASSUME NEW j \in JobMonitors PROVE unread'[j] =< unserved'[j]
        BY DEF Unread
    <2>1. unread[j] =< unserved[j]
        BY DEF Waiting, Unread
    <2>2. Older(unread[j], SignalBound + 1) =< Older(unserved[j], SignalBound + 1)
        BY <1>5, <1>6, <2>1, OlderBound
    <2> QED
        BY <1>1, <2>1, <2>2
<1>17. Held'
    BY <1>1 DEF Waiting, Held
<1>18. Timely'
    <2> SUFFICES ASSUME NEW j \in JobMonitors,
                        status[j] = "enabled", unserved'[j] # Null
                 PROVE  \/ unserved'[j] =< Slack(j)' + busy'
                        \/ Coming(j)' /\ unserved'[j] =< Slack(j)' + MaxBusy + 1 + busy'
        BY <1>1 DEF Timely
    <2>2. /\ unserved[j] # Null /\ unserved[j] \in Int /\ unserved'[j] \in Int
          /\ unserved'[j] =< unserved[j] + 1
        BY <1>12
    <2>3. Slack(j)' = Slack(j) /\ Slack(j) \in Int
        BY <1>1, SlackBound DEF Slack
    <2>4. \/ unserved[j] =< Slack(j) + busy
          \/ Coming(j) /\ unserved[j] =< Slack(j) + MaxBusy + 1 + busy
        BY <2>2 DEF Timely
    <2>5. CASE asleep
        <3>1. ~Coming(j)
            BY <1>3, <2>5 DEF Coming
        <3>2. unserved[j] =< Slack(j) + busy
            BY <2>4, <3>1
        <3>3. turn' = "loop" /\ busy' = 0
            BY <1>1, <2>5
        <3>4. unserved'[j] =< Slack(j) + MaxBusy + 1 + 0
            BY <1>4, <2>2, <2>3, <3>2
        <3> QED
            BY <2>3, <3>3, <3>4 DEF Coming
    <2>6. CASE ~asleep
        <3>1. busy' = busy + 1 /\ turn' = turn
            BY <1>1, <2>6
        <3>2. Coming(j)' = Coming(j)
            BY <1>1, <3>1 DEF Coming
        <3>3. CASE unserved[j] =< Slack(j) + busy
            BY <1>4, <2>2, <2>3, <3>1, <3>3
        <3>4. CASE Coming(j) /\ unserved[j] =< Slack(j) + MaxBusy + 1 + busy
            <4>1. unserved'[j] =< Slack(j)' + MaxBusy + 1 + busy'
                BY <1>4, <2>2, <2>3, <3>1, <3>4
            <4> QED
                BY <3>2, <3>4, <4>1
        <3> QED
            BY <2>4, <3>3, <3>4
    <2> QED
        BY <2>5, <2>6
<1> QED
    BY <1>8, <1>9, <1>10, <1>11, <1>14, <1>15, <1>16, <1>17, <1>18 DEF Waiting

-----------------------------------------------------------------------------
(* The outbox within the loop. *)

\* Every step of the loop is a step of the outbox, one it does not see, or the
\* restart that an exception in the loop causes.
LEMMA LoopStep ==
    ASSUME [CycleNext]_allVars
    PROVE  [Next]_vars \/ (Restart(worker1) /\ UNCHANGED crashes)
<1> DEFINE Goal == [Next]_vars \/ (Restart(worker1) /\ UNCHANGED crashes)
<1>1. (UNCHANGED vars) => Goal
    OBVIOUS
<1>2. CASE UNCHANGED allVars
    BY <1>1, <1>2 DEF allVars
<1>3. CASE Query \/ Gather \/ BeginDrain
    BY <1>1, <1>3 DEF Query, Gather, BeginDrain
<1>4. CASE Drain
    BY <1>4, Bounds DEF Drain, Next
<1>5. CASE Raise
    BY <1>5 DEF Raise
<1>6. ASSUME NEW m \in Monitors, IsDue(m) \/ Begin(m) \/ Perform(m)
      PROVE  Goal
    BY <1>1, <1>6 DEF IsDue, Begin, Perform
<1>7. ASSUME NEW m \in Monitors, Apply(m) PROVE Goal
    BY <1>7 DEF Apply, Next
<1>8. ASSUME NEW m \in Monitors, BeginEdit(m) \/ Delete(m)
      PROVE  Goal
    BY <1>1, <1>8 DEF BeginEdit, Delete
<1>9. ASSUME NEW e \in edits, NEW on \in BOOLEAN, SaveEdit(e, on)
       PROVE  Goal
    BY <1>1, <1>9 DEF SaveEdit
<1>10. ASSUME NEW m \in JobMonitors, Signal(m) PROVE Goal
    BY <1>1, <1>10 DEF Signal
<1>11. CASE Die
    BY <1>11, Bounds DEF Die, Next
<1>12. CASE CycleTick
    BY <1>12 DEF CycleTick, Next
<1>13. CASE CycleNetwork
    BY <1>13 DEF CycleNetwork, Next
<1> QED
    BY <1>2, <1>3, <1>4, <1>5, <1>6, <1>7, <1>8, <1>9, <1>10, <1>11, <1>12,
       <1>13 DEF CycleNext, Step

LEMMA LoopOutbox ==
    ASSUME OutboxInv, [CycleNext]_allVars
    PROVE  OutboxInv'
<1>1. CASE [Next]_vars
    BY <1>1, OutboxStep
<1>2. CASE Restart(worker1) /\ UNCHANGED crashes
    <2>1. crashes' \in Nat /\ worker1 \in Workers
        BY <1>2, Bounds DEF OutboxInv, TypeOK
    <2> QED
        BY <1>2, <2>1, RestartStep
<1> QED
    BY <1>1, <1>2, LoopStep

LEMMA CycleStep ==
    ASSUME CycleInv, OutboxInv, [CycleNext]_allVars
    PROVE  CycleInv'
<1>1. TypeOK
    BY DEF OutboxInv
<1>2. ASSUME UNCHANGED <<pc, cycle>> PROVE CycleInv'
    BY <1>2, WaitingStays
    DEF CycleInv, CycleTypeOK, PcSound, BatchSound, Timely, Coming, Slack,
        Reading, cycle, administration, ghosts
<1>3. CASE UNCHANGED allVars
    BY <1>2, <1>3 DEF allVars, vars, worker
<1>4. CASE Query
    BY <1>4, QueryStep
<1>5. CASE Gather
    BY <1>5, GatherStep
<1>6. CASE BeginDrain
    BY <1>6, BeginDrainStep
<1>7. CASE Drain
    <2>1. turn = "drain" /\ UNCHANGED cycle
        BY <1>7 DEF Drain
    <2>2. PcSound'
        BY <2>1 DEF PcSound, cycle
    <2> QED
        BY <2>1, <2>2, WaitingStays
        DEF CycleInv, CycleTypeOK, BatchSound, Timely, Coming, Slack, Reading,
            cycle, administration, ghosts
<1>8. CASE Raise
    BY <1>1, <1>8, StartAgainStep DEF Raise
<1>9. CASE Die
    BY <1>1, <1>9, StartAgainStep DEF Die, Crash
<1>10. CASE CycleTick
    BY <1>1, <1>10, CycleTickStep
<1>11. CASE CycleNetwork
    BY <1>2, <1>11 DEF CycleNetwork, NetworkTurns, worker
<1>12. ASSUME NEW m \in Monitors, IsDue(m) \/ Begin(m) \/ Perform(m) \/ Apply(m)
       PROVE  CycleInv'
    BY <1>12, IsDueStep, BeginStep, PerformStep, ApplyStep
<1>13. ASSUME NEW m \in Monitors, BeginEdit(m) \/ Delete(m)
       PROVE  CycleInv'
    BY <1>13, BeginEditStep, DeleteStep
<1>14. ASSUME NEW e \in edits, NEW on \in BOOLEAN, SaveEdit(e, on)
       PROVE  CycleInv'
    BY <1>14, SaveEditStep
<1>15. ASSUME NEW m \in JobMonitors, Signal(m) PROVE CycleInv'
    BY <1>15, SignalStep
<1> QED
    BY <1>3, <1>4, <1>5, <1>6, <1>7, <1>8, <1>9, <1>10, <1>11, <1>12, <1>13,
       <1>14, <1>15 DEF CycleNext, Step

LEMMA CycleInvariant == CycleSpec => [](CycleInv /\ OutboxInv)
<1>1. CycleInit => CycleInv /\ OutboxInv
    BY CycleInitial, OutboxInit DEF CycleInit
<1>2. CycleInv /\ OutboxInv /\ [CycleNext]_allVars => (CycleInv /\ OutboxInv)'
    BY CycleStep, LoopOutbox
<1> QED
    BY <1>1, <1>2, PTL DEF CycleSpec

-----------------------------------------------------------------------------
(* Theorems. *)

\* No check is left over from a cycle, and every time keeps to its bounds.
THEOREM CycleTypes == CycleSpec => []CycleTypeOK
<1>1. CycleInv => CycleTypeOK
    BY DEF CycleInv
<1> QED
    BY <1>1, CycleInvariant, PTL

\* A signal whose null no check and no edit has replaced is judged in the next
\* cycle but for one, however long the interval of its monitor, whatever the
\* other monitors do.
THEOREM SignalsSoon == CycleSpec => []SignalSeenSoon
<1>1. CycleInv => SignalSeenSoon
    <2> SUFFICES ASSUME CycleInv, NEW m \in JobMonitors,
                        status[m] = "enabled", m \notin overtaken
                 PROVE  unserved[m] =< 2 * MaxBusy + 1
        BY DEF SignalSeenSoon
    <2>1. busy \in 0..MaxBusy /\ MaxBusy \in Nat /\ unserved[m] \in Int
        BY Bounds DEF CycleInv, CycleTypeOK, Age, Null
    <2>2. Slack(m) = 0
        BY DEF Slack
    <2>3. \/ unserved[m] = Null
          \/ unserved[m] =< Slack(m) + busy
          \/ unserved[m] =< Slack(m) + MaxBusy + 1 + busy
        BY DEF CycleInv, Timely
    <2> QED
        BY <2>1, <2>2, <2>3 DEF Null
<1> QED
    BY <1>1, CycleInvariant, PTL

\* A signal whose null was replaced, by the start of a check that had not read
\* it or by the time an edit had loaded, waits one evaluation period and two
\* cycles at most.
THEOREM SignalsInTime == CycleSpec => []SignalSeenInTime
<1>1. CycleInv => SignalSeenInTime
    <2> SUFFICES ASSUME CycleInv, NEW m \in JobMonitors, status[m] = "enabled"
                 PROVE  unserved[m] =< SignalBound
        BY DEF SignalSeenInTime
    <2>1. busy \in 0..MaxBusy /\ MaxBusy \in Nat /\ unserved[m] \in Int
        BY Bounds DEF CycleInv, CycleTypeOK, Age, Null
    <2>2. Slack(m) \in 0..JobPeriod - 1 /\ JobPeriod \in Nat
        BY SlackBound, Bounds
    <2>3. \/ unserved[m] = Null
          \/ unserved[m] =< Slack(m) + busy
          \/ unserved[m] =< Slack(m) + MaxBusy + 1 + busy
        BY DEF CycleInv, Timely
    <2> QED
        BY <2>1, <2>2, <2>3, Bounds DEF Null
<1> QED
    BY <1>1, CycleInvariant, PTL

\* The loop, with the exceptions that end its process, lets go of no row that
\* Notify has not accepted.
THEOREM LoopDeliveryEarned == CycleSpec => []DeliveredMeansAccepted
<1>1. OutboxInv => DeliveredMeansAccepted
    BY DEF OutboxInv, NotifyInv, DeliveredMeansAccepted, WireKey
<1> QED
    BY <1>1, CycleInvariant, PTL

\* The loop implements NotifyDelivery: what a check announces is fanned out
\* once at most, however often its process ends.
THEOREM LoopDelivery == CycleSpec => ImplementsDelivery
<1>1. CycleInit => Delivery!Init
    BY DEF CycleInit, Init, Delivery!Init, Promised, Settled
<1>2. OutboxInv /\ [CycleNext]_allVars => [Delivery!Next]_(Delivery!vars)
    <2> SUFFICES ASSUME OutboxInv, [CycleNext]_allVars
                 PROVE  [Delivery!Next]_(Delivery!vars)
        OBVIOUS
    <2>1. CASE [Next]_vars
        BY <2>1, OutboxDelivers
    <2>2. CASE Restart(worker1)
        BY <2>2 DEF Restart, rows, notify, Promised, Settled, Delivery!vars
    <2> QED
        BY <2>1, <2>2, LoopStep
<1> QED
    BY <1>1, <1>2, CycleInvariant, PTL DEF CycleSpec, ImplementsDelivery, Delivery!Spec

LEMMA LoopAlone == Alone
BY Bounds DEF Alone

\* The rows of a drain are the loop's own, so none of them is gone when it is
\* fetched or recorded: the loop ends in DoesNotExist only for a monitor, in
\* Raise, never for an outbox row.
THEOREM LoopHolds == CycleSpec => []HeldRowsWait /\ [][~RowMissing(worker1)]_allVars
<1>1. CycleInit => HeldInv
    BY HeldInit DEF CycleInit
<1>2. OutboxInv /\ HeldInv /\ [CycleNext]_allVars => HeldInv'
    BY LoopStep, LoopAlone, HeldStep, HeldRestart, Bounds
<1>3. HeldInv => HeldRowsWait
    BY DEF HeldInv
<1>4. OutboxInv /\ HeldRowsWait => [~RowMissing(worker1)]_allVars
    BY NoRowMissing, Bounds
<1> QED
    BY <1>1, <1>2, <1>3, <1>4, CycleInvariant, PTL DEF CycleSpec
=============================================================================

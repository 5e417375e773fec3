----------------------------- MODULE WorkerCycle -----------------------------
(***************************************************************************)
(* The worker's loop (runmonitor.handle over engine.run_batch): one query  *)
(* for the monitors, is_due for each, the checks of those due, and then    *)
(* the drain of the outbox, which is NotifyOutbox run by the one worker    *)
(* production has.  Administrators edit and delete monitors and clients    *)
(* signal job runs at any moment of the loop; an edit loads a row and      *)
(* writes all of it back when it is saved.                                 *)
(*                                                                         *)
(* The only() query leaves enabled and kind to be loaded when is_due looks *)
(* at them; a row deleted by then raises, as it does in a check, and       *)
(* nothing catches that: the process ends and the drain does not take      *)
(* place.  What a check finds is left to MonitorEngine and JobSignals: here  *)
(* it may announce a transition or not.  No maintenance window is set.     *)
(***************************************************************************)
EXTENDS NotifyOutbox

CONSTANTS
    worker1,      \* the one member of Workers
    Monitors,
    JobMonitors,  \* monitors of kind JOB
    Interval,     \* Interval[m]: interval_seconds, in polls
    JobPeriod,    \* 30 in the code: the longest time between JOB evaluations
    MaxBusy,      \* bound: ticks between the start and the end of a cycle
    MaxEdits      \* bound: edits in progress

ASSUME CycleAssumption ==
    /\ Workers = {worker1}
    /\ IsFiniteSet(Monitors)
    /\ JobMonitors \subseteq Monitors
    /\ Interval \in [Monitors -> Nat \ {0}]
    /\ JobPeriod \in Nat \ {0}
    /\ MaxBusy \in Nat /\ MaxEdits \in Nat

VARIABLES
    turn,      \* "loop" to query, "due" to call is_due, "batch", "drain"
    status,    \* status[m]: enabled, disabled or deleted
    edits,     \* edits in progress: the monitor and the checked they loaded
    deletions, \* deletions so far
    checked,   \* checked[m]: time since last_checked_at, Null when it is null
    due,       \* rows of the query: selected[m] says whether is_due is true
    phase,     \* phase[m]: where run_monitor(m) is
    begun,     \* begun[m]: time since the checked_at of run_monitor(m)
    busy,      \* ticks since the cycle started
    unserved,  \* ghost: time since the oldest signal no applied check has read
    unread,    \* ghost: time since the oldest signal no check has read
    overtaken  \* ghost: JOBs whose null a check or an edit has replaced

administration == <<status, edits, deletions>>
ghosts == <<unserved, unread, overtaken>>
cycle == <<turn, administration, checked, due, phase, begun, busy, ghosts>>
allVars == <<vars, cycle>>

Null == -1

\* Faulty variant: a JOB is evaluated as seldom as its interval says.
PeriodOfInterval(m) == Interval[m]

\* min(interval_seconds, 30) for a JOB
Period(m) ==
    IF m \in JobMonitors /\ Interval[m] > JobPeriod THEN JobPeriod ELSE Interval[m]

\* The time by which a signal should have been served.
SignalBound == JobPeriod + 2 * MaxBusy

\* Times are counted up to where nothing changes any more: where a monitor is
\* due, and where a signal is overdue.
Age == Nat \cup {Null}
Older(a, top) == IF a = Null \/ a >= top THEN a ELSE a + 1

\* Besides the types: checks are under way only between the query and the
\* drain, and no cycle leaves one to the next.
CycleTypeOK ==
    /\ turn \in {"loop", "due", "batch", "drain"}
    /\ status \in [Monitors -> {"enabled", "disabled", "deleted"}]
    /\ edits \subseteq [monitor: Monitors, checked: Age]
    /\ deletions \in Nat
    /\ checked \in [Monitors -> Age]
    /\ due \in [Monitors -> {"out", "early", "due"}]
    /\ phase \in [Monitors -> {"idle", "queued", "checking", "applying"}]
    /\ begun \in [Monitors -> 0..MaxBusy]
    /\ busy \in 0..MaxBusy
    /\ unserved \in [JobMonitors -> Age]
    /\ unread \in [JobMonitors -> Age]
    /\ overtaken \subseteq JobMonitors
    /\ turn \in {"loop", "drain"} => \A m \in Monitors : phase[m] = "idle"

CycleInit ==
    /\ Init
    /\ turn = "loop"
    /\ status = [m \in Monitors |-> "enabled"]
    /\ edits = {}
    /\ deletions = 0
    /\ checked = [m \in Monitors |-> Null]
    /\ due = [m \in Monitors |-> "out"]
    /\ phase = [m \in Monitors |-> "idle"]
    /\ begun = [m \in Monitors |-> 0]
    /\ busy = 0
    /\ unserved = [m \in JobMonitors |-> Null]
    /\ unread = [m \in JobMonitors |-> Null]
    /\ overtaken = {}

-----------------------------------------------------------------------------
(* Administrators and clients.  MaxCrashes bounds deletions and crashes     *)
(* together.                                                                *)

\* MonitorUpdateView gets its object.
BeginEdit(m) ==
    /\ status[m] # "deleted"
    /\ Cardinality(edits) < MaxEdits
    /\ edits' = edits \cup {[monitor |-> m, checked |-> checked[m]]}
    /\ UNCHANGED <<vars, turn, status, deletions, checked, due, phase, begun, busy,
                   ghosts>>

\* form.save writes every column, last_checked_at as it was loaded and enabled
\* as the form says, and inserts a row that was deleted meanwhile.  The wait of
\* a signal starts again when its monitor is resumed.
SaveEdit(e, on) ==
    LET counted(times) ==
            [i \in JobMonitors |->
                IF i = e.monitor /\ ~on /\ times[i] # Null THEN 0 ELSE times[i]]
    IN  /\ edits' = edits \ {e}
        /\ status' = [status EXCEPT ![e.monitor] = IF on THEN "enabled" ELSE "disabled"]
        /\ checked' = [checked EXCEPT ![e.monitor] = e.checked]
        /\ unserved' = counted(unserved)
        /\ unread' = counted(unread)
        /\ overtaken' = overtaken \cup
                {i \in JobMonitors :
                    i = e.monitor /\ e.checked # Null /\ unserved[i] # Null}
        /\ UNCHANGED <<vars, turn, deletions, due, phase, begun, busy>>

\* Either may end the process.
Bounded == crashes + deletions < MaxCrashes

\* Its events go with the monitor.
Delete(m) ==
    /\ status[m] # "deleted"
    /\ Bounded
    /\ status' = [status EXCEPT ![m] = "deleted"]
    /\ deletions' = deletions + 1
    /\ checked' = [checked EXCEPT ![m] = Null]
    /\ unserved' = [i \in JobMonitors |-> IF i = m THEN Null ELSE unserved[i]]
    /\ unread' = [i \in JobMonitors |-> IF i = m THEN Null ELSE unread[i]]
    /\ overtaken' = overtaken \ {m}
    /\ UNCHANGED <<vars, turn, edits, due, phase, begun, busy>>

\* Faulty variant: the signal waits for the next evaluation.
CheckedAfterSignalKept(m) == checked[m]

\* last_checked_at=None
CheckedAfterSignal(m) == Null

Signal(m) ==
    /\ status[m] = "enabled"
    /\ checked' = [checked EXCEPT ![m] = CheckedAfterSignal(m)]
    /\ unserved' = [unserved EXCEPT ![m] = IF @ = Null THEN 0 ELSE @]
    /\ unread' = [unread EXCEPT ![m] = IF @ = Null THEN 0 ELSE @]
    /\ UNCHANGED <<vars, turn, administration, due, phase, begun, busy, overtaken>>

-----------------------------------------------------------------------------
(* The loop. *)

\* The one query of the cycle: last_checked_at and interval are read here.
Query ==
    /\ turn = "loop" /\ pc[worker1] # "asleep"
    /\ turn' = "due"
    /\ due' = [m \in Monitors |->
            IF status[m] # "enabled" THEN "out"
            ELSE IF checked[m] = Null \/ checked[m] >= Period(m) THEN "due"
            ELSE "early"]
    /\ UNCHANGED <<vars, administration, checked, phase, begun, busy, ghosts>>

\* is_due loads enabled, which may have changed since the query.
IsDue(m) ==
    /\ turn = "due" /\ due[m] # "out" /\ status[m] # "deleted"
    /\ due' = [due EXCEPT ![m] = "out"]
    /\ phase' = [phase EXCEPT ![m] =
            IF due[m] = "due" /\ status[m] = "enabled" THEN "queued" ELSE "idle"]
    /\ UNCHANGED <<vars, turn, administration, checked, begun, busy, ghosts>>

Gather ==
    /\ turn = "due"
    /\ \A m \in Monitors : due[m] = "out"
    /\ turn' = "batch"
    /\ UNCHANGED <<vars, administration, checked, due, phase, begun, busy, ghosts>>

\* run_monitor takes the time and loads the row.
Begin(m) ==
    /\ turn = "batch" /\ phase[m] = "queued" /\ status[m] # "deleted"
    /\ phase' = [phase EXCEPT ![m] =
            IF status[m] = "enabled" THEN "checking" ELSE "idle"]
    /\ begun' = [begun EXCEPT ![m] = 0]
    /\ UNCHANGED <<vars, turn, administration, checked, due, busy, ghosts>>

\* perform_check: of a JOB the events are read here.
Perform(m) ==
    /\ turn = "batch" /\ phase[m] = "checking"
    /\ phase' = [phase EXCEPT ![m] = "applying"]
    /\ unread' = [j \in JobMonitors |-> IF j = m THEN Null ELSE unread[j]]
    /\ UNCHANGED <<vars, turn, administration, checked, due, begun, busy, unserved,
                   overtaken>>

\* _apply_outcome sets last_checked_at to the time the check began, whatever
\* the column holds by now, and announces a transition or not.
Apply(m) ==
    /\ turn = "batch" /\ phase[m] = "applying" /\ status[m] # "deleted"
    /\ phase' = [phase EXCEPT ![m] = "idle"]
    /\ checked' = [checked EXCEPT ![m] = begun[m]]
    /\ begun' = [begun EXCEPT ![m] = 0]
    /\ unserved' = [j \in JobMonitors |-> IF j = m THEN unread[j] ELSE unserved[j]]
    /\ overtaken' = {j \in overtaken : j # m} \cup
            {j \in JobMonitors : j = m /\ unread[j] # Null}
    /\ \/ UNCHANGED vars
       \/ \E i \in Items : Enqueue(i)
    /\ UNCHANGED <<turn, administration, due, busy, unread>>

\* Faulty variant: the checks are started and not waited for.
GatheredEarly == \A m \in Monitors : phase[m] # "queued"

Gathered == \A m \in Monitors : phase[m] = "idle"

\* gather has returned: the drain begins.
BeginDrain ==
    /\ turn = "batch"
    /\ Gathered
    /\ turn' = "drain"
    /\ UNCHANGED <<vars, administration, checked, due, phase, begun, busy, ghosts>>

Drain ==
    /\ turn = "drain"
    /\ Work(worker1)
    /\ UNCHANGED cycle

\* The process ends and is started again: its batch is lost.  What a reader
\* may expect of a signal counts from there.
StartAgain ==
    /\ turn' = "loop"
    /\ due' = [m \in Monitors |-> "out"]
    /\ phase' = [m \in Monitors |-> "idle"]
    /\ begun' = [m \in Monitors |-> 0]
    /\ busy' = 0
    /\ unserved' = [m \in JobMonitors |-> IF unserved[m] = Null THEN Null ELSE 0]
    /\ unread' = unserved'
    /\ UNCHANGED <<administration, checked, overtaken>>

\* DoesNotExist from is_due, from Monitor.objects.get or under the row lock of
\* _apply_outcome ends the process.
Raise ==
    /\ \E m \in Monitors :
        /\ status[m] = "deleted"
        /\ \/ turn = "due" /\ due[m] # "out"
           \/ turn = "batch" /\ phase[m] \in {"queued", "applying"}
    /\ Restart(worker1)
    /\ UNCHANGED crashes
    /\ StartAgain

Die == Bounded /\ Crash(worker1) /\ StartAgain

\* Time passes, at most MaxBusy ticks of it in one cycle; the sleep between
\* two cycles is one tick.
CycleTick ==
    /\ Tick
    /\ pc[worker1] = "asleep" \/ busy < MaxBusy
    /\ busy' = IF pc[worker1] = "asleep" THEN 0 ELSE busy + 1
    /\ turn' = IF pc[worker1] = "asleep" THEN "loop" ELSE turn
    /\ checked' = [m \in Monitors |-> Older(checked[m], Period(m))]
    /\ begun' = [m \in Monitors |->
            IF phase[m] \in {"checking", "applying"} THEN begun[m] + 1 ELSE begun[m]]
    /\ unserved' = [m \in JobMonitors |->
            IF status[m] = "enabled" THEN Older(unserved[m], SignalBound + 1)
            ELSE unserved[m]]
    /\ unread' = [m \in JobMonitors |->
            IF status[m] = "enabled" THEN Older(unread[m], SignalBound + 1)
            ELSE unread[m]]
    /\ edits' = {[e EXCEPT !.checked = Older(@, Period(e.monitor))] : e \in edits}
    /\ UNCHANGED <<status, deletions, due, phase, overtaken>>

CycleNetwork == NetworkTurns /\ UNCHANGED cycle

-----------------------------------------------------------------------------
Step ==
    \/ Query \/ Gather \/ BeginDrain \/ Drain \/ Raise
    \/ \E m \in Monitors : IsDue(m) \/ Begin(m) \/ Perform(m) \/ Apply(m)

CycleNext ==
    \/ Step
    \/ \E m \in Monitors : BeginEdit(m) \/ Delete(m)
    \/ \E e \in edits, on \in BOOLEAN : SaveEdit(e, on)
    \/ \E m \in JobMonitors : Signal(m)
    \/ Die
    \/ CycleTick
    \/ CycleNetwork

\* A worker that can go on does, and time passes.
CycleSpec ==
    CycleInit /\ [][CycleNext]_allVars /\ WF_allVars(Step) /\ WF_allVars(CycleTick)

-----------------------------------------------------------------------------
(* Properties. *)

\* A signal received by a running worker is judged in the next cycle but for
\* one: the null it leaves makes its monitor due at once.  Not so when the null
\* does not stand: a check that had read the events before, or an edit that had
\* loaded the row before, writes a time in its place.
SignalSeenSoon ==
    \A m \in JobMonitors :
        status[m] = "enabled" /\ m \notin overtaken =>
            unserved[m] =< 2 * MaxBusy + 1

\* Even the signal whose null was replaced waits for no more than an evaluation
\* period and two cycles, however many checks and edits do so: none of them
\* writes a time later than the signal.
SignalSeenInTime ==
    \A m \in JobMonitors :
        status[m] = "enabled" => unserved[m] =< SignalBound
=============================================================================

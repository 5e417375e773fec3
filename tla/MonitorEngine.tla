---------------------------- MODULE MonitorEngine ---------------------------
(***************************************************************************)
(* The asyncio worker (runmonitor, engine.run_batch, engine.run_monitor,   *)
(* engine._apply_outcome) against everything that touches the same monitor *)
(* rows meanwhile: the edit and delete views, maintenance windows, and     *)
(* crashes of the worker.                                                  *)
(*                                                                         *)
(* Every await of run_monitor is a point where another actor may run; each *)
(* action is one database round trip or transaction.  The database runs    *)
(* READ COMMITTED and requests are not wrapped in transactions, so a view  *)
(* that loads a row and saves it later writes back what it loaded.         *)
(***************************************************************************)
EXTENDS MonitorState, FiniteSets

CONSTANTS
    Monitors,
    HttpMonitors,        \* may observe DEGRADED (certificate about to expire)
    JobMonitors,         \* may observe UNKNOWN (a completion is awaited)
    EditedMonitors,      \* an administrator edits, pauses or resumes these
    DeletableMonitors,   \* an administrator deletes these
    MaintainedMonitors,  \* maintenance windows start and end on these
    ConcurrentEdits,     \* may another write land between load and save
    MaxConcurrency,      \* settings.MONITOR_MAX_CONCURRENCY
    MaxEdits,            \* bound: edit requests in progress at once
    MaxOpen,             \* bound: open incidents after which no one disturbs
    MaxCrashes           \* bound: worker crashes

ASSUME EngineAssumption ==
    /\ HttpMonitors \subseteq Monitors
    /\ JobMonitors \subseteq Monitors
    /\ EditedMonitors \subseteq Monitors
    /\ DeletableMonitors \subseteq Monitors
    /\ MaintainedMonitors \subseteq Monitors
    /\ ConcurrentEdits \in BOOLEAN
    /\ MaxConcurrency \in Nat \ {0}
    /\ MaxEdits \in Nat
    /\ MaxOpen \in Nat
    /\ MaxCrashes \in Nat

VARIABLES
    present,   \* the monitors that have a row
    row,       \* row[m]: the Monitor row (see Row)
    inWindow,  \* inWindow[m]: a maintenance window covers m now
    open,      \* open[m]: Incident rows of m without ended_at
    alert,     \* alert[m]: transition of m's newest NotificationOutbox row
    streak,    \* streak[m]: the run of equal CheckResult.success ending m's
               \* history, as [success, len]
    pc,        \* pc[m]: where run_monitor(m) is in the current batch
    outcome,   \* outcome[m]: the CheckOutcome waiting to be applied
    edits,     \* edit requests that loaded a row and have not saved it
    crashes    \* worker crashes so far

vars == <<present, row, inWindow, open, alert, streak, pc, outcome, edits,
          crashes>>
database == <<present, row, inWindow, open, alert, streak>>

Phase == {"idle", "queued", "marking", "loading", "probing", "applying"}

EditSession == [monitor: Monitors, base: Row, enabled: BOOLEAN]

TypeOK ==
    /\ present \subseteq Monitors
    /\ row \in [Monitors -> Row]
    /\ inWindow \in [Monitors -> BOOLEAN]
    /\ open \in [Monitors -> Nat]
    /\ alert \in [Monitors -> Transition \cup {"NONE"}]
    /\ streak \in [Monitors -> [success: BOOLEAN, len: Counter]]
    /\ pc \in [Monitors -> Phase]
    /\ outcome \in [Monitors -> Outcome \cup {"NONE"}]
    /\ edits \subseteq EditSession
    /\ crashes \in Nat

Init ==
    /\ present = Monitors
    /\ row \in [Monitors -> {FreshRow(e) : e \in BOOLEAN}]
    /\ inWindow = [m \in Monitors |-> FALSE]
    /\ open = [m \in Monitors |-> 0]
    /\ alert = [m \in Monitors |-> "NONE"]
    /\ streak = [m \in Monitors |-> [success |-> TRUE, len |-> 0]]
    /\ pc = [m \in Monitors |-> "idle"]
    /\ outcome = [m \in Monitors |-> "NONE"]
    /\ edits = {}
    /\ crashes = 0

-----------------------------------------------------------------------------
(* The worker. *)

\* Tasks that hold the batch's semaphore.
Running == {m \in Monitors : pc[m] \notin {"idle", "queued"}}

\* One turn of runmonitor's loop: every enabled monitor that is due is queued.
\* Which ones are due is left open: any set; a turn with none due is a turn too.
SelectBatch(due) ==
    /\ \A m \in Monitors : pc[m] = "idle"
    /\ due \subseteq {m \in present : row[m].enabled}
    /\ pc' = [m \in Monitors |-> IF m \in due THEN "queued" ELSE "idle"]
    /\ UNCHANGED <<database, outcome, edits, crashes>>

\* The task gets the semaphore and reads the maintenance windows.
BeginCheck(m) ==
    /\ pc[m] = "queued"
    /\ Cardinality(Running) < MaxConcurrency
    /\ pc' = [pc EXCEPT ![m] = IF inWindow[m] THEN "marking" ELSE "loading"]
    /\ UNCHANGED <<database, outcome, edits, crashes>>

\* A queryset update: it bypasses save, looks at nothing else in the row and
\* matches no row when the monitor is gone.
MarkMaintenance(m) ==
    /\ pc[m] = "marking"
    /\ row' = IF m \in present THEN [row EXCEPT ![m].state = "MAINTENANCE"]
              ELSE row
    /\ pc' = [pc EXCEPT ![m] = "idle"]
    /\ UNCHANGED <<present, inWindow, open, alert, streak, outcome, edits,
                   crashes>>

LoadMonitor(m) ==
    /\ pc[m] = "loading"
    /\ m \in present
    /\ pc' = [pc EXCEPT ![m] = IF row[m].enabled THEN "probing" ELSE "idle"]
    /\ UNCHANGED <<database, outcome, edits, crashes>>

Observable(m) ==
    {"UP", "DOWN"} \cup (IF m \in HttpMonitors THEN {"DEGRADED"} ELSE {})
                   \cup (IF m \in JobMonitors THEN {"UNKNOWN"} ELSE {})

\* perform_check, or the except branch that turns a failure of it into DOWN.
Probe(m, o) ==
    /\ pc[m] = "probing"
    /\ o \in Observable(m)
    /\ o = "UNKNOWN" => open[m] < MaxOpen
    /\ outcome' = [outcome EXCEPT ![m] = o]
    /\ pc' = [pc EXCEPT ![m] = "applying"]
    /\ UNCHANGED <<database, edits, crashes>>

\* The transaction: re-read under the row lock, count, save, append the check
\* result, open or close incidents, write the outbox row.  Whether the
\* monitor is still enabled is not looked at again.
ApplyOutcome(m) ==
    LET o == outcome[m]
        prev == row[m].state
        next == NextState(row[m], o)
    IN  /\ pc[m] = "applying"
        /\ m \in present
        /\ row' = [row EXCEPT ![m] = AppliedRow(row[m], o)]
        /\ streak' = [streak EXCEPT ![m] =
                [success |-> Success(o),
                 len |-> IF Success(o) = streak[m].success
                         THEN Bump(streak[m].len) ELSE 1]]
        /\ open' = [open EXCEPT ![m] = OpenAfter(open[m], prev, next)]
        /\ alert' = [alert EXCEPT ![m] = AlertAfter(alert[m], prev, next)]
        /\ pc' = [pc EXCEPT ![m] = "idle"]
        /\ outcome' = [outcome EXCEPT ![m] = "NONE"]
        /\ UNCHANGED <<present, inWindow, edits, crashes>>

\* The worker process ends: its batch is forgotten, the database is not.
BatchLost ==
    /\ pc' = [m \in Monitors |-> "idle"]
    /\ outcome' = [m \in Monitors |-> "NONE"]
    /\ UNCHANGED <<database, edits>>

\* Monitor.objects.get raises DoesNotExist; gather passes it on, asyncio.run
\* cancels the other tasks, the command ends and the container restarts.
MonitorMissing(m) ==
    /\ pc[m] \in {"loading", "applying"}
    /\ m \notin present
    /\ BatchLost
    /\ UNCHANGED crashes

Crash ==
    /\ crashes < MaxCrashes
    /\ \E m \in Monitors : pc[m] # "idle"
    /\ crashes' = crashes + 1
    /\ BatchLost

-----------------------------------------------------------------------------
(* The web application and the clock. *)

\* The update view loads the row and binds the form to it.
BeginEdit(m, e) ==
    /\ m \in EditedMonitors \cap present
    /\ Cardinality(edits) < MaxEdits
    /\ open[m] < MaxOpen
    /\ edits' = edits \cup {[monitor |-> m, base |-> row[m], enabled |-> e]}
    /\ UNCHANGED <<database, pc, outcome, crashes>>

\* form.save writes every column of the loaded row back, the worker's columns
\* included; a row deleted meanwhile is inserted again.
CommitEdit(s) ==
    /\ s \in edits
    /\ ConcurrentEdits \/ (s.monitor \in present /\ row[s.monitor] = s.base)
    /\ edits' = edits \ {s}
    /\ present' = present \cup {s.monitor}
    /\ row' = [row EXCEPT ![s.monitor] =
                    Save([s.base EXCEPT !.enabled = s.enabled])]
    /\ UNCHANGED <<inWindow, open, alert, streak, pc, outcome, crashes>>

\* The form is invalid or the request dies.
AbandonEdit(s) ==
    /\ s \in edits
    /\ edits' = edits \ {s}
    /\ UNCHANGED <<database, pc, outcome, crashes>>

\* Incidents, check results and window memberships go with the row; outbox
\* rows do not refer to a monitor and stay.
DeleteMonitor(m) ==
    /\ m \in DeletableMonitors \cap present
    /\ present' = present \ {m}
    /\ row' = [row EXCEPT ![m] = FreshRow(TRUE)]
    /\ inWindow' = [inWindow EXCEPT ![m] = FALSE]
    /\ open' = [open EXCEPT ![m] = 0]
    /\ streak' = [streak EXCEPT ![m] = [success |-> TRUE, len |-> 0]]
    /\ UNCHANGED <<alert, pc, outcome, edits, crashes>>

\* A window starts or ends, by the clock or by an administrator.
ToggleWindow(m) ==
    /\ m \in MaintainedMonitors \cap present
    /\ inWindow[m] \/ open[m] < MaxOpen
    /\ inWindow' = [inWindow EXCEPT ![m] = ~inWindow[m]]
    /\ UNCHANGED <<present, row, open, alert, streak, pc, outcome, edits,
                   crashes>>

-----------------------------------------------------------------------------
Select == \E due \in SUBSET present : SelectBatch(due)

Check(m) ==
    \/ BeginCheck(m)
    \/ MarkMaintenance(m)
    \/ LoadMonitor(m)
    \/ \E o \in Outcome : Probe(m, o)
    \/ ApplyOutcome(m)
    \/ MonitorMissing(m)

Administer ==
    \/ \E m \in Monitors, e \in BOOLEAN : BeginEdit(m, e)
    \/ \E s \in edits : CommitEdit(s)
    \/ \E s \in edits : AbandonEdit(s)
    \/ \E m \in Monitors : DeleteMonitor(m)
    \/ \E m \in Monitors : ToggleWindow(m)

Next == Select \/ (\E m \in Monitors : Check(m)) \/ Crash \/ Administer

Spec == Init /\ [][Next]_vars

\* asyncio runs every task that can run, and a monitor that is due stays due
\* until it is checked, so it is in every batch selected meanwhile.
Fairness ==
    \A m \in Monitors :
        /\ WF_vars(Check(m))
        /\ SF_vars(\E due \in SUBSET present : m \in due /\ SelectBatch(due))

LiveSpec == Spec /\ Fairness

-----------------------------------------------------------------------------
(* Properties. *)

\* An enabled monitor never reads PAUSED and a disabled one reads PAUSED, or
\* MAINTENANCE when the worker marked it after it was disabled.  Four writers
\* set the column (save from a view, save from the worker, the maintenance
\* update, delete and re-insert) and only save knows the rule.
PauseConsistent ==
    \A m \in Monitors :
        IF row[m].enabled THEN row[m].state # "PAUSED"
                          ELSE row[m].state \in {"PAUSED", "MAINTENANCE"}

\* The incident table and the outbox agree step by step: a step that opens an
\* incident writes a DOWN row, a step that ends incidents ends all of them and
\* writes the row that says so.  Only deleting the monitor is silent.
IncidentsAnnounced ==
    [][\A m \in Monitors :
        /\ open'[m] > open[m] => alert'[m] = "DOWN"
        /\ (open'[m] < open[m] /\ m \in present') =>
                open'[m] = 0 /\ alert'[m] \in {"RECOVERED", "DEGRADED"}]_vars

\* A monitor that reads DOWN has an open incident, whatever pauses, windows,
\* crashes and deletions went before: nobody looks at a DOWN monitor that the
\* incident list does not explain.
DownHasIncident ==
    \A m \in Monitors : row[m].state = "DOWN" => open[m] > 0

\* An incident opens only on the evidence the thresholds ask for: the check
\* history ends in failure_threshold failures, windows, pauses and restarts
\* between them notwithstanding.
NoPrematureIncident ==
    [][\A m \in Monitors : open'[m] > open[m] =>
            ~streak'[m].success /\ streak'[m].len >= FailureThreshold]_vars

\* A monitor leaves DOWN for a healthy state only when its check history ends
\* in recovery_threshold successes.
NoPrematureRecovery ==
    [][\A m \in Monitors :
        (row[m].state = "DOWN" /\ row'[m].state \in {"UP", "DEGRADED"}) =>
            streak'[m].success /\ streak'[m].len >= RecoveryThreshold]_vars

\* Monitors nobody edits, deletes or maintains and whose checks never answer
\* UNKNOWN keep the promise of IncidentLifecycle, whatever happens to the
\* monitors that share their batches and whenever the worker dies.
SteadyMonitors ==
    Monitors \ (JobMonitors \cup EditedMonitors \cup DeletableMonitors
                            \cup MaintainedMonitors)

Lifecycle == INSTANCE IncidentLifecycle WITH
    Monitors <- SteadyMonitors,
    down <- [m \in SteadyMonitors |-> row[m].state = "DOWN"],
    incidents <- [m \in SteadyMonitors |-> open[m]],
    alert <- [m \in SteadyMonitors |-> alert[m]]

ImplementsLifecycle == Lifecycle!Spec

\* Left alone, enabled and outside every window from some moment on, with
\* every check answering one of these.
Settled(m, answers) ==
    /\ m \in present /\ row[m].enabled /\ ~inWindow[m]
    /\ \A s \in edits : s.monitor # m
    /\ outcome[m] \in answers \cup {"NONE"}

\* A lasting outage ends as a DOWN monitor with an open incident.
OutageDetected ==
    \A m \in Monitors : <>[]Settled(m, {"DOWN"}) =>
        <>[](row[m].state = "DOWN" /\ open[m] > 0)

\* A target that stays healthy ends as an UP monitor, whatever state pauses,
\* windows or an outage left it in.
HealthDetected ==
    \A m \in Monitors : <>[]Settled(m, {"UP"}) => <>[](row[m].state = "UP")

\* What the user manual says of windows (violated: the window is read once,
\* before the probe): no incident opens inside one.
NoIncidentInWindow ==
    [][\A m \in Monitors : open'[m] > open[m] => ~inWindow[m]]_vars

\* What the scheduled-job guide says of recovery (violated: DOWN to UNKNOWN to
\* UP passes no closing branch): a monitor that is UP has no open incident.
UpHasNoIncident ==
    \A m \in Monitors : row[m].state = "UP" => open[m] = 0
=============================================================================

----------------------------- MODULE JobSignals -----------------------------
(***************************************************************************)
(* One scheduled job (a monitor of kind JOB): its clients' signals, taken  *)
(* in by views.job_signal and jobs.record_job_signal; the evaluation of    *)
(* the events they leave (jobs.evaluate_job_monitor); and the worker that  *)
(* prunes old events (retention.prune_monitor_history).                    *)
(*                                                                         *)
(* A request is stamped with received_at before it waits for the row lock, *)
(* so events may be committed in another order than that of their stamps,  *)
(* and pruning reads what it must keep before it deletes the rest.  Time   *)
(* is counted in ticks; the ticks of a minute, a grace or a retention are  *)
(* constants.                                                              *)
(***************************************************************************)
EXTENDS Integers, FiniteSets

CONSTANTS
    Jobs,          \* the job configurations to consider (see Job)
    Schedule,      \* the occurrences of its cron or calendar expression
    Clients,       \* requests that may be in progress at once
    EventIds,      \* event_id values; "" is sent by a client that uses none
    Minute,        \* the ticks in the rate limit's minute
    MaxPerMinute,  \* settings.MONITOR_JOB_SIGNAL_MAX_PER_MINUTE
    Retention,     \* settings.MONITOR_JOB_EVENT_RETENTION_DAYS
    MaxDelay,      \* bound: how long a request waits for the row lock
    MaxTime,       \* bound: the last tick
    MaxEvents      \* bound: events ever recorded

Time == 0..MaxTime
Never == -1

Mode == {"SIMPLE", "CRON", "ONCALENDAR"}

Job == [mode: Mode, created: Time, interval: Nat, grace: Nat, runtime: Nat]

ASSUME JobAssumption ==
    /\ Jobs \subseteq Job
    /\ Schedule \subseteq Int
    \* a cron expression recurs: it has occurred before any time
    /\ (\E j \in Jobs : j.mode = "CRON") => \E d \in Schedule : d =< 0
    /\ IsFiniteSet(Clients)
    /\ Minute \in Nat \ {0}
    /\ MaxPerMinute \in Nat \ {0}
    /\ MaxDelay \in Nat
    /\ Retention \in Nat /\ Retention > MaxDelay
    /\ MaxTime \in Nat
    /\ MaxEvents \in Nat

EventType == {"START", "SUCCESS", "FAILURE", "LOG"}
Terminal == {"SUCCESS", "FAILURE"}

Signal == [type: EventType, key: EventIds \cup {""}, at: Time]
Event == [type: EventType, key: EventIds \cup {""}, at: Time, id: 1..MaxEvents]

NoSignal == [type |-> "NONE", key |-> "", at |-> Never]
NotPruning == [cutoff |-> Never, keep |-> {}]

VARIABLES
    job,      \* the monitor's configuration
    now,      \* the clock
    enabled,  \* Monitor.enabled
    events,   \* the monitor's JobEvent rows
    lastId,   \* the newest row id
    sent,     \* sent[c]: the stamped request of c that waits for the lock
    pruning,  \* what the pruning transaction has read, or NotPruning
    newest    \* newest[t]: stamp of the newest event of type t ever recorded,
              \* pruned or not

vars == <<job, now, enabled, events, lastId, sent, pruning, newest>>

\* Besides the types: no row and no request is stamped ahead of the clock.
TypeOK ==
    /\ job \in Jobs
    /\ now \in Time
    /\ enabled \in BOOLEAN
    /\ events \subseteq Event
    /\ lastId \in 0..MaxEvents
    /\ sent \in [Clients -> Signal \cup {NoSignal}]
    /\ pruning.cutoff \in Int /\ pruning.keep \subseteq Event
    /\ newest \in [EventType -> Time \cup {Never}]
    /\ \A e \in events : e.at =< now
    /\ \A c \in Clients : sent[c].at =< now

Init ==
    /\ job \in Jobs
    /\ now = job.created
    /\ enabled = TRUE
    /\ events = {}
    /\ lastId = 0
    /\ sent = [c \in Clients |-> NoSignal]
    /\ pruning = NotPruning
    /\ newest = [t \in EventType |-> Never]

-----------------------------------------------------------------------------
(* Evaluation. *)

OfType(evs, types) == {e \in evs : e.type \in types}

\* Faulty variant: the last row inserted, whatever its stamp.
LatestInserted(evs) == CHOOSE e \in evs : \A f \in evs : f.id =< e.id

\* order_by("-received_at", "-id").first()
Latest(evs) ==
    CHOOSE e \in evs :
        \A f \in evs : f.at < e.at \/ (f.at = e.at /\ f.id =< e.id)

\* A START is unmatched when no terminal event is as late as it.
Unmatched(evs) ==
    {e \in OfType(evs, {"START"}) :
        /\ e = Latest(OfType(evs, {"START"}))
        /\ \A f \in OfType(evs, Terminal) : f.at < e.at}

\* job_max_runtime_seconds, or job_grace_seconds when it is 0.
RuntimeLimit(j) == IF j.runtime > 0 THEN j.runtime ELSE j.grace

\* The stamp of the latest terminal event when it is a success.
LastSuccess(evs) ==
    LET ended == OfType(evs, Terminal)
    IN  IF ended # {} /\ Latest(ended).type = "SUCCESS" THEN Latest(ended).at
        ELSE Never

LastDue(t) == CHOOSE d \in Schedule : d =< t /\ \A e \in Schedule : e =< t => e =< d

Upcoming(t) == {d \in Schedule : d > t}

NextDue(t) == CHOOSE d \in Upcoming(t) : \A e \in Upcoming(t) : d =< e

PastGrace(j, due, t) == t > due + j.grace

CronPhase(j, done, t) ==
    IF LastDue(t) < j.created THEN "AWAITING"
    ELSE IF done # Never /\ done >= LastDue(t) THEN "COMPLETED"
    ELSE IF PastGrace(j, LastDue(t), t) THEN "LATE"
    ELSE "AWAITING"

\* Faulty variant: the next occurrence is looked for from now.
CalendarPhaseFromNow(j, done, t) ==
    IF Upcoming(t) # {} /\ done # Never THEN "COMPLETED" ELSE "AWAITING"

\* Without a success the first occurrence at or after creation counts; an
\* expression may have no occurrence left.
CalendarPhase(j, done, t) ==
    LET anchor == IF done # Never THEN done ELSE j.created - 1
    IN  IF Upcoming(anchor) = {}
        THEN IF done # Never THEN "COMPLETED" ELSE "FAILED"
        ELSE IF t < NextDue(anchor)
        THEN IF done # Never THEN "COMPLETED" ELSE "AWAITING"
        ELSE IF PastGrace(j, NextDue(anchor), t) THEN "LATE" ELSE "AWAITING"

SimplePhase(j, done, t) ==
    LET anchor == IF done # Never THEN done ELSE j.created
    IN  IF PastGrace(j, anchor + j.interval, t) THEN "LATE"
        ELSE IF done # Never THEN "COMPLETED" ELSE "AWAITING"

\* The phase evaluate_job_monitor derives from the rows evs at time t.
Phase(j, evs, t) ==
    LET ended == OfType(evs, Terminal)
        done == LastSuccess(evs)
    IN  CASE Unmatched(evs) # {} ->
                IF \E e \in Unmatched(evs) : t - e.at > RuntimeLimit(j)
                THEN "LATE" ELSE "STARTED"
          [] Unmatched(evs) = {} /\ ended # {} /\ done = Never -> "FAILED"
          [] OTHER ->
                CASE j.mode = "CRON" -> CronPhase(j, done, t)
                  [] j.mode = "ONCALENDAR" -> CalendarPhase(j, done, t)
                  [] j.mode = "SIMPLE" -> SimplePhase(j, done, t)

\* The observation the engine applies.
Observed(phase) ==
    CASE phase \in {"FAILED", "LATE"}       -> "DOWN"
      [] phase \in {"STARTED", "COMPLETED"} -> "UP"
      [] phase = "AWAITING"                 -> "UNKNOWN"

-----------------------------------------------------------------------------
(* Signals. *)

InProgress == {c \in Clients : sent[c] # NoSignal}

\* Faulty variant: the client's clock, a tick ahead, is believed.
ReceivedAtClient(c) == now + 1

\* received_at, taken by the view.
ReceivedAt(c) == now

\* The view authenticates, validates and stamps the request.
Stamp(c, t, k) ==
    /\ enabled
    /\ sent[c] = NoSignal
    /\ lastId + Cardinality(InProgress) < MaxEvents
    /\ sent' = [sent EXCEPT ![c] = [type |-> t, key |-> k, at |-> ReceivedAt(c)]]
    /\ UNCHANGED <<job, now, enabled, events, lastId, pruning, newest>>

\* Faulty variant: identities are not looked up.
KnownNever(s) == FALSE

\* A retry of the same signal, or a conflicting use of its identity.
Known(s) == s.key # "" /\ \E e \in events : e.key = s.key

\* Faulty variant: one event more than the setting allows.
RateLimitedLate(s) ==
    Cardinality({e \in events : s.at - Minute =< e.at /\ e.at =< s.at})
        > MaxPerMinute

\* The minute that ends at the stamp is full, whatever was recorded with a
\* later stamp meanwhile.
RateLimited(s) ==
    Cardinality({e \in events : s.at - Minute =< e.at /\ e.at =< s.at})
        >= MaxPerMinute

\* Under the monitor's row lock the event is created.
Record(c) ==
    LET s == sent[c]
    IN  /\ c \in InProgress
        /\ enabled /\ ~Known(s) /\ ~RateLimited(s)
        /\ events' = events \cup
                {[type |-> s.type, key |-> s.key, at |-> s.at, id |-> lastId + 1]}
        /\ lastId' = lastId + 1
        /\ newest' = [newest EXCEPT ![s.type] = IF s.at > @ THEN s.at ELSE @]
        /\ sent' = [sent EXCEPT ![c] = NoSignal]
        /\ UNCHANGED <<job, now, enabled, pruning>>

\* A replay (200), a conflict (409), the rate limit (429), or a monitor that
\* was paused while the request waited: nothing is recorded.
Refuse(c) ==
    /\ c \in InProgress
    /\ ~enabled \/ Known(sent[c]) \/ RateLimited(sent[c])
    /\ sent' = [sent EXCEPT ![c] = NoSignal]
    /\ UNCHANGED <<job, now, enabled, events, lastId, pruning, newest>>

-----------------------------------------------------------------------------
(* Retention, pausing, time. *)

\* Faulty variant: the unmatched START is not kept.
ProtectedTerminalOnly(evs) ==
    {e \in OfType(evs, Terminal) : e = Latest(OfType(evs, Terminal))}

\* _protected_job_event_ids: what the evaluation looks at.
Protected(evs) ==
    {e \in OfType(evs, Terminal) : e = Latest(OfType(evs, Terminal))}
        \cup Unmatched(evs)

BeginPrune ==
    /\ pruning = NotPruning
    /\ \E e \in events : e.at < now - Retention
    /\ pruning' = [cutoff |-> now - Retention, keep |-> Protected(events)]
    /\ UNCHANGED <<job, now, enabled, events, lastId, sent, newest>>

FinishPrune ==
    /\ pruning # NotPruning
    /\ events' = {e \in events : e.at >= pruning.cutoff \/ e \in pruning.keep}
    /\ pruning' = NotPruning
    /\ UNCHANGED <<job, now, enabled, lastId, sent, newest>>

PauseOrResume ==
    /\ enabled' = ~enabled
    /\ UNCHANGED <<job, now, events, lastId, sent, pruning, newest>>

Tick ==
    /\ now < MaxTime
    /\ \A c \in InProgress : now - sent[c].at < MaxDelay
    /\ now' = now + 1
    /\ UNCHANGED <<job, enabled, events, lastId, sent, pruning, newest>>

-----------------------------------------------------------------------------
Next ==
    \/ \E c \in Clients, t \in EventType, k \in EventIds \cup {""} : Stamp(c, t, k)
    \/ \E c \in Clients : Record(c) \/ Refuse(c)
    \/ BeginPrune
    \/ FinishPrune
    \/ PauseOrResume
    \/ Tick

Spec == Init /\ [][Next]_vars

-----------------------------------------------------------------------------
(* Properties. *)

\* An identity is recorded once, whichever of its retries gets the lock first
\* and however they overlap.
KeysUnique ==
    \A e, f \in events : e.key = f.key /\ e.key # "" => e = f

\* The rate limit is overrun by no more than the requests that were stamped
\* before another was recorded.
RateNearlyKept ==
    \A e \in events :
        Cardinality({f \in events : e.at - Minute =< f.at /\ f.at =< e.at})
            < MaxPerMinute + Cardinality(Clients)

\* Pruning is invisible to the evaluation, now and at every later time, though
\* signals are recorded between its two steps.
PruneTransparent ==
    [][pruning # NotPruning /\ pruning' = NotPruning =>
        \A t \in now..MaxTime : Phase(job, events', t) = Phase(job, events, t)]_vars

\* The occurrences the job owes a completion for, and whether a SUCCESS ever
\* recorded answers one.
Owed == {d \in Schedule : d >= job.created /\ d =< now}
Answered(d) == newest["SUCCESS"] >= d

\* The instants a completion was due at and has not come: occurrences or, without
\* a schedule, the end of the interval since the last SUCCESS.
LastDone == IF newest["SUCCESS"] = Never THEN job.created ELSE newest["SUCCESS"]
Missed ==
    IF job.mode = "SIMPLE" THEN {LastDone + job.interval}
    ELSE {d \in Owed : ~Answered(d)}

\* No SUCCESS or FAILURE was stamped at or after the newest START.
RunGoesOn == \A t \in Terminal : newest["START"] > newest[t]

\* Reported late means late, by all that was ever recorded: a run that goes on has
\* taken longer than it may, or a completion that has not come is out of grace.
LateIsEarned ==
    Phase(job, events, now) = "LATE" =>
        \/ RunGoesOn /\ now - newest["START"] > RuntimeLimit(job)
        \/ \E d \in Missed : now > d + job.grace

\* The dead man's switch: on the first tick after the grace of a completion that
\* has not come, the job is observed DOWN, unless a run is going on.
MissedIsDown ==
    \A d \in Missed :
        now = d + job.grace + 1 =>
            \/ Observed(Phase(job, events, now)) = "DOWN"
            \/ Phase(job, events, now) = "STARTED"

\* What the docstring of record_job_signal guarantees (violated: the window
\* ends at a stamp taken before the lock): no minute holds more events than
\* MaxPerMinute.
RateKept ==
    \A e \in events :
        Cardinality({f \in events : e.at - Minute =< f.at /\ f.at =< e.at})
            =< MaxPerMinute
=============================================================================

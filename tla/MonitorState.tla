---------------------------- MODULE MonitorState ----------------------------
(***************************************************************************)
(* The monitor row and the state machine one check result drives it        *)
(* through: Monitor.save and the pure part of engine._apply_outcome.       *)
(*                                                                         *)
(* A check outcome is written as its observed_state.  Every unsuccessful   *)
(* CheckOutcome the engine builds observes DOWN and no successful one      *)
(* does, so success is read off the observed state.                        *)
(***************************************************************************)
EXTENDS Integers

CONSTANTS
    FailureThreshold,   \* Monitor.failure_threshold
    RecoveryThreshold,  \* Monitor.recovery_threshold
    CounterCap          \* bound: the two consecutive_* counters saturate here

\* Monitor.clean refuses thresholds below 1.  The code only compares a counter
\* with its threshold, so saturating at any cap above both loses nothing.
ASSUME ThresholdAssumption ==
    /\ CounterCap \in Nat
    /\ FailureThreshold \in 1..CounterCap
    /\ RecoveryThreshold \in 1..CounterCap

State == {"UNKNOWN", "UP", "DOWN", "DEGRADED", "PAUSED", "MAINTENANCE"}

Outcome == {"UP", "DEGRADED", "UNKNOWN", "DOWN"}

Success(o) == o # "DOWN"

Counter == 0..CounterCap

Bump(n) == IF n < CounterCap THEN n + 1 ELSE CounterCap

Row == [state: State, enabled: BOOLEAN, fails: Counter, succs: Counter]

\* Faulty variant: save pauses a disabled monitor and never resumes one.
SaveWithoutResume(r) ==
    [r EXCEPT !.state = IF ~r.enabled THEN "PAUSED" ELSE r.state]

\* What Monitor.save leaves in the row, whatever the caller asked for.
Save(r) ==
    [r EXCEPT !.state = IF ~r.enabled THEN "PAUSED"
                        ELSE IF r.state = "PAUSED" THEN "UNKNOWN"
                        ELSE r.state]

\* A monitor row as the create form leaves it.
FreshRow(e) ==
    Save([state |-> "UNKNOWN", enabled |-> e, fails |-> 0, succs |-> 0])

\* Faulty variant: a success does not restart the failure count.
FailsAfterNoReset(r, o) == IF Success(o) THEN r.fails ELSE Bump(r.fails)

FailsAfter(r, o) == IF Success(o) THEN 0 ELSE Bump(r.fails)

\* Faulty variant: a failure does not restart the success count.
SuccsAfterNoReset(r, o) == IF Success(o) THEN Bump(r.succs) ELSE r.succs

\* Faulty variant: successes are not counted while the monitor is DOWN.
SuccsAfterUpOnly(r, o) ==
    IF Success(o) /\ r.state # "DOWN" THEN Bump(r.succs) ELSE 0

SuccsAfter(r, o) == IF Success(o) THEN Bump(r.succs) ELSE 0

\* Faulty variant: the maintenance branch is tried before the threshold and
\* keeps the state.
NextStateMaintenanceFirst(r, o) ==
    IF Success(o)
    THEN IF r.state = "DOWN" /\ SuccsAfter(r, o) < RecoveryThreshold
         THEN "DOWN"
         ELSE o
    ELSE IF r.state = "MAINTENANCE" THEN "MAINTENANCE"
         ELSE IF FailsAfter(r, o) >= FailureThreshold THEN "DOWN"
         ELSE r.state

\* next_state: what the check result records, before save coerces it.
NextState(r, o) ==
    IF Success(o)
    THEN IF r.state = "DOWN" /\ SuccsAfter(r, o) < RecoveryThreshold
         THEN "DOWN"
         ELSE o
    ELSE IF FailsAfter(r, o) >= FailureThreshold THEN "DOWN"
         ELSE IF r.state = "MAINTENANCE" THEN "UNKNOWN"
         ELSE r.state

\* The row that one applied outcome writes back.
AppliedRow(r, o) ==
    Save([r EXCEPT !.state = NextState(r, o),
                   !.fails = FailsAfter(r, o),
                   !.succs = SuccsAfter(r, o)])

\* Faulty variant: an incident for every DOWN result.
OpensIncidentAgain(prev, next) == next = "DOWN"

OpensIncident(prev, next) == next = "DOWN" /\ prev # "DOWN"

\* Faulty variant: whatever follows DOWN closes.
ClosesIncidentsEarly(prev, next) == prev = "DOWN"

ClosesIncidents(prev, next) == prev = "DOWN" /\ next \in {"UP", "DEGRADED"}

\* Faulty variant: recovery ends one incident instead of all that are open.
OpenAfterClosingOne(n, prev, next) ==
    IF OpensIncident(prev, next) THEN n + 1
    ELSE IF ClosesIncidents(prev, next) THEN n - 1 ELSE n

\* The open incidents of a monitor that had n.
OpenAfter(n, prev, next) ==
    IF OpensIncident(prev, next) THEN n + 1
    ELSE IF ClosesIncidents(prev, next) THEN 0 ELSE n

Transition == {"DOWN", "RECOVERED", "DEGRADED"}

\* Faulty variant: an outage that ends DEGRADED announces nothing.
TransitionOfUpOnly(prev, next) ==
    CASE OpensIncident(prev, next)                         -> "DOWN"
      [] prev \in {"DOWN", "DEGRADED"} /\ next = "UP"      -> "RECOVERED"
      [] next = "DEGRADED" /\ prev \notin {"DEGRADED", "DOWN"} -> "DEGRADED"
      [] OTHER                                             -> "NONE"

\* The outbox transition of a step from prev to next, "NONE" when no row is
\* written.
TransitionOf(prev, next) ==
    CASE OpensIncident(prev, next)                    -> "DOWN"
      [] prev \in {"DOWN", "DEGRADED"} /\ next = "UP" -> "RECOVERED"
      [] next = "DEGRADED" /\ prev # "DEGRADED"       -> "DEGRADED"
      [] OTHER                                        -> "NONE"

\* The newest outbox transition of a monitor whose newest was a.
AlertAfter(a, prev, next) ==
    IF TransitionOf(prev, next) = "NONE" THEN a ELSE TransitionOf(prev, next)
=============================================================================

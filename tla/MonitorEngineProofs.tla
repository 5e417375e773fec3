------------------------- MODULE MonitorEngineProofs ------------------------
(***************************************************************************)
(* What holds of MonitorEngine for every set of monitors, every threshold  *)
(* and every bound.                                                        *)
(***************************************************************************)
EXTENDS MonitorEngine, TLAPS

-----------------------------------------------------------------------------
(* The row operators. *)

\* Counting stays inside the counter's range and never loses a step below it.
LEMMA BumpType ==
    ASSUME NEW n \in Counter
    PROVE  Bump(n) \in Counter /\ Bump(n) >= 1
BY ThresholdAssumption DEF Bump, Counter

\* Monitor.save changes the state column and nothing else, and leaves it in
\* agreement with enabled.
LEMMA SaveFacts ==
    ASSUME NEW r \in Row
    PROVE  /\ Save(r) \in Row
           /\ Save(r).enabled = r.enabled
           /\ Save(r).fails = r.fails
           /\ Save(r).succs = r.succs
           /\ ~r.enabled => Save(r).state = "PAUSED"
           /\ r.enabled => /\ Save(r).state # "PAUSED"
                           /\ r.state # "PAUSED" => Save(r).state = r.state
                           /\ r.state = "PAUSED" => Save(r).state = "UNKNOWN"
BY DEF Save, Row, State

\* A created monitor is a row that reads UNKNOWN or PAUSED and counts nothing.
LEMMA FreshFacts ==
    ASSUME NEW e \in BOOLEAN
    PROVE  /\ FreshRow(e) \in Row
           /\ FreshRow(e).enabled = e
           /\ FreshRow(e).fails = 0
           /\ FreshRow(e).succs = 0
           /\ FreshRow(e).state = IF e THEN "UNKNOWN" ELSE "PAUSED"
<1> DEFINE r == [state |-> "UNKNOWN", enabled |-> e, fails |-> 0, succs |-> 0]
<1>1. r \in Row
    BY ThresholdAssumption DEF Row, State, Counter
<1>2. QED
    BY <1>1, SaveFacts DEF FreshRow

\* Applying an outcome keeps enabled, counts, and saves the next state.
LEMMA AppliedFacts ==
    ASSUME NEW r \in Row, NEW o \in Outcome
    PROVE  /\ NextState(r, o) \in State
           /\ FailsAfter(r, o) \in Counter
           /\ SuccsAfter(r, o) \in Counter
           /\ AppliedRow(r, o) \in Row
           /\ AppliedRow(r, o).enabled = r.enabled
           /\ AppliedRow(r, o).fails = FailsAfter(r, o)
           /\ AppliedRow(r, o).succs = SuccsAfter(r, o)
           /\ ~r.enabled => AppliedRow(r, o).state = "PAUSED"
           /\ r.enabled => AppliedRow(r, o).state # "PAUSED"
           /\ (r.enabled /\ NextState(r, o) # "PAUSED") =>
                AppliedRow(r, o).state = NextState(r, o)
           /\ (r.enabled /\ NextState(r, o) = "PAUSED") =>
                AppliedRow(r, o).state = "UNKNOWN"
<1>1. FailsAfter(r, o) \in Counter /\ SuccsAfter(r, o) \in Counter
    BY BumpType, ThresholdAssumption
    DEF FailsAfter, SuccsAfter, Row, Counter
<1>2. NextState(r, o) \in State
    BY DEF NextState, Row, State, Outcome
<1> DEFINE w == [r EXCEPT !.state = NextState(r, o),
                          !.fails = FailsAfter(r, o),
                          !.succs = SuccsAfter(r, o)]
<1>3. /\ w \in Row
      /\ w.enabled = r.enabled
      /\ w.state = NextState(r, o)
      /\ w.fails = FailsAfter(r, o)
      /\ w.succs = SuccsAfter(r, o)
    BY <1>1, <1>2 DEF Row
<1>4. AppliedRow(r, o) = Save(w)
    BY DEF AppliedRow
<1> HIDE DEF w
<1>5. QED
    BY <1>1, <1>2, <1>3, <1>4, SaveFacts

\* An outcome takes a monitor into an outage only when it is a failure that
\* reaches the threshold, and out of one only when it is a success that does.
LEMMA NextStateFacts ==
    ASSUME NEW r \in Row, NEW o \in Outcome
    PROVE  /\ OpensIncident(r.state, NextState(r, o)) =>
                ~Success(o) /\ FailsAfter(r, o) >= FailureThreshold
           /\ ClosesIncidents(r.state, NextState(r, o)) =>
                Success(o) /\ SuccsAfter(r, o) >= RecoveryThreshold
<1>1. SuccsAfter(r, o) \in Nat /\ RecoveryThreshold \in Nat
    BY AppliedFacts, ThresholdAssumption DEF Counter
<1>2. QED
    BY <1>1 DEF NextState, OpensIncident, ClosesIncidents, Success, Outcome,
                Row, State

\* Opening, closing and announcing go together.
LEMMA AlertFacts ==
    ASSUME NEW n \in Nat, NEW a, NEW prev \in State, NEW next \in State
    PROVE  /\ OpenAfter(n, prev, next) \in Nat
           /\ OpenAfter(n, prev, next) > n =>
                OpensIncident(prev, next) /\ AlertAfter(a, prev, next) = "DOWN"
           /\ OpenAfter(n, prev, next) < n =>
                /\ OpenAfter(n, prev, next) = 0
                /\ ClosesIncidents(prev, next)
                /\ AlertAfter(a, prev, next) \in {"RECOVERED", "DEGRADED"}
           /\ AlertAfter(a, prev, next) \in {a} \cup Transition
BY DEF OpenAfter, OpensIncident, ClosesIncidents, AlertAfter, TransitionOf,
       Transition, State

-----------------------------------------------------------------------------
(* Type correctness. *)

\* The type invariant with the one fact it needs to be inductive: a task that
\* is about to apply an outcome holds one.
TypeInv ==
    /\ TypeOK
    /\ \A m \in Monitors : pc[m] = "applying" => outcome[m] \in Outcome

LEMMA TypeInit == Init => TypeInv
<1> SUFFICES ASSUME Init PROVE TypeInv
    OBVIOUS
<1>1. row \in [Monitors -> Row]
    BY FreshFacts DEF Init
<1>2. \A m \in Monitors : streak[m] \in [success: BOOLEAN, len: Counter]
    BY ThresholdAssumption DEF Init, Counter
<1>3. QED
    BY <1>1, <1>2 DEF Init, TypeInv, TypeOK, Phase, Transition

LEMMA TypeStep == TypeInv /\ [Next]_vars => TypeInv'
<1> SUFFICES ASSUME TypeInv, [Next]_vars PROVE TypeInv'
    OBVIOUS
<1> USE DEF TypeInv, TypeOK
<1>1. CASE UNCHANGED vars
    BY <1>1 DEF vars
<1>2. CASE Select
    BY <1>2 DEF Select, SelectBatch, database, Phase
<1>3. ASSUME NEW m \in Monitors, BeginCheck(m) PROVE TypeInv'
    BY <1>3 DEF BeginCheck, database, Phase
<1>4. ASSUME NEW m \in Monitors, MarkMaintenance(m) PROVE TypeInv'
    <2>1. row' \in [Monitors -> Row]
        BY <1>4 DEF MarkMaintenance, Row, State
    <2>2. QED
        BY <1>4, <2>1 DEF MarkMaintenance, Phase
<1>5. ASSUME NEW m \in Monitors, LoadMonitor(m) PROVE TypeInv'
    BY <1>5 DEF LoadMonitor, database, Phase
<1>6. ASSUME NEW m \in Monitors, NEW o \in Outcome, Probe(m, o) PROVE TypeInv'
    BY <1>6 DEF Probe, database, Phase
<1>7. ASSUME NEW m \in Monitors, ApplyOutcome(m) PROVE TypeInv'
    <2> DEFINE o == outcome[m]
               prev == row[m].state
               next == NextState(row[m], o)
    <2>1. o \in Outcome /\ row[m] \in Row /\ prev \in State
        BY <1>7 DEF ApplyOutcome, Row
    <2>2. next \in State /\ AppliedRow(row[m], o) \in Row
        BY <2>1, AppliedFacts
    <2>3. row' \in [Monitors -> Row]
        BY <1>7, <2>2 DEF ApplyOutcome
    <2>4. OpenAfter(open[m], prev, next) \in Nat
        BY <2>1, <2>2, AlertFacts
    <2>5. AlertAfter(alert[m], prev, next) \in Transition \cup {"NONE"}
        BY <2>1, <2>2, AlertFacts
    <2>6. open' \in [Monitors -> Nat]
        BY <1>7, <2>4 DEF ApplyOutcome
    <2>7. alert' \in [Monitors -> Transition \cup {"NONE"}]
        BY <1>7, <2>5 DEF ApplyOutcome
    <2>8. streak' \in [Monitors -> [success: BOOLEAN, len: Counter]]
        <3>1. Bump(streak[m].len) \in Counter /\ 1 \in Counter
            BY BumpType, ThresholdAssumption DEF Counter
        <3>2. QED
            BY <1>7, <3>1 DEF ApplyOutcome, Success
    <2>9. QED
        BY <1>7, <2>3, <2>6, <2>7, <2>8 DEF ApplyOutcome, Phase
<1>8. ASSUME NEW m \in Monitors, MonitorMissing(m) PROVE TypeInv'
    BY <1>8 DEF MonitorMissing, BatchLost, database, Phase
<1>9. CASE Crash
    BY <1>9 DEF Crash, BatchLost, database, Phase
<1>10. ASSUME NEW m \in Monitors, NEW e \in BOOLEAN, BeginEdit(m, e)
       PROVE  TypeInv'
    <2>1. [monitor |-> m, base |-> row[m], enabled |-> e] \in EditSession
        BY <1>10 DEF EditSession
    <2>2. QED
        BY <1>10, <2>1 DEF BeginEdit, database
<1>11. ASSUME NEW s \in edits, CommitEdit(s) PROVE TypeInv'
    <2>1. s.monitor \in Monitors /\ s.base \in Row /\ s.enabled \in BOOLEAN
        BY DEF EditSession
    <2>2. [s.base EXCEPT !.enabled = s.enabled] \in Row
        BY <2>1 DEF Row
    <2>3. Save([s.base EXCEPT !.enabled = s.enabled]) \in Row
        BY <2>2, SaveFacts
    <2>4. row' \in [Monitors -> Row]
        BY <1>11, <2>1, <2>3 DEF CommitEdit
    <2>5. QED
        BY <1>11, <2>1, <2>4 DEF CommitEdit
<1>12. ASSUME NEW s \in edits, AbandonEdit(s) PROVE TypeInv'
    BY <1>12 DEF AbandonEdit, database
<1>13. ASSUME NEW m \in Monitors, DeleteMonitor(m) PROVE TypeInv'
    <2>1. FreshRow(TRUE) \in Row
        BY FreshFacts
    <2>2. [success |-> TRUE, len |-> 0] \in [success: BOOLEAN, len: Counter]
        BY ThresholdAssumption DEF Counter
    <2>3. QED
        BY <1>13, <2>1, <2>2 DEF DeleteMonitor
<1>14. ASSUME NEW m \in Monitors, ToggleWindow(m) PROVE TypeInv'
    BY <1>14 DEF ToggleWindow
<1>15. QED
    BY <1>1, <1>2, <1>3, <1>4, <1>5, <1>6, <1>7, <1>8, <1>9, <1>10, <1>11,
       <1>12, <1>13, <1>14 DEF Next, Check, Administer

LEMMA TypeInvariant == Spec => []TypeInv
BY TypeInit, TypeStep, PTL DEF Spec

\* Every variable keeps its type.
THEOREM TypeCorrect == Spec => []TypeOK
<1>1. TypeInv => TypeOK
    BY DEF TypeInv
<1>2. QED
    BY <1>1, TypeInvariant, PTL

-----------------------------------------------------------------------------
(* What one step can do to the rows of one monitor. *)

SameHistory(m) ==
    open'[m] = open[m] /\ alert'[m] = alert[m] /\ streak'[m] = streak[m]

Untouched(m) == row'[m] = row[m] /\ SameHistory(m)

Marked(m) ==
    /\ pc[m] = "marking"
    /\ row'[m] = [row[m] EXCEPT !.state = "MAINTENANCE"]
    /\ SameHistory(m)

Applied(m, o) ==
    LET prev == row[m].state
        next == NextState(row[m], o)
    IN  /\ row'[m] = AppliedRow(row[m], o)
        /\ streak'[m] = [success |-> Success(o),
                         len |-> IF Success(o) = streak[m].success
                                 THEN Bump(streak[m].len) ELSE 1]
        /\ open'[m] = OpenAfter(open[m], prev, next)
        /\ alert'[m] = AlertAfter(alert[m], prev, next)

Saved(m, s) ==
    /\ s.monitor = m
    /\ ConcurrentEdits \/ row[m] = s.base
    /\ row'[m] = Save([s.base EXCEPT !.enabled = s.enabled])
    /\ SameHistory(m)

Deleted(m) ==
    /\ m \in DeletableMonitors
    /\ m \notin present'
    /\ row'[m] = FreshRow(TRUE)
    /\ open'[m] = 0
    /\ alert'[m] = alert[m]
    /\ streak'[m] = [success |-> TRUE, len |-> 0]

\* The rows of a monitor change in one of four ways, each the whole of one
\* transaction or request: they are marked, a result is applied, an edit is
\* saved, or they are deleted.
LEMMA StepEffect ==
    ASSUME TypeInv, [Next]_vars, NEW m \in Monitors
    PROVE  \/ Untouched(m)
           \/ Marked(m)
           \/ pc[m] = "applying" /\ m \in present /\ Applied(m, outcome[m])
           \/ \E s \in edits : Saved(m, s)
           \/ Deleted(m)
<1> USE DEF TypeInv, TypeOK
<1> DEFINE Goal == \/ Untouched(m)
                   \/ Marked(m)
                   \/ /\ pc[m] = "applying" /\ m \in present
                      /\ Applied(m, outcome[m])
                   \/ \E s \in edits : Saved(m, s)
                   \/ Deleted(m)
<1>1. (UNCHANGED database) => Goal
    BY DEF database, Untouched, SameHistory
<1>2. CASE UNCHANGED vars
    BY <1>1, <1>2 DEF vars, database
<1>3. CASE Select
    BY <1>1, <1>3 DEF Select, SelectBatch
<1>4. ASSUME NEW n \in Monitors, BeginCheck(n) PROVE Goal
    BY <1>1, <1>4 DEF BeginCheck
<1>5. ASSUME NEW n \in Monitors, MarkMaintenance(n) PROVE Goal
    BY <1>5 DEF MarkMaintenance, Untouched, Marked, SameHistory
<1>6. ASSUME NEW n \in Monitors, LoadMonitor(n) PROVE Goal
    BY <1>1, <1>6 DEF LoadMonitor
<1>7. ASSUME NEW n \in Monitors, NEW o \in Outcome, Probe(n, o) PROVE Goal
    BY <1>1, <1>7 DEF Probe
<1>8. ASSUME NEW n \in Monitors, ApplyOutcome(n) PROVE Goal
    <2>1. CASE n = m
        BY <1>8, <2>1 DEF ApplyOutcome, Applied
    <2>2. CASE n # m
        BY <1>8, <2>2 DEF ApplyOutcome, Untouched, SameHistory
    <2>3. QED
        BY <2>1, <2>2
<1>9. ASSUME NEW n \in Monitors, MonitorMissing(n) PROVE Goal
    BY <1>1, <1>9 DEF MonitorMissing, BatchLost
<1>10. CASE Crash
    BY <1>1, <1>10 DEF Crash, BatchLost
<1>11. ASSUME NEW n \in Monitors, NEW e \in BOOLEAN, BeginEdit(n, e)
       PROVE  Goal
    BY <1>1, <1>11 DEF BeginEdit
<1>12. ASSUME NEW s \in edits, CommitEdit(s) PROVE Goal
    <2>1. CASE s.monitor = m
        BY <1>12, <2>1 DEF CommitEdit, Saved, SameHistory
    <2>2. CASE s.monitor # m
        BY <1>12, <2>2 DEF CommitEdit, Untouched, SameHistory, EditSession
    <2>3. QED
        BY <2>1, <2>2
<1>13. ASSUME NEW s \in edits, AbandonEdit(s) PROVE Goal
    BY <1>1, <1>13 DEF AbandonEdit
<1>14. ASSUME NEW n \in Monitors, DeleteMonitor(n) PROVE Goal
    BY <1>14 DEF DeleteMonitor, Deleted, Untouched, SameHistory
<1>15. ASSUME NEW n \in Monitors, ToggleWindow(n) PROVE Goal
    BY <1>15 DEF ToggleWindow, Untouched, SameHistory
<1>16. QED
    BY <1>2, <1>3, <1>4, <1>5, <1>6, <1>7, <1>8, <1>9, <1>10, <1>11, <1>12,
       <1>13, <1>14, <1>15 DEF Next, Check, Administer

-----------------------------------------------------------------------------
(* The pause rule, under every interleaving. *)

LEMMA PauseStep == TypeInv /\ PauseConsistent /\ [Next]_vars => PauseConsistent'
<1> SUFFICES ASSUME TypeInv, PauseConsistent, [Next]_vars, NEW m \in Monitors
             PROVE  IF row'[m].enabled
                    THEN row'[m].state # "PAUSED"
                    ELSE row'[m].state \in {"PAUSED", "MAINTENANCE"}
    BY DEF PauseConsistent
<1>1. row[m] \in Row
    BY DEF TypeInv, TypeOK
<1>2. CASE Untouched(m)
    BY <1>2 DEF Untouched, PauseConsistent
<1>3. CASE Marked(m)
    BY <1>1, <1>3 DEF Marked, Row
<1>4. CASE pc[m] = "applying" /\ m \in present /\ Applied(m, outcome[m])
    <2>1. outcome[m] \in Outcome
        BY <1>4 DEF TypeInv
    <2>2. QED
        BY <1>1, <1>4, <2>1, AppliedFacts DEF Applied
<1>5. ASSUME NEW s \in edits, Saved(m, s)
      PROVE  IF row'[m].enabled
             THEN row'[m].state # "PAUSED"
             ELSE row'[m].state \in {"PAUSED", "MAINTENANCE"}
    <2>1. [s.base EXCEPT !.enabled = s.enabled] \in Row
        <3>1. s.base \in Row /\ s.enabled \in BOOLEAN
            BY DEF TypeInv, TypeOK, EditSession
        <3>2. QED
            BY <3>1 DEF Row
    <2>2. QED
        BY <1>5, <2>1, SaveFacts DEF Saved
<1>6. CASE Deleted(m)
    BY <1>6, FreshFacts DEF Deleted
<1>7. QED
    BY <1>2, <1>3, <1>4, <1>5, <1>6, StepEffect

\* However edits, deletions, windows and checks interleave, an enabled monitor
\* is never shown as paused and a disabled one never as anything but paused or
\* in maintenance.
THEOREM PauseRule == Spec => []PauseConsistent
<1>1. Init => PauseConsistent
    BY FreshFacts DEF Init, PauseConsistent
<1>2. QED
    BY <1>1, PauseStep, TypeInvariant, PTL DEF Spec

-----------------------------------------------------------------------------
(* Incidents and alerts, under every interleaving. *)

\* No incident opens or closes without the outbox row that says so.
THEOREM Announced == Spec => IncidentsAnnounced
<1> DEFINE A == \A m \in Monitors :
        /\ open'[m] > open[m] => alert'[m] = "DOWN"
        /\ (open'[m] < open[m] /\ m \in present') =>
                open'[m] = 0 /\ alert'[m] \in {"RECOVERED", "DEGRADED"}
<1>1. ASSUME TypeInv, [Next]_vars PROVE A
    <2> SUFFICES ASSUME NEW m \in Monitors
                 PROVE  /\ open'[m] > open[m] => alert'[m] = "DOWN"
                        /\ (open'[m] < open[m] /\ m \in present') =>
                                /\ open'[m] = 0
                                /\ alert'[m] \in {"RECOVERED", "DEGRADED"}
        OBVIOUS
    <2>1. open[m] \in Nat /\ row[m] \in Row
        BY <1>1 DEF TypeInv, TypeOK
    <2>2. CASE pc[m] = "applying" /\ m \in present /\ Applied(m, outcome[m])
        <3>1. outcome[m] \in Outcome /\ row[m].state \in State
            BY <1>1, <2>1, <2>2 DEF TypeInv, Row
        <3>2. NextState(row[m], outcome[m]) \in State
            BY <2>1, <3>1, AppliedFacts
        <3>3. QED
            BY <2>1, <2>2, <3>1, <3>2, AlertFacts DEF Applied
    <2>3. CASE Deleted(m)
        BY <2>1, <2>3 DEF Deleted
    <2>4. CASE Untouched(m) \/ Marked(m) \/ \E s \in edits : Saved(m, s)
        <3>1. SameHistory(m)
            BY <2>4 DEF Untouched, Marked, Saved
        <3>2. QED
            BY <2>1, <3>1 DEF SameHistory
    <2>5. QED
        BY <1>1, <2>2, <2>3, <2>4, StepEffect
<1>2. TypeInv /\ [Next]_vars => [A]_vars
    BY <1>1
<1>3. QED
    BY <1>2, TypeInvariant, PTL DEF Spec, IncidentsAnnounced

-----------------------------------------------------------------------------
(* Outages, when no write lands between the load and the save of an edit.  *)

LEMMA SavedSerially ==
    ASSUME TypeInv, ~ConcurrentEdits,
           NEW m \in Monitors, NEW s \in edits, Saved(m, s)
    PROVE  /\ row'[m] \in Row
           /\ row'[m].fails = row[m].fails
           /\ row'[m].succs = row[m].succs
           /\ row'[m].state \in {row[m].state, "PAUSED", "UNKNOWN"}
           /\ SameHistory(m)
<1> DEFINE r == [s.base EXCEPT !.enabled = s.enabled]
<1>1. s.base \in Row /\ s.enabled \in BOOLEAN /\ row[m] = s.base
    BY DEF TypeInv, TypeOK, EditSession, Saved
<1>2. /\ r \in Row
      /\ r.state = row[m].state
      /\ r.fails = row[m].fails
      /\ r.succs = row[m].succs
    BY <1>1 DEF Row
<1>3. row'[m] = Save(r) /\ SameHistory(m)
    BY DEF Saved
<1> HIDE DEF r
<1>4. QED
    BY <1>2, <1>3, SaveFacts DEF Row

LEMMA DownStep ==
    ASSUME ~ConcurrentEdits
    PROVE  TypeInv /\ DownHasIncident /\ [Next]_vars => DownHasIncident'
<1> SUFFICES ASSUME TypeInv, DownHasIncident, [Next]_vars,
                    NEW m \in Monitors, row'[m].state = "DOWN"
             PROVE  open'[m] > 0
    BY DEF DownHasIncident
<1>1. row[m] \in Row /\ open[m] \in Nat
    BY DEF TypeInv, TypeOK
<1>2. CASE Untouched(m)
    BY <1>2 DEF Untouched, SameHistory, DownHasIncident
<1>3. CASE Marked(m)
    BY <1>1, <1>3 DEF Marked, Row
<1>4. CASE pc[m] = "applying" /\ m \in present /\ Applied(m, outcome[m])
    <2> DEFINE o == outcome[m]
               next == NextState(row[m], o)
    <2>1. o \in Outcome
        BY <1>4 DEF TypeInv
    <2>2. next = "DOWN"
        BY <1>1, <1>4, <2>1, AppliedFacts DEF Applied
    <2>3. open'[m] = OpenAfter(open[m], row[m].state, next)
        BY <1>4 DEF Applied
    <2> HIDE DEF next
    <2>4. CASE row[m].state = "DOWN"
        BY <1>1, <2>2, <2>3, <2>4
        DEF OpenAfter, OpensIncident, ClosesIncidents, DownHasIncident
    <2>5. CASE row[m].state # "DOWN"
        BY <1>1, <2>2, <2>3, <2>5 DEF OpenAfter, OpensIncident
    <2>6. QED
        BY <2>4, <2>5
<1>5. CASE \E s \in edits : Saved(m, s)
    <2>1. PICK s \in edits : Saved(m, s)
        BY <1>5
    <2>2. row[m].state = "DOWN" /\ SameHistory(m)
        BY <2>1, SavedSerially
    <2>3. QED
        BY <2>2 DEF SameHistory, DownHasIncident
<1>6. CASE Deleted(m)
    BY <1>6, FreshFacts DEF Deleted
<1>7. QED
    BY <1>2, <1>3, <1>4, <1>5, <1>6, StepEffect

\* With serial edits, a monitor that reads DOWN always has an open incident.
THEOREM DownExplained ==
    ASSUME ~ConcurrentEdits
    PROVE  Spec => []DownHasIncident
<1>1. Init => DownHasIncident
    BY FreshFacts DEF Init, DownHasIncident
<1>2. TypeInv /\ DownHasIncident /\ [Next]_vars => DownHasIncident'
    BY DownStep
<1>3. QED
    BY <1>1, <1>2, TypeInvariant, PTL DEF Spec

\* The two counters of the row are the length of the run of equal results that
\* ends the check history: the inductive reason the thresholds mean anything.
CountersTrue ==
    \A m \in Monitors :
        /\ row[m].fails = IF streak[m].success THEN 0 ELSE streak[m].len
        /\ row[m].succs = IF streak[m].success THEN streak[m].len ELSE 0

LEMMA AppliedCounters ==
    ASSUME TypeInv, CountersTrue, NEW m \in Monitors,
           pc[m] = "applying", Applied(m, outcome[m])
    PROVE  /\ streak'[m].success = Success(outcome[m])
           /\ Success(outcome[m]) =>
                /\ FailsAfter(row[m], outcome[m]) = 0
                /\ SuccsAfter(row[m], outcome[m]) = streak'[m].len
           /\ ~Success(outcome[m]) =>
                /\ FailsAfter(row[m], outcome[m]) = streak'[m].len
                /\ SuccsAfter(row[m], outcome[m]) = 0
           /\ row'[m].fails = FailsAfter(row[m], outcome[m])
           /\ row'[m].succs = SuccsAfter(row[m], outcome[m])
<1>1. /\ outcome[m] \in Outcome
      /\ row[m] \in Row
      /\ streak[m] \in [success: BOOLEAN, len: Counter]
    BY DEF TypeInv, TypeOK
<1>2. Bump(0) = 1
    BY ThresholdAssumption DEF Bump
<1>3. Success(outcome[m]) \in BOOLEAN
    BY DEF Success
<1>4. streak'[m].success = Success(outcome[m])
    BY DEF Applied
<1>5. streak'[m].len = IF Success(outcome[m]) = streak[m].success
                       THEN Bump(streak[m].len) ELSE 1
    BY DEF Applied
<1>6. row'[m].fails = FailsAfter(row[m], outcome[m])
      /\ row'[m].succs = SuccsAfter(row[m], outcome[m])
    BY <1>1, AppliedFacts DEF Applied
<1>7. /\ row[m].fails = IF streak[m].success THEN 0 ELSE streak[m].len
      /\ row[m].succs = IF streak[m].success THEN streak[m].len ELSE 0
    BY DEF CountersTrue
<1>8. ASSUME Success(outcome[m])
      PROVE  /\ FailsAfter(row[m], outcome[m]) = 0
             /\ SuccsAfter(row[m], outcome[m]) = streak'[m].len
    BY <1>1, <1>2, <1>5, <1>7, <1>8 DEF FailsAfter, SuccsAfter
<1>9. ASSUME ~Success(outcome[m])
      PROVE  /\ FailsAfter(row[m], outcome[m]) = streak'[m].len
             /\ SuccsAfter(row[m], outcome[m]) = 0
    <2>1. Success(outcome[m]) = FALSE
        BY <1>3, <1>9
    <2>2. CASE streak[m].success
        BY <1>1, <1>2, <1>5, <1>7, <1>9, <2>2 DEF FailsAfter, SuccsAfter
    <2>3. CASE ~streak[m].success
        <3>1. Success(outcome[m]) = streak[m].success
            BY <1>1, <2>1, <2>3
        <3>2. QED
            BY <1>5, <1>7, <1>9, <2>3, <3>1 DEF FailsAfter, SuccsAfter
    <2>4. QED
        BY <2>2, <2>3
<1>10. QED
    BY <1>4, <1>6, <1>8, <1>9

LEMMA CountersStep ==
    ASSUME ~ConcurrentEdits
    PROVE  TypeInv /\ CountersTrue /\ [Next]_vars => CountersTrue'
<1> SUFFICES ASSUME TypeInv, CountersTrue, [Next]_vars, NEW m \in Monitors
             PROVE  /\ row'[m].fails = IF streak'[m].success THEN 0
                                       ELSE streak'[m].len
                    /\ row'[m].succs = IF streak'[m].success
                                       THEN streak'[m].len ELSE 0
    BY DEF CountersTrue
<1>1. row[m] \in Row
    BY DEF TypeInv, TypeOK
<1>2. CASE Untouched(m)
    BY <1>2 DEF Untouched, SameHistory, CountersTrue
<1>3. CASE Marked(m)
    <2>1. row'[m].fails = row[m].fails /\ row'[m].succs = row[m].succs
        BY <1>1, <1>3 DEF Marked, Row
    <2>2. SameHistory(m)
        BY <1>3 DEF Marked
    <2>3. QED
        BY <2>1, <2>2 DEF SameHistory, CountersTrue
<1>4. CASE pc[m] = "applying" /\ m \in present /\ Applied(m, outcome[m])
    BY <1>4, AppliedCounters
<1>5. CASE \E s \in edits : Saved(m, s)
    BY <1>5, SavedSerially DEF SameHistory, CountersTrue
<1>6. CASE Deleted(m)
    <2>1. FreshRow(TRUE).fails = 0 /\ FreshRow(TRUE).succs = 0
        BY FreshFacts
    <2>2. row'[m] = FreshRow(TRUE) /\ streak'[m] = [success |-> TRUE, len |-> 0]
        BY <1>6 DEF Deleted
    <2>3. streak'[m].success /\ streak'[m].len = 0
        BY <2>2
    <2>4. QED
        BY <2>1, <2>2, <2>3
<1>7. QED
    BY <1>2, <1>3, <1>4, <1>5, <1>6, StepEffect

LEMMA CountersInvariant ==
    ASSUME ~ConcurrentEdits
    PROVE  Spec => []CountersTrue
<1>1. Init => CountersTrue
    <2> SUFFICES ASSUME Init, NEW m \in Monitors
                 PROVE  /\ row[m].fails = 0 /\ row[m].succs = 0
                        /\ streak[m] = [success |-> TRUE, len |-> 0]
        BY DEF CountersTrue
    <2>1. QED
        BY FreshFacts DEF Init
<1>2. TypeInv /\ CountersTrue /\ [Next]_vars => CountersTrue'
    BY CountersStep
<1>3. QED
    BY <1>1, <1>2, TypeInvariant, PTL DEF Spec

\* With serial edits, an incident opens only after failure_threshold failed
\* results in a row.
THEOREM IncidentsEarned ==
    ASSUME ~ConcurrentEdits
    PROVE  Spec => NoPrematureIncident
<1> DEFINE A == \A m \in Monitors : open'[m] > open[m] =>
                    ~streak'[m].success /\ streak'[m].len >= FailureThreshold
<1>1. ASSUME TypeInv, CountersTrue, [Next]_vars PROVE A
    <2> SUFFICES ASSUME NEW m \in Monitors, open'[m] > open[m]
                 PROVE  /\ ~streak'[m].success
                        /\ streak'[m].len >= FailureThreshold
        OBVIOUS
    <2>1. open[m] \in Nat /\ row[m] \in Row
        BY <1>1 DEF TypeInv, TypeOK
    <2>2. ~SameHistory(m) /\ ~Deleted(m)
        <3>1. open'[m] # open[m] /\ open'[m] # 0
            BY <2>1
        <3>2. QED
            BY <3>1 DEF SameHistory, Deleted
    <2>3. pc[m] = "applying" /\ Applied(m, outcome[m])
        BY <1>1, <2>2, StepEffect DEF Untouched, Marked, Saved
    <2>4. outcome[m] \in Outcome /\ row[m].state \in State
        BY <1>1, <2>1, <2>3 DEF TypeInv, Row
    <2>5. OpensIncident(row[m].state, NextState(row[m], outcome[m]))
        BY <2>1, <2>3, <2>4, AppliedFacts, AlertFacts DEF Applied
    <2>6. ~Success(outcome[m])
          /\ FailsAfter(row[m], outcome[m]) >= FailureThreshold
        BY <2>1, <2>4, <2>5, NextStateFacts
    <2>7. QED
        BY <1>1, <2>3, <2>6, AppliedCounters
<1>2. TypeInv /\ CountersTrue /\ [Next]_vars => [A]_vars
    BY <1>1
<1>3. QED
    BY <1>2, TypeInvariant, CountersInvariant, PTL
    DEF Spec, NoPrematureIncident

\* With serial edits, a DOWN monitor turns healthy only after
\* recovery_threshold successful results in a row.
THEOREM RecoveriesEarned ==
    ASSUME ~ConcurrentEdits
    PROVE  Spec => NoPrematureRecovery
<1> DEFINE A == \A m \in Monitors :
        (row[m].state = "DOWN" /\ row'[m].state \in {"UP", "DEGRADED"}) =>
            streak'[m].success /\ streak'[m].len >= RecoveryThreshold
<1>1. ASSUME TypeInv, CountersTrue, [Next]_vars PROVE A
    <2> SUFFICES ASSUME NEW m \in Monitors, row[m].state = "DOWN",
                        row'[m].state \in {"UP", "DEGRADED"}
                 PROVE  /\ streak'[m].success
                        /\ streak'[m].len >= RecoveryThreshold
        OBVIOUS
    <2>1. row[m] \in Row
        BY <1>1 DEF TypeInv, TypeOK
    <2>2. ~Untouched(m) /\ ~Marked(m) /\ ~Deleted(m)
        BY <2>1, FreshFacts DEF Untouched, Marked, Deleted, Row
    <2>3. ~\E s \in edits : Saved(m, s)
        BY <1>1, SavedSerially
    <2>4. pc[m] = "applying" /\ Applied(m, outcome[m])
        BY <1>1, <2>2, <2>3, StepEffect
    <2>5. outcome[m] \in Outcome
        BY <1>1, <2>4 DEF TypeInv
    <2>6. NextState(row[m], outcome[m]) \in {"UP", "DEGRADED"}
        BY <2>1, <2>4, <2>5, AppliedFacts DEF Applied
    <2>7. Success(outcome[m])
          /\ SuccsAfter(row[m], outcome[m]) >= RecoveryThreshold
        BY <2>1, <2>5, <2>6, NextStateFacts DEF ClosesIncidents
    <2>8. QED
        BY <1>1, <2>4, <2>7, AppliedCounters
<1>2. TypeInv /\ CountersTrue /\ [Next]_vars => [A]_vars
    BY <1>1
<1>3. QED
    BY <1>2, TypeInvariant, CountersInvariant, PTL
    DEF Spec, NoPrematureRecovery

-----------------------------------------------------------------------------
(* Steady monitors implement IncidentLifecycle. *)

\* Nobody but the worker touches a steady monitor, so its state, its incidents
\* and its newest alert move together.
SteadyInv ==
    \A m \in SteadyMonitors :
        /\ m \in present
        /\ ~inWindow[m]
        /\ pc[m] # "marking"
        /\ \A s \in edits : s.monitor # m
        /\ outcome[m] # "UNKNOWN"
        /\ row[m].enabled => row[m].state \in {"UNKNOWN", "UP", "DOWN", "DEGRADED"}
        /\ ~row[m].enabled => row[m].state = "PAUSED" /\ pc[m] = "idle"
        /\ open[m] = IF row[m].state = "DOWN" THEN 1 ELSE 0
        /\ row[m].state = "DEGRADED" <=> alert[m] = "DEGRADED"

LEMMA SteadyInit == Init => SteadyInv
<1> SUFFICES ASSUME Init, NEW m \in Monitors
             PROVE  row[m].state = IF row[m].enabled THEN "UNKNOWN" ELSE "PAUSED"
    BY DEF Init, SteadyInv, SteadyMonitors
<1>1. QED
    BY FreshFacts DEF Init

\* The part of SteadyInv about who is at work on the monitor.
LEMMA SteadyFrame ==
    ASSUME TypeInv, SteadyInv, [Next]_vars, NEW m \in SteadyMonitors
    PROVE  /\ m \in present'
           /\ ~inWindow'[m]
           /\ pc'[m] # "marking"
           /\ \A s \in edits' : s.monitor # m
           /\ outcome'[m] # "UNKNOWN"
           /\ ~row[m].enabled => pc'[m] = "idle"
<1> DEFINE Goal == /\ m \in present'
                   /\ ~inWindow'[m]
                   /\ pc'[m] # "marking"
                   /\ \A s \in edits' : s.monitor # m
                   /\ outcome'[m] # "UNKNOWN"
                   /\ ~row[m].enabled => pc'[m] = "idle"
<1> USE DEF TypeInv, TypeOK, SteadyInv, SteadyMonitors
<1>2. CASE UNCHANGED vars
    BY <1>2 DEF vars
<1>3. CASE Select
    BY <1>3 DEF Select, SelectBatch, database
<1>4. ASSUME NEW n \in Monitors, BeginCheck(n) PROVE Goal
    BY <1>4 DEF BeginCheck, database
<1>5. ASSUME NEW n \in Monitors, MarkMaintenance(n) PROVE Goal
    BY <1>5 DEF MarkMaintenance
<1>6. ASSUME NEW n \in Monitors, LoadMonitor(n) PROVE Goal
    BY <1>6 DEF LoadMonitor, database
<1>7. ASSUME NEW n \in Monitors, NEW o \in Outcome, Probe(n, o) PROVE Goal
    BY <1>7 DEF Probe, database, Observable
<1>8. ASSUME NEW n \in Monitors, ApplyOutcome(n) PROVE Goal
    BY <1>8 DEF ApplyOutcome
<1>9. ASSUME NEW n \in Monitors, MonitorMissing(n) PROVE Goal
    BY <1>9 DEF MonitorMissing, BatchLost, database
<1>10. CASE Crash
    BY <1>10 DEF Crash, BatchLost, database
<1>11. ASSUME NEW n \in Monitors, NEW e \in BOOLEAN, BeginEdit(n, e)
       PROVE  Goal
    BY <1>11 DEF BeginEdit, database
<1>12. ASSUME NEW s \in edits, CommitEdit(s) PROVE Goal
    BY <1>12 DEF CommitEdit
<1>13. ASSUME NEW s \in edits, AbandonEdit(s) PROVE Goal
    BY <1>13 DEF AbandonEdit, database
<1>14. ASSUME NEW n \in Monitors, DeleteMonitor(n) PROVE Goal
    BY <1>14 DEF DeleteMonitor
<1>15. ASSUME NEW n \in Monitors, ToggleWindow(n) PROVE Goal
    BY <1>15 DEF ToggleWindow
<1>16. QED
    BY <1>2, <1>3, <1>4, <1>5, <1>6, <1>7, <1>8, <1>9, <1>10, <1>11, <1>12,
       <1>13, <1>14, <1>15 DEF Next, Check, Administer

\* Only an applied outcome touches the rows of a steady monitor.
LEMMA SteadyEffect ==
    ASSUME TypeInv, SteadyInv, [Next]_vars, NEW m \in SteadyMonitors
    PROVE  Untouched(m) \/ (pc[m] = "applying" /\ Applied(m, outcome[m]))
<1>1. m \in Monitors /\ m \notin DeletableMonitors
    BY DEF SteadyMonitors
<1>2. ~Marked(m) /\ ~\E s \in edits : Saved(m, s)
    BY DEF SteadyInv, Marked, Saved
<1>3. ~Deleted(m)
    BY <1>1 DEF Deleted
<1>4. QED
    BY <1>1, <1>2, <1>3, StepEffect

\* What an applied outcome can do to a steady monitor: the four steps of
\* IncidentLifecycle, or nothing it can see.
LEMMA SteadyApplied ==
    ASSUME TypeInv, SteadyInv, NEW m \in SteadyMonitors,
           pc[m] = "applying", Applied(m, outcome[m])
    PROVE  /\ row'[m].enabled
           /\ row'[m].state \in {"UNKNOWN", "UP", "DOWN", "DEGRADED"}
           /\ \/ /\ row[m].state # "DOWN" /\ row'[m].state = "DOWN"
                 /\ open'[m] = 1 /\ alert'[m] = "DOWN"
              \/ /\ row[m].state = "DOWN" /\ row'[m].state = "UP"
                 /\ open'[m] = 0 /\ alert'[m] = "RECOVERED"
              \/ /\ row[m].state = "DOWN" /\ row'[m].state = "DEGRADED"
                 /\ open'[m] = 0 /\ alert'[m] = "DEGRADED"
              \/ /\ row[m].state \notin {"DOWN", "DEGRADED"}
                 /\ row'[m].state = "DEGRADED"
                 /\ open'[m] = open[m] /\ alert'[m] = "DEGRADED"
              \/ /\ row[m].state = "DEGRADED" /\ row'[m].state = "UP"
                 /\ open'[m] = open[m] /\ alert'[m] = "RECOVERED"
              \/ /\ row[m].state = "DOWN" <=> row'[m].state = "DOWN"
                 /\ row[m].state = "DEGRADED" <=> row'[m].state = "DEGRADED"
                 /\ open'[m] = open[m] /\ alert'[m] = alert[m]
<1> DEFINE o == outcome[m]
           prev == row[m].state
           next == NextState(row[m], o)
<1>1. /\ row[m] \in Row
      /\ o \in {"UP", "DEGRADED", "DOWN"}
      /\ o \in Outcome
      /\ open[m] \in Nat
    BY DEF TypeInv, TypeOK, SteadyInv, SteadyMonitors, Outcome
<1>2. row[m].enabled /\ prev \in {"UNKNOWN", "UP", "DOWN", "DEGRADED"}
    BY DEF SteadyInv
<1>3. /\ next \in {"UNKNOWN", "UP", "DOWN", "DEGRADED"}
      /\ next \in {prev, "UP", "DOWN", "DEGRADED"}
      /\ prev = "DOWN" => next # "UNKNOWN"
    BY <1>1, <1>2 DEF NextState, Success
<1>4. row'[m].state = next /\ row'[m].enabled
    BY <1>1, <1>2, <1>3, AppliedFacts DEF Applied
<1>5. open'[m] = OpenAfter(open[m], prev, next)
      /\ alert'[m] = AlertAfter(alert[m], prev, next)
    BY DEF Applied
<1>6. open[m] = IF prev = "DOWN" THEN 1 ELSE 0
    BY DEF SteadyInv, SteadyMonitors
<1> HIDE DEF next, prev
<1>7. CASE next = "DOWN"
    BY <1>2, <1>4, <1>5, <1>6, <1>7
    DEF prev, OpenAfter, OpensIncident, ClosesIncidents, AlertAfter, TransitionOf
<1>8. CASE next # "DOWN"
    BY <1>2, <1>3, <1>4, <1>5, <1>6, <1>8
    DEF prev, OpenAfter, OpensIncident, ClosesIncidents, AlertAfter, TransitionOf
<1> QED
    BY <1>7, <1>8

LEMMA SteadyStep == TypeInv /\ SteadyInv /\ [Next]_vars => SteadyInv'
<1> SUFFICES ASSUME TypeInv, SteadyInv, [Next]_vars, NEW m \in SteadyMonitors
             PROVE  /\ row'[m].enabled =>
                         row'[m].state \in {"UNKNOWN", "UP", "DOWN", "DEGRADED"}
                    /\ ~row'[m].enabled => row'[m].state = "PAUSED"
                    /\ ~row'[m].enabled => ~row[m].enabled
                    /\ open'[m] = IF row'[m].state = "DOWN" THEN 1 ELSE 0
                    /\ row'[m].state = "DEGRADED" <=> alert'[m] = "DEGRADED"
    BY SteadyFrame DEF SteadyInv, SteadyMonitors
<1>1. CASE Untouched(m)
    BY <1>1 DEF Untouched, SameHistory, SteadyInv
<1>2. CASE pc[m] = "applying" /\ Applied(m, outcome[m])
    <2>1. /\ open[m] = IF row[m].state = "DOWN" THEN 1 ELSE 0
          /\ row[m].state = "DEGRADED" <=> alert[m] = "DEGRADED"
        BY DEF SteadyInv
    <2>2. QED
        BY <1>2, <2>1, SteadyApplied
<1>3. QED
    BY <1>1, <1>2, SteadyEffect

LEMMA SteadyInvariant == Spec => []SteadyInv
BY SteadyInit, SteadyStep, TypeInvariant, PTL DEF Spec

\* What engine_job shows to fail needs an UNKNOWN, a pause or a window: where
\* monitors are only checked, recovery leaves no incident open.
THEOREM RecoveryCloses ==
    ASSUME SteadyMonitors = Monitors
    PROVE  Spec => []UpHasNoIncident
<1>1. SteadyInv => UpHasNoIncident
    BY DEF SteadyInv, UpHasNoIncident
<1> QED
    BY <1>1, SteadyInvariant, PTL

\* No step changes the rows of two monitors.
LEMMA OneAtATime ==
    ASSUME TypeInv, [Next]_vars, NEW m \in Monitors, NEW n \in Monitors, m # n
    PROVE  Untouched(m) \/ Untouched(n)
<1> USE DEF TypeInv, TypeOK
<1> DEFINE Goal == Untouched(m) \/ Untouched(n)
<1>1. (UNCHANGED database) => Goal
    BY DEF database, Untouched, SameHistory
<1>2. CASE UNCHANGED vars
    BY <1>1, <1>2 DEF vars, database
<1>3. CASE Select
    BY <1>1, <1>3 DEF Select, SelectBatch
<1>4. ASSUME NEW k \in Monitors, Check(k) PROVE Goal
    BY <1>1, <1>4 DEF Check, BeginCheck, MarkMaintenance, LoadMonitor, Probe,
        ApplyOutcome, MonitorMissing, BatchLost, Untouched, SameHistory
<1>5. CASE Crash
    BY <1>1, <1>5 DEF Crash, BatchLost
<1>6. CASE Administer
    <2>1. ASSUME NEW k \in Monitors, NEW e \in BOOLEAN, BeginEdit(k, e)
          PROVE  Goal
        BY <1>1, <2>1 DEF BeginEdit
    <2>2. ASSUME NEW s \in edits, CommitEdit(s) PROVE Goal
        BY <2>2 DEF CommitEdit, Untouched, SameHistory, EditSession
    <2>3. ASSUME NEW s \in edits, AbandonEdit(s) PROVE Goal
        BY <1>1, <2>3 DEF AbandonEdit
    <2>4. ASSUME NEW k \in Monitors, DeleteMonitor(k) PROVE Goal
        <3>1. \A i \in Monitors : i # k => Untouched(i)
            BY <2>4 DEF DeleteMonitor, Untouched, SameHistory
        <3>2. QED
            BY <3>1
    <2>5. ASSUME NEW k \in Monitors, ToggleWindow(k) PROVE Goal
        BY <2>5 DEF ToggleWindow, Untouched, SameHistory
    <2>6. QED
        BY <1>6, <2>1, <2>2, <2>3, <2>4, <2>5 DEF Administer
<1>7. QED
    BY <1>2, <1>3, <1>4, <1>5, <1>6 DEF Next

LEMMA LifecycleStep ==
    TypeInv /\ SteadyInv /\ [Next]_vars => [Lifecycle!Next]_(Lifecycle!vars)
<1> SUFFICES ASSUME TypeInv, SteadyInv, [Next]_vars
             PROVE  [Lifecycle!Next]_(Lifecycle!vars)
    OBVIOUS
<1>0. SteadyMonitors \subseteq Monitors
    BY DEF SteadyMonitors
<1>1. CASE \A n \in SteadyMonitors : Untouched(n)
    BY <1>1 DEF Untouched, SameHistory, Lifecycle!vars
<1>2. CASE \E m \in SteadyMonitors : ~Untouched(m)
    <2>1. PICK m \in SteadyMonitors : ~Untouched(m)
        BY <1>2
    <2>2. pc[m] = "applying" /\ Applied(m, outcome[m])
        BY <2>1, SteadyEffect
    <2>3. \A n \in SteadyMonitors : n # m => Untouched(n)
        BY <1>0, <2>1, OneAtATime
    <2> DEFINE D == [n \in SteadyMonitors |-> row[n].state = "DOWN"]
               I == [n \in SteadyMonitors |-> open[n]]
               A == [n \in SteadyMonitors |-> alert[n]]
    <2>4. D[m] = (row[m].state = "DOWN") /\ I[m] = open[m] /\ A[m] = alert[m]
        OBVIOUS
    <2>5. /\ row[m].state = "DEGRADED" <=> alert[m] = "DEGRADED"
          /\ open[m] = IF row[m].state = "DOWN" THEN 1 ELSE 0
        BY DEF SteadyInv
    <2>6. /\ row'[m].state = "DOWN" => D' = [D EXCEPT ![m] = TRUE]
          /\ row'[m].state # "DOWN" => D' = [D EXCEPT ![m] = FALSE]
          /\ (row'[m].state = "DOWN" <=> row[m].state = "DOWN") => D' = D
        BY <2>3 DEF Untouched
    <2>7. /\ I' = [I EXCEPT ![m] = open'[m]]
          /\ open'[m] = open[m] => I' = I
        BY <2>3 DEF Untouched, SameHistory
    <2>8. /\ A' = [A EXCEPT ![m] = alert'[m]]
          /\ alert'[m] = alert[m] => A' = A
        BY <2>3 DEF Untouched, SameHistory
    <2>9. \/ Lifecycle!OutageStarts(m) \/ Lifecycle!OutageEnds(m)
          \/ Lifecycle!Warn(m) \/ Lifecycle!WarningClears(m)
          \/ UNCHANGED <<D, I, A>>
        <3>1. CASE /\ row[m].state # "DOWN" /\ row'[m].state = "DOWN"
                   /\ open'[m] = 1 /\ alert'[m] = "DOWN"
            BY <2>4, <2>6, <2>7, <2>8, <3>1 DEF Lifecycle!OutageStarts
        <3>2. CASE /\ row[m].state = "DOWN" /\ row'[m].state # "DOWN"
                   /\ open'[m] = 0 /\ alert'[m] \in {"RECOVERED", "DEGRADED"}
            BY <2>4, <2>6, <2>7, <2>8, <3>2 DEF Lifecycle!OutageEnds
        <3>3. CASE /\ row[m].state \notin {"DOWN", "DEGRADED"}
                   /\ row'[m].state = "DEGRADED"
                   /\ open'[m] = open[m] /\ alert'[m] = "DEGRADED"
            BY <2>4, <2>5, <2>6, <2>7, <2>8, <3>3 DEF Lifecycle!Warn
        <3>4. CASE /\ row[m].state = "DEGRADED" /\ row'[m].state = "UP"
                   /\ open'[m] = open[m] /\ alert'[m] = "RECOVERED"
            BY <2>4, <2>5, <2>6, <2>7, <2>8, <3>4 DEF Lifecycle!WarningClears
        <3>5. CASE /\ row[m].state = "DOWN" <=> row'[m].state = "DOWN"
                   /\ open'[m] = open[m] /\ alert'[m] = alert[m]
            BY <2>6, <2>7, <2>8, <3>5
        <3>6. QED
            BY <2>2, <3>1, <3>2, <3>3, <3>4, <3>5, SteadyApplied
    <2>10. QED
        BY <2>9 DEF Lifecycle!Next, Lifecycle!vars
<1>3. QED
    BY <1>1, <1>2

\* The engine implements IncidentLifecycle for every monitor that only the
\* worker touches, whatever the others do and whenever the worker dies.
THEOREM LifecycleImplemented == Spec => ImplementsLifecycle
<1>1. Init => Lifecycle!Init
    <2> SUFFICES ASSUME Init PROVE Lifecycle!Init
        OBVIOUS
    <2>1. \A m \in Monitors : row[m].state # "DOWN"
        BY FreshFacts DEF Init
    <2>2. SteadyMonitors \subseteq Monitors
        BY DEF SteadyMonitors
    <2>3. [m \in SteadyMonitors |-> row[m].state = "DOWN"]
            = [m \in SteadyMonitors |-> FALSE]
        BY <2>1, <2>2, Zenon
    <2>4. /\ [m \in SteadyMonitors |-> open[m]] = [m \in SteadyMonitors |-> 0]
          /\ [m \in SteadyMonitors |-> alert[m]] = [m \in SteadyMonitors |-> "NONE"]
        BY <2>2 DEF Init
    <2>5. QED
        BY <2>3, <2>4 DEF Lifecycle!Init
<1>2. QED
    BY <1>1, LifecycleStep, SteadyInvariant, TypeInvariant, PTL
    DEF Spec, ImplementsLifecycle, Lifecycle!Spec
=============================================================================

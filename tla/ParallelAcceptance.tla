------------------------- MODULE ParallelAcceptance -------------------------
(***************************************************************************)
(* The gate before Uptime Kuma is retired: snapshots of Kuma compared with *)
(* Monitor's rows (parallel.compare_runtime_snapshots), and the series of  *)
(* comparisons assessed (parallel.evaluate_parallel_series).               *)
(*                                                                         *)
(* The loop of evaluate_parallel_series is the next-state relation: one    *)
(* step takes in one more report, and the verdict is read off what the     *)
(* loop has gathered.  What was really observed is kept beside it.         *)
(***************************************************************************)
EXTENDS Integers, Sequences, FiniteSets

CONSTANTS
    Names,                \* monitor names
    Sources,              \* Kuma snapshots to consider: sequences of Raw
    Tables,               \* Monitor tables to consider (see Row)
    Tolerance,            \* --latency-tolerance-ms
    MinimumObservations,  \* --minimum-observations
    MaxObservations       \* bound: reports in one series

State == {"UNKNOWN", "UP", "DOWN", "DEGRADED", "PAUSED", "MAINTENANCE"}

\* A latency that was not measured, or is not a number of at least zero.
Unmeasured == -1
Latency == Nat \cup {Unmeasured}

\* A Kuma monitor: "" stands for a name that is missing or blank, -1 for a
\* status that is not an integer, NoHeartbeat for no heartbeat at all.
NoHeartbeat == -2
Raw == [name: Names \cup {""}, active: {"yes", "no", "absent"},
        status: Int, ping: Latency]

\* A Monitor row; a table maps the names Monitor has, which are unique, to rows.
Row == [state: State, latency: Latency]

ASSUME ParallelAssumption ==
    /\ IsFiniteSet(Names)
    /\ "" \notin Names
    /\ Sources \subseteq Seq(Raw)
    /\ \A table \in Tables :
        /\ DOMAIN table \subseteq Names
        /\ \A n \in DOMAIN table : table[n] \in Row
    /\ Tolerance \in Nat
    /\ MinimumObservations \in Nat \ {0}
    /\ MaxObservations \in Nat

-----------------------------------------------------------------------------
(* One comparison. *)

\* KUMA_STATUS_TO_MONITOR
KumaState(status) ==
    CASE status = 0 -> "DOWN"
      [] status = 1 -> "UP"
      [] status = 2 -> "UNKNOWN"
      [] status = 3 -> "MAINTENANCE"

\* What Kuma says of the monitor: inactive ones are paused, active ones without
\* a heartbeat pending.
SourceState(raw) ==
    IF raw.active = "no" THEN "PAUSED"
    ELSE IF raw.status \in 0..3 THEN KumaState(raw.status) ELSE "UNKNOWN"

StatusKnown(raw) ==
    \/ raw.active = "no"
    \/ raw.status \in 0..3
    \/ raw.status = NoHeartbeat /\ raw.active = "yes"

SourceLatency(raw) ==
    IF raw.active = "no" \/ raw.status = NoHeartbeat THEN Unmeasured
    ELSE raw.ping

\* Faulty variant: only a Monitor slower than Kuma counts.
LatencyDiffersOneSided(a, b) ==
    a # Unmeasured /\ b # Unmeasured /\ b - a > Tolerance

LatencyDiffers(a, b) ==
    /\ a # Unmeasured
    /\ b # Unmeasured
    /\ a - b > Tolerance \/ b - a > Tolerance

Duplicated(source, i) ==
    \E j \in DOMAIN source : j # i /\ source[j].name = source[i].name

\* The status of the comparison of entry i, in the order the code tests.
StatusOf(source, table, i) ==
    LET raw == source[i]
    IN  IF raw.name = "" THEN "source-invalid"
        ELSE IF Duplicated(source, i) THEN "source-duplicate"
        ELSE IF raw.name \notin DOMAIN table THEN "missing"
        ELSE IF ~StatusKnown(raw) THEN "source-unknown"
        ELSE IF SourceState(raw) # table[raw.name].state THEN "state-different"
        ELSE IF LatencyDiffers(SourceLatency(raw), table[raw.name].latency)
        THEN "latency-different"
        ELSE "match"

ReportName(raw) == IF raw.name = "" THEN "<unnamed>" ELSE raw.name

\* Monitor's rows that no Kuma monitor is named like.
MonitorOnly(source, table) ==
    DOMAIN table \ {source[i].name : i \in DOMAIN source}

\* The report: a record for each Kuma monitor, and one for each row of
\* Monitor's that Kuma does not have.
Listed(source, table) ==
    [i \in DOMAIN source |-> [line |-> i, name |-> ReportName(source[i]),
                              status |-> StatusOf(source, table, i)]]

Report(source, table) ==
    {Listed(source, table)[i] : i \in DOMAIN source} \cup
    {[line |-> 0, name |-> n, status |-> "monitor-only"] :
        n \in MonitorOnly(source, table)}

-----------------------------------------------------------------------------
(* The series. *)

VARIABLES
    count,       \* reports taken in
    baseline,    \* names of the first report, {} before it
    parity,      \* parity_observations
    drift,       \* coverage_drift_observations
    nonmatches,  \* results that are no match
    doubled,     \* some report named a monitor twice
    rejected,    \* a report was refused: ValueError, there is no verdict
    equivalent,  \* in every observation the two systems agreed
    watched      \* the sets of monitors Monitor had, one for each observation

vars == <<count, baseline, parity, drift, nonmatches, doubled, rejected,
          equivalent, watched>>

\* Besides the types: no observation is counted both as parity and as drift.
TypeOK ==
    /\ count \in 0..MaxObservations
    /\ baseline \subseteq Names \cup {"<unnamed>"}
    /\ parity \in Nat /\ drift \in Nat /\ nonmatches \in Nat
    /\ parity + drift =< count
    /\ doubled \in BOOLEAN /\ rejected \in BOOLEAN /\ equivalent \in BOOLEAN
    /\ watched \subseteq SUBSET Names

Init ==
    /\ count = 0 /\ parity = 0 /\ drift = 0 /\ nonmatches = 0
    /\ baseline = {} /\ watched = {}
    /\ doubled = FALSE /\ rejected = FALSE /\ equivalent = TRUE

ReportNames(report) == {r.name : r \in report}

NonMatches(report) == {r \in report : r.status # "match"}

NamedTwice(report) == \E r, s \in report : r # s /\ r.name = s.name

Drifted(report) == baseline # {} /\ ReportNames(report) # baseline

\* Faulty variant: an observation of other monitors counts as parity.
IsParityWithoutCoverage(report) ==
    ~NamedTwice(report) /\ NonMatches(report) = {}

IsParity(report) ==
    ~NamedTwice(report) /\ NonMatches(report) = {} /\ ~Drifted(report)

\* Nothing measured tells the two latencies apart.
Near(a, b) ==
    a # Unmeasured /\ b # Unmeasured => a - b =< Tolerance /\ b - a =< Tolerance

\* The two systems list the same monitors, each once, and agree on every one.
Agree(source, table) ==
    /\ \A i, j \in DOMAIN source : source[i].name = source[j].name => i = j
    /\ {source[i].name : i \in DOMAIN source} = DOMAIN table
    /\ \A i \in DOMAIN source :
        LET raw == source[i]
        IN  /\ StatusKnown(raw)
            /\ SourceState(raw) = table[raw.name].state
            /\ Near(SourceLatency(raw), table[raw.name].latency)

TakeIn(source, table) ==
    LET report == Report(source, table)
    IN  /\ ~rejected
        /\ count < MaxObservations
        /\ report # {}
        /\ count' = count + 1
        /\ baseline' = IF baseline = {} THEN ReportNames(report) ELSE baseline
        /\ parity' = IF IsParity(report) THEN parity + 1 ELSE parity
        /\ drift' = IF Drifted(report) THEN drift + 1 ELSE drift
        /\ nonmatches' = nonmatches + Cardinality(NonMatches(report))
        /\ doubled' = (doubled \/ NamedTwice(report))
        /\ equivalent' = (equivalent /\ Agree(source, table))
        /\ watched' = watched \cup {DOMAIN table}
        /\ UNCHANGED rejected

\* A report without records, of another schema or malformed ends the
\* assessment.
Reject ==
    /\ ~rejected
    /\ rejected' = TRUE
    /\ UNCHANGED <<count, baseline, parity, drift, nonmatches, doubled,
                   equivalent, watched>>

Next ==
    \/ \E source \in Sources, table \in Tables : TakeIn(source, table)
    \/ Reject

Spec == Init /\ [][Next]_vars

-----------------------------------------------------------------------------
(* The verdict on the reports taken in so far. *)

Ready ==
    /\ ~rejected
    /\ count >= MinimumObservations
    /\ parity = count
    /\ drift = 0
    /\ nonmatches = 0
    /\ ~doubled

\* Faulty variant: drift is counted but not reported.
BlockersWithoutDrift ==
    (IF doubled THEN {"duplicate result names"} ELSE {}) \cup
    (IF count < MinimumObservations THEN {"insufficient observations"} ELSE {}) \cup
    (IF nonmatches > 0 THEN {"non-parity comparison results"} ELSE {})

\* The kinds of blocker the verdict lists.
Blockers ==
    (IF doubled THEN {"duplicate result names"} ELSE {}) \cup
    (IF drift > 0 THEN {"coverage drift"} ELSE {}) \cup
    (IF count < MinimumObservations THEN {"insufficient observations"} ELSE {}) \cup
    (IF nonmatches > 0 THEN {"non-parity comparison results"} ELSE {})

-----------------------------------------------------------------------------
(* Properties. *)

\* The gate opens on this evidence and on no less: enough observations, in each
\* of which the two systems listed the same monitors and agreed on all of them,
\* and the same monitors in all.  One bad observation is never outvoted.
ReadyIsExact ==
    Ready <=>
        /\ ~rejected
        /\ count >= MinimumObservations
        /\ equivalent
        /\ \A a, b \in watched : a = b

\* A series that is not ready says why, and one that is has nothing against it.
BlockersExplain == ~rejected => (Ready <=> Blockers = {})
=============================================================================

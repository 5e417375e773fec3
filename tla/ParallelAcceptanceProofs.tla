---------------------- MODULE ParallelAcceptanceProofs ----------------------
(***************************************************************************)
(* The verdict of ParallelAcceptance is exact for every set of names, every *)
(* snapshot and table, every tolerance and any number of observations.     *)
(***************************************************************************)
EXTENDS ParallelAcceptance, FiniteSetTheorems, TLAPS

-----------------------------------------------------------------------------
(* One report. *)

\* A Kuma snapshot and a Monitor table that may be compared.
LEMMA Inputs ==
    ASSUME NEW source \in Sources, NEW table \in Tables
    PROVE  /\ source \in Seq(Raw)
           /\ DOMAIN source = 1..Len(source) /\ Len(source) \in Nat
           /\ \A i \in DOMAIN source :
                /\ source[i].name \in Names \cup {""}
                /\ SourceLatency(source[i]) \in Latency
           /\ DOMAIN table \subseteq Names
           /\ \A n \in DOMAIN table : table[n].latency \in Latency
<1>1. source \in Seq(Raw)
    BY ParallelAssumption
<1>2. \A i \in DOMAIN source : source[i] \in Raw
    BY <1>1
<1>3. DOMAIN source = 1..Len(source) /\ Len(source) \in Nat
    BY <1>1
<1>4. \A i \in DOMAIN source :
        /\ source[i].name \in Names \cup {""}
        /\ SourceLatency(source[i]) \in Latency
    BY <1>2 DEF Raw, SourceLatency, Latency
<1>5. \A n \in DOMAIN table : table[n].latency \in Latency
    <2>1. \A n \in DOMAIN table : table[n] \in Row
        BY ParallelAssumption
    <2>2. QED
        BY <2>1 DEF Row
<1>6. DOMAIN table \subseteq Names
    BY ParallelAssumption
<1>7. QED
    BY <1>1, <1>3, <1>4, <1>5, <1>6

\* The latency test of the code is the distance from the tolerance.
LEMMA LatencyTest ==
    ASSUME NEW a \in Latency, NEW b \in Latency
    PROVE  LatencyDiffers(a, b) <=> ~Near(a, b)
<1>1. Tolerance \in Nat
    BY ParallelAssumption
<1>2. a \in Int /\ b \in Int
    BY DEF Latency, Unmeasured
<1>3. QED
    BY <1>1, <1>2 DEF LatencyDiffers, Near

\* A report has finitely many records, so its non-matches can be counted.
LEMMA ReportFinite ==
    ASSUME NEW source \in Sources, NEW table \in Tables
    PROVE  /\ Cardinality(NonMatches(Report(source, table))) \in Nat
           /\ Cardinality(NonMatches(Report(source, table))) = 0
                <=> NonMatches(Report(source, table)) = {}
<1> DEFINE L == {Listed(source, table)[i] : i \in DOMAIN source}
           O == {[line |-> 0, name |-> n, status |-> "monitor-only"] :
                    n \in MonitorOnly(source, table)}
           f == Listed(source, table)
           g == [n \in MonitorOnly(source, table) |->
                    [line |-> 0, name |-> n, status |-> "monitor-only"]]
<1>1. IsFiniteSet(DOMAIN source)
    <2>1. DOMAIN source = 1..Len(source) /\ Len(source) \in Nat
        BY Inputs
    <2>2. Len(source) \in Int /\ 1 \in Int
        BY <2>1
    <2>3. QED
        BY <2>1, <2>2, FS_Interval
<1>2. IsFiniteSet(L)
    <2>1. f \in Surjection(DOMAIN source, L)
        BY DEF Surjection, Listed
    <2>2. QED
        BY <1>1, <2>1, FS_Surjection
<1>3. IsFiniteSet(MonitorOnly(source, table))
    BY Inputs, ParallelAssumption, FS_Subset DEF MonitorOnly
<1>4. IsFiniteSet(O)
    <2>1. g \in Surjection(MonitorOnly(source, table), O)
        BY DEF Surjection
    <2>2. QED
        BY <1>3, <2>1, FS_Surjection
<1>5. IsFiniteSet(Report(source, table))
    BY <1>2, <1>4, FS_Union DEF Report
<1>6. IsFiniteSet(NonMatches(Report(source, table)))
    BY <1>5, FS_Subset DEF NonMatches
<1>7. QED
    BY <1>6, FS_CardinalityType, FS_EmptySet

\* When an entry of the report says match.
LEMMA MatchMeans ==
    ASSUME NEW source \in Sources, NEW table \in Tables, NEW i \in DOMAIN source
    PROVE  StatusOf(source, table, i) = "match" <=>
            /\ source[i].name # ""
            /\ ~Duplicated(source, i)
            /\ source[i].name \in DOMAIN table
            /\ StatusKnown(source[i])
            /\ SourceState(source[i]) = table[source[i].name].state
            /\ Near(SourceLatency(source[i]), table[source[i].name].latency)
<1>1. source[i].name \in DOMAIN table =>
        (LatencyDiffers(SourceLatency(source[i]), table[source[i].name].latency)
            <=> ~Near(SourceLatency(source[i]), table[source[i].name].latency))
    BY Inputs, LatencyTest
<1>2. QED
    BY <1>1 DEF StatusOf

\* A report without non-matches is one of two systems that agree; it names
\* Monitor's monitors and each of them once.
LEMMA NoNonMatchMeans ==
    ASSUME NEW source \in Sources, NEW table \in Tables
    PROVE  /\ NonMatches(Report(source, table)) = {} <=> Agree(source, table)
           /\ Agree(source, table) =>
                /\ ~NamedTwice(Report(source, table))
                /\ ReportNames(Report(source, table)) = DOMAIN table
<1> DEFINE report == Report(source, table)
           M(i) == StatusOf(source, table, i) = "match"
<1>1. /\ \A r \in report :
            \/ \E i \in DOMAIN source : r = Listed(source, table)[i]
            \/ r.status = "monitor-only" /\ MonitorOnly(source, table) # {}
      /\ \A i \in DOMAIN source : Listed(source, table)[i] \in report
      /\ \A n \in MonitorOnly(source, table) :
            [line |-> 0, name |-> n, status |-> "monitor-only"] \in report
    <2>1. \A r \in report :
            \/ \E i \in DOMAIN source : r = Listed(source, table)[i]
            \/ \E n \in MonitorOnly(source, table) :
                    r = [line |-> 0, name |-> n, status |-> "monitor-only"]
        BY Zenon DEF Report
    <2>2. \A i \in DOMAIN source : Listed(source, table)[i] \in report
        BY Zenon DEF Report
    <2>3. \A n \in MonitorOnly(source, table) :
            [line |-> 0, name |-> n, status |-> "monitor-only"] \in report
        BY Zenon DEF Report
    <2>4. QED
        BY <2>1, <2>2, <2>3
<1>2. \A i \in DOMAIN source :
        /\ Listed(source, table)[i].status = StatusOf(source, table, i)
        /\ Listed(source, table)[i].name = ReportName(source[i])
    BY DEF Listed
<1>3. NonMatches(report) = {} <=>
        MonitorOnly(source, table) = {} /\ \A i \in DOMAIN source : M(i)
    <2>1. ASSUME NonMatches(report) = {}, NEW n \in MonitorOnly(source, table)
          PROVE  FALSE
        <3>1. [line |-> 0, name |-> n, status |-> "monitor-only"]
                \in NonMatches(report)
            BY <1>1 DEF NonMatches
        <3>2. QED
            BY <2>1, <3>1
    <2>2. ASSUME NonMatches(report) = {}, NEW i \in DOMAIN source
          PROVE  M(i)
        <3>1. Listed(source, table)[i] \in report
            BY <1>1
        <3>2. Listed(source, table)[i].status = "match"
            BY <2>2, <3>1, Zenon DEF NonMatches
        <3>3. QED
            BY <1>2, <3>2
    <2>3. ASSUME MonitorOnly(source, table) = {},
                 \A i \in DOMAIN source : M(i),
                 NEW r \in report
          PROVE  r.status = "match"
        BY <1>1, <1>2, <2>3
    <2>4. QED
        BY <2>1, <2>2, <2>3 DEF NonMatches
<1>4. ASSUME MonitorOnly(source, table) = {}, \A i \in DOMAIN source : M(i)
      PROVE  Agree(source, table)
    <2>1. \A i, j \in DOMAIN source : source[i].name = source[j].name => i = j
        BY <1>4, MatchMeans DEF Duplicated
    <2>2. {source[i].name : i \in DOMAIN source} = DOMAIN table
        BY <1>4, MatchMeans DEF MonitorOnly
    <2>3. QED
        BY <1>4, <2>1, <2>2, MatchMeans DEF Agree
<1>5. ASSUME Agree(source, table)
      PROVE  /\ MonitorOnly(source, table) = {}
             /\ \A i \in DOMAIN source : M(i)
    <2>1. MonitorOnly(source, table) = {}
        BY <1>5 DEF Agree, MonitorOnly
    <2>2. ASSUME NEW i \in DOMAIN source PROVE M(i)
        <3>1. source[i].name \in DOMAIN table
            BY <1>5 DEF Agree
        <3>2. source[i].name # ""
            BY <3>1, Inputs, ParallelAssumption
        <3>3. ~Duplicated(source, i)
            BY <1>5 DEF Agree, Duplicated
        <3>4. QED
            BY <1>5, <3>1, <3>2, <3>3, MatchMeans DEF Agree
    <2>3. QED
        BY <2>1, <2>2
<1>6. ASSUME Agree(source, table)
      PROVE  ~NamedTwice(report) /\ ReportNames(report) = DOMAIN table
    <2>1. \A r \in report :
            \E i \in DOMAIN source : r = Listed(source, table)[i]
        BY <1>1, <1>5, <1>6
    <2>2. \A i \in DOMAIN source :
            Listed(source, table)[i].name = source[i].name
        BY <1>2, <1>5, <1>6, MatchMeans DEF ReportName
    <2>3. ~NamedTwice(report)
        BY <1>6, <2>1, <2>2 DEF NamedTwice, Agree
    <2>4. ReportNames(report) = {source[i].name : i \in DOMAIN source}
        BY <1>1, <2>1, <2>2 DEF ReportNames
    <2>5. QED
        BY <1>6, <2>3, <2>4 DEF Agree
<1>7. QED
    BY <1>3, <1>4, <1>5, <1>6

\* The names of any report.
LEMMA ReportNamesType ==
    ASSUME NEW source \in Sources, NEW table \in Tables
    PROVE  ReportNames(Report(source, table)) \subseteq Names \cup {"<unnamed>"}
<1>1. \A i \in DOMAIN source :
        Listed(source, table)[i].name \in Names \cup {"<unnamed>"}
    BY Inputs DEF Listed, ReportName
<1>2. MonitorOnly(source, table) \subseteq Names
    BY Inputs DEF MonitorOnly
<1>3. QED
    BY <1>1, <1>2 DEF ReportNames, Report

-----------------------------------------------------------------------------
(* The series. *)

\* What the counters of the loop say of the observations taken in.
SeriesInv ==
    /\ nonmatches = 0 <=> equivalent
    /\ doubled => ~equivalent
    /\ count = 0 => baseline = {} /\ watched = {} /\ equivalent
    /\ baseline = {} => count = 0
    /\ equivalent /\ count > 0 => baseline \in watched
    /\ equivalent => (drift = 0 <=> watched \subseteq {baseline})
    /\ parity = count <=> equivalent /\ drift = 0

\* The inductive invariant.
IInv == TypeOK /\ SeriesInv

LEMMA InitInv == Init => IInv
<1> SUFFICES ASSUME Init PROVE IInv
    OBVIOUS
<1>1. MaxObservations \in Nat
    BY ParallelAssumption
<1>2. TypeOK
    <2>1. count \in 0..MaxObservations
        BY <1>1 DEF Init
    <2>2. parity \in Nat /\ drift \in Nat /\ nonmatches \in Nat
        BY DEF Init
    <2>3. parity + drift =< count
        BY DEF Init
    <2>4. QED
        BY <2>1, <2>2, <2>3 DEF Init, TypeOK
<1>3. SeriesInv
    BY DEF Init, SeriesInv
<1>4. QED
    BY <1>2, <1>3 DEF IInv

\* An observation is one of parity when the systems agree and list what the
\* first observation listed.
LEMMA ParityMeans ==
    ASSUME NEW source \in Sources, NEW table \in Tables
    PROVE  IsParity(Report(source, table)) <=>
            Agree(source, table) /\ ~Drifted(Report(source, table))
BY NoNonMatchMeans DEF IsParity

LEMMA TakeInTypes ==
    ASSUME IInv, NEW source \in Sources, NEW table \in Tables,
           TakeIn(source, table)
    PROVE  TypeOK'
<1> DEFINE report == Report(source, table)
<1>1. MaxObservations \in Nat
    BY ParallelAssumption
<1>2. count' \in 0..MaxObservations
    BY <1>1 DEF IInv, TypeOK, TakeIn
<1>3. baseline' \subseteq Names \cup {"<unnamed>"}
    BY ReportNamesType DEF IInv, TypeOK, TakeIn
<1>4. Cardinality(NonMatches(report)) \in Nat
    BY ReportFinite
<1>5. nonmatches' \in Nat
    BY <1>4 DEF IInv, TypeOK, TakeIn
<1>6. parity' \in Nat /\ drift' \in Nat
    BY DEF IInv, TypeOK, TakeIn
<1>7. parity' + drift' =< count'
    BY ParityMeans DEF IInv, TypeOK, TakeIn
<1>8. doubled' \in BOOLEAN
    <2>1. NamedTwice(report) \in BOOLEAN
        BY Zenon DEF NamedTwice
    <2>2. QED
        BY <2>1 DEF IInv, TypeOK, TakeIn
<1>9. rejected' \in BOOLEAN /\ equivalent' \in BOOLEAN
    <2>1. Agree(source, table) \in BOOLEAN
        BY Zenon DEF Agree
    <2>2. QED
        BY <2>1 DEF IInv, TypeOK, TakeIn
<1>10. watched' \subseteq SUBSET Names
    BY Inputs DEF IInv, TypeOK, TakeIn
<1>11. QED
    BY <1>2, <1>3, <1>5, <1>6, <1>7, <1>8, <1>9, <1>10 DEF TypeOK

LEMMA TakeInSeries ==
    ASSUME IInv, NEW source \in Sources, NEW table \in Tables,
           TakeIn(source, table)
    PROVE  SeriesInv'
<1> DEFINE report == Report(source, table)
<1>1. /\ equivalent' <=> equivalent /\ Agree(source, table)
      /\ doubled' <=> doubled \/ NamedTwice(report)
    BY Zenon DEF TakeIn
<1>2. count' > 0 /\ count' # 0
    BY DEF IInv, TypeOK, TakeIn
<1>3. nonmatches' = 0 <=> equivalent'
    <2>1. nonmatches' = 0 <=>
            nonmatches = 0 /\ Cardinality(NonMatches(report)) = 0
        BY ReportFinite DEF IInv, TypeOK, TakeIn
    <2>2. Cardinality(NonMatches(report)) = 0 <=> Agree(source, table)
        BY ReportFinite, NoNonMatchMeans
    <2>3. QED
        BY <1>1, <2>1, <2>2 DEF IInv, SeriesInv
<1>4. doubled' => ~equivalent'
    BY <1>1, NoNonMatchMeans DEF IInv, SeriesInv
<1>5. baseline' # {}
    BY DEF TakeIn, ReportNames
<1>6. ASSUME equivalent'
      PROVE  /\ baseline' \in watched'
             /\ drift' = 0 <=> watched' \subseteq {baseline'}
    <2>1. /\ equivalent
          /\ ReportNames(report) = DOMAIN table
          /\ watched' = watched \cup {DOMAIN table}
        BY <1>1, <1>6, NoNonMatchMeans DEF TakeIn
    <2>2. CASE baseline = {}
        <3>1. count = 0
            BY <2>2 DEF IInv, SeriesInv
        <3>2. watched = {} /\ drift = 0
            BY <2>1, <3>1 DEF IInv, SeriesInv
        <3>3. drift' = 0 /\ baseline' = DOMAIN table
            BY <2>1, <2>2, <3>2 DEF TakeIn, Drifted
        <3>4. QED
            BY <2>1, <3>2, <3>3
    <2>3. CASE baseline # {}
        <3>1. count > 0
            BY <2>3 DEF IInv, TypeOK, SeriesInv
        <3>2. baseline \in watched /\ (drift = 0 <=> watched \subseteq {baseline})
            BY <2>1, <3>1 DEF IInv, SeriesInv
        <3>3. baseline' = baseline
            BY <2>3 DEF TakeIn
        <3>4. Drifted(report) <=> DOMAIN table # baseline
            BY <2>1, <2>3 DEF Drifted
        <3>5. drift' = 0 <=> drift = 0 /\ DOMAIN table = baseline
            BY <3>4 DEF IInv, TypeOK, TakeIn
        <3>6. QED
            BY <2>1, <3>2, <3>3, <3>5
    <2>4. QED
        BY <2>2, <2>3
<1>7. parity' = count' <=> equivalent' /\ drift' = 0
    <2>1. parity' = count' <=> parity = count /\ IsParity(report)
        BY DEF IInv, TypeOK, TakeIn
    <2>2. drift' = 0 <=> drift = 0 /\ ~Drifted(report)
        BY DEF IInv, TypeOK, TakeIn
    <2>3. QED
        BY <1>1, <2>1, <2>2, ParityMeans DEF IInv, SeriesInv
<1>8. QED
    BY <1>2, <1>3, <1>4, <1>5, <1>6, <1>7 DEF SeriesInv

LEMMA StepInv == IInv /\ [Next]_vars => IInv'
<1> SUFFICES ASSUME IInv, [Next]_vars PROVE IInv'
    OBVIOUS
<1>1. ASSUME NEW source \in Sources, NEW table \in Tables,
             TakeIn(source, table)
      PROVE  IInv'
    BY <1>1, TakeInTypes, TakeInSeries DEF IInv
<1>2. CASE Reject
    BY <1>2 DEF Reject, IInv, TypeOK, SeriesInv
<1>3. CASE UNCHANGED vars
    BY <1>3 DEF vars, IInv, TypeOK, SeriesInv
<1>4. QED
    BY <1>1, <1>2, <1>3 DEF Next

LEMMA Invariance == Spec => []IInv
BY InitInv, StepInv, PTL DEF Spec

-----------------------------------------------------------------------------
(* The verdict. *)

\* Enough observations are at least one.
LEMMA Counting ==
    ASSUME IInv
    PROVE  /\ count \in Nat
           /\ count >= MinimumObservations => count > 0
           /\ count >= MinimumObservations <=> ~(count < MinimumObservations)
<1>1. MinimumObservations \in Nat \ {0}
    BY ParallelAssumption
<1>2. count \in Nat
    BY DEF IInv, TypeOK
<1>3. QED
    BY <1>1, <1>2

\* The counts of a series are numbers, and no observation is counted both as
\* one of parity and as one of drift (evaluate_parallel_series).
THEOREM VerdictTypes == Spec => []TypeOK
<1>1. IInv => TypeOK
    BY DEF IInv
<1>2. QED
    BY <1>1, Invariance, PTL

\* The verdict is "ready" for the series in which the two systems listed the
\* same monitors and agreed on them in every one of enough observations, and
\* for no other (evaluate_parallel_series, compare_runtime_snapshots).
THEOREM VerdictExact == Spec => []ReadyIsExact
<1>1. IInv => ReadyIsExact
    <2> SUFFICES ASSUME IInv PROVE ReadyIsExact
        OBVIOUS
    <2>1. count >= MinimumObservations => count > 0
        BY Counting
    <2>2. equivalent /\ count > 0 =>
            (drift = 0 <=> \A a, b \in watched : a = b)
        BY DEF IInv, SeriesInv
    <2>3. parity = count /\ drift = 0 /\ nonmatches = 0 /\ ~doubled
            <=> equivalent /\ drift = 0
        BY DEF IInv, SeriesInv
    <2>4. QED
        BY <2>1, <2>2, <2>3 DEF Ready, ReadyIsExact
<1>2. QED
    BY <1>1, Invariance, PTL

\* A series that is not ready lists a blocker, and a ready one lists none
\* (evaluate_parallel_series).
THEOREM BlockersComplete == Spec => []BlockersExplain
<1>1. IInv => BlockersExplain
    <2> SUFFICES ASSUME IInv PROVE BlockersExplain
        OBVIOUS
    <2>1. parity = count /\ drift = 0 /\ nonmatches = 0 /\ ~doubled
            <=> drift = 0 /\ nonmatches = 0 /\ ~doubled
        BY DEF IInv, SeriesInv
    <2>2. Blockers = {} <=>
            ~doubled /\ ~(drift > 0) /\ ~(count < MinimumObservations)
            /\ ~(nonmatches > 0)
        BY DEF Blockers
    <2>3. /\ drift > 0 <=> drift # 0
          /\ nonmatches > 0 <=> nonmatches # 0
          /\ count >= MinimumObservations <=> ~(count < MinimumObservations)
        BY Counting DEF IInv, TypeOK
    <2>4. QED
        BY <2>1, <2>2, <2>3 DEF Ready, BlockersExplain
<1>2. QED
    BY <1>1, Invariance, PTL
=============================================================================

--------------------------- MODULE JobSignalsProofs ---------------------------
(***************************************************************************)
(* Proofs about JobSignals: its types, the identity of signals, how far    *)
(* the rate limit is overrun, that pruning is invisible to the evaluation, *)
(* and what the evaluation says of completions that came or did not come.  *)
(***************************************************************************)
EXTENDS JobSignals, FiniteOrder

\* Every request that waits has a row left, rows have ids of their own, and no
\* stamp is older than the job or, while its request waits, than MaxDelay.
RowsSound ==
    /\ IsFiniteSet(events)
    /\ lastId + Cardinality(InProgress) =< MaxEvents
    /\ \A e \in events : e.id =< lastId
    /\ \A e, f \in events : e.id = f.id => e = f
    /\ job.created =< now
    /\ \A e \in events : job.created =< e.at
    /\ \A c \in InProgress : job.created =< sent[c].at /\ now - sent[c].at =< MaxDelay

Base == TypeOK /\ RowsSound

\* Requests stamped earlier than an event, within its minute, that may still
\* be recorded.
Overtaking(e) ==
    {c \in InProgress : e.at - Minute =< sent[c].at /\ sent[c].at < e.at}

InMinuteOf(e) == {f \in events : e.at - Minute =< f.at /\ f.at =< e.at}

\* What the minute of an event holds and may still gather.
MinuteBounded ==
    \A e \in events :
        Cardinality(InMinuteOf(e)) + Cardinality(Overtaking(e))
            < MaxPerMinute + Cardinality(Clients)

\* The rows that the pruning in progress leaves.
Survivors == {e \in events : e.at >= pruning.cutoff \/ e \in pruning.keep}

\* The evaluation's rows are among them, and none that is still to come is not.
PruningSafe ==
    pruning # NotPruning =>
        /\ Protected(events) \subseteq Survivors
        /\ pruning.cutoff < now - MaxDelay

\* newest is what the rows say: no row is later, and a START or completion that
\* is gone was followed by a completion that is not.
Remembered ==
    /\ \A e \in events : e.at =< newest[e.type]
    /\ \A t \in Terminal \cup {"START"} : newest[t] # Never =>
        \E e \in OfType(events, Terminal \cup {t}) : e.at >= newest[t]

\* The cron expression's occurrences are further apart than the grace lasts.
GraceBelowPeriod ==
    \A j \in Jobs : j.mode = "CRON" =>
        \A d, e \in Schedule : d < e => e - d > j.grace + 1

-----------------------------------------------------------------------------
(* Types and rows. *)

LEMMA Constants ==
    /\ Minute \in Nat /\ MaxPerMinute \in Nat \ {0} /\ MaxDelay \in Nat
    /\ Retention \in Nat /\ Retention > MaxDelay
    /\ MaxTime \in Nat /\ MaxEvents \in Nat
    /\ IsFiniteSet(Clients) /\ Cardinality(Clients) \in Nat
BY JobAssumption, FS_CardinalityType

LEMMA RequestsFinite ==
    /\ IsFiniteSet(InProgress)
    /\ Cardinality(InProgress) \in Nat
<1>1. InProgress \in SUBSET Clients
    BY DEF InProgress
<1> QED
    BY <1>1, Constants, FS_Subset, FS_CardinalityType

\* The job's columns.
LEMMA JobType ==
    ASSUME NEW j \in Jobs
    PROVE  /\ j.mode \in Mode
           /\ j.created \in Nat /\ j.created \in Time
           /\ j.interval \in Nat /\ j.grace \in Nat /\ j.runtime \in Nat
BY JobAssumption DEF Job, Time

LEMMA NoSignalStamp == NoSignal.at = -1 /\ NoSignal \notin Signal
BY DEF NoSignal, Never, Signal, EventType

LEMMA SignalType ==
    ASSUME TypeOK, NEW c \in InProgress
    PROVE  /\ c \in Clients
           /\ sent[c] \in Signal
           /\ sent[c].type \in EventType /\ sent[c].at \in Nat
           /\ sent[c].key \in EventIds \cup {""}
<1>1. c \in Clients /\ sent[c] \in Signal
    BY DEF TypeOK, InProgress
<1>2. Time \subseteq Nat
    BY Constants DEF Time
<1> QED
    BY <1>1, <1>2 DEF Signal

LEMMA EventTypes ==
    ASSUME TypeOK, NEW e \in events
    PROVE  /\ e.type \in EventType
           /\ e.at \in Nat
           /\ e.id \in Nat
<1>1. e \in Event
    BY DEF TypeOK
<1>2. Time \subseteq Nat /\ 1..MaxEvents \subseteq Nat
    BY Constants DEF Time
<1> QED
    BY <1>1, <1>2 DEF Event

LEMMA BaseInit == Init => Base
<1> SUFFICES ASSUME Init PROVE Base
    OBVIOUS
<1>1. job \in Jobs /\ now = job.created /\ now \in Time /\ now \in Nat
    BY JobType DEF Init
<1>2. InProgress = {}
    BY DEF Init, InProgress
<1>3. TypeOK
    <2>1. 0 \in 0..MaxEvents
        BY Constants
    <2>2. \A c \in Clients : sent[c] = NoSignal
        BY DEF Init
    <2>3. \A c \in Clients : sent[c].at =< now
        BY <1>1, <2>2, NoSignalStamp
    <2>4. pruning.cutoff \in Int /\ pruning.keep \subseteq Event
        BY DEF Init, NotPruning, Never
    <2> QED
        BY <1>1, <2>1, <2>3, <2>4 DEF Init, TypeOK
<1>4. RowsSound
    BY <1>1, <1>2, Constants, FS_EmptySet DEF Init, RowsSound
<1> QED
    BY <1>3, <1>4 DEF Base

\* What a recorded signal adds.
Recorded(c) ==
    [type |-> sent[c].type, key |-> sent[c].key, at |-> sent[c].at, id |-> lastId + 1]

LEMMA RecordedEvent ==
    ASSUME Base, NEW c \in Clients, Record(c)
    PROVE  /\ Recorded(c) \in Event
           /\ Recorded(c).at = sent[c].at /\ Recorded(c).at \in Nat
           /\ Recorded(c).type = sent[c].type /\ Recorded(c).type \in EventType
           /\ Recorded(c).key = sent[c].key
           /\ Recorded(c).id = lastId + 1 /\ lastId \in Nat /\ lastId < MaxEvents
           /\ Recorded(c).at =< now /\ now - Recorded(c).at =< MaxDelay
           /\ job.created =< Recorded(c).at
           /\ events' = events \cup {Recorded(c)}
           /\ Recorded(c) \notin events
           /\ InProgress' = InProgress \ {c} /\ c \in InProgress
           /\ \A d \in InProgress' : sent'[d] = sent[d]
<1>1. c \in InProgress
    BY DEF Record
<1>2. Cardinality(InProgress) # 0
    BY <1>1, RequestsFinite, FS_EmptySet
<1>3. lastId \in Nat /\ lastId < MaxEvents
    BY <1>2, Constants, RequestsFinite DEF Base, TypeOK, RowsSound
<1>4. sent[c].type \in EventType /\ sent[c].at \in Nat
      /\ sent[c].key \in EventIds \cup {""} /\ sent[c].at \in Time
    BY <1>1, SignalType DEF Base, Signal
<1>5. lastId + 1 \in 1..MaxEvents
    BY <1>3, Constants
<1>6. Recorded(c) \in Event
    BY <1>4, <1>5 DEF Recorded, Event
<1>7. InProgress' = InProgress \ {c} /\ \A d \in InProgress' : sent'[d] = sent[d]
    BY <1>1 DEF Record, InProgress, Base, TypeOK
<1>8. sent[c].at =< now /\ now - sent[c].at =< MaxDelay /\ job.created =< sent[c].at
    BY <1>1 DEF Base, TypeOK, RowsSound, InProgress
<1>9. Recorded(c) \notin events
    <2>1. Recorded(c).id = lastId + 1
        BY DEF Recorded
    <2>2. \A e \in events : e.id =< lastId
        BY DEF Base, RowsSound
    <2> QED
        BY <1>3, <2>1, <2>2
<1> QED
    BY <1>1, <1>3, <1>4, <1>6, <1>7, <1>8, <1>9 DEF Record, Recorded

\* A request is stamped now.
Stamps(c) ==
    /\ sent[c] = NoSignal
    /\ lastId + Cardinality(InProgress) < MaxEvents
    /\ \E s \in Signal : s.at = now /\ sent' = [sent EXCEPT ![c] = s]
    /\ UNCHANGED <<job, now, enabled, events, lastId, pruning, newest>>

LEMMA StampStamps ==
    ASSUME TypeOK, NEW c \in Clients, NEW t \in EventType,
           NEW k \in EventIds \cup {""}, Stamp(c, t, k)
    PROVE  Stamps(c)
<1> DEFINE s == [type |-> t, key |-> k, at |-> now]
<1>1. now \in Time
    BY DEF TypeOK
<1>2. s \in Signal /\ s.at = now
    BY <1>1 DEF Signal
<1>3. sent' = [sent EXCEPT ![c] = s]
    BY DEF Stamp, ReceivedAt
<1> QED
    BY <1>2, <1>3 DEF Stamp, Stamps

\* A step, with the requests' contents left out.
LEMMA Steps ==
    ASSUME TypeOK, [Next]_vars
    PROVE  \/ \E c \in Clients : Stamps(c) \/ Record(c) \/ Refuse(c)
           \/ BeginPrune \/ FinishPrune \/ PauseOrResume \/ Tick
           \/ UNCHANGED vars
BY StampStamps DEF Next

LEMMA BaseNext == Base /\ [Next]_vars => Base'
<1> SUFFICES ASSUME Base, [Next]_vars PROVE Base'
    OBVIOUS
<1>0. TypeOK /\ RowsSound /\ now \in Nat /\ job \in Jobs /\ lastId \in Nat
    BY Constants DEF Base, TypeOK, Time
<1>1. ASSUME NEW c \in Clients, Stamps(c)
      PROVE  Base'
    <2>1. PICK s \in Signal : s.at = now /\ sent' = [sent EXCEPT ![c] = s]
        BY <1>1 DEF Stamps
    <2>2. /\ lastId + Cardinality(InProgress) < MaxEvents
          /\ sent[c] = NoSignal
          /\ UNCHANGED <<job, now, enabled, events, lastId, pruning, newest>>
        BY <1>1 DEF Stamps
    <2>3. c \notin InProgress /\ InProgress' = InProgress \cup {c}
        BY <1>0, <2>1, <2>2, NoSignalStamp DEF InProgress, TypeOK
    <2>4. \A d \in Clients : sent'[d] = IF d = c THEN s ELSE sent[d]
        BY <1>0, <2>1 DEF TypeOK
    <2>5. Cardinality(InProgress') = Cardinality(InProgress) + 1
        BY <2>3, RequestsFinite, FS_AddElement
    <2>6. TypeOK'
        <3>1. sent' \in [Clients -> Signal \cup {NoSignal}]
            BY <1>0, <2>1 DEF TypeOK
        <3>2. \A d \in Clients : sent'[d].at =< now
            <4>1. \A d \in Clients : sent[d].at =< now
                BY <1>0 DEF TypeOK
            <4> QED
                BY <1>0, <2>1, <2>4, <4>1
        <3> QED
            BY <1>0, <2>2, <3>1, <3>2 DEF TypeOK
    <2>7. RowsSound'
        <3>1. lastId' + Cardinality(InProgress') =< MaxEvents
            BY <1>0, <2>2, <2>5, Constants, RequestsFinite
        <3>2. \A d \in InProgress' :
                job'.created =< sent'[d].at /\ now' - sent'[d].at =< MaxDelay
            BY <1>0, <2>1, <2>2, <2>3, <2>4, Constants DEF RowsSound, InProgress
        <3> QED
            BY <1>0, <2>2, <3>1, <3>2 DEF RowsSound
    <2> QED
        BY <2>6, <2>7 DEF Base
<1>2. ASSUME NEW c \in Clients, Record(c)
      PROVE  Base'
    <2> DEFINE f == Recorded(c)
    <2>1. f \in Event /\ f.at \in Nat /\ f.id = lastId + 1 /\ f.at =< now
          /\ job.created =< f.at /\ events' = events \cup {f} /\ f.type = sent[c].type
          /\ f.at = sent[c].at /\ f.type \in EventType
          /\ lastId < MaxEvents
        BY <1>2, RecordedEvent
    <2>2. InProgress' = InProgress \ {c} /\ c \in InProgress
          /\ \A d \in InProgress' : sent'[d] = sent[d]
        BY <1>2, RecordedEvent
    <2> HIDE DEF f
    <2>3. Cardinality(InProgress') = Cardinality(InProgress) - 1
        BY <2>2, RequestsFinite, FS_RemoveElement
    <2>4. lastId' = lastId + 1 /\ now' = now /\ job' = job
          /\ sent' = [sent EXCEPT ![c] = NoSignal]
          /\ UNCHANGED <<enabled, pruning>>
        BY <1>2 DEF Record
    <2>5. TypeOK'
        <3>1. sent' \in [Clients -> Signal \cup {NoSignal}]
            BY <1>0, <2>4 DEF TypeOK
        <3>2. \A d \in Clients : sent'[d].at =< now
            BY <1>0, <2>4, NoSignalStamp DEF TypeOK
        <3>3. newest' \in [EventType -> Time \cup {Never}]
            <4>1. sent[c].at \in Time
                BY <1>0, <2>2, SignalType DEF Signal
            <4> QED
                BY <1>0, <1>2, <4>1 DEF Record, TypeOK
        <3>4. lastId' \in 0..MaxEvents
            BY <1>0, <2>1, <2>4, Constants
        <3> QED
            BY <1>0, <2>1, <2>4, <3>1, <3>2, <3>3, <3>4 DEF TypeOK
    <2>6. RowsSound'
        <3>1. IsFiniteSet(events')
            BY <1>0, <2>1, FS_AddElement DEF RowsSound
        <3>2. lastId' + Cardinality(InProgress') =< MaxEvents
            BY <1>0, <2>3, <2>4, Constants, RequestsFinite DEF RowsSound
        <3>3. \A e \in events' : e.id =< lastId'
            BY <1>0, <2>1, <2>4, EventTypes DEF RowsSound
        <3>4. \A e, g \in events' : e.id = g.id => e = g
            BY <1>0, <2>1, EventTypes DEF RowsSound
        <3>5. \A e \in events' : job'.created =< e.at
            BY <1>0, <2>1, <2>4 DEF RowsSound
        <3>6. \A d \in InProgress' :
                job'.created =< sent'[d].at /\ now' - sent'[d].at =< MaxDelay
            BY <1>0, <2>2, <2>4 DEF RowsSound
        <3> QED
            BY <1>0, <2>4, <3>1, <3>2, <3>3, <3>4, <3>5, <3>6 DEF RowsSound
    <2> QED
        BY <2>5, <2>6 DEF Base
<1>3. ASSUME NEW c \in Clients, Refuse(c)
      PROVE  Base'
    <2>1. sent' = [sent EXCEPT ![c] = NoSignal]
          /\ UNCHANGED <<job, now, enabled, events, lastId, pruning, newest>>
        BY <1>3 DEF Refuse
    <2>2. InProgress' = InProgress \ {c} /\ \A d \in InProgress' : sent'[d] = sent[d]
        BY <1>0, <2>1 DEF InProgress, TypeOK
    <2>3. Cardinality(InProgress') =< Cardinality(InProgress)
          /\ Cardinality(InProgress') \in Nat
        <3>1. InProgress' \in SUBSET InProgress
            BY <2>2
        <3> QED
            BY <3>1, RequestsFinite, FS_Subset, FS_CardinalityType
    <2>4. TypeOK'
        <3>1. sent' \in [Clients -> Signal \cup {NoSignal}]
            BY <1>0, <2>1 DEF TypeOK
        <3>2. \A d \in Clients : sent'[d].at =< now
            BY <1>0, <2>1, NoSignalStamp DEF TypeOK
        <3> QED
            BY <1>0, <2>1, <3>1, <3>2 DEF TypeOK
    <2>5. RowsSound'
        <3>1. lastId' + Cardinality(InProgress') =< MaxEvents
            BY <1>0, <2>1, <2>3, Constants, RequestsFinite DEF RowsSound
        <3>2. \A d \in InProgress' :
                job'.created =< sent'[d].at /\ now' - sent'[d].at =< MaxDelay
            BY <1>0, <2>1, <2>2 DEF RowsSound
        <3> QED
            BY <1>0, <2>1, <3>1, <3>2 DEF RowsSound
    <2> QED
        BY <2>4, <2>5 DEF Base
<1>4. CASE BeginPrune
    <2>1. UNCHANGED <<job, now, enabled, events, lastId, sent, newest>>
        BY <1>4 DEF BeginPrune
    <2>2. pruning'.cutoff \in Int /\ pruning'.keep \subseteq events
        BY <1>0, <1>4, Constants DEF BeginPrune, Protected, Unmatched, OfType
    <2>3. TypeOK'
        BY <1>0, <2>1, <2>2 DEF TypeOK
    <2>4. RowsSound'
        BY <1>0, <2>1 DEF RowsSound, InProgress
    <2> QED
        BY <2>3, <2>4 DEF Base
<1>5. CASE FinishPrune
    <2>1. /\ events' \subseteq events
          /\ pruning' = NotPruning
          /\ UNCHANGED <<job, now, enabled, lastId, sent, newest>>
        BY <1>5 DEF FinishPrune
    <2>2. TypeOK'
        BY <1>0, <2>1 DEF TypeOK, NotPruning, Never
    <2>3. IsFiniteSet(events')
        BY <1>0, <2>1, FS_Subset DEF RowsSound
    <2>4. RowsSound'
        BY <1>0, <2>1, <2>3 DEF RowsSound, InProgress
    <2> QED
        BY <2>2, <2>4 DEF Base
<1>6. CASE PauseOrResume
    <2>1. TypeOK'
        BY <1>0, <1>6 DEF PauseOrResume, TypeOK
    <2>2. RowsSound'
        BY <1>0, <1>6 DEF PauseOrResume, RowsSound, InProgress
    <2> QED
        BY <2>1, <2>2 DEF Base
<1>7. CASE Tick
    <2>1. now' = now + 1 /\ now' \in Time
        BY <1>0, <1>7, Constants DEF Tick, Time
    <2>2. UNCHANGED <<job, enabled, events, lastId, sent, pruning, newest>>
        BY <1>7 DEF Tick
    <2>3. \A e \in events : e.at \in Nat /\ e.at =< now
        BY <1>0, EventTypes DEF TypeOK
    <2>4. \A c \in Clients : sent[c].at \in Int /\ sent[c].at =< now
        <3> SUFFICES ASSUME NEW c \in Clients
                     PROVE  sent[c].at \in Int /\ sent[c].at =< now
            OBVIOUS
        <3>1. sent[c].at =< now
            BY <1>0 DEF TypeOK
        <3>2. CASE c \in InProgress
            <4>1. sent[c].at \in Nat
                BY <1>0, <3>2, SignalType
            <4> QED
                BY <3>1, <4>1
        <3>3. CASE c \notin InProgress
            BY <3>1, <3>3, NoSignalStamp DEF InProgress
        <3> QED
            BY <3>2, <3>3
    <2>5. TypeOK'
        BY <1>0, <2>1, <2>2, <2>3, <2>4 DEF TypeOK
    <2>6. InProgress' = InProgress
        BY <2>2 DEF InProgress
    <2>7. \A c \in InProgress : now' - sent'[c].at =< MaxDelay
        <3> SUFFICES ASSUME NEW c \in InProgress PROVE now' - sent'[c].at =< MaxDelay
            OBVIOUS
        <3>1. now - sent[c].at < MaxDelay
            BY <1>7 DEF Tick
        <3>2. sent[c].at \in Nat
            BY <1>0, SignalType
        <3> QED
            BY <1>0, <2>1, <2>2, <3>1, <3>2, Constants
    <2>8. job'.created =< now'
        BY <1>0, <2>1, <2>2, JobType DEF RowsSound
    <2>9. RowsSound'
        BY <1>0, <2>2, <2>6, <2>7, <2>8 DEF RowsSound
    <2> QED
        BY <2>5, <2>9 DEF Base
<1>8. CASE UNCHANGED vars
    <2>1. TypeOK'
        BY <1>0, <1>8 DEF vars, TypeOK
    <2>2. RowsSound'
        BY <1>0, <1>8 DEF vars, RowsSound, InProgress
    <2> QED
        BY <2>1, <2>2 DEF Base
<1> QED
    BY <1>1, <1>2, <1>3, <1>4, <1>5, <1>6, <1>7, <1>8, Steps DEF Base

LEMMA BaseInvariant == Spec => []Base
BY BaseInit, BaseNext, PTL DEF Spec

\* Rows and requests keep their types, and none is stamped ahead of the clock.
THEOREM JobTypes == Spec => []TypeOK
<1>1. Base => TypeOK
    BY DEF Base
<1> QED
    BY <1>1, BaseInvariant, PTL

-----------------------------------------------------------------------------
(* Identities. *)

\* No two rows carry the same identity, whichever retries overlap.
THEOREM IdentityOnce == Spec => []KeysUnique
<1>1. Init => KeysUnique
    BY DEF Init, KeysUnique
<1>2. Base /\ KeysUnique /\ [Next]_vars => KeysUnique'
    <2> SUFFICES ASSUME Base, KeysUnique, [Next]_vars PROVE KeysUnique'
        OBVIOUS
    <2>1. ASSUME NEW c \in Clients, Record(c) PROVE KeysUnique'
        <3> DEFINE f == Recorded(c)
        <3>1. events' = events \cup {f} /\ f.key = sent[c].key
            BY <2>1, RecordedEvent
        <3>2. sent[c].key # "" => \A e \in events : e.key # sent[c].key
            BY <2>1 DEF Record, Known
        <3> HIDE DEF f
        <3> QED
            BY <3>1, <3>2 DEF KeysUnique
    <2>2. CASE events' \subseteq events
        BY <2>2 DEF KeysUnique
    <2> QED
        BY <2>1, <2>2, Steps
        DEF Base, Stamps, Refuse, BeginPrune, FinishPrune, PauseOrResume, Tick, vars
<1> QED
    BY <1>1, <1>2, BaseInvariant, PTL DEF Spec

-----------------------------------------------------------------------------
(* The rate limit. *)

LEMMA MinuteFinite ==
    ASSUME Base, NEW e
    PROVE  /\ IsFiniteSet(InMinuteOf(e)) /\ Cardinality(InMinuteOf(e)) \in Nat
           /\ IsFiniteSet(Overtaking(e)) /\ Cardinality(Overtaking(e)) \in Nat
<1>1. InMinuteOf(e) \in SUBSET events /\ Overtaking(e) \in SUBSET InProgress
    BY DEF InMinuteOf, Overtaking
<1> QED
    BY <1>1, RequestsFinite, FS_Subset, FS_CardinalityType DEF Base, RowsSound

\* Where neither the minute nor the requests it may still gather grow.
LEMMA MinuteShrinks ==
    ASSUME Base, Base', NEW e,
           InMinuteOf(e)' \subseteq InMinuteOf(e),
           Overtaking(e)' \subseteq Overtaking(e),
           Cardinality(InMinuteOf(e)) + Cardinality(Overtaking(e))
               < MaxPerMinute + Cardinality(Clients)
    PROVE  Cardinality(InMinuteOf(e)') + Cardinality(Overtaking(e)')
               < MaxPerMinute + Cardinality(Clients)
<1>1. Cardinality(InMinuteOf(e)') =< Cardinality(InMinuteOf(e))
      /\ Cardinality(InMinuteOf(e)') \in Nat
    BY MinuteFinite, FS_Subset, FS_CardinalityType
<1>2. Cardinality(Overtaking(e)') =< Cardinality(Overtaking(e))
      /\ Cardinality(Overtaking(e)') \in Nat
    BY MinuteFinite, FS_Subset, FS_CardinalityType
<1> QED
    BY <1>1, <1>2, MinuteFinite, Constants

\* Just after an event of e's stamp was recorded, its client has no request and
\* the minute had room.
LEMMA MinuteRecorded ==
    ASSUME Base, NEW c \in Clients, Record(c), NEW e, e.at = sent[c].at
    PROVE  Cardinality(InMinuteOf(e)') + Cardinality(Overtaking(e)')
               < MaxPerMinute + Cardinality(Clients)
<1> DEFINE f == Recorded(c)
<1>1. f.at = sent[c].at /\ f \notin events /\ events' = events \cup {f}
      /\ InProgress' = InProgress \ {c} /\ c \in InProgress
    BY RecordedEvent
<1>2. f.at \in Nat
    BY RecordedEvent
<1> HIDE DEF f
<1>3. InMinuteOf(e)' \subseteq InMinuteOf(e) \cup {f}
    BY <1>1 DEF InMinuteOf
<1>4. Cardinality(InMinuteOf(e)) < MaxPerMinute
    <2>1. ~(Cardinality(InMinuteOf(e)) >= MaxPerMinute)
        BY DEF Record, RateLimited, InMinuteOf
    <2> QED
        BY <2>1, MinuteFinite, Constants
<1>5. Cardinality(InMinuteOf(e)') =< MaxPerMinute /\ Cardinality(InMinuteOf(e)') \in Nat
    <2>1. f \notin InMinuteOf(e)
        BY <1>1 DEF InMinuteOf
    <2>2. IsFiniteSet(InMinuteOf(e) \cup {f})
          /\ Cardinality(InMinuteOf(e) \cup {f}) = Cardinality(InMinuteOf(e)) + 1
        BY <2>1, MinuteFinite, FS_AddElement
    <2>3. Cardinality(InMinuteOf(e)') =< Cardinality(InMinuteOf(e)) + 1
          /\ Cardinality(InMinuteOf(e)') \in Nat
        BY <1>3, <2>2, FS_Subset, FS_CardinalityType
    <2> QED
        BY <1>4, <2>3, MinuteFinite, Constants
<1>6. Cardinality(Overtaking(e)') < Cardinality(Clients)
      /\ Cardinality(Overtaking(e)') \in Nat
    <2>1. Overtaking(e)' \in SUBSET (Clients \ {c})
        BY <1>1 DEF Overtaking, InProgress
    <2>2. IsFiniteSet(Clients \ {c})
          /\ Cardinality(Clients \ {c}) = Cardinality(Clients) - 1
        BY Constants, FS_RemoveElement
    <2>3. Cardinality(Overtaking(e)') =< Cardinality(Clients) - 1
          /\ Cardinality(Overtaking(e)') \in Nat
        BY <2>1, <2>2, FS_Subset, FS_CardinalityType
    <2> QED
        BY <2>3, Constants
<1> QED
    BY <1>5, <1>6, Constants

LEMMA MinuteNext == Base /\ MinuteBounded /\ [Next]_vars => MinuteBounded'
<1> SUFFICES ASSUME Base, MinuteBounded, [Next]_vars PROVE MinuteBounded'
    OBVIOUS
<1>0. TypeOK /\ RowsSound /\ now \in Nat /\ Base'
    BY BaseNext, Constants DEF Base, TypeOK, Time
<1>1. ASSUME NEW e \in events,
             InMinuteOf(e)' \subseteq InMinuteOf(e),
             Overtaking(e)' \subseteq Overtaking(e)
      PROVE  Cardinality(InMinuteOf(e)') + Cardinality(Overtaking(e)')
               < MaxPerMinute + Cardinality(Clients)
    BY <1>0, <1>1, MinuteShrinks DEF MinuteBounded
<1>2. ASSUME events' \subseteq events, InProgress' \subseteq InProgress,
             \A d \in InProgress' : sent'[d] = sent[d]
      PROVE  MinuteBounded'
    <2> SUFFICES ASSUME NEW e \in events'
                 PROVE  Cardinality(InMinuteOf(e)') + Cardinality(Overtaking(e)')
                            < MaxPerMinute + Cardinality(Clients)
        BY DEF MinuteBounded, InMinuteOf, Overtaking, InProgress
    <2>1. InMinuteOf(e)' \subseteq InMinuteOf(e)
        BY <1>2 DEF InMinuteOf
    <2>2. Overtaking(e)' \subseteq Overtaking(e)
        BY <1>2 DEF Overtaking
    <2> QED
        BY <1>1, <1>2, <2>1, <2>2
<1>3. ASSUME NEW c \in Clients, Stamps(c) PROVE MinuteBounded'
    <2>1. PICK s \in Signal : s.at = now /\ sent' = [sent EXCEPT ![c] = s]
        BY <1>3 DEF Stamps
    <2>2. events' = events /\ sent[c] = NoSignal
        BY <1>3 DEF Stamps
    <2>3. InProgress' \subseteq InProgress \cup {c}
        BY <1>0, <2>1, <2>2 DEF InProgress, TypeOK
    <2>4. \A d \in InProgress' : d # c => sent'[d] = sent[d]
        BY <1>0, <2>1 DEF InProgress, TypeOK
    <2>5. c \in Clients /\ sent'[c] = s
        BY <1>0, <2>1 DEF TypeOK
    <2> SUFFICES ASSUME NEW e \in events'
                 PROVE  Cardinality(InMinuteOf(e)') + Cardinality(Overtaking(e)')
                            < MaxPerMinute + Cardinality(Clients)
        BY DEF MinuteBounded, InMinuteOf, Overtaking, InProgress
    <2>6. InMinuteOf(e)' \subseteq InMinuteOf(e)
        BY <2>2 DEF InMinuteOf
    <2>7. e.at \in Nat /\ e.at =< now
        BY <1>0, <2>2, EventTypes DEF TypeOK
    <2>8. Overtaking(e)' \subseteq Overtaking(e)
        BY <1>0, <2>1, <2>3, <2>4, <2>5, <2>7 DEF Overtaking
    <2> QED
        BY <1>1, <2>2, <2>6, <2>8
<1>4. ASSUME NEW c \in Clients, Record(c) PROVE MinuteBounded'
    <2> DEFINE f == Recorded(c)
    <2>1. f.at = sent[c].at /\ f \notin events /\ events' = events \cup {f}
          /\ InProgress' = InProgress \ {c} /\ c \in InProgress
          /\ \A d \in InProgress' : sent'[d] = sent[d]
        BY <1>4, RecordedEvent
    <2>2. f.at \in Nat
        BY <1>4, RecordedEvent
    <2> HIDE DEF f
    <2> SUFFICES ASSUME NEW e \in events'
                 PROVE  Cardinality(InMinuteOf(e)') + Cardinality(Overtaking(e)')
                            < MaxPerMinute + Cardinality(Clients)
        BY DEF MinuteBounded, InMinuteOf, Overtaking, InProgress
    <2>3. CASE e.at = sent[c].at
        BY <1>4, <2>3, MinuteRecorded
    <2>4. CASE e.at # sent[c].at
        <3>1. e \in events /\ e.at \in Nat
            BY <1>0, <2>1, <2>4, EventTypes
        <3>2. CASE ~(e.at - Minute =< f.at /\ f.at =< e.at)
            <4>1. InMinuteOf(e)' \subseteq InMinuteOf(e)
                BY <2>1, <3>2 DEF InMinuteOf
            <4>2. Overtaking(e)' \subseteq Overtaking(e)
                BY <2>1 DEF Overtaking
            <4> QED
                BY <1>1, <3>1, <4>1, <4>2
        <3>3. CASE e.at - Minute =< f.at /\ f.at =< e.at
            <4>1. f.at < e.at
                BY <2>1, <2>2, <2>4, <3>1, <3>3
            <4>2. c \in Overtaking(e) /\ Overtaking(e)' \subseteq Overtaking(e) \ {c}
                BY <2>1, <3>3, <4>1 DEF Overtaking
            <4>3. InMinuteOf(e)' \subseteq InMinuteOf(e) \cup {f} /\ f \notin InMinuteOf(e)
                BY <2>1 DEF InMinuteOf
            <4>4. Cardinality(Overtaking(e)') =< Cardinality(Overtaking(e)) - 1
                  /\ Cardinality(Overtaking(e)') \in Nat
                BY <4>2, MinuteFinite, FS_RemoveElement, FS_Subset, FS_CardinalityType
            <4>5. Cardinality(InMinuteOf(e)') =< Cardinality(InMinuteOf(e)) + 1
                  /\ Cardinality(InMinuteOf(e)') \in Nat
                <5>1. IsFiniteSet(InMinuteOf(e) \cup {f}) /\
                      Cardinality(InMinuteOf(e) \cup {f}) = Cardinality(InMinuteOf(e)) + 1
                    BY <4>3, MinuteFinite, FS_AddElement
                <5> QED
                    BY <4>3, <5>1, FS_Subset, FS_CardinalityType
            <4>6. Cardinality(InMinuteOf(e)) + Cardinality(Overtaking(e))
                      < MaxPerMinute + Cardinality(Clients)
                BY <3>1 DEF MinuteBounded
            <4> QED
                BY <4>4, <4>5, <4>6, MinuteFinite, Constants
        <3> QED
            BY <3>2, <3>3
    <2> QED
        BY <2>3, <2>4
<1>5. ASSUME NEW c \in Clients, Refuse(c) PROVE MinuteBounded'
    <2>1. sent' = [sent EXCEPT ![c] = NoSignal] /\ events' = events
        BY <1>5 DEF Refuse
    <2>2. InProgress' \subseteq InProgress /\ \A d \in InProgress' : sent'[d] = sent[d]
        BY <1>0, <2>1 DEF InProgress, TypeOK
    <2> QED
        BY <1>2, <2>1, <2>2
<1>6. CASE BeginPrune \/ FinishPrune \/ PauseOrResume \/ Tick \/ UNCHANGED vars
    <2>1. events' \subseteq events /\ sent' = sent
        BY <1>6 DEF BeginPrune, FinishPrune, PauseOrResume, Tick, vars
    <2>2. InProgress' = InProgress
        BY <2>1 DEF InProgress
    <2> QED
        BY <1>2, <2>1, <2>2
<1> QED
    BY <1>0, <1>3, <1>4, <1>5, <1>6, Steps

\* The limit of a minute is overrun by fewer events than there are clients: by
\* no more than the requests that were waiting when its last event was stamped.
THEOREM RateOverrun == Spec => []RateNearlyKept
<1>1. Init => MinuteBounded
    BY DEF Init, MinuteBounded
<1>2. Base /\ MinuteBounded => RateNearlyKept
    <2> SUFFICES ASSUME Base, MinuteBounded, NEW e \in events
                 PROVE  Cardinality({f \in events : e.at - Minute =< f.at /\ f.at =< e.at})
                            < MaxPerMinute + Cardinality(Clients)
        BY DEF RateNearlyKept
    <2>1. Cardinality(InMinuteOf(e)) + Cardinality(Overtaking(e))
              < MaxPerMinute + Cardinality(Clients)
        BY DEF MinuteBounded
    <2>2. Cardinality(InMinuteOf(e)) < MaxPerMinute + Cardinality(Clients)
        BY <2>1, MinuteFinite, Constants
    <2> QED
        BY <2>2 DEF InMinuteOf
<1> QED
    BY <1>1, <1>2, MinuteNext, BaseInvariant, PTL DEF Spec

\* What job_rate shows to fail needs requests that overlap: signals that wait for
\* one another never take a minute over its limit.
THEOREM RateInTurn ==
    ASSUME Cardinality(Clients) = 1
    PROVE  Spec => []RateKept
<1>1. Base /\ RateNearlyKept => RateKept
    <2> SUFFICES ASSUME Base, RateNearlyKept, NEW e \in events
                 PROVE  Cardinality({f \in events : e.at - Minute =< f.at /\ f.at =< e.at})
                            =< MaxPerMinute
        BY DEF RateKept
    <2>1. Cardinality(InMinuteOf(e)) < MaxPerMinute + 1
        BY DEF RateNearlyKept, InMinuteOf
    <2>2. Cardinality(InMinuteOf(e)) \in Nat /\ MaxPerMinute \in Nat
        BY MinuteFinite, Constants, FS_CardinalityType
    <2> QED
        BY <2>1, <2>2 DEF InMinuteOf
<1> QED
    BY <1>1, RateOverrun, BaseInvariant, PTL

-----------------------------------------------------------------------------
(* What the evaluation looks at. *)

Rows(evs) ==
    /\ evs \subseteq Event
    /\ IsFiniteSet(evs)
    /\ \A e, f \in evs : e.id = f.id => e = f

NoLater(f, e) == f.at < e.at \/ (f.at = e.at /\ f.id =< e.id)

LEMMA RowsOfEvents == Base => Rows(events)
BY DEF Base, TypeOK, RowsSound, Rows

LEMMA RowFields ==
    ASSUME NEW evs, Rows(evs), NEW e \in evs
    PROVE  e.at \in Nat /\ e.id \in Nat /\ e.type \in EventType
<1>1. e \in Event
    BY DEF Rows
<1>2. Time \subseteq Nat /\ 1..MaxEvents \subseteq Nat
    BY Constants DEF Time
<1> QED
    BY <1>1, <1>2 DEF Event

LEMMA SomeRows ==
    ASSUME NEW evs, Rows(evs), NEW types
    PROVE  OfType(evs, types) \subseteq evs /\ Rows(OfType(evs, types))
<1>1. OfType(evs, types) \in SUBSET evs
    BY DEF OfType
<1> QED
    BY <1>1, FS_Subset DEF Rows

\* Of any rows there is a latest one, and only one.
LEMMA LatestExists ==
    ASSUME NEW evs, Rows(evs), evs # {}
    PROVE  Latest(evs) \in evs /\ \A f \in evs : NoLater(f, Latest(evs))
<1> DEFINE Ordered == {p \in evs \X evs : NoLater(p[1], p[2])}
<1>1. \A x, y \in evs : <<x, y>> \in Ordered <=> NoLater(x, y)
    OBVIOUS
<1> HIDE DEF Ordered
<1>2. \A x, y \in evs : NoLater(x, y) \/ NoLater(y, x)
    BY RowFields DEF NoLater
<1>3. \A x, y, z \in evs : NoLater(x, y) /\ NoLater(y, z) => NoLater(x, z)
    BY RowFields DEF NoLater
<1>4. Total(Ordered, evs) /\ Transitive(Ordered, evs)
    BY <1>1, <1>2, <1>3 DEF Total, Transitive
<1>5. PICK m : Greatest(m, Ordered, evs)
    BY <1>4, FiniteGreatest DEF Rows
<1>6. m \in evs /\ \A f \in evs : NoLater(f, m)
    BY <1>1, <1>5 DEF Greatest
<1> QED
    BY <1>6 DEF Latest, NoLater

LEMMA LatestIs ==
    ASSUME NEW evs, Rows(evs), NEW e \in evs, \A f \in evs : NoLater(f, e)
    PROVE  Latest(evs) = e
<1>1. Latest(evs) \in evs /\ NoLater(e, Latest(evs)) /\ NoLater(Latest(evs), e)
    BY LatestExists
<1>2. Latest(evs).id = e.id
    BY <1>1, RowFields DEF NoLater
<1> QED
    BY <1>1, <1>2 DEF Rows

\* Fewer rows with the latest still among them have the same latest.
LEMMA LatestKept ==
    ASSUME NEW evs, Rows(evs), NEW kept, kept \subseteq evs, Rows(kept),
           Latest(evs) \in kept, evs # {}
    PROVE  Latest(kept) = Latest(evs)
<1>1. \A f \in kept : NoLater(f, Latest(evs))
    BY LatestExists
<1> QED
    BY <1>1, LatestIs

LEMMA UnmatchedIs ==
    ASSUME NEW evs, NEW e
    PROVE  e \in Unmatched(evs) <=>
              /\ e \in OfType(evs, {"START"})
              /\ e = Latest(OfType(evs, {"START"}))
              /\ \A f \in OfType(evs, Terminal) : f.at < e.at
BY DEF Unmatched

\* The evaluation is the same with and without rows that are not protected.
LEMMA ProtectedSuffice ==
    ASSUME NEW evs, Rows(evs), NEW kept, kept \subseteq evs,
           Protected(evs) \subseteq kept,
           NEW j, NEW t
    PROVE  Phase(j, kept, t) = Phase(j, evs, t)
<1> DEFINE starts == OfType(evs, {"START"})
           ended == OfType(evs, Terminal)
           starts2 == OfType(kept, {"START"})
           ended2 == OfType(kept, Terminal)
<1>1. Rows(kept)
    <2>1. kept \in SUBSET evs
        OBVIOUS
    <2> QED
        BY <2>1, FS_Subset DEF Rows
<1>2. Rows(starts) /\ Rows(ended) /\ Rows(starts2) /\ Rows(ended2)
    BY <1>1, SomeRows
<1>3. /\ starts2 \subseteq starts /\ ended2 \subseteq ended
      /\ starts \subseteq evs /\ ended \subseteq evs
      /\ \A e \in starts : e \in kept => e \in starts2
      /\ \A e \in ended : e \in kept => e \in ended2
    BY DEF OfType
<1>4. ended # {} => Latest(ended) \in ended2
    <2> SUFFICES ASSUME ended # {} PROVE Latest(ended) \in ended2
        OBVIOUS
    <2>1. Latest(ended) \in ended
        BY <1>2, LatestExists
    <2>2. Latest(ended) \in Protected(evs)
        BY <2>1 DEF Protected
    <2>3. Latest(ended) \in kept
        BY <2>2
    <2> QED
        BY <2>1, <2>3 DEF OfType
<1>5. Unmatched(evs) \subseteq starts2
    <2>1. Unmatched(evs) \subseteq starts /\ Unmatched(evs) \subseteq kept
        BY DEF Unmatched, Protected
    <2> QED
        BY <1>3, <2>1
<1>6. (ended # {}) <=> (ended2 # {})
    BY <1>3, <1>4
<1>7. ended # {} => Latest(ended2) = Latest(ended)
    BY <1>2, <1>3, <1>4, LatestKept
<1> HIDE DEF starts, ended, starts2, ended2
<1>8. Unmatched(evs) = Unmatched(kept)
    <2>1. ASSUME NEW e \in Unmatched(evs) PROVE e \in Unmatched(kept)
        <3>1. e \in starts2 /\ e = Latest(starts) /\ starts # {}
            BY <1>3, <1>5, <2>1, UnmatchedIs DEF starts
        <3>2. e = Latest(starts2)
            BY <1>2, <1>3, <3>1, LatestKept
        <3>3. \A f \in ended2 : f.at < e.at
            BY <1>3, <2>1, UnmatchedIs DEF ended
        <3> QED
            BY <3>1, <3>2, <3>3, UnmatchedIs DEF starts2, ended2
    <2>2. ASSUME NEW e \in Unmatched(kept) PROVE e \in Unmatched(evs)
        <3>1. e \in starts2 /\ e = Latest(starts2) /\ \A f \in ended2 : f.at < e.at
            BY <2>2, UnmatchedIs DEF starts2, ended2
        <3>2. e \in starts /\ e \in evs /\ e.at \in Nat
            BY <1>3, <3>1, RowFields
        <3>3. \A f \in ended : f.at < e.at
            <4> SUFFICES ASSUME NEW f \in ended PROVE f.at < e.at
                OBVIOUS
            <4>1. Latest(ended) \in ended /\ NoLater(f, Latest(ended))
                BY <1>2, LatestExists
            <4>2. Latest(ended).at < e.at
                BY <1>4, <3>1
            <4>3. f.at \in Nat /\ Latest(ended).at \in Nat
                BY <1>2, <4>1, RowFields
            <4> QED
                BY <3>2, <4>1, <4>2, <4>3 DEF NoLater
        <3>4. e = Latest(starts)
            <4>1. Latest(starts) \in starts /\ NoLater(e, Latest(starts))
                BY <1>2, <3>2, LatestExists
            <4>2. Latest(starts).at \in Nat
                BY <1>2, <4>1, RowFields
            <4>3. \A f \in ended : f.at < Latest(starts).at
                <5> SUFFICES ASSUME NEW f \in ended PROVE f.at < Latest(starts).at
                    OBVIOUS
                <5>1. f.at \in Nat
                    BY <1>2, RowFields
                <5> QED
                    BY <3>2, <3>3, <4>1, <4>2, <5>1 DEF NoLater
            <4>4. Latest(starts) \in Unmatched(evs)
                BY <4>1, <4>3, UnmatchedIs DEF starts, ended
            <4>5. Latest(starts) \in starts2
                BY <1>5, <4>4
            <4> QED
                BY <1>2, <1>3, <3>1, <3>2, <4>5, LatestKept
        <3> QED
            BY <3>2, <3>3, <3>4, UnmatchedIs DEF starts, ended
    <2> QED
        BY <2>1, <2>2
<1>9. LastSuccess(evs) = LastSuccess(kept)
    BY <1>6, <1>7 DEF LastSuccess, ended, ended2
<1>10. (OfType(evs, Terminal) # {}) = (OfType(kept, Terminal) # {})
    BY <1>6 DEF ended, ended2
<1> QED
    BY <1>8, <1>9, <1>10 DEF Phase

\* A new row protects no row that was not protected.
LEMMA ProtectedGrows ==
    ASSUME NEW evs, Rows(evs), NEW f, Rows(evs \cup {f})
    PROVE  Protected(evs \cup {f}) \subseteq Protected(evs) \cup {f}
<1> DEFINE more == evs \cup {f}
<1>1. ASSUME NEW types, NEW e \in evs, e \in OfType(more, types),
             e = Latest(OfType(more, types))
      PROVE  e \in OfType(evs, types) /\ e = Latest(OfType(evs, types))
    <2>1. e \in OfType(evs, types) /\ OfType(evs, types) \subseteq OfType(more, types)
        BY <1>1 DEF OfType
    <2>2. Rows(OfType(evs, types)) /\ Rows(OfType(more, types))
        BY SomeRows
    <2> QED
        BY <1>1, <2>1, <2>2, LatestKept
<1> SUFFICES ASSUME NEW e \in Protected(more), e # f
             PROVE  e \in Protected(evs)
    OBVIOUS
<1>2. CASE e \in OfType(more, Terminal) /\ e = Latest(OfType(more, Terminal))
    <2>1. e \in evs
        BY <1>2 DEF OfType
    <2> QED
        BY <1>1, <1>2, <2>1 DEF Protected
<1>3. CASE e \in Unmatched(more)
    <2>1. e \in OfType(more, {"START"}) /\ e = Latest(OfType(more, {"START"}))
          /\ \A g \in OfType(more, Terminal) : g.at < e.at
        BY <1>3, UnmatchedIs
    <2>2. e \in evs /\ OfType(evs, Terminal) \subseteq OfType(more, Terminal)
        BY <2>1 DEF OfType
    <2>3. /\ e \in OfType(evs, {"START"})
          /\ e = Latest(OfType(evs, {"START"}))
          /\ \A g \in OfType(evs, Terminal) : g.at < e.at
        BY <1>1, <2>1, <2>2
    <2>4. e \in Unmatched(evs)
        BY <2>3, UnmatchedIs
    <2> QED
        BY <2>4 DEF Protected
<1> QED
    BY <1>2, <1>3 DEF Protected

\* A START or a completion is protected, or a later one or a completion is.
LEMMA ProtectedCover ==
    ASSUME NEW evs, Rows(evs), NEW t \in Terminal \cup {"START"},
           NEW e \in OfType(evs, Terminal \cup {t})
    PROVE  \E p \in Protected(evs) :
              p \in OfType(evs, Terminal \cup {t}) /\ p.at >= e.at
<1>1. e \in evs /\ e.at \in Nat
    BY RowFields DEF OfType
<1>2. ASSUME NEW f \in OfType(evs, Terminal), f.at >= e.at
      PROVE  \E p \in Protected(evs) :
                p \in OfType(evs, Terminal \cup {t}) /\ p.at >= e.at
    <2> DEFINE p == Latest(OfType(evs, Terminal))
    <2>1. Rows(OfType(evs, Terminal))
        BY SomeRows
    <2>2. p \in OfType(evs, Terminal) /\ NoLater(f, p)
        BY <2>1, LatestExists
    <2>3. p.at \in Nat /\ f.at \in Nat
        BY <2>1, <2>2, RowFields
    <2>4. p \in Protected(evs) /\ p \in OfType(evs, Terminal \cup {t})
        BY <2>2 DEF Protected, OfType
    <2>5. p.at >= e.at
        BY <1>1, <1>2, <2>2, <2>3 DEF NoLater
    <2> QED
        BY <2>4, <2>5
<1>3. CASE e \in OfType(evs, Terminal)
    <2>1. e.at >= e.at
        BY <1>1
    <2> QED
        BY <1>2, <1>3, <2>1
<1>4. CASE e \notin OfType(evs, Terminal)
    <2> DEFINE s == Latest(OfType(evs, {"START"}))
    <2>1. t = "START" /\ e \in OfType(evs, {"START"})
        BY <1>4 DEF OfType, Terminal
    <2>2. Rows(OfType(evs, {"START"}))
        BY SomeRows
    <2>3. s \in OfType(evs, {"START"}) /\ NoLater(e, s)
        BY <2>1, <2>2, LatestExists
    <2>4. s.at \in Nat /\ s.at >= e.at
        BY <1>1, <2>2, <2>3, RowFields DEF NoLater
    <2>5. CASE s \in Unmatched(evs)
        <3>1. s \in Protected(evs) /\ s \in OfType(evs, Terminal \cup {t})
            BY <2>1, <2>3, <2>5 DEF Protected, OfType
        <3> QED
            BY <2>4, <3>1
    <2>6. CASE s \notin Unmatched(evs)
        <3>1. PICK f \in OfType(evs, Terminal) : ~(f.at < s.at)
            BY <2>3, <2>6, UnmatchedIs
        <3>2. f.at \in Nat
            BY SomeRows, RowFields
        <3>3. f.at >= e.at
            BY <1>1, <2>4, <3>1, <3>2
        <3> QED
            BY <1>2, <3>3
    <2> QED
        BY <2>5, <2>6
<1> QED
    BY <1>3, <1>4

-----------------------------------------------------------------------------
(* Pruning. *)

LEMMA PruningInit == Init => PruningSafe /\ Remembered
<1> SUFFICES ASSUME Init PROVE PruningSafe /\ Remembered
    OBVIOUS
<1>1. \A t \in Terminal \cup {"START"} : newest[t] = Never
    BY DEF Init, Terminal, EventType
<1> QED
    BY <1>1 DEF Init, PruningSafe, Remembered

LEMMA PruningNext == Base /\ PruningSafe /\ [Next]_vars => PruningSafe'
<1> SUFFICES ASSUME Base, PruningSafe, [Next]_vars PROVE PruningSafe'
    OBVIOUS
<1>0. TypeOK /\ now \in Nat /\ pruning.cutoff \in Int
      /\ Rows(events) /\ Rows(events')
    BY BaseNext, Constants, RowsOfEvents DEF Base, TypeOK, Time, RowsSound, Rows
<1>1. ASSUME NEW c \in Clients, Record(c) PROVE PruningSafe'
    <2> DEFINE f == Recorded(c)
    <2>1. events' = events \cup {f} /\ f.at \in Nat /\ now - f.at =< MaxDelay
        BY <1>1, RecordedEvent
    <2> HIDE DEF f
    <2>2. pruning' = pruning /\ now' = now
        BY <1>1 DEF Record
    <2> SUFFICES ASSUME pruning # NotPruning
                 PROVE  /\ Protected(events') \subseteq Survivors'
                        /\ pruning'.cutoff < now' - MaxDelay
        BY <2>2 DEF PruningSafe
    <2>3. Protected(events) \subseteq Survivors /\ pruning.cutoff < now - MaxDelay
        BY DEF PruningSafe
    <2>4. Protected(events') \subseteq Protected(events) \cup {f}
        BY <1>0, <2>1, ProtectedGrows
    <2>5. f.at >= pruning.cutoff
        BY <1>0, <2>1, <2>3, Constants
    <2>6. f \in Survivors' /\ Survivors \subseteq Survivors'
        BY <2>1, <2>2, <2>5 DEF Survivors
    <2> QED
        BY <2>2, <2>3, <2>4, <2>6
<1>2. CASE BeginPrune
    <2>1. pruning' = [cutoff |-> now - Retention, keep |-> Protected(events)]
          /\ events' = events /\ now' = now
        BY <1>2 DEF BeginPrune
    <2>2. Protected(events) \subseteq events
        BY DEF Protected, OfType, Unmatched
    <2>3. Protected(events') \subseteq Survivors'
        BY <2>1, <2>2 DEF Survivors
    <2>4. pruning'.cutoff < now' - MaxDelay
        BY <1>0, <2>1, Constants
    <2> QED
        BY <2>3, <2>4 DEF PruningSafe
<1>3. CASE FinishPrune
    BY <1>3 DEF FinishPrune, PruningSafe
<1>4. CASE Tick
    <2>1. now' = now + 1 /\ UNCHANGED <<events, pruning>>
        BY <1>4 DEF Tick
    <2>2. Survivors' = Survivors
        BY <2>1 DEF Survivors
    <2> QED
        BY <1>0, <2>1, <2>2, Constants DEF PruningSafe
<1>5. CASE UNCHANGED <<events, pruning, now>>
    BY <1>5 DEF PruningSafe, Survivors
<1> QED
    BY <1>0, <1>1, <1>2, <1>3, <1>4, <1>5, Steps
    DEF Stamps, Refuse, PauseOrResume, vars

\* Pruning changes no evaluation, now or later, though signals are recorded
\* between its two steps and what it keeps was chosen before them.
THEOREM PruningInvisible == Spec => PruneTransparent
<1>1. ASSUME Base, PruningSafe, [Next]_vars,
             pruning # NotPruning /\ pruning' = NotPruning
      PROVE  \A t \in now..MaxTime : Phase(job, events', t) = Phase(job, events, t)
    <2>1. FinishPrune
        <3>1. TypeOK
            BY <1>1 DEF Base
        <3> QED
            BY <1>1, <3>1, Steps
            DEF Stamps, Record, Refuse, BeginPrune, PauseOrResume, Tick, vars
    <2>2. events' = Survivors
        BY <2>1 DEF FinishPrune, Survivors
    <2>3. Survivors \subseteq events /\ Protected(events) \subseteq Survivors
        BY <1>1 DEF Survivors, PruningSafe
    <2> QED
        BY <1>1, <2>2, <2>3, RowsOfEvents, ProtectedSuffice
<1>2. Base /\ PruningSafe /\ [Next]_vars =>
        [pruning # NotPruning /\ pruning' = NotPruning =>
            \A t \in now..MaxTime : Phase(job, events', t) = Phase(job, events, t)]_vars
    BY <1>1
<1> QED
    BY <1>2, PruningInit, PruningNext, BaseInvariant, PTL DEF Spec, PruneTransparent

-----------------------------------------------------------------------------
(* What the rows remember. *)

LEMMA NewestType ==
    ASSUME TypeOK
    PROVE  /\ Never = -1
           /\ \A t \in EventType :
                newest[t] \in Int /\ (newest[t] = Never \/ newest[t] \in Nat)
BY Constants DEF TypeOK, Time, Never

LEMMA RememberedNext ==
    Base /\ PruningSafe /\ Remembered /\ [Next]_vars => Remembered'
<1> SUFFICES ASSUME Base, PruningSafe, Remembered, [Next]_vars PROVE Remembered'
    OBVIOUS
<1>0. TypeOK /\ Rows(events) /\ Terminal \cup {"START"} \subseteq EventType
    BY RowsOfEvents DEF Base, Terminal, EventType
<1>1. ASSUME NEW c \in Clients, Record(c) PROVE Remembered'
    <2> DEFINE f == Recorded(c)
    <2>1. events' = events \cup {f} /\ f.at \in Nat /\ f.at = sent[c].at
          /\ f.type \in EventType /\ f.type = sent[c].type
        BY <1>1, RecordedEvent
    <2> HIDE DEF f
    <2>2. newest' = [newest EXCEPT ![f.type] = IF f.at > @ THEN f.at ELSE @]
        BY <1>1, <2>1 DEF Record
    <2>3. \A t \in EventType :
            newest'[t] = IF t = f.type /\ f.at > newest[t] THEN f.at ELSE newest[t]
        BY <1>0, <2>1, <2>2 DEF TypeOK
    <2>4. \A e \in events' : e.at =< newest'[e.type]
        <3> SUFFICES ASSUME NEW e \in events' PROVE e.at =< newest'[e.type]
            OBVIOUS
        <3>1. CASE e = f
            BY <1>0, <2>1, <2>3, <3>1, NewestType
        <3>2. CASE e \in events
            <4>1. e.at \in Nat /\ e.type \in EventType /\ e.at =< newest[e.type]
                BY <1>0, <3>2, EventTypes DEF Remembered
            <4> QED
                BY <1>0, <2>1, <2>3, <4>1, NewestType
        <3> QED
            BY <2>1, <3>1, <3>2
    <2>5. ASSUME NEW t \in Terminal \cup {"START"}, newest'[t] # Never
          PROVE  \E e \in OfType(events', Terminal \cup {t}) : e.at >= newest'[t]
        <3>1. t \in EventType
            BY <1>0
        <3>2. CASE t = f.type /\ f.at > newest[t]
            <4>1. f \in OfType(events', Terminal \cup {t}) /\ f.at >= newest'[t]
                BY <2>1, <2>3, <3>1, <3>2 DEF OfType
            <4> QED
                BY <4>1
        <3>3. CASE ~(t = f.type /\ f.at > newest[t])
            <4>1. newest'[t] = newest[t]
                BY <2>3, <3>1, <3>3
            <4>2. PICK e \in OfType(events, Terminal \cup {t}) : e.at >= newest[t]
                BY <2>5, <4>1 DEF Remembered
            <4>3. e \in OfType(events', Terminal \cup {t})
                BY <2>1 DEF OfType
            <4> QED
                BY <4>1, <4>2, <4>3
        <3> QED
            BY <3>2, <3>3
    <2> QED
        BY <2>4, <2>5 DEF Remembered
<1>2. CASE FinishPrune
    <2>1. events' = Survivors /\ newest' = newest /\ Protected(events) \subseteq Survivors
        BY <1>2 DEF FinishPrune, Survivors, PruningSafe
    <2>2. \A e \in events' : e.at =< newest'[e.type]
        BY <2>1 DEF Survivors, Remembered
    <2>3. ASSUME NEW t \in Terminal \cup {"START"}, newest[t] # Never
          PROVE  \E e \in OfType(events', Terminal \cup {t}) : e.at >= newest[t]
        <3>1. PICK e \in OfType(events, Terminal \cup {t}) : e.at >= newest[t]
            BY <2>3 DEF Remembered
        <3>2. PICK p \in Protected(events) :
                p \in OfType(events, Terminal \cup {t}) /\ p.at >= e.at
            BY <1>0, <3>1, ProtectedCover
        <3>3. p.at \in Nat /\ e.at \in Nat /\ newest[t] \in Int
            <4>1. p \in events /\ e \in events /\ t \in EventType
                BY <1>0, <3>1, <3>2 DEF OfType
            <4>2. newest[t] \in Int
                BY <1>0, <4>1, NewestType
            <4> QED
                BY <1>0, <4>1, <4>2, EventTypes
        <3>4. p \in OfType(events', Terminal \cup {t})
            BY <2>1, <3>2 DEF OfType
        <3>5. p.at >= newest[t]
            BY <3>1, <3>2, <3>3
        <3> QED
            BY <3>4, <3>5
    <2> QED
        BY <2>1, <2>2, <2>3 DEF Remembered
<1>3. CASE UNCHANGED <<events, newest>>
    BY <1>3 DEF Remembered
<1> QED
    BY <1>0, <1>1, <1>2, <1>3, Steps
    DEF Stamps, Refuse, BeginPrune, PauseOrResume, Tick, vars

LEMMA EvaluationInvariant == Spec => [](Base /\ Remembered)
BY PruningInit, PruningNext, RememberedNext, BaseInvariant, PTL DEF Spec

-----------------------------------------------------------------------------
(* What the evaluation says. *)

\* The branches of evaluate_job_monitor.
LEMMA PhaseBranches ==
    ASSUME NEW j \in Jobs, NEW evs, NEW t
    PROVE  /\ Unmatched(evs) # {} =>
                Phase(j, evs, t) =
                    IF \E e \in Unmatched(evs) : t - e.at > RuntimeLimit(j)
                    THEN "LATE" ELSE "STARTED"
           /\ Unmatched(evs) = {} /\ OfType(evs, Terminal) # {}
                    /\ LastSuccess(evs) = Never =>
                Phase(j, evs, t) = "FAILED"
           /\ Unmatched(evs) = {}
                    /\ (OfType(evs, Terminal) = {} \/ LastSuccess(evs) # Never) =>
                Phase(j, evs, t) =
                    IF j.mode = "CRON" THEN CronPhase(j, LastSuccess(evs), t)
                    ELSE IF j.mode = "ONCALENDAR"
                    THEN CalendarPhase(j, LastSuccess(evs), t)
                    ELSE SimplePhase(j, LastSuccess(evs), t)
<1>1. j.mode \in {"SIMPLE", "CRON", "ONCALENDAR"}
    BY JobType DEF Mode
<1>2. CASE j.mode = "CRON"
    BY <1>2 DEF Phase
<1>3. CASE j.mode = "ONCALENDAR"
    BY <1>3 DEF Phase
<1>4. CASE j.mode = "SIMPLE"
    BY <1>4 DEF Phase
<1> QED
    BY <1>1, <1>2, <1>3, <1>4

\* In those that look at the schedule, the success they start from is the
\* newest there ever was.
LEMMA LastSuccessIsNewest ==
    ASSUME Base, Remembered,
           OfType(events, Terminal) = {} \/ LastSuccess(events) # Never
    PROVE  LastSuccess(events) = newest["SUCCESS"]
<1> DEFINE ended == OfType(events, Terminal)
           latest == Latest(ended)
<1>0. "SUCCESS" \in Terminal /\ "SUCCESS" \in EventType /\ TypeOK
      /\ Terminal \cup {"SUCCESS"} = Terminal
    BY DEF Terminal, EventType, Base
<1>1. newest["SUCCESS"] # Never => \E e \in ended : e.at >= newest["SUCCESS"]
    BY <1>0, Zenon DEF Remembered
<1>2. CASE ended = {}
    BY <1>1, <1>2 DEF LastSuccess
<1>3. CASE ended # {}
    <2>1. latest.type = "SUCCESS" /\ LastSuccess(events) = latest.at
        BY <1>3 DEF LastSuccess
    <2>2. Rows(ended) /\ ended \subseteq events
        BY RowsOfEvents, SomeRows
    <2>3. latest \in ended /\ \A f \in ended : NoLater(f, latest)
        BY <1>3, <2>2, LatestExists
    <2>4. latest.at \in Nat /\ latest.at =< newest["SUCCESS"]
        BY <2>1, <2>2, <2>3, RowFields DEF Remembered
    <2>5. newest["SUCCESS"] \in Int /\ newest["SUCCESS"] # Never
        BY <1>0, <2>4, NewestType
    <2>6. PICK e \in ended : e.at >= newest["SUCCESS"]
        BY <1>1, <2>5
    <2>7. e.at \in Nat /\ NoLater(e, latest)
        BY <2>2, <2>3, RowFields
    <2> QED
        BY <2>1, <2>4, <2>5, <2>6, <2>7 DEF NoLater
<1> QED
    BY <1>2, <1>3

\* A completion is never stamped before its job was created.
LEMMA SuccessAfterCreation ==
    ASSUME Base, LastSuccess(events) # Never
    PROVE  job.created =< LastSuccess(events) /\ LastSuccess(events) \in Nat
<1> DEFINE ended == OfType(events, Terminal)
<1>1. ended # {} /\ LastSuccess(events) = Latest(ended).at
    BY DEF LastSuccess
<1>2. Rows(ended) /\ ended \subseteq events
    BY RowsOfEvents, SomeRows
<1>3. Latest(ended) \in events
    BY <1>1, <1>2, LatestExists
<1> QED
    BY <1>1, <1>3, EventTypes DEF Base, RowsSound

\* An unmatched START is the newest START there ever was, and no completion is
\* as late as it.
LEMMA UnmatchedIsNewest ==
    ASSUME Base, Remembered, NEW e \in Unmatched(events)
    PROVE  newest["START"] = e.at /\ e.at \in Nat /\ RunGoesOn
<1>0. TypeOK /\ "START" \in EventType /\ Terminal \subseteq EventType
    BY DEF Base, Terminal, EventType
<1>1. e \in OfType(events, {"START"}) /\ e = Latest(OfType(events, {"START"}))
      /\ \A f \in OfType(events, Terminal) : f.at < e.at
    BY UnmatchedIs
<1>2. e \in events /\ e.type = "START"
    BY <1>1 DEF OfType
<1>3. e.at \in Nat /\ e.at =< newest["START"]
    BY <1>0, <1>2, EventTypes DEF Remembered
<1>4. newest["START"] \in Int /\ newest["START"] # Never
    BY <1>0, <1>3, NewestType
<1>5. PICK f \in OfType(events, Terminal \cup {"START"}) : f.at >= newest["START"]
    BY <1>4 DEF Remembered
<1>6. f \in events /\ f.at \in Nat
    BY <1>0, EventTypes DEF OfType
<1>7. f.type = "START"
    <2>1. f \notin OfType(events, Terminal)
        BY <1>1, <1>3, <1>4, <1>5, <1>6
    <2> QED
        BY <1>5, <2>1 DEF OfType
<1>8. f \in OfType(events, {"START"})
    BY <1>6, <1>7 DEF OfType
<1>9. NoLater(f, e)
    <2>1. Rows(OfType(events, {"START"}))
        BY RowsOfEvents, SomeRows
    <2> QED
        BY <1>1, <1>8, <2>1, LatestExists
<1>10. newest["START"] = e.at
    BY <1>3, <1>4, <1>5, <1>6, <1>9 DEF NoLater
<1>11. ASSUME NEW t \in Terminal PROVE newest["START"] > newest[t]
    <2>1. newest[t] \in Int /\ (newest[t] = Never \/ newest[t] \in Nat)
        BY <1>0, NewestType
    <2>2. CASE newest[t] = Never
        BY <1>3, <1>10, <2>2 DEF Never
    <2>3. CASE newest[t] # Never
        <3>1. Terminal \cup {t} = Terminal
            OBVIOUS
        <3>2. PICK g \in OfType(events, Terminal) : g.at >= newest[t]
            BY <2>3, <3>1 DEF Remembered
        <3>3. g.at \in Nat /\ g.at < e.at
            BY <1>0, <1>1, <3>2, EventTypes DEF OfType
        <3> QED
            BY <1>3, <1>10, <2>1, <3>2, <3>3
    <2> QED
        BY <2>2, <2>3
<1> QED
    BY <1>3, <1>10, <1>11 DEF RunGoesOn

LEMMA LastDueIs ==
    ASSUME NEW j \in Jobs, j.mode = "CRON", NEW t \in Nat
    PROVE  /\ LastDue(t) \in Schedule /\ LastDue(t) =< t
           /\ \A e \in Schedule : e =< t => e =< LastDue(t)
<1>1. Schedule \in SUBSET Int /\ t \in Int
    BY JobAssumption
<1>2. \E d \in Schedule : d =< t
    <2>1. PICK d \in Schedule : d =< 0
        BY JobAssumption
    <2>2. d \in Int
        BY <1>1
    <2>3. d =< t
        BY <2>1, <2>2
    <2> QED
        BY <2>3
<1>3. \E d \in Schedule : d =< t /\ \A e \in Schedule : e =< t => e =< d
    BY <1>1, <1>2, MaximumUpTo, Zenon
<1> QED
    BY <1>3 DEF LastDue

LEMMA NextDueIs ==
    ASSUME NEW t \in Int, Upcoming(t) # {}
    PROVE  /\ NextDue(t) \in Schedule /\ NextDue(t) > t
           /\ \A e \in Schedule : e > t => NextDue(t) =< e
<1>1. Schedule \in SUBSET Int
    BY JobAssumption
<1>2. \E d \in Schedule : d > t
    BY DEF Upcoming
<1>3. \E d \in Schedule : d > t /\ \A e \in Schedule : e > t => d =< e
    BY <1>1, <1>2, MinimumAbove, Zenon
<1>4. \E d \in Upcoming(t) : \A e \in Upcoming(t) : d =< e
    BY <1>3 DEF Upcoming
<1>5. NextDue(t) \in Upcoming(t) /\ \A e \in Upcoming(t) : NextDue(t) =< e
    BY <1>4 DEF NextDue
<1> QED
    BY <1>5 DEF Upcoming

\* A job reported late has overrun: a START that nothing has ended its runtime,
\* the newest SUCCESS the interval and its grace, or an occurrence its grace, in
\* spite of pruning and of events recorded out of order.
THEOREM LateEarned == Spec => []LateIsEarned
<1>1. Base /\ Remembered => LateIsEarned
    <2> SUFFICES ASSUME Base, Remembered, Phase(job, events, now) = "LATE"
                 PROVE  \/ RunGoesOn /\ now - newest["START"] > RuntimeLimit(job)
                        \/ \E d \in Missed : now > d + job.grace
        BY DEF LateIsEarned
    <2>0. TypeOK /\ now \in Nat /\ job \in Jobs
        BY Constants DEF Base, TypeOK, Time
    <2>1. job.created \in Nat /\ job.interval \in Nat /\ job.grace \in Nat
        BY <2>0, JobType
    <2> DEFINE done == LastSuccess(events)
    <2>2. CASE Unmatched(events) # {}
        <3>1. PICK e \in Unmatched(events) : now - e.at > RuntimeLimit(job)
            BY <2>0, <2>2, PhaseBranches
        <3>2. newest["START"] = e.at /\ e.at \in Nat /\ RunGoesOn
            BY UnmatchedIsNewest
        <3> QED
            BY <3>1, <3>2
    <2>3. CASE Unmatched(events) = {}
        <3>1. OfType(events, Terminal) = {} \/ done # Never
            BY <2>0, <2>3, PhaseBranches
        <3>2. done = newest["SUCCESS"]
            BY <3>1, LastSuccessIsNewest
        <3>3. done = -1 \/ (done \in Nat /\ job.created =< done)
            BY SuccessAfterCreation DEF Never
        <3> HIDE DEF done
        <3>4. CASE job.mode = "CRON"
            <4>1. CronPhase(job, done, now) = "LATE"
                BY <2>0, <2>3, <3>1, <3>4, PhaseBranches DEF done
            <4> DEFINE d == LastDue(now)
            <4>2. ~(d < job.created) /\ ~(done # Never /\ done >= d) /\ now > d + job.grace
                BY <4>1 DEF CronPhase, PastGrace
            <4>3. d \in Schedule /\ d =< now /\ d \in Int
                BY <2>0, <3>4, LastDueIs, JobAssumption
            <4> HIDE DEF d
            <4>4. d >= job.created /\ ~(done >= d)
                BY <2>1, <3>3, <4>2, <4>3 DEF Never
            <4>5. d \in Missed
                BY <3>2, <3>4, <4>3, <4>4 DEF Missed, Owed, Answered
            <4> QED
                BY <4>2, <4>5
        <3>5. CASE job.mode = "ONCALENDAR"
            <4> DEFINE anchor == IF done # Never THEN done ELSE job.created - 1
                       d == NextDue(anchor)
            <4>1. CalendarPhase(job, done, now) = "LATE"
                BY <2>0, <2>3, <3>1, <3>5, PhaseBranches DEF done
            <4>2. Upcoming(anchor) # {} /\ ~(now < d) /\ now > d + job.grace
                BY <4>1 DEF CalendarPhase, PastGrace
            <4>3. anchor \in Int /\ anchor >= done /\ anchor >= job.created - 1
                BY <2>1, <3>3 DEF Never
            <4> HIDE DEF anchor
            <4>4. d \in Schedule /\ d > anchor /\ d \in Int
                BY <4>2, <4>3, NextDueIs, JobAssumption
            <4> HIDE DEF d
            <4>5. d >= job.created /\ d =< now /\ ~(done >= d)
                BY <2>0, <2>1, <3>3, <4>2, <4>3, <4>4
            <4>6. d \in Missed
                BY <3>2, <3>5, <4>4, <4>5 DEF Missed, Owed, Answered
            <4> QED
                BY <4>2, <4>6
        <3>6. CASE job.mode = "SIMPLE"
            <4>1. SimplePhase(job, done, now) = "LATE"
                BY <2>0, <2>3, <3>1, <3>6, PhaseBranches DEF done
            <4>2. now > (IF done # Never THEN done ELSE job.created)
                            + job.interval + job.grace
                BY <4>1 DEF SimplePhase, PastGrace
            <4>3. LastDone + job.interval \in Missed /\ LastDone \in Nat
                BY <2>1, <3>2, <3>3, <3>6 DEF Missed, LastDone, Never
            <4>4. now > LastDone + job.interval + job.grace
                BY <3>2, <4>2 DEF LastDone
            <4> QED
                BY <2>0, <2>1, <4>3, <4>4
        <3> QED
            BY <2>0, <3>4, <3>5, <3>6, JobType DEF Mode
    <2> QED
        BY <2>2, <2>3
<1> QED
    BY <1>1, EvaluationInvariant, PTL

\* The dead man's switch works when the grace is shorter than the period: the
\* tick after an occurrence, or the interval of a job without a schedule, ran out
\* of grace unanswered finds the job DOWN, or a run of it going on.
THEOREM MissedReported == GraceBelowPeriod => (Spec => []MissedIsDown)
<1>1. ASSUME GraceBelowPeriod PROVE Base /\ Remembered => MissedIsDown
    <2> SUFFICES ASSUME Base, Remembered, NEW d \in Missed, now = d + job.grace + 1
                 PROVE  \/ Observed(Phase(job, events, now)) = "DOWN"
                        \/ Phase(job, events, now) = "STARTED"
        BY DEF MissedIsDown
    <2>0. TypeOK /\ now \in Nat /\ job \in Jobs
        BY Constants DEF Base, TypeOK, Time
    <2>1. job.created \in Nat /\ job.interval \in Nat /\ job.grace \in Nat
        BY <2>0, JobType
    <2>2. job.mode # "SIMPLE" =>
            /\ d \in Schedule /\ d \in Int /\ d >= job.created /\ d =< now
            /\ ~Answered(d)
        BY JobAssumption DEF Missed, Owed
    <2>3. Observed("LATE") = "DOWN" /\ Observed("FAILED") = "DOWN"
        BY DEF Observed
    <2> DEFINE done == LastSuccess(events)
    <2>4. CASE Unmatched(events) # {}
        BY <2>0, <2>3, <2>4, PhaseBranches
    <2>5. CASE Unmatched(events) = {} /\ OfType(events, Terminal) # {} /\ done = Never
        BY <2>0, <2>3, <2>5, PhaseBranches
    <2>6. CASE Unmatched(events) = {}
               /\ (OfType(events, Terminal) = {} \/ done # Never)
        <3>2. done = newest["SUCCESS"]
            BY <2>6, LastSuccessIsNewest
        <3>3. done = -1 \/ (done \in Nat /\ job.created =< done)
            BY SuccessAfterCreation DEF Never
        <3> HIDE DEF done
        <3>4. job.mode # "SIMPLE" => ~(done >= d)
            BY <2>2, <3>2 DEF Answered
        <3>5. CASE job.mode = "CRON"
            <4>0. /\ d \in Schedule /\ d \in Int /\ d >= job.created /\ d =< now
                  /\ ~(done >= d)
                BY <2>2, <3>4, <3>5
            <4>1. LastDue(now) \in Schedule /\ LastDue(now) =< now /\ d =< LastDue(now)
                  /\ LastDue(now) \in Int
                BY <2>0, <4>0, <3>5, LastDueIs, JobAssumption
            <4>2. LastDue(now) = d
                <5>1. d < LastDue(now) => LastDue(now) - d > job.grace + 1
                    BY <1>1, <2>0, <4>0, <3>5, <4>1 DEF GraceBelowPeriod
                <5> QED
                    BY <2>0, <2>1, <4>0, <4>1, <5>1
            <4>3. CronPhase(job, done, now) = "LATE"
                BY <2>0, <2>1, <4>0, <4>2 DEF CronPhase, PastGrace
            <4> QED
                BY <2>0, <2>3, <2>6, <3>5, <4>3, PhaseBranches DEF done
        <3>6. CASE job.mode = "ONCALENDAR"
            <4>0. /\ d \in Schedule /\ d \in Int /\ d >= job.created /\ d =< now
                  /\ ~(done >= d)
                BY <2>2, <3>4, <3>6
            <4> DEFINE anchor == IF done # Never THEN done ELSE job.created - 1
            <4>1. anchor \in Int /\ anchor < d
                BY <2>1, <3>3, <4>0 DEF Never
            <4>2. Upcoming(anchor) # {}
                BY <4>0, <4>1 DEF Upcoming
            <4> HIDE DEF anchor
            <4>3. NextDue(anchor) \in Int /\ NextDue(anchor) =< d
                BY <4>0, <4>1, <4>2, NextDueIs, JobAssumption
            <4>4. ~(now < NextDue(anchor)) /\ now > NextDue(anchor) + job.grace
                BY <2>0, <2>1, <4>0, <4>3
            <4>5. CalendarPhase(job, done, now) = "LATE"
                BY <4>2, <4>4 DEF CalendarPhase, PastGrace, anchor
            <4> QED
                BY <2>0, <2>3, <2>6, <3>6, <4>5, PhaseBranches DEF done
        <3>7. CASE job.mode = "SIMPLE"
            <4>1. d = (IF done # Never THEN done ELSE job.created) + job.interval
                BY <3>2, <3>7 DEF Missed, LastDone
            <4>2. d \in Nat
                BY <2>1, <3>3, <4>1 DEF Never
            <4>3. SimplePhase(job, done, now) = "LATE"
                BY <2>0, <2>1, <4>1, <4>2 DEF SimplePhase, PastGrace
            <4> QED
                BY <2>0, <2>3, <2>6, <3>7, <4>3, PhaseBranches DEF done
        <3> QED
            BY <2>0, <3>5, <3>6, <3>7, JobType DEF Mode
    <2> QED
        BY <2>4, <2>5, <2>6
<1>2. ASSUME GraceBelowPeriod PROVE Spec => []MissedIsDown
    <2>1. Base /\ Remembered => MissedIsDown
        BY <1>1, <1>2
    <2> QED
        BY <2>1, EvaluationInvariant, PTL
<1> QED
    BY <1>2

=============================================================================

---------------------------- MODULE NotifyOutbox ----------------------------
(***************************************************************************)
(* The durable notification outbox: the workers' drain loop                *)
(* (outbox.drain_notification_outbox), the bounded publisher               *)
(* (notifications.publish_notify_payload), the Notify service behind an    *)
(* unreliable network, and worker restarts.                                *)
(*                                                                         *)
(* Production runs one worker; the row lock and the second look at         *)
(* delivered_at in _record_publish_result are there for more, so Workers   *)
(* is a set.  A row is named by its place in created_at order.             *)
(***************************************************************************)
EXTENDS Integers, FiniteSets

CONSTANTS
    Items,         \* NotificationOutbox rows, in created_at order
    Poison,        \* rows Notify refuses for good: 409, other 4xx, no header
    Workers,
    Limit,         \* drain_notification_outbox(limit)
    MaxAttempts,   \* settings.MONITOR_NOTIFY_MAX_ATTEMPTS
    ExpCap,        \* 10 in the code: where the exponent stops growing
    RetryCap,      \* 3600 s in the code, above 2^10: the longest delay
    Retention,     \* MONITOR_NOTIFICATION_OUTBOX_RETENTION_DAYS
    BusyClock,     \* may time pass while a worker is at work
    MaxCrashes     \* bound: worker crashes

ASSUME OutboxAssumption ==
    /\ Items \subseteq Nat \ {0}
    /\ Poison \subseteq Items
    /\ Limit \in Nat \ {0}
    /\ MaxAttempts \in 1..5
    /\ ExpCap \in Nat \ {0}
    /\ RetryCap \in Nat \ {0}
    /\ Retention \in Nat \ {0}
    /\ BusyClock \in BOOLEAN
    /\ MaxCrashes \in Nat

VARIABLES
    stage,     \* stage[i]: absent, pending, delivered (delivered_at is set)
               \* or pruned
    attempts,  \* attempts[i]: attempt_count, saturating at ExpCap
    wait,      \* wait[i]: time left until next_attempt_at
    age,       \* age[i]: time since delivered_at, saturating at Retention + 1
    pc,        \* pc[k]: where worker k is in its cycle
    config,    \* config[k]: the Notify settings its process started with
    todo,      \* todo[k]: the selected rows it has not begun
    item,      \* item[k]: the row it publishes, 0 when none
    tries,     \* tries[k]: wire attempts of this publish
    result,    \* result[k]: NotifyPublishResult.delivered
    accepted,  \* the idempotency keys Notify has accepted
    fanout,    \* fanout[i]: notifications Notify has sent for row i
    network,   \* "up", or "down": anything may be lost or refused as busy
    crashes    \* worker crashes so far

rows == <<stage, attempts, wait, age>>
worker == <<pc, config, todo, item, tries, result>>
notify == <<accepted, fanout>>
vars == <<rows, worker, notify, network, crashes>>

Stage == {"absent", "pending", "delivered", "pruned"}
Phase == {"asleep", "pruning", "selecting", "fetching", "sending", "recording"}
Config == {"disabled", "partial", "complete"}

TypeOK ==
    /\ stage \in [Items -> Stage]
    /\ attempts \in [Items -> 0..ExpCap]
    /\ wait \in [Items -> 0..RetryCap]
    /\ age \in [Items -> 0..Retention + 1]
    /\ pc \in [Workers -> Phase]
    /\ config \in [Workers -> Config]
    /\ todo \in [Workers -> SUBSET Items]
    /\ item \in [Workers -> Items \cup {0}]
    /\ tries \in [Workers -> 0..MaxAttempts]
    /\ result \in [Workers -> BOOLEAN]
    /\ accepted \subseteq Nat
    /\ fanout \in [Items -> Nat]
    /\ network \in {"up", "down"}
    /\ crashes \in Nat

Init ==
    /\ stage = [i \in Items |-> "absent"]
    /\ attempts = [i \in Items |-> 0]
    /\ wait = [i \in Items |-> 0]
    /\ age = [i \in Items |-> 0]
    /\ pc = [k \in Workers |-> "pruning"]
    /\ config \in [Workers -> Config]
    /\ todo = [k \in Workers |-> {}]
    /\ item = [k \in Workers |-> 0]
    /\ tries = [k \in Workers |-> 0]
    /\ result = [k \in Workers |-> FALSE]
    /\ accepted = {}
    /\ fanout = [i \in Items |-> 0]
    /\ network = "up"
    /\ crashes = 0

-----------------------------------------------------------------------------
(* The environment: committed transitions, time, the network, Notify. *)

\* engine._apply_outcome commits a row with the transition it announces.
Enqueue(i) ==
    /\ stage[i] = "absent"
    /\ \A j \in Items : j < i => stage[j] # "absent"
    /\ stage' = [stage EXCEPT ![i] = "pending"]
    /\ UNCHANGED <<attempts, wait, age, worker, notify, network, crashes>>

\* The sleep between two cycles, which wakes every worker that is asleep.
Tick ==
    /\ BusyClock \/ \A k \in Workers : pc[k] = "asleep"
    /\ wait' = [i \in Items |-> IF wait[i] > 0 THEN wait[i] - 1 ELSE 0]
    /\ age' = [i \in Items |->
                IF stage[i] = "delivered" /\ age[i] =< Retention
                THEN age[i] + 1 ELSE age[i]]
    /\ pc' = [k \in Workers |-> IF pc[k] = "asleep" THEN "pruning" ELSE pc[k]]
    /\ UNCHANGED <<stage, attempts, config, todo, item, tries, result, notify,
                   network, crashes>>

NetworkTurns ==
    /\ network' = IF network = "up" THEN "down" ELSE "up"
    /\ UNCHANGED <<rows, worker, notify, crashes>>

\* Faulty variant: the key depends on the attempt.
WireKeyPerAttempt(i) == i + 100 * attempts[i]

\* The key is stored in the row, so every publish of a row carries the same.
WireKey(i) == i

\* Notify takes the request: a key it knows is answered as a replay and sends
\* nothing.
Accept(i) ==
    /\ accepted' = accepted \cup {WireKey(i)}
    /\ fanout' = IF WireKey(i) \in accepted THEN fanout
                 ELSE [fanout EXCEPT ![i] = @ + 1]

-----------------------------------------------------------------------------
(* One cycle of a worker. *)

\* Faulty variant: retention does not look at delivered_at.
ExpiredAny(i) == stage[i] # "absent" /\ wait[i] = 0

\* Delivered longer ago than the retention.
Expired(i) == stage[i] = "delivered" /\ age[i] > Retention

Prune(k) ==
    /\ pc[k] = "pruning"
    /\ stage' = [i \in Items |-> IF Expired(i) THEN "pruned" ELSE stage[i]]
    /\ pc' = [pc EXCEPT ![k] = "selecting"]
    /\ UNCHANGED <<attempts, wait, age, config, todo, item, tries, result,
                   notify, network, crashes>>

Due == {i \in Items : stage[i] = "pending" /\ wait[i] = 0}

\* The first Limit rows due, oldest first; none when Notify is disabled.
Select(k) ==
    LET batch == {i \in Due : Cardinality({j \in Due : j < i}) < Limit}
        now == IF config[k] = "disabled" THEN {} ELSE batch
    IN  /\ pc[k] = "selecting"
        /\ todo' = [todo EXCEPT ![k] = now]
        /\ pc' = [pc EXCEPT ![k] = IF now = {} THEN "asleep" ELSE "fetching"]
        /\ UNCHANGED <<rows, config, item, tries, result, notify, network,
                       crashes>>

\* The next row is read whole.  Whether it has been delivered since it was
\* selected is not looked at.
Fetch(k) ==
    /\ pc[k] = "fetching"
    /\ \E i \in todo[k] :
        /\ \A j \in todo[k] : i =< j
        /\ stage[i] # "pruned"
        /\ item' = [item EXCEPT ![k] = i]
        /\ todo' = [todo EXCEPT ![k] = @ \ {i}]
    /\ tries' = [tries EXCEPT ![k] = 0]
    /\ pc' = [pc EXCEPT ![k] = "sending"]
    /\ UNCHANGED <<rows, config, result, notify, network, crashes>>

\* publish_notify_payload returns.
Return(k, ok, n) ==
    /\ result' = [result EXCEPT ![k] = ok]
    /\ tries' = [tries EXCEPT ![k] = n]
    /\ pc' = [pc EXCEPT ![k] = "recording"]

\* 201, or 200 with the replay header.
Delivered(k) ==
    /\ pc[k] = "sending"
    /\ config[k] = "complete"
    /\ item[k] \notin Poison
    /\ Accept(item[k])
    /\ Return(k, TRUE, tries[k] + 1)
    /\ UNCHANGED <<rows, config, todo, item, network, crashes>>

\* 409, another 4xx, or 200 without the header: not sent again in this drain.
Rejected(k) ==
    /\ pc[k] = "sending"
    /\ config[k] = "complete"
    /\ item[k] \in Poison \/ network = "down"
    /\ Return(k, FALSE, tries[k] + 1)
    /\ UNCHANGED <<rows, config, todo, item, notify, network, crashes>>

\* Faulty variant: one attempt too many.
ExhaustedLate(n) == n > MaxAttempts

Exhausted(n) == n >= MaxAttempts

\* A transport error, 429 or 5xx: the request may have arrived or not.  It is
\* sent again until MaxAttempts.
Unanswered(k) ==
    /\ pc[k] = "sending"
    /\ config[k] = "complete"
    /\ network = "down"
    /\ \/ UNCHANGED notify
       \/ item[k] \notin Poison /\ Accept(item[k])
    /\ IF Exhausted(tries[k] + 1)
       THEN Return(k, FALSE, tries[k] + 1)
       ELSE /\ tries' = [tries EXCEPT ![k] = @ + 1]
            /\ UNCHANGED <<pc, result>>
    /\ UNCHANGED <<rows, config, todo, item, network, crashes>>

\* Partial configuration (an endpoint that does not validate included), or an
\* exception nobody foresaw: the result says that nothing was sent.
Refuse(k) ==
    /\ pc[k] = "sending"
    /\ config[k] = "partial" \/ network = "down"
    /\ Return(k, FALSE, 0)
    /\ UNCHANGED <<rows, config, todo, item, notify, network, crashes>>

\* Faulty variant: a failed row may be taken again at once.
BackoffNone(n) == 0

\* min(3600, 2 ** min(attempt_count, 10))
Backoff(n) == IF 2^n \in 1..RetryCap THEN 2^n ELSE RetryCap

AttemptsAfter(n, wire) ==
    LET sum == n + (IF wire > 1 THEN wire ELSE 1)
    IN  IF sum < ExpCap THEN sum ELSE ExpCap

\* Faulty variant: the row is written whether or not it was delivered by
\* another worker meanwhile.
RecordableAlways(i) == TRUE

\* The row under its lock has not been delivered by another worker meanwhile.
Recordable(i) == stage[i] # "delivered"

Record(k) ==
    LET i == item[k]
        n == AttemptsAfter(attempts[i], tries[k])
    IN  /\ pc[k] = "recording"
        /\ stage[i] # "pruned"
        /\ IF Recordable(i)
           THEN /\ stage' = [stage EXCEPT ![i] =
                        IF result[k] THEN "delivered" ELSE "pending"]
                /\ attempts' = [attempts EXCEPT ![i] = n]
                /\ wait' = [wait EXCEPT ![i] =
                        IF result[k] THEN 0 ELSE Backoff(n)]
                /\ UNCHANGED age
           ELSE UNCHANGED rows
        /\ item' = [item EXCEPT ![k] = 0]
        /\ pc' = [pc EXCEPT ![k] =
                    IF todo[k] = {} THEN "asleep" ELSE "fetching"]
        /\ tries' = [tries EXCEPT ![k] = 0]
        /\ result' = [result EXCEPT ![k] = FALSE]
        /\ UNCHANGED <<config, todo, notify, network, crashes>>

\* The process starts again, with the settings its environment has now.
Restart(k) ==
    /\ \E c \in Config : config' = [config EXCEPT ![k] = c]
    /\ pc' = [pc EXCEPT ![k] = "pruning"]
    /\ todo' = [todo EXCEPT ![k] = {}]
    /\ item' = [item EXCEPT ![k] = 0]
    /\ tries' = [tries EXCEPT ![k] = 0]
    /\ result' = [result EXCEPT ![k] = FALSE]
    /\ UNCHANGED <<rows, notify, network>>

\* NotificationOutbox.objects.get raises DoesNotExist, which nothing catches.
RowMissing(k) ==
    /\ \/ pc[k] = "fetching" /\ \E i \in todo[k] :
            stage[i] = "pruned" /\ \A j \in todo[k] : i =< j
       \/ pc[k] = "recording" /\ stage[item[k]] = "pruned"
    /\ Restart(k)
    /\ UNCHANGED crashes

Crash(k) ==
    /\ crashes < MaxCrashes
    /\ crashes' = crashes + 1
    /\ Restart(k)

-----------------------------------------------------------------------------
Work(k) ==
    \/ Prune(k) \/ Select(k) \/ Fetch(k)
    \/ Delivered(k) \/ Rejected(k) \/ Unanswered(k) \/ Refuse(k)
    \/ Record(k) \/ RowMissing(k)

Next ==
    \/ \E i \in Items : Enqueue(i)
    \/ Tick
    \/ NetworkTurns
    \/ \E k \in Workers : Work(k) \/ Crash(k)

Spec == Init /\ [][Next]_vars

-----------------------------------------------------------------------------
(* Properties. *)

\* A row Monitor counts as delivered, and so lets go of, is one Notify has
\* accepted: crashes, lost replies, retention and a second worker lose none.
DeliveredMeansAccepted ==
    \A i \in Items : stage[i] \in {"delivered", "pruned"} =>
        WireKey(i) \in accepted

\* Once delivered a row is final: a slower worker whose publish of it failed
\* neither reopens it nor counts on it.
DeliveryFinal ==
    [][\A i \in Items : stage[i] = "delivered" =>
        stage'[i] \in {"delivered", "pruned"} /\ attempts'[i] = attempts[i]]_vars

\* The rows that were committed, and those Monitor is done with.
Promised == {i \in Items : stage[i] # "absent"}
Settled == {i \in Items : stage[i] \in {"delivered", "pruned"}}

Delivery == INSTANCE NotifyDelivery WITH promised <- Promised, settled <- Settled

\* The outbox implements NotifyDelivery: at most one notification for each
\* transition however often it is published, and none that was not committed.
ImplementsDelivery == Delivery!Spec

\* The rows a worker holds wait for it: none is delivered by another worker, or
\* pruned, between its selection and the record of its result.  It holds of a
\* worker that is alone; get then finds every row and DoesNotExist is not raised.
HeldRowsWait ==
    \A k \in Workers :
        /\ \A i \in todo[k] : stage[i] = "pending"
        /\ pc[k] \in {"sending", "recording"} => stage[item[k]] = "pending"

\* Notify can be reached and every worker is configured to.
Healthy == network = "up" /\ \A k \in Workers : config[k] = "complete"

\* Once Notify can be reached again every row it does not refuse is delivered,
\* rows it refuses for good in front of it notwithstanding.
EventuallyDelivered ==
    \A i \in Items \ Poison :
        <>[]Healthy =>
            [](stage[i] = "pending" => <>(stage[i] \in {"delivered", "pruned"}))
=============================================================================

-------------------------- MODULE NotifyOutboxProofs -------------------------
(***************************************************************************)
(* What holds of NotifyOutbox for every set of rows and workers and every  *)
(* limit, delay and retention.                                             *)
(***************************************************************************)
EXTENDS NotifyOutbox, TLAPS

-----------------------------------------------------------------------------
(* Helpers. *)

\* A failed publish waits at least one and at most RetryCap ticks.
LEMMA BackoffType ==
    ASSUME NEW n
    PROVE  Backoff(n) \in 1..RetryCap
BY OutboxAssumption DEF Backoff

\* attempt_count grows and stays under the cap.
LEMMA AttemptsType ==
    ASSUME NEW n \in 0..ExpCap, NEW wire \in 0..MaxAttempts
    PROVE  AttemptsAfter(n, wire) \in 0..ExpCap
BY OutboxAssumption DEF AttemptsAfter

-----------------------------------------------------------------------------
(* The inductive invariant. *)

\* What a worker holds: rows that exist, and a verdict Notify gave.
WorkerInv ==
    \A k \in Workers :
        /\ \A i \in todo[k] : stage[i] # "absent"
        /\ pc[k] \in {"sending", "recording"} =>
                item[k] \in Items /\ stage[item[k]] # "absent"
        /\ pc[k] = "sending" => tries[k] < MaxAttempts
        /\ pc[k] = "recording" /\ result[k] => item[k] \in accepted

\* What Notify knows: one notification for each key it accepted, and only keys
\* of rows that exist; and what Monitor may conclude from a row.
NotifyInv ==
    \A i \in Items :
        /\ fanout[i] = IF i \in accepted THEN 1 ELSE 0
        /\ i \in accepted => stage[i] # "absent"
        /\ stage[i] \in {"delivered", "pruned"} => i \in accepted

OutboxInv == TypeOK /\ WorkerInv /\ NotifyInv

LEMMA OutboxInit == Init => OutboxInv
BY OutboxAssumption
DEF Init, OutboxInv, TypeOK, WorkerInv, NotifyInv, Stage, Phase, Config

\* A worker that restarts holds nothing.
LEMMA RestartStep ==
    ASSUME OutboxInv, NEW k \in Workers, Restart(k), crashes' \in Nat
    PROVE  OutboxInv'
BY OutboxAssumption
DEF Restart, OutboxInv, TypeOK, WorkerInv, NotifyInv, rows, notify, Phase

\* A row changes only forward from absent, so what workers and Notify hold of
\* rows that exist stays true.
LEMMA RecordStep ==
    ASSUME OutboxInv, NEW k \in Workers, Record(k)
    PROVE  OutboxInv'
<1> DEFINE i == item[k]
           n == AttemptsAfter(attempts[i], tries[k])
<1> USE DEF OutboxInv
<1>1. pc[k] = "recording" /\ i \in Items /\ stage[i] # "absent"
    BY DEF Record, WorkerInv
<1>2. n \in 0..ExpCap /\ Backoff(n) \in 0..RetryCap
    <2>1. attempts[i] \in 0..ExpCap /\ tries[k] \in 0..MaxAttempts
        BY <1>1 DEF TypeOK
    <2>2. n \in 0..ExpCap
        BY <2>1, AttemptsType
    <2>3. Backoff(n) \in 1..RetryCap
        BY BackoffType
    <2>4. QED
        BY <2>2, <2>3, OutboxAssumption
<1> HIDE DEF n
<1>3. /\ stage' \in [Items -> Stage]
      /\ attempts' \in [Items -> 0..ExpCap]
      /\ wait' \in [Items -> 0..RetryCap]
      /\ age' \in [Items -> 0..Retention + 1]
    <2>1. CASE Recordable(i)
        <3>1. /\ stage' = [stage EXCEPT ![i] =
                            IF result[k] THEN "delivered" ELSE "pending"]
              /\ attempts' = [attempts EXCEPT ![i] = n]
              /\ wait' = [wait EXCEPT ![i] = IF result[k] THEN 0 ELSE Backoff(n)]
              /\ age' = age
            BY <2>1 DEF Record, n
        <3>2. (IF result[k] THEN 0 ELSE Backoff(n)) \in 0..RetryCap
            BY <1>2, OutboxAssumption
        <3>3. QED
            BY <1>1, <1>2, <3>1, <3>2 DEF TypeOK, Stage
    <2>2. CASE ~Recordable(i)
        BY <2>2 DEF Record, rows, TypeOK
    <2>3. QED
        BY <2>1, <2>2
<1>4. \A j \in Items :
        /\ stage'[j] = "absent" <=> stage[j] = "absent"
        /\ stage'[j] \in {"delivered", "pruned"} => j \in accepted
    <2>1. CASE Recordable(i)
        <3>1. stage' = [stage EXCEPT ![i] =
                            IF result[k] THEN "delivered" ELSE "pending"]
            BY <2>1 DEF Record
        <3>2. result[k] => i \in accepted
            BY <1>1 DEF WorkerInv
        <3>3. QED
            BY <1>1, <3>1, <3>2 DEF TypeOK, NotifyInv
    <2>2. CASE ~Recordable(i)
        BY <2>2 DEF Record, rows, NotifyInv
    <2>3. QED
        BY <2>1, <2>2
<1>5. TypeOK'
    BY <1>3, OutboxAssumption DEF Record, TypeOK, Phase, notify
<1>6. WorkerInv'
    BY <1>4 DEF Record, WorkerInv, TypeOK, notify
<1>7. NotifyInv'
    BY <1>4 DEF Record, NotifyInv, notify
<1>8. QED
    BY <1>5, <1>6, <1>7

\* Notify takes a request for a row in flight: once for each key.
LEMMA AcceptStep ==
    ASSUME OutboxInv, NEW i \in Items, stage[i] # "absent", Accept(i),
           UNCHANGED rows
    PROVE  /\ accepted' = accepted \cup {i}
           /\ accepted' \subseteq Nat
           /\ fanout' \in [Items -> Nat]
           /\ NotifyInv'
<1>1. accepted' = accepted \cup {i} /\ i \in Nat
    BY OutboxAssumption DEF Accept, WireKey
<1>2. /\ i \in accepted => fanout' = fanout
      /\ i \notin accepted => fanout' = [fanout EXCEPT ![i] = 1]
    <2>1. CASE i \in accepted
        BY <2>1 DEF Accept, WireKey
    <2>2. CASE i \notin accepted
        <3>1. fanout[i] = 0
            BY <2>2 DEF OutboxInv, NotifyInv
        <3>2. fanout' = [fanout EXCEPT ![i] = fanout[i] + 1]
            BY <2>2 DEF Accept, WireKey
        <3>3. QED
            BY <2>2, <3>1, <3>2
    <2>3. QED
        BY <2>1, <2>2
<1>3. QED
    BY <1>1, <1>2 DEF OutboxInv, NotifyInv, TypeOK, rows

LEMMA OutboxStep == OutboxInv /\ [Next]_vars => OutboxInv'
<1> SUFFICES ASSUME OutboxInv, [Next]_vars PROVE OutboxInv'
    OBVIOUS
<1> USE DEF OutboxInv
<1>1. CASE UNCHANGED vars
    BY <1>1 DEF vars, rows, worker, notify, TypeOK, WorkerInv, NotifyInv
<1>2. ASSUME NEW i \in Items, Enqueue(i) PROVE OutboxInv'
    BY <1>2 DEF Enqueue, worker, notify, TypeOK, WorkerInv, NotifyInv, Stage
<1>3. CASE Tick
    <2>1. wait' \in [Items -> 0..RetryCap] /\ age' \in [Items -> 0..Retention + 1]
        BY <1>3, OutboxAssumption DEF Tick, TypeOK
    <2>2. /\ pc' \in [Workers -> Phase]
          /\ \A k \in Workers : pc'[k] = pc[k] \/ pc'[k] = "pruning"
        BY <1>3 DEF Tick, TypeOK, Phase
    <2>3. UNCHANGED <<stage, attempts, config, todo, item, tries, result,
                      notify, network, crashes>>
        BY <1>3 DEF Tick
    <2>4. QED
        BY <2>1, <2>2, <2>3 DEF notify, TypeOK, WorkerInv, NotifyInv
<1>4. CASE NetworkTurns
    BY <1>4 DEF NetworkTurns, rows, worker, notify, TypeOK, WorkerInv, NotifyInv
<1>5. ASSUME NEW k \in Workers, Prune(k) PROVE OutboxInv'
    <2>1. /\ stage' \in [Items -> Stage]
          /\ \A i \in Items : \/ stage'[i] = stage[i]
                              \/ stage[i] = "delivered" /\ stage'[i] = "pruned"
        BY <1>5 DEF Prune, Expired, TypeOK, Stage
    <2>2. /\ pc' = [pc EXCEPT ![k] = "selecting"]
          /\ UNCHANGED <<attempts, wait, age, config, todo, item, tries, result,
                         notify, network, crashes>>
        BY <1>5 DEF Prune
    <2>3. QED
        BY <2>1, <2>2 DEF notify, TypeOK, WorkerInv, NotifyInv, Phase
<1>6. ASSUME NEW k \in Workers, Select(k) PROVE OutboxInv'
    <2>1. PICK now \in SUBSET Items :
            /\ \A i \in now : stage[i] # "absent"
            /\ todo' = [todo EXCEPT ![k] = now]
            /\ pc' = [pc EXCEPT ![k] =
                        IF now = {} THEN "asleep" ELSE "fetching"]
        <3> DEFINE batch == {i \in Due : Cardinality({j \in Due : j < i}) < Limit}
                   now == IF config[k] = "disabled" THEN {} ELSE batch
        <3>1. now \in SUBSET Items /\ \A i \in now : stage[i] # "absent"
            BY DEF Due
        <3>2. /\ todo' = [todo EXCEPT ![k] = now]
              /\ pc' = [pc EXCEPT ![k] =
                        IF now = {} THEN "asleep" ELSE "fetching"]
            BY <1>6 DEF Select
        <3> HIDE DEF now
        <3>3. QED
            BY <3>1, <3>2
    <2>2. UNCHANGED <<rows, config, item, tries, result, notify, network,
                      crashes>>
        BY <1>6 DEF Select
    <2>3. QED
        BY <2>1, <2>2 DEF rows, notify, TypeOK, WorkerInv, NotifyInv, Phase
<1>7. ASSUME NEW k \in Workers, Fetch(k) PROVE OutboxInv'
    <2>1. PICK i \in todo[k] : /\ item' = [item EXCEPT ![k] = i]
                               /\ todo' = [todo EXCEPT ![k] = @ \ {i}]
        BY <1>7 DEF Fetch
    <2>2. i \in Items /\ stage[i] # "absent"
        BY DEF TypeOK, WorkerInv
    <2>3. /\ tries' = [tries EXCEPT ![k] = 0]
          /\ pc' = [pc EXCEPT ![k] = "sending"]
          /\ UNCHANGED <<rows, config, result, notify, network, crashes>>
        BY <1>7 DEF Fetch
    <2>4. QED
        BY <2>1, <2>2, <2>3, OutboxAssumption
        DEF rows, notify, TypeOK, WorkerInv, NotifyInv, Phase
<1>8. ASSUME NEW k \in Workers, Delivered(k) PROVE OutboxInv'
    <2>1. /\ pc[k] = "sending" /\ item[k] \in Items
          /\ stage[item[k]] # "absent" /\ tries[k] < MaxAttempts
        BY <1>8 DEF Delivered, WorkerInv
    <2>2. /\ accepted' = accepted \cup {item[k]}
          /\ accepted' \subseteq Nat
          /\ fanout' \in [Items -> Nat]
          /\ NotifyInv'
        BY <1>8, <2>1, AcceptStep DEF Delivered
    <2>3. QED
        BY <1>8, <2>1, <2>2, OutboxAssumption
        DEF Delivered, Return, rows, TypeOK, WorkerInv, Phase
<1>9. ASSUME NEW k \in Workers, Rejected(k) PROVE OutboxInv'
    BY <1>9, OutboxAssumption
    DEF Rejected, Return, rows, notify, TypeOK, WorkerInv, NotifyInv, Phase
<1>10. ASSUME NEW k \in Workers, Unanswered(k) PROVE OutboxInv'
    <2>1. /\ pc[k] = "sending" /\ item[k] \in Items
          /\ stage[item[k]] # "absent" /\ tries[k] < MaxAttempts
        BY <1>10 DEF Unanswered, WorkerInv
    <2>2. /\ accepted \subseteq accepted'
          /\ accepted' \subseteq Nat
          /\ fanout' \in [Items -> Nat]
          /\ NotifyInv'
        <3>1. CASE UNCHANGED notify
            BY <1>10, <3>1 DEF Unanswered, notify, rows, TypeOK, NotifyInv
        <3>2. CASE Accept(item[k])
            BY <1>10, <2>1, <3>2, AcceptStep DEF Unanswered
        <3>3. QED
            BY <1>10, <3>1, <3>2 DEF Unanswered
    <2>3. UNCHANGED <<rows, config, todo, item, network, crashes>>
        BY <1>10 DEF Unanswered
    <2>4. tries[k] + 1 \in 0..MaxAttempts
        BY <2>1, OutboxAssumption DEF TypeOK
    <2>5. CASE Exhausted(tries[k] + 1)
        <3>1. /\ pc' = [pc EXCEPT ![k] = "recording"]
              /\ result' = [result EXCEPT ![k] = FALSE]
              /\ tries' = [tries EXCEPT ![k] = tries[k] + 1]
            BY <1>10, <2>5 DEF Unanswered, Return
        <3>2. QED
            BY <2>1, <2>2, <2>3, <2>4, <3>1 DEF rows, TypeOK, WorkerInv, Phase
    <2>6. CASE ~Exhausted(tries[k] + 1)
        <3>1. /\ tries' = [tries EXCEPT ![k] = tries[k] + 1]
              /\ UNCHANGED <<pc, result>>
            BY <1>10, <2>6 DEF Unanswered
        <3>2. tries[k] + 1 < MaxAttempts
            BY <2>1, <2>6, OutboxAssumption DEF Exhausted, TypeOK
        <3>3. QED
            BY <2>1, <2>2, <2>3, <2>4, <3>1, <3>2 DEF rows, TypeOK, WorkerInv
    <2>7. QED
        BY <2>5, <2>6
<1>11. ASSUME NEW k \in Workers, Refuse(k) PROVE OutboxInv'
    BY <1>11, OutboxAssumption
    DEF Refuse, Return, rows, notify, TypeOK, WorkerInv, NotifyInv, Phase
<1>12. ASSUME NEW k \in Workers, Record(k) PROVE OutboxInv'
    BY <1>12, RecordStep
<1>13. ASSUME NEW k \in Workers, RowMissing(k) PROVE OutboxInv'
    <2>1. Restart(k) /\ crashes' \in Nat
        BY <1>13 DEF RowMissing, TypeOK
    <2>2. QED
        BY <2>1, RestartStep
<1>14. ASSUME NEW k \in Workers, Crash(k) PROVE OutboxInv'
    <2>1. Restart(k) /\ crashes' \in Nat
        BY <1>14 DEF Crash, TypeOK
    <2>2. QED
        BY <2>1, RestartStep
<1>15. QED
    BY <1>1, <1>2, <1>3, <1>4, <1>5, <1>6, <1>7, <1>8, <1>9, <1>10, <1>11,
       <1>12, <1>13, <1>14 DEF Next, Work

LEMMA OutboxInvariant == Spec => []OutboxInv
BY OutboxInit, OutboxStep, PTL DEF Spec

\* Every variable keeps its type; no publish makes more than MaxAttempts
\* requests.
THEOREM OutboxTypes == Spec => []TypeOK
<1>1. OutboxInv => TypeOK
    BY DEF OutboxInv
<1>2. QED
    BY <1>1, OutboxInvariant, PTL

\* Whatever is lost, retried, crashed or pruned, no row is let go of that
\* Notify has not accepted.
THEOREM DeliveryEarned == Spec => []DeliveredMeansAccepted
<1>1. OutboxInv => DeliveredMeansAccepted
    BY DEF OutboxInv, NotifyInv, DeliveredMeansAccepted, WireKey
<1>2. QED
    BY <1>1, OutboxInvariant, PTL

\* What a step does to a delivered row: it stays, or retention removes it.
LEMMA DeliveredStep ==
    ASSUME OutboxInv, [Next]_vars, NEW i \in Items, stage[i] = "delivered"
    PROVE  stage'[i] \in {"delivered", "pruned"} /\ attempts'[i] = attempts[i]
<1> DEFINE Goal == /\ stage'[i] \in {"delivered", "pruned"}
                   /\ attempts'[i] = attempts[i]
<1>1. (UNCHANGED rows) => Goal
    BY DEF rows
<1>2. CASE UNCHANGED vars
    BY <1>1, <1>2 DEF vars
<1>3. ASSUME NEW j \in Items, Enqueue(j) PROVE Goal
    BY <1>3 DEF Enqueue, OutboxInv, TypeOK
<1>4. CASE Tick
    BY <1>4 DEF Tick
<1>5. CASE NetworkTurns
    BY <1>1, <1>5 DEF NetworkTurns
<1>6. ASSUME NEW k \in Workers, Prune(k) PROVE Goal
    BY <1>6 DEF Prune
<1>7. ASSUME NEW k \in Workers, Record(k) PROVE Goal
    <2>1. CASE item[k] = i
        BY <1>1, <1>7, <2>1 DEF Record, Recordable
    <2>2. CASE item[k] # i
        BY <1>1, <1>7, <2>2 DEF Record, OutboxInv, TypeOK
    <2>3. QED
        BY <2>1, <2>2
<1>8. ASSUME NEW k \in Workers, Restart(k) PROVE Goal
    BY <1>1, <1>8 DEF Restart
<1>9. ASSUME NEW k \in Workers,
             \/ Select(k) \/ Fetch(k) \/ Delivered(k) \/ Rejected(k)
             \/ Unanswered(k) \/ Refuse(k)
      PROVE  Goal
    BY <1>1, <1>9 DEF Select, Fetch, Delivered, Rejected, Unanswered, Refuse
<1>10. QED
    BY <1>2, <1>3, <1>4, <1>5, <1>6, <1>7, <1>8, <1>9
    DEF Next, Work, RowMissing, Crash

\* A second worker neither reopens a delivered row nor counts on it.
THEOREM DeliveryIsFinal == Spec => DeliveryFinal
<1> DEFINE A == \A i \in Items : stage[i] = "delivered" =>
        stage'[i] \in {"delivered", "pruned"} /\ attempts'[i] = attempts[i]
<1>1. OutboxInv /\ [Next]_vars => [A]_vars
    BY DeliveredStep
<1>2. QED
    BY <1>1, OutboxInvariant, PTL DEF Spec, DeliveryFinal

-----------------------------------------------------------------------------
(* A worker that is alone. *)

Alone == \A j, k \in Workers : j = k

\* A row is begun once in a batch, so that recording it leaves the rest of the
\* batch pending.
HeldInv ==
    /\ HeldRowsWait
    /\ \A k \in Workers :
        pc[k] \in {"sending", "recording"} => item[k] \notin todo[k]

LEMMA HeldInit == Init => HeldInv
BY DEF Init, HeldInv, HeldRowsWait

\* A worker that restarts holds no row.
LEMMA HeldRestart ==
    ASSUME Alone, OutboxInv, HeldInv, NEW k \in Workers, Restart(k)
    PROVE  HeldInv'
BY DEF Alone, Restart, OutboxInv, TypeOK, HeldInv, HeldRowsWait, rows

LEMMA HeldStep ==
    ASSUME Alone, OutboxInv, HeldInv, [Next]_vars
    PROVE  HeldInv'
<1> USE DEF HeldInv, HeldRowsWait
<1>1. TypeOK
    BY DEF OutboxInv
<1>2. CASE UNCHANGED vars
    BY <1>2 DEF vars, rows, worker
<1>3. ASSUME NEW i \in Items, Enqueue(i) PROVE HeldInv'
    BY <1>1, <1>3 DEF Enqueue, worker, TypeOK
<1>4. CASE Tick
    <2>1. \A k \in Workers : pc'[k] \in {"sending", "recording"} => pc'[k] = pc[k]
        BY <1>4 DEF Tick
    <2>2. UNCHANGED <<stage, todo, item>>
        BY <1>4 DEF Tick
    <2> QED
        BY <2>1, <2>2
<1>5. CASE NetworkTurns
    BY <1>5 DEF NetworkTurns, rows, worker
<1>6. ASSUME NEW k \in Workers, Prune(k) PROVE HeldInv'
    <2>1. \A i \in Items : stage[i] = "pending" => stage'[i] = "pending"
        BY <1>6 DEF Prune, Expired
    <2>2. \A j \in Workers : todo[j] \subseteq Items
        BY <1>1 DEF TypeOK
    <2>3. pc' = [pc EXCEPT ![k] = "selecting"] /\ UNCHANGED <<todo, item>>
        BY <1>6 DEF Prune
    <2>4. \A j \in Workers : pc'[j] \notin {"sending", "recording"}
        BY <1>1, <2>3 DEF Alone, TypeOK
    <2> QED
        BY <2>1, <2>2, <2>3, <2>4
<1>7. ASSUME NEW k \in Workers, Select(k) PROVE HeldInv'
    <2>1. stage' = stage /\ todo'[k] \subseteq Due
        BY <1>1, <1>7 DEF Select, rows, TypeOK
    <2>2. pc'[k] \in {"asleep", "fetching"}
        BY <1>1, <1>7 DEF Select, TypeOK
    <2>3. \A j \in Workers : j = k
        BY DEF Alone
    <2>4. \A i \in Due : stage[i] = "pending"
        BY DEF Due
    <2> QED
        BY <2>1, <2>2, <2>3, <2>4
<1>8. ASSUME NEW k \in Workers, Fetch(k) PROVE HeldInv'
    <2>1. PICK i \in todo[k] : /\ item' = [item EXCEPT ![k] = i]
                               /\ todo' = [todo EXCEPT ![k] = @ \ {i}]
        BY <1>8 DEF Fetch
    <2>2. item'[k] = i /\ todo'[k] = todo[k] \ {i} /\ stage' = stage
        BY <1>1, <1>8, <2>1 DEF Fetch, rows, TypeOK
    <2>3. \A j \in Workers : j = k
        BY DEF Alone
    <2> QED
        BY <2>1, <2>2, <2>3
<1>9. ASSUME NEW k \in Workers,
             Delivered(k) \/ Rejected(k) \/ Unanswered(k) \/ Refuse(k)
      PROVE  HeldInv'
    <2>1. pc[k] = "sending" /\ UNCHANGED <<stage, todo, item>>
        BY <1>9 DEF Delivered, Rejected, Unanswered, Refuse, rows
    <2>2. \A j \in Workers : j = k
        BY DEF Alone
    <2> QED
        BY <2>1, <2>2
<1>10. ASSUME NEW k \in Workers, Record(k) PROVE HeldInv'
    <2>1. pc[k] = "recording" /\ item[k] \notin todo[k] /\ todo' = todo
        BY <1>10 DEF Record
    <2>2. \A i \in Items : i # item[k] => stage'[i] = stage[i]
        BY <1>1, <1>10 DEF Record, rows, TypeOK
    <2>3. pc'[k] \in {"asleep", "fetching"} /\ todo[k] \subseteq Items
        BY <1>1, <1>10 DEF Record, TypeOK
    <2>4. \A j \in Workers : j = k
        BY DEF Alone
    <2> QED
        BY <2>1, <2>2, <2>3, <2>4
<1>11. ASSUME NEW k \in Workers, RowMissing(k) \/ Crash(k) PROVE HeldInv'
    BY <1>11, HeldRestart DEF RowMissing, Crash
<1> QED
    BY <1>2, <1>3, <1>4, <1>5, <1>6, <1>7, <1>8, <1>9, <1>10, <1>11
    DEF Next, Work

\* The one worker production runs keeps the rows it holds to itself.
THEOREM HeldRowsKept ==
    ASSUME Alone
    PROVE  Spec => []HeldRowsWait
<1>1. OutboxInv /\ HeldInv /\ [Next]_vars => HeldInv'
    BY HeldStep
<1>2. HeldInv => HeldRowsWait
    BY DEF HeldInv
<1> QED
    BY <1>1, <1>2, HeldInit, OutboxInvariant, PTL DEF Spec

LEMMA NoRowMissing ==
    ASSUME OutboxInv, HeldRowsWait, NEW k \in Workers
    PROVE  ~RowMissing(k)
BY DEF HeldRowsWait, RowMissing

\* The drain of that worker never ends in DoesNotExist: every row it fetches or
\* records the result of is still there.
THEOREM DrainNeverRaises ==
    ASSUME Alone
    PROVE  Spec => [][\A k \in Workers : ~RowMissing(k)]_vars
<1>1. OutboxInv /\ HeldRowsWait => [\A k \in Workers : ~RowMissing(k)]_vars
    BY NoRowMissing
<1> QED
    BY <1>1, HeldRowsKept, OutboxInvariant, PTL

-----------------------------------------------------------------------------
(* The outbox implements NotifyDelivery. *)

\* What one step can do that NotifyDelivery sees: nothing, or one row is
\* committed, fanned out or settled.
LEMMA DeliveryStep ==
    ASSUME OutboxInv, [Next]_vars
    PROVE  \/ UNCHANGED <<Promised, fanout, Settled>>
           \/ \E i \in Items :
                \/ /\ stage[i] = "absent"
                   /\ Promised' = Promised \cup {i}
                   /\ UNCHANGED <<fanout, Settled>>
                \/ /\ stage[i] # "absent" /\ fanout[i] = 0
                   /\ fanout' = [fanout EXCEPT ![i] = 1]
                   /\ UNCHANGED <<Promised, Settled>>
                \/ /\ i \in accepted /\ i \notin Settled
                   /\ Settled' = Settled \cup {i}
                   /\ UNCHANGED <<Promised, fanout>>
<1> DEFINE Committed(i) == /\ stage[i] = "absent"
                           /\ Promised' = Promised \cup {i}
                           /\ UNCHANGED <<fanout, Settled>>
           Sent(i) == /\ stage[i] # "absent" /\ fanout[i] = 0
                      /\ fanout' = [fanout EXCEPT ![i] = 1]
                      /\ UNCHANGED <<Promised, Settled>>
           Done(i) == /\ i \in accepted /\ i \notin Settled
                      /\ Settled' = Settled \cup {i}
                      /\ UNCHANGED <<Promised, fanout>>
           Goal == \/ UNCHANGED <<Promised, fanout, Settled>>
                   \/ \E i \in Items : Committed(i) \/ Sent(i) \/ Done(i)
<1>1. stage' = stage => UNCHANGED <<Promised, Settled>>
    BY DEF Promised, Settled
<1>2. ASSUME stage' = stage, fanout' = fanout PROVE Goal
    BY <1>1, <1>2
<1>3. CASE UNCHANGED vars
    BY <1>2, <1>3 DEF vars, rows, notify
<1>4. ASSUME NEW i \in Items, Enqueue(i) PROVE Goal
    <2>1. Committed(i)
        BY <1>4 DEF Enqueue, Promised, Settled, notify, OutboxInv, TypeOK
    <2>2. QED
        BY <2>1
<1>5. ASSUME Tick \/ NetworkTurns PROVE Goal
    BY <1>2, <1>5 DEF Tick, NetworkTurns, rows, notify
<1>6. ASSUME NEW k \in Workers, Prune(k) PROVE Goal
    <2>1. UNCHANGED <<Promised, Settled>>
        BY <1>6 DEF Prune, Expired, Promised, Settled
    <2>2. QED
        BY <1>6, <2>1 DEF Prune, notify
<1>7. ASSUME NEW k \in Workers, Select(k) \/ Fetch(k) \/ Rejected(k) \/ Refuse(k)
      PROVE  Goal
    BY <1>2, <1>7 DEF Select, Fetch, Rejected, Refuse, rows, notify
<1>8. ASSUME NEW k \in Workers, Restart(k) PROVE Goal
    BY <1>2, <1>8 DEF Restart, rows, notify
<1>9. ASSUME NEW i \in Items, stage[i] # "absent", Accept(i), UNCHANGED rows
      PROVE  Goal
    <2>1. CASE i \in accepted
        BY <1>2, <1>9, <2>1 DEF Accept, WireKey, rows
    <2>2. CASE i \notin accepted
        <3>1. fanout[i] = 0
            BY <2>2 DEF OutboxInv, NotifyInv
        <3>2. fanout' = [fanout EXCEPT ![i] = fanout[i] + 1]
            BY <1>9, <2>2 DEF Accept, WireKey
        <3>3. fanout' = [fanout EXCEPT ![i] = 1]
            BY <3>1, <3>2
        <3>4. Sent(i)
            BY <1>1, <1>9, <3>1, <3>3 DEF rows
        <3>5. QED
            BY <3>4
    <2>3. QED
        BY <2>1, <2>2
<1>10. ASSUME NEW k \in Workers, Delivered(k) \/ Unanswered(k) PROVE Goal
    <2>1. pc[k] = "sending" /\ UNCHANGED rows
        BY <1>10 DEF Delivered, Unanswered
    <2>2. item[k] \in Items /\ stage[item[k]] # "absent"
        BY <2>1 DEF OutboxInv, WorkerInv
    <2>3. UNCHANGED notify \/ Accept(item[k])
        BY <1>10 DEF Delivered, Unanswered
    <2>4. QED
        BY <1>2, <1>9, <2>1, <2>2, <2>3 DEF rows, notify
<1>11. ASSUME NEW k \in Workers, Record(k) PROVE Goal
    <2> DEFINE i == item[k]
    <2>1. /\ i \in Items /\ stage[i] \notin {"absent", "pruned"}
          /\ result[k] => i \in accepted
          /\ fanout' = fanout
        BY <1>11 DEF Record, notify, OutboxInv, WorkerInv
    <2>2. CASE ~Recordable(i)
        BY <1>2, <1>11, <2>1, <2>2 DEF Record, rows
    <2>3. CASE Recordable(i)
        <3>1. stage' = [stage EXCEPT ![i] =
                            IF result[k] THEN "delivered" ELSE "pending"]
            BY <1>11, <2>3 DEF Record
        <3>2. stage[i] = "pending"
            BY <2>1, <2>3 DEF Recordable, OutboxInv, TypeOK, Stage
        <3>3. CASE result[k]
            <4>1. Done(i)
                BY <2>1, <3>1, <3>2, <3>3
                DEF Promised, Settled, OutboxInv, TypeOK
            <4>2. QED
                BY <2>1, <4>1
        <3>4. CASE ~result[k]
            <4>1. stage' = stage
                BY <2>1, <3>1, <3>2, <3>4 DEF OutboxInv, TypeOK
            <4>2. QED
                BY <1>2, <2>1, <4>1
        <3>5. QED
            BY <3>3, <3>4
    <2>4. QED
        BY <2>2, <2>3
<1>12. QED
    BY <1>3, <1>4, <1>5, <1>6, <1>7, <1>8, <1>10, <1>11
    DEF Next, Work, RowMissing, Crash

\* What DeliveryStep leaves are the steps of NotifyDelivery.
LEMMA OutboxDelivers ==
    ASSUME OutboxInv, [Next]_vars
    PROVE  [Delivery!Next]_(Delivery!vars)
<1>1. CASE UNCHANGED <<Promised, fanout, Settled>>
    BY <1>1 DEF Promised, Settled, Delivery!vars
<1>2. ASSUME NEW i \in Items,
             \/ /\ stage[i] = "absent"
                /\ Promised' = Promised \cup {i}
                /\ UNCHANGED <<fanout, Settled>>
             \/ /\ stage[i] # "absent" /\ fanout[i] = 0
                /\ fanout' = [fanout EXCEPT ![i] = 1]
                /\ UNCHANGED <<Promised, Settled>>
             \/ /\ i \in accepted /\ i \notin Settled
                /\ Settled' = Settled \cup {i}
                /\ UNCHANGED <<Promised, fanout>>
      PROVE  Delivery!Next
    <2>1. i \in accepted => fanout[i] = 1
        BY DEF OutboxInv, NotifyInv
    <2>2. Delivery!Promise(i) \/ Delivery!FanOut(i) \/ Delivery!Settle(i)
        BY <1>2, <2>1
        DEF Promised, Settled, Delivery!Promise, Delivery!FanOut,
            Delivery!Settle
    <2>3. QED
        BY <2>2 DEF Delivery!Next
<1>3. QED
    BY <1>1, <1>2, DeliveryStep

\* However often a row is published, by however many workers, Notify fans its
\* transition out once at most, and Monitor settles it only after that.
THEOREM DeliveryImplemented == Spec => ImplementsDelivery
<1>1. Init => Delivery!Init
    BY DEF Init, Delivery!Init, Promised, Settled
<1>2. OutboxInv /\ [Next]_vars => [Delivery!Next]_(Delivery!vars)
    BY OutboxDelivers
<1>3. QED
    BY <1>1, <1>2, OutboxInvariant, PTL DEF Spec, ImplementsDelivery, Delivery!Spec
=============================================================================

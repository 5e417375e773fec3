------------------------ MODULE MCParallelAcceptance ------------------------
(***************************************************************************)
(* A small instance of ParallelAcceptance for TLC: up to two Kuma entries  *)
(* over two names, each active with a heartbeat, pending, paused or of an  *)
(* unknown status, and every table of the two names in three states.       *)
(***************************************************************************)
EXTENDS ParallelAcceptance

MCNames == {"a", "b"}

Entries ==
    {r \in [name: MCNames \cup {""}, active: {"yes", "no", "absent"},
            status: {NoHeartbeat, -1, 1}, ping: {Unmeasured, 0, 3}] :
        /\ r.status \in {NoHeartbeat, -1} => r.ping = Unmeasured
        /\ r.active = "absent" => r.status = NoHeartbeat
        /\ r.active = "no" => r.status = 1 /\ r.ping = 0
        /\ r.name = "" => r.active = "yes" /\ r.ping = 0}

MCSources == {<<>>} \cup {<<r>> : r \in Entries} \cup
             {<<r, s>> : r \in Entries, s \in Entries}

MCTables ==
    UNION {[N -> {r \in [state: {"UP", "UNKNOWN", "PAUSED"},
                         latency: {Unmeasured, 1}] :
                    r.state # "UP" => r.latency = Unmeasured}] :
           N \in SUBSET MCNames}
=============================================================================

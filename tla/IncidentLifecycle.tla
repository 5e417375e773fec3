------------------------- MODULE IncidentLifecycle --------------------------
(***************************************************************************)
(* What the engine promises of a monitor's outages, with no worker in it:  *)
(* an outage opens exactly one incident and one DOWN alert, its end closes *)
(* that incident with one alert, and no alert is sent twice in a row.      *)
(***************************************************************************)
EXTENDS Integers

CONSTANT Monitors

VARIABLES
    down,       \* down[m]: the monitor is in an outage
    incidents,  \* incidents[m]: number of open incidents
    alert       \* alert[m]: transition of its newest outbox row

vars == <<down, incidents, alert>>

Init ==
    /\ down = [m \in Monitors |-> FALSE]
    /\ incidents = [m \in Monitors |-> 0]
    /\ alert = [m \in Monitors |-> "NONE"]

OutageStarts(m) ==
    /\ ~down[m]
    /\ down' = [down EXCEPT ![m] = TRUE]
    /\ incidents' = [incidents EXCEPT ![m] = 1]
    /\ alert' = [alert EXCEPT ![m] = "DOWN"]

OutageEnds(m) ==
    /\ down[m]
    /\ down' = [down EXCEPT ![m] = FALSE]
    /\ incidents' = [incidents EXCEPT ![m] = 0]
    /\ \E t \in {"RECOVERED", "DEGRADED"} : alert' = [alert EXCEPT ![m] = t]

\* A warning is raised or cleared while no outage is open.
Warn(m) ==
    /\ ~down[m]
    /\ alert[m] # "DEGRADED"
    /\ alert' = [alert EXCEPT ![m] = "DEGRADED"]
    /\ UNCHANGED <<down, incidents>>

WarningClears(m) ==
    /\ ~down[m]
    /\ alert[m] = "DEGRADED"
    /\ alert' = [alert EXCEPT ![m] = "RECOVERED"]
    /\ UNCHANGED <<down, incidents>>

Next ==
    \E m \in Monitors :
        OutageStarts(m) \/ OutageEnds(m) \/ Warn(m) \/ WarningClears(m)

Spec == Init /\ [][Next]_vars
=============================================================================

------------------------------ MODULE HttpProbe ------------------------------
(***************************************************************************)
(* What check_http makes of the answers it gets: the walk over redirects   *)
(* under the target policy (engine._open_validated_http_response,          *)
(* validators.resolve_and_validate_network_target) and the tests of the    *)
(* last response.  MonitorEngine takes these outcomes as choices.          *)
(*                                                                         *)
(* The web is what the probe would meet: web[i] is the i-th URL of the     *)
(* chain with the addresses it resolves to and the response it gives.      *)
(* body is the body of the last response, see Body.                        *)
(***************************************************************************)
EXTENDS Integers, Sequences

CONSTANTS
    AllowPublicTargets,  \* MONITOR_ALLOW_PUBLIC_TARGETS
    Bodies               \* the bodies a target may answer with

\* A body: whether it has a JSON value at the path of the assertion; the text
\* of that value, or of the body if there is none; what str() writes for the
\* value once it is decoded; and whether it is short enough to be inspected.
Body == [found: BOOLEAN, text: STRING, str: STRING, fits: BOOLEAN]

\* Python writes True, False and None for the literals of JSON.
Literal(text, str) == [found |-> TRUE, text |-> text, str |-> str, fits |-> TRUE]
Literals ==
    {Literal("true", "True"), Literal("false", "False"), Literal("null", "None")}

ASSUME ProbeAssumption ==
    /\ AllowPublicTargets \in BOOLEAN
    /\ Bodies \subseteq Body
    /\ Literals \subseteq Bodies

\* A URL of the chain, what it resolves to and how it answers.
Urls ==
    [scheme: STRING, credentials: BOOLEAN, addresses: SUBSET STRING, status: Nat,
     location: BOOLEAN]

\* An address is "listed" in MONITOR_ALLOWED_NETWORKS, "global" or neither.
AddressAllowed(a) == a = "listed" \/ (a = "global" /\ AllowPublicTargets)

TargetAllowed(addresses) ==
    addresses # {} /\ \A a \in addresses : AddressAllowed(a)

\* The probe sends a request to the URL.
Sound(kind, url) ==
    /\ url.scheme \in {"http", "https"}
    /\ ~url.credentials
    /\ kind = "HTTPS" => url.scheme = "https"
    /\ TargetAllowed(url.addresses)

Redirects3xx == {301, 302, 303, 307, 308}

\* Faulty variant: a redirect less is followed.
HopsOneShort == 1..5

\* range(6)
Hops == 1..6

\* The response sends the probe on.
SendsOn(v, url) ==
    url.status \in Redirects3xx /\ v.follow /\ url.location

\* The probe ends its walk at hop i: it is refused or answered there.
EndsAt(v, web, i) ==
    /\ i \in Hops
    /\ \A k \in 1..i - 1 : Sound(v.kind, web[k]) /\ SendsOn(v, web[k])
    /\ ~Sound(v.kind, web[i]) \/ ~SendsOn(v, web[i])

\* The tests of the assertion.  A JSON value is compared as str() writes it,
\* and not at all with the empty string.
AssertionHolds(v, body) ==
    \/ v.assertion = ""
    \/ ~v.json /\ body.fits /\ body.text = v.assertion
    \/ /\ v.json /\ body.fits /\ body.found
       /\ v.assertion = "novalue" \/ body.str = v.assertion

\* The last response at hop i of a walk that was not refused.
Judged(v, web, i, body, certificate) ==
    IF \/ ~Sound(v.kind, web[i])
       \/ web[i].status # v.status
       \/ ~AssertionHolds(v, body)
    THEN "DOWN"
    ELSE IF web[i].scheme = "https"
    THEN CASE certificate = "unreadable" -> "DOWN"
           [] certificate = "expiring" -> "DEGRADED"
           [] certificate = "valid" -> "UP"
    ELSE "UP"

CheckHttp(v, web, body, certificate) ==
    IF \E i \in DOMAIN web : EndsAt(v, web, i)
    THEN LET last == CHOOSE i \in DOMAIN web : EndsAt(v, web, i)
         IN  Judged(v, web, last, body, certificate)
    ELSE "DOWN"
=============================================================================

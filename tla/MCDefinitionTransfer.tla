------------------------- MODULE MCDefinitionTransfer -------------------------
(***************************************************************************)
(* A small instance of DefinitionTransfer for TLC.  Single documents vary  *)
(* every field of an entry, a few at a time; documents of up to two        *)
(* entries meet every baseline over their names.                           *)
(***************************************************************************)
EXTENDS DefinitionTransfer, TLC

Base ==
    [name |-> "a", type |-> "http", features |-> {}, interval |-> 60,
     timeout |-> 10, retries |-> 0, retryInterval |-> Absent, redirects |-> 5,
     scheme |-> "https", target |-> "plain", method |-> "GET",
     statuses |-> <<[exact |-> TRUE, codes |-> {200}]>>, assertion |-> "",
     port |-> 443, record |-> "A", resolver |-> ""]

Status(n) == [exact |-> TRUE, codes |-> {n}]
Range2xx == [exact |-> FALSE, codes |-> {200, 204}]
StatusLists ==
    {<<>>, <<Status(204)>>, <<Status(99)>>, <<Range2xx>>, <<Status(204), Range2xx>>,
     <<Status(200), Status(204)>>, <<Status(204), Status(204)>>}

Assertions ==
    {"", "plain", "inverted", "complex", "novalue", "true", "True", "1"}

\* A text with and without a JSON value, and one that is too long; the literals;
\* a string that reads like Python's; a number with and without a fraction.
AllBodies ==
    {[found |-> TRUE, text |-> t, str |-> t, fits |-> TRUE] :
        t \in {"plain", "other", "True", "1"}}
    \cup {[found |-> f, text |-> "plain", str |-> "plain", fits |-> ~f] : f \in BOOLEAN}
    \cup Literals \cup {Literal("1", "1.0")}
AllTypes == SupportedTypes \cup {"docker"}

SingleEntries ==
    {[Base EXCEPT !.type = t, !.features = f, !.name = n] :
        t \in AllTypes, n \in {"a", ""},
        f \in {{}} \cup {{g} : g \in Refused \cup Dropped}}
    \cup {[Base EXCEPT !.type = t, !.interval = i, !.timeout = s, !.retries = r,
                       !.retryInterval = q] :
        t \in {"http", "push"}, i \in {Absent, 4, 60, Unreadable},
        s \in {Absent, 0, 10, 70}, r \in {Absent, 2}, q \in {Absent, 20}}
    \cup {[Base EXCEPT !.type = t, !.redirects = r, !.statuses = l, !.assertion = a] :
        t \in HttpTypes, r \in {Absent, 0, 3, 6}, l \in StatusLists, a \in Assertions}
    \cup {[Base EXCEPT !.type = t, !.method = m, !.scheme = s, !.target = h,
                       !.assertion = "plain"] :
        t \in HttpTypes, m \in {"GET", "HEAD", "POST"}, s \in {"http", "https", "ftp"},
        h \in {"plain", "malformed", ""}}
    \cup {[Base EXCEPT !.type = t, !.target = h, !.port = p, !.record = r,
                       !.resolver = d] :
        t \in {"port", "tcp", "ping", "dns"}, h \in {"plain", "malformed", ""},
        p \in {0, 443}, r \in {"AAAA", "MX"}, d \in {"", "plain", "malformed"}}

\* Supported, supported with a warning, refused; and an entry without a name.
Shapes ==
    {[Base EXCEPT !.name = n, !.redirects = r, !.method = m] :
        n \in {"a", "b"}, r \in {5, 6}, m \in {"GET"}}
    \cup {[Base EXCEPT !.name = n, !.method = "POST"] : n \in {"a", "b", ""}}

Expectations ==
    {[expected |-> "active", gate |-> g] : g \in {"none", "review", "blocker"}}
    \cup {[expected |-> "retired", gate |-> "none"]}

AllBaselines == UNION {[ns -> Expectations] : ns \in SUBSET {"a", "b"}}
PlainBaseline == "a" :> [expected |-> "active", gate |-> "none"]

\* n redirects and a last answer over https; or one URL of the chain is one the
\* probe refuses, or all are http.
Url(status, location) ==
    [scheme |-> "https", credentials |-> FALSE, addresses |-> {"global", "listed"},
     status |-> status, location |-> location]

Chain(n, last) == [i \in 1..n + 1 |-> IF i = n + 1 THEN last ELSE Url(302, TRUE)]

SoundWebs ==
    {Chain(n, last) : n \in {0, 1, 4, 5, 6},
        last \in {Url(200, FALSE), Url(204, FALSE), Url(302, FALSE)}}

AllWebs ==
    SoundWebs
    \cup {[Chain(2, Url(200, FALSE)) EXCEPT ![i].addresses = {"global", "private"}] :
            i \in 1..3}
    \cup {[Chain(2, Url(200, FALSE)) EXCEPT ![i].scheme = "http"] : i \in 2..3}
    \cup {[Chain(1, Url(200, FALSE)) EXCEPT ![2].credentials = TRUE]}
    \cup {[i \in 1..n |-> [Chain(n - 1, Url(200, FALSE))[i] EXCEPT !.scheme = "http"]] :
            n \in {1, 2}}

AllInputs ==
    {[recognised |-> TRUE, entries |-> <<e>>, baseline |-> PlainBaseline] :
        e \in SingleEntries}
    \cup {[recognised |-> TRUE, entries |-> es, baseline |-> b] :
        es \in BoundedSeq(Shapes, 2), b \in AllBaselines}
    \cup {[recognised |-> FALSE, entries |-> <<>>, baseline |-> PlainBaseline]}
=============================================================================

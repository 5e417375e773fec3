----------------------------- MODULE KumaMapping -----------------------------
(***************************************************************************)
(* What an Uptime Kuma definition becomes (migration.map_kuma_monitor),    *)
(* whether a list of them agrees with the documented baseline              *)
(* (reconcileuptimebaseline.reconcile) and with the monitors that exist    *)
(* (compareuptimekuma).                                                    *)
(*                                                                         *)
(* An entry keeps of the JSON object what the mapping tells apart: numbers *)
(* may be Absent or Unreadable, a target is "plain", "malformed" (refused  *)
(* by validate_target_syntax) or "", an assertion is the keyword or the    *)
(* value of the JSON query, "novalue" when that is the empty string, and   *)
(* accepted_statuscodes is a list of items, exact or not.                  *)
(***************************************************************************)
EXTENDS Integers, FiniteSets, Sequences

Absent == -1
Unreadable == -2

HttpTypes == {"http", "keyword", "json-query"}
SupportedTypes == HttpTypes \cup {"port", "tcp", "ping", "dns", "push"}

\* What an entry may have besides; Refused is not imported at all, Dropped is
\* left out with a warning.
Refused == {"authentication", "ignoreTls", "upsideDown", "proxy", "conditions"}
Dropped == {"notifications", "tags"}

\* An item of accepted_statuscodes: one number, or a range with its numbers.
StatusItems ==
    {i \in [exact: BOOLEAN, codes: SUBSET Nat] : i.exact => \E n \in i.codes : i.codes = {n}}

\* The numbers Uptime Kuma stores are not negative.
Numbers == Nat \cup {Absent, Unreadable}

Entries ==
    [name: STRING, type: STRING, features: SUBSET (Refused \cup Dropped),
     interval: Numbers, timeout: Numbers, retries: Numbers, retryInterval: Numbers,
     redirects: Numbers, scheme: STRING, target: STRING, method: STRING,
     statuses: Seq(StatusItems), assertion: STRING, port: Nat, record: STRING,
     resolver: STRING]

\* A set of at most one issue code.
When(holds, code) == IF holds THEN {code} ELSE {}

\* _int_value for a readable value
Stated(n, default) == IF n = Absent THEN default ELSE n

Interval(e) == Stated(e.interval, 60)
Timeout(e) == Stated(e.timeout, IF Interval(e) < 10 THEN Interval(e) ELSE 10)
Retries(e) == IF e.retries > 0 THEN e.retries ELSE 0
Redirects(e) == Stated(e.redirects, 10)

EntryErrors(e) ==
    When(e.name = "", "missing-name")
    \cup When(e.type \notin SupportedTypes, "unsupported-type")
    \cup (e.features \cap Refused)

TimingUnreadable(e) ==
    Unreadable \in {e.interval, e.timeout, e.retries, e.retryInterval, e.redirects}

TimingErrors(e) ==
    When(Interval(e) < 5, "interval-too-short")
    \cup When(Timeout(e) < 1 \/ (e.type # "push" /\ Timeout(e) > Interval(e)),
              "invalid-timeout")

\* _normalize_json_path finds nothing, or more than plain names and dots.
PathUnusable(e) == e.assertion \in {"", "complex"}

HttpErrors(e) ==
    When(e.scheme \notin {"http", "https"} \/ e.target = "", "invalid-url")
    \cup When(e.method \notin {"GET", "HEAD"}, "unsupported-method")
    \cup When(e.method = "HEAD" /\ e.type # "http", "head-assertion")
    \cup When(e.type = "keyword" /\ e.assertion = "", "missing-keyword")
    \cup When(e.type # "http" /\ e.assertion = "inverted", "inverted-assertion")
    \cup When(e.type = "json-query" /\ PathUnusable(e), "json-path")

HostErrors(e) ==
    When(e.type # "push" /\ e.target = "", "invalid-target")
    \cup When(e.type \in {"port", "tcp"} /\ e.port \notin 1..65535, "invalid-port")
    \cup When(e.type = "dns" /\ e.record \notin {"A", "AAAA", "CNAME"},
              "unsupported-dns-type")
    \cup When(e.type = "dns" /\ e.resolver = "malformed", "invalid-dns-resolver")

TypeErrors(e) == IF e.type \in HttpTypes THEN HttpErrors(e) ELSE HostErrors(e)

\* validate_target_syntax: credentials or a fragment in a URL, a path in a host.
TargetRefused(e) == e.type # "push" /\ e.target = "malformed"

\* full_clean of the candidate.
ValidationErrors(e) == When(TargetRefused(e), "monitor-validation")

\* Faulty variant: ranges beside the one exact status are not looked at.
OneStatusOfExact(e) ==
    \E i \in DOMAIN e.statuses :
        /\ e.statuses[i].exact /\ e.statuses[i].codes \subseteq 100..599
        /\ \A k \in DOMAIN e.statuses : e.statuses[k].exact => k = i

\* accepted_statuscodes has one item, a valid status.
OneStatus(e) ==
    /\ Len(e.statuses) = 1
    /\ e.statuses[1].exact /\ e.statuses[1].codes \subseteq 100..599

ExpectedStatus(e) ==
    IF OneStatus(e)
    THEN CHOOSE n \in 100..599 :
            \E i \in DOMAIN e.statuses : e.statuses[i].exact /\ n \in e.statuses[i].codes
    ELSE 200

Warnings(e) ==
    LET http == e.type \in HttpTypes
    IN  When(Retries(e) > 0, "retry-model-approximation")
        \cup When(Retries(e) > 0 /\ Stated(e.retryInterval, Interval(e)) # Interval(e),
                  "retry-interval-not-preserved")
        \cup (e.features \cap Dropped)
        \cup When(http /\ e.statuses # <<>> /\ ~OneStatus(e), "status-approximation")
        \cup When(http /\ Redirects(e) > 5, "redirect-limit")
        \cup When(e.type = "push", "push-token-rotated")

Kind(e) ==
    CASE e.type \in HttpTypes -> IF e.scheme = "https" THEN "HTTPS" ELSE "HTTP"
      [] e.type \in {"port", "tcp"} -> "TCP"
      [] e.type = "ping" -> "PING"
      [] e.type = "dns" -> "DNS"
      [] e.type = "push" -> "PUSH"

\* The columns of the model where the mapping gives none.
Defaults ==
    [kind |-> "HTTPS", target |-> "plain", resolver |-> "", port |-> 0,
     interval |-> 60, timeout |-> 10, failures |-> 2, recovery |-> 1,
     method |-> "GET", status |-> 200, follow |-> TRUE, json |-> FALSE,
     assertion |-> "", record |-> "A", grace |-> 60, schedule |-> "simple"]

ValuesOf(e) ==
    LET base == [Defaults EXCEPT
                    !.kind = Kind(e), !.target = e.target, !.interval = Interval(e),
                    !.timeout = Timeout(e), !.failures = Retries(e) + 1]
    IN  CASE e.type \in HttpTypes ->
                [base EXCEPT !.method = e.method, !.status = ExpectedStatus(e),
                             !.follow = Redirects(e) # 0,
                             !.json = e.type = "json-query",
                             !.assertion = IF e.type = "http" THEN "" ELSE e.assertion]
          [] e.type \in {"port", "tcp"} -> [base EXCEPT !.port = e.port]
          [] e.type = "ping" -> base
          [] e.type = "dns" -> [base EXCEPT !.record = e.record, !.resolver = e.resolver]
          [] e.type = "push" -> [base EXCEPT !.target = "", !.grace = 5, !.timeout = 1]

\* The mapping returns early where an error leaves nothing to go on with.
Mapping(e) ==
    LET blocked(errors, warnings) ==
            [name |-> e.name, errors |-> errors, warnings |-> warnings,
             values |-> Defaults]
        errors == TimingErrors(e) \cup TypeErrors(e)
    IN  IF EntryErrors(e) # {} THEN blocked(EntryErrors(e), {})
        ELSE IF TimingUnreadable(e) THEN blocked({"invalid-timing"}, {})
        ELSE IF errors # {} THEN blocked(errors, Warnings(e))
        ELSE IF ValidationErrors(e) # {} THEN blocked(ValidationErrors(e), Warnings(e))
        ELSE [name |-> e.name, errors |-> {}, warnings |-> Warnings(e),
              values |-> ValuesOf(e)]

Supported(m) == m.errors = {}
HasWarnings(m) == m.warnings # {}

-----------------------------------------------------------------------------
(* The documented baseline: a function from names to [expected, gate]. *)

Active(baseline) == {n \in DOMAIN baseline : baseline[n].expected = "active"}
Retired(baseline) == {n \in DOMAIN baseline : baseline[n].expected = "retired"}

NamesIn(entries) == {entries[i].name : i \in DOMAIN entries}
Occurrences(entries, n) == {i \in DOMAIN entries : entries[i].name = n}

\* Faulty variant: a name is looked up once, whoever else has it.
DuplicatedNever(entries, n) == FALSE

Duplicated(entries, n) == Cardinality(Occurrences(entries, n)) > 1

SourceStatus(entries, e, baseline) ==
    LET gate == baseline[e.name].gate
        mapped == Mapping(e)
    IN  CASE e.name = "" -> "source-invalid"
          [] e.name # "" /\ Duplicated(entries, e.name) -> "source-duplicate"
          [] OTHER ->
             IF e.name \in Retired(baseline) THEN "retired-present"
             ELSE IF e.name \notin Active(baseline) THEN "unexpected-live"
             ELSE IF gate = "blocker" THEN "baseline-blocker"
             ELSE IF ~Supported(mapped) THEN "unsupported"
             ELSE IF gate = "review" \/ HasWarnings(mapped) THEN "review"
             ELSE "matched"

Reconcile(entries, baseline) ==
    {SourceStatus(entries, entries[i], baseline) : i \in DOMAIN entries}
    \cup When(~(Active(baseline) \subseteq NamesIn(entries)), "expected-missing")

\* No blocker and no review.
Ready(entries, baseline) == Reconcile(entries, baseline) \subseteq {"matched"}

-----------------------------------------------------------------------------
(* The monitors that exist, rows with a name and values. *)

CompareFields == DOMAIN Defaults \ {"schedule"}

Comparison(entries, rows) ==
    LET status(m) ==
            IF ~Supported(m) THEN "unsupported"
            ELSE IF ~\E r \in rows : r.name = m.name THEN "missing"
            ELSE IF \E r \in rows : r.name = m.name
                        /\ \E f \in CompareFields : r.values[f] # m.values[f]
            THEN "different" ELSE "match"
    IN  {status(Mapping(entries[i])) : i \in DOMAIN entries}
        \cup When(\E r \in rows : r.name \notin NamesIn(entries), "monitor-only")

=============================================================================

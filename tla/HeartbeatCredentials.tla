------------------------ MODULE HeartbeatCredentials ------------------------
(***************************************************************************)
(* The credential of one push monitor and the heartbeats it lets in: the   *)
(* push endpoint (views.push_heartbeat over views._resolve_signal_monitor),*)
(* rotation (Monitor.issue_heartbeat_token), the edit view that saves the  *)
(* columns it loaded, and the worker that judges the last heartbeat        *)
(* (engine.check_push).                                                    *)
(*                                                                         *)
(* A request is several statements with no transaction around them: it     *)
(* finds the row, may replace a raw token by its digest, takes the time    *)
(* and writes it.  Secrets are numbered in the order they were issued; 0   *)
(* is the one a row is created with, which nobody was told.                *)
(***************************************************************************)
EXTENDS Integers, FiniteSets

CONSTANTS
    Senders,          \* requests that may be in progress at once
    Allowed,          \* interval_seconds + heartbeat_grace_seconds
    ConcurrentEdits,  \* may another write land between load and save
    MaxSecrets,       \* bound: secrets ever issued
    MaxEdits,         \* bound: edit requests in progress at once
    MaxDelay,         \* bound: how long a request or a check takes
    MaxTime           \* bound: the last tick

ASSUME CredentialsAssumption ==
    /\ Allowed \in Nat
    /\ ConcurrentEdits \in BOOLEAN
    /\ MaxSecrets \in Nat \ {0}
    /\ MaxEdits \in Nat
    /\ MaxDelay \in Nat
    /\ MaxTime \in Nat

Time == 0..MaxTime
Never == -1
Beat == Time \cup {Never}

\* The heartbeat_token column: the secret it verifies, and whether it holds
\* the digest or, in rows from before digests, the secret itself.
Token == [secret: 0..MaxSecrets, hashed: BOOLEAN]

VARIABLES
    now,       \* the clock
    token,     \* Monitor.heartbeat_token
    enabled,   \* Monitor.enabled
    lastBeat,  \* Monitor.last_heartbeat_at
    issued,    \* the newest secret handed to an administrator, 0 when none
    request,   \* request[c]: how far request c has come
    edits,     \* edit requests that loaded the row and have not saved it
    check,     \* the row check_push judges, loaded by run_monitor
    observed,  \* what the newest check observed
    newest,    \* ghost: the latest stamp ever written for a heartbeat
    revived,   \* ghost: an edit has put back a token replaced since it loaded
    kept       \* ghost: the latest of the heartbeats no edit has taken back

row == <<token, enabled, lastBeat>>
ghosts == <<newest, revived, kept>>
vars == <<now, row, issued, request, edits, check, observed, ghosts>>

NoRequest == [phase |-> "none", secret |-> 0, since |-> 0, at |-> Never]
Request ==
    [phase: {"none", "legacy", "known", "stamped"}, secret: 0..MaxSecrets,
     since: Time, at: Beat]

\* With the row that is loaded goes what it is compared with: kept, then.
EditSession ==
    [token: Token, lastBeat: Beat, was: BOOLEAN, enabled: BOOLEAN, since: Time,
     heard: Beat]

Check == [loaded: BOOLEAN, lastBeat: Beat, since: Time, heard: Beat]

NoCheck ==
    [loaded |-> FALSE, lastBeat |-> Never, since |-> 0, heard |-> Never]

\* Besides the types: nothing is stamped ahead of the clock.
TypeOK ==
    /\ now \in Time
    /\ token \in Token
    /\ enabled \in BOOLEAN
    /\ lastBeat \in Beat
    /\ issued \in 0..MaxSecrets
    /\ request \in [Senders -> Request]
    /\ edits \subseteq EditSession
    /\ check \in Check
    /\ observed \in {"NONE", "UP", "DOWN"}
    /\ newest \in Beat
    /\ revived \in BOOLEAN
    /\ kept \in Beat
    /\ lastBeat =< now /\ newest =< now
    /\ \A c \in Senders : request[c].at =< now

\* A monitor created now, whose first secret is yet to be issued, or a row
\* from before digests with the token its sender uses.
Init ==
    /\ now = 0
    /\ \/ token = [secret |-> 0, hashed |-> TRUE] /\ issued = 0
       \/ token = [secret |-> 1, hashed |-> FALSE] /\ issued = 1
    /\ enabled \in BOOLEAN
    /\ lastBeat = Never
    /\ request = [c \in Senders |-> NoRequest]
    /\ edits = {}
    /\ check = NoCheck
    /\ observed = "NONE"
    /\ newest = Never
    /\ revived = FALSE
    /\ kept = Never

-----------------------------------------------------------------------------
(* The push endpoint. *)

\* The column is compared with the bearer's digest and with the bearer as it
\* is.  A digest has a digest of its own, which no column holds.
Verifies(b) ==
    token = b \/ (~b.hashed /\ token = [b EXCEPT !.hashed = TRUE])

\* The row the bearer b is verified by, if the monitor is enabled; anything
\* else is answered 401.
Resolve(c, b) ==
    /\ request[c] = NoRequest
    /\ enabled /\ Verifies(b)
    /\ request' = [request EXCEPT ![c] =
            [phase |-> IF token.hashed THEN "known" ELSE "legacy",
             secret |-> b.secret, since |-> now, at |-> Never]]
    /\ UNCHANGED <<now, row, issued, edits, check, observed, ghosts>>

\* Faulty variant: the digest is written whatever the column holds by now.
UpgradedAlways(s) == [secret |-> s, hashed |-> TRUE]

\* filter(pk, heartbeat_token=raw).update(heartbeat_token=digest)
Upgraded(s) ==
    IF token = [secret |-> s, hashed |-> FALSE]
    THEN [secret |-> s, hashed |-> TRUE] ELSE token

Upgrade(c) ==
    /\ request[c].phase = "legacy"
    /\ token' = Upgraded(request[c].secret)
    /\ request' = [request EXCEPT ![c].phase = "known"]
    /\ UNCHANGED <<now, enabled, lastBeat, issued, edits, check, observed,
                   ghosts>>

\* Faulty variant: the sender's clock, a tick ahead, is believed.
ReceivedAtSender(c) == now + 1

\* received_at
ReceivedAt(c) == now

Stamp(c) ==
    /\ request[c].phase = "known"
    /\ request' = [request EXCEPT ![c].phase = "stamped",
                                  ![c].at = ReceivedAt(c)]
    /\ UNCHANGED <<now, row, issued, edits, check, observed, ghosts>>

Later(a, b) == IF b > a THEN b ELSE a

\* The update looks at nothing but the primary key.
WriteBeat(c) ==
    /\ request[c].phase = "stamped"
    /\ lastBeat' = request[c].at
    /\ newest' = Later(newest, request[c].at)
    /\ kept' = Later(kept, request[c].at)
    /\ request' = [request EXCEPT ![c] = NoRequest]
    /\ UNCHANGED <<now, token, enabled, issued, edits, check, observed, revived>>

-----------------------------------------------------------------------------
(* Administrators. *)

\* Faulty variant: a new credential starts the heartbeat anew.
HeartbeatAfterIssueReset == Never

\* save(update_fields=["heartbeat_token", "updated_at"]) leaves it alone.
HeartbeatAfterIssue == lastBeat

\* The create and rotate views: the digest of a new secret is saved, alone,
\* and the secret is shown once.
IssueToken ==
    /\ issued < MaxSecrets
    /\ issued' = issued + 1
    /\ token' = [secret |-> issued + 1, hashed |-> TRUE]
    /\ lastBeat' = HeartbeatAfterIssue
    /\ revived' = FALSE
    /\ UNCHANGED <<now, enabled, request, edits, check, observed, newest,
                   kept>>

\* The update view loads the row and binds the form to it.
BeginEdit(e) ==
    /\ Cardinality(edits) < MaxEdits
    /\ edits' = edits \cup
            {[token |-> token, lastBeat |-> lastBeat, was |-> enabled,
              enabled |-> e, since |-> now, heard |-> kept]}
    /\ UNCHANGED <<now, row, issued, request, check, observed, ghosts>>

\* form.save writes every column back, the token and the heartbeat included.
\* If that changes the heartbeat, those it has not loaded are taken back.
CommitEdit(s) ==
    /\ s \in edits
    /\ ConcurrentEdits \/ row = <<s.token, s.was, s.lastBeat>>
    /\ edits' = edits \ {s}
    /\ token' = s.token
    /\ lastBeat' = s.lastBeat
    /\ enabled' = s.enabled
    /\ revived' = (revived \/ s.token.secret # token.secret)
    /\ kept' = IF s.lastBeat = lastBeat THEN kept ELSE s.heard
    /\ UNCHANGED <<now, issued, request, check, observed, newest>>

-----------------------------------------------------------------------------
(* The worker and the clock. *)

\* run_monitor reads the row.
LoadCheck ==
    /\ enabled
    /\ ~check.loaded
    /\ check' = [loaded |-> TRUE, lastBeat |-> lastBeat, since |-> now,
                 heard |-> kept]
    /\ UNCHANGED <<now, row, issued, request, edits, observed, ghosts>>

\* Faulty variant: the grace is left out (half of Allowed stands for it).
CurrentWithoutGrace(b) == b # Never /\ 2 * (now - b) =< Allowed

\* Faulty variant: a heartbeat on the record is enough.
CurrentForever(b) == b # Never

\* check_push on the loaded row.
Current(b) == b # Never /\ now - b =< Allowed

AnswerCheck ==
    /\ check.loaded
    /\ observed' = IF Current(check.lastBeat) THEN "UP" ELSE "DOWN"
    /\ check' = NoCheck
    /\ UNCHANGED <<now, row, issued, request, edits, ghosts>>

\* Requests, edits and checks end within MaxDelay.
Tick ==
    /\ now < MaxTime
    /\ \A c \in Senders :
        request[c].phase # "none" => now - request[c].since < MaxDelay
    /\ \A s \in edits : now - s.since < MaxDelay
    /\ check.loaded => now - check.since < MaxDelay
    /\ now' = now + 1
    /\ UNCHANGED <<row, issued, request, edits, check, observed, ghosts>>

-----------------------------------------------------------------------------
\* What senders present is a secret that was issued, or its digest.
Next ==
    \/ \E c \in Senders :
        \/ \E b \in [secret: 1..issued, hashed: BOOLEAN] : Resolve(c, b)
        \/ Upgrade(c) \/ Stamp(c) \/ WriteBeat(c)
    \/ IssueToken
    \/ \E e \in BOOLEAN : BeginEdit(e)
    \/ \E s \in edits : CommitEdit(s)
    \/ LoadCheck
    \/ AnswerCheck
    \/ Tick

Spec == Init /\ [][Next]_vars

-----------------------------------------------------------------------------
(* Properties. *)

\* The endpoint lets the newest secret in and no text of an older one, however
\* rotations and the upgrades of requests that found the old one overlap.
\* Only an edit that saves the token it loaded before a rotation can undo it.
\* What the column holds is let in as well as the secret: models.py says of
\* the digests it stores that they are no credentials, views.py:69 accepts one.
NewestSecretOnly ==
    ~revived =>
        /\ Verifies([secret |-> issued, hashed |-> FALSE])
        /\ \A b \in Token : Verifies(b) => b.secret = issued

\* A heartbeat that was acknowledged counts: the column is at most the length
\* of a request behind the latest one, though the updates of overlapping
\* requests land in any order and tokens are rotated between them.  An edit
\* that sets the heartbeat back takes back those acknowledged while it was in
\* progress, and no other.
BeatsKept == lastBeat >= kept - MaxDelay

\* A sender that is on time, with the length of a request to spare, is not
\* reported: a check observes DOWN only when no heartbeat acknowledged before
\* it read the row is that recent, those aside that an edit had taken back.
DownIsEarned ==
    (check.loaded /\ ~Current(check.lastBeat)) =>
        check.heard = Never \/ now - check.heard > Allowed - MaxDelay

\* A silent sender is reported: whatever edits, rotations and late updates did
\* to the row, a check observes UP only if a sender with the secret was heard
\* within the allowed age.
SilenceIsDown ==
    [][observed' = "UP" /\ check.loaded /\ ~check'.loaded =>
        newest # Never /\ now - newest =< Allowed]_vars
=============================================================================

---------------------- MODULE HeartbeatCredentialsProofs ----------------------
(***************************************************************************)
(* Proofs about HeartbeatCredentials: its types, the credential that is    *)
(* verified, and what the column of the last heartbeat still says when     *)
(* updates land late, tokens are rotated and edits save what they loaded.  *)
(***************************************************************************)
EXTENDS HeartbeatCredentials, TLAPS

\* A request in progress is at most MaxDelay old and stamped since it began.
RequestsRecent ==
    \A c \in Senders : request[c].phase # "none" =>
        /\ request[c].since =< now
        /\ now - request[c].since =< MaxDelay
        /\ request[c].phase = "stamped" => request[c].at >= request[c].since

\* No copy of the heartbeat, and none that counts, is later than the latest
\* that was heard.
BeatsHeard ==
    /\ lastBeat =< newest /\ kept =< newest
    /\ \A s \in edits : s.lastBeat =< newest /\ s.heard =< newest
    /\ check.lastBeat =< newest

Timely == TypeOK /\ RequestsRecent /\ BeatsHeard

\* The heartbeat column knows of every heartbeat that counts, and so do the
\* copies of it that edits and a check hold of those that counted then.
BeatsCurrent ==
    /\ BeatsKept
    /\ kept # Never => lastBeat # Never
    /\ \A s \in edits :
        /\ s.lastBeat >= s.heard - MaxDelay
        /\ s.heard # Never => s.lastBeat # Never
    /\ check.loaded =>
        /\ check.lastBeat >= check.heard - MaxDelay
        /\ check.heard # Never => check.lastBeat # Never

IInv == Timely /\ BeatsCurrent

-----------------------------------------------------------------------------
LEMMA TimelyInit == Init => Timely
<1>1. MaxSecrets \in Nat \ {0} /\ MaxTime \in Nat /\ MaxDelay \in Nat
    BY CredentialsAssumption
<1>2. SUFFICES ASSUME Init PROVE Timely
    OBVIOUS
<1>b. 0 \in 0..MaxSecrets /\ 1 \in 0..MaxSecrets /\ 0 \in 0..MaxTime
    BY <1>1
<1>3. token \in Token /\ issued \in 0..MaxSecrets
    <2>1. CASE token = [secret |-> 0, hashed |-> TRUE] /\ issued = 0
        BY <1>b, <2>1 DEF Token
    <2>2. CASE token = [secret |-> 1, hashed |-> FALSE] /\ issued = 1
        BY <1>b, <2>2 DEF Token
    <2> QED
        BY <1>2, <2>1, <2>2 DEF Init
<1>4. NoRequest \in Request /\ NoCheck \in Check
    BY <1>1 DEF NoRequest, Request, NoCheck, Check, Beat, Time, Never
<1>5. request \in [Senders -> Request] /\ check \in Check
    BY <1>2, <1>4 DEF Init
<1>6. \A c \in Senders : request[c].at = Never /\ request[c].phase = "none"
    BY <1>2 DEF Init, NoRequest
<1>7. TypeOK
    <2>1. now \in Time /\ lastBeat \in Beat /\ newest \in Beat /\ kept \in Beat
        BY <1>2, <1>b DEF Init, Beat, Time
    <2>2. lastBeat =< now /\ newest =< now /\ \A c \in Senders : request[c].at =< now
        BY <1>2, <1>6 DEF Init, Never
    <2>3. edits \subseteq EditSession
        BY <1>2 DEF Init
    <2> QED
        BY <1>2, <1>3, <1>5, <2>1, <2>2, <2>3 DEF Init, TypeOK
<1>8. RequestsRecent
    BY <1>6 DEF RequestsRecent
<1>9. BeatsHeard
    BY <1>2 DEF Init, BeatsHeard, NoCheck, Never
<1> QED
    BY <1>7, <1>8, <1>9 DEF Timely

LEMMA TimelyNext == Timely /\ [Next]_vars => Timely'
<1>1. MaxSecrets \in Nat \ {0} /\ MaxTime \in Nat /\ MaxDelay \in Nat
    BY CredentialsAssumption
<1> SUFFICES ASSUME Timely, [Next]_vars PROVE Timely'
    OBVIOUS
<1>2. TypeOK /\ RequestsRecent /\ BeatsHeard
    BY DEF Timely
<1>a. NoRequest \in Request /\ NoCheck \in Check
    BY <1>1 DEF NoRequest, Request, NoCheck, Check, Beat, Time, Never
<1>3. ASSUME NEW c \in Senders,
             NEW b \in [secret: 1..issued, hashed: BOOLEAN], Resolve(c, b)
      PROVE  Timely'
    <2>1. request' = [request EXCEPT ![c] =
              [phase |-> IF token.hashed THEN "known" ELSE "legacy",
               secret |-> b.secret, since |-> now, at |-> Never]]
        BY <1>3 DEF Resolve
    <2>2. [phase |-> IF token.hashed THEN "known" ELSE "legacy",
           secret |-> b.secret, since |-> now, at |-> Never] \in Request
        BY <1>1, <1>2 DEF TypeOK, Request, Beat, Time, Never
    <2>3. request' \in [Senders -> Request]
        BY <1>2, <2>1, <2>2 DEF TypeOK
    <2>4. TypeOK'
        BY <1>1, <1>2, <1>3, <2>1, <2>3
        DEF Resolve, row, ghosts, TypeOK, Time, Never
    <2>5. RequestsRecent'
        BY <1>1, <1>2, <1>3, <2>1 DEF Resolve, RequestsRecent, TypeOK, Time
    <2>6. BeatsHeard'
        BY <1>2, <1>3 DEF Resolve, row, ghosts, BeatsHeard
    <2> QED
        BY <2>4, <2>5, <2>6 DEF Timely
<1>4. ASSUME NEW c \in Senders, Upgrade(c)
      PROVE  Timely'
    <2>1. request' = [request EXCEPT ![c].phase = "known"]
        BY <1>4 DEF Upgrade
    <2>2. request' \in [Senders -> Request]
        BY <1>2, <2>1 DEF TypeOK, Request
    <2>3. token' \in Token
        BY <1>2, <1>4 DEF Upgrade, Upgraded, TypeOK, Token, Request
    <2>4. TypeOK'
        BY <1>2, <1>4, <2>1, <2>2, <2>3 DEF Upgrade, ghosts, TypeOK
    <2>5. RequestsRecent'
        BY <1>2, <1>4, <2>1 DEF Upgrade, RequestsRecent, TypeOK
    <2>6. BeatsHeard'
        BY <1>2, <1>4 DEF Upgrade, ghosts, BeatsHeard
    <2> QED
        BY <2>4, <2>5, <2>6 DEF Timely
<1>5. ASSUME NEW c \in Senders, Stamp(c)
      PROVE  Timely'
    <2>1. request' = [request EXCEPT ![c].phase = "stamped", ![c].at = now]
        BY <1>5 DEF Stamp, ReceivedAt
    <2>2. request' \in [Senders -> Request]
        BY <1>2, <2>1 DEF TypeOK, Request, Beat
    <2>3. \A d \in Senders :
            /\ request'[d].at = IF d = c THEN now ELSE request[d].at
            /\ request'[d].since = request[d].since
            /\ d # c => request'[d].phase = request[d].phase
        <3>1. request \in [Senders -> Request]
            BY <1>2 DEF TypeOK
        <3>2. request' = [request EXCEPT ![c] =
                  [request[c] EXCEPT !.phase = "stamped", !.at = now]]
            BY <2>1, <3>1
        <3> QED
            BY <3>1, <3>2 DEF Request
    <2>4. TypeOK'
        <3>1. now' = now /\ now \in Int
            BY <1>2, <1>5 DEF Stamp, TypeOK, Time
        <3>2. \A d \in Senders : request'[d].at =< now'
            BY <1>2, <2>3, <3>1 DEF TypeOK
        <3> QED
            BY <1>2, <1>5, <2>2, <3>2 DEF Stamp, row, ghosts, TypeOK
    <2>5. RequestsRecent'
        <3>1. request[c].phase = "known" /\ now' = now
            BY <1>5 DEF Stamp
        <3>2. now >= request[c].since
            BY <1>2, <3>1 DEF RequestsRecent, TypeOK, Request, Time
        <3> QED
            BY <1>2, <2>3, <3>1, <3>2 DEF RequestsRecent
    <2>6. BeatsHeard'
        BY <1>2, <1>5 DEF Stamp, row, ghosts, BeatsHeard
    <2> QED
        BY <2>4, <2>5, <2>6 DEF Timely
<1>6. ASSUME NEW c \in Senders, WriteBeat(c)
      PROVE  Timely'
    <2>1. request' = [request EXCEPT ![c] = NoRequest]
        BY <1>6 DEF WriteBeat
    <2>2. request' \in [Senders -> Request]
        BY <1>2, <1>a, <2>1 DEF TypeOK
    <2>3. request[c].at \in Beat /\ request[c].at =< now
        BY <1>2 DEF TypeOK, Request
    <2>4. TypeOK'
        <3>1. now' = now /\ now \in Nat /\ lastBeat' = request[c].at
            BY <1>1, <1>2, <1>6 DEF WriteBeat, TypeOK, Time
        <3>2. newest' \in Beat /\ newest' =< now /\ kept' \in Beat
            BY <1>2, <1>6, <2>3 DEF WriteBeat, Later, TypeOK
        <3>3. \A d \in Senders : request'[d].at =< now
            BY <1>2, <2>1, <3>1 DEF TypeOK, NoRequest, Never
        <3> QED
            BY <1>2, <1>6, <2>2, <2>3, <3>1, <3>2, <3>3 DEF WriteBeat, TypeOK
    <2>5. RequestsRecent'
        BY <1>2, <1>6, <2>1 DEF WriteBeat, RequestsRecent, TypeOK, NoRequest
    <2>6. newest' \in Int /\ newest' >= newest /\ newest' >= lastBeat'
          /\ kept' =< newest'
        BY <1>1, <1>2, <1>6, <2>3
        DEF WriteBeat, Later, TypeOK, BeatsHeard, Beat, Time, Never
    <2>7. newest \in Int /\ check.lastBeat \in Int
          /\ \A s \in edits : s.lastBeat \in Int /\ s.heard \in Int
        BY <1>1, <1>2 DEF TypeOK, EditSession, Check, Beat, Time, Never
    <2>8. lastBeat' \in Int
        BY <1>1, <1>6, <2>3 DEF WriteBeat, Beat, Time, Never
    <2>9. BeatsHeard'
        BY <1>2, <1>6, <2>6, <2>7, <2>8 DEF WriteBeat, BeatsHeard
    <2> QED
        BY <2>4, <2>5, <2>9 DEF Timely
<1>7. CASE IssueToken
    <2>1. issued' \in 0..MaxSecrets /\ token' \in Token
        BY <1>1, <1>2, <1>7 DEF IssueToken, TypeOK, Token
    <2>2. TypeOK'
        BY <1>2, <1>7, <2>1 DEF IssueToken, HeartbeatAfterIssue, TypeOK
    <2>3. RequestsRecent'
        BY <1>2, <1>7 DEF IssueToken, RequestsRecent
    <2>4. BeatsHeard'
        BY <1>2, <1>7 DEF IssueToken, HeartbeatAfterIssue, BeatsHeard
    <2> QED
        BY <2>2, <2>3, <2>4 DEF Timely
<1>8. ASSUME NEW e \in BOOLEAN, BeginEdit(e)
      PROVE  Timely'
    <2>1. edits' \subseteq EditSession
        BY <1>2, <1>8 DEF BeginEdit, TypeOK, EditSession
    <2>2. TypeOK'
        BY <1>2, <1>8, <2>1 DEF BeginEdit, row, ghosts, TypeOK
    <2>3. RequestsRecent'
        BY <1>2, <1>8 DEF BeginEdit, row, ghosts, RequestsRecent
    <2>4. BeatsHeard'
        BY <1>2, <1>8 DEF BeginEdit, row, ghosts, BeatsHeard
    <2> QED
        BY <2>2, <2>3, <2>4 DEF Timely
<1>9. ASSUME NEW s \in edits, CommitEdit(s)
      PROVE  Timely'
    <2>1. s \in EditSession /\ s.lastBeat =< newest /\ s.heard =< newest
        BY <1>2 DEF TypeOK, BeatsHeard
    <2>2. s.lastBeat \in Beat /\ s.token \in Token /\ s.enabled \in BOOLEAN
          /\ s.heard \in Beat
        BY <2>1 DEF EditSession
    <2>3. s.lastBeat =< now
        BY <1>1, <1>2, <2>1, <2>2 DEF TypeOK, Beat, Time, Never
    <2>4. edits' \subseteq edits
        BY <1>9 DEF CommitEdit
    <2>5. TypeOK'
        BY <1>2, <1>9, <2>2, <2>3, <2>4 DEF CommitEdit, TypeOK
    <2>6. RequestsRecent'
        BY <1>2, <1>9 DEF CommitEdit, RequestsRecent
    <2>7. BeatsHeard'
        BY <1>2, <1>9, <2>1, <2>4 DEF CommitEdit, BeatsHeard
    <2> QED
        BY <2>5, <2>6, <2>7 DEF Timely
<1>10. CASE LoadCheck
    <2>1. check' \in Check /\ check'.lastBeat = lastBeat
        BY <1>2, <1>10 DEF LoadCheck, TypeOK, Check
    <2>2. TypeOK'
        BY <1>2, <1>10, <2>1 DEF LoadCheck, row, ghosts, TypeOK
    <2>3. RequestsRecent'
        BY <1>2, <1>10 DEF LoadCheck, row, ghosts, RequestsRecent
    <2>4. BeatsHeard'
        BY <1>2, <1>10, <2>1 DEF LoadCheck, row, ghosts, BeatsHeard
    <2> QED
        BY <2>2, <2>3, <2>4 DEF Timely
<1>11. CASE AnswerCheck
    <2>1. check' = NoCheck /\ observed' \in {"UP", "DOWN"}
        BY <1>11 DEF AnswerCheck
    <2>2. TypeOK'
        BY <1>2, <1>a, <1>11, <2>1 DEF AnswerCheck, row, ghosts, TypeOK
    <2>3. RequestsRecent'
        BY <1>2, <1>11 DEF AnswerCheck, row, ghosts, RequestsRecent
    <2>4. -1 =< newest
        BY <1>1, <1>2 DEF TypeOK, Beat, Time, Never
    <2>5. BeatsHeard'
        BY <1>2, <1>11, <2>1, <2>4
        DEF AnswerCheck, row, ghosts, BeatsHeard, NoCheck, Never
    <2> QED
        BY <2>2, <2>3, <2>5 DEF Timely
<1>12. CASE Tick
    <2>1. now \in Nat /\ now' = now + 1 /\ now' \in Time
        BY <1>1, <1>2, <1>12 DEF Tick, TypeOK, Time
    <2>2. \A c \in Senders : request[c] \in Request
        BY <1>2 DEF TypeOK
    <2>3. \A c \in Senders :
            /\ request[c].at \in Int /\ request[c].since \in Int
            /\ request[c].at =< now
        BY <1>1, <1>2, <2>2 DEF TypeOK, Request, Beat, Time, Never
    <2>4. lastBeat \in Int /\ newest \in Int /\ lastBeat =< now /\ newest =< now
        BY <1>1, <1>2 DEF TypeOK, Beat, Time, Never
    <2>5. lastBeat =< now' /\ newest =< now'
          /\ \A c \in Senders : request[c].at =< now'
        BY <2>1, <2>3, <2>4
    <2>6. TypeOK'
        BY <1>2, <1>12, <2>1, <2>5 DEF Tick, row, ghosts, TypeOK
    <2>7. RequestsRecent'
        BY <1>1, <1>2, <1>12, <2>1, <2>3 DEF Tick, RequestsRecent
    <2>8. BeatsHeard'
        BY <1>2, <1>12 DEF Tick, row, ghosts, BeatsHeard
    <2> QED
        BY <2>6, <2>7, <2>8 DEF Timely
<1>13. CASE UNCHANGED vars
    <2>1. TypeOK'
        BY <1>2, <1>13 DEF vars, row, ghosts, TypeOK
    <2>2. RequestsRecent'
        BY <1>2, <1>13 DEF vars, row, ghosts, RequestsRecent
    <2>3. BeatsHeard'
        BY <1>2, <1>13 DEF vars, row, ghosts, BeatsHeard
    <2> QED
        BY <2>1, <2>2, <2>3 DEF Timely
<1> QED
    BY <1>3, <1>4, <1>5, <1>6, <1>7, <1>8, <1>9, <1>10, <1>11, <1>12, <1>13
    DEF Next

\* Every variable keeps its type and nothing is stamped ahead of the clock
\* (views.push_heartbeat, engine.check_push), for any number of requests,
\* secrets and edits.
THEOREM CredentialTypes == Spec => []TypeOK
<1>1. Spec => []Timely
    BY TimelyInit, TimelyNext, PTL DEF Spec
<1>2. Timely => TypeOK
    BY DEF Timely
<1> QED
    BY <1>1, <1>2, PTL

-----------------------------------------------------------------------------
(* The credential. *)

\* The column holds the newest secret or its digest.
HoldsNewest == ~revived => token.secret = issued

LEMMA SecretNext == HoldsNewest /\ [Next]_vars => HoldsNewest'
<1> SUFFICES ASSUME HoldsNewest, [Next]_vars PROVE HoldsNewest'
    OBVIOUS
<1>1. ASSUME NEW c \in Senders, Upgrade(c)
      PROVE  HoldsNewest'
    <2>1. Upgraded(request[c].secret).secret = token.secret
        BY DEF Upgraded
    <2>2. token'.secret = token.secret /\ issued' = issued /\ revived' = revived
        BY <1>1, <2>1 DEF Upgrade, ghosts
    <2> QED
        BY <2>2 DEF HoldsNewest
<1>2. CASE IssueToken
    BY <1>2 DEF IssueToken, HoldsNewest
<1>3. ASSUME NEW s \in edits, CommitEdit(s)
      PROVE  HoldsNewest'
    BY <1>3 DEF CommitEdit, HoldsNewest
<1>4. ASSUME NEW c \in Senders, WriteBeat(c)
      PROVE  HoldsNewest'
    BY <1>4 DEF WriteBeat, HoldsNewest
<1>5. ASSUME UNCHANGED <<row, issued, ghosts>>
      PROVE  HoldsNewest'
    BY <1>5 DEF row, ghosts, HoldsNewest
<1>6. ASSUME NEW c \in Senders,
             NEW b \in [secret: 1..issued, hashed: BOOLEAN], Resolve(c, b)
      PROVE  UNCHANGED <<row, issued, ghosts>>
    BY <1>6 DEF Resolve
<1>7. ASSUME NEW c \in Senders, Stamp(c)
      PROVE  UNCHANGED <<row, issued, ghosts>>
    BY <1>7 DEF Stamp
<1>8. ASSUME NEW e \in BOOLEAN, BeginEdit(e)
      PROVE  UNCHANGED <<row, issued, ghosts>>
    BY <1>8 DEF BeginEdit
<1>9. LoadCheck \/ AnswerCheck \/ Tick \/ UNCHANGED vars
        => UNCHANGED <<row, issued, ghosts>>
    BY DEF LoadCheck, AnswerCheck, Tick, vars
<1> QED
    BY <1>1, <1>2, <1>3, <1>4, <1>5, <1>6, <1>7, <1>8, <1>9 DEF Next

\* The endpoint lets the newest secret in and no text of an older one, unless
\* an edit put back the token it had loaded: whatever requests, digest upgrades
\* (views._resolve_signal_monitor) and rotations
\* (Monitor.issue_heartbeat_token) overlap, and however many.
THEOREM NewestSecret == Spec => []NewestSecretOnly
<1>1. Init => HoldsNewest
    BY DEF Init, HoldsNewest
<1>2. TypeOK /\ HoldsNewest => NewestSecretOnly
    <2> SUFFICES ASSUME TypeOK, HoldsNewest, ~revived PROVE
            /\ Verifies([secret |-> issued, hashed |-> FALSE])
            /\ \A b \in Token : Verifies(b) => b.secret = issued
        BY DEF NewestSecretOnly
    <2>1. token \in Token /\ token.secret = issued
        BY DEF TypeOK, HoldsNewest
    <2>2. token = [secret |-> issued, hashed |-> token.hashed]
          /\ token.hashed \in BOOLEAN
        BY <2>1 DEF Token
    <2>3. Verifies([secret |-> issued, hashed |-> FALSE])
        BY <2>2 DEF Verifies
    <2>4. ASSUME NEW b \in Token, Verifies(b) PROVE b.secret = issued
        <3>1. CASE token = b
            BY <2>1, <3>1
        <3>2. CASE token = [b EXCEPT !.hashed = TRUE]
            BY <2>1, <3>2 DEF Token
        <3> QED
            BY <2>4, <3>1, <3>2 DEF Verifies
    <2> QED
        BY <2>3, <2>4
<1> QED
    BY <1>1, <1>2, SecretNext, CredentialTypes, PTL DEF Spec

-----------------------------------------------------------------------------
(* The heartbeat. *)

\* The times the rows, requests and checks hold are integers.
LEMMA Times ==
    ASSUME TypeOK
    PROVE  /\ MaxDelay \in Nat /\ Allowed \in Nat
           /\ now \in Nat /\ lastBeat \in Int /\ newest \in Int /\ kept \in Int
           /\ check.lastBeat \in Int /\ check.heard \in Int
           /\ \A c \in Senders :
                /\ request[c].since \in Nat /\ request[c].at \in Int
           /\ \A s \in edits : s.lastBeat \in Int /\ s.heard \in Int
           /\ -1 =< lastBeat /\ -1 =< newest
<1>1. MaxDelay \in Nat /\ Allowed \in Nat /\ MaxTime \in Nat
    BY CredentialsAssumption
<1>2. \A b \in Beat : b \in Int /\ -1 =< b
    BY <1>1 DEF Beat, Time, Never
<1>3. now \in Nat
    BY <1>1 DEF TypeOK, Time
<1>4. lastBeat \in Beat /\ newest \in Beat /\ kept \in Beat /\ check \in Check
    BY DEF TypeOK
<1>5. check.lastBeat \in Beat /\ check.heard \in Beat
    BY <1>4 DEF Check
<1>6. \A c \in Senders : request[c].since \in Time /\ request[c].at \in Beat
    BY DEF TypeOK, Request
<1>7. \A c \in Senders : request[c].since \in Nat
    BY <1>1, <1>6 DEF Time
<1>8. \A s \in edits : s.lastBeat \in Beat /\ s.heard \in Beat
    BY DEF TypeOK, EditSession
<1> QED
    BY <1>1, <1>2, <1>3, <1>4, <1>5, <1>6, <1>7, <1>8

LEMMA CurrentInit == Init => BeatsCurrent
<1> SUFFICES ASSUME Init PROVE BeatsCurrent
    OBVIOUS
<1>1. MaxDelay \in Nat
    BY CredentialsAssumption
<1>2. lastBeat = -1 /\ kept = -1 /\ edits = {} /\ ~check.loaded
    BY DEF Init, NoCheck, Never
<1> QED
    BY <1>1, <1>2 DEF BeatsCurrent, BeatsKept, Never

LEMMA CurrentNext == IInv /\ [Next]_vars => BeatsCurrent'
<1> SUFFICES ASSUME IInv, [Next]_vars PROVE BeatsCurrent'
    OBVIOUS
<1>1. TypeOK /\ RequestsRecent /\ BeatsHeard /\ BeatsCurrent
    BY DEF IInv, Timely
<1>2. /\ MaxDelay \in Nat /\ now \in Nat /\ lastBeat \in Int /\ kept \in Int
      /\ newest \in Int /\ check.lastBeat \in Int /\ check.heard \in Int
    BY <1>1, Times
<1>3. ASSUME UNCHANGED <<row, ghosts>>, UNCHANGED <<edits, check>>
      PROVE  BeatsCurrent'
    BY <1>1, <1>3 DEF row, ghosts, BeatsCurrent, BeatsKept
<1>4. ASSUME NEW c \in Senders, WriteBeat(c)
      PROVE  BeatsCurrent'
    <2>1. /\ request[c].phase = "stamped" /\ lastBeat' = request[c].at
          /\ kept' = IF request[c].at > kept THEN request[c].at ELSE kept
          /\ UNCHANGED <<edits, check>>
        BY <1>4 DEF WriteBeat, Later
    <2>2. request[c].since \in Nat /\ request[c].at \in Int
        BY <1>1, Times
    <2>3. now - request[c].since =< MaxDelay /\ request[c].at >= request[c].since
        BY <1>1, <2>1 DEF RequestsRecent
    <2>4. kept =< now
        BY <1>1, <1>2 DEF TypeOK, BeatsHeard
    <2>5. lastBeat' >= kept' - MaxDelay /\ lastBeat' # -1
        BY <1>2, <2>1, <2>2, <2>3, <2>4
    <2> QED
        BY <1>1, <2>1, <2>5 DEF BeatsCurrent, BeatsKept, Never
<1>5. ASSUME NEW c \in Senders, Upgrade(c)
      PROVE  BeatsCurrent'
    BY <1>1, <1>5 DEF Upgrade, ghosts, BeatsCurrent, BeatsKept
<1>6. CASE IssueToken
    BY <1>1, <1>6 DEF IssueToken, HeartbeatAfterIssue, BeatsCurrent, BeatsKept
<1>7. ASSUME NEW s \in edits, CommitEdit(s)
      PROVE  BeatsCurrent'
    <2>1. /\ lastBeat' = s.lastBeat
          /\ kept' = IF s.lastBeat = lastBeat THEN kept ELSE s.heard
        BY <1>7 DEF CommitEdit
    <2>2. edits' \subseteq edits /\ UNCHANGED check
        BY <1>7 DEF CommitEdit
    <2>3. /\ s.lastBeat >= s.heard - MaxDelay
          /\ s.heard # Never => s.lastBeat # Never
        BY <1>1 DEF BeatsCurrent
    <2>4. BeatsKept' /\ (kept' # Never => lastBeat' # Never)
        BY <1>1, <2>1, <2>3 DEF BeatsCurrent, BeatsKept
    <2> QED
        BY <1>1, <2>2, <2>4 DEF BeatsCurrent
<1>8. ASSUME NEW e \in BOOLEAN, BeginEdit(e)
      PROVE  BeatsCurrent'
    <2>1. UNCHANGED <<row, ghosts>> /\ UNCHANGED check
        BY <1>8 DEF BeginEdit
    <2>2. \A s \in edits' :
            s \in edits \/ (s.lastBeat = lastBeat /\ s.heard = kept)
        BY <1>8 DEF BeginEdit
    <2> QED
        BY <1>1, <2>1, <2>2 DEF row, ghosts, BeatsCurrent, BeatsKept
<1>9. CASE LoadCheck
    <2>1. UNCHANGED <<row, ghosts>> /\ UNCHANGED edits
        BY <1>9 DEF LoadCheck
    <2>2. check'.lastBeat = lastBeat /\ check'.heard = kept
        BY <1>9 DEF LoadCheck
    <2> QED
        BY <1>1, <2>1, <2>2 DEF row, ghosts, BeatsCurrent, BeatsKept
<1>10. CASE AnswerCheck
    <2>1. UNCHANGED <<row, ghosts>> /\ UNCHANGED edits /\ ~check'.loaded
        BY <1>10 DEF AnswerCheck, NoCheck
    <2> QED
        BY <1>1, <2>1 DEF row, ghosts, BeatsCurrent, BeatsKept
<1>11. ASSUME NEW c \in Senders,
              NEW b \in [secret: 1..issued, hashed: BOOLEAN], Resolve(c, b)
       PROVE  BeatsCurrent'
    BY <1>3, <1>11 DEF Resolve
<1>12. ASSUME NEW c \in Senders, Stamp(c)
       PROVE  BeatsCurrent'
    BY <1>3, <1>12 DEF Stamp
<1>13. CASE Tick
    BY <1>3, <1>13 DEF Tick
<1>14. CASE UNCHANGED vars
    BY <1>3, <1>14 DEF vars
<1> QED
    BY <1>4, <1>5, <1>6, <1>7, <1>8, <1>9, <1>10, <1>11, <1>12, <1>13, <1>14
    DEF Next

LEMMA Invariance == Spec => []IInv
<1>1. Init => IInv
    BY TimelyInit, CurrentInit DEF IInv
<1>2. IInv /\ [Next]_vars => IInv'
    BY TimelyNext, CurrentNext DEF IInv
<1> QED
    BY <1>1, <1>2, PTL DEF Spec

\* The heartbeat column is at most the length of a request behind the latest
\* heartbeat that was acknowledged, but for those that an edit took back which
\* was in progress then (views.push_heartbeat, MonitorUpdateView).
THEOREM HeartbeatsKept == Spec => []BeatsKept
<1>1. IInv => BeatsKept
    BY DEF IInv, BeatsCurrent
<1> QED
    BY <1>1, Invariance, PTL

\* A sender that is on time, with the length of a request to spare, is not
\* reported DOWN (engine.check_push), unless an edit took its heartbeats back
\* (MonitorUpdateView).
THEOREM DownEarned == Spec => []DownIsEarned
<1>1. IInv => DownIsEarned
    <2> SUFFICES ASSUME IInv, check.loaded, ~Current(check.lastBeat),
                        check.heard # Never
                 PROVE  now - check.heard > Allowed - MaxDelay
        BY DEF DownIsEarned
    <2>1. /\ MaxDelay \in Nat /\ Allowed \in Nat /\ now \in Nat
          /\ check.lastBeat \in Int /\ check.heard \in Int
        BY Times DEF IInv, Timely
    <2>2. check.lastBeat >= check.heard - MaxDelay /\ check.lastBeat # Never
        BY DEF IInv, BeatsCurrent
    <2>3. ~(now - check.lastBeat =< Allowed)
        BY <2>2 DEF Current
    <2> QED
        BY <2>1, <2>2, <2>3
<1> QED
    BY <1>1, Invariance, PTL

\* A silent sender is not observed UP, whatever edits, rotations and late
\* updates did to its row (engine.check_push).
THEOREM SilenceReported == Spec => SilenceIsDown
<1>1. IInv /\ [Next]_vars =>
        [observed' = "UP" /\ check.loaded /\ ~check'.loaded =>
            newest # Never /\ now - newest =< Allowed]_vars
    <2> SUFFICES ASSUME IInv, Next, observed' = "UP", check.loaded, ~check'.loaded
                 PROVE  newest # Never /\ now - newest =< Allowed
        OBVIOUS
    <2>1. /\ Allowed \in Nat /\ now \in Nat /\ newest \in Int
          /\ check.lastBeat \in Int /\ check.lastBeat =< newest
        BY Times DEF IInv, Timely, BeatsHeard
    <2>2. check.lastBeat >= -1
        <3>1. MaxTime \in Nat /\ check \in Check
            BY CredentialsAssumption DEF IInv, Timely, TypeOK
        <3> QED
            BY <3>1 DEF Check, Beat, Time, Never
    <2>3. AnswerCheck
        <3>1. check' # check
            OBVIOUS
        <3>2. \A c \in Senders, b \in [secret: 1..issued, hashed: BOOLEAN] :
                Resolve(c, b) => check' = check
            BY DEF Resolve
        <3>3. \A c \in Senders : Upgrade(c) \/ Stamp(c) \/ WriteBeat(c) => check' = check
            BY DEF Upgrade, Stamp, WriteBeat
        <3>4. IssueToken \/ Tick => check' = check
            BY DEF IssueToken, Tick
        <3>5. \A e \in BOOLEAN : BeginEdit(e) => check' = check
            BY DEF BeginEdit
        <3>6. \A s \in edits : CommitEdit(s) => check' = check
            BY DEF CommitEdit
        <3>7. ~LoadCheck
            BY DEF LoadCheck
        <3> QED
            BY <3>1, <3>2, <3>3, <3>4, <3>5, <3>6, <3>7 DEF Next
    <2>4. check.lastBeat # -1 /\ now - check.lastBeat =< Allowed
        BY <2>3 DEF AnswerCheck, Current, Never
    <2> QED
        BY <2>1, <2>2, <2>4 DEF Never
<1> QED
    BY <1>1, Invariance, PTL DEF Spec, SilenceIsDown
=============================================================================

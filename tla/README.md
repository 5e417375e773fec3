# GoreeCloud Monitor in TLA+

TLA+ modules, TLC configurations and TLAPS proofs for GoreeCloud Monitor: the
check engine and its incidents, the durable notification outbox, the worker's
loop, scheduled-job signals, heartbeats and their credentials, the commands
that carry definitions in and out, and the gate before Uptime Kuma is retired.
`PROJECT.json` lists the runs, the source lines behind each definition, the
hazards and the theorems.

## The system

A Django web application (gunicorn: two workers of four threads) and one
asyncio worker (`manage.py runmonitor`, restarted by the container runtime when
it ends) share a PostgreSQL database. Nothing else connects them: every
interaction is one actor writing a row that another reads. The database runs
READ COMMITTED, requests are not wrapped in transactions, and only
`_apply_outcome`, `_record_publish_result`, `record_job_signal` and
`prune_monitor_history` open one.

| Component | State it keeps | Operations | What makes it correct |
|---|---|---|---|
| Check engine (`engine.py`) | monitor state and counters, check results, open incidents, outbox rows | `run_batch`, `run_monitor`, `_mark_maintenance`, `_apply_outcome` | incidents open and close on the evidence the thresholds ask for, once, and are announced |
| Monitor row (`models.py`, edit, delete and maintenance views, `admin.py`) | configuration, `enabled`, windows | `Monitor.save`, create, edit, pause, resume, delete, windows | a paused monitor reads paused, whoever wrote last |
| Worker command (`runmonitor.py`) | none that outlives it | prune, select due monitors, run the batch, sleep | a restart loses nothing that was committed; no failing check starves the outbox or a signal |
| Outbox and publisher (`outbox.py`, `notifications.py`) | pending and delivered rows, attempts, next attempt | prune, select, publish with retries, record | at most one notification for a transition, none lost |
| Scheduled jobs (`jobs.py`, `views.job_signal`) | job events | record with replay and rate limit, evaluate | a replay is recorded once; a missed job is reported, and only a missed one |
| Retention (`retention.py`) | none | prune check results and job events | pruning changes no evaluation |
| Heartbeat credentials and push (`views.py`, `models.py`) | token digest, last heartbeat | rotate, upgrade, push | the newest secret alone is verified; a heartbeat that was acknowledged counts |
| Probes and target policy (`engine.py`, `validators.py`, `icmp.py`) | none | HTTP with redirects, TCP, Ping, DNS | every hop is validated; every answer is classified |
| Manager API, dashboard, exports (`views.py`) | none | reads | pages cover the table while it changes |
| Parallel acceptance (`parallel.py`, `assessparallel`, `compareuptimestate`) | report files | compare snapshots, assess a series | the verdict follows from all the evidence |
| Import, export, migration (`migration.py`, `kuma_sanitize.py`, commands) | monitors, windows | map, reconcile, import with its options, export | an import is all or nothing, and nothing is approximated in silence |
| Audit, middleware, preflight, settings, the JavaScript producer, the sentry proxy, scripts, packaging | none | logging, headers, deployment | not modelled |

What is hard here: an outcome is applied seconds after the monitor and its
windows were read; edits save every column of a row loaded earlier; the worker
may die between any two transactions; Notify's answer may be lost; requests are
stamped before they wait for a lock, so events are committed out of stamp
order; and incidents hang on edges of a column that four writers move.

## Modules

| Module | Models | Extends |
|---|---|---|
| `MonitorState` | `Monitor.save` and the pure part of `_apply_outcome`: counters, next state, incident and alert of one step | |
| `MonitorEngine` | the worker against edits, deletion, windows and crashes | `MonitorState` |
| `IncidentLifecycle` | abstract: an outage opens one incident and one DOWN alert, its end closes it | |
| `NotifyOutbox` | drain loop, publisher, Notify behind its network, restarts | |
| `NotifyDelivery` | abstract: at most one fan-out for a committed transition, settled only after it | |
| `WorkerCycle` | the loop of `runmonitor`: query, `is_due`, batch, drain, sleep; the exception that ends it | `NotifyOutbox` |
| `JobSignals` | signals, evaluation and pruning of one scheduled job | |
| `HeartbeatCredentials` | push endpoint, credential rotation and `check_push` of one monitor | |
| `KumaMapping` | pure: what a Kuma definition becomes, reconciliation with the baseline, comparison of definitions | |
| `HttpProbe` | pure: the redirect walk of `check_http`, the target policy, the tests of the last response | |
| `DefinitionTransfer` | Kuma import, portable export and import, manager pages, beside administrators | `KumaMapping`, `HttpProbe` |
| `ParallelAcceptance` | comparison of Kuma snapshots with Monitor's rows, and the assessment of a series of comparisons | |
| `MonitorEngineProofs`, `NotifyOutboxProofs`, `HeartbeatCredentialsProofs`, `ParallelAcceptanceProofs` | theorems and proofs | the component and `TLAPS` |
| `FiniteOrder` | lemmas on greatest elements of finite sets, last and next members of a set of numbers | `TLAPS` |
| `JobSignalsProofs`, `DefinitionTransferProofs` | theorems and proofs | the component and `FiniteOrder` |
| `WorkerCycleProofs` | theorems and proofs | `WorkerCycle`, `NotifyOutboxProofs` |
| `MCMonitorEngine`, `MCNotifyOutbox`, `MCWorkerCycle`, `MCJobSignals`, `MCHeartbeatCredentials`, `MCDefinitionTransfer`, `MCParallelAcceptance` | model values, symmetry and small data for TLC | the component |

Each component module defines, right before an operator of the code, a
`Faulty variant` of it: a plausible defect (a missing reset, a dropped guard)
under which some property fails. Nothing of the model uses them; `PROJECT.json`
pairs each with the property that catches it.

### State and actions

**MonitorEngine.** `row[m]` holds the columns a check or a save decides on
(`state`, `enabled`, the two counters); `open[m]` counts Incident rows without
`ended_at`; `alert[m]` is the transition of the newest outbox row; `streak[m]`
is a ghost, the run of equal successes that ends the check history, from which
the properties tell what evidence there was. `run_monitor` is cut at its awaits:
`BeginCheck` (windows read), `MarkMaintenance`, `LoadMonitor` (`enabled` read),
`Probe`, `ApplyOutcome` (one transaction). `SelectBatch` takes any set of
enabled monitors, which stands for whatever is due. `MonitorMissing` is the
`DoesNotExist` that nobody catches: it ends the process and its batch. An edit is
`BeginEdit` (the row is loaded), then `CommitEdit` (every column of the loaded
row is written back, inserting the row again if it was deleted) or
`AbandonEdit`. The constant `ConcurrentEdits` says whether a commit may land on
a row that changed since it was loaded: the code allows it, and what is then
lost is described under "Limits of the code".

**NotifyOutbox.** A row goes from `absent` to `pending`, `delivered` and
`pruned`. A worker's cycle is `Prune`, `Select` (the first `Limit` rows due),
`Fetch`, some attempts (`Delivered`, `Rejected`, `Unanswered`, `Refuse`) and
`Record`. `Unanswered` covers transport errors, 429 and 5xx, in which Notify may
or may not have taken the request. `Accept` and `NetworkTurns` are external:
Notify is modelled from the contract the code relies on, a known idempotency
key is answered as a replay. `Poison` rows are those it refuses for good.

**WorkerCycle.** `turn` is where the loop stands, `phase[m]` where
`run_monitor(m)` does. `Query` is the one query of a cycle, which reads
`last_checked_at`; `IsDue` loads `enabled` row by row, since the query asks for
other columns; `Begin`, `Perform` and `Apply` are the check, cut at its awaits;
`BeginDrain` follows `gather`, and `Drain` is a step of `NotifyOutbox` by its one
worker. `Raise` is the `DoesNotExist` of a monitor deleted under `is_due` or a
check: the process ends, the drain does not take place. `checked[m]` is the age
of `last_checked_at`, which a `Signal` sets to null. An edit is `BeginEdit`, which
loads the row, and `SaveEdit`, which writes `last_checked_at` back as it was
loaded and `enabled` as the form says; it pauses, resumes, and inserts a row that
was deleted meanwhile. `unserved` and `unread` are ghosts: the age of the oldest
signal no applied check, or no check, has read, held while the monitor is paused.
`overtaken` is one too: the jobs whose null a check or an edit wrote a time over.

**HeartbeatCredentials.** A request is cut between its statements: `Resolve`
(the row is found: the column is compared with the bearer's digest and with the
bearer as it is, so a column that holds a digest lets that digest in),
`Upgrade` (a raw token is replaced by
its digest if the column still holds it), `Stamp`, `WriteBeat`. `IssueToken` is
`issue_heartbeat_token`, which saves the token alone; `BeginEdit` and
`CommitEdit` are the edit, which saves the token and the heartbeat it loaded.
`LoadCheck` and `AnswerCheck` are `check_push` on the row `run_monitor` read.
Secrets are numbered in the order of issue. `newest`, `revived` and `kept` are
ghosts: the latest stamp ever written, whether an edit has put back an older
token, and the latest stamp that no edit has taken back (an edit takes back what
was written since it loaded the row, and what it loaded counts again).

**KumaMapping.** `Mapping` is `map_kuma_monitor` with its early returns: codes
of errors and warnings, and the columns. An entry keeps of the JSON object what
the code tells apart; numbers may be absent or unreadable, an assertion is a
keyword or a JSON query, `accepted_statuscodes` a list of items that are exact or
not. `Reconcile` and `Comparison` are the statuses of the two reports.

**HttpProbe.** `CheckHttp` is `check_http` over a chain of URLs, each with the
addresses it resolves to and the response it gives: `EndsAt` is where the loop
of six requests is refused or answered, `Sound` what is validated before each
request, `Judged` the tests of the last response. A certificate is valid,
expiring or unreadable. A body may have a JSON value at the path, and then has
two texts: the one in the document and the one Python's `str` writes for it,
with which `AssertionHolds` compares. They differ for `true`, `false` and `null`
(`Literals`), and for a number written in more than one way.

**DefinitionTransfer.** `op` is the command that runs: `kuma` (`Look`, `Plan`,
`Save`, `FinishKuma`), `export` (`ReadMonitors`, `ListWindows`, one `ReadCovers`
for each window, `EndExport`), `import`
(`Look`, `Open`, `Save`, `FinishImport`) or `pages` (`NextPage`). `todo` are the
rows to write, each an `Item` with its place in the document, and `staged` the
rows of an open transaction; `returned` is the sequence of pages. `Create`,
`Delete`, `CreateWindow`, `SaveWindow` and `DeleteWindow` are administrators
between any two queries of a command. `later` and `stayed` are ghosts: what was
created since the command looked, and the jobs that were there all the while.
`Wanted`, `Preserves` and `Accepts` say, without using mapping or probe, what a
Kuma entry asks of a body, a monitor and an answer; `Inexpressible` are the
entries whose settings have no equal and are altered without a warning.

**JobSignals.** `Stamp` is the view up to `received_at`; `Record` and `Refuse`
are `record_job_signal` under the row lock, in any order of the waiting
requests. Events carry type, identity, stamp and row id. `Phase` is
`evaluate_job_monitor` as a function of the rows and the time, and `Observed`
what the engine is told. Pruning reads what to keep (`BeginPrune`) and then
deletes (`FinishPrune`). `newest` is a ghost: what was ever recorded, pruned or
not.

**ParallelAcceptance.** `Report` is `compare_runtime_snapshots`: a record for
each Kuma entry, with the status that the first failing test gives it, and one
for each row only Monitor has. `TakeIn` is one turn of the loop of
`evaluate_parallel_series`, `Reject` the `ValueError` that ends it, `Ready` and
`Blockers` what it answers. `equivalent` and `watched` are ghosts: whether the
two systems really agreed, by a definition (`Agree`) that uses no status, and
which monitors there were. A latency is a number of at least zero or
unmeasured; NaN, which a JSON document may hold, is left out.

## Runs

| Run | Question | Bounds | Distinct states |
|---|---|---|---|
| `engine_races` | does the pause rule, and the agreement of incidents and alerts, survive every interleaving of the writers; does a monitor left alone keep its lifecycle | two monitors in one batch, the one that is edited, deleted and covered by windows a job, one edit at a time, two open incidents | 3 985 140 |
| `engine_serial` | do incidents follow the evidence when no save is stale; is a lasting outage, or lasting health, found in the end | one monitor, thresholds 3 and 2, one edit, one crash, two open incidents | 233 502 |
| `outbox_races` | is a transition ever lost or announced twice | two rows, two workers, two attempts, one crash | 677 362 |
| `worker_cycle` | do signals and the outbox get their turn, whatever a check raises | one job with interval 3 and period 2, two rows of which one is refused, batch limit 1, one tick inside a cycle, one edit at a time, one crash or deletion | 1 653 506 |
| `job_signals` | replay, rate limit, lateness and pruning | three modes, two clients, three events, seven ticks | 1 844 052 |
| `credentials` | do rotations, upgrades, late updates and stale edits leave the right secret and a true heartbeat | two senders, two secrets, each raw or as its digest, one edit, one tick for a request, allowed age 2, four ticks | 4 080 402 |
| `definitions` | imports, exports and pages beside administrators, and the mapping | two names, over 700 documents of one entry, all of up to two entries of seven shapes with every baseline over two names, pages of one, chains of zero, one, four, five and six redirects, ten bodies, two changes | 2 424 228 |
| `parallel` | does the verdict follow from the evidence, all of it and nothing else | two names, up to two Kuma entries of 15 shapes, three observations | 5 654 |
| `engine_window`, `engine_job`, `job_rate`, `job_cron` | four statements of the documents that the code does not keep | minimal | |

Why the bounds are enough. A monitor's incidents depend on no other monitor's
row, so one monitor shows every race on a row and two show every disturbance
inside a batch. Counters saturate at `CounterCap`, at least both thresholds; the
code only compares a counter with its threshold, so nothing is lost. `EngineRaces` takes the
recovery threshold 1, the default, and no crash (`MaxCrashes` 0), and
`EngineSerial` has the crash. `MaxOpen`
stops edits, windows and UNKNOWN answers on a monitor with that many open
incidents: it bounds how many a monitor gathers, and the properties compare
with one. In the outbox the delays are scaled (the exponent stops at `ExpCap`,
the delay at `RetryCap`); in the code the exponent stops at 10, so the longest
delay is 1024 s and the 3600 s of the source is never reached. In `JobSignals`
occurrences are three ticks apart, a minute is one tick, and three events are
the fewest that let a pruned, a kept and a late one meet. `MaxDelay` says how
long a request waits for the lock; retention is longer (the setting is at least
a day), which `JobAssumption` states. Time ends at `MaxTime`, where the system
may stop, and so may a series of observations or a command: the three
configurations of `JobSignals`, `Credentials.cfg`, `Definitions.cfg` and
`Parallel.cfg` switch deadlock checking off, no other does. In `Worker.cfg` the
job's interval is longer than `JobPeriod`, so that the two differ, and one tick
may pass inside a cycle, so that a signal may arrive before, during and after
the reading of a check. Edits may be loaded before a signal and saved after it any
number of times, one at a time; a deletion and a crash both end a batch early, so
`MaxCrashes` bounds the two together, and a row deleted once may come back with
an edit. In `Credentials.cfg` the allowed age is longer than a
request takes, and time lasts for one tick more than it, so that a heartbeat
may be late, on time or expired. In `Definitions.cfg` the documents of one
entry vary every field that `Mapping` looks at, each with those it meets in a
condition; two entries are the fewest that share a name, and two changes let an
administrator create and delete in one run. The chains of URLs end before, at
and after the last redirect that is followed; the bodies have the assertion's text
with and without a JSON value, within and beyond the inspection limit, and the
literals, a string and a number that `str` writes otherwise or the same. In
`ParallelAcceptance` three observations are one more than the run requires, so
a good series may turn bad after it was ready, and two names tell a monitor
that is missing from one that is there twice.

### Fairness

`MonitorEngine`: asyncio runs every task that can run (`WF` of `Check(m)`). A
monitor that is due stays due until it is checked and is then in every batch
selected, but a crash or a disabled spell may come between two batches, so its
selection is only repeatedly enabled (`SF`). Nothing is assumed of
administrators, windows or crashes; crashes are bounded by `MaxCrashes`, as a
worker that dies in every cycle checks nothing. `EngineSerial` checks its
safety properties under the same `LiveSpec`.

`WorkerCycle`: a worker that can go on does (`WF` of `Step`, every statement of
its loop together: it is one thread of control), and time passes (`WF` of
`CycleTick`). Nothing is assumed of clients or administrators: pausing a monitor
for ever is no fault, and monitors are deleted finitely often (`MaxCrashes`), so
that a raising check ends finitely many cycles. Time may pass inside a cycle, at most `MaxBusy` ticks of
it, as the timeouts of probes and of the publisher bound it.
`EventuallyDelivered` then needs the longest backoff (`RetryCap`) to exceed the
length of a cycle and the refused rows to be few against `Limit` times that
backoff: both are so in production (100 rows a cycle, delays up to 1024 s).

## Theorems

TLAPS proves these for all values of the constants that satisfy the modules'
assumptions; every leaf is checked.

- `TypeCorrect`, `PauseRule`, `Announced` (`MonitorEngine`, no other
  assumption). The pause rule is inductive together with the types: an edit
  session's base row need not satisfy it, since `Save` restores it whatever it
  is given. What is not restored is a mark on a disabled monitor, hence the
  MAINTENANCE in the rule.
- `DownExplained`, `IncidentsEarned`, `RecoveriesEarned`, under
  `~ConcurrentEdits`. The inductive invariants tie the counters to the check
  history (each is the length of the run of equal results that ends the history
  if its last result was of that kind, and 0 if not) and every uncommitted
  outcome to a phase. Without the hypothesis they are false: a stale save
  brings old counters and an old state back.
- `LifecycleImplemented`: the refinement mapping sends a steady monitor's row to
  "in an outage" when it reads DOWN. The invariant behind it: a steady monitor
  is present, is never in MAINTENANCE, no edit session refers to it, and it has
  one open incident exactly while it is DOWN.
- `RecoveryCloses` says of the same invariant what it means where every monitor
  is steady: a recovery leaves no incident open, so what `engine_job` shows takes
  a job, a pause, a window or an edit.
- `OutboxTypes`, `DeliveryEarned`, `DeliveryIsFinal`, `DeliveryImplemented`. The
  inductive invariant says that a worker whose result is positive publishes a
  row whose key Notify has accepted, that every accepted key is a committed
  row's and that a row is fanned out once exactly when its key is accepted.
- `HeldRowsKept`, `DrainNeverRaises`, for a worker that is alone: the rows it
  selected stay pending until it gets to them, so `get` never raises
  DoesNotExist. The invariant needs that a row is begun once in a batch
  (`HeldInv`): recording it then leaves the rest of the batch alone. With two
  workers `HeldRowsWait` is false, so no run checks it, and in `OutboxRaces.cfg`,
  which has two, `RowMissing` happens.
- `CredentialTypes`, `NewestSecret`, `HeartbeatsKept`, `DownEarned`,
  `SilenceReported` (`HeartbeatCredentials`, no other assumption; edits may be
  as stale as they like). Which secret is verified needs no invariant but
  itself: the upgrade compares before it writes. The heartbeat needs more. `RequestsRecent` says that a request in
  progress holds a stamp from its own time and is at most `MaxDelay` old, so
  that a late update sets the column back by no more; `BeatsHeard` that no copy
  of the heartbeat, in the row, an edit or a check, is later than the latest
  heard, which is all `SilenceReported` rests on; and `BeatsCurrent` that the
  heartbeat of the row is a request's length behind `kept` at most, and the one
  an edit or a check loaded behind what was `kept` then.
- `VerdictTypes`, `VerdictExact`, `BlockersComplete` (`ParallelAcceptance`). A
  report without a non-match is one of two systems that agree, names Monitor's
  monitors and none twice (`NoNonMatchMeans`). The inductive invariant says
  that the counts tell the same: no non-match exactly while every observation
  agreed, no drift exactly while all watched the baseline, and full parity
  exactly when both hold.

- `JobTypes`, `IdentityOnce`, `RateOverrun`, `PruningInvisible`, `LateEarned`,
  `MissedReported` (`JobSignals`). Four invariants carry them. `RowsSound`: every
  waiting request has a row id left, and no stamp of one is older than
  `MaxDelay`. `MinuteBounded`: the events in the minute of an event, together
  with the waiting requests that were stamped in that minute before it, are
  fewer than the limit plus the number of clients; the limit alone is not
  inductive, since an event's minute may fill up after it was counted.
  `PruningSafe`: the rows a pruning is about to leave hold all the evaluation
  looks at, and whatever is still recorded is younger than its cutoff.
  `Remembered`: an event that was pruned is followed by a completion that was
  not, so the rows left say as much as all that ever were. `MissedReported` has
  the hypothesis `GraceBelowPeriod` for cron jobs, the opposite of what
  `job_cron` shows to fail; `JobSignals.cfg` satisfies it.
- `RateInTurn` is `RateKept` for one client: signals that do not overlap never
  take a minute over its limit, which `job_rate` shows of two that do.
- `DefinitionTypes`, `ImportWhole`, `TargetWasEmpty`, `ReviewedOnly`,
  `RoundTrip`, `PagesCover`, `SilencePreserves`, `JudgedAlike`, `ReadyImports`
  (`DefinitionTransfer`). While a command writes, the staged rows say exactly
  what its document asks and is no longer to do, none of it refused and no name
  twice (`Progress`); when it is over, the target says all of it or nothing
  (`Outcome`). Both speak of the rows' names, columns and activation and leave
  open how the mapping makes them. For the pages, no id of a page is at or after
  the cursor and every job that stayed is on a page or at or after it
  (`Covered`). `SilencePreserves` and `JudgedAlike` are about the mapping and
  the probe themselves: for every entry, not only the documents of the run, a
  mapping without a code keeps what the entry asks exactly when the entry is not
  `Inexpressible`, and the redirect walk then ends with the answer the entry
  accepts, by cases on types, statuses, redirects and assertions. `OneStatusMeans`
  is the lemma on the list of statuses, `AssertionsMean` that no other JSON
  query tells the two notations of a value apart. `ReviewedOnly` says both that
  nothing is enabled which `--activate` did not ask for and that nothing with a
  warning is. `ReadyImports` says of an empty table that nobody changes that a
  ready document is imported under every combination of options, enabled as
  they say; it names no monitor twice and maps each without a code, so that only
  a target in use can refuse it.
  `RoundTrip` also says that an export nobody disturbed is accepted by an empty
  target; `Unhindered` follows its document for that from the table, where no
  name is there twice, to the last staged row.
- `CycleTypes`, `SignalsSoon`, `SignalsInTime` (`WorkerCycle`). That a signal has
  waited for at most two cycles is not inductive, as a later state of the cycle
  must know that its monitor was not left out. `Timely` says how long a signal
  may have waited by whether its check is still to come in this cycle
  (`Coming`): no longer than the cycle, or one more cycle and the sleep if it is;
  and if a time has been written over its null, longer by less than one period
  (`Slack`). `Stamped` is why the query cannot pass it over: its null stands, or
  it is younger than the time in its place. `Reading` is why that is so when a
  check is applied, and `Loaded`, the same of the time an edit holds, why it is
  so when an edit is saved. `Unread` and `Held` keep them across the checks and
  pauses between.
- `LoopDeliveryEarned`, `LoopDelivery`: the loop's steps are steps of
  `NotifyOutbox`, stutters, or the restart after an exception, which
  `NotifyOutbox` has only for its own rows; its inductive invariant is kept by
  all three, so what is proved of the outbox holds inside the loop.
- `LoopHolds`: the drain inside the loop finds every row it holds. That is why
  `Drain` has no exit by an exception, and the checks' are the only ones that
  end the process.

What is assumed of the constants is what the modules state: finite sets of
monitors, clients and names (rows of a table), intervals and limits above zero,
a retention longer than a request waits, a cron expression that has recurred
before, documents whose entries have the shape of `Entries` (the numbers Uptime
Kuma stores are not negative), bodies among which are the JSON literals. No bound of a configuration is assumed; the
theorems quantify over `MaxTime`, `MaxEvents`, `MaxChanges` and `MaxCrashes`.

Only model-checked: the liveness properties (`OutageDetected`,
`HealthDetected`, `EventuallyDelivered`), as fairness and ENABLED are out of
TLAPS's reach. Every other property of a passing run is a theorem.

## Limits of the code

Four violation runs show where the code and what is said of it part.

1. `engine_window`: windows are read once, before the probe. A window that
   starts during a probe does not stop its failure from opening an incident.
2. `engine_job`: a job that recovers through UNKNOWN keeps its incident open
   and writes no RECOVERED alert. Monitors that are only checked leave none
   open (`RecoveryCloses`).
3. `job_rate`: the counted minute ends at a stamp taken before the row lock, so
   it is overrun by requests committed out of stamp order. `RateNearlyKept`
   bounds the overrun by the requests in progress, and with one at a time there
   is none (`RateInTurn`).
4. `job_cron`: with a grace at least as long as the cron period, a missed
   occurrence is replaced before its deadline and never reported.

Others have no run of their own; the properties state what holds in spite of
them.

- An edit that was loaded before a check result and saved after it restores the
  state and counters from before, so a monitor may read UP with an open
  incident, or DOWN with none, until the next results put it right. It restores
  the token it loaded likewise, which `NewestSecretOnly` excepts (`revived`).
- A signal that arrives when a check of its job has read the events and not yet
  been applied waits for an evaluation period, as the check overwrites the null;
  so does one that arrives between the load and the save of an edit, which
  writes the `last_checked_at` it loaded (`overtaken`, which `SignalSeenSoon`
  excepts; `SignalSeenInTime` bounds the wait all the same).
- An edit takes back the heartbeats that were acknowledged while it was in
  progress, so a sender that is on time may be reported: `BeatsKept` and
  `DownIsEarned` are about those it has not taken back (`kept`).
- The push endpoint compares the column with the bearer as it is, for rows from
  before digests, and does so for every row: a stored digest is let in as its
  secret is. `NewestSecretOnly` is about both; `models.py:75` says of the stored
  values that they are "never reusable raw credentials".
- Whether the target of an import is empty is asked outside its transaction: a
  monitor created meanwhile stays beside the imported ones (`OthersCameLater`).
- Three settings of Uptime Kuma become something else without a warning, where
  `docs/uptime-kuma-migration.md:16` says that settings are not "silently
  approximated": redirect limits of one to four become "up to five"
  (`migration.py:266` keeps only whether redirects are followed); a JSON query
  for the value "" becomes a test that the path exists (`engine.py:104` compares
  only a value that is not empty); and one for `true`, `false` or `null`, or for
  a number written otherwise, is compared with Python's notation of the value,
  so that it reads DOWN on the very answer it asks for. They are `Inexpressible`:
  `SilentMeansPreserved` says that these are altered and no others are, and
  `ActivatedJudgesAlike` excepts them.

## Not modelled

Listed with reasons in `PROJECT.json` under "components". In the modelled
parts: payload and message texts, response times, TLS expiry dates, the fields
of a monitor that only a probe reads, thresholds edited while the worker runs,
the correlation of job runs and their durations, the comparison of a replayed
signal's payload (a replay and a conflict record nothing either way), and
`record_job_event`, which no request reaches. In the commands: the parsing of
JSON beyond "one of the known formats", the reports they write, and the filter
`kuma_sanitize`, which drops what its allowlist does not name. The TCP, Ping, DNS and ICMP
probes are one exchange each, and the engine takes the outcomes of all probes as
choices; `HttpProbe` has `check_http` and the target policy, but not which
addresses a network of the setting holds. The dashboard,
the exports of one query and the manager's detail view read and write nothing
back; `job_history_export` reads its pages newest first from a table that grows
at that end.

`WorkerCycle` leaves what a check finds to `MonitorEngine` and `JobSignals`: it
may announce a transition or not. Windows, which mark a monitor as checked
without evaluating it, are in `MonitorEngine`, as is what edits that overlap a
check do to state and counters.

## Possible extensions

1. An abstract specification of an import (one atomic step that adds all the
   rows or none) that `DefinitionTransfer` implements, and of a job's history
   that `JobSignals` implements with pruning as a stutter. `ImportWhole` and
   `PruningInvisible` state the invariants such refinements would rest on.
2. `NotifyDelivery` with the order of a monitor's transitions, should the
   documents come to promise one: a row that was put off is now delivered after
   younger ones.

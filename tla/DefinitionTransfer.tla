-------------------------- MODULE DefinitionTransfer --------------------------
(***************************************************************************)
(* The commands that carry monitor definitions in and out, each a process  *)
(* of its own beside the administrators: importuptimekuma, exportmonitors, *)
(* importmonitors, and the walk of a manager client through the pages of   *)
(* views.manager_jobs.  One of them runs at a time.                        *)
(*                                                                         *)
(* The imports look whether the target is empty, then write in one         *)
(* transaction; the export and the walk are several queries with nothing   *)
(* around them.                                                            *)
(***************************************************************************)
EXTENDS KumaMapping, HttpProbe, SequencesExt

CONSTANTS
    Names,       \* names administrators give
    Inputs,      \* Uptime Kuma documents, each with a documented baseline:
                 \* [recognised, entries, baseline]
    Webs,        \* chains of URLs a check may meet, see HttpProbe
    PageLimit,   \* the limit a manager client asks for
    MaxChanges   \* bound: what administrators change in a behaviour

ASSUME TransferAssumption ==
    /\ IsFiniteSet(Names)
    /\ PageLimit \in Nat \ {0}
    /\ MaxChanges \in Nat
    /\ \A input \in Inputs : input.entries \in Seq(Entries)
    /\ Webs \subseteq Seq(Urls)

VARIABLES
    monitors,  \* committed Monitor rows
    windows,   \* committed MaintenanceWindow rows with what they cover
    nextId,    \* the sequence of primary keys, one for both tables
    op,        \* the command that runs
    step,      \* how far it is
    options,   \* its options
    file,      \* the Uptime Kuma document and the baseline
    doc,       \* the portable document
    todo,      \* what the command has yet to write or to read
    staged,    \* rows of its open transaction
    verdict,   \* how it ended
    cursor,    \* after_id of the next page
    returned,  \* the pages so far, each a set of ids
    changes,   \* changes administrators made
    later,     \* ghost: what was created since the command looked, see Nothing
    stayed     \* ghost: JOB rows there since the walk began

database == <<monitors, windows, nextId>>
inputs == <<options, file>>
walk == <<cursor, returned, stayed>>
vars == <<database, op, step, inputs, doc, todo, staged, verdict, walk, changes,
          later>>

JobValues == [Defaults EXCEPT !.kind = "JOB", !.target = "", !.schedule = "cron"]

Row(i, n, v, on, by) ==
    [id |-> i, name |-> n, values |-> v, enabled |-> on, origin |-> by]

NamesOf(rows) == {r.name : r \in rows}
Foreign(rows) == {r \in rows : r.origin = "admin"}
Imported(rows) == {r \in rows : r.origin = "import"}

Nothing == [ids |-> {}, window |-> FALSE]

Options == [partial: BOOLEAN, activate: BOOLEAN, dry: BOOLEAN]
NoDoc == [version |-> 2, monitors |-> {}, windows |-> {}]

\* Of an imported window, id is its place in the document.
Window(i, covers, by) == [id |-> i, covers |-> covers, origin |-> by]

\* Besides the types: names and keys are unique, those of the open transaction
\* included, and no transaction is left open.
TypeOK ==
    /\ op \in {"kuma", "export", "import", "pages"}
    /\ step \in {"start", "looked", "writing", "reading", "covering", "exported",
                "ended"}
    /\ options \in Options
    /\ verdict \in {"none", "done", "refused"}
    /\ changes \in 0..MaxChanges
    /\ nextId \in Nat \ {0} /\ cursor \in Nat
    /\ \A r \in monitors \cup staged : r.id \in 1..nextId - 1 /\ r.enabled \in BOOLEAN
    /\ \A r, s \in monitors \cup staged : (r.name = s.name \/ r.id = s.id) => r = s
    /\ staged # {} => step = "writing"
    /\ step = "ended" <=> verdict # "none"

\* A target an administrator has used or not; a source with windows; rows for
\* the walk.
Init ==
    /\ op \in {"kuma", "export", "pages"}
    /\ \E rows \in SUBSET Names, jobs \in SUBSET Names, covers \in SUBSET Names :
        LET ids == SetToSeq(rows)
        IN  /\ jobs \subseteq rows /\ covers \subseteq rows
            /\ op = "kuma" => Cardinality(rows) =< 1 /\ jobs = rows /\ covers = {}
            /\ op = "pages" => covers = {}
            /\ monitors = {Row(i, ids[i], IF ids[i] \in jobs THEN JobValues ELSE Defaults,
                               TRUE, "admin") : i \in DOMAIN ids}
            /\ windows = IF covers = {} THEN {}
                         ELSE {Window(Len(ids) + 1, covers, "admin")}
            /\ nextId = Len(ids) + 2
    /\ step = "start"
    /\ options \in IF op = "kuma" THEN Options
                   ELSE {o \in Options : ~o.partial /\ ~o.activate}
    /\ IF op = "kuma" THEN file \in Inputs
       ELSE file = [recognised |-> FALSE, entries |-> <<>>, baseline |-> <<>>]
    /\ doc = NoDoc
    /\ todo = {}
    /\ staged = {}
    /\ verdict = "none"
    /\ cursor = 1
    /\ returned = <<>>
    /\ changes = 0
    /\ later = Nothing
    /\ stayed = {r.id : r \in {s \in monitors : s.values.kind = "JOB"}}

-----------------------------------------------------------------------------
(* Administrators. *)

\* While a command is at work; a name it has written waits for its commit.
Busy == verdict = "none" /\ step # "exported" /\ changes < MaxChanges

\* Faulty variant: only the rows of the open transaction are compared.
NameTakenByOwn(n) == n \in NamesOf(staged)

\* name is unique.
NameTaken(n) == n \in NamesOf(monitors \cup staged)

Create(n, v) ==
    /\ Busy
    /\ ~NameTaken(n)
    /\ monitors' = monitors \cup {Row(nextId, n, v, TRUE, "admin")}
    /\ nextId' = nextId + 1
    /\ later' = [later EXCEPT !.ids = @ \cup {nextId}]
    /\ changes' = changes + 1
    /\ UNCHANGED <<windows, op, step, inputs, doc, todo, staged, verdict, walk>>

\* The row goes with its place in the windows.
Delete(r) ==
    /\ Busy
    /\ monitors' = monitors \ {r}
    /\ windows' = {[w EXCEPT !.covers = @ \ {r.name}] : w \in windows}
    /\ stayed' = stayed \ {r.id}
    /\ changes' = changes + 1
    /\ UNCHANGED <<nextId, op, step, inputs, doc, todo, staged, verdict, cursor,
                   returned, later>>

\* The maintenance views.
ChangesWindows == Busy /\ op \in {"export", "import"} /\ changes' = changes + 1

CreateWindow(covers) ==
    /\ ChangesWindows
    /\ windows' = windows \cup {Window(nextId, covers, "admin")}
    /\ nextId' = nextId + 1
    /\ later' = [later EXCEPT !.window = TRUE]
    /\ UNCHANGED <<monitors, op, step, inputs, doc, todo, staged, verdict, walk>>

SaveWindow(w, covers) ==
    /\ ChangesWindows
    /\ windows' = (windows \ {w}) \cup {Window(w.id, covers, w.origin)}
    /\ UNCHANGED <<monitors, nextId, op, step, inputs, doc, todo, staged, verdict,
                   walk, later>>

DeleteWindow(w) ==
    /\ ChangesWindows
    /\ windows' = windows \ {w}
    /\ UNCHANGED <<monitors, nextId, op, step, inputs, doc, todo, staged, verdict,
                   walk, later>>

-----------------------------------------------------------------------------
(* Both imports. *)

End(v) == step' = "ended" /\ verdict' = v

\* Faulty variant: only monitors count.
TargetEmptyOfMonitors == monitors = {}

\* importuptimekuma looks for monitors, importmonitors for windows too.
TargetEmpty == monitors = {} /\ (op = "import" => windows = {})

Look ==
    /\ op \in {"kuma", "import"} /\ step = "start"
    /\ IF TargetEmpty
       THEN step' = "looked" /\ UNCHANGED verdict
       ELSE End("refused")
    /\ later' = Nothing
    /\ UNCHANGED <<database, op, inputs, doc, todo, staged, walk, changes>>

\* A row to write: its place in the document, what it says, and whether the
\* command refuses it.
Item(at, n, v, on, refused) ==
    [at |-> at, name |-> n, values |-> v, enabled |-> on, refused |-> refused]

\* A row is cleaned and saved; an error rolls everything back.
Save(next) ==
    /\ step = "writing"
    /\ \A item \in todo : next.at =< item.at
    /\ IF NameTaken(next.name) \/ next.refused
       THEN /\ End("refused")
            /\ staged' = {}
            /\ UNCHANGED <<nextId, todo>>
       ELSE /\ staged' = staged \cup
                    {Row(nextId, next.name, next.values, next.enabled, "import")}
            /\ nextId' = nextId + 1
            /\ todo' = todo \ {next}
            /\ UNCHANGED <<step, verdict>>
    /\ UNCHANGED <<monitors, windows, op, inputs, doc, walk, changes, later>>

\* Faulty variant: what was refused is there all the same.
CommittedAnyway(rows, new) == rows \cup new

\* The end of the transaction, rolled back in a dry run.
Committed(rows, new) == IF options.dry THEN rows ELSE rows \cup new

-----------------------------------------------------------------------------
(* importuptimekuma *)

Mappings == [i \in DOMAIN file.entries |-> Mapping(file.entries[i])]
Brought == {i \in DOMAIN Mappings : Supported(Mappings[i])}
Blocked == \E i \in DOMAIN Mappings : ~Supported(Mappings[i])

\* Faulty variant: whoever skips monitors has reviewed the rest.
WarnedUnlessPartial == ~options.partial /\ \E i \in Brought : HasWarnings(Mappings[i])

Warned == \E i \in Brought : HasWarnings(Mappings[i])

\* load_kuma_monitors finds one of the known formats.
Recognised == file.recognised

\* All rows are created disabled, or with --activate enabled.
Planned(i) == Item(i, Mappings[i].name, Mappings[i].values, options.activate, FALSE)

\* The document is read and mapped, and the options decide.
Plan ==
    /\ op = "kuma" /\ step = "looked"
    /\ IF \/ ~Recognised
          \/ Blocked /\ ~options.partial
          \/ Warned /\ options.activate
       THEN End("refused") /\ UNCHANGED todo
       ELSE /\ step' = "writing"
            /\ todo' = {Planned(i) : i \in Brought}
            /\ UNCHANGED verdict
    /\ UNCHANGED <<database, op, inputs, doc, staged, walk, changes, later>>

FinishKuma ==
    /\ op = "kuma" /\ step = "writing" /\ todo = {}
    /\ monitors' = Committed(monitors, staged)
    /\ staged' = {}
    /\ End("done")
    /\ UNCHANGED <<windows, nextId, op, inputs, doc, todo, walk, changes, later>>

-----------------------------------------------------------------------------
(* exportmonitors and importmonitors *)

\* The monitors are read first; version 1 is what the release before the job
\* schedules wrote.
ReadMonitors(version) ==
    /\ op = "export" /\ step = "start"
    /\ doc' = [NoDoc EXCEPT !.version = version, !.monitors = monitors]
    /\ step' = "reading"
    /\ UNCHANGED <<database, op, inputs, todo, staged, verdict, walk, changes, later>>

\* Then the windows.
ListWindows ==
    /\ op = "export" /\ step = "reading"
    /\ todo' = {w.id : w \in windows}
    /\ step' = "covering"
    /\ UNCHANGED <<database, op, inputs, doc, staged, verdict, walk, changes, later>>

\* And for each the names of its monitors, in a query of its own, which finds
\* none if the window is gone.
ReadCovers(i) ==
    /\ op = "export" /\ step = "covering"
    /\ LET covers == UNION {w.covers : w \in {u \in windows : u.id = i}}
       IN  doc' = [doc EXCEPT !.windows = @ \cup {[id |-> i, covers |-> covers]}]
    /\ todo' = todo \ {i}
    /\ UNCHANGED <<database, op, step, inputs, staged, verdict, walk, changes, later>>

EndExport ==
    /\ op = "export" /\ step = "covering" /\ todo = {}
    /\ step' = "exported"
    /\ UNCHANGED <<database, op, inputs, doc, todo, staged, verdict, walk, changes,
                   later>>

\* The document is taken to another database, new or in use.
Carry ==
    /\ op = "export" /\ step = "exported"
    /\ op' = "import" /\ step' = "start"
    /\ \/ monitors' = {} /\ windows' = {}
       \/ monitors' = {} /\ windows' = {Window(0, {}, "admin")}
       \/ UNCHANGED <<monitors, windows>>
    /\ UNCHANGED <<nextId, inputs, doc, todo, staged, verdict, walk, changes, later>>

\* Faulty variant: a job of version 1 gets the default schedule.
RefusesJobNever(d) == FALSE

\* Version 1 has no job schedules.
RefusesJob(d) == doc.version = 1 /\ d.values.kind = "JOB"

\* What the document says of a monitor.
Written(d) ==
    IF doc.version = 1 THEN [d.values EXCEPT !.schedule = "simple"] ELSE d.values

Documented(d) == Item(d.id, d.name, Written(d), d.enabled, RefusesJob(d))

Open ==
    /\ op = "import" /\ step = "looked"
    /\ step' = "writing"
    /\ todo' = {Documented(d) : d \in doc.monitors}
    /\ UNCHANGED <<database, op, inputs, doc, staged, verdict, walk, changes, later>>

\* Windows come last.  One that names a monitor the document lacks refuses the
\* whole import.
FinishImport ==
    /\ op = "import" /\ step = "writing" /\ todo = {}
    /\ staged' = {}
    /\ IF \E w \in doc.windows : ~(w.covers \subseteq NamesOf(doc.monitors))
       THEN End("refused") /\ UNCHANGED <<monitors, windows>>
       ELSE /\ End("done")
            /\ monitors' = Committed(monitors, staged)
            /\ windows' = Committed(windows,
                    {Window(w.id, w.covers, "import") : w \in doc.windows})
    /\ UNCHANGED <<nextId, op, inputs, doc, todo, walk, changes, later>>

-----------------------------------------------------------------------------
(* manager_jobs *)

Jobs == {r.id : r \in {s \in monitors : s.values.kind = "JOB"}}

\* The rows of a page: the first PageLimit at or after the cursor.
Page ==
    LET at == {i \in Jobs : i >= cursor}
    IN  {i \in at : Cardinality({j \in at : j < i}) < PageLimit}

HasMore == Cardinality({i \in Jobs : i >= cursor}) > PageLimit

\* Faulty variant: the row read ahead counts as returned.
NextAfterIdPeeked(ids) ==
    (CHOOSE i \in Jobs : i \notin ids /\ i >= cursor
        /\ \A j \in Jobs \ ids : j >= cursor => i =< j) + 1

\* rows[-1].id + 1
NextAfterId(ids) == (CHOOSE i \in ids : \A j \in ids : j =< i) + 1

NextPage ==
    /\ op = "pages" /\ step = "start"
    /\ returned' = Append(returned, Page)
    /\ IF HasMore
       THEN cursor' = NextAfterId(Page) /\ UNCHANGED <<step, verdict>>
       ELSE End("done") /\ UNCHANGED cursor
    /\ UNCHANGED <<database, op, inputs, doc, todo, staged, stayed, changes, later>>

-----------------------------------------------------------------------------
Next ==
    \/ \E n \in Names, v \in {Defaults, JobValues} : Create(n, v)
    \/ \E r \in monitors : Delete(r)
    \/ \E covers \in SUBSET NamesOf(monitors) : CreateWindow(covers)
    \/ \E w \in windows, covers \in SUBSET NamesOf(monitors) : SaveWindow(w, covers)
    \/ \E w \in windows : DeleteWindow(w)
    \/ Look
    \/ \E next \in todo : Save(next)
    \/ Plan \/ FinishKuma
    \/ \E version \in {1, 2} : ReadMonitors(version)
    \/ ListWindows \/ (\E i \in todo : ReadCovers(i)) \/ EndExport
    \/ Carry \/ Open \/ FinishImport
    \/ NextPage

Spec == Init /\ [][Next]_vars

-----------------------------------------------------------------------------
(* Properties. *)

Ended(command) == op = command /\ step = "ended"
Kept == verdict = "done" /\ ~options.dry

\* An import leaves every definition it was to bring, or none: refused rows,
\* names taken meanwhile by an administrator and dry runs leave no part of it.
AllOrNothing ==
    /\ Ended("kuma") =>
        LET names == [i \in Brought |-> Mappings[i].name]
        IN  /\ NamesOf(Imported(monitors)) = IF Kept THEN Range(names) ELSE {}
            /\ Kept => IsInjective(names)
    /\ Ended("import") =>
        /\ NamesOf(Imported(monitors)) = IF Kept THEN NamesOf(doc.monitors) ELSE {}
        /\ {[id |-> w.id, covers |-> w.covers] : w \in Imported(windows)}
            = IF Kept THEN doc.windows ELSE {}

\* The rule "into an empty target": whatever is beside the imported rows came
\* after the command looked.  That it may come is the race of the command with
\* the administrators.
OthersCameLater ==
    (Ended("kuma") \/ Ended("import")) /\ Kept =>
        /\ \A r \in Foreign(monitors) : r.id \in later.ids
        /\ Ended("import") /\ Foreign(windows) # {} => later.window

\* An import sets no monitor to work unless it is asked to, and then none whose
\* mapping left something to review, under no combination of options.
NothingUnreviewedRuns ==
    Ended("kuma") =>
        \A r \in Imported(monitors) : r.enabled =>
            LET sources == {i \in Brought : Mappings[i].name = r.name}
            IN  /\ options.activate /\ sources # {}
                /\ \A i \in sources : ~HasWarnings(Mappings[i])

\* A reconciliation that says ready is the whole truth: importing the document
\* into an empty table that nobody changes meanwhile succeeds, under every
\* combination of options, and leaves the active monitors of the baseline, none
\* other, enabled as the option says, all a match in the comparison.
ReadyMeansImportable ==
    Ended("kuma") /\ file.recognised /\ Ready(file.entries, file.baseline)
        /\ changes = 0 /\ Foreign(monitors) = {} =>
            /\ verdict = "done"
            /\ ~options.dry =>
                /\ NamesOf(monitors) = Active(file.baseline)
                /\ \A r \in monitors : r.enabled = options.activate
                /\ Comparison(file.entries, monitors) \subseteq {"match"}

\* What an entry asks for, said independently of the mapping.  Uptime Kuma
\* compares a JSON value as it is written.
AcceptedStatuses(e) ==
    IF e.statuses = <<>> THEN {200}
    ELSE UNION {e.statuses[i].codes : i \in DOMAIN e.statuses}

Wanted(e, body) ==
    \/ e.type = "http"
    \/ body.text = e.assertion /\ (e.type = "json-query" => body.found)

\* A monitor with values v judges its target as the entry asks.
Preserves(e, v) ==
    /\ e.features = {}
    /\ v.interval = Interval(e) /\ v.timeout = Timeout(e)
    /\ v.failures = Retries(e) + 1 /\ v.failures = 1
    /\ v.target = e.target
    /\ e.type \in HttpTypes =>
        /\ v.kind = (IF e.scheme = "https" THEN "HTTPS" ELSE "HTTP")
        /\ v.method = e.method
        /\ AcceptedStatuses(e) = {v.status}
        /\ Redirects(e) = (IF v.follow THEN 5 ELSE 0)
        /\ v.assertion # "inverted" /\ ~(v.json /\ v.assertion = "complex")
        /\ \A body \in Bodies :
            body.fits => (AssertionHolds(v, body) <=> Wanted(e, body))
    /\ e.type \in {"port", "tcp"} => v.port = e.port
    /\ e.type = "dns" => v.record = e.record /\ v.resolver = e.resolver

\* What has no equal here: a redirect limit of one to four, a JSON query for
\* the empty string, and one for a value that Python and JSON write differently.
Inexpressible(e) ==
    /\ e.type \in HttpTypes
    /\ \/ Redirects(e) \in 1..4
       \/ /\ e.type = "json-query"
          /\ \/ e.assertion = "novalue"
             \/ \E body \in Bodies :
                    /\ body.found /\ body.fits
                    /\ ~(body.text = e.assertion <=> body.str = e.assertion)

\* What the audit passes without an issue is judged as Uptime Kuma judged it,
\* with the exception of what is Inexpressible, which is altered without a
\* warning.  uptime-kuma-migration.md:16 makes no exception: settings are not
\* to be "silently approximated".
SilentMeansPreserved ==
    \A i \in DOMAIN file.entries :
        LET e == file.entries[i]
            m == Mapping(e)
        IN  Supported(m) /\ ~HasWarnings(m) =>
                (Preserves(e, m.values) <=> ~Inexpressible(e))

\* What an entry asks of the same answers: it follows so many redirects, accepts
\* these statuses and wants its assertion to hold.
Accepts(e, web, body) ==
    \E i \in DOMAIN web :
        /\ i - 1 =< Redirects(e)
        /\ \A k \in 1..i - 1 : web[k].status \in Redirects3xx /\ web[k].location
        /\ Redirects(e) = 0 \/ web[i].status \notin Redirects3xx \/ ~web[i].location
        /\ web[i].status \in AcceptedStatuses(e)
        /\ Wanted(e, body)

\* The target policy lets the probe see the whole answer.
Permitted(v, web, body) ==
    body.fits /\ \A i \in DOMAIN web : Sound(v.kind, web[i])

\* A monitor that an import sets to work finds its target well on exactly the
\* answers its entry accepts, but for URLs the target policy refuses, bodies too
\* long to be inspected and what is Inexpressible: statuses, redirects and
\* assertions, from the document to the check.
ActivatedJudgesAlike ==
    Ended("kuma") =>
        \A r \in Imported(monitors) :
            r.enabled /\ r.values.kind \in {"HTTP", "HTTPS"} =>
                \E i \in DOMAIN file.entries :
                    LET e == file.entries[i]
                    IN  /\ e.name = r.name
                        /\ \/ Inexpressible(e)
                           \/ \A web \in Webs, body \in Bodies :
                                LET well ==
                                        CheckHttp(r.values, web, body, "expiring") # "DOWN"
                                IN  /\ well => Accepts(e, web, body)
                                    /\ Accepts(e, web, body)
                                        /\ Permitted(r.values, web, body) => well

\* An export that was imported gives back the monitors it read, schedules
\* included, though administrators changed the source between its queries.  And
\* one that nobody disturbed can be imported: an empty target refuses it only for
\* the jobs of a document of version 1.
DefinitionsKept ==
    Ended("import") =>
        /\ Kept =>
            {<<r.name, r.values, r.enabled>> : r \in Imported(monitors)}
                = {<<d.name, d.values, d.enabled>> : d \in doc.monitors}
        /\ (changes = 0 /\ Foreign(monitors) = {} /\ Foreign(windows) = {}
                /\ \A d \in doc.monitors : ~RefusesJob(d)) => verdict = "done"

\* A client that follows next_after_id to the end has seen every job that was
\* there all the while, and none twice, whatever came and went between pages.
PagesComplete ==
    /\ \A i, j \in DOMAIN returned :
        i < j => \A a \in returned[i], b \in returned[j] : a < b
    /\ Ended("pages") => stayed \subseteq UNION Range(returned)
=============================================================================

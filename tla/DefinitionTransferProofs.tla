----------------------- MODULE DefinitionTransferProofs -----------------------
(***************************************************************************)
(* Theorems about DefinitionTransfer, for every document, every number of  *)
(* monitors and every number of changes administrators make.  What a row   *)
(* becomes (Mapping, Written) is left open but where a theorem is about it.*)
(***************************************************************************)
EXTENDS DefinitionTransfer, FiniteOrder, SequenceTheorems

-----------------------------------------------------------------------------
(* The inductive invariant. *)

Importing == op \in {"kuma", "import"}

\* What the command is to bring, and what a row or an item says.
Asked == IF op = "kuma" THEN {Planned(i) : i \in Brought}
         ELSE {Documented(d) : d \in doc.monitors}
Saying(x) == <<x.name, x.values, x.enabled>>
Sayings(S) == {Saying(x) : x \in S}

Distinct(rows) == \A r, s \in rows : (r.name = s.name \/ r.id = s.id) => r = s

\* The maintenance views, and the queries of an export.
WindowsChange ==
    \/ \E covers \in SUBSET NamesOf(monitors) : CreateWindow(covers)
    \/ \E w \in windows, covers \in SUBSET NamesOf(monitors) : SaveWindow(w, covers)
    \/ \E w \in windows : DeleteWindow(w)

Exporting ==
    \/ \E version \in {1, 2} : ReadMonitors(version)
    \/ ListWindows \/ (\E i \in todo : ReadCovers(i)) \/ EndExport

\* What a document says of windows.
Covering(rows) == {[id |-> w.id, covers |-> w.covers] : w \in rows}

\* Records have their fields; administrators' rows are plain or jobs; the
\* document holds such rows, each once; nothing is imported before the end.
WellFormed ==
    /\ \A r \in monitors \cup doc.monitors :
        /\ r.origin \in {"admin", "import"}
        /\ r.origin = "admin" => r.values \in {Defaults, JobValues}
    /\ \A w \in windows : w = Window(w.id, w.covers, w.origin)
    /\ doc = [version |-> doc.version, monitors |-> doc.monitors,
              windows |-> doc.windows]
    /\ \A w \in doc.windows : w = [id |-> w.id, covers |-> w.covers]
    /\ \A d \in doc.monitors :
        d.id \in Nat /\ d.enabled \in BOOLEAN /\ d.origin = "admin"
    /\ Distinct(doc.monitors)
    /\ later = [ids |-> later.ids, window |-> later.window]
    /\ \A r \in staged : r.origin = "import"
    /\ verdict # "done" => Imported(monitors) = {} /\ Imported(windows) = {}
    /\ op = "export" => step \in {"start", "reading", "covering", "exported"}
    /\ Importing => step \in {"start", "looked", "writing", "ended"}
    /\ op = "pages" => step \in {"start", "ended"}

\* The open transaction holds what is no longer to do, none of it refused and
\* no name twice.
Progress ==
    step = "writing" =>
        /\ todo \subseteq Asked
        /\ Sayings(staged) = Sayings(Asked \ todo)
        /\ \A x, y \in Asked \ todo : ~x.refused /\ (x.name = y.name => x = y)

\* How a command that is over leaves the target.
Outcome ==
    Importing /\ step = "ended" =>
        /\ Sayings(Imported(monitors)) = IF Kept THEN Sayings(Asked) ELSE {}
        /\ verdict = "done" =>
            \A x, y \in Asked : ~x.refused /\ (x.name = y.name => x = y)
        /\ op = "import" =>
            Covering(Imported(windows)) = IF Kept THEN doc.windows ELSE {}

\* The target was empty when the command looked.
EmptyBefore ==
    (Importing /\ (step \in {"looked", "writing"} \/ verdict = "done")) =>
        /\ \A r \in Foreign(monitors) : r.id \in later.ids
        /\ op = "import" /\ Foreign(windows) # {} => later.window

\* No plan is carried out that activates what has warnings.
Reviewed ==
    op = "kuma" /\ (step = "writing" \/ verdict = "done") /\ options.activate =>
        ~Warned

\* The jobs that were there all the while are on a page, or not before the
\* cursor; no id on a page is at or after it until the walk is over.
Covered ==
    IF op # "pages" THEN returned = <<>> ELSE
        /\ stayed \subseteq Jobs
        /\ returned \in Seq(SUBSET Nat)
        /\ \A i, j \in DOMAIN returned :
            i < j => \A a \in returned[i], b \in returned[j] : a < b
        /\ step = "start" =>
            /\ \A i \in DOMAIN returned : \A a \in returned[i] : a < cursor
            /\ \A a \in stayed : a < cursor => \E i \in DOMAIN returned : a \in returned[i]
        /\ step = "ended" =>
            \A a \in stayed : \E i \in DOMAIN returned : a \in returned[i]

\* A ready document meets no obstacle but a target in use.
ReadyRun ==
    /\ op = "kuma" /\ changes = 0
    /\ Recognised /\ Ready(file.entries, file.baseline)

Undisturbed ==
    ReadyRun =>
        /\ step \in {"looked", "writing"} => monitors = {}
        /\ verdict = "refused" => Foreign(monitors) # {}

\* A source that nobody disturbs is written down as it is, and an empty target
\* that nobody disturbs takes the document.
Unhindered ==
    changes = 0 =>
        /\ verdict # "done" => \A w \in windows : w.origin = "admin"
        /\ op = "export" => \A w \in windows : w.covers \subseteq NamesOf(monitors)
        /\ op = "export" /\ step \in {"reading", "covering"} => doc.monitors = monitors
        /\ op \in {"export", "import"} =>
            \A w \in doc.windows : w.covers \subseteq NamesOf(doc.monitors)
        /\ op = "import" /\ (\A d \in doc.monitors : ~RefusesJob(d)) =>
            /\ step \in {"looked", "writing"} => monitors = {} /\ windows = {}
            /\ verdict = "refused" => Foreign(monitors) # {} \/ Foreign(windows) # {}

Given == file.entries \in Seq(Entries)

Inv ==
    /\ TypeOK /\ WellFormed /\ Progress /\ Outcome /\ EmptyBefore /\ Reviewed
    /\ Covered /\ Given /\ Undisturbed /\ Unhindered

-----------------------------------------------------------------------------
(* The initial state. *)

LEMMA Constants ==
    IsFiniteSet(Names) /\ PageLimit \in Nat \ {0} /\ MaxChanges \in Nat
    BY TransferAssumption

LEMMA Numbered ==
    ASSUME NEW S, IsFiniteSet(S)
    PROVE  /\ Cardinality(S) \in Nat
           /\ SetToSeq(S) \in [1..Cardinality(S) -> S]
           /\ IsInjective(SetToSeq(S))
           /\ Len(SetToSeq(S)) = Cardinality(S)
<1>1. Cardinality(S) \in Nat /\ ExistsBijection(1..Cardinality(S), S)
    BY FS_CardinalityType
<1>2. \E f \in [1..Cardinality(S) -> S] : IsInjective(f)
    BY <1>1 DEF ExistsBijection, Bijection, Injection
<1>3. /\ SetToSeq(S) \in [1..Cardinality(S) -> S]
      /\ IsInjective(SetToSeq(S))
    BY <1>2 DEF SetToSeq
<1>4. Len(SetToSeq(S)) = Cardinality(S)
    BY <1>1, <1>3, LenProperties
<1> QED
    BY <1>1, <1>3, <1>4

\* Every member has its place in the sequence.
LEMMA Listed ==
    ASSUME NEW S, IsFiniteSet(S), NEW x \in S
    PROVE  \E i \in DOMAIN SetToSeq(S) : SetToSeq(S)[i] = x
<1> DEFINE n == Cardinality(S)
           f == SetToSeq(S)
<1>1. n \in Nat /\ f \in [1..n -> S] /\ IsInjective(f)
    BY Numbered
<1>2. f \in Injection(1..n, S)
    BY <1>1 DEF Injection, IsInjective
<1>3. Cardinality(1..n) = n
    BY <1>1, FS_Interval
<1>4. f \in Surjection(1..n, S)
    BY <1>2, <1>3, FS_Injection
<1>5. \E i \in 1..n : f[i] = x
    BY <1>4 DEF Surjection
<1> QED
    BY <1>1, <1>5

LEMMA InitTypes ==
    ASSUME Init
    PROVE  TypeOK /\ WellFormed
<1>1. PICK rows \in SUBSET Names, jobs \in SUBSET Names, covers \in SUBSET Names :
        /\ monitors = {Row(i, SetToSeq(rows)[i],
                           IF SetToSeq(rows)[i] \in jobs THEN JobValues ELSE Defaults,
                           TRUE, "admin") : i \in DOMAIN SetToSeq(rows)}
        /\ windows = IF covers = {} THEN {}
                     ELSE {Window(Len(SetToSeq(rows)) + 1, covers, "admin")}
        /\ nextId = Len(SetToSeq(rows)) + 2
    BY DEF Init
<1> DEFINE ids == SetToSeq(rows)
           n == Cardinality(rows)
           at(i) == Row(i, ids[i], IF ids[i] \in jobs THEN JobValues ELSE Defaults,
                        TRUE, "admin")
<1>2. n \in Nat /\ ids \in [1..n -> rows] /\ IsInjective(ids) /\ Len(ids) = n
    <2>1. IsFiniteSet(rows)
        BY Constants, FS_Subset
    <2> QED
        BY <2>1, Numbered
<1>3. /\ monitors = {at(i) : i \in 1..n}
      /\ nextId = n + 2
    BY <1>1, <1>2
<1> HIDE DEF ids, n
<1>4. ASSUME NEW r \in monitors
      PROVE  /\ r.id \in 1..n /\ r.name = ids[r.id] /\ r.enabled = TRUE
             /\ r.origin = "admin" /\ r.values \in {Defaults, JobValues}
             /\ r = at(r.id)
    BY <1>3 DEF Row
<1>5. Distinct(monitors)
    <2> SUFFICES ASSUME NEW r \in monitors, NEW s \in monitors,
                        r.name = s.name \/ r.id = s.id
                 PROVE  r = s
        BY DEF Distinct
    <2>1. r.id = s.id
        <3>1. \A a, b \in 1..n : ids[a] = ids[b] => a = b
            BY <1>2 DEF IsInjective
        <3>2. r.id \in 1..n /\ s.id \in 1..n
              /\ r.name = ids[r.id] /\ s.name = ids[s.id]
            <4> HIDE DEF at
            <4> QED
                BY <1>4
        <3> HIDE DEF at
        <3> QED
            BY <3>1, <3>2
    <2> QED
        <3> HIDE DEF at
        <3> QED
            BY <1>4, <2>1
<1>6. /\ step = "start" /\ verdict = "none" /\ staged = {} /\ cursor = 1
      /\ changes = 0 /\ op \in {"kuma", "export", "pages"} /\ options \in Options
      /\ later = Nothing /\ doc = NoDoc
    BY DEF Init
<1>7. TypeOK
    <2>1. nextId \in Nat \ {0} /\ 1..n \subseteq 1..nextId - 1 /\ cursor \in Nat
        BY <1>2, <1>3, <1>6
    <2>2. changes \in 0..MaxChanges
        BY <1>6, Constants
    <2>3. monitors \cup staged = monitors
        BY <1>6
    <2> HIDE DEF at
    <2> QED
        BY <1>4, <1>5, <1>6, <2>1, <2>2, <2>3 DEF TypeOK, Distinct
<1>8. WellFormed
    <2>1. \A w \in windows : w.origin = "admin" /\ w = Window(w.id, w.covers, w.origin)
        BY <1>1 DEF Window
    <2> QED
        BY <1>4, <1>6, <2>1
        DEF WellFormed, Importing, Imported, Distinct, Nothing, NoDoc
<1> QED
    BY <1>7, <1>8

-----------------------------------------------------------------------------
(* Types, row by row. *)

\* What TypeOK says of the rows.
RowsTyped(rows, next) ==
    /\ next \in Nat \ {0}
    /\ \A r \in rows : r.id \in 1..next - 1 /\ r.enabled \in BOOLEAN
    /\ Distinct(rows)

LEMMA RowAdded ==
    ASSUME NEW rows, NEW next, RowsTyped(rows, next),
           NEW r, r.id = next, r.enabled \in BOOLEAN, r.name \notin NamesOf(rows)
    PROVE  RowsTyped(rows \cup {r}, next + 1)
<1>1. \A s \in rows : s.id \in 1..next - 1 /\ s.id # next /\ s.id \in 1..next
    BY DEF RowsTyped
<1> QED
    BY <1>1 DEF RowsTyped, Distinct, NamesOf

LEMMA RowsFewer ==
    ASSUME NEW rows, NEW next, RowsTyped(rows, next), NEW fewer \in SUBSET rows
    PROVE  RowsTyped(fewer, next)
    BY DEF RowsTyped, Distinct

\* TypeOK but for the rows.
Fields ==
    /\ op \in {"kuma", "export", "import", "pages"}
    /\ step \in {"start", "looked", "writing", "reading", "covering", "exported",
                "ended"}
    /\ options \in Options
    /\ verdict \in {"none", "done", "refused"}
    /\ changes \in 0..MaxChanges
    /\ cursor \in Nat
    /\ staged # {} => step = "writing"
    /\ step = "ended" <=> verdict # "none"

LEMMA TypeParts == TypeOK <=> Fields /\ RowsTyped(monitors \cup staged, nextId)
    BY DEF TypeOK, Fields, RowsTyped, Distinct

LEMMA CreateTypes ==
    ASSUME TypeOK, WellFormed, NEW n, NEW v \in {Defaults, JobValues}, Create(n, v)
    PROVE  TypeOK' /\ WellFormed'
<1> DEFINE r == Row(nextId, n, v, TRUE, "admin")
<1>1. /\ r.id = nextId /\ r.name = n /\ r.values = v /\ r.enabled = TRUE
      /\ r.origin = "admin"
    BY DEF Row
<1>2. /\ monitors' = monitors \cup {r} /\ nextId' = nextId + 1
      /\ n \notin NamesOf(monitors \cup staged)
      /\ changes < MaxChanges /\ changes' = changes + 1
      /\ later' = [later EXCEPT !.ids = @ \cup {nextId}]
      /\ UNCHANGED <<windows, op, step, options, doc, staged, verdict, cursor>>
    BY DEF Create, Busy, NameTaken, inputs, walk
<1> HIDE DEF r
<1>3. RowsTyped(monitors \cup staged, nextId) /\ Fields
    BY TypeParts
<1>4. RowsTyped((monitors \cup staged) \cup {r}, nextId + 1)
    BY <1>1, <1>2, <1>3, RowAdded
<1>5. (monitors \cup staged)' = (monitors \cup staged) \cup {r}
    BY <1>2
<1>6. RowsTyped(monitors \cup staged, nextId)'
    BY <1>2, <1>4, <1>5 DEF RowsTyped, Distinct
<1>7. Fields'
    BY <1>2, <1>3, Constants DEF Fields
<1>8. TypeOK'
    BY <1>6, <1>7, TypeParts, PTL
<1>9. WellFormed'
    BY <1>1, <1>2 DEF WellFormed, Importing, Imported, Distinct
<1> QED
    BY <1>8, <1>9

LEMMA DeleteTypes ==
    ASSUME TypeOK, WellFormed, NEW r \in monitors, Delete(r)
    PROVE  TypeOK' /\ WellFormed'
<1>1. /\ monitors' = monitors \ {r}
      /\ windows' = {[w EXCEPT !.covers = @ \ {r.name}] : w \in windows}
      /\ changes < MaxChanges /\ changes' = changes + 1
      /\ UNCHANGED <<nextId, op, step, options, doc, staged, verdict, cursor, later>>
    BY DEF Delete, Busy, inputs
<1>2. Fields'
    BY <1>1, TypeParts, Constants DEF Fields
<1>3. RowsTyped(monitors \cup staged, nextId)'
    <2>1. (monitors \cup staged)' \subseteq monitors \cup staged
        BY <1>1
    <2>2. RowsTyped((monitors \cup staged)', nextId)
        BY <2>1, TypeParts, RowsFewer
    <2> QED
        BY <1>1, <2>2 DEF RowsTyped, Distinct
<1>4. TypeOK'
    BY <1>2, <1>3, TypeParts, PTL
<1>5. ASSUME NEW w \in windows'
      PROVE  /\ w = Window(w.id, w.covers, w.origin)
             /\ \E u \in windows : u.origin = w.origin
    <2>1. PICK u \in windows : w = [u EXCEPT !.covers = @ \ {r.name}]
        BY <1>1
    <2>2. u = Window(u.id, u.covers, u.origin)
        BY DEF WellFormed
    <2>3. w = Window(u.id, u.covers \ {r.name}, u.origin)
        BY <2>1, <2>2 DEF Window
    <2> QED
        BY <2>3 DEF Window
<1>6. WellFormed'
    <2>1. verdict' # "done" => Imported(windows)' = {}
        BY <1>1, <1>5 DEF WellFormed, Imported
    <2> QED
        BY <1>1, <1>5, <2>1 DEF WellFormed, Importing, Imported, Distinct
<1> QED
    BY <1>4, <1>6

LEMMA WindowsTypes ==
    ASSUME TypeOK, WellFormed, WindowsChange
    PROVE  TypeOK' /\ WellFormed'
<1>1. /\ changes < MaxChanges /\ changes' = changes + 1
      /\ nextId' \in {nextId, nextId + 1} /\ verdict = "none"
      /\ UNCHANGED <<monitors, op, step, options, doc, staged, verdict, cursor>>
    BY DEF WindowsChange, CreateWindow, SaveWindow, DeleteWindow, ChangesWindows, Busy,
           inputs, walk
<1>2. \A w \in windows : w = Window(w.id, w.covers, w.origin) /\ w.origin # "import"
    BY <1>1 DEF WellFormed, Imported
<1>3. \A w \in windows' : w = Window(w.id, w.covers, w.origin) /\ w.origin # "import"
    BY <1>2 DEF WindowsChange, CreateWindow, SaveWindow, DeleteWindow, Window
<1>4. later' = [ids |-> later'.ids, window |-> later'.window]
    BY DEF WindowsChange, CreateWindow, SaveWindow, DeleteWindow, WellFormed
<1>5. RowsTyped(monitors \cup staged, nextId)'
    <2>1. RowsTyped(monitors \cup staged, nextId)
        BY TypeParts
    <2>2. nextId' \in Nat \ {0} /\ 1..nextId - 1 \subseteq 1..nextId' - 1
        <3>1. nextId \in Nat \ {0}
            BY DEF TypeOK
        <3>2. \A i \in Nat \ {0} :
                i + 1 \in Nat \ {0} /\ 1..i - 1 \subseteq 1..(i + 1) - 1
            OBVIOUS
        <3>3. CASE nextId' = nextId
            BY <3>1, <3>3
        <3>4. CASE nextId' = nextId + 1
            BY <3>1, <3>2, <3>4
        <3> QED
            BY <1>1, <3>3, <3>4
    <2> QED
        BY <1>1, <2>1, <2>2 DEF RowsTyped, Distinct
<1>6. Fields'
    BY <1>1, TypeParts, Constants DEF Fields
<1>7. TypeOK'
    BY <1>5, <1>6, TypeParts, PTL
<1>8. WellFormed'
    BY <1>1, <1>3, <1>4 DEF WellFormed, Importing, Imported, Distinct
<1> QED
    BY <1>7, <1>8

LEMMA SaveTypes ==
    ASSUME TypeOK, WellFormed, Progress, NEW next \in todo, Save(next)
    PROVE  TypeOK' /\ WellFormed'
<1>1. /\ step = "writing"
      /\ UNCHANGED <<monitors, windows, op, options, doc, changes, later, cursor>>
    BY DEF Save, inputs, walk
<1>2. CASE NameTaken(next.name) \/ next.refused
    <2>1. /\ step' = "ended" /\ verdict' = "refused" /\ staged' = {}
          /\ nextId' = nextId
        BY <1>2 DEF Save, End
    <2>2. Fields'
        BY <1>1, <2>1, TypeParts DEF Fields
    <2>3. RowsTyped(monitors \cup staged, nextId)'
        <3>1. RowsTyped(monitors, nextId)
            BY TypeParts, RowsFewer
        <3> QED
            BY <1>1, <2>1, <3>1 DEF RowsTyped, Distinct
    <2>4. TypeOK'
        BY <2>2, <2>3, TypeParts, PTL
    <2>5. WellFormed'
        <3>1. Imported(monitors) = {} /\ Imported(windows) = {}
            BY <1>1 DEF TypeOK, WellFormed
        <3> QED
            BY <1>1, <2>1, <3>1 DEF TypeOK, WellFormed, Importing, Imported, Distinct
    <2> QED
        BY <2>4, <2>5
<1>3. CASE ~(NameTaken(next.name) \/ next.refused)
    <2> DEFINE r == Row(nextId, next.name, next.values, next.enabled, "import")
    <2>1. /\ staged' = staged \cup {r} /\ nextId' = nextId + 1
          /\ step' = step /\ verdict' = verdict
        BY <1>3 DEF Save
    <2>2. /\ r.id = nextId /\ r.name = next.name /\ r.enabled = next.enabled
          /\ r.origin = "import"
        BY DEF Row
    <2> HIDE DEF r
    <2>3. next.enabled \in BOOLEAN
        <3>1. next \in Asked
            BY <1>1 DEF Progress
        <3>2. CASE op = "kuma"
            BY <3>1, <3>2 DEF Asked, Planned, Item, TypeOK, Options
        <3>3. CASE op # "kuma"
            BY <3>1, <3>3 DEF Asked, Documented, Item, WellFormed
        <3> QED
            BY <3>2, <3>3
    <2>4. Fields'
        BY <1>1, <2>1, TypeParts DEF Fields
    <2>5. RowsTyped(monitors \cup staged, nextId)'
        <3>1. r.name \notin NamesOf(monitors \cup staged)
            BY <1>3, <2>2 DEF NameTaken
        <3>2. RowsTyped((monitors \cup staged) \cup {r}, nextId + 1)
            BY <2>2, <2>3, <3>1, TypeParts, RowAdded
        <3>3. (monitors \cup staged)' = (monitors \cup staged) \cup {r}
            BY <1>1, <2>1
        <3> QED
            BY <2>1, <3>2, <3>3 DEF RowsTyped, Distinct
    <2>6. TypeOK'
        BY <2>4, <2>5, TypeParts, PTL
    <2>7. WellFormed'
        BY <1>1, <2>1, <2>2 DEF WellFormed, Importing, Imported, Distinct
    <2> QED
        BY <2>6, <2>7
<1> QED
    BY <1>2, <1>3

LEMMA FinishTypes ==
    ASSUME TypeOK, WellFormed, FinishKuma \/ FinishImport
    PROVE  TypeOK' /\ WellFormed'
<1>1. /\ step = "writing" /\ staged' = {} /\ step' = "ended" /\ Importing
      /\ verdict' \in {"done", "refused"}
      /\ UNCHANGED <<nextId, op, options, doc, cursor, changes, later>>
    BY DEF FinishKuma, FinishImport, End, inputs, walk, Importing
<1>2. /\ monitors' \in {monitors, monitors \cup staged}
      /\ verdict' # "done" => monitors' = monitors
    BY DEF FinishKuma, FinishImport, End, Committed
<1>3. /\ \A w \in windows' :
            w \in windows \/ w = Window(w.id, w.covers, "import")
      /\ verdict' # "done" => windows' = windows
    <2>1. CASE FinishKuma
        BY <2>1 DEF FinishKuma, End
    <2>2. CASE FinishImport
        BY <2>2 DEF FinishImport, End, Committed, Window
    <2> QED
        BY <2>1, <2>2
<1>4. Fields'
    BY <1>1, TypeParts DEF Fields
<1>5. RowsTyped(monitors \cup staged, nextId)'
    <2>1. (monitors \cup staged)' \subseteq monitors \cup staged
        BY <1>1, <1>2
    <2>2. RowsTyped((monitors \cup staged)', nextId)
        BY <2>1, TypeParts, RowsFewer
    <2> QED
        BY <1>1, <2>2 DEF RowsTyped, Distinct
<1>6. TypeOK'
    BY <1>4, <1>5, TypeParts, PTL
<1>7. WellFormed'
    <2>1. \A r \in monitors' : r \in monitors \/ r.origin = "import"
        BY <1>2 DEF WellFormed
    <2>2. \A r \in monitors' :
            /\ r.origin \in {"admin", "import"}
            /\ r.origin = "admin" => r.values \in {Defaults, JobValues}
        BY <2>1 DEF WellFormed
    <2>3. \A w \in windows' : w = Window(w.id, w.covers, w.origin)
        BY <1>3 DEF WellFormed, Window
    <2>4. verdict' # "done" => Imported(monitors)' = {} /\ Imported(windows)' = {}
        BY <1>1, <1>2, <1>3 DEF TypeOK, WellFormed, Imported
    <2> QED
        BY <1>1, <2>2, <2>3, <2>4 DEF WellFormed, Importing, Distinct
<1> QED
    BY <1>6, <1>7

-----------------------------------------------------------------------------
(* Pages: the rows of the query, and where the next one begins. *)

LEMMA JobsFinite ==
    ASSUME TypeOK, NEW S \in SUBSET Jobs
    PROVE  S \subseteq Nat /\ IsFiniteSet(S) /\ Cardinality(S) \in Nat
<1>1. Jobs \subseteq 1..nextId - 1 /\ nextId - 1 \in Nat
    BY DEF TypeOK, Jobs
<1>2. IsFiniteSet(1..nextId - 1)
    BY <1>1, FS_Interval
<1>3. S \subseteq 1..nextId - 1 /\ 1..nextId - 1 \subseteq Nat
    BY <1>1
<1>4. IsFiniteSet(S)
    BY <1>2, <1>3, FS_Subset
<1> QED
    BY <1>3, <1>4, FS_CardinalityType

Pending == {i \in Jobs : i >= cursor}
Before(i) == {j \in Pending : j < i}

LEMMA PageMeans ==
    /\ Page = {i \in Pending : Cardinality(Before(i)) < PageLimit}
    /\ HasMore <=> Cardinality(Pending) > PageLimit
    BY DEF Page, HasMore, Pending, Before

\* The last page has everything that is left.
LEMMA LastPage ==
    ASSUME TypeOK, ~HasMore
    PROVE  Page = Pending
<1> SUFFICES ASSUME NEW i \in Pending PROVE Cardinality(Before(i)) < PageLimit
    BY PageMeans
<1>1. Pending \in SUBSET Jobs /\ Before(i) \in SUBSET Jobs /\ i \in Nat
    BY JobsFinite DEF Pending, Before
<1>2. IsFiniteSet(Pending) /\ Cardinality(Pending) \in Nat /\ Cardinality(Before(i)) \in Nat
    BY <1>1, JobsFinite
<1>3. Before(i) \subseteq Pending /\ Before(i) # Pending
    BY <1>1 DEF Before
<1>4. Cardinality(Before(i)) < Cardinality(Pending)
    BY <1>2, <1>3, FS_Subset
<1> QED
    BY <1>2, <1>4, PageMeans, Constants

\* Any other ends where the next one begins, and leaves nothing out.
LEMMA PageCut ==
    ASSUME TypeOK, HasMore
    PROVE  /\ Page # {}
           /\ NextAfterId(Page) \in Nat
           /\ \A i \in Page : i < NextAfterId(Page)
           /\ \A i \in Pending : i < NextAfterId(Page) => i \in Page
<1>1. /\ Pending \in SUBSET Jobs /\ Page \in SUBSET Jobs
      /\ Pending \subseteq Nat /\ IsFiniteSet(Page) /\ Page \subseteq Pending
    <2>1. Pending \in SUBSET Jobs /\ Page \in SUBSET Jobs /\ Page \subseteq Pending
        BY PageMeans DEF Pending
    <2> QED
        BY <2>1, JobsFinite
<1>2. Page # {}
    <2>1. Pending # {}
        BY <1>1, PageMeans, FS_EmptySet, Constants
    <2>2. Pending \in SUBSET Int /\ -1 \in Int /\ \E i \in Pending : i > -1
        <3>1. -1 \in Int /\ \A i \in Nat : i > -1 /\ i \in Int
            OBVIOUS
        <3>2. PICK i \in Pending : i \in Nat
            BY <1>1, <2>1
        <3>3. Pending \subseteq Int
            BY <1>1, <3>1
        <3> QED
            BY <3>1, <3>2, <3>3, Zenon
    <2>3. PICK i \in Pending : \A j \in Pending : j > -1 => i =< j
        BY <2>2, MinimumAbove
    <2>4. Before(i) = {}
        <3> SUFFICES ASSUME NEW j \in Pending, j < i PROVE FALSE
            BY DEF Before
        <3>1. j \in Nat /\ i \in Nat
            BY <1>1
        <3> QED
            BY <2>3, <3>1
    <2> QED
        BY <2>4, PageMeans, FS_EmptySet, Constants
<1>3. \E m \in Page : \A i \in Page : i =< m
    BY <1>1, <1>2, FiniteMaximum
<1> DEFINE last == CHOOSE m \in Page : \A i \in Page : i =< m
<1>4. last \in Page /\ \A i \in Page : i =< last
    BY <1>3
<1>5. NextAfterId(Page) = last + 1
    BY DEF NextAfterId
<1> HIDE DEF last
<1>6. last \in Nat
    BY <1>1, <1>4
<1>7. ASSUME NEW i \in Pending, i =< last PROVE i \in Page
    <2>1. i \in Nat /\ Before(i) \subseteq Before(last)
        <3>1. i \in Nat /\ \A j \in Pending : j \in Nat
            BY <1>1
        <3>2. \A j \in Nat : j < i => j < last
            BY <1>6, <1>7, <3>1
        <3> QED
            BY <3>1, <3>2 DEF Before
    <2>2. IsFiniteSet(Before(last)) /\ Cardinality(Before(last)) \in Nat
          /\ Cardinality(Before(i)) \in Nat
        <3>1. Before(last) \in SUBSET Jobs /\ Before(i) \in SUBSET Jobs
            BY <1>1 DEF Before
        <3> QED
            BY <3>1, JobsFinite
    <2>3. Cardinality(Before(i)) =< Cardinality(Before(last))
        BY <2>1, <2>2, FS_Subset
    <2>4. Cardinality(Before(last)) < PageLimit
        BY <1>4, PageMeans
    <2> QED
        BY <2>2, <2>3, <2>4, PageMeans, Constants
<1>8. \A i \in Nat : i < last + 1 => i =< last
    BY <1>6
<1> QED
    BY <1>1, <1>2, <1>4, <1>5, <1>6, <1>7, <1>8

-----------------------------------------------------------------------------
\* Steps that leave the rows, the windows and the transaction as they are.
LEMMA ReadTypes ==
    ASSUME TypeOK, WellFormed,
           Look \/ Plan \/ Open \/ NextPage \/ Exporting
    PROVE  TypeOK' /\ WellFormed'
<1>1. /\ UNCHANGED <<monitors, windows, nextId, op, options, staged, changes>>
      /\ staged = {} /\ verdict = "none" /\ verdict' \in {"none", "done", "refused"}
      /\ verdict' = "done" => op = "pages"
    <2>1. staged # {} => step = "writing"
        BY DEF TypeOK
    <2> QED
        BY <2>1 DEF Look, Plan, Open, NextPage, Exporting, ReadMonitors, ListWindows,
                    ReadCovers, EndExport, database, inputs, End, TypeOK
<1>2. /\ step' \in {"start", "looked", "writing", "reading", "covering", "exported",
                    "ended"}
      /\ step' = "ended" <=> verdict' # "none"
      /\ op = "export" => step' \in {"start", "reading", "covering", "exported"}
      /\ Importing => step' \in {"start", "looked", "writing", "ended"}
      /\ op = "pages" => step' \in {"start", "ended"}
    <2>1. CASE Look
        BY <2>1 DEF Look, End, TypeOK, Importing
    <2>2. CASE Plan
        BY <2>2 DEF Plan, End, TypeOK, Importing
    <2>3. CASE Open
        BY <2>3 DEF Open, TypeOK, Importing
    <2>4. CASE NextPage
        BY <2>4 DEF NextPage, End, TypeOK, Importing
    <2>5. CASE Exporting
        BY <2>5 DEF Exporting, ReadMonitors, ListWindows, ReadCovers, EndExport, TypeOK,
                    Importing
    <2> QED
        BY <2>1, <2>2, <2>3, <2>4, <2>5
<1>3. cursor' \in Nat
    <2>1. cursor' # cursor => NextPage /\ HasMore /\ cursor' = NextAfterId(Page)
        BY DEF Look, Plan, Open, NextPage, Exporting, ReadMonitors, ListWindows,
               ReadCovers, EndExport, walk
    <2> QED
        BY <2>1, PageCut DEF TypeOK
<1>4. /\ doc' = [version |-> doc'.version, monitors |-> doc'.monitors,
                 windows |-> doc'.windows]
      /\ \A d \in doc'.monitors :
            /\ d.id \in Nat /\ d.enabled \in BOOLEAN
            /\ d.origin = "admin" /\ d.values \in {Defaults, JobValues}
      /\ Distinct(doc'.monitors)
      /\ \A w \in doc'.windows : w = [id |-> w.id, covers |-> w.covers]
    <2>1. CASE doc' = doc
        BY <2>1 DEF WellFormed
    <2>2. ASSUME NEW i \in todo, ReadCovers(i) PROVE <1>4!:
        BY <2>2 DEF ReadCovers, WellFormed
    <2>3. ASSUME NEW version \in {1, 2}, ReadMonitors(version)
          PROVE  <1>4!:
        <3>1. doc' = [version |-> version, monitors |-> monitors, windows |-> {}]
            BY <2>3 DEF ReadMonitors, NoDoc
        <3>2. \A r \in monitors :
                /\ r.id \in Nat /\ r.enabled \in BOOLEAN
                /\ r.origin = "admin" /\ r.values \in {Defaults, JobValues}
            BY <1>1 DEF TypeOK, WellFormed, Imported
        <3>3. Distinct(monitors)
            BY DEF TypeOK, Distinct
        <3> QED
            BY <3>1, <3>2, <3>3
    <2> QED
        BY <2>1, <2>2, <2>3
        DEF Look, Plan, Open, NextPage, Exporting, ListWindows, EndExport
<1>5. TypeOK'
    BY <1>1, <1>2, <1>3 DEF TypeOK
<1>6. later' = [ids |-> later'.ids, window |-> later'.window]
    BY DEF Look, Plan, Open, NextPage, Exporting, ReadMonitors, ListWindows, ReadCovers,
           EndExport, WellFormed, Nothing
<1>7. WellFormed'
    BY <1>1, <1>2, <1>4, <1>6 DEF TypeOK, WellFormed, Importing, Imported
<1> QED
    BY <1>5, <1>7

LEMMA CarryTypes ==
    ASSUME TypeOK, WellFormed, Carry
    PROVE  TypeOK' /\ WellFormed'
<1>1. /\ step = "exported" /\ op' = "import" /\ step' = "start" /\ staged = {}
      /\ monitors' \in {monitors, {}}
      /\ \A w \in windows' :
            w \in windows \/ w = Window(0, {}, "admin")
      /\ UNCHANGED <<nextId, options, doc, staged, verdict, changes, later, cursor>>
    BY DEF Carry, inputs, walk, TypeOK
<1>2. Fields'
    BY <1>1, TypeParts DEF Fields
<1>3. RowsTyped(monitors \cup staged, nextId)'
    BY <1>1, TypeParts DEF RowsTyped, Distinct
<1>4. TypeOK'
    BY <1>2, <1>3, TypeParts, PTL
<1>5. \A w \in windows' : w = Window(w.id, w.covers, w.origin)
    BY <1>1 DEF WellFormed, Window
<1>6. Imported(monitors)' = {} /\ Imported(windows)' = {}
    BY <1>1 DEF TypeOK, WellFormed, Imported, Window
<1> QED
    BY <1>1, <1>4, <1>5, <1>6 DEF WellFormed, Importing

LEMMA StepTypes ==
    ASSUME TypeOK, WellFormed, Progress, [Next]_vars
    PROVE  TypeOK' /\ WellFormed'
<1>1. ASSUME NEW n \in Names, NEW v \in {Defaults, JobValues}, Create(n, v)
      PROVE  TypeOK' /\ WellFormed'
    BY <1>1, CreateTypes
<1>2. ASSUME NEW r \in monitors, Delete(r) PROVE TypeOK' /\ WellFormed'
    BY <1>2, DeleteTypes
<1>3. CASE WindowsChange
    BY <1>3, WindowsTypes
<1>4. ASSUME NEW next \in todo, Save(next) PROVE TypeOK' /\ WellFormed'
    BY <1>4, SaveTypes
<1>5. CASE FinishKuma \/ FinishImport
    BY <1>5, FinishTypes
<1>6. CASE Look \/ Plan \/ Open \/ NextPage \/ Exporting
    BY <1>6, ReadTypes
<1>7. CASE Carry
    BY <1>7, CarryTypes
<1>8. CASE UNCHANGED vars
    BY <1>8 DEF vars, database, inputs, walk, TypeOK, WellFormed, Importing, Imported,
                Distinct
<1> QED
    BY <1>1, <1>2, <1>3, <1>4, <1>5, <1>6, <1>7, <1>8
    DEF Next, WindowsChange, Exporting

-----------------------------------------------------------------------------
(* What an import leaves. *)

AskedVars == <<op, options, file, doc>>

LEMMA AskedSame ==
    ASSUME UNCHANGED AskedVars
    PROVE  Asked' = Asked /\ Brought' = Brought /\ (Warned' <=> Warned)
           /\ Mappings' = Mappings
<1>1. Mappings' = Mappings
    BY DEF AskedVars, Mappings
<1>2. Brought' = Brought /\ (Warned' <=> Warned)
    BY <1>1 DEF Brought, Warned
<1>3. {Planned(i) : i \in Brought}' = {Planned(i) : i \in Brought}
    BY <1>1, <1>2 DEF Planned, Item, AskedVars
<1>4. {Documented(d) : d \in doc.monitors}' = {Documented(d) : d \in doc.monitors}
    BY DEF AskedVars, Documented, Item, Written, RefusesJob
<1> QED
    BY <1>1, <1>2, <1>3, <1>4 DEF Asked, AskedVars

LEMMA SayingsName ==
    ASSUME NEW S, NEW T, NEW b \in BOOLEAN,
           Sayings(S) = IF b THEN Sayings(T) ELSE {}
    PROVE  NamesOf(S) = IF b THEN NamesOf(T) ELSE {}
<1>1. \A x : Saying(x)[1] = x.name
    BY DEF Saying
<1>2. \A U : NamesOf(U) = {q[1] : q \in Sayings(U)}
    BY <1>1 DEF NamesOf, Sayings
<1>3. NamesOf(S) = {q[1] : q \in Sayings(S)} /\ NamesOf(T) = {q[1] : q \in Sayings(T)}
    BY <1>2
<1>4. CASE b
    BY <1>3, <1>4
<1>5. CASE ~b
    <2>1. Sayings(S) = {}
        BY <1>5
    <2> QED
        BY <1>3, <1>5, <2>1
<1> QED
    BY <1>4, <1>5

LEMMA SaveProgress ==
    ASSUME TypeOK, WellFormed, Progress, NEW next \in todo, Save(next)
    PROVE  Progress' /\ Outcome'
<1>1. /\ step = "writing" /\ next \in Asked
      /\ UNCHANGED <<monitors, windows, op, options, file, doc>>
    BY DEF Save, inputs, Progress
<1>2. Asked' = Asked
    BY <1>1, AskedSame DEF AskedVars
<1>3. CASE NameTaken(next.name) \/ next.refused
    <2>1. step' = "ended" /\ verdict' = "refused"
        BY <1>3 DEF Save, End
    <2>2. Imported(monitors)' = {} /\ Imported(windows)' = {}
        BY <1>1 DEF TypeOK, WellFormed, Imported
    <2> QED
        BY <2>1, <2>2 DEF Progress, Outcome, Kept, Sayings, Covering
<1>4. CASE ~(NameTaken(next.name) \/ next.refused)
    <2> DEFINE r == Row(nextId, next.name, next.values, next.enabled, "import")
               gone == Asked \ todo
    <2>1. /\ staged' = staged \cup {r} /\ todo' = todo \ {next} /\ step' = "writing"
        BY <1>1, <1>4 DEF Save
    <2>2. Saying(r) = Saying(next)
        BY DEF Row, Saying
    <2>3. Sayings(staged') = Sayings(staged) \cup {Saying(next)}
        BY <2>1, <2>2 DEF Sayings
    <2>4. Asked \ todo' = gone \cup {next}
        BY <1>1, <2>1
    <2>5. Sayings(staged)' = Sayings(Asked \ todo)'
        BY <1>1, <1>2, <2>3, <2>4 DEF Progress, Sayings
    <2>6. \A x \in gone : x.name # next.name
        <3> SUFFICES ASSUME NEW x \in gone, x.name = next.name PROVE FALSE
            OBVIOUS
        <3>1. Saying(x) \in Sayings(staged)
            BY <1>1 DEF Progress, Sayings
        <3>2. PICK s \in staged : Saying(s) = Saying(x)
            BY <3>1 DEF Sayings
        <3>3. s.name = next.name
            BY <3>2 DEF Saying
        <3> QED
            BY <1>4, <3>3 DEF NameTaken, NamesOf
    <2>7. \A x, y \in Asked \ todo' : ~x.refused /\ (x.name = y.name => x = y)
        BY <1>1, <1>4, <2>4, <2>6 DEF Progress
    <2>8. Progress'
        BY <1>1, <1>2, <2>1, <2>5, <2>7 DEF Progress
    <2> QED
        BY <2>1, <2>8 DEF Outcome
<1> QED
    BY <1>3, <1>4

LEMMA FinishProgress ==
    ASSUME TypeOK, WellFormed, Progress, FinishKuma \/ FinishImport
    PROVE  Progress' /\ Outcome'
<1>1. /\ step = "writing" /\ todo = {} /\ step' = "ended" /\ verdict = "none"
      /\ verdict' \in {"done", "refused"}
      /\ UNCHANGED <<op, options, file, doc>>
    BY DEF FinishKuma, FinishImport, End, inputs, TypeOK
<1>2. Asked' = Asked /\ Kept' = (verdict' = "done" /\ ~options.dry)
    BY <1>1, AskedSame DEF AskedVars, Kept
<1>3. /\ Sayings(staged) = Sayings(Asked)
      /\ \A x, y \in Asked : ~x.refused /\ (x.name = y.name => x = y)
    BY <1>1 DEF Progress
<1>4. Imported(monitors) = {} /\ Imported(monitors \cup staged) = staged
    BY <1>1 DEF WellFormed, Imported
<1>5. monitors' = IF Kept' THEN monitors \cup staged ELSE monitors
    BY <1>2 DEF FinishKuma, FinishImport, End, Committed
<1>6. Sayings(Imported(monitors)') = IF Kept' THEN Sayings(Asked) ELSE {}
    <2>1. CASE Kept'
        BY <1>3, <1>4, <1>5, <2>1 DEF Imported
    <2>2. CASE ~Kept'
        BY <1>4, <1>5, <2>2 DEF Imported, Sayings
    <2> QED
        BY <2>1, <2>2
<1>7. op = "import" =>
        Covering(Imported(windows)') = IF Kept' THEN doc.windows ELSE {}
    <2> SUFFICES ASSUME op = "import"
                 PROVE  Covering(Imported(windows)')
                            = IF Kept' THEN doc.windows ELSE {}
        OBVIOUS
    <2>1. FinishImport
        BY DEF FinishKuma
    <2> DEFINE brought == {Window(w.id, w.covers, "import") : w \in doc.windows}
    <2>2. windows' = IF Kept' THEN windows \cup brought ELSE windows
        BY <1>2, <2>1 DEF FinishImport, End, Committed
    <2>3. Imported(windows) = {}
        BY <1>1 DEF WellFormed
    <2>4. CASE Kept'
        <3>1. Imported(windows)' = brought
            BY <2>2, <2>3, <2>4 DEF Imported, Window
        <3>2. Covering(brought) = doc.windows
            <4>1. \A w : /\ Window(w.id, w.covers, "import").id = w.id
                         /\ Window(w.id, w.covers, "import").covers = w.covers
                BY DEF Window
            <4>2. \A w \in doc.windows : w = [id |-> w.id, covers |-> w.covers]
                BY DEF WellFormed
            <4> QED
                BY <4>1, <4>2 DEF Covering
        <3> QED
            BY <2>4, <3>1, <3>2
    <2>5. CASE ~Kept'
        <3>1. Imported(windows)' = {}
            BY <2>2, <2>3, <2>5 DEF Imported
        <3> QED
            BY <2>5, <3>1 DEF Covering
    <2> QED
        BY <2>4, <2>5
<1>8. Outcome'
    BY <1>1, <1>2, <1>3, <1>6, <1>7 DEF Outcome, Sayings, Covering
<1> QED
    BY <1>1, <1>8 DEF Progress

LEMMA StepProgress ==
    ASSUME TypeOK, WellFormed, Progress, Outcome, [Next]_vars
    PROVE  Progress' /\ Outcome'
<1>1. ASSUME \/ \E n \in Names, v \in {Defaults, JobValues} : Create(n, v)
             \/ \E r \in monitors : Delete(r)
             \/ WindowsChange
      PROVE  Progress' /\ Outcome'
    <2>1. step # "ended" /\ UNCHANGED <<step, op, options, file, doc, todo, staged>>
        BY <1>1 DEF Create, Delete, WindowsChange, CreateWindow, SaveWindow,
                    DeleteWindow, ChangesWindows, Busy, inputs, TypeOK
    <2>2. Asked' = Asked
        BY <2>1, AskedSame DEF AskedVars
    <2> QED
        BY <2>1, <2>2 DEF Progress, Outcome, Sayings
<1>2. CASE Look
    <2>1. step' # "writing" /\ (step' = "ended" => verdict' = "refused")
          /\ verdict = "none" /\ UNCHANGED <<monitors, windows>>
        BY <1>2 DEF Look, End, database, TypeOK
    <2>2. Imported(monitors)' = {} /\ Imported(windows)' = {}
        BY <2>1 DEF WellFormed, Imported
    <2> QED
        BY <2>1, <2>2 DEF Progress, Outcome, Kept, Sayings, Covering
<1>3. ASSUME NEW next \in todo, Save(next) PROVE Progress' /\ Outcome'
    BY <1>3, SaveProgress
<1>4. CASE Plan \/ Open
    <2>1. /\ step' \in {"writing", "ended"} /\ step = "looked"
          /\ step' = "ended" => verdict' = "refused"
          /\ UNCHANGED <<monitors, windows, op, options, file, doc, staged>>
        BY <1>4 DEF Plan, Open, End, database, inputs
    <2>2. Asked' = Asked /\ staged = {} /\ verdict = "none"
        BY <2>1, AskedSame DEF AskedVars, TypeOK
    <2>3. step' = "writing" => todo' = Asked
        BY <1>4 DEF Plan, Open, Asked, End
    <2>4. Imported(monitors)' = {} /\ Imported(windows)' = {}
        BY <2>1, <2>2 DEF WellFormed, Imported
    <2> QED
        BY <2>1, <2>2, <2>3, <2>4 DEF Progress, Outcome, Kept, Sayings, Covering
<1>5. CASE FinishKuma \/ FinishImport
    BY <1>5, FinishProgress
<1>6. CASE NextPage \/ Exporting \/ Carry
    <2>1. step' # "writing" /\ (Importing' => step' # "ended")
        BY <1>6 DEF NextPage, Exporting, ReadMonitors, ListWindows, ReadCovers,
                    EndExport, Carry, Importing, End
    <2> QED
        BY <2>1 DEF Progress, Outcome
<1>7. CASE UNCHANGED vars
    <2>1. UNCHANGED <<step, op, options, file, doc, todo, staged, monitors, windows,
                      verdict>>
        BY <1>7 DEF vars, database, inputs
    <2>2. Asked' = Asked
        BY <2>1, AskedSame DEF AskedVars
    <2> QED
        BY <2>1, <2>2
        DEF Progress, Outcome, Sayings, Kept, Importing, Imported, Covering
<1> QED
    BY <1>1, <1>2, <1>3, <1>4, <1>5, <1>6, <1>7 DEF Next, WindowsChange, Exporting

-----------------------------------------------------------------------------
(* An empty target, a reviewed plan, a walk. *)

LEMMA StepEmptyBefore ==
    ASSUME TypeOK, WellFormed, EmptyBefore, [Next]_vars
    PROVE  EmptyBefore'
<1>1. ASSUME NEW n \in Names, NEW v \in {Defaults, JobValues}, Create(n, v)
      PROVE  EmptyBefore'
    <2>1. /\ monitors' = monitors \cup {Row(nextId, n, v, TRUE, "admin")}
          /\ later' = [later EXCEPT !.ids = @ \cup {nextId}]
          /\ UNCHANGED <<op, step, verdict, windows>>
        BY <1>1 DEF Create
    <2>2. later'.ids = later.ids \cup {nextId} /\ later'.window = later.window
        BY <2>1 DEF WellFormed
    <2>3. \A r \in Foreign(monitors)' : r \in Foreign(monitors) \/ r.id = nextId
        BY <2>1 DEF Foreign, Row
    <2> QED
        BY <2>1, <2>2, <2>3 DEF EmptyBefore, Importing, Foreign
<1>2. ASSUME NEW r \in monitors, Delete(r) PROVE EmptyBefore'
    <2>1. /\ monitors' = monitors \ {r}
          /\ windows' = {[w EXCEPT !.covers = @ \ {r.name}] : w \in windows}
          /\ UNCHANGED <<op, step, verdict, later>>
        BY <1>2 DEF Delete
    <2>2. Foreign(windows)' # {} => Foreign(windows) # {}
        <3>1. \A w \in windows : [w EXCEPT !.covers = @ \ {r.name}].origin = w.origin
            BY DEF WellFormed
        <3> QED
            BY <2>1, <3>1 DEF Foreign
    <2> QED
        BY <2>1, <2>2 DEF EmptyBefore, Importing, Foreign
<1>3. CASE WindowsChange
    <2>1. /\ UNCHANGED <<op, step, verdict, monitors>> /\ later'.ids = later.ids
          /\ later'.window = later.window \/ later'.window = TRUE
        BY <1>3 DEF WindowsChange, CreateWindow, SaveWindow, DeleteWindow, WellFormed
    <2>2. Foreign(windows)' # {} => Foreign(windows) # {} \/ later'.window = TRUE
        BY <1>3 DEF WindowsChange, CreateWindow, SaveWindow, DeleteWindow, WellFormed,
                    Foreign, Window
    <2> QED
        BY <2>1, <2>2 DEF EmptyBefore, Importing, Foreign
<1>4. CASE Look
    <2>1. /\ step' = "looked" => TargetEmpty
          /\ verdict' # "done" /\ step' # "writing"
          /\ UNCHANGED <<monitors, windows, op>>
        BY <1>4 DEF Look, End, database, TypeOK
    <2> QED
        BY <2>1 DEF EmptyBefore, TargetEmpty, Foreign, Importing
<1>5. ASSUME NEW next \in todo, Save(next) PROVE EmptyBefore'
    BY <1>5 DEF Save, End, EmptyBefore, Importing, Foreign, TypeOK
<1>6. CASE Plan \/ Open
    BY <1>6 DEF Plan, Open, End, database, EmptyBefore, Importing, Foreign, TypeOK
<1>7. CASE FinishKuma \/ FinishImport
    <2>1. step = "writing" /\ UNCHANGED <<op, later>> /\ Importing
        BY <1>7 DEF FinishKuma, FinishImport, Importing
    <2>2. Foreign(monitors)' = Foreign(monitors)
        BY <1>7 DEF FinishKuma, FinishImport, Committed, Foreign, WellFormed
    <2>3. Foreign(windows)' = Foreign(windows)
        BY <1>7 DEF FinishKuma, FinishImport, Committed, Foreign, Window
    <2> QED
        BY <2>1, <2>2, <2>3 DEF EmptyBefore, Importing
<1>8. CASE NextPage \/ Exporting \/ Carry
    BY <1>8 DEF NextPage, Exporting, ReadMonitors, ListWindows, ReadCovers, EndExport,
                Carry, EmptyBefore, Importing, End, TypeOK
<1>9. CASE UNCHANGED vars
    BY <1>9 DEF vars, database, EmptyBefore, Importing, Foreign
<1> QED
    BY <1>1, <1>2, <1>3, <1>4, <1>5, <1>6, <1>7, <1>8, <1>9
    DEF Next, WindowsChange, Exporting

LEMMA StepReviewed ==
    ASSUME TypeOK, WellFormed, Reviewed, [Next]_vars
    PROVE  Reviewed'
<1>1. CASE Plan
    BY <1>1, AskedSame DEF Plan, End, Reviewed, AskedVars, inputs
<1>2. CASE ~Plan
    <2> SUFFICES ASSUME op' = "kuma", step' = "writing" \/ verdict' = "done"
                 PROVE  /\ op = "kuma" /\ (step = "writing" \/ verdict = "done")
                        /\ UNCHANGED AskedVars
        BY AskedSame DEF Reviewed, AskedVars
    <2> QED
        BY <1>2 DEF Next, Create, Delete, CreateWindow, SaveWindow, DeleteWindow,
                    ChangesWindows, Look, Save, FinishKuma, ReadMonitors, ListWindows,
                    ReadCovers, EndExport, Carry, Open, FinishImport, NextPage, End,
                    AskedVars, vars, inputs, TypeOK
<1> QED
    BY <1>1, <1>2

LEMMA PageCovers ==
    ASSUME TypeOK, Covered, NextPage
    PROVE  Covered'
<1>1. /\ op = "pages" /\ step = "start" /\ returned' = Append(returned, Page)
      /\ UNCHANGED <<op, monitors, stayed>>
      /\ IF HasMore THEN cursor' = NextAfterId(Page) /\ step' = "start"
         ELSE step' = "ended"
    BY DEF NextPage, database, End
<1>2. /\ returned \in Seq(SUBSET Nat) /\ stayed \subseteq Jobs
      /\ \A i, j \in DOMAIN returned :
            i < j => \A a \in returned[i], b \in returned[j] : a < b
      /\ \A i \in DOMAIN returned : \A a \in returned[i] : a < cursor
      /\ \A a \in stayed : a < cursor => \E i \in DOMAIN returned : a \in returned[i]
    BY <1>1 DEF Covered
<1>3. /\ Jobs' = Jobs /\ Jobs \subseteq Nat /\ cursor \in Nat
      /\ Page \subseteq Pending /\ Pending \subseteq Jobs
      /\ \A a \in Pending : a >= cursor
      /\ \A a \in Jobs : a < cursor \/ a \in Pending
    <2>1. Jobs' = Jobs
        BY <1>1 DEF Jobs
    <2>2. Jobs \subseteq Nat /\ cursor \in Nat
        BY JobsFinite DEF TypeOK
    <2>3. \A a \in Nat : a < cursor \/ a >= cursor
        BY <2>2
    <2> QED
        BY <2>1, <2>2, <2>3, PageMeans DEF Pending
<1> DEFINE n == Len(returned)
<1>4. /\ n \in Nat /\ DOMAIN returned = 1..n /\ DOMAIN returned' = 1..n + 1
      /\ returned' \in Seq(SUBSET Nat) /\ returned'[n + 1] = Page
      /\ \A i \in 1..n : returned'[i] = returned[i]
    <2>1. Page \in SUBSET Nat
        BY <1>3
    <2> QED
        BY <1>1, <1>2, <2>1
<1> HIDE DEF n
<1>5. ASSUME NEW i \in 1..n + 1, NEW j \in 1..n + 1, i < j,
             NEW a \in returned'[i], NEW b \in returned'[j]
      PROVE  a < b
    <2>1. i \in 1..n
        BY <1>4, <1>5
    <2>2. a \in returned[i] /\ a \in Nat /\ a < cursor
        BY <1>2, <1>4, <2>1
    <2>3. CASE j \in 1..n
        BY <1>2, <1>4, <1>5, <2>1, <2>2, <2>3
    <2>4. CASE j = n + 1
        BY <1>3, <1>4, <2>2, <2>4
    <2> QED
        BY <1>4, <2>3, <2>4
<1>6. ASSUME NEW a \in stayed, a < cursor \/ a \in Page
      PROVE  \E i \in 1..n + 1 : a \in returned'[i]
    <2>1. CASE a < cursor
        <3>1. PICK i \in 1..n : a \in returned[i]
            BY <1>2, <1>4, <2>1
        <3>2. i \in 1..n + 1 /\ a \in returned'[i]
            BY <1>4, <3>1
        <3> QED
            BY <3>2
    <2>2. CASE a \in Page
        BY <1>4, <2>2
    <2> QED
        BY <1>6, <2>1, <2>2
<1>7. CASE HasMore
    <2>1. /\ cursor' \in Nat /\ \A a \in Page : a < cursor'
          /\ \A a \in Pending : a < cursor' => a \in Page
          /\ step' = "start"
        BY <1>1, <1>7, PageCut
    <2>2. ASSUME NEW i \in 1..n + 1, NEW a \in returned'[i]
          PROVE  a < cursor'
        <3>1. CASE i = n + 1
            BY <1>4, <2>1, <3>1
        <3>2. CASE i \in 1..n
            <4>1. a \in Nat /\ a < cursor
                BY <1>2, <1>4, <3>2
            <4>2. PICK b \in Page : b \in Nat /\ b >= cursor /\ b < cursor'
                BY <1>3, <1>7, <2>1, PageCut
            <4> QED
                BY <1>3, <2>1, <4>1, <4>2
        <3> QED
            BY <1>4, <3>1, <3>2
    <2>3. ASSUME NEW a \in stayed, a < cursor'
          PROVE  \E i \in 1..n + 1 : a \in returned'[i]
        <3>1. a < cursor \/ a \in Page
            BY <1>2, <1>3, <2>1, <2>3
        <3> QED
            BY <1>6, <3>1
    <2> QED
        BY <1>1, <1>2, <1>3, <1>4, <1>5, <2>1, <2>2, <2>3 DEF Covered
<1>8. CASE ~HasMore
    <2>1. Page = Pending /\ step' = "ended"
        BY <1>1, <1>8, LastPage
    <2>2. ASSUME NEW a \in stayed
          PROVE  \E i \in 1..n + 1 : a \in returned'[i]
        BY <1>2, <1>3, <1>6, <2>1
    <2> QED
        BY <1>1, <1>2, <1>3, <1>4, <1>5, <2>1, <2>2 DEF Covered
<1> QED
    BY <1>7, <1>8

LEMMA StepCovered ==
    ASSUME TypeOK, WellFormed, Covered, [Next]_vars
    PROVE  Covered'
<1>1. CASE op # "pages"
    <2>1. op' # "pages" /\ returned' = returned
        BY <1>1 DEF Next, Create, Delete, CreateWindow, SaveWindow, DeleteWindow, Look,
                    Save, Plan, FinishKuma, ReadMonitors, ListWindows, ReadCovers,
                    EndExport, Carry, Open, FinishImport, NextPage,
                    vars, walk
    <2> QED
        BY <1>1, <2>1 DEF Covered
<1>2. CASE op = "pages" /\ NextPage
    BY <1>2, PageCovers
<1>3. CASE op = "pages" /\ ~NextPage
    <2>1. /\ UNCHANGED <<op, step, returned, cursor>>
          /\ stayed' \subseteq stayed
          /\ \A r \in monitors : r \notin monitors' => r.id \notin stayed'
        BY <1>3 DEF Next, Create, Delete, CreateWindow, SaveWindow, DeleteWindow, Look,
                    Save, Plan, FinishKuma, ReadMonitors, ListWindows, ReadCovers,
                    EndExport, Carry, Open, FinishImport, vars, walk, database, WellFormed, Importing
    <2>2. stayed' \subseteq Jobs'
        BY <1>3, <2>1 DEF Covered, Jobs
    <2> QED
        BY <1>3, <2>1, <2>2 DEF Covered
<1> QED
    BY <1>1, <1>2, <1>3

-----------------------------------------------------------------------------
(* What a mapping without errors, and one without warnings, says.          *)

LEMMA SupportedMeans ==
    ASSUME NEW e, Supported(Mapping(e))
    PROVE  /\ EntryErrors(e) = {} /\ ~TimingUnreadable(e)
           /\ TimingErrors(e) = {} /\ TypeErrors(e) = {}
           /\ Mapping(e) = [name |-> e.name, errors |-> {}, warnings |-> Warnings(e),
                            values |-> ValuesOf(e)]
<1> DEFINE blocked(errors, warnings) ==
               [name |-> e.name, errors |-> errors, warnings |-> warnings,
                values |-> Defaults]
<1>1. Mapping(e).errors = {}
    BY DEF Supported
<1>2. EntryErrors(e) = {}
    <2>1. EntryErrors(e) # {} => Mapping(e) = blocked(EntryErrors(e), {})
        BY DEF Mapping
    <2> QED
        BY <1>1, <2>1
<1>3. ~TimingUnreadable(e)
    <2>1. TimingUnreadable(e) => Mapping(e) = blocked({"invalid-timing"}, {})
        BY <1>2 DEF Mapping
    <2> QED
        BY <1>1, <2>1
<1>4. TimingErrors(e) \cup TypeErrors(e) = {}
    <2>1. TimingErrors(e) \cup TypeErrors(e) # {} =>
            Mapping(e) = blocked(TimingErrors(e) \cup TypeErrors(e), Warnings(e))
        BY <1>2, <1>3 DEF Mapping
    <2> QED
        BY <1>1, <2>1
<1>5. ValidationErrors(e) = {}
    <2>1. ValidationErrors(e) # {} =>
            Mapping(e) = blocked(ValidationErrors(e), Warnings(e))
        BY <1>2, <1>3, <1>4 DEF Mapping
    <2> QED
        BY <1>1, <2>1
<1>6. Mapping(e) = [name |-> e.name, errors |-> {}, warnings |-> Warnings(e),
                    values |-> ValuesOf(e)]
    BY <1>2, <1>3, <1>4, <1>5 DEF Mapping
<1> QED
    BY <1>2, <1>3, <1>4, <1>6

\* The columns, by type.
LEMMA ValuesMean ==
    ASSUME NEW e \in Entries, e.type \in SupportedTypes
    PROVE  /\ e.type # "push" =>
                /\ ValuesOf(e).interval = Interval(e) /\ ValuesOf(e).timeout = Timeout(e)
                /\ ValuesOf(e).failures = Retries(e) + 1 /\ ValuesOf(e).target = e.target
           /\ e.type \in HttpTypes =>
                /\ ValuesOf(e).kind = Kind(e) /\ ValuesOf(e).method = e.method
                /\ ValuesOf(e).status = ExpectedStatus(e)
                /\ ValuesOf(e).follow = (Redirects(e) # 0)
                /\ ValuesOf(e).json = (e.type = "json-query")
                /\ ValuesOf(e).assertion = IF e.type = "http" THEN "" ELSE e.assertion
           /\ e.type \in {"port", "tcp"} => ValuesOf(e).port = e.port
           /\ e.type = "dns" =>
                ValuesOf(e).record = e.record /\ ValuesOf(e).resolver = e.resolver
<1>1. CASE e.type \in HttpTypes
    <2> DEFINE base == [Defaults EXCEPT
                    !.kind = Kind(e), !.target = e.target, !.interval = Interval(e),
                    !.timeout = Timeout(e), !.failures = Retries(e) + 1]
               asked == IF e.type = "http" THEN "" ELSE e.assertion
               values == [base EXCEPT
                    !.method = e.method, !.status = ExpectedStatus(e),
                    !.follow = Redirects(e) # 0, !.json = e.type = "json-query",
                    !.assertion = asked]
    <2>1. e.type \notin {"push", "port", "tcp", "dns"}
        BY <1>1 DEF HttpTypes
    <2>2. ValuesOf(e) = values
        BY <1>1 DEF ValuesOf, HttpTypes
    <2> HIDE DEF asked
    <2>3. /\ values.interval = Interval(e) /\ values.timeout = Timeout(e)
          /\ values.failures = Retries(e) + 1 /\ values.target = e.target
          /\ values.kind = Kind(e) /\ values.method = e.method
          /\ values.status = ExpectedStatus(e) /\ values.assertion = asked
        BY DEF Defaults
    <2>4. values.follow = (Redirects(e) # 0) /\ values.json = (e.type = "json-query")
        BY Zenon DEF Defaults
    <2> HIDE DEF values
    <2> QED
        BY <2>1, <2>2, <2>3, <2>4 DEF asked
<1>2. CASE e.type \in {"port", "tcp"}
    <2>1. e.type \notin HttpTypes \cup {"push", "dns"}
        BY <1>2 DEF HttpTypes
    <2>2. /\ ValuesOf(e).interval = Interval(e) /\ ValuesOf(e).timeout = Timeout(e)
          /\ ValuesOf(e).failures = Retries(e) + 1 /\ ValuesOf(e).target = e.target
        BY <1>2, <2>1 DEF ValuesOf, Defaults
    <2>3. ValuesOf(e).port = e.port
        BY <1>2, <2>1 DEF ValuesOf, Defaults
    <2> QED
        BY <1>2, <2>1, <2>2, <2>3
<1>3. CASE e.type = "ping"
    BY <1>3 DEF ValuesOf, Defaults, HttpTypes
<1>4. CASE e.type = "dns"
    BY <1>4 DEF ValuesOf, Defaults, HttpTypes
<1>5. CASE e.type = "push"
    BY <1>5 DEF HttpTypes
<1> QED
    BY <1>1, <1>2, <1>3, <1>4, <1>5 DEF SupportedTypes

LEMMA NothingWhen == \A holds, code : When(holds, code) = {} => ~holds
    BY DEF When

\* One exact status is what is accepted, none is 200.
LEMMA OneStatusMeans ==
    ASSUME NEW e \in Entries, e.statuses # <<>> => OneStatus(e)
    PROVE  ExpectedStatus(e) \in Nat /\ AcceptedStatuses(e) = {ExpectedStatus(e)}
<1>1. CASE e.statuses = <<>>
    <2>1. ~OneStatus(e)
        BY <1>1 DEF OneStatus
    <2> QED
        BY <1>1, <2>1 DEF ExpectedStatus, AcceptedStatuses
<1>2. CASE e.statuses # <<>>
    <2> DEFINE item == e.statuses[1]
    <2>1. e.statuses \in Seq(StatusItems) /\ OneStatus(e)
        BY <1>2 DEF Entries
    <2>2. DOMAIN e.statuses = {1} /\ item \in StatusItems
        BY <2>1, LenProperties, ElementOfSeq DEF OneStatus
    <2>3. item.exact /\ item.codes \subseteq 100..599
        BY <2>1 DEF OneStatus
    <2> HIDE DEF item
    <2>4. PICK n \in item.codes : item.codes = {n}
        BY <2>2, <2>3 DEF StatusItems
    <2>5. n \in 100..599 /\ AcceptedStatuses(e) = {n}
        BY <1>2, <2>2, <2>3, <2>4 DEF AcceptedStatuses, item
    <2>6. \A k \in 100..599 :
            (\E i \in DOMAIN e.statuses : e.statuses[i].exact /\ k \in e.statuses[i].codes)
                <=> k = n
        BY <2>2, <2>3, <2>4 DEF item
    <2>7. ExpectedStatus(e) = n
        BY <2>1, <2>5, <2>6 DEF ExpectedStatus
    <2> QED
        BY <2>5, <2>7
<1> QED
    BY <1>1, <1>2

\* What Preserves asks, but for redirects and assertions.
Carried(e, v) ==
    /\ e.features = {}
    /\ v.interval = Interval(e) /\ v.timeout = Timeout(e)
    /\ v.failures = Retries(e) + 1 /\ v.failures = 1
    /\ v.target = e.target
    /\ e.type \in HttpTypes =>
        /\ v.kind = (IF e.scheme = "https" THEN "HTTPS" ELSE "HTTP")
        /\ v.method = e.method
        /\ AcceptedStatuses(e) = {v.status}
        /\ v.assertion # "inverted" /\ ~(v.json /\ v.assertion = "complex")
    /\ e.type \in {"port", "tcp"} => v.port = e.port
    /\ e.type = "dns" => v.record = e.record /\ v.resolver = e.resolver

LEMMA SilentMeans ==
    ASSUME NEW e \in Entries, Supported(Mapping(e)), ~HasWarnings(Mapping(e))
    PROVE  /\ Carried(e, Mapping(e).values)
           /\ e.type \in SupportedTypes \ {"push"}
           /\ e.type \in HttpTypes =>
                /\ Redirects(e) \in 0..5
                /\ Mapping(e).values.follow <=> Redirects(e) # 0
                /\ Mapping(e).values.json <=> e.type = "json-query"
                /\ Mapping(e).values.assertion = IF e.type = "http" THEN "" ELSE e.assertion
                /\ e.type # "http" => e.assertion # ""
<1> DEFINE v == ValuesOf(e)
<1>1. /\ EntryErrors(e) = {} /\ ~TimingUnreadable(e) /\ TypeErrors(e) = {}
      /\ Warnings(e) = {} /\ Mapping(e).values = v
    BY SupportedMeans DEF HasWarnings
<1>2. e.type \in SupportedTypes /\ e.features \cap Refused = {}
    BY <1>1, NothingWhen DEF EntryErrors
<1>3. /\ ~(Retries(e) > 0) /\ e.features \cap Dropped = {} /\ e.type # "push"
      /\ e.type \in HttpTypes =>
            (e.statuses # <<>> => OneStatus(e)) /\ ~(Redirects(e) > 5)
    <2>1. /\ When(Retries(e) > 0, "retry-model-approximation") = {}
          /\ e.features \cap Dropped = {}
          /\ When(e.type = "push", "push-token-rotated") = {}
          /\ When(e.type \in HttpTypes /\ e.statuses # <<>> /\ ~OneStatus(e),
                  "status-approximation") = {}
          /\ When(e.type \in HttpTypes /\ Redirects(e) > 5, "redirect-limit") = {}
        BY <1>1 DEF Warnings
    <2> QED
        BY <2>1, NothingWhen
<1>4. Retries(e) = 0 /\ Redirects(e) \in Nat
    BY <1>1, <1>3 DEF Retries, Redirects, Stated, TimingUnreadable, Entries, Numbers,
                      Absent, Unreadable
<1>5. e.features = {}
    BY <1>2, <1>3 DEF Entries
<1>6. e.type \in HttpTypes =>
        /\ e.type # "http" => e.assertion # "" /\ e.assertion # "inverted"
        /\ e.assertion = "complex" => e.type # "json-query"
        /\ e.scheme \in {"http", "https"}
    <2> SUFFICES ASSUME e.type \in HttpTypes
                 PROVE  /\ e.type # "http" => e.assertion # "" /\ e.assertion # "inverted"
                        /\ e.assertion = "complex" => e.type # "json-query"
                        /\ e.scheme \in {"http", "https"}
        OBVIOUS
    <2>1. /\ When(e.scheme \notin {"http", "https"} \/ e.target = "", "invalid-url") = {}
          /\ When(e.type = "keyword" /\ e.assertion = "", "missing-keyword") = {}
          /\ When(e.type # "http" /\ e.assertion = "inverted", "inverted-assertion") = {}
          /\ When(e.type = "json-query" /\ PathUnusable(e), "json-path") = {}
        <3>1. HttpErrors(e) = {}
            BY <1>1 DEF TypeErrors
        <3> QED
            BY <3>1 DEF HttpErrors
    <2>2. /\ e.scheme \in {"http", "https"}
          /\ ~(e.type = "keyword" /\ e.assertion = "")
          /\ ~(e.type # "http" /\ e.assertion = "inverted")
          /\ ~(e.type = "json-query" /\ PathUnusable(e))
        BY <2>1, NothingWhen
    <2> QED
        BY <2>2 DEF HttpTypes, PathUnusable
<1>7. /\ v.interval = Interval(e) /\ v.timeout = Timeout(e) /\ v.failures = 1
      /\ v.failures = Retries(e) + 1 /\ v.target = e.target
    <2>1. /\ v.interval = Interval(e) /\ v.timeout = Timeout(e)
          /\ v.failures = Retries(e) + 1 /\ v.target = e.target
        BY <1>2, <1>3, ValuesMean
    <2> HIDE DEF v
    <2> QED
        BY <1>4, <2>1
<1>8. CASE e.type \in HttpTypes
    <2>1. /\ v.kind = Kind(e) /\ v.method = e.method /\ v.status = ExpectedStatus(e)
          /\ v.follow = (Redirects(e) # 0) /\ v.json = (e.type = "json-query")
          /\ v.assertion = IF e.type = "http" THEN "" ELSE e.assertion
        BY <1>2, <1>8, ValuesMean
    <2>2. v.kind = IF e.scheme = "https" THEN "HTTPS" ELSE "HTTP"
        <3>1. Kind(e) = IF e.scheme = "https" THEN "HTTPS" ELSE "HTTP"
            BY <1>8 DEF Kind, HttpTypes
        <3> HIDE DEF v
        <3> QED
            BY <2>1, <3>1
    <2> HIDE DEF v
    <2>3. AcceptedStatuses(e) = {v.status}
        BY <1>3, <1>8, <2>1, OneStatusMeans
    <2>4. /\ Redirects(e) \in 0..5
          /\ v.follow <=> Redirects(e) # 0
          /\ v.json <=> e.type = "json-query"
        <3>1. Redirects(e) \in 0..5
            BY <1>3, <1>4, <1>8
        <3>2. /\ v.follow <=> Redirects(e) # 0
              /\ v.json <=> e.type = "json-query"
            BY <2>1, Zenon
        <3> QED
            BY <3>1, <3>2
    <2>5. v.assertion # "inverted" /\ ~(v.json /\ v.assertion = "complex")
        BY <1>6, <1>8, <2>1, <2>4
    <2>6. e.type \notin {"port", "tcp", "dns"}
        BY <1>8 DEF HttpTypes
    <2>7. Carried(e, v)
        BY <1>5, <1>7, <2>1, <2>2, <2>3, <2>5, <2>6 DEF Carried
    <2> QED
        BY <1>1, <1>2, <1>3, <1>6, <1>8, <2>1, <2>4, <2>7
<1>9. CASE e.type \notin HttpTypes
    <2>1. /\ e.type \in {"port", "tcp"} => v.port = e.port
          /\ e.type = "dns" => v.record = e.record /\ v.resolver = e.resolver
        BY <1>2, ValuesMean
    <2> HIDE DEF v
    <2>2. Carried(e, v)
        BY <1>5, <1>7, <1>9, <2>1 DEF Carried
    <2> QED
        BY <1>1, <1>2, <1>3, <1>9, <2>2
<1> QED
    BY <1>8, <1>9

\* The assertions of a definition and of its entry hold for the same bodies,
\* unless the assertion of the entry has no equal.
AssertedAlike(e, v) ==
    \A body \in Bodies : body.fits => (AssertionHolds(v, body) <=> Wanted(e, body))

NotationDiffers(e) ==
    \/ e.assertion = "novalue"
    \/ \E body \in Bodies :
        /\ body.found /\ body.fits
        /\ ~(body.text = e.assertion <=> body.str = e.assertion)

LEMMA AssertionsMean ==
    ASSUME NEW e, NEW v, e.type \in HttpTypes,
           v.json <=> e.type = "json-query",
           v.assertion = IF e.type = "http" THEN "" ELSE e.assertion,
           e.type # "http" => e.assertion # ""
    PROVE  AssertedAlike(e, v) <=> ~(e.type = "json-query" /\ NotationDiffers(e))
<1>1. CASE e.type = "http"
    BY <1>1 DEF AssertedAlike, AssertionHolds, Wanted
<1>2. CASE e.type = "keyword"
    BY <1>2 DEF AssertedAlike, AssertionHolds, Wanted
<1>3. CASE e.type = "json-query"
    <2>1. \A body : body.fits =>
            /\ Wanted(e, body) <=> body.found /\ body.text = e.assertion
            /\ AssertionHolds(v, body) <=>
                    body.found /\ (e.assertion = "novalue" \/ body.str = e.assertion)
        BY <1>3 DEF AssertionHolds, Wanted
    <2>2. CASE e.assertion = "novalue"
        <3>1. Literal("true", "True") \in Bodies
            BY ProbeAssumption DEF Literals
        <3>2. /\ Literal("true", "True").found /\ Literal("true", "True").fits
              /\ Literal("true", "True").text = "true" /\ "true" # "novalue"
            BY DEF Literal
        <3> QED
            BY <1>3, <2>1, <2>2, <3>1, <3>2 DEF AssertedAlike, NotationDiffers
    <2>3. CASE e.assertion # "novalue"
        BY <1>3, <2>1, <2>3 DEF AssertedAlike, NotationDiffers
    <2> QED
        BY <2>2, <2>3
<1> QED
    BY <1>1, <1>2, <1>3 DEF HttpTypes

\* Nothing is altered without a warning but what has no equal, and that is.
LEMMA SilentPreserves ==
    ASSUME NEW e \in Entries, Supported(Mapping(e)), ~HasWarnings(Mapping(e))
    PROVE  Preserves(e, Mapping(e).values) <=> ~Inexpressible(e)
<1> DEFINE v == Mapping(e).values
<1>1. /\ Carried(e, v)
      /\ e.type \in HttpTypes =>
            /\ Redirects(e) \in 0..5 /\ (v.follow <=> Redirects(e) # 0)
            /\ AssertedAlike(e, v) <=> ~(e.type = "json-query" /\ NotationDiffers(e))
    BY SilentMeans, AssertionsMean
<1> HIDE DEF v
<1>2. Inexpressible(e) <=>
        /\ e.type \in HttpTypes
        /\ Redirects(e) \in 1..4 \/ (e.type = "json-query" /\ NotationDiffers(e))
    BY DEF Inexpressible, NotationDiffers
<1>3. Preserves(e, v) <=>
        /\ Carried(e, v)
        /\ e.type \in HttpTypes =>
            Redirects(e) = (IF v.follow THEN 5 ELSE 0) /\ AssertedAlike(e, v)
    BY DEF Preserves, Carried, AssertedAlike
<1>4. e.type \in HttpTypes =>
        (Redirects(e) = (IF v.follow THEN 5 ELSE 0) <=> Redirects(e) \notin 1..4)
    BY <1>1
<1>5. Preserves(e, v) <=> ~Inexpressible(e)
    BY <1>1, <1>2, <1>3, <1>4
<1> QED
    BY <1>5 DEF v

-----------------------------------------------------------------------------
(* The walk of a probe. *)

LEMMA ChainOf ==
    ASSUME NEW web \in Webs
    PROVE  Len(web) \in Nat /\ DOMAIN web = 1..Len(web)
<1>1. web \in Seq(Urls)
    BY TransferAssumption
<1> QED
    BY <1>1, LenProperties

\* It ends at one hop at most.
LEMMA EndsOnce ==
    ASSUME NEW v, NEW web, NEW i, NEW j, EndsAt(v, web, i), EndsAt(v, web, j)
    PROVE  i = j
<1>1. i \in 1..6 /\ j \in 1..6
    BY DEF EndsAt, Hops
<1>2. ~(i < j)
    BY <1>1 DEF EndsAt
<1>3. ~(j < i)
    BY <1>1 DEF EndsAt
<1> QED
    BY <1>1, <1>2, <1>3

LEMMA CheckEnds ==
    ASSUME NEW v, NEW web, NEW body, NEW certificate,
           NEW i \in DOMAIN web, EndsAt(v, web, i)
    PROVE  CheckHttp(v, web, body, certificate) = Judged(v, web, i, body, certificate)
<1> DEFINE last == CHOOSE j \in DOMAIN web : EndsAt(v, web, j)
<1>1. last = i
    BY EndsOnce
<1>2. CheckHttp(v, web, body, certificate) = Judged(v, web, last, body, certificate)
    BY DEF CheckHttp
<1> QED
    BY <1>1, <1>2

\* The last answer finds the target well if nothing speaks against it.
LEMMA WellJudged ==
    ASSUME NEW v, NEW web, NEW i, NEW body
    PROVE  Judged(v, web, i, body, "expiring") # "DOWN" <=>
             Sound(v.kind, web[i]) /\ web[i].status = v.status /\ AssertionHolds(v, body)
    BY DEF Judged

\* A monitor whose definition lost nothing finds its target well on exactly the
\* answers the entry accepts, but for URLs that are refused.
LEMMA SilentJudgesAlike ==
    ASSUME NEW e \in Entries, Supported(Mapping(e)), ~HasWarnings(Mapping(e)),
           e.type \in HttpTypes, ~Inexpressible(e), NEW web \in Webs, NEW body \in Bodies
    PROVE  LET v == Mapping(e).values
               well == CheckHttp(v, web, body, "expiring") # "DOWN"
           IN  /\ well => Accepts(e, web, body)
               /\ Accepts(e, web, body) /\ Permitted(v, web, body) => well
<1> DEFINE v == Mapping(e).values
           well == CheckHttp(v, web, body, "expiring") # "DOWN"
<1>1. /\ Preserves(e, v)
      /\ v.assertion = (IF e.type = "http" THEN "" ELSE e.assertion)
      /\ v.follow <=> Redirects(e) # 0
    BY SilentMeans, SilentPreserves
<1> HIDE DEF v
<1>2. AcceptedStatuses(e) = {v.status} /\ Redirects(e) \in {0, 5}
    BY <1>1 DEF Preserves
<1>3. v.follow <=> Redirects(e) # 0
    BY <1>1
<1>4. /\ AssertionHolds(v, body) => Wanted(e, body)
      /\ Wanted(e, body) /\ body.fits => AssertionHolds(v, body)
    <2>1. body.fits => (AssertionHolds(v, body) <=> Wanted(e, body))
        BY <1>1 DEF Preserves
    <2>2. ~body.fits /\ AssertionHolds(v, body) => v.assertion = ""
        BY DEF AssertionHolds
    <2>3. v.assertion = "" => e.type = "http"
        BY <1>1, SilentMeans
    <2> QED
        BY <2>1, <2>2, <2>3 DEF Wanted
<1>5. Len(web) \in Nat /\ DOMAIN web = 1..Len(web)
    BY ChainOf
<1>6. ASSUME well PROVE Accepts(e, web, body)
    <2>1. PICK i \in DOMAIN web : EndsAt(v, web, i)
        BY <1>6 DEF CheckHttp
    <2>2. /\ Sound(v.kind, web[i]) /\ web[i].status = v.status
          /\ AssertionHolds(v, body)
        BY <1>6, <2>1, CheckEnds, WellJudged
    <2>3. /\ i \in 1..6 /\ ~SendsOn(v, web[i])
          /\ \A k \in 1..i - 1 : SendsOn(v, web[k])
        BY <2>1, <2>2 DEF EndsAt, Hops
    <2>4. i - 1 =< Redirects(e)
        <3>1. CASE Redirects(e) = 0
            <4>1. i # 1 => SendsOn(v, web[1])
                BY <2>3
            <4> QED
                BY <1>3, <2>3, <3>1, <4>1 DEF SendsOn
        <3> QED
            BY <1>2, <2>3, <3>1
    <2> QED
        BY <1>2, <1>3, <1>4, <2>2, <2>3, <2>4 DEF Accepts, SendsOn
<1>7. ASSUME Accepts(e, web, body), Permitted(v, web, body) PROVE well
    <2>1. PICK i \in DOMAIN web :
            /\ i - 1 =< Redirects(e)
            /\ \A k \in 1..i - 1 : web[k].status \in Redirects3xx /\ web[k].location
            /\ Redirects(e) = 0 \/ web[i].status \notin Redirects3xx \/ ~web[i].location
            /\ web[i].status \in AcceptedStatuses(e)
            /\ Wanted(e, body)
        BY <1>7 DEF Accepts
    <2>2. i \in 1..6 /\ \A k \in 1..i - 1 : k \in DOMAIN web /\ Redirects(e) # 0
        BY <1>2, <1>5, <2>1
    <2>3. EndsAt(v, web, i)
        BY <1>3, <1>7, <2>1, <2>2 DEF EndsAt, Hops, SendsOn, Permitted
    <2>4. Judged(v, web, i, body, "expiring") # "DOWN"
        BY <1>2, <1>4, <1>7, <2>1, WellJudged DEF Permitted
    <2> QED
        BY <2>3, <2>4, CheckEnds
<1> QED
    BY <1>6, <1>7 DEF v

-----------------------------------------------------------------------------
(* A reconciliation that says ready. *)

LEMMA MatchedMeans ==
    ASSUME NEW entries, NEW e, NEW baseline,
           SourceStatus(entries, e, baseline) = "matched"
    PROVE  /\ ~Duplicated(entries, e.name) /\ e.name \in Active(baseline)
           /\ Supported(Mapping(e)) /\ ~HasWarnings(Mapping(e))
<1>1. e.name # "" /\ ~Duplicated(entries, e.name)
    BY DEF SourceStatus
<1> QED
    BY <1>1 DEF SourceStatus

LEMMA ReadyMeans ==
    ASSUME NEW entries \in Seq(Entries), NEW baseline, Ready(entries, baseline)
    PROVE  /\ \A i \in DOMAIN entries :
                /\ Supported(Mapping(entries[i])) /\ ~HasWarnings(Mapping(entries[i]))
                /\ Mapping(entries[i]).name = entries[i].name
           /\ \A i, j \in DOMAIN entries : entries[i].name = entries[j].name => i = j
           /\ NamesIn(entries) = Active(baseline)
<1>1. /\ \A i \in DOMAIN entries :
            SourceStatus(entries, entries[i], baseline) = "matched"
      /\ When(~(Active(baseline) \subseteq NamesIn(entries)), "expected-missing")
            \subseteq {"matched"}
    BY DEF Ready, Reconcile
<1>2. Active(baseline) \subseteq NamesIn(entries)
    <2>1. "expected-missing" # "matched"
        OBVIOUS
    <2> QED
        BY <1>1, <2>1 DEF When
<1>3. \A i \in DOMAIN entries :
        /\ Supported(Mapping(entries[i])) /\ ~HasWarnings(Mapping(entries[i]))
        /\ ~Duplicated(entries, entries[i].name)
        /\ entries[i].name \in Active(baseline)
    BY <1>1, MatchedMeans
<1>4. \A i \in DOMAIN entries : Mapping(entries[i]).name = entries[i].name
    BY <1>3, SupportedMeans
<1>5. ASSUME NEW i \in DOMAIN entries, NEW j \in DOMAIN entries,
             entries[i].name = entries[j].name, i # j
      PROVE  FALSE
    <2> DEFINE alike == Occurrences(entries, entries[i].name)
    <2>1. alike \subseteq 1..Len(entries) /\ Len(entries) \in Nat
        BY LenProperties DEF Occurrences
    <2>2. IsFiniteSet(alike)
        <3>1. IsFiniteSet(1..Len(entries))
            BY <2>1, FS_Interval
        <3> QED
            BY <2>1, <3>1, FS_Subset
    <2>3. {i, j} \subseteq alike
        BY <1>5 DEF Occurrences
    <2>4. Cardinality({i, j}) = 2
        <3>1. IsFiniteSet({i}) /\ Cardinality({i}) = 1
            BY FS_Singleton
        <3>2. Cardinality({i} \cup {j}) = Cardinality({i}) + 1
            <4>1. j \notin {i}
                BY <1>5
            <4> QED
                BY <3>1, <4>1, FS_AddElement
        <3>3. {i} \cup {j} = {i, j}
            OBVIOUS
        <3>4. Cardinality({i, j}) = 1 + 1
            <4> QED
                BY <3>1, <3>2, <3>3, Zenon
        <3> QED
            BY <3>4
    <2>5. Cardinality({i, j}) =< Cardinality(alike) /\ Cardinality(alike) \in Nat
        BY <2>2, <2>3, FS_Subset, FS_CardinalityType
    <2>6. ~(Cardinality(alike) > 1)
        BY <1>3 DEF Duplicated
    <2> HIDE DEF alike
    <2> QED
        BY <2>4, <2>5, <2>6
<1>6. NamesIn(entries) \subseteq Active(baseline)
    BY <1>3 DEF NamesIn
<1> QED
    BY <1>2, <1>3, <1>4, <1>5, <1>6

\* What the plan of such a document is.
LEMMA ReadyAsks ==
    ASSUME TypeOK, Given, ReadyRun
    PROVE  /\ ~Blocked /\ ~Warned /\ Brought = DOMAIN file.entries
           /\ Asked = {Planned(i) : i \in DOMAIN file.entries}
           /\ \A i \in DOMAIN file.entries :
                /\ Planned(i).name = file.entries[i].name
                /\ Planned(i).enabled = options.activate
                /\ Planned(i).values = Mapping(file.entries[i]).values
                /\ Planned(i).refused = FALSE /\ Planned(i).at = i
           /\ \A i, j \in DOMAIN file.entries :
                Planned(i).name = Planned(j).name => i = j
<1>1. /\ \A i \in DOMAIN file.entries :
            /\ Supported(Mapping(file.entries[i]))
            /\ ~HasWarnings(Mapping(file.entries[i]))
            /\ Mapping(file.entries[i]).name = file.entries[i].name
      /\ \A i, j \in DOMAIN file.entries :
            file.entries[i].name = file.entries[j].name => i = j
    BY ReadyMeans DEF Given, ReadyRun
<1>2. /\ DOMAIN Mappings = DOMAIN file.entries
      /\ \A i \in DOMAIN file.entries : Mappings[i] = Mapping(file.entries[i])
    BY DEF Mappings
<1>3. Brought = DOMAIN file.entries /\ ~Blocked /\ ~Warned
    BY <1>1, <1>2 DEF Brought, Blocked, Warned
<1>4. \A i \in DOMAIN file.entries :
        /\ Planned(i).name = file.entries[i].name /\ Planned(i).enabled = options.activate
        /\ Planned(i).values = Mapping(file.entries[i]).values
        /\ Planned(i).refused = FALSE /\ Planned(i).at = i
    BY <1>1, <1>2 DEF Planned, Item
<1>5. Asked = {Planned(i) : i \in DOMAIN file.entries}
    BY <1>3 DEF Asked, ReadyRun
<1>6. \A i, j \in DOMAIN file.entries : Planned(i).name = Planned(j).name => i = j
    BY <1>1, <1>4
<1> QED
    BY <1>3, <1>4, <1>5, <1>6

LEMMA StepUndisturbed ==
    ASSUME TypeOK, WellFormed, Progress, Given, Undisturbed, [Next]_vars
    PROVE  Undisturbed'
<1> SUFFICES ASSUME ReadyRun'
             PROVE  /\ step' \in {"looked", "writing"} => monitors' = {}
                    /\ verdict' = "refused" => Foreign(monitors)' # {}
    BY DEF Undisturbed
<1>1. CASE Look
    <2>1. /\ op = "kuma" /\ monitors' = monitors /\ verdict = "none"
          /\ step' = "looked" => monitors = {}
          /\ step' # "writing"
          /\ verdict' = "refused" => monitors # {}
        BY <1>1 DEF Look, End, database, TargetEmpty, ReadyRun, TypeOK
    <2>2. Foreign(monitors) = monitors
        BY <2>1 DEF WellFormed, Foreign, Imported
    <2> QED
        BY <2>1, <2>2 DEF Foreign
<1>2. ASSUME NEW next \in todo, Save(next)
      PROVE  /\ step' \in {"looked", "writing"} => monitors' = {}
             /\ verdict' = "refused" => Foreign(monitors)' # {}
    <2>1. /\ step = "writing" /\ monitors' = monitors
          /\ UNCHANGED <<op, options, changes, file>>
        BY <1>2 DEF Save, inputs
    <2>2. ReadyRun
        BY <2>1 DEF ReadyRun, Recognised
    <2>3. monitors = {}
        BY <2>1, <2>2 DEF Undisturbed
    <2>4. next \in Asked /\ Sayings(staged) = Sayings(Asked \ todo)
        BY <2>1 DEF Progress
    <2>5. ~NameTaken(next.name)
        <3> SUFFICES ASSUME NEW r \in staged, r.name = next.name PROVE FALSE
            BY <2>3 DEF NameTaken, NamesOf
        <3>1. PICK x \in Asked \ todo : Saying(r) = Saying(x)
            BY <2>4 DEF Sayings
        <3>2. x.name = next.name
            BY <3>1 DEF Saying
        <3>3. x = next
            BY <2>2, <2>4, <3>2, ReadyAsks
        <3> QED
            BY <3>3
    <2>6. ~next.refused
        <3>1. PICK i \in DOMAIN file.entries : next = Planned(i)
            BY <2>2, <2>4, ReadyAsks
        <3>2. next.refused = FALSE
            BY <2>2, <3>1, ReadyAsks
        <3> QED
            BY <3>2
    <2>7. verdict' = verdict /\ verdict = "none"
        BY <1>2, <2>1, <2>5, <2>6 DEF Save, TypeOK
    <2> QED
        BY <2>1, <2>3, <2>7
<1>3. CASE Plan
    <2>1. UNCHANGED <<op, options, changes, file, monitors>> /\ step = "looked"
        BY <1>3 DEF Plan, inputs, database
    <2>2. ReadyRun
        BY <2>1 DEF ReadyRun, Recognised
    <2>3. ~Blocked /\ ~Warned /\ Recognised
        BY <2>2, ReadyAsks DEF ReadyRun
    <2>4. verdict' = verdict /\ verdict = "none"
        BY <1>3, <2>1, <2>3 DEF Plan, TypeOK
    <2> QED
        BY <2>1, <2>2, <2>4 DEF Undisturbed
<1>4. CASE FinishKuma \/ FinishImport
    <2>1. step' = "ended" /\ verdict' = "done"
        BY <1>4 DEF FinishKuma, FinishImport, End, ReadyRun
    <2> QED
        BY <2>1
<1>5. CASE UNCHANGED vars
    <2>1. UNCHANGED <<op, options, changes, file, monitors, step, verdict>>
        BY <1>5 DEF vars, inputs, database
    <2> QED
        BY <2>1 DEF Undisturbed, ReadyRun, Recognised, Foreign
<1>6. \/ \E n \in Names, v \in {Defaults, JobValues} : Create(n, v)
      \/ \E r \in monitors : Delete(r)
      \/ WindowsChange
      => FALSE
    <2>1. changes \in Nat /\ changes' = 0
        BY Constants DEF TypeOK, ReadyRun
    <2>2. changes' # changes + 1
        BY <2>1
    <2> QED
        BY <2>2 DEF Create, Delete, WindowsChange, CreateWindow, SaveWindow,
                    DeleteWindow, ChangesWindows
<1>7. Open \/ NextPage \/ Exporting \/ Carry => FALSE
    BY DEF Open, NextPage, Exporting, ReadMonitors, ListWindows, ReadCovers, EndExport,
           Carry, ReadyRun
<1> QED
    BY <1>1, <1>2, <1>3, <1>4, <1>5, <1>6, <1>7 DEF Next, WindowsChange, Exporting

LEMMA InitUnhindered == Init => Unhindered
<1> SUFFICES ASSUME Init PROVE Unhindered
    OBVIOUS
<1>1. PICK rows \in SUBSET Names, jobs \in SUBSET Names, covers \in SUBSET Names :
        /\ covers \subseteq rows
        /\ monitors = {Row(i, SetToSeq(rows)[i],
                           IF SetToSeq(rows)[i] \in jobs THEN JobValues ELSE Defaults,
                           TRUE, "admin") : i \in DOMAIN SetToSeq(rows)}
        /\ windows = IF covers = {} THEN {}
                     ELSE {Window(Len(SetToSeq(rows)) + 1, covers, "admin")}
    BY DEF Init
<1> DEFINE ids == SetToSeq(rows)
<1>2. op \in {"kuma", "export", "pages"} /\ step = "start" /\ verdict = "none"
    BY DEF Init
<1>3. /\ \A w \in windows : w.origin = "admin" /\ w.covers = covers
      /\ doc.windows = {}
    BY <1>1 DEF Window, Init, NoDoc
<1>4. \A n \in rows : \E i \in DOMAIN ids : ids[i] = n
    BY <1>1, Constants, FS_Subset, Listed
<1>5. rows \subseteq NamesOf(monitors)
    <2>1. \A i, n, v : Row(i, n, v, TRUE, "admin").name = n
        BY DEF Row
    <2> SUFFICES ASSUME NEW n \in rows PROVE \E r \in monitors : r.name = n
        BY DEF NamesOf
    <2>2. PICK i \in DOMAIN ids : ids[i] = n
        BY <1>4
    <2> DEFINE r == Row(i, ids[i], IF ids[i] \in jobs THEN JobValues ELSE Defaults,
                        TRUE, "admin")
    <2>3. r \in monitors /\ r.name = n
        BY <1>1, <2>1, <2>2
    <2> QED
        BY <2>3
<1> QED
    BY <1>1, <1>2, <1>3, <1>5 DEF Unhindered

LEMMA StepUnhindered ==
    ASSUME TypeOK, WellFormed, Progress, Unhindered, [Next]_vars
    PROVE  Unhindered'
<1> SUFFICES ASSUME changes' = 0 PROVE Unhindered'
    BY DEF Unhindered
<1>1. \/ \E n \in Names, v \in {Defaults, JobValues} : Create(n, v)
      \/ \E r \in monitors : Delete(r)
      \/ WindowsChange
      => FALSE
    <2>1. changes \in Nat /\ changes' # changes + 1
        BY Constants DEF TypeOK
    <2> QED
        BY <2>1 DEF Create, Delete, WindowsChange, CreateWindow, SaveWindow,
                    DeleteWindow, ChangesWindows
<1>2. CASE Look
    <2>1. UNCHANGED <<monitors, windows, op, doc, changes>> /\ verdict = "none"
          /\ step = "start" /\ op \in {"kuma", "import"}
        BY <1>2 DEF Look, database, TypeOK
    <2>2. op = "import" =>
            \/ step' = "looked" /\ verdict' = "none" /\ monitors = {} /\ windows = {}
            \/ step' = "ended" /\ (monitors # {} \/ windows # {})
        BY <1>2, <2>1 DEF Look, TargetEmpty, End
    <2>3. Foreign(monitors) = monitors /\ Foreign(windows) = windows
        BY <2>1 DEF WellFormed, Unhindered, Foreign, Imported
    <2> QED
        BY <2>1, <2>2, <2>3 DEF Unhindered, RefusesJob, Foreign
<1>3. ASSUME NEW next \in todo, Save(next) PROVE Unhindered'
    <2>1. /\ step = "writing" /\ step' \in {"writing", "ended"}
          /\ UNCHANGED <<monitors, windows, op, doc, changes>>
          /\ verdict = "none" /\ op # "export"
        BY <1>3 DEF Save, End, TypeOK, WellFormed
    <2>2. ASSUME op = "import", \A d \in doc.monitors : ~RefusesJob(d)
          PROVE  verdict' = "none" /\ monitors = {} /\ windows = {}
        <3>1. monitors = {} /\ windows = {}
            BY <2>1, <2>2 DEF Unhindered
        <3>2. /\ next \in Asked /\ Sayings(staged) = Sayings(Asked \ todo)
              /\ Asked = {Documented(d) : d \in doc.monitors}
            BY <2>1, <2>2 DEF Progress, Asked
        <3>3. \A d \in doc.monitors :
                Documented(d).name = d.name /\ Documented(d).refused = RefusesJob(d)
            BY DEF Documented, Item
        <3>4. ~next.refused
            BY <2>2, <3>2, <3>3
        <3>5. ~NameTaken(next.name)
            <4> SUFFICES ASSUME NEW r \in staged, r.name = next.name PROVE FALSE
                BY <3>1 DEF NameTaken, NamesOf
            <4>1. PICK x \in Asked \ todo : Saying(r) = Saying(x)
                BY <3>2 DEF Sayings
            <4>2. x.name = next.name
                BY <4>1 DEF Saying
            <4>3. x = next
                BY <3>2, <3>3, <4>2 DEF WellFormed, Distinct
            <4> QED
                BY <4>1, <4>3
        <3> QED
            BY <1>3, <2>1, <3>1, <3>4, <3>5 DEF Save
    <2> QED
        BY <2>1, <2>2 DEF Unhindered, RefusesJob
<1>4. CASE Open
    <2>1. /\ UNCHANGED <<monitors, windows, op, doc, changes, verdict>>
          /\ step = "looked" /\ step' = "writing" /\ op = "import"
        BY <1>4 DEF Open, database
    <2> QED
        BY <2>1 DEF Unhindered, RefusesJob, Foreign
<1>5. CASE FinishImport
    <2>1. UNCHANGED <<op, doc, changes>> /\ op = "import" /\ step = "writing"
          /\ step' = "ended" /\ verdict = "none"
        BY <1>5 DEF FinishImport, End, TypeOK
    <2>2. \A w \in doc.windows : w.covers \subseteq NamesOf(doc.monitors)
        BY <2>1 DEF Unhindered
    <2>3. verdict' = "done"
        BY <1>5, <2>2 DEF FinishImport, End
    <2> QED
        BY <2>1, <2>2, <2>3 DEF Unhindered
<1>6. CASE \E version \in {1, 2} : ReadMonitors(version)
    <2>1. /\ UNCHANGED <<monitors, windows, op, changes, verdict>>
          /\ op = "export" /\ step' = "reading" /\ doc'.monitors = monitors
          /\ doc'.windows = {}
        BY <1>6 DEF ReadMonitors, NoDoc, database
    <2> QED
        BY <2>1 DEF Unhindered
<1>7. CASE ListWindows \/ EndExport
    <2>1. /\ UNCHANGED <<monitors, windows, op, changes, verdict, doc>>
          /\ op = "export" /\ step \in {"reading", "covering"}
          /\ step' \in {"covering", "exported"}
        BY <1>7 DEF ListWindows, EndExport, database
    <2> QED
        BY <2>1 DEF Unhindered, NamesOf
<1>11. ASSUME NEW i \in todo, ReadCovers(i) PROVE Unhindered'
    <2> DEFINE covers == UNION {w.covers : w \in {u \in windows : u.id = i}}
    <2>1. /\ UNCHANGED <<monitors, windows, op, changes, verdict, step>>
          /\ op = "export" /\ step = "covering"
        BY <1>11 DEF ReadCovers, database
    <2>2. doc'.monitors = doc.monitors
          /\ doc'.windows = doc.windows \cup {[id |-> i, covers |-> covers]}
        BY <1>11 DEF ReadCovers, WellFormed
    <2>3. covers \subseteq NamesOf(doc.monitors)
        BY <2>1 DEF Unhindered
    <2>4. \A w \in doc'.windows : w.covers \subseteq NamesOf(doc'.monitors)
        BY <2>1, <2>2, <2>3 DEF Unhindered
    <2> QED
        BY <2>1, <2>2, <2>4 DEF Unhindered, NamesOf
<1>8. CASE Carry
    <2>1. /\ op = "export" /\ step = "exported" /\ op' = "import" /\ step' = "start"
          /\ verdict' = verdict /\ verdict = "none" /\ UNCHANGED <<doc, changes>>
          /\ \A w \in windows' : w \in windows \/ w.origin = "admin"
        BY <1>8 DEF Carry, TypeOK, Window
    <2> QED
        BY <2>1 DEF Unhindered, NamesOf
<1>9. CASE Plan \/ FinishKuma \/ NextPage
    <2>1. op \in {"kuma", "pages"} /\ op' = op /\ windows' = windows
          /\ changes' = changes /\ verdict = "none"
        BY <1>9 DEF Plan, FinishKuma, NextPage, database, TypeOK
    <2> QED
        BY <2>1 DEF Unhindered
<1>10. CASE UNCHANGED vars
    BY <1>10 DEF vars, database, Unhindered, RefusesJob, Foreign, NamesOf
<1> QED
    BY <1>1, <1>2, <1>3, <1>4, <1>5, <1>6, <1>7, <1>8, <1>9, <1>10, <1>11
    DEF Next, WindowsChange

LEMMA StepGiven ==
    ASSUME Given, [Next]_vars
    PROVE  Given'
<1>1. UNCHANGED file
    BY DEF Next, Create, Delete, CreateWindow, SaveWindow, DeleteWindow, Look, Save,
           Plan, FinishKuma, ReadMonitors, ListWindows, ReadCovers, EndExport, Carry,
           Open, FinishImport, NextPage, vars, inputs
<1> QED
    BY <1>1 DEF Given

-----------------------------------------------------------------------------
LEMMA InitInv == Init => Inv
<1> SUFFICES ASSUME Init PROVE Inv
    OBVIOUS
<1>1. TypeOK /\ WellFormed
    BY InitTypes
<1>2. /\ op \in {"kuma", "export", "pages"} /\ step = "start" /\ verdict = "none"
      /\ returned = <<>> /\ cursor = 1 /\ stayed = Jobs
    BY DEF Init, Jobs
<1>3. op = "pages" => Covered
    <2>1. \A a \in Jobs : a \in Nat /\ a >= 1
        BY <1>1 DEF TypeOK, Jobs
    <2>2. returned \in Seq(SUBSET Nat) /\ DOMAIN returned = {}
        BY <1>2
    <2> QED
        BY <1>2, <2>1, <2>2 DEF Covered
<1>4. Given
    <2>1. file \in Inputs \/ file.entries = <<>>
        BY DEF Init
    <2>2. <<>> \in Seq(Entries)
        OBVIOUS
    <2> QED
        BY <2>1, <2>2, TransferAssumption DEF Given
<1> QED
    BY <1>1, <1>2, <1>3, <1>4, InitUnhindered
    DEF Inv, Progress, Outcome, EmptyBefore, Reviewed, Covered, Importing, Undisturbed

LEMMA NextInv == Inv /\ [Next]_vars => Inv'
    BY StepTypes, StepProgress, StepEmptyBefore, StepReviewed, StepCovered,
       StepGiven, StepUndisturbed, StepUnhindered DEF Inv

LEMMA Invariance == Spec => []Inv
    BY InitInv, NextInv, PTL DEF Spec

-----------------------------------------------------------------------------
(* The theorems. *)

\* Names and primary keys stay unique, the rows of an open transaction
\* included, whatever administrators create beside it, and no command ends with
\* its transaction open.
THEOREM DefinitionTypes == Spec => []TypeOK
<1>1. Inv => TypeOK
    BY DEF Inv
<1> QED
    BY <1>1, Invariance, PTL

\* An import leaves every definition it was to bring, or none, in whichever
\* order its rows, the administrators and an error come.
THEOREM ImportWhole == Spec => []AllOrNothing
<1>1. ASSUME Inv, Ended("kuma")
      PROVE  LET names == [i \in Brought |-> Mappings[i].name]
             IN  /\ NamesOf(Imported(monitors)) = IF Kept THEN Range(names) ELSE {}
                 /\ Kept => IsInjective(names)
    <2> DEFINE names == [i \in Brought |-> Mappings[i].name]
    <2>1. Asked = {Planned(i) : i \in Brought}
          /\ \A i \in Brought : Planned(i).name = names[i] /\ Planned(i).at = i
        BY <1>1 DEF Asked, Ended, Planned, Item
    <2>2. /\ Sayings(Imported(monitors)) = IF Kept THEN Sayings(Asked) ELSE {}
          /\ Kept => \A x, y \in Asked : x.name = y.name => x = y
        BY <1>1 DEF Inv, Outcome, Ended, Importing, Kept
    <2>3. NamesOf(Imported(monitors)) = IF Kept THEN NamesOf(Asked) ELSE {}
        BY <2>2, SayingsName
    <2>4. NamesOf(Asked) = Range(names)
        BY <2>1 DEF NamesOf, Range
    <2>5. Kept => IsInjective(names)
        BY <2>1, <2>2 DEF IsInjective
    <2> QED
        BY <2>3, <2>4, <2>5
<1>2. ASSUME Inv, Ended("import")
      PROVE  /\ NamesOf(Imported(monitors)) = IF Kept THEN NamesOf(doc.monitors) ELSE {}
             /\ {[id |-> w.id, covers |-> w.covers] : w \in Imported(windows)}
                    = IF Kept THEN doc.windows ELSE {}
    <2>1. NamesOf(Asked) = NamesOf(doc.monitors)
        <3>1. Asked = {Documented(d) : d \in doc.monitors}
            BY <1>2 DEF Asked, Ended
        <3>2. \A d : Documented(d).name = d.name
            BY DEF Documented, Item
        <3> QED
            BY <3>1, <3>2 DEF NamesOf
    <2>2. /\ Sayings(Imported(monitors)) = IF Kept THEN Sayings(Asked) ELSE {}
          /\ Covering(Imported(windows)) = IF Kept THEN doc.windows ELSE {}
        BY <1>2 DEF Inv, Outcome, Ended, Importing
    <2>3. NamesOf(Imported(monitors)) = IF Kept THEN NamesOf(Asked) ELSE {}
        BY <2>2, SayingsName
    <2> QED
        BY <2>1, <2>2, <2>3 DEF Covering
<1>3. Inv => AllOrNothing
    BY <1>1, <1>2 DEF AllOrNothing
<1> QED
    BY <1>3, Invariance, PTL

\* Whatever is beside the imported monitors and windows was created after the
\* command had looked.
THEOREM TargetWasEmpty == Spec => []OthersCameLater
<1>1. Inv => OthersCameLater
    BY DEF Inv, EmptyBefore, OthersCameLater, Ended, Kept, Importing
<1> QED
    BY <1>1, Invariance, PTL

\* No monitor is set to work by importuptimekuma unless it was asked to, and none
\* whose mapping left something to review, under any combination of its options.
THEOREM ReviewedOnly == Spec => []NothingUnreviewedRuns
<1>1. ASSUME Inv, Ended("kuma"), NEW r \in Imported(monitors), r.enabled
      PROVE  LET sources == {i \in Brought : Mappings[i].name = r.name}
             IN  /\ options.activate /\ sources # {}
                 /\ \A i \in sources : ~HasWarnings(Mappings[i])
    <2>1. PICK i \in Brought : Saying(r) = Saying(Planned(i))
        <3>1. Saying(r) \in Sayings(Imported(monitors))
            BY DEF Sayings
        <3>2. Saying(r) \in Sayings(Asked)
            BY <1>1, <3>1 DEF Inv, Outcome, Ended, Importing
        <3> QED
            BY <1>1, <3>2 DEF Sayings, Asked, Ended
    <2>2. r.name = Mappings[i].name /\ r.enabled = options.activate
        BY <2>1 DEF Saying, Planned, Item
    <2>3. verdict = "done"
        BY <1>1 DEF Inv, WellFormed
    <2>4. ~Warned
        BY <1>1, <2>2, <2>3 DEF Inv, Reviewed, Ended
    <2> QED
        BY <1>1, <2>2, <2>4 DEF Warned
<1>2. Inv => NothingUnreviewedRuns
    BY <1>1 DEF NothingUnreviewedRuns
<1> QED
    BY <1>2, Invariance, PTL

\* What an export read is what its import leaves, schedules included: version 1
\* has none, and refuses the jobs that would need one. An export that met no
\* change of the table is never refused by an empty target.
THEOREM RoundTrip == Spec => []DefinitionsKept
<1>1. ASSUME Inv, Ended("import"), Kept
      PROVE  Sayings(Imported(monitors)) = Sayings(doc.monitors)
    <2>1. Sayings(Imported(monitors)) = Sayings(Asked)
        BY <1>1 DEF Inv, Outcome, Ended, Importing
    <2>2. Asked = {Documented(d) : d \in doc.monitors}
        BY <1>1 DEF Asked, Ended
    <2>3. ASSUME NEW d \in doc.monitors
          PROVE  Saying(Documented(d)) = Saying(d)
        <3>1. ~RefusesJob(d)
            <4>1. Documented(d) \in Asked /\ Documented(d).refused = RefusesJob(d)
                BY <2>2 DEF Documented, Item
            <4> QED
                BY <1>1, <4>1 DEF Inv, Outcome, Ended, Importing, Kept
        <3>2. d.values \in {Defaults, JobValues}
            BY <1>1 DEF Inv, WellFormed
        <3>3. Written(d) = d.values
            <4>1. [Defaults EXCEPT !.schedule = "simple"] = Defaults
                <5>1. Defaults.schedule = "simple"
                    BY DEF Defaults
                <5>2. Defaults = [k \in DOMAIN Defaults |-> Defaults[k]]
                    BY DEF Defaults
                <5> QED
                    BY <5>1, <5>2
            <4>2. JobValues.kind = "JOB"
                BY DEF JobValues, Defaults
            <4> QED
                BY <3>1, <3>2, <4>1, <4>2 DEF Written, RefusesJob
        <3> QED
            BY <3>3 DEF Saying, Documented, Item
    <2> QED
        BY <2>1, <2>2, <2>3 DEF Sayings
<1>2. ASSUME Inv, Ended("import"), changes = 0,
             Foreign(monitors) = {}, Foreign(windows) = {},
             \A d \in doc.monitors : ~RefusesJob(d)
      PROVE  verdict = "done"
    BY <1>2 DEF Inv, TypeOK, Unhindered, Ended
<1>3. Inv => DefinitionsKept
    <2>1. Ended("import") /\ Inv /\ Kept =>
            {<<r.name, r.values, r.enabled>> : r \in Imported(monitors)}
                = {<<d.name, d.values, d.enabled>> : d \in doc.monitors}
        BY <1>1 DEF Sayings, Saying
    <2> QED
        BY <1>2, <2>1 DEF DefinitionsKept
<1> QED
    BY <1>3, Invariance, PTL

\* A client that follows next_after_id to the end has seen every job that was
\* there all the while, and none twice, for every page limit.
THEOREM PagesCover == Spec => []PagesComplete
<1>1. ASSUME Inv, op = "pages" PROVE PagesComplete
    BY <1>1 DEF Inv, Covered, PagesComplete, Ended, Range
<1>2. ASSUME Inv, op # "pages" PROVE PagesComplete
    <2>1. returned = <<>>
        BY <1>2 DEF Inv, Covered
    <2>2. DOMAIN returned = {}
        BY <2>1
    <2> QED
        BY <1>2, <2>2 DEF PagesComplete, Ended
<1>3. Inv => PagesComplete
    BY <1>1, <1>2
<1> QED
    BY <1>3, Invariance, PTL

\* A mapping without an error and without a warning judges its target as Uptime
\* Kuma judged it, exactly if the entry asks for nothing that has no equal here:
\* for every entry of every document and every set of bodies.
THEOREM SilencePreserves == Spec => []SilentMeansPreserved
<1>1. ASSUME Inv, NEW i \in DOMAIN file.entries
      PROVE  LET e == file.entries[i]
                 m == Mapping(e)
             IN  Supported(m) /\ ~HasWarnings(m) =>
                    (Preserves(e, m.values) <=> ~Inexpressible(e))
    <2>1. file.entries[i] \in Entries
        BY <1>1 DEF Inv, Given
    <2> QED
        BY <2>1, SilentPreserves
<1>2. Inv => SilentMeansPreserved
    BY <1>1 DEF SilentMeansPreserved
<1> QED
    BY <1>2, Invariance, PTL

\* A monitor that an import sets to work finds its target well on exactly the
\* answers its entry accepts, whatever chain of redirects they come by and
\* whatever their bodies, but for what has no equal here.
THEOREM JudgedAlike == Spec => []ActivatedJudgesAlike
<1>1. ASSUME Inv, Ended("kuma"), NEW r \in Imported(monitors),
             r.enabled, r.values.kind \in {"HTTP", "HTTPS"}
      PROVE  \E i \in DOMAIN file.entries :
                LET e == file.entries[i]
                IN  /\ e.name = r.name
                    /\ \/ Inexpressible(e)
                       \/ \A web \in Webs, body \in Bodies :
                            LET well ==
                                    CheckHttp(r.values, web, body, "expiring") # "DOWN"
                            IN  /\ well => Accepts(e, web, body)
                                /\ Accepts(e, web, body)
                                    /\ Permitted(r.values, web, body) => well
    <2>1. PICK i \in Brought : Saying(r) = Saying(Planned(i))
        <3>1. Saying(r) \in Sayings(Imported(monitors))
            BY DEF Sayings
        <3>2. Saying(r) \in Sayings(Asked)
            BY <1>1, <3>1 DEF Inv, Outcome, Ended, Importing
        <3> QED
            BY <1>1, <3>2 DEF Sayings, Asked, Ended
    <2> DEFINE e == file.entries[i]
    <2>2. /\ i \in DOMAIN file.entries /\ Mappings[i] = Mapping(e)
          /\ Supported(Mapping(e)) /\ e \in Entries
        BY <1>1 DEF Brought, Mappings, Inv, Given
    <2>3. r.name = Mapping(e).name /\ r.values = Mapping(e).values
          /\ r.enabled = options.activate
        BY <2>1, <2>2 DEF Saying, Planned, Item
    <2>4. ~HasWarnings(Mapping(e))
        <3>1. verdict = "done"
            BY <1>1 DEF Inv, WellFormed
        <3>2. ~Warned
            BY <1>1, <2>3, <3>1 DEF Inv, Reviewed, Ended
        <3> QED
            BY <2>2, <3>2 DEF Warned
    <2> HIDE DEF e
    <2>5. e.type \in HttpTypes
        <3>1. e.type \in SupportedTypes \ {"push"} /\ Mapping(e).values = ValuesOf(e)
            <4>1. e.type \in SupportedTypes \ {"push"}
                BY <2>2, <2>4, SilentMeans
            <4>2. Mapping(e) = [name |-> e.name, errors |-> {}, warnings |-> Warnings(e),
                                values |-> ValuesOf(e)]
                BY <2>2, SupportedMeans
            <4> QED
                BY <4>1, <4>2
        <3>2. ValuesOf(e).kind = Kind(e)
            BY <3>1 DEF ValuesOf, Defaults, HttpTypes, SupportedTypes
        <3>3. e.type \notin HttpTypes => Kind(e) \notin {"HTTP", "HTTPS"}
            BY <3>1 DEF Kind, HttpTypes, SupportedTypes
        <3> QED
            BY <1>1, <2>3, <3>1, <3>2, <3>3
    <2>6. e.name = r.name
        BY <2>2, <2>3, SupportedMeans
    <2>7. \/ Inexpressible(e)
          \/ \A web \in Webs, body \in Bodies :
                LET well == CheckHttp(r.values, web, body, "expiring") # "DOWN"
                IN  /\ well => Accepts(e, web, body)
                    /\ Accepts(e, web, body) /\ Permitted(r.values, web, body) => well
        BY <2>2, <2>3, <2>4, <2>5, SilentJudgesAlike
    <2> QED
        BY <2>2, <2>6, <2>7 DEF e
<1>2. Inv => ActivatedJudgesAlike
    BY <1>1 DEF ActivatedJudgesAlike
<1> QED
    BY <1>2, Invariance, PTL

\* A reconciliation that says ready is the whole truth: a document imported into
\* an empty table that nobody changes meanwhile is taken, active or not, and what
\* is then there are the active monitors of the baseline, each a match.
THEOREM ReadyImports == Spec => []ReadyMeansImportable
<1>1. ASSUME Inv, Ended("kuma"), ReadyRun, Foreign(monitors) = {}
      PROVE  /\ verdict = "done"
             /\ ~options.dry =>
                /\ NamesOf(monitors) = Active(file.baseline)
                /\ \A r \in monitors : r.enabled = options.activate
                /\ Comparison(file.entries, monitors) \subseteq {"match"}
    <2>1. verdict = "done"
        BY <1>1 DEF Inv, TypeOK, Ended, Undisturbed
    <2> SUFFICES ASSUME ~options.dry
                 PROVE  /\ NamesOf(monitors) = Active(file.baseline)
                        /\ \A r \in monitors : r.enabled = options.activate
                        /\ Comparison(file.entries, monitors) \subseteq {"match"}
        BY <2>1
    <2>2. Sayings(monitors) = Sayings(Asked)
        <3>1. Imported(monitors) = monitors
            BY <1>1 DEF Inv, WellFormed, Foreign, Imported
        <3> QED
            BY <1>1, <2>1, <3>1 DEF Inv, Outcome, Ended, Importing, Kept
    <2> DEFINE E == file.entries
    <2>3. /\ Asked = {Planned(i) : i \in DOMAIN E}
          /\ \A i \in DOMAIN E :
                /\ Planned(i).name = E[i].name
                /\ Planned(i).enabled = options.activate
                /\ Planned(i).values = Mapping(E[i]).values
          /\ \A i, j \in DOMAIN E : Planned(i).name = Planned(j).name => i = j
        BY <1>1, ReadyAsks DEF Inv
    <2>4. /\ \A i \in DOMAIN E :
                Supported(Mapping(E[i])) /\ Mapping(E[i]).name = E[i].name
          /\ NamesIn(E) = Active(file.baseline)
        BY <1>1, ReadyMeans DEF Inv, Given, ReadyRun
    <2>5. ASSUME NEW r \in monitors
          PROVE  \E i \in DOMAIN E :
                    /\ r.name = E[i].name /\ r.values = Mapping(E[i]).values
                    /\ r.enabled = options.activate
        <3>1. Saying(r) \in Sayings(monitors)
            BY DEF Sayings
        <3>2. PICK i \in DOMAIN E : Saying(r) = Saying(Planned(i))
            BY <2>2, <2>3, <3>1 DEF Sayings
        <3> QED
            BY <2>3, <3>2 DEF Saying
    <2>6. ASSUME NEW i \in DOMAIN E
          PROVE  \E r \in monitors : r.name = E[i].name
        <3>1. Saying(Planned(i)) \in Sayings(Asked)
            BY <2>3 DEF Sayings
        <3>2. PICK r \in monitors : Saying(r) = Saying(Planned(i))
            BY <2>2, <3>1 DEF Sayings
        <3> QED
            BY <2>3, <3>2 DEF Saying
    <2>7. NamesOf(monitors) = NamesIn(E)
        <3>1. \A r \in monitors : r.name \in NamesIn(E)
            BY <2>5 DEF NamesIn
        <3>2. \A i \in DOMAIN E : E[i].name \in NamesOf(monitors)
            BY <2>6 DEF NamesOf
        <3> QED
            BY <3>1, <3>2 DEF NamesOf, NamesIn
    <2>8. \A i \in DOMAIN E : \A r \in monitors :
            r.name = Mapping(E[i]).name => r.values = Mapping(E[i]).values
        <3> SUFFICES ASSUME NEW i \in DOMAIN E, NEW r \in monitors,
                            r.name = Mapping(E[i]).name
                     PROVE  r.values = Mapping(E[i]).values
            OBVIOUS
        <3>1. PICK j \in DOMAIN E :
                r.name = E[j].name /\ r.values = Mapping(E[j]).values
            BY <2>5
        <3>2. E[i].name = E[j].name
            BY <2>4, <3>1
        <3>3. i = j
            BY <2>3, <3>2
        <3> QED
            BY <3>1, <3>3
    <2>9. Comparison(E, monitors) \subseteq {"match"}
        <3>1. \A i \in DOMAIN E : \E r \in monitors : r.name = Mapping(E[i]).name
            BY <2>4, <2>6
        <3>2. \A r \in monitors : r.name \in NamesIn(E)
            BY <2>7 DEF NamesOf
        <3> HIDE DEF E
        <3> QED
            BY <2>4, <2>8, <3>1, <3>2 DEF Comparison, When
    <2> QED
        BY <2>4, <2>5, <2>7, <2>9
<1>2. Inv => ReadyMeansImportable
    BY <1>1 DEF ReadyMeansImportable, ReadyRun, Recognised, Ended
<1> QED
    BY <1>2, Invariance, PTL
=============================================================================

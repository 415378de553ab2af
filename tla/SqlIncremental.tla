--------------------------- MODULE SqlIncremental ---------------------------
(***************************************************************************)
(* A sequence of `omniload ingest` runs from one SQL table into one         *)
(* destination table: how _run_ingest (omniload/api.py) turns               *)
(* --incremental-strategy, --incremental-key, --primary-key, --sql-limit    *)
(* and the interval into what SqlSourceRouter (core/router.py) reads and    *)
(* what the load does, while the source table is written.                   *)
(*                                                                         *)
(* External, modelled from their use: the source database (a query sees one *)
(* state of the table) and dlt (dlt.sources.incremental, which drops rows   *)
(* at a closed boundary by primary key, by content without one, and not at  *)
(* all if its primary key is (); the write dispositions; load packages).    *)
(***************************************************************************)
EXTENDS Integers, FiniteSets

CONSTANTS
  Ids,            \* values of the source table's natural key
  MaxVersion,     \* bound: contents a row goes through
  MaxTime,        \* bound: values of the incremental column
  Options,        \* the command lines considered
  MaxFailures     \* bound: loads that fail

Strategies == {"replace", "append", "merge", "delete+insert", "scd2"}

ASSUME BoundsAssumption == {MaxVersion, MaxTime, MaxFailures} \subseteq Nat
ASSUME IdsAssumption == IsFiniteSet(Ids)
ASSUME OptionsAssumption ==
  Options \subseteq [strategy : Strategies, key : BOOLEAN, primaryKey : BOOLEAN,
                     window : BOOLEAN, limit : Nat, persistentDir : BOOLEAN]

VARIABLES
  options,     \* the command line of all runs
  (* the source *)
  clock,
  source,      \* source[i]: version and incremental column of row i
  hidden,      \* history: rows whose last write the incremental column does not show
  stamped,     \* history: rows written with the present time
  (* the destination; under scd2 the records that are open *)
  table,       \* table[c]: rows with content c, 2 standing for "several"
  saved,       \* cursor of the state it holds
  (* the working directory of the pipeline *)
  local, package,
  pc,
  failures

sourceVars == <<clock, source, hidden, stamped>>
vars == <<sourceVars, table, saved, local, package, pc, failures, options>>

Strategy == options.strategy            \* --incremental-strategy
Key == options.key                      \* --incremental-key is given
PrimaryKey == options.primaryKey        \* --primary-key is given
Window == options.window                \* --interval-start and --interval-end are
Limit == options.limit                  \* --sql-limit, 0 when it is not given
PersistentDir == options.persistentDir  \* --pipelines-dir is given

Time == 0 .. MaxTime
Row == [id : Ids, version : 1 .. MaxVersion, at : Time]
Exists(i) == source[i].version > 0
Current(i) == [id |-> i, version |-> source[i].version, at |-> source[i].at]
Rows == {Current(i) : i \in {j \in Ids : Exists(j)}}

NoCursor == [last |-> 0, seen |-> {}]
NoPackage == [pending |-> FALSE, jobs |-> "none", rows |-> {}, cursor |-> NoCursor]
Pending == package.pending

Init ==
  /\ options \in Options
  /\ clock = 0 /\ source = [i \in Ids |-> [version |-> 0, at |-> 0]]
  /\ hidden = {} /\ stamped = {}
  /\ table = [c \in Row |-> 0] /\ saved = NoCursor
  /\ local = NoCursor /\ package = NoPackage
  /\ pc = "idle" /\ failures = 0

-----------------------------------------------------------------------------
(* The source table. *)

Tick ==
  /\ clock < MaxTime
  /\ clock' = clock + 1 /\ stamped' = {}
  /\ UNCHANGED <<source, hidden, table, saved, local, package, pc, failures>>

\* Row i is inserted or updated.  An incremental cursor does not see the write if it
\* becomes visible with an older time, or if the row was written with the same time
\* before and rows are told apart by their primary key.
Write(i, t) ==
  /\ source[i].version < MaxVersion /\ t <= clock
  /\ source' = [source EXCEPT ![i] = [version |-> @.version + 1, at |-> t]]
  /\ hidden' = IF t < clock \/ (PrimaryKey /\ i \in stamped)
               THEN hidden \cup {i} ELSE hidden \ {i}
  /\ stamped' = IF t = clock THEN stamped \cup {i} ELSE stamped
  /\ UNCHANGED <<clock, table, saved, local, package, pc, failures>>

-----------------------------------------------------------------------------
(* What a run is allowed to do, and what it reads. *)

\* MUTANT of Refused: no guard.
RefusedNever == FALSE
\* scd2 must see the whole table.
Refused == Strategy = "scd2" /\ (Key \/ Limit > 0)

\* dlt resets the state of a resource it replaces.
Start ==
  IF Strategy = "replace" THEN NoCursor ELSE IF PersistentDir THEN local ELSE saved

\* The rows the query selects; both ends of the range are closed.
InRange(w, r) == Key => IF Window THEN w.from <= r.at /\ r.at <= w.to ELSE r.at >= Start.last

\* The row sets a LIMIT may return, ordered by the incremental key if there is one.
Fetched(w) ==
  LET R == {r \in Rows : InRange(w, r)}
      First(S) == Key => \A r \in S, q \in R \ S : r.at <= q.at
  IN IF Limit = 0 \/ Cardinality(R) <= Limit THEN {R}
     ELSE {S \in SUBSET R : Cardinality(S) = Limit /\ First(S)}

\* MUTANT of Deduplicated: the primary key of the incremental is not reset.
DeduplicatedAlways(r, cursor) ==
  r.at = cursor.last /\ \E s \in cursor.seen : IF PrimaryKey THEN s.id = r.id ELSE s = r
\* Rows at the boundary that were passed on before; delete+insert takes them again.
Deduplicated(r, cursor) ==
  /\ Strategy # "delete+insert"
  /\ r.at = cursor.last
  /\ \E s \in cursor.seen : IF PrimaryKey THEN s.id = r.id ELSE s = r

\* MUTANT of Taken: an open boundary.
TakenNewer(S, cursor) == {r \in S : Key /\ ~Window => r.at > cursor.last}
Taken(S, cursor) == {r \in S : Key /\ ~Window => ~Deduplicated(r, cursor)}

\* MUTANT of Advanced: the next run starts after the last value.
AdvancedPast(B, cursor) ==
  IF B = {} THEN cursor
  ELSE [last |-> 1 + CHOOSE t \in {r.at : r \in B} : \A r \in B : r.at <= t, seen |-> {}]
\* An interval that ends leaves no state behind.
Advanced(B, cursor) ==
  IF ~Key \/ Window \/ B = {} THEN cursor
  ELSE LET last == CHOOSE t \in {r.at : r \in B} : \A r \in B : r.at <= t
           at == {r \in B : r.at = last}
       IN [last |-> last, seen |-> IF last = cursor.last THEN cursor.seen \cup at ELSE at]

\* A run: one query.  An extraction that fails leaves everything as it was.
Extract ==
  /\ pc = "idle" /\ ~Pending /\ ~Refused
  /\ \E w \in [from : Time, to : Time] : \E S \in Fetched(w) :
       LET B == Taken(S, Start)
           cursor == Advanced(B, Start)
       IN /\ package' = [pending |-> TRUE, jobs |-> "all", rows |-> B, cursor |-> cursor]
          /\ local' = cursor
  /\ pc' = "loading"
  /\ UNCHANGED <<sourceVars, table, saved, failures>>

\* A ValidationError before anything is read.
Reject ==
  /\ pc = "idle" /\ ~Pending /\ Refused
  /\ UNCHANGED <<sourceVars, table, saved, local, package, pc, failures>>

\* dlt loads the package of an earlier run instead.
StartWithPending ==
  /\ pc = "idle" /\ Pending
  /\ pc' = "loading"
  /\ UNCHANGED <<sourceVars, table, saved, local, package, failures>>

-----------------------------------------------------------------------------
(* The load. *)

Several(k) == IF k > 2 THEN 2 ELSE k
Appended(base, R) == [c \in Row |-> Several(base[c] + (IF c \in R THEN 1 ELSE 0))]

\* MUTANT of Matches: the incremental key is not marked as the merge key.
MatchesPrimaryKey(c, r) == PrimaryKey /\ c.id = r.id
\* The hints of the run: delete+insert marks the incremental key as the merge key.
Matches(c, r) ==
  \/ PrimaryKey /\ c.id = r.id
  \/ Strategy = "delete+insert" /\ Key /\ c.at = r.at

\* The table once the rows R are loaded.  A merge without any key appends.
Written(R) ==
  CASE Strategy \in {"replace", "scd2"} -> Appended([c \in Row |-> 0], R)
    [] Strategy = "append" -> Appended(table, R)
    [] Strategy \in {"merge", "delete+insert"} ->
         Appended([c \in Row |-> IF \E r \in R : Matches(c, r) THEN 0 ELSE table[c]], R)

\* Appending and replacing write job by job; the others merge in one transaction.
JobByJob == Strategy \in {"append", "replace"}

LoadJobs ==
  /\ pc = "loading"
  /\ table' = CASE package.jobs = "all"  -> Written(package.rows)
                [] package.jobs = "rest" -> Appended(table, package.rows)
                [] package.jobs = "none" -> table
  /\ package' = [package EXCEPT !.jobs = "none"]
  /\ pc' = "loaded"
  /\ UNCHANGED <<sourceVars, saved, local, failures>>

CompleteLoad ==
  /\ pc = "loaded"
  /\ saved' = package.cursor
  /\ package' = NoPackage
  /\ pc' = "idle"
  /\ UNCHANGED <<sourceVars, table, local, failures>>

\* Before a job, after some of the jobs, or before the package is complete.  A
\* persistent directory keeps the package.
LoadFails ==
  /\ failures < MaxFailures /\ pc \in {"loading", "loaded"}
  /\ \E kept \in {package} \cup
                 {[package EXCEPT !.jobs = "rest", !.rows = @ \ R] : R \in SUBSET package.rows} :
       /\ kept # package => pc = "loading" /\ JobByJob /\ package.jobs = "all"
       /\ table' = IF kept = package THEN table ELSE Written(package.rows \ kept.rows)
       /\ package' = IF PersistentDir THEN kept ELSE NoPackage
  /\ failures' = failures + 1
  /\ pc' = "idle"
  /\ UNCHANGED <<sourceVars, saved, local>>

-----------------------------------------------------------------------------
Database == Tick \/ \E i \in Ids, t \in Time : Write(i, t)
Run == Extract \/ Reject \/ StartWithPending \/ LoadJobs \/ CompleteLoad
Next == (Database \/ Run \/ LoadFails) /\ UNCHANGED options

Spec == Init /\ [][Next]_vars

\* Schedules keep starting runs, and a run takes its steps.
FairSpec == Spec /\ WF_vars(Run /\ UNCHANGED options)

-----------------------------------------------------------------------------
Cursor == [last : Time, seen : SUBSET Row]

TypeOK ==
  /\ options \in Options
  /\ clock \in Time
  /\ source \in [Ids -> [version : 0 .. MaxVersion, at : Time]] 
  /\ hidden \subseteq Ids /\ stamped \subseteq Ids
  /\ table \in [Row -> 0 .. 2]
  /\ {saved, local} \subseteq Cursor
  /\ package \in [pending : BOOLEAN, jobs : {"all", "rest", "none"},
                  rows : SUBSET Row, cursor : Cursor]
  /\ pc \in {"idle", "loading", "loaded"}
  /\ pc # "idle" => Pending
  /\ failures \in 0 .. MaxFailures

Loaded(c) == table[c] > 0
InPackage(c) == Pending /\ package.jobs # "none" /\ c \in package.rows
\* --sql-limit may cut a delete+insert between two rows with one merge key: it then
\* deletes both and inserts one.
Cut == Limit > 0 /\ Strategy = "delete+insert"

(* No row is skipped: a row is in the destination, in a package still to load,   *)
(* or read by the next run, whatever failed in between, unless the incremental   *)
(* column hides its last write (tests/warehouse/operations.py: "modify the       *)
(* source data but not the updated at, the output table should not be updated",  *)
(* "insert a new row but with an old date, the new row will not show up").       *)
NothingSkipped ==
  Key /\ ~Window /\ ~Cut /\ ~Refused /\ Strategy # "replace" =>
    \A i \in Ids :
      Exists(i) /\ i \notin hidden =>
        \/ Loaded(Current(i)) \/ InPackage(Current(i))
        \/ Current(i).at >= Start.last /\ ~Deduplicated(Current(i), Start)

(* A row that is loaded and unchanged in the source is never taken out of the    *)
(* destination again: a delete+insert reads every row whose merge key it deletes, *)
(* a merge every row whose primary key it does, and scd2 retires no row that is  *)
(* still there.                                                                  *)
UnchangedStays ==
  [][Strategy # "replace" /\ ~Cut =>
       \A i \in Ids :
         Exists(i) /\ source'[i] = source[i] /\ Loaded(Current(i)) => Loaded(Current(i))']_vars

(* No row is there twice: a merge on a key, a delete+insert on the incremental   *)
(* key and a replace make retries and overlapping intervals harmless; appending  *)
(* needs a package that survives its failure and no interval.                    *)
LoadedOnce ==
  \/ Strategy \in {"replace", "scd2"}
  \/ Strategy = "merge" /\ PrimaryKey
  \/ Strategy = "delete+insert" /\ (Key \/ PrimaryKey)
  \/ Strategy = "append" /\ Key /\ ~Window /\ (PersistentDir \/ failures = 0)
  => \A c \in Row : table[c] <= 1

(* The destination catches up with the source again and again: replace and scd2  *)
(* with all of it, the others with every write the incremental column shows.  A  *)
(* limit stops progress where more rows than it allows share a value.            *)
EventuallyCurrent ==
  []<>(\/ Refused \/ Window \/ Limit > 0
       \/ \A i \in Ids \ hidden : Exists(i) => Loaded(Current(i))) /\
  []<>(\/ Refused \/ Strategy \notin {"replace", "scd2"} \/ Limit > 0
       \/ \A c \in Row : Loaded(c) <=> c \in Rows)
=============================================================================

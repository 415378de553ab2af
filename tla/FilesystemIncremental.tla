----------------------- MODULE FilesystemIncremental -----------------------
(***************************************************************************)
(* --filesystem-incremental: glob_files (dlt_filesystem/source/lister.py),  *)
(* the filesystem resource (source/adapter.py) and resource_for_reader      *)
(* (source/core.py), for a sequence of `omniload ingest` runs over one      *)
(* selection of files while others write to them.                          *)
(*                                                                         *)
(* External, modelled from their use: the filesystem and its modification   *)
(* times, and dlt (dlt.sources.incremental with a closed boundary, which    *)
(* drops the items at the boundary whose primary key, the file URL, it has  *)
(* seen; the load package; refresh="drop_resources").                      *)
(***************************************************************************)
EXTENDS Integers, FiniteSets

CONSTANTS
  Files,          \* the URLs the glob can match
  MaxVersion,     \* bound: contents a file goes through
  MaxTime,        \* bound: ticks of the filesystem's clock
  Options,        \* the command lines considered
  MaxFailures     \* bound: extractions and loads that fail

ASSUME BoundsAssumption == {MaxVersion, MaxTime, MaxFailures} \subseteq Nat
ASSUME FilesAssumption == IsFiniteSet(Files)
ASSUME OptionsAssumption ==
  Options \subseteq [persistentDir : BOOLEAN, fullRefresh : BOOLEAN]

VARIABLES
  options,     \* the command line of all runs
  (* the filesystem *)
  clock,
  version,     \* version[f]: content of f, 0 while there is no such file
  mtime,
  hidden,      \* history: files whose last write does not show in a later listing
  stamped,     \* history: files written with the present time
  raced,       \* history: contents written while a run was listing or reading
  (* the destination *)
  table,       \* table[c]: times content c was appended, 2 standing for "several"
  saved,       \* cursor of the state it holds
  (* the working directory of the pipeline *)
  local, package,
  (* one run *)
  pc,
  refresh,     \* --full-refresh was given to this run
  toStat,      \* globbed files without a modification time yet
  listing,     \* modification_date per listed file, NotListed
  toRead,      \* files past the incremental filter that are not read yet
  rows,
  failures

fileVars == <<clock, version, mtime, hidden, stamped, raced>>
destVars == <<table, saved>>
dirVars == <<local, package>>
readVars == <<refresh, toStat, listing, toRead, rows>>
vars == <<fileVars, destVars, dirVars, pc, readVars, failures, options>>

PersistentDir == options.persistentDir   \* --pipelines-dir is given
FullRefresh == options.fullRefresh       \* runs may be given --full-refresh

Content == Files \X (1 .. MaxVersion)
Current(f) == <<f, version[f]>>
Exists(f) == version[f] > 0

NotListed == -1
NoCursor == [last |-> -1, seen |-> {}]
Cursor == [last : -1 .. MaxTime, seen : SUBSET Files]
NoPackage == [pending |-> FALSE, drop |-> FALSE, rows |-> {}, cursor |-> NoCursor]
Pending == package.pending

\* The cursor a run starts from: a fresh directory is synced from the destination.
Restored == IF PersistentDir THEN local ELSE saved

Init ==
  /\ options \in Options
  /\ clock = 0
  /\ version = [f \in Files |-> 0] /\ mtime = [f \in Files |-> 0]
  /\ hidden = {} /\ stamped = {} /\ raced = {}
  /\ table = [c \in Content |-> 0] /\ saved = NoCursor
  /\ local = NoCursor /\ package = NoPackage
  /\ pc = "idle" /\ refresh = FALSE /\ failures = 0
  /\ toStat = {} /\ listing = [f \in Files |-> NotListed] /\ toRead = {} /\ rows = {}

-----------------------------------------------------------------------------
(* The filesystem. *)

Tick ==
  /\ clock < MaxTime
  /\ clock' = clock + 1 /\ stamped' = {}
  /\ UNCHANGED <<version, mtime, hidden, raced, destVars, dirVars, pc, readVars, failures>>

\* File f gets new content and modification time t.  A later listing does not show
\* it as new if the time is not that of the write, or if the file was written with the
\* same time before, or if a listing in progress is past f.
Store(f, t) ==
  /\ version[f] < MaxVersion
  /\ version' = [version EXCEPT ![f] = @ + 1]
  /\ mtime' = [mtime EXCEPT ![f] = t]
  /\ hidden' = IF t < clock \/ f \in stamped \/ (pc = "listing" /\ f \notin toStat)
               THEN hidden \cup {f} ELSE hidden \ {f}
  /\ stamped' = IF t = clock THEN stamped \cup {f} ELSE stamped
  /\ raced' = IF pc \in {"listing", "reading"}
              THEN raced \cup {<<f, version[f] + 1>>} ELSE raced
  /\ UNCHANGED <<clock, destVars, dirVars, pc, readVars, failures>>

Write(f) == Store(f, clock)
\* cp -p, rsync -t, an archive unpacked: an older time is preserved.
Restore(f) == \E t \in 0 .. clock - 1 : Store(f, t)

-----------------------------------------------------------------------------
(* Listing *)

\* glob_files: the names first.
StartRun ==
  /\ pc = "idle" /\ ~Pending
  /\ refresh' \in {FALSE, FullRefresh}
  /\ toStat' = {f \in Files : Exists(f)}
  /\ listing' = [f \in Files |-> NotListed]
  /\ toRead' = {} /\ rows' = {}
  /\ pc' = "listing"
  /\ UNCHANGED <<fileVars, destVars, dirVars, failures>>

\* dlt loads the package of an earlier run instead, whatever the flags are.
StartWithPending ==
  /\ pc = "idle" /\ Pending
  /\ pc' = "loading"
  /\ UNCHANGED <<fileVars, destVars, dirVars, readVars, failures>>

\* fs_client.info of one of them.
Stat(f) ==
  /\ pc = "listing" /\ f \in toStat
  /\ listing' = [listing EXCEPT ![f] = mtime[f]]
  /\ toStat' = toStat \ {f}
  /\ UNCHANGED <<fileVars, destVars, dirVars, pc, refresh, toRead, rows, failures>>

-----------------------------------------------------------------------------
(* dlt.sources.incremental("modification_date") on the listed files. *)

\* refresh="drop_resources" forgets the resource state.
Start == IF refresh THEN NoCursor ELSE Restored

\* MUTANT of Selects: an open boundary.
SelectsNewer(cursor, f, t) == t > cursor.last
\* MUTANT of Selects: no primary key to tell the files at the boundary apart.
SelectsBoundary(cursor, f, t) == t >= cursor.last
\* The closed boundary.
Selects(cursor, f, t) == t > cursor.last \/ (t = cursor.last /\ f \notin cursor.seen)

Selected == {f \in Files : listing[f] # NotListed /\ Selects(Start, f, listing[f])}

\* The largest time passed on, and the files passed on at that time.
Advanced ==
  IF Selected = {} THEN Start
  ELSE LET last == CHOOSE t \in {listing[f] : f \in Selected} :
                     \A f \in Selected : listing[f] <= t
           at == {f \in Selected : listing[f] = last}
       IN [last |-> last, seen |-> IF last = Start.last THEN Start.seen \cup at ELSE at]

Filter ==
  /\ pc = "listing" /\ toStat = {}
  /\ toRead' = Selected
  /\ pc' = "reading"
  /\ UNCHANGED <<fileVars, destVars, dirVars, refresh, toStat, listing, rows, failures>>

-----------------------------------------------------------------------------
(* The reader opens the files that are left, then the extract step ends. *)

\* The content is what the file holds now.
Read(f) ==
  /\ pc = "reading" /\ f \in toRead
  /\ rows' = rows \cup {Current(f)}
  /\ toRead' = toRead \ {f}
  /\ UNCHANGED <<fileVars, destVars, dirVars, pc, refresh, toStat, listing, failures>>

FinishExtract ==
  /\ pc = "reading" /\ toRead = {}
  /\ package' = [pending |-> TRUE, drop |-> refresh, rows |-> rows, cursor |-> Advanced]
  /\ local' = Advanced
  /\ pc' = "loading"
  /\ UNCHANGED <<fileVars, destVars, readVars, failures>>

\* A file that is gone, a time that is missing, a row that does not parse, a kill:
\* the package and the cursor of the extract step are dropped.
ExtractFails ==
  /\ pc \in {"listing", "reading"} /\ failures < MaxFailures
  /\ failures' = failures + 1
  /\ pc' = "idle"
  /\ UNCHANGED <<fileVars, destVars, dirVars, readVars>>

-----------------------------------------------------------------------------
(* The load: drop the tables of a refresh once, append, complete the package.   *)

Several(k) == IF k > 2 THEN 2 ELSE k
\* table after the jobs holding the rows R
Loading(R) ==
  [c \in Content |-> Several((IF package.drop THEN 0 ELSE table[c])
                             + (IF c \in R THEN 1 ELSE 0))]
\* what a kept package still has to do
Remaining(R) == [package EXCEPT !.rows = @ \ R, !.drop = FALSE]

LoadJobs ==
  /\ pc = "loading"
  /\ table' = Loading(package.rows)
  /\ package' = Remaining(package.rows)
  /\ pc' = "loaded"
  /\ UNCHANGED <<fileVars, saved, local, readVars, failures>>

CompleteLoad ==
  /\ pc = "loaded"
  /\ saved' = package.cursor
  /\ package' = NoPackage
  /\ pc' = "idle"
  /\ UNCHANGED <<fileVars, table, local, readVars, failures>>

\* MUTANT of LoadFails: the package does not survive in the working directory.
LoadFailsDropsPackage ==
  /\ pc = "loading" /\ failures < MaxFailures
  /\ failures' = failures + 1
  /\ package' = NoPackage
  /\ pc' = "idle"
  /\ UNCHANGED <<fileVars, destVars, local, readVars>>

\* MUTANT of LoadFails: the load is tried again although its package is gone.
LoadFailsRetries ==
  /\ pc = "loading" /\ failures < MaxFailures
  /\ failures' = failures + 1
  /\ package' = IF PersistentDir THEN package ELSE NoPackage
  /\ UNCHANGED <<fileVars, destVars, local, pc, readVars>>

\* Before the tables are touched, after some of the jobs, or before the package is
\* complete.  A persistent directory keeps the package.
LoadFails ==
  /\ failures < MaxFailures
  /\ \/ /\ pc = "loading"
        /\ \/ UNCHANGED table /\ package' = IF PersistentDir THEN package ELSE NoPackage
           \/ \E R \in SUBSET package.rows :
                /\ table' = Loading(R)
                /\ package' = IF PersistentDir THEN Remaining(R) ELSE NoPackage
     \/ /\ pc = "loaded"
        /\ package' = IF PersistentDir THEN package ELSE NoPackage
        /\ UNCHANGED table
  /\ failures' = failures + 1
  /\ pc' = "idle"
  /\ UNCHANGED <<fileVars, saved, local, readVars>>

-----------------------------------------------------------------------------
Filesystem == Tick \/ \E f \in Files : Write(f) \/ Restore(f)
Run ==
  \/ StartRun \/ StartWithPending
  \/ (\E f \in Files : Stat(f) \/ Read(f)) \/ Filter \/ FinishExtract
  \/ LoadJobs \/ CompleteLoad
Next == (Filesystem \/ Run \/ ExtractFails \/ LoadFails) /\ UNCHANGED options

Spec == Init /\ [][Next]_vars

\* Schedules keep starting runs, and a run takes its steps.
FairSpec == Spec /\ WF_vars(Run /\ UNCHANGED options)

-----------------------------------------------------------------------------
TypeOK ==
  /\ options \in Options
  /\ clock \in 0 .. MaxTime
  /\ version \in [Files -> 0 .. MaxVersion] /\ mtime \in [Files -> 0 .. MaxTime]
  /\ hidden \subseteq Files /\ stamped \subseteq Files /\ raced \subseteq Content
  /\ table \in [Content -> 0 .. 2]
  /\ {saved, local} \subseteq Cursor
  /\ package \in [pending : BOOLEAN, drop : BOOLEAN, rows : SUBSET Content, cursor : Cursor]
  /\ pc \in {"idle", "listing", "reading", "loading", "loaded"}
  /\ pc \in {"loading", "loaded"} => Pending
  /\ refresh \in BOOLEAN
  /\ toStat \subseteq Files /\ toRead \subseteq Files /\ rows \subseteq Content
  /\ listing \in [Files -> NotListed .. MaxTime]
  /\ failures \in 0 .. MaxFailures

Loaded(c) == table[c] > 0 /\ ~(Pending /\ package.drop)
InPackage(c) == Pending /\ c \in package.rows

(* No content is skipped: what a file holds is in the table, in a package still *)
(* to load, or selected by the next run, unless its write was hidden (docs/     *)
(* getting-started/incremental-loading.md: "A newly added file with an older    *)
(* modification time is not visible", "modifying a file without advancing its   *)
(* modification time leaves it unchanged"; the third way to hide a write, a     *)
(* listing that has passed the file and goes on to find a later time, it does   *)
(* not name).  The exception is a failed --full-refresh without --pipelines-dir: *)
(* the table is dropped, the cursor is not.                                     *)
NothingSkipped ==
  (FullRefresh => PersistentDir) =>
    \A f \in Files :
      Exists(f) /\ f \notin hidden =>
        Loaded(Current(f)) \/ InPackage(Current(f)) \/ Selects(Restored, f, mtime[f])

(* No content is appended twice where the package of a failed load survives,     *)
(* unless it was written while a run was between its listing and its reading:   *)
(* that run reads it under the older time, and the next one again.              *)
LoadedOnce ==
  PersistentDir \/ failures = 0 => \A c \in Content \ raced : table[c] <= 1

(* Again and again, and so for good once the writes are over, the present        *)
(* content of every file is in the table, unless its write was hidden; with the  *)
(* exception of NothingSkipped.                                                  *)
EventuallyLoaded ==
  \A f \in Files :
    []<>(\/ ~Exists(f) \/ f \in hidden
         \/ Loaded(Current(f))
         \/ FullRefresh /\ ~PersistentDir)
=============================================================================

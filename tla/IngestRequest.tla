--------------------------- MODULE IngestRequest ---------------------------
(***************************************************************************)
(* What _run_ingest (omniload/api.py) makes of a command line and a source: *)
(* whether it refuses, which key, disposition and hints are left of the      *)
(* request once handles_incrementality has had its say, and what a sequence  *)
(* of such runs does to one destination table while the source is written.   *)
(* Every source of module Sources is combined with every strategy.           *)
(*                                                                         *)
(* External, modelled from their use: dlt (the dispositions and their hints, *)
(* incremental cursors, whose state a replace resets and an interval does    *)
(* not write) and the source's rows.  Failures and retries, paging and rows  *)
(* that become visible late are in the modules of the components.            *)
(***************************************************************************)
EXTENDS Integers, Sources

CONSTANTS
  Items,          \* rows of the source
  MaxTime,        \* bound: times at which they change
  Recent,         \* how far back a source looks by default
  Lo, Hi,         \* --interval-start and --interval-end
  Requests        \* the command lines considered

Strategies == {"unset", "none", "replace", "append", "merge", "delete+insert", "scd2"}
Options == {"none", "interval", "limit", "mask", "arrow", "files", "uri", "table", "dry"}

ASSUME TimesAssumption == {MaxTime, Recent, Lo, Hi} \subseteq Nat
ASSUME RequestsAssumption ==
  \A r \in Requests :
    /\ r.source \in AllSources /\ r.table \in r.source.tables
    /\ r.strategy \in Strategies /\ r.option \in Options
    \* a column that orders the rows, or one that many of them share
    /\ r.key \in {"none", "time", "group"}
    /\ r.key = "group" => r.source.key = "ignored"

VARIABLES
  plan,        \* what is left of the request when the load is started
  clock,
  at,          \* at[i]: the time of row i's last change, 0 before it exists, -1 after
  table,       \* current rows of the destination; under scd2 the records that are open
  last, seen,  \* the resource's cursor, and the rows that were read at it
  pc,
  rows         \* what the run has read

vars == <<plan, clock, at, table, last, seen, pc, rows>>

Time == 1 .. MaxTime
Row(i) == [item |-> i, at |-> at[i]]
Held == {Row(i) : i \in {j \in Items : at[j] > 0}}

-----------------------------------------------------------------------------
(* The request. *)

Own(r) == r.source.own
Asked(r) == r.key # "none"                              \* --incremental-key
\* A source that manages incrementality is not given the key...
LeftKey(r) == IF Own(r) THEN "none" ELSE r.key
\* ...but delete+insert has by then marked it as the merge key.
MergeKey(r) == IF r.strategy = "delete+insert" THEN r.key ELSE "none"

\* Such a source writes as it declares, unless it lets the run choose.
Honoured(r) == Own(r) /\ r.source.honours /\ r.strategy # "unset"
Strategy(r) ==
  IF Own(r)
  THEN IF Honoured(r) /\ r.strategy \in {"append", "replace"} THEN r.strategy ELSE "none"
  ELSE CASE r.strategy = "unset" -> "replace"
         [] r.strategy \in {"delete+insert", "scd2"} -> "merge"
         [] OTHER -> r.strategy
RunsScd2(r) == r.strategy = "scd2" /\ Strategy(r) # "none"

FilesRefused(r) ==
  r.option = "files" /\ (~r.source.files \/ r.strategy \notin {"unset", "append", "none"})
KeyRefused(r) == Asked(r) /\ r.source.options = "named"
StrategyRefused(r) == Honoured(r) /\ r.strategy \in {"merge", "scd2", "delete+insert"}
\* MUTANT of PartialRead: --yield-limit is forgotten.
PartialByKey(r) == LeftKey(r) # "none"
PartialRead(r) == LeftKey(r) # "none" \/ r.option = "limit"
\* A memory-mapped file, or an SQL backend that was asked for.
ArrowAsked(r) == r.source.rows = "arrow" \/ (r.source.rows = "sql" /\ r.option = "arrow")
Scd2Refused(r) == RunsScd2(r) /\ (PartialRead(r) \/ r.option = "mask" \/ ArrowAsked(r))

\* What dlt_source checks first.
GuardFires(r) ==
  CASE r.source.guard = "resolved"  -> LeftKey(r) # "none"
    [] r.source.guard = "requested" -> Asked(r)
    [] r.source.guard = "none"      -> FALSE
SourceRefuses(r) == GuardFires(r) \/ r.option \in r.source.checks

Verdict(r) ==
  CASE FilesRefused(r) \/ KeyRefused(r) \/ StrategyRefused(r) \/ Scd2Refused(r) -> "refused"
    [] r.option = "dry"               -> "done"
    [] SourceRefuses(r)               -> "refused"
    [] r.option \in {"uri", "table"}  -> "failed"       \* while reading
    [] OTHER                          -> "idle"

-----------------------------------------------------------------------------
(* What the run does. *)

\* The key becomes a cursor, files have their own, resources may have one.
KeyIsCursor(r) == LeftKey(r) # "none" /\ r.source.key = "cursor"
Reads(r) == IF KeyIsCursor(r) \/ r.option = "files" THEN "cursor" ELSE r.table.reads
Window(r) == IF KeyIsCursor(r) THEN "ever" ELSE r.source.window

\* dlt's disposition: the run's, or else the one the resource declares.
Disposition(r) ==
  CASE RunsScd2(r)          -> "scd2"
    [] Strategy(r) # "none" -> Strategy(r)
    [] OTHER                -> r.table.writes

\* SQL rows are Arrow tables by default; scd2 chooses another backend then.
ArrowRows(r) == ArrowAsked(r) \/ (r.source.rows = "sql" /\ ~RunsScd2(r))

\* MUTANT of Deduplicates: delete+insert leaves the incremental its primary key.
DeduplicatesAlways(r) == TRUE
\* dlt leaves out rows at the cursor that were read before; for a delete+insert it is
\* told not to, since their merge key deletes them.
Deduplicates(r) == r.strategy # "delete+insert"

Plan(r) ==
  [reads |-> Reads(r),
   window |-> IF Reads(r) = "whole" THEN "none" ELSE Window(r),
   interval |-> r.option = "interval" /\ Reads(r) # "whole" /\ Window(r) # "none",
   limit |-> r.option = "limit", masked |-> r.option = "mask",
   arrow |-> ArrowRows(r), compares |-> RunsScd2(r),
   disposition |-> Disposition(r),
   \* what a merge goes by: the key of a resource that declares a merge, and the hint
   byRow |-> r.table.writes = "merge",
   byKey |-> IF Disposition(r) = "merge" THEN MergeKey(r) ELSE "none",
   deduplicates |-> Deduplicates(r),
   \* the source speaks against a key, and there is one
   contested |-> Asked(r) /\ Own(r) /\ r.source.guard = "resolved"]

Init ==
  /\ \E r \in Requests : plan = Plan(r) /\ pc = Verdict(r)
  /\ clock = 1 /\ at = [i \in Items |-> 0]
  /\ table = {} /\ last = 0 /\ seen = {} /\ rows = {}

-----------------------------------------------------------------------------
(* The source. *)

Loading == pc \in {"idle", "loading"}

Tick ==
  /\ Loading /\ clock < MaxTime
  /\ clock' = clock + 1
  /\ UNCHANGED <<plan, at, table, last, seen, pc, rows>>

\* Row i is created or updated.
Write(i) ==
  /\ Loading /\ at[i] >= 0 /\ at[i] < clock
  /\ at' = [at EXCEPT ![i] = clock]
  /\ UNCHANGED <<plan, clock, table, last, seen, pc, rows>>

\* Row i is deleted for good.
Delete(i) ==
  /\ Loading /\ at[i] > 0
  /\ at' = [at EXCEPT ![i] = -1]
  /\ UNCHANGED <<plan, clock, table, last, seen, pc, rows>>

-----------------------------------------------------------------------------
(* A run that is not refused. *)

\* A replace resets the resource's state, an interval that ends leaves none.
KeepsCursor == plan.reads = "cursor" /\ plan.disposition # "replace" /\ ~plan.interval

Lower ==
  CASE plan.interval                   -> Lo
    [] KeepsCursor /\ last > 0         -> last
    [] plan.window = "recent"          -> clock - Recent
    [] OTHER                           -> 0
Upper == IF plan.interval THEN Hi ELSE clock
InRange(c) == plan.reads = "whole" \/ (Lower <= c.at /\ c.at <= Upper)
ReadBefore(c) == KeepsCursor /\ plan.deduplicates /\ c.at = last /\ c \in seen
ToRead == {c \in Held : InRange(c) /\ ~ReadBefore(c)}

\* --yield-limit closes the generator anywhere.
Extract ==
  /\ pc = "idle"
  /\ \E B \in IF plan.limit THEN SUBSET ToRead ELSE {ToRead} : rows' = B
  /\ pc' = "loading"
  /\ UNCHANGED <<plan, clock, at, table, last, seen>>

\* A merge deletes the rows that share a key with a new one.
Displaced(c) ==
  \E b \in rows :
    \/ plan.byRow /\ b.item = c.item
    \/ plan.byKey = "time" /\ b.at = c.at
    \/ plan.byKey = "group"
\* Without a key a merge appends.
Loaded ==
  CASE plan.disposition = "append"             -> table \cup rows
    [] plan.disposition \in {"replace", "scd2"} -> rows
    [] plan.disposition = "merge"              -> {c \in table : ~Displaced(c)} \cup rows

\* scd2 needs a hash of each row, which rows of Arrow tables do not have.
Dies == plan.disposition = "scd2" /\ plan.arrow
Newest == CHOOSE t \in {b.at : b \in rows} : \A b \in rows : b.at <= t
ReadAtNewest == {b \in rows : b.at = Newest} \cup IF Newest = last THEN seen ELSE {}

Load ==
  /\ pc = "loading"
  /\ pc' = IF Dies THEN "died" ELSE "idle"
  /\ table' = IF Dies THEN table ELSE Loaded
  /\ IF KeepsCursor /\ rows # {} /\ ~Dies
     THEN last' = Newest /\ seen' = ReadAtNewest
     ELSE UNCHANGED <<last, seen>>
  /\ rows' = {}
  /\ UNCHANGED <<plan, clock, at>>

Next ==
  \/ Tick
  \/ \E i \in Items : Write(i) \/ Delete(i)
  \/ Extract \/ Load

Spec == Init /\ [][Next]_vars

-----------------------------------------------------------------------------
TypeOK ==
  /\ clock \in Time /\ at \in [Items -> {-1, 0} \cup Time]
  /\ table \cup seen \cup rows \subseteq [item : Items, at : Time]
  /\ last \in {0} \cup Time
  /\ pc \in {"refused", "failed", "done", "idle", "loading", "died"}

\* Loaded rows which a step takes out of the table although the source has them
\* unchanged, and which the next run does not bring back; a replace of a range is
\* meant to leave only the range.
LostRows ==
  {c \in table \ table' :
     /\ c \in Held'
     /\ c \notin ToRead'
     /\ ~(plan.disposition = "replace" /\ ~InRange(c)')}

\* What the code accepts although it loses rows: a merge key that does not follow the
\* range which is read, one that a limit cuts, and scd2 over a resource that hands on
\* only what is new.
Unsound ==
  \/ plan.byKey = "group" /\ plan.reads # "whole"
  \/ plan.byKey # "none" /\ plan.limit /\ plan.reads # "whole"
  \/ plan.disposition = "scd2" /\ plan.reads # "whole"

(* Whatever strategy, key and option a run combines with whatever source, a row  *)
(* that is loaded and unchanged stays in the destination, or the next run reads  *)
(* it again: a merge deletes only what is read, a replace starts its resource    *)
(* afresh, and a source's own disposition is not overridden.                     *)
StaysOrReturns == [][Unsound \/ LostRows = {}]_vars

(* scd2, once accepted for a resource that is read whole, retires a record only  *)
(* if the row has changed or is gone ("so refuse it up front"), and its load     *)
(* does not die of rows without a hash.                                          *)
HistoryIsTrue ==
  [][plan.compares /\ plan.reads = "whole" =>
       /\ pc' # "died"
       /\ pc = "loading" /\ pc' = "idle" =>
            \A c \in IF plan.masked THEN table ELSE table \ table' : c \notin Held]_vars

(* Sources "reject conflicting flags, rather than silently ignoring them": a key  *)
(* which the source says should not be provided makes no run lose rows.  The code *)
(* takes the key from such a source before its guard looks at it, and marks it as *)
(* the merge key of a delete+insert all the same.                                *)
OwnSourcesKeepRows == [][plan.contested => LostRows = {}]_vars
=============================================================================

---------------------------- MODULE PagedSource ----------------------------
(***************************************************************************)
(* The paged API sources of omniload: a client asks for a collection page by *)
(* page, a dlt resource hands the items on, dlt.sources.incremental keeps    *)
(* the largest update time, and the rows are merged into a table, for a      *)
(* sequence of `omniload ingest` runs while others write to the collection.  *)
(* Module Connectors describes the sources by the features named here.       *)
(*                                                                         *)
(* External, modelled from their use: the services (a token continues after  *)
(* the last item of its page in the order asked for, an offset counts        *)
(* places, a snapshot does not change while it is read), and dlt (start      *)
(* value with a closed boundary, a merge that keeps an arbitrary one of      *)
(* several rows with one key, a load that is applied as a whole).            *)
(***************************************************************************)
EXTENDS Integers, FiniteSets, FiniteSetsExt

CONSTANTS
  Items,          \* keys of the items, in the order in which they are created
  PageSize,       \* items per page
  MaxTime,        \* bound: ticks of the service's clock
  MaxFailures,    \* bound: requests and loads that fail
  Connectors      \* the sources considered

Feature == [
  position : {"offset", "token", "time", "snapshot"},   \* what a request continues from
  order    : {"key", "newest", "asc", "desc"},  \* by key, the last one first, or by time
  stop     : {"empty", "short", "next", "first", "older", "overlap", "filtered"},
  error    : {"raise", "repeat", "ends", "skips"},
  filter   : {"server", "client"},              \* who applies the range, or its upper end
  from     : {"all", "ge", "gt", "live"},       \* its lower end: the cursor, kept or moving
  upto     : {"open", "now", "window"},         \* its upper end: start of the run
  stamp    : {"updated", "created"},            \* does an update move the time?
  parents  : {"none", "fresh", "reused", "changed"},  \* one collection per parent
  write    : {"merge", "replace"}]

ASSUME BoundsAssumption ==
  /\ MaxFailures \in Nat /\ {MaxTime, PageSize} \subseteq Nat \ {0}
  /\ Items \subseteq Nat /\ IsFiniteSet(Items)
ASSUME ConnectorsAssumption == Connectors \subseteq Feature

VARIABLES
  connector,   \* the source of all runs
  (* the service *)
  clock,
  at,          \* at[i]: time of item i, NotYet before it is created, Gone after
  touched,     \* touched[p]: time of parent p, where the range is one of parents
  (* the destination *)
  table,       \* table[i]: time of the loaded row of item i, NotYet without one
  last,        \* the cursor of the committed state
  seen,        \* the items handed on with the time of the cursor
  (* one run *)
  pc,
  low, high,   \* the range asked for
  listed,      \* the parents as they were when the run started
  parent,      \* the parent whose collection is read
  pos,         \* where the next request continues
  rows,        \* what was handed on
  steady,      \* history: items that stayed as they were since the run started
  failures

serviceVars == <<clock, at, touched>>
destVars == <<table, last, seen>>
readVars == <<low, high, listed, parent, pos, rows>>
vars == <<serviceVars, destVars, pc, readVars, steady, failures, connector>>

NotYet == 0
Gone == -1
Exists(i) == at[i] > 0
Parents == IF connector.parents = "none" THEN 1 .. 1 ELSE 1 .. 2
\* The items of two parents are created by turns.
ParentOf(i) == IF i % 2 = 1 THEN 1 ELSE 2

\* of the first page; later an offset skips places, a token follows an item
Start == [skip |-> 0, after |-> {}]
Unlisted == [p \in Parents |-> 1]

\* The range is one of parents, of which all items are read.
ByParent == connector.parents = "changed"

\* A run that is over leaves nothing behind but the table and the cursor.
EndRun ==
  /\ pc' = "idle"
  /\ low' = 0 /\ high' = 0 /\ listed' = Unlisted
  /\ parent' = 1 /\ pos' = Start /\ rows' = {} /\ steady' = {}

Init ==
  /\ connector \in Connectors
  /\ clock = 1 /\ at = [i \in Items |-> NotYet]
  /\ touched = Unlisted /\ listed = Unlisted
  /\ table = [i \in Items |-> NotYet] /\ last = 0 /\ seen = {}
  /\ pc = "idle" /\ low = 0 /\ high = 0 /\ parent = 1 /\ pos = Start
  /\ rows = {} /\ steady = {} /\ failures = 0

-----------------------------------------------------------------------------
(* The range of a run *)

\* dlt leaves out what the last run handed on with the start value.
AskedFor(p) == listed[p] > low \/ (listed[p] = low /\ p \notin seen)

\* the largest time handed on: where dlt.sources.incremental has its cursor by now
Newest == Max({low} \cup IF ByParent THEN {listed[p] : p \in {q \in Parents : AskedFor(q)}}
                         ELSE {a[2] : a \in rows})

\* MUTANT of InRange: the items at the boundary are taken to be loaded.
InRangeOpen(t) ==
  /\ connector.from = "all" \/ t > low
  /\ connector.upto = "now" => t <= high
  /\ connector.upto = "window" => t < high
InRange(t) ==
  /\ \/ connector.from = "all" \/ ByParent
     \/ connector.from = "ge" /\ t >= low
     \/ connector.from = "gt" /\ t > low
     \/ connector.from = "live" /\ t >= Newest
  /\ connector.upto = "now" => t <= high
  /\ connector.upto = "window" => t < high

\* The same for the items, where they carry the cursor.
Repeated(i, t) == connector.from # "all" /\ ~ByParent /\ t = low /\ i \in seen

-----------------------------------------------------------------------------
(* The service.  An item has a new time whenever it changes. *)

Tick ==
  /\ clock < MaxTime
  /\ clock' = clock + 1
  /\ UNCHANGED <<at, touched, destVars, pc, readVars, steady, failures>>

\* An item before others leaves its place: whoever counts places now skips one.
Disturb(i, shifts) ==
  steady' = IF connector.position = "offset" /\ shifts THEN {} ELSE steady \ {i}

Create(i) ==
  /\ at[i] = NotYet /\ \A j \in Items : j < i => at[j] # NotYet
  /\ at' = [at EXCEPT ![i] = clock]
  /\ UNCHANGED <<clock, touched, destVars, pc, readVars, steady, failures>>

Update(i) ==
  /\ connector.stamp = "updated" /\ Exists(i) /\ at[i] # clock
  /\ at' = [at EXCEPT ![i] = clock]
  /\ Disturb(i, \/ connector.order = "asc"
                \/ connector.filter = "server" /\ connector.upto # "open")
  /\ UNCHANGED <<clock, touched, destVars, pc, readVars, failures>>

Delete(i) ==
  /\ Exists(i)
  /\ at' = [at EXCEPT ![i] = Gone]
  /\ Disturb(i, TRUE)
  /\ UNCHANGED <<clock, touched, destVars, pc, readVars, failures>>

\* A parent is changed; writing to its items does not change it.
Touch(p) ==
  /\ ByParent /\ touched[p] # clock
  /\ touched' = [touched EXCEPT ![p] = clock]
  /\ UNCHANGED <<clock, at, destVars, pc, readVars, steady, failures>>

-----------------------------------------------------------------------------
(* What a request returns *)

\* a pair <<item, time>> comes before another one
Before(a, b) ==
  CASE connector.order = "key" -> a[1] < b[1]
    [] connector.order = "newest" -> a[1] > b[1]
    [] connector.order = "asc" -> a[2] < b[2] \/ (a[2] = b[2] /\ a[1] < b[1])
    [] connector.order = "desc" -> a[2] > b[2] \/ (a[2] = b[2] /\ a[1] < b[1])

Collection ==
  {<<i, at[i]>> : i \in {j \in Items :
     /\ Exists(j)
     /\ connector.parents # "none" => ParentOf(j) = parent
     /\ ByParent => AskedFor(parent)
     /\ connector.filter = "server" => InRange(at[j])}}

\* the place of a in the listing of the items S
Place(a, S) == Cardinality({b \in S : Before(b, a)})

\* what is left of the collection at the position of the request
Rest ==
  CASE connector.position = "offset" -> {a \in Collection : pos.skip <= Place(a, Collection)}
    [] connector.position = "token" -> {a \in Collection : \A b \in pos.after : Before(b, a)}
    [] connector.position = "time" -> {a \in Collection : \A b \in pos.after : a[2] < b[2]}
    [] connector.position = "snapshot" -> Collection

Page == IF connector.position = "snapshot" THEN Rest
        ELSE {a \in Rest : Place(a, Rest) < PageSize}

LastOf(S) == CHOOSE a \in S : \A b \in S : b = a \/ Before(b, a)

Continued ==
  IF connector.position = "offset" THEN [Start EXCEPT !.skip = pos.skip + PageSize]
  ELSE IF Page = {} THEN pos
  ELSE [Start EXCEPT !.after = {LastOf(Page)}]

\* The page after which the loop ends.
LastPage ==
  \/ connector.position = "snapshot"
  \/ CASE connector.stop = "empty" -> Page = {}
       [] connector.stop = "short" -> Cardinality(Page) < PageSize
       [] connector.stop = "next" -> Page = Rest
       [] connector.stop = "first" -> TRUE
       [] connector.stop = "older" -> Page = Rest \/ \A a \in Page : a[2] < low
       [] connector.stop = "overlap" -> Page = Rest \/ \E a \in Page : a[2] < low
       [] connector.stop = "filtered" -> \A a \in Page : ~InRange(a[2])

-----------------------------------------------------------------------------
(* One run *)

\* the upper end of the range, for a request that names one
UpperEnd == IF connector.upto = "open" THEN 0 ELSE clock

\* MUTANT of StartRun: the cursor of the last run is not kept.
StartRunAtClock ==
  /\ pc = "idle"
  /\ pc' = "reading"
  /\ low' = clock /\ high' = UpperEnd
  /\ listed' = touched /\ parent' = 1 /\ pos' = Start /\ rows' = {}
  /\ steady' = {i \in Items : Exists(i)}
  /\ UNCHANGED <<serviceVars, destVars, failures>>

StartRun ==
  /\ pc = "idle"
  /\ pc' = "reading"
  /\ low' = last /\ high' = UpperEnd
  /\ listed' = touched /\ parent' = 1 /\ pos' = Start /\ rows' = {}
  /\ steady' = {i \in Items : Exists(i)}
  /\ UNCHANGED <<serviceVars, destVars, failures>>

\* MUTANT of EndOfPages: the loop over the parents is not left after the last one.
EndOfPagesForgetsEnd ==
  /\ parent' = parent + 1 /\ pos' = Start
  /\ pc' = IF parent + 1 \in Parents THEN pc ELSE "loading"

\* The loop over the pages of one collection is left.
EndOfPages ==
  IF parent + 1 \in Parents
  THEN /\ parent' = parent + 1
       /\ pos' = IF connector.parents = "reused" THEN pos ELSE Start
       /\ UNCHANGED pc
  ELSE /\ pc' = "loading"
       /\ UNCHANGED <<parent, pos>>

\* The loop asks for the page after this one, or is left.
GoOn == IF LastPage THEN EndOfPages
        ELSE pos' = Continued /\ UNCHANGED <<pc, parent>>

\* MUTANT of ReadPage: a loop left at the last page before its items are handed on.
ReadPageDropsLast ==
  /\ pc = "reading"
  /\ IF LastPage THEN EndOfPages /\ UNCHANGED rows
     ELSE /\ rows' = rows \cup {a \in Page : InRange(a[2]) /\ ~Repeated(a[1], a[2])}
          /\ pos' = Continued
          /\ UNCHANGED <<pc, parent>>
  /\ UNCHANGED <<serviceVars, destVars, low, high, listed, steady, failures>>

ReadPage ==
  /\ pc = "reading"
  /\ rows' = rows \cup {a \in Page : InRange(a[2]) /\ ~Repeated(a[1], a[2])}
  /\ GoOn
  /\ UNCHANGED <<serviceVars, destVars, low, high, listed, steady, failures>>

\* A request whose retries, if there are any, are used up.
FetchFails ==
  /\ pc = "reading" /\ failures < MaxFailures
  /\ failures' = failures + 1
  /\ \/ \* the exception ends the run; nothing it read is kept
        /\ connector.error = "raise" \/ (connector.error = "repeat" /\ pos = Start)
        /\ EndRun
     \/ \* the page before is handled once more, and the request made again
        /\ connector.error = "repeat" /\ pos # Start
        /\ UNCHANGED <<pc, readVars, steady>>
     \/ \* a reply without items and without a next page
        /\ connector.error = "ends"
        /\ EndOfPages
        /\ UNCHANGED <<low, high, listed, rows, steady>>
     \/ \* the items of the page are given up, one by one
        /\ connector.error = "skips"
        /\ GoOn
        /\ UNCHANGED <<low, high, listed, rows, steady>>
  /\ UNCHANGED <<serviceVars, destVars>>

\* the cursor the run leaves: the largest time it handed on, or the end of its window
Latest == IF connector.upto = "window" THEN high ELSE Newest

Read == {a[1] : a \in rows}

Load ==
  /\ pc = "loading"
  /\ \E row \in [Read -> 1 .. MaxTime] :
       /\ \A i \in Read : <<i, row[i]>> \in rows
       /\ table' = [i \in Items |->
                      IF i \in Read THEN row[i]
                      ELSE IF connector.write = "merge" THEN table[i] ELSE NotYet]
  /\ last' = IF connector.from = "all" THEN last ELSE Latest
  /\ seen' = IF connector.from = "all" THEN seen
             ELSE (IF ByParent THEN {p \in Parents : AskedFor(p) /\ listed[p] = Latest}
                   ELSE {i \in Items : <<i, Latest>> \in rows})
                    \cup (IF Latest = low THEN seen ELSE {})
  /\ EndRun
  /\ UNCHANGED <<serviceVars, failures>>

LoadFails ==
  /\ pc = "loading" /\ failures < MaxFailures
  /\ failures' = failures + 1
  /\ EndRun
  /\ UNCHANGED <<serviceVars, destVars>>

-----------------------------------------------------------------------------
Service ==
  \/ Tick
  \/ \E i \in Items : Create(i) \/ Update(i) \/ Delete(i)
  \/ \E p \in Parents : Touch(p)
Run == StartRun \/ ReadPage \/ Load
Next == (Service \/ Run \/ FetchFails \/ LoadFails) /\ UNCHANGED connector

Spec == Init /\ [][Next]_vars

\* A schedule keeps starting runs, and a run takes its steps.
FairSpec == Spec /\ WF_vars(Run /\ UNCHANGED connector)

-----------------------------------------------------------------------------
TypeOK ==
  /\ connector \in Connectors
  /\ clock \in 1 .. MaxTime /\ at \in [Items -> Gone .. MaxTime]
  /\ {touched, listed} \subseteq [Parents -> 1 .. MaxTime]
  /\ table \in [Items -> 0 .. MaxTime] /\ last \in 0 .. MaxTime
  /\ seen \subseteq IF ByParent THEN Parents ELSE Items
  /\ pc \in {"idle", "reading", "loading"}
  /\ {low, high} \subseteq 0 .. MaxTime /\ parent \in Parents
  /\ pos \in [skip : Nat, after : SUBSET (Items \X (1 .. MaxTime))]
  /\ rows \subseteq Items \X (1 .. MaxTime)
  /\ steady \subseteq Items /\ failures \in 0 .. MaxFailures

(* Which connectors promise what *)

\* The loop reaches every item that is there all the time.
ReadsOn(c) ==
  /\ c.error \in {"raise", "repeat"} /\ c.stop \notin {"first", "filtered"}
  /\ c.parents # "reused" /\ c.position # "time" /\ c.from # "live"
  /\ c.stop \in {"older", "overlap"} => c.order = "desc" /\ c.parents # "changed"

\* A run meets no item a second time, with a time that dlt takes to be loaded.
MeetsOnce(c) ==
  c.stamp = "created" \/ c.position = "snapshot" \/ c.order # "asc"

\* The cursor does not pass an item that is written behind the position of the run.
StaysBehind(c) ==
  \/ c.upto # "open"
  \/ c.parents = "changed"
  \/ c.parents = "none" /\ (\/ c.stamp = "created" \/ c.position = "snapshot"
                            \/ c.order = "desc")

Dependable(c) ==
  /\ ReadsOn(c)
  /\ \/ c.from = "all"
     \/ /\ c.from = "ge" /\ c.write = "merge" /\ c.position \in {"token", "snapshot"}
        /\ MeetsOnce(c) /\ StaysBehind(c)

\* A run hands on every item of its range that is there, unchanged, from its
\* start to its end, however often it asked for a page again: the loops of the
\* clients end neither early nor behind an item.
EveryItemRead ==
  pc = "loading" /\ ReadsOn(connector) =>
    \A i \in steady :
      /\ Exists(i) /\ InRange(at[i])
      /\ ByParent => AskedFor(ParentOf(i))
      => i \in Read \/ Repeated(i, at[i])

\* The time and the name by which the next run asks for an item.
Asked(i) == IF ByParent THEN <<touched[ParentOf(i)], ParentOf(i)>> ELSE <<at[i], i>>

NextRunReads(i) ==
  \/ connector.from = "all"
  \/ Asked(i)[1] > last
  \/ Asked(i)[1] = last /\ connector.from # "gt" /\ Asked(i)[2] \notin seen

\* A source whose range is one of parents sees an item when its parent changes after it.
Visible(i) == Exists(i) /\ (ByParent => at[i] < touched[ParentOf(i)])

\* Between runs, what the service holds is in the table as it is, or the next
\* run reads it: the cursor a run leaves passes no item it did not load.
NothingLost ==
  pc = "idle" /\ Dependable(connector) =>
    \A i \in Items : Visible(i) => table[i] = at[i] \/ NextRunReads(i)

\* When nothing is written any more the table catches up: the items have their
\* last version.  A window is loaded once it is over.
EventuallyCurrent ==
  Dependable(connector) =>
    <>[](\A i \in Items :
           Visible(i) /\ (connector.upto = "window" => at[i] < clock) => table[i] = at[i])

\* "Replace ... simply replaces the entire destination table with the source table"
\* (docs/getting-started/incremental-loading.md): the rows that replace a table
\* have every item that was there from the start of the run to its end.
ReplacedIsWhole ==
  pc = "loading" /\ connector.write = "replace" => {i \in steady : Exists(i)} \subseteq Read
=============================================================================

---------------------------- MODULE DailyReport ----------------------------
(***************************************************************************)
(* The report sources of omniload: a service publishes figures by day, and  *)
(* revises them for some time; a run of `omniload ingest` asks for a range   *)
(* of days, in one or several requests, and merges the rows into a table.    *)
(* Where the range begins, when it ends, and what a row is known by, differs *)
(* from source to source: module Reports describes them by the features     *)
(* named here.                                                              *)
(*                                                                         *)
(* External, modelled from their use: the service, and dlt: a cursor on the  *)
(* day keeps the rows it handed on with its last value and leaves them out   *)
(* the next time, by primary key where there is one and else by content; a   *)
(* range with an end keeps no cursor; a merge key deletes all rows of the    *)
(* days that are loaded.                                                     *)
(***************************************************************************)
EXTENDS Integers, FiniteSets, FiniteSetsExt

CONSTANTS
  Keys,           \* what a day has a row for: campaigns, applications, ...
  MaxDay,         \* bound: days that pass
  Revisable,      \* days for which the service may still revise a figure
  Window,         \* days that a range without a cursor looks back
  Span,           \* days asked for at once, less one, where the source cuts the range
  RowLimit,       \* rows of a request after which a capped source turns no more pages
  MaxChanges,     \* bound: figures published or revised
  MaxFailures,    \* bound: requests and loads that fail
  Reports         \* the sources considered

Feature == [
  start  : {"cursor", "window"},             \* the last day loaded, or given
  end    : {"today", "yesterday"},
  cut    : {"range", "spans", "days"},       \* days asked for by one request
  dated  : {"days", "instants"},             \* what the ends of the range are
  pages  : {"all", "capped"},                \* the pages of a request that are turned
  key    : {"row", "day", "both", "none"},   \* primary key, merge key, both, append
  error  : {"raise", "ends"},                \* a report that is not ready in time
  absent : {"fine", "raise"}]                \* a key without rows in the range

ASSUME BoundsAssumption ==
  /\ {Revisable, Window, Span, RowLimit, MaxChanges, MaxFailures} \subseteq Nat
  /\ MaxDay \in Nat \ {0}
  /\ IsFiniteSet(Keys)
ASSUME ReportsAssumption == Reports \subseteq Feature

VARIABLES
  report,      \* the source of all runs
  (* the service *)
  today,
  figure,      \* figure[d][k]: 0 as long as it is not published
  changes,
  (* the destination *)
  table,       \* rows <<day, key, figure>>
  last,        \* the cursor of the committed state, 0 without one
  seen,        \* the rows handed on with the day of the cursor
  (* one run *)
  pc,
  low, high,   \* the range of days
  begins,      \* the time of day its start has, against that of its end
  next,        \* the first day of the next request
  rows,        \* what was handed on
  failures,
  (* history *)
  known,       \* rows <<day, key>> that were published when the run began
  settled,     \* those whose figures were final by then
  loaded,      \* rows <<day, key>> that committed runs owe the table, ...
  exact,       \* ... with their final figures
  capped       \* a request of some run had more rows than its pages were turned for

serviceVars == <<today, figure, changes>>
destVars == <<table, last, seen, loaded, exact>>
rangeVars == <<low, high, begins, known, settled>>
vars == <<report, serviceVars, destVars, pc, rangeVars, next, rows, failures, capped>>

Days == 1 .. MaxDay
Published(d, k) == figure[d][k] > 0

Init ==
  /\ report \in Reports
  /\ today = 1 /\ figure = [d \in Days |-> [k \in Keys |-> 0]] /\ changes = 0
  /\ table = {} /\ last = 0 /\ seen = {} /\ loaded = {} /\ exact = {}
  /\ pc = "idle" /\ low = 0 /\ high = 0 /\ begins = "midnight" /\ known = {} /\ settled = {}
  /\ next = 0 /\ rows = {} /\ failures = 0 /\ capped = FALSE

EndRun ==
  /\ pc' = "idle" /\ low' = 0 /\ high' = 0 /\ begins' = "midnight"
  /\ known' = {} /\ settled' = {} /\ next' = 0 /\ rows' = {}

-----------------------------------------------------------------------------
(* The service *)

NewDay ==
  /\ today < MaxDay
  /\ today' = today + 1
  /\ UNCHANGED <<figure, changes, destVars, pc, rangeVars, next, rows, failures, capped>>

\* A figure is published, or revised, during its day and some days after it.
Publish(d, k) ==
  /\ changes < MaxChanges
  /\ d <= today /\ today <= d + Revisable
  /\ figure' = [figure EXCEPT ![d][k] = @ + 1]
  /\ changes' = changes + 1
  /\ UNCHANGED <<today, destVars, pc, rangeVars, next, rows, failures, capped>>

-----------------------------------------------------------------------------
(* One run *)

First == IF report.start = "cursor"
         THEN IF last = 0 THEN 1 ELSE last
         ELSE Max({1, today - Window})
\* MUTANT of Final: a day is asked for when it is over.
FinalIsYesterday == today - 1
Final == IF report.end = "today" THEN today ELSE today - 1

\* A range of instants begins at midnight, or at a time of day that is earlier or
\* later than that at which it ends.
Times == IF report.dated = "instants" THEN {"midnight", "early", "late"} ELSE {"midnight"}

\* A request that would begin on the last day begins after the range ends.
Late(time) == time = "late" /\ report.cut = "spans"

\* The range is empty.
Empty(time) == First > Final \/ (First = Final /\ Late(time))

\* Rows are dated at midnight, before an instant later in the first day; the last
\* day may not be asked for.
AskedFor(d, time) ==
  /\ First <= d /\ d <= Final
  /\ time # "midnight" => d # First
  /\ Late(time) => d # Final

StartRun ==
  /\ pc = "idle"
  /\ begins' \in Times
  /\ low' = First /\ high' = Final /\ next' = First
  /\ pc' = IF Empty(begins') THEN "loading" ELSE "reading"
  /\ known' = {p \in Days \X Keys : Published(p[1], p[2]) /\ AskedFor(p[1], begins')}
  /\ settled' = {p \in known' : p[1] + Revisable < today /\ p[1] # last}
  /\ UNCHANGED <<serviceVars, destVars, rows, failures, capped>>

\* the last day of the request that begins with day next
Until ==
  CASE report.cut = "range" -> high
    [] report.cut = "spans" -> Min({next + Span, high})
    [] report.cut = "days" -> next

\* The next request would begin after the range ends.
Done == Until = high \/ (Late(begins) /\ Until + 1 = high)

\* MUTANT of GoOn: the next request begins where another day would have ended.
GoOnBehindGap ==
  /\ next' = Until + 2
  /\ pc' = IF Done \/ Until + 2 > high THEN "loading" ELSE pc
GoOn ==
  /\ next' = Until + 1
  /\ pc' = IF Done THEN "loading" ELSE pc

\* What the last run handed on with the start value, and what is left out now.
\* MUTANT of Repeated: rows of all days are taken to be known.
RepeatedEver(d, k) == \E r \in table : r[2] = k
Repeated(d, k) ==
  /\ report.start = "cursor" /\ d = last
  /\ \E r \in seen : r[2] = k /\ (report.key = "day" => r[3] = figure[d][k])

\* what a request answers with, and dlt does not drop
Answered ==
  {p \in (next .. Until) \X Keys :
     /\ Published(p[1], p[2]) /\ ~Repeated(p[1], p[2])
     /\ begins # "midnight" => p[1] # low}

Absent == \E k \in Keys : \A d \in next .. Until : ~Published(d, k)

\* More rows than pages are turned for: some of them are handed on.
AboveLimit == report.pages = "capped" /\ Cardinality(Answered) > RowLimit
Pages == IF AboveLimit THEN {part \in SUBSET Answered : Cardinality(part) = RowLimit}
         ELSE {Answered}

\* One request, with the pages that are turned.
Fetch ==
  /\ pc = "reading"
  /\ report.absent = "raise" => ~Absent
  /\ \E part \in Pages : rows' = rows \cup {<<p[1], p[2], figure[p[1]][p[2]]>> : p \in part}
  /\ capped' = (capped \/ AboveLimit)
  /\ GoOn
  /\ UNCHANGED <<serviceVars, destVars, rangeVars, failures>>

\* NoReportsFoundError, for all applications
FetchAbsent ==
  /\ pc = "reading" /\ report.absent = "raise" /\ Absent
  /\ EndRun
  /\ UNCHANGED <<serviceVars, destVars, failures, capped>>

\* The days of a request that is given up are not owed by the run.
PassOver ==
  /\ known' = {p \in known : p[1] \notin next .. Until}
  /\ settled' = {p \in settled : p[1] \notin next .. Until}

\* A request that fails, or a report that is not ready after the last poll.
FetchFails ==
  /\ pc = "reading" /\ failures < MaxFailures
  /\ failures' = failures + 1
  /\ \/ report.error = "raise" /\ EndRun
     \/ report.error = "ends" /\ GoOn /\ PassOver /\ UNCHANGED <<low, high, begins, rows>>
  /\ UNCHANGED <<serviceVars, destVars, capped>>

\* MUTANT of Kept: the days of the load are deleted, whatever the key.
KeptOtherDays == {t \in table : \A r \in rows : r[1] # t[1]}
\* the rows of the table that a load leaves there
Kept ==
  CASE report.key = "none" -> table
    [] report.key = "row" -> {t \in table : \A r \in rows : <<r[1], r[2]>> # <<t[1], t[2]>>}
    [] report.key \in {"day", "both"} -> {t \in table : \A r \in rows : r[1] # t[1]}

Latest == Max({last} \cup {r[1] : r \in rows})

\* The day of the cursor is asked for again, without the rows that are left out,
\* and a merge key of the day deletes those from the table.
Loses(d) == report.start = "cursor" /\ report.key \in {"day", "both"} /\ d = last

Load ==
  /\ pc = "loading"
  /\ table' = Kept \cup rows
  /\ IF report.start = "cursor"
     THEN /\ last' = Latest
          /\ seen' = {r \in rows : r[1] = Latest} \cup (IF Latest = last THEN seen ELSE {})
     ELSE UNCHANGED <<last, seen>>
  /\ loaded' = {p \in loaded \cup known : ~Loses(p[1])}
  /\ exact' = exact \cup settled
  /\ EndRun
  /\ UNCHANGED <<serviceVars, failures, capped>>

LoadFails ==
  /\ pc = "loading" /\ failures < MaxFailures
  /\ failures' = failures + 1
  /\ EndRun
  /\ UNCHANGED <<serviceVars, destVars, capped>>

-----------------------------------------------------------------------------
Service == NewDay \/ \E d \in Days, k \in Keys : Publish(d, k)
Run == StartRun \/ Fetch \/ FetchAbsent \/ Load
Next == (Service \/ Run \/ FetchFails \/ LoadFails) /\ UNCHANGED report

Spec == Init /\ [][Next]_vars

\* A schedule keeps starting runs, and a run takes its steps.
FairSpec == Spec /\ WF_vars(Run /\ UNCHANGED report)

-----------------------------------------------------------------------------
TypeOK ==
  /\ report \in Reports
  /\ today \in Days /\ figure \in [Days -> [Keys -> 0 .. MaxChanges]]
  /\ changes \in 0 .. MaxChanges
  /\ table \subseteq Days \X Keys \X (1 .. MaxChanges)
  /\ last \in 0 .. MaxDay /\ seen \subseteq {t \in Days \X Keys \X (1 .. MaxChanges) : t[1] = last}
  /\ pc \in {"idle", "reading", "loading"}
  /\ {low, high} \subseteq 0 .. MaxDay /\ next \in 0 .. MaxDay + 1
  /\ begins \in {"midnight", "early", "late"} /\ capped \in BOOLEAN
  /\ rows \subseteq Days \X Keys \X (1 .. MaxChanges)
  /\ settled \subseteq known /\ known \subseteq Days \X Keys
  /\ loaded \subseteq Days \X Keys /\ exact \subseteq Days \X Keys
  /\ failures \in 0 .. MaxFailures

\* A loaded row stays: a load deletes no row that it does not bring again.  Two
\* losses are excepted.  With a merge key and a cursor, rows of the cursor's day
\* are lost whenever another row of that day has changed; and once a request had
\* more rows than its pages were turned for, its days are deleted for the part of
\* them that was read.
LoadedStays ==
  [][~capped =>
       \A t \in table : Loses(t[1]) \/ \E u \in table' : u[1] = t[1] /\ u[2] = t[2]]_vars

\* Every row that was published when a committed run began, for a day of its
\* range, is in the table: the requests of a run leave no day out, and what the
\* cursor leaves out is there already.  Excepted are the losses above, the days
\* whose report was given up, and of a range of instants the first day, when it
\* begins after midnight, and the last, when spans of days from its beginning pass
\* its end (AskedFor).
NothingMissing ==
  pc = "idle" /\ ~capped => \A p \in loaded : \E t \in table : <<t[1], t[2]>> = p

\* A figure that could not change any more when it was asked for is the one in
\* the table, and the only one where rows are merged.  Days that a cursor asks
\* for again are excepted: their rows keep the first figures that were loaded.
FinalFigures ==
  pc = "idle" /\ report.key # "none" /\ ~capped =>
    \A p \in exact :
      {t[3] : t \in {u \in table : <<u[1], u[2]>> = p}} = {figure[p[1]][p[2]]}

\* The days the last runs ask for, whatever the time of day a range begins at
LastDays == IF report.start = "cursor" THEN {MaxDay}
            ELSE {d \in Days : /\ d >= MaxDay - Window
                               /\ report.dated = "instants" => d > MaxDay - Window
                               /\ Late("late") /\ report.dated = "instants" => d < MaxDay}

\* When all is published the table catches up: a window that is asked for again
\* and again ends with the last figures, a cursor with a row for each of the
\* last day, unless its merge key loses them.  A source that gives up when a key
\* has no rows may never get there, one that ends with yesterday does not see the
\* last day, and one that was once stopped by its limit of rows may be so at each
\* run.
EventuallyReported ==
  report.absent = "fine" =>
    <>[](today = MaxDay /\ ~capped =>
           \A d \in LastDays, k \in Keys :
             /\ Published(d, k) /\ ~Loses(d)
             /\ report.end = "yesterday" => d < MaxDay
             => \E t \in table :
                  /\ t[1] = d /\ t[2] = k
                  /\ report.start = "window" => t[3] = figure[d][k])
=============================================================================

------------------------- MODULE DailyReportProofs -------------------------
(***************************************************************************)
(* What reports keep of the rows they asked for, and with which figures, for *)
(* every calendar, every window, span, limit of rows and time of revision,   *)
(* every number of failures, and every combination of the features of a      *)
(* source: where a cursor, a limit or a time of day does lose rows, the      *)
(* properties name which, and the others are shown to stay.                  *)
(***************************************************************************)
EXTENDS DailyReport, FiniteSetTheorems, TLAPS

\* A non-empty set of numbers up to n has a maximum.
LEMMA MaximumExists ==
  ASSUME NEW n \in Nat, NEW T, T \subseteq 0 .. n, T # {}
  PROVE  \E m \in T : \A t \in T : t <= m
<1> DEFINE Mirror == {n - t : t \in T}
<1>1. \A t \in T : t \in Int /\ n - t \in Nat
  OBVIOUS
<1>2. Mirror \subseteq Nat /\ Mirror # {}
  BY <1>1
<1>3. PICK k \in Mirror : \A j \in Mirror : ~ (<<j, k>> \in OpToRel(<, Nat))
  <2> HIDE DEF Mirror
  <2> QED
    BY <1>2, WFMin, NatLessThanWellFounded
<1>4. PICK m \in T : k = n - m
  OBVIOUS
<1>5. ASSUME NEW t \in T PROVE ~ (n - t < n - m)
  <2>1. n - t \in Mirror
    OBVIOUS
  <2> HIDE DEF Mirror
  <2> QED
    BY <1>1, <1>3, <1>4, <2>1 DEF OpToRel
<1> QED
  BY <1>1, <1>5

Cursor == report.start = "cursor"

\* What ends a run without a load; what goes on after a report that is not ready.
Aborts == EndRun /\ UNCHANGED <<serviceVars, destVars, capped>>
Skips ==
  /\ pc = "reading" /\ report.error = "ends"
  /\ GoOn /\ PassOver /\ UNCHANGED <<serviceVars, destVars, low, high, begins, rows, capped>>

LEMMA Steps ==
  ASSUME [Next]_vars
  PROVE  /\ report' = report /\ Cursor' = Cursor /\ (~capped' => ~capped)
         /\ \/ NewDay \/ (\E d \in Days, k \in Keys : Publish(d, k))
            \/ StartRun \/ Fetch \/ Load
            \/ Aborts /\ failures' \in {failures, failures + 1}
            \/ Skips
            \/ UNCHANGED vars
<1>1. report' = report /\ Cursor' = Cursor
  BY DEF Next, vars, Cursor
<1>2. /\ FetchAbsent => Aborts /\ failures' = failures
      /\ LoadFails => Aborts /\ failures' = failures + 1
      /\ FetchFails => (Aborts /\ failures' = failures + 1) \/ Skips
  BY DEF FetchAbsent, FetchFails, LoadFails, Aborts, Skips
<1>3. /\ NewDay \/ StartRun \/ Load \/ Aborts \/ Skips \/ UNCHANGED vars => capped' = capped
      /\ (\E d \in Days, k \in Keys : Publish(d, k)) => capped' = capped
      /\ Fetch => (~capped' => ~capped)
  BY DEF NewDay, StartRun, Load, Aborts, Skips, vars, Publish, Fetch
<1> QED
  BY <1>1, <1>2, <1>3 DEF Next, Service, Run

LEMMA FeatureType ==
  ASSUME TypeOK
  PROVE  /\ report.start \in {"cursor", "window"} /\ report.end \in {"today", "yesterday"}
         /\ report.cut \in {"range", "spans", "days"}
         /\ report.key \in {"row", "day", "both", "none"}
BY ReportsAssumption DEF TypeOK, Feature

LEMMA RowType ==
  ASSUME TypeOK, NEW r \in table \cup rows \cup seen
  PROVE  /\ r[1] \in Days /\ r[2] \in Keys /\ r[3] \in 1 .. MaxChanges
         /\ r = <<r[1], r[2], r[3]>> /\ r[1] \in Nat
BY BoundsAssumption DEF TypeOK, Days

LEMMA FigureType ==
  ASSUME TypeOK, NEW d \in Days, NEW k \in Keys
  PROVE  figure[d][k] \in Nat /\ figure[d][k] \in 0 .. MaxChanges /\ d \in Nat /\ d >= 1
BY BoundsAssumption DEF TypeOK, Days

\* The range of a run lies within the calendar, and follows the cursor.
LEMMA RangeType ==
  ASSUME TypeOK
  PROVE  /\ First \in Days /\ (Cursor => last <= First)
         /\ Final \in 0 .. MaxDay /\ last \in Nat /\ today \in Nat
<1>1. /\ today \in 1 .. MaxDay /\ last \in 0 .. MaxDay /\ MaxDay \in Nat \ {0} /\ Window \in Nat
  BY BoundsAssumption DEF TypeOK, Days
<1>2. Max({1, today - Window}) \in Days
  <2>1. CASE 1 >= today - Window
    <3>1. \E x \in {1, today - Window} : \A y \in {1, today - Window} : x >= y
      BY <1>1, <2>1
    <3>2. Max({1, today - Window}) \in {1, today - Window}
      BY <3>1 DEF Max
    <3>3. Max({1, today - Window}) >= 1
      BY <3>1 DEF Max
    <3> QED
      BY <1>1, <3>2, <3>3 DEF Days
  <2>2. CASE ~(1 >= today - Window)
    <3>1. \E x \in {1, today - Window} : \A y \in {1, today - Window} : x >= y
      BY <1>1, <2>2
    <3>2. Max({1, today - Window}) \in {1, today - Window}
      BY <3>1 DEF Max
    <3>3. Max({1, today - Window}) >= 1
      BY <3>1 DEF Max
    <3> QED
      BY <1>1, <3>2, <3>3 DEF Days
  <2> QED
    BY <2>1, <2>2
<1>3. First \in Days /\ (Cursor => last <= First)
  BY <1>1, <1>2 DEF First, Cursor, Days
<1>4. Final \in 0 .. MaxDay
  BY <1>1 DEF Final
<1> QED
  BY <1>1, <1>3, <1>4

-----------------------------------------------------------------------------
(* Types, and where a run stands in its range. *)

Counted == \A d \in Days, k \in Keys : figure[d][k] <= changes

Ranged ==
  /\ pc = "idle" => rows = {} /\ known = {} /\ settled = {}
  /\ pc = "reading" => 1 <= next /\ next <= high /\ (Cursor => last <= next)
  /\ Cursor => \A r \in rows : last <= r[1]

\* A request ends within the range.
LEMMA UntilType ==
  ASSUME TypeOK, Ranged, pc = "reading"
  PROVE  /\ Until \in Nat /\ next <= Until /\ Until <= high
         /\ next \in Nat /\ high \in Nat /\ 1 <= next /\ high <= MaxDay /\ MaxDay \in Nat
<1>1. /\ next \in Nat /\ high \in Nat /\ 1 <= next /\ next <= high /\ high <= MaxDay
      /\ MaxDay \in Nat /\ Span \in Nat
  BY BoundsAssumption DEF TypeOK, Ranged
<1>2. /\ Min({next + Span, high}) \in {next + Span, high}
      /\ Min({next + Span, high}) <= next + Span /\ Min({next + Span, high}) <= high
  <2>1. \E x \in {next + Span, high} : \A y \in {next + Span, high} : x <= y
    <3>1. CASE next + Span <= high
      BY <1>1, <3>1
    <3>2. CASE high <= next + Span
      BY <1>1, <3>2
    <3> QED
      BY <1>1, <3>1, <3>2
  <2> QED
    BY <2>1 DEF Min
<1>3. CASE report.cut = "range"
  BY <1>1, <1>3 DEF Until
<1>4. CASE report.cut = "spans"
  <2>1. Until = Min({next + Span, high})
    BY <1>4 DEF Until
  <2> QED
    BY <1>1, <1>2, <2>1
<1>5. CASE report.cut = "days"
  BY <1>1, <1>5 DEF Until
<1> QED
  BY <1>3, <1>4, <1>5, FeatureType

LEMMA GoOnMoves ==
  ASSUME TypeOK, Ranged, pc = "reading", GoOn
  PROVE  /\ next' = Until + 1 /\ next' \in 0 .. MaxDay + 1 /\ next <= next' /\ 1 <= next'
         /\ \/ pc' = "reading" /\ next' <= high
            \/ pc' = "loading" /\ Done
<1>1. /\ Until \in Nat /\ next <= Until /\ Until <= high /\ next \in Nat /\ high \in Nat
      /\ 1 <= next /\ high <= MaxDay /\ MaxDay \in Nat
  BY UntilType
<1>2. next' = Until + 1 /\ pc' = IF Done THEN "loading" ELSE pc
  BY DEF GoOn
<1>3. next' \in 0 .. MaxDay + 1 /\ next <= next' /\ 1 <= next' /\ (~Done => next' <= high)
  BY <1>1, <1>2 DEF Done
<1> QED
  BY <1>2, <1>3

\* What a request hands on: rows of its days, as they are now, and all of them as
\* long as no limit stopped it.
LEMMA FetchAnswers ==
  ASSUME TypeOK, Ranged, Fetch
  PROVE  /\ rows \subseteq rows'
         /\ ~capped' =>
              \A d \in next .. Until, k \in Keys :
                Published(d, k) /\ ~Repeated(d, k) /\ (begins # "midnight" => d # low) =>
                  <<d, k, figure[d][k]>> \in rows'
         /\ \A r \in rows' \ rows :
              /\ r[1] \in next .. Until /\ r[2] \in Keys /\ r = <<r[1], r[2], figure[r[1]][r[2]]>>
              /\ Published(r[1], r[2]) /\ ~Repeated(r[1], r[2])
              /\ begins # "midnight" => r[1] # low
<1>1. PICK part \in Pages : rows' = rows \cup {<<p[1], p[2], figure[p[1]][p[2]]>> : p \in part}
  BY DEF Fetch
<1>2. part \subseteq Answered /\ (~capped' => part = Answered)
  BY <1>1 DEF Pages, Fetch
<1>3. ASSUME ~capped', NEW d \in next .. Until, NEW k \in Keys, Published(d, k), ~Repeated(d, k),
             begins # "midnight" => d # low
      PROVE  <<d, k, figure[d][k]>> \in rows'
  <2>1. <<d, k>> \in part
    BY <1>2, <1>3 DEF Answered
  <2> QED
    BY <1>1, <2>1
<1>4. ASSUME NEW r \in rows' \ rows
      PROVE  /\ r[1] \in next .. Until /\ r[2] \in Keys /\ r = <<r[1], r[2], figure[r[1]][r[2]]>>
             /\ Published(r[1], r[2]) /\ ~Repeated(r[1], r[2])
             /\ begins # "midnight" => r[1] # low
  <2>1. PICK p \in part : r = <<p[1], p[2], figure[p[1]][p[2]]>>
    BY <1>1, <1>4
  <2>2. /\ p[1] \in next .. Until /\ p[2] \in Keys
        /\ Published(p[1], p[2]) /\ ~Repeated(p[1], p[2])
        /\ begins # "midnight" => p[1] # low
    BY <1>2, <2>1 DEF Answered
  <2> QED
    BY <2>1, <2>2
<1> QED
  BY <1>1, <1>3, <1>4

\* The cursor moves to the last day that was handed on.
LEMMA LatestType ==
  ASSUME TypeOK
  PROVE  /\ Latest \in 0 .. MaxDay /\ last <= Latest /\ last \in Nat /\ Latest \in Nat
         /\ \A r \in rows : r[1] <= Latest
         /\ Latest = last \/ \E r \in rows : r[1] = Latest
<1> DEFINE T == {last} \cup {r[1] : r \in rows}
<1>1. MaxDay \in Nat /\ last \in 0 .. MaxDay
  BY BoundsAssumption DEF TypeOK
<1>2. \A r \in rows : r[1] \in 0 .. MaxDay
  BY RowType DEF Days
<1>3. T \subseteq 0 .. MaxDay /\ T # {}
  BY <1>1, <1>2
<1>4. \E m \in T : \A t \in T : t <= m
  <2> HIDE DEF T
  <2> QED
    BY <1>1, <1>3, MaximumExists
<1>5. \E m \in T : \A t \in T : m >= t
  BY <1>3, <1>4
<1>6. Latest \in T /\ \A t \in T : Latest >= t
  <2>1. Latest = CHOOSE m \in T : \A t \in T : m >= t
    BY DEF Latest, Max
  <2> HIDE DEF T
  <2> QED
    BY <1>5, <2>1
<1> QED
  BY <1>1, <1>2, <1>3, <1>6

\* A figure that is published or revised; the others stay as they are.
LEMMA PublishMoves ==
  ASSUME TypeOK, NEW d \in Days, NEW k \in Keys, Publish(d, k)
  PROVE  /\ changes' = changes + 1 /\ changes < MaxChanges
         /\ UNCHANGED <<today, destVars, pc, rangeVars, next, rows, failures, capped>>
         /\ figure' \in [Days -> [Keys -> Nat]]
         /\ \A e \in Days, l \in Keys :
              figure'[e][l] = IF e = d /\ l = k THEN figure[e][l] + 1 ELSE figure[e][l]
         /\ \A e \in Days, l \in Keys : Published(e, l) => Published(e, l)'
         /\ \A e \in Days, l \in Keys : e + Revisable < today => figure'[e][l] = figure[e][l]
<1>1. /\ figure \in [Days -> [Keys -> 0 .. MaxChanges]] /\ today \in Nat /\ Revisable \in Nat
      /\ MaxChanges \in Nat
  BY BoundsAssumption DEF TypeOK, Days
<1>2. figure' = [figure EXCEPT ![d][k] = @ + 1] /\ today <= d + Revisable /\ changes < MaxChanges
      /\ changes' = changes + 1
  BY DEF Publish
<1>3. ASSUME NEW e \in Days, NEW l \in Keys
      PROVE  figure'[e][l] = IF e = d /\ l = k THEN figure[e][l] + 1 ELSE figure[e][l]
  <2>1. e # d => figure'[e] = figure[e]
    BY <1>1, <1>2
  <2>2. e = d => figure'[e] = [figure[d] EXCEPT ![k] = figure[d][k] + 1]
    BY <1>1, <1>2
  <2>3. figure[d] \in [Keys -> 0 .. MaxChanges]
    BY <1>1
  <2> QED
    BY <2>1, <2>2, <2>3
<1>4. figure' \in [Days -> [Keys -> Nat]]
  <2>1. [figure[d] EXCEPT ![k] = figure[d][k] + 1] \in [Keys -> Nat]
    BY <1>1
  <2>2. figure' = [figure EXCEPT ![d] = [figure[d] EXCEPT ![k] = figure[d][k] + 1]]
    BY <1>1, <1>2
  <2>3. figure \in [Days -> [Keys -> Nat]]
    BY <1>1
  <2> QED
    BY <2>1, <2>2, <2>3
<1>5. ASSUME NEW e \in Days, NEW l \in Keys, Published(e, l) PROVE Published(e, l)'
  BY <1>1, <1>3, <1>5 DEF Published
<1>6. ASSUME NEW e \in Days, NEW l \in Keys, e + Revisable < today
      PROVE  figure'[e][l] = figure[e][l]
  <2>1. e # d
    BY <1>1, <1>2, <1>6 DEF Days
  <2> QED
    BY <1>3, <2>1
<1> QED
  BY <1>2, <1>3, <1>4, <1>5, <1>6 DEF Publish

Basic == TypeOK /\ Counted /\ Ranged

LEMMA StepBasic == Basic /\ [Next]_vars => Basic'
<1> SUFFICES ASSUME TypeOK, Counted, Ranged, [Next]_vars PROVE TypeOK' /\ Counted' /\ Ranged'
  BY DEF Basic
<1>0. report' = report /\ Cursor' = Cursor /\ MaxDay \in Nat \ {0}
  BY Steps, BoundsAssumption
<1>1. CASE NewDay
  <2>1. today' \in Days /\ UNCHANGED <<figure, changes, destVars, pc, rangeVars, next, rows, failures, capped>>
    BY <1>0, <1>1 DEF NewDay, TypeOK, Days
  <2> QED
    BY <1>0, <2>1 DEF TypeOK, Counted, Ranged, destVars, rangeVars
<1>2. ASSUME NEW d \in Days, NEW k \in Keys, Publish(d, k) PROVE TypeOK' /\ Counted' /\ Ranged'
  <2>1. /\ changes' = changes + 1 /\ changes < MaxChanges /\ changes \in Nat /\ MaxChanges \in Nat
        /\ UNCHANGED <<today, destVars, pc, rangeVars, next, rows, failures, capped>>
        /\ figure' \in [Days -> [Keys -> Nat]]
        /\ \A e \in Days, l \in Keys :
             figure'[e][l] = IF e = d /\ l = k THEN figure[e][l] + 1 ELSE figure[e][l]
    BY <1>2, PublishMoves, BoundsAssumption DEF TypeOK
  <2>2. ASSUME NEW e \in Days, NEW l \in Keys
        PROVE  figure'[e][l] <= changes' /\ figure'[e][l] \in 0 .. MaxChanges
    <3>1. figure[e][l] <= changes /\ figure[e][l] \in Nat
      BY FigureType DEF Counted
    <3> QED
      BY <2>1, <3>1
  <2>3. figure' \in [Days -> [Keys -> 0 .. MaxChanges]]
    BY <2>1, <2>2
  <2>4. changes' \in 0 .. MaxChanges
    BY <2>1
  <2> QED
    BY <1>0, <2>1, <2>2, <2>3, <2>4 DEF TypeOK, Counted, Ranged, destVars, rangeVars
<1>3. CASE StartRun
  <2>1. /\ pc = "idle" /\ UNCHANGED <<serviceVars, destVars, rows, failures, capped>>
        /\ low' = First /\ high' = Final /\ next' = First
        /\ pc' = IF Empty(begins') THEN "loading" ELSE "reading"
        /\ begins' \in {"midnight", "early", "late"}
        /\ known' \subseteq Days \X Keys /\ settled' \subseteq known'
    BY <1>3 DEF StartRun, Times
  <2>2. /\ First \in Days /\ (Cursor => last <= First) /\ Final \in 0 .. MaxDay
        /\ ~Empty(begins') => First <= Final
    BY <1>0, RangeType DEF Empty, Days
  <2>3. First \in 0 .. MaxDay /\ First \in 0 .. MaxDay + 1 /\ 1 <= First
    BY <1>0, <2>2 DEF Days
  <2> QED
    BY <1>0, <2>1, <2>2, <2>3 DEF TypeOK, Counted, Ranged, serviceVars, destVars
<1>4. CASE Fetch
  <2>1. pc = "reading" /\ GoOn /\ UNCHANGED <<serviceVars, destVars, rangeVars, failures>>
    BY <1>4 DEF Fetch
  <2>2. /\ next' \in 0 .. MaxDay + 1 /\ next <= next' /\ 1 <= next'
        /\ (pc' = "reading" /\ next' <= high) \/ pc' = "loading"
    BY <2>1, GoOnMoves
  <2>3. /\ next \in Nat /\ next >= 1 /\ Until \in Nat /\ Until <= MaxDay /\ next' \in Nat
        /\ last \in Nat /\ (Cursor => last <= next)
    BY <2>1, <2>2, UntilType, RangeType DEF Ranged
  <2>4. ASSUME NEW r \in rows'
        PROVE  /\ r \in Days \X Keys \X (1 .. MaxChanges)
               /\ Cursor => last <= r[1]
    <3>1. CASE r \in rows
      BY <3>1 DEF TypeOK, Ranged
    <3>2. CASE r \notin rows
      <4>1. /\ r[1] \in next .. Until /\ r[2] \in Keys
            /\ r = <<r[1], r[2], figure[r[1]][r[2]]>> /\ Published(r[1], r[2])
        BY <1>4, <3>2, FetchAnswers
      <4>2. r[1] \in Days /\ (Cursor => last <= r[1])
        BY <1>0, <2>3, <4>1 DEF Days
      <4>3. figure[r[1]][r[2]] \in 1 .. MaxChanges
        BY <4>1, <4>2, FigureType DEF Published
      <4> QED
        BY <4>1, <4>2, <4>3
    <3> QED
      BY <3>1, <3>2
  <2>5. pc' # "idle" /\ pc' \in {"reading", "loading"} /\ (Cursor => last <= next')
    BY <2>2, <2>3
  <2>6. capped' \in BOOLEAN
    BY <1>4 DEF Fetch
  <2> QED
    BY <1>0, <2>1, <2>2, <2>4, <2>5, <2>6 DEF TypeOK, Counted, Ranged, serviceVars, destVars, rangeVars
<1>5. CASE Load
  <2>1. /\ table' = Kept \cup rows /\ loaded' \subseteq loaded \cup known
        /\ exact' = exact \cup settled
        /\ EndRun /\ UNCHANGED <<serviceVars, failures, capped>>
    BY <1>5 DEF Load
  <2>2. Kept \subseteq table
    BY FeatureType DEF Kept
  <2>3. last' \in 0 .. MaxDay /\ seen' \subseteq {t \in Days \X Keys \X (1 .. MaxChanges) : t[1] = last'}
    <3>1. CASE Cursor
      <4>1. /\ last' = Latest
            /\ seen' = {r \in rows : r[1] = Latest} \cup (IF Latest = last THEN seen ELSE {})
        BY <1>5, <3>1 DEF Load, Cursor
      <4>2. Latest \in 0 .. MaxDay
        BY LatestType
      <4> QED
        BY <4>1, <4>2 DEF TypeOK
    <3>2. CASE ~Cursor
      BY <1>5, <3>2 DEF Load, Cursor, TypeOK
    <3> QED
      BY <3>1, <3>2
  <2> QED
    BY <1>0, <2>1, <2>2, <2>3 DEF EndRun, TypeOK, Counted, Ranged, serviceVars
<1>6. CASE Aborts /\ failures' \in {failures, failures + 1} /\ failures' \in 0 .. MaxFailures
  BY <1>0, <1>6 DEF Aborts, EndRun, TypeOK, Counted, Ranged, serviceVars, destVars
<1>7. CASE Skips /\ failures' \in 0 .. MaxFailures
  <2>1. /\ pc = "reading" /\ GoOn
        /\ UNCHANGED <<serviceVars, destVars, low, high, begins, rows, capped>>
        /\ known' \subseteq known /\ settled' \subseteq known'
    BY <1>7 DEF Skips, PassOver, TypeOK
  <2>2. /\ next' \in 0 .. MaxDay + 1 /\ next <= next' /\ 1 <= next'
        /\ (pc' = "reading" /\ next' <= high) \/ pc' = "loading"
    BY <2>1, GoOnMoves
  <2>3. next \in Nat /\ next' \in Nat /\ last \in Nat /\ (Cursor => last <= next)
    BY <2>1, <2>2, UntilType, RangeType DEF Ranged
  <2>4. pc' # "idle" /\ pc' \in {"reading", "loading"} /\ (Cursor => last <= next')
    BY <2>2, <2>3
  <2> QED
    BY <1>0, <1>7, <2>1, <2>2, <2>4 DEF TypeOK, Counted, Ranged, serviceVars, destVars, rangeVars
<1>8. CASE UNCHANGED vars
  BY <1>8 DEF vars, TypeOK, Counted, Ranged, Cursor, serviceVars, destVars, rangeVars
<1>9. Aborts \/ Skips => failures' \in 0 .. MaxFailures \/ UNCHANGED vars \/ NewDay \/ StartRun
                         \/ Fetch \/ Load \/ \E d \in Days, k \in Keys : Publish(d, k)
  <2>1. failures \in 0 .. MaxFailures /\ MaxFailures \in Nat
    BY BoundsAssumption DEF TypeOK
  <2>2. CASE FetchAbsent \/ FetchFails \/ LoadFails
    BY <2>1, <2>2 DEF FetchAbsent, FetchFails, LoadFails
  <2> QED
    BY <2>2 DEF Next, Service, Run
<1> QED
  BY <1>1, <1>2, <1>3, <1>4, <1>5, <1>6, <1>7, <1>8, <1>9, Steps

\* Types, what a load counts and the range a run asks for hold in every reachable state.
THEOREM BasicCorrect == Spec => []Basic
<1>1. Init => Basic
  <2> SUFFICES ASSUME Init PROVE TypeOK /\ Counted /\ Ranged
    BY DEF Basic
  <2>1. MaxDay \in Nat \ {0} /\ MaxChanges \in Nat /\ MaxFailures \in Nat
    BY BoundsAssumption
  <2>2. today \in Days /\ changes \in 0 .. MaxChanges /\ failures \in 0 .. MaxFailures
    BY <2>1 DEF Init, Days
  <2>3. figure \in [Days -> [Keys -> 0 .. MaxChanges]]
    BY <2>1 DEF Init
  <2>4. \A d \in Days, k \in Keys : figure[d][k] <= changes
    BY DEF Init
  <2>5. capped \in BOOLEAN /\ Ranged
    BY DEF Init, Ranged
  <2> QED
    BY <2>1, <2>2, <2>3, <2>4, <2>5 DEF Init, TypeOK, Counted
<1> QED
  BY <1>1, StepBasic, PTL DEF Spec

\* Every variable keeps its type; a run stays within its range of days.
THEOREM TypeCorrect == Spec => []TypeOK
BY BasicCorrect, PTL DEF Basic

-----------------------------------------------------------------------------
(* No row is lost. *)

HasRow(R, p) == \E r \in R : r[1] = p[1] /\ r[2] = p[2]

Known ==
  /\ \A t \in table : Published(t[1], t[2])
  /\ \A r \in rows : Published(r[1], r[2])
  /\ \A p \in known : Published(p[1], p[2])

\* A window is asked for again with all rows of a day, or none.
DaysWhole ==
  report.start = "window" =>
    \A r \in rows, t \in table : t[1] = r[1] => HasRow(rows, t)

\* What the cursor leaves out is in the table, unless its day can be deleted.
SeenKept == Cursor /\ report.key \in {"row", "none"} => \A r \in seen : HasRow(table, r)

\* The cursor has come to all that was loaded.
CursorLast == Cursor => \A t \in table : t[1] <= last

RowsKept == Known /\ CursorLast /\ (~capped => DaysWhole /\ SeenKept)

\* What a load deletes it brings again, but for what is excepted.
LEMMA LoadKeeps ==
  ASSUME TypeOK, Ranged, CursorLast, DaysWhole, Load, NEW p, HasRow(table, p), ~Loses(p[1])
  PROVE  HasRow(table', p)
<1>1. table' = Kept \cup rows
  BY DEF Load
<1>2. PICK t \in table : t[1] = p[1] /\ t[2] = p[2]
  BY DEF HasRow
<1>3. CASE report.key = "none"
  BY <1>1, <1>2, <1>3 DEF Kept, HasRow
<1>4. CASE report.key = "row"
  <2>1. Kept = {u \in table : \A r \in rows : <<r[1], r[2]>> # <<u[1], u[2]>>}
    BY <1>4 DEF Kept
  <2>2. CASE t \in Kept
    BY <1>1, <1>2, <2>2 DEF HasRow
  <2>3. CASE \E r \in rows : <<r[1], r[2]>> = <<t[1], t[2]>>
    BY <1>1, <1>2, <2>3 DEF HasRow
  <2> QED
    BY <1>2, <2>1, <2>2, <2>3
<1>5. CASE report.key \in {"day", "both"}
  <2>1. Kept = {u \in table : \A r \in rows : r[1] # u[1]}
    BY <1>5 DEF Kept
  <2>2. CASE t \in Kept
    BY <1>1, <1>2, <2>2 DEF HasRow
  <2>3. ASSUME NEW r \in rows, r[1] = t[1] PROVE HasRow(table', p)
    <3>1. CASE report.start = "window"
      <4>1. HasRow(rows, t)
        BY <2>3, <3>1 DEF DaysWhole
      <4> QED
        BY <1>1, <1>2, <4>1 DEF HasRow
    <3>2. CASE Cursor
      <4>1. last <= r[1] /\ t[1] <= last /\ last \in Nat /\ r[1] \in Nat
        BY <3>2, RowType, RangeType DEF Ranged, CursorLast
      <4>2. p[1] = last
        BY <1>2, <2>3, <4>1
      <4> QED
        BY <1>5, <3>2, <4>2 DEF Loses, Cursor
    <3> QED
      BY <3>1, <3>2, FeatureType DEF Cursor
  <2> QED
    BY <1>2, <2>1, <2>2, <2>3
<1> QED
  BY <1>3, <1>4, <1>5, FeatureType

LEMMA StepKnown == Basic /\ RowsKept /\ [Next]_vars => Known' /\ CursorLast'
<1> SUFFICES ASSUME TypeOK, Ranged, Known, CursorLast, [Next]_vars
             PROVE  Known' /\ CursorLast'
  BY DEF Basic, RowsKept
<1>0. Cursor' = Cursor
  BY Steps
<1>1. CASE UNCHANGED <<figure, table, last>> /\ rows' \subseteq rows /\ known' \subseteq known
  BY <1>0, <1>1 DEF Known, CursorLast, Published
<1>2. ASSUME NEW d \in Days, NEW k \in Keys, Publish(d, k) PROVE Known' /\ CursorLast'
  <2>1. /\ UNCHANGED <<table, last, rows, known>>
        /\ \A e \in Days, l \in Keys : Published(e, l) => Published(e, l)'
    BY <1>2, PublishMoves DEF destVars, rangeVars
  <2>2. /\ \A t \in table \cup rows : t[1] \in Days /\ t[2] \in Keys
        /\ \A p \in known : p[1] \in Days /\ p[2] \in Keys
    BY RowType DEF TypeOK
  <2> QED
    BY <1>0, <2>1, <2>2 DEF Known, CursorLast
<1>3. CASE StartRun
  <2>1. /\ UNCHANGED <<figure, table, last, rows>>
        /\ \A p \in known' : Published(p[1], p[2])
    BY <1>3 DEF StartRun, serviceVars, destVars
  <2> QED
    BY <1>0, <2>1 DEF Known, CursorLast, Published
<1>4. CASE Fetch
  <2>1. UNCHANGED <<figure, table, last, known>>
    BY <1>4 DEF Fetch, serviceVars, destVars, rangeVars
  <2>2. \A r \in rows' \ rows : Published(r[1], r[2])
    BY <1>4, FetchAnswers
  <2> QED
    BY <1>0, <2>1, <2>2 DEF Known, CursorLast, Published
<1>5. CASE Load
  <2>1. table' = Kept \cup rows /\ rows' = {} /\ known' = {} /\ figure' = figure
    BY <1>5 DEF Load, EndRun, serviceVars
  <2>2. Kept \subseteq table
    BY FeatureType DEF Kept
  <2>3. Known'
    BY <2>1, <2>2 DEF Known, Published
  <2>4. ASSUME Cursor, NEW t \in table' PROVE t[1] <= last'
    <3>1. last' = Latest
      BY <1>5, <2>4 DEF Load, Cursor
    <3>2. /\ last \in Nat /\ Latest \in Nat /\ last <= Latest
          /\ \A r \in rows : r[1] <= Latest
      BY LatestType
    <3>3. CASE t \in rows
      BY <3>1, <3>2, <3>3
    <3>4. CASE t \in table
      <4>1. t[1] <= last /\ t[1] \in Nat
        BY <2>4, <3>4, RowType DEF CursorLast
      <4> QED
        BY <3>1, <3>2, <4>1
    <3> QED
      BY <2>1, <2>2, <3>3, <3>4
  <2> QED
    BY <1>0, <2>3, <2>4 DEF CursorLast
<1>6. Aborts \/ Skips \/ NewDay \/ UNCHANGED vars =>
        UNCHANGED <<figure, table, last>> /\ rows' \subseteq rows /\ known' \subseteq known
  BY DEF Aborts, Skips, PassOver, NewDay, EndRun, vars, serviceVars, destVars, rangeVars
<1> QED
  BY <1>1, <1>2, <1>3, <1>4, <1>5, <1>6, Steps

LEMMA StepRowsKept == Basic /\ RowsKept /\ [Next]_vars => RowsKept'
<1> SUFFICES ASSUME TypeOK, Ranged, Known, CursorLast, DaysWhole, SeenKept, [Next]_vars, ~capped'
             PROVE  DaysWhole' /\ SeenKept'
  BY StepKnown, Steps DEF Basic, RowsKept
<1>0. /\ report' = report /\ Cursor' = Cursor
      /\ report.start = "window" <=> ~Cursor
  BY Steps, FeatureType DEF Cursor
<1>1. CASE UNCHANGED <<table, seen>> /\ rows' \in {rows, {}}
  BY <1>0, <1>1 DEF DaysWhole, SeenKept, HasRow
<1>2. ASSUME NEW d \in Days, NEW k \in Keys, Publish(d, k) PROVE UNCHANGED <<table, seen, rows>>
  BY <1>2, PublishMoves DEF destVars, rangeVars
<1>3. CASE Fetch
  <2>1. UNCHANGED <<figure, table, seen, low, begins>> /\ pc = "reading"
    BY <1>3 DEF Fetch, serviceVars, destVars, rangeVars
  <2>2. \A r \in rows' \ rows : r[1] \in next .. Until /\ (begins # "midnight" => r[1] # low)
    BY <1>3, FetchAnswers
  <2>3. DaysWhole'
    <3> SUFFICES ASSUME report.start = "window", NEW r \in rows', NEW t \in table, t[1] = r[1]
                 PROVE  HasRow(rows', t)
      BY <1>0, <2>1 DEF DaysWhole, HasRow
    <3>1. CASE r \in rows
      <4>1. HasRow(rows, t)
        BY <3>1 DEF DaysWhole
      <4> QED
        BY <1>3, <4>1, FetchAnswers DEF HasRow
    <3>2. CASE r \notin rows
      <4>1. /\ t[1] \in next .. Until /\ t[2] \in Keys /\ Published(t[1], t[2])
            /\ begins # "midnight" => t[1] # low
        BY <2>2, <3>2, RowType DEF Known
      <4>2. ~Repeated(t[1], t[2])
        BY DEF Repeated
      <4>3. <<t[1], t[2], figure[t[1]][t[2]]>> \in rows'
        BY <1>3, <4>1, <4>2, FetchAnswers
      <4> QED
        BY <4>3 DEF HasRow
    <3> QED
      BY <3>1, <3>2
  <2> QED
    BY <1>0, <2>1, <2>3 DEF SeenKept, HasRow
<1>4. CASE Load
  <2>1. table' = Kept \cup rows /\ rows' = {}
    BY <1>4 DEF Load, EndRun
  <2>2. DaysWhole'
    BY <2>1 DEF DaysWhole
  <2>3. ASSUME Cursor, report.key \in {"row", "none"}, NEW r \in seen' PROVE HasRow(table', r)
    <3>1. r \in rows \/ r \in seen
      BY <1>4, <2>3 DEF Load, Cursor
    <3>2. CASE r \in rows
      BY <2>1, <3>2 DEF HasRow
    <3>3. CASE r \in seen
      <4>1. HasRow(table, r)
        BY <2>3, <3>3 DEF SeenKept
      <4>2. ~Loses(r[1])
        BY <2>3 DEF Loses
      <4> QED
        BY <1>4, <4>1, <4>2, LoadKeeps
    <3> QED
      BY <3>1, <3>2, <3>3
  <2>4. SeenKept'
    BY <1>0, <2>3 DEF SeenKept, HasRow
  <2> QED
    BY <2>2, <2>4
<1>5. NewDay \/ StartRun \/ Aborts \/ Skips \/ UNCHANGED vars =>
        UNCHANGED <<table, seen>> /\ rows' \in {rows, {}}
  BY DEF NewDay, StartRun, Aborts, Skips, EndRun, vars, destVars
<1> QED
  BY <1>1, <1>2, <1>3, <1>4, <1>5, Steps

\* As long as no limit of rows stopped a request, a window never has a day in part, and
\* what a cursor leaves out is in the table.
THEOREM RowsKeptCorrect == Spec => []RowsKept
<1>1. Init => RowsKept
  BY DEF Init, RowsKept, Known, CursorLast, DaysWhole, SeenKept
<1> QED
  BY <1>1, StepRowsKept, BasicCorrect, PTL DEF Spec

\* A load deletes no row that it does not bring again, but rows of the day of a cursor
\* with a merge key, as long as no limit of rows stopped a request.
THEOREM LoadedStaysCorrect == Spec => LoadedStays
<1>1. Basic /\ RowsKept /\ [Next]_vars =>
        [~capped =>
           \A t \in table : Loses(t[1]) \/ \E u \in table' : u[1] = t[1] /\ u[2] = t[2]]_vars
  <2> SUFFICES ASSUME TypeOK, Ranged, CursorLast, DaysWhole, [Next]_vars, NEW t \in table,
                      ~Loses(t[1])
               PROVE  HasRow(table', t)
    BY DEF Basic, RowsKept, HasRow
  <2>1. HasRow(table, t)
    BY DEF HasRow
  <2>2. CASE Load
    BY <2>1, <2>2, LoadKeeps
  <2>3. CASE table' = table
    BY <2>1, <2>3
  <2>4. Load \/ table' = table
    BY Steps DEF NewDay, Publish, StartRun, Fetch, Aborts, Skips, vars, destVars
  <2> QED
    BY <2>2, <2>3, <2>4
<1> QED
  BY <1>1, BasicCorrect, RowsKeptCorrect, PTL DEF Spec, LoadedStays

-----------------------------------------------------------------------------
(* What a committed run owed is in the table. *)

\* The run still comes to this row.
Ahead(p) ==
  /\ pc = "reading" /\ next <= p[1] /\ p[1] <= high
  /\ begins # "midnight" => p[1] # low
  /\ Late(begins) => p[1] # high

Owed ==
  ~capped =>
    /\ \A p \in loaded : HasRow(table, p)
    /\ \A p \in known : ~Loses(p[1]) => HasRow(table, p) \/ HasRow(rows, p) \/ Ahead(p)

\* A run comes to all days it asks for.
LEMMA StartAhead ==
  ASSUME TypeOK, StartRun, report' = report, NEW p \in known'
  PROVE  Ahead(p)'
<1>1. /\ low' = First /\ high' = Final /\ next' = First
      /\ pc' = IF Empty(begins') THEN "loading" ELSE "reading"
      /\ known' = {q \in Days \X Keys : Published(q[1], q[2]) /\ AskedFor(q[1], begins')}
  BY DEF StartRun
<1>2. /\ p[1] \in Days /\ First <= p[1] /\ p[1] <= Final
      /\ begins' # "midnight" => p[1] # First
      /\ Late(begins') => p[1] # Final
  BY <1>1 DEF AskedFor
<1>3. First \in Nat /\ Final \in Nat /\ p[1] \in Nat
  BY <1>2, RangeType, BoundsAssumption DEF Days
<1>4. ~Empty(begins')
  BY <1>2, <1>3 DEF Empty
<1> QED
  BY <1>1, <1>2, <1>4 DEF Ahead, Late

\* A run that goes on comes to the days after those of its request.
LEMMA GoOnAhead ==
  ASSUME TypeOK, Ranged, pc = "reading", GoOn, UNCHANGED <<report, low, high, begins>>,
         NEW p, p[1] \in Nat, Ahead(p), p[1] \notin next .. Until
  PROVE  Ahead(p)'
<1>1. /\ Until < p[1] /\ p[1] <= high /\ Until \in Nat /\ high \in Nat
      /\ Late(begins) => p[1] # high
  BY UntilType DEF Ahead
<1>2. ~Done
  BY <1>1 DEF Done
<1>3. next' = Until + 1 /\ pc' = "reading"
  BY <1>2, GoOnMoves
<1> QED
  BY <1>1, <1>3 DEF Ahead, Late

LEMMA StepOwed == Basic /\ RowsKept /\ Owed /\ [Next]_vars => Owed'
<1> SUFFICES ASSUME TypeOK, Ranged, Known, CursorLast, DaysWhole, SeenKept, Owed, [Next]_vars,
                    ~capped, ~capped'
             PROVE  /\ \A p \in loaded' : HasRow(table', p)
                    /\ \A p \in known' :
                         ~Loses(p[1])' => HasRow(table', p) \/ HasRow(rows', p) \/ Ahead(p)'
  BY Steps DEF Basic, RowsKept, Owed, HasRow
<1>0. /\ \A p \in loaded : HasRow(table, p)
      /\ \A p \in known : ~Loses(p[1]) => HasRow(table, p) \/ HasRow(rows, p) \/ Ahead(p)
      /\ \A p \in known : p[1] \in Days /\ p[2] \in Keys /\ Published(p[1], p[2]) /\ p[1] \in Nat
  BY BoundsAssumption DEF Owed, TypeOK, Known, Days
<1>1. last' = last => \A d : Loses(d)' <=> Loses(d)
  BY Steps DEF Loses
<1>2. CASE UNCHANGED <<table, loaded, known, rows, pc, next, low, high, begins, last>>
  BY <1>0, <1>1, <1>2, Steps DEF Ahead, Late
<1>3. CASE StartRun
  <2>1. UNCHANGED <<table, loaded>>
    BY <1>3 DEF StartRun, destVars
  <2> QED
    BY <1>0, <1>3, <2>1, StartAhead, Steps
<1>4. CASE Fetch
  <2>1. UNCHANGED <<table, loaded, last, known, low, high, begins>> /\ pc = "reading" /\ GoOn
    BY <1>4 DEF Fetch, destVars, rangeVars
  <2>2. ASSUME NEW p \in known, ~Loses(p[1])
        PROVE  HasRow(table, p) \/ HasRow(rows', p) \/ Ahead(p)'
    <3>1. CASE HasRow(table, p)
      BY <3>1
    <3>2. CASE HasRow(rows, p)
      BY <1>4, <3>2, FetchAnswers DEF HasRow
    <3>3. CASE Ahead(p) /\ p[1] \in next .. Until /\ ~Repeated(p[1], p[2])
      <4>1. <<p[1], p[2], figure[p[1]][p[2]]>> \in rows'
        BY <1>0, <1>4, <3>3, FetchAnswers DEF Ahead
      <4> QED
        BY <4>1 DEF HasRow
    <3>4. CASE Repeated(p[1], p[2])
      <4>1. PICK r \in seen : r[2] = p[2]
        BY <3>4 DEF Repeated
      <4>2. r[1] = last /\ p[1] = last /\ Cursor
        BY <3>4 DEF Repeated, TypeOK, Cursor
      <4>3. report.key \in {"row", "none"}
        BY <2>2, <4>2, FeatureType DEF Loses, Cursor
      <4>4. HasRow(table, r)
        BY <4>2, <4>3 DEF SeenKept
      <4> QED
        BY <4>1, <4>2, <4>4 DEF HasRow
    <3>5. CASE Ahead(p) /\ p[1] \notin next .. Until
      BY <1>0, <2>1, <3>5, GoOnAhead, Steps
    <3> QED
      BY <1>0, <2>2, <3>1, <3>2, <3>3, <3>4, <3>5
  <2> QED
    BY <1>0, <1>1, <2>1, <2>2
<1>5. CASE Load
  <2>1. /\ table' = Kept \cup rows /\ loaded' = {p \in loaded \cup known : ~Loses(p[1])}
        /\ known' = {} /\ pc = "loading"
    BY <1>5 DEF Load, EndRun
  <2>2. ASSUME NEW p \in loaded' PROVE HasRow(table', p)
    <3>1. ~Loses(p[1]) /\ (HasRow(table, p) \/ HasRow(rows, p))
      BY <1>0, <2>1 DEF Ahead
    <3>2. CASE HasRow(rows, p)
      BY <2>1, <3>2 DEF HasRow
    <3>3. CASE HasRow(table, p)
      BY <1>5, <3>1, <3>3, LoadKeeps
    <3> QED
      BY <3>1, <3>2, <3>3
  <2> QED
    BY <2>1, <2>2
<1>6. CASE Aborts
  BY <1>0, <1>6 DEF Aborts, EndRun, destVars
<1>7. CASE Skips
  <2>1. /\ UNCHANGED <<table, loaded, last, rows, low, high, begins>> /\ pc = "reading" /\ GoOn
        /\ known' = {p \in known : p[1] \notin next .. Until}
    BY <1>7 DEF Skips, PassOver, destVars
  <2>2. ASSUME NEW p \in known', ~Loses(p[1]) PROVE HasRow(table, p) \/ HasRow(rows, p) \/ Ahead(p)'
    <3>1. CASE Ahead(p)
      BY <1>0, <2>1, <3>1, GoOnAhead, Steps
    <3> QED
      BY <1>0, <2>1, <2>2, <3>1
  <2> QED
    BY <1>0, <1>1, <2>1, <2>2
<1> QED
  BY <1>2, <1>3, <1>4, <1>5, <1>6, <1>7, Steps DEF NewDay, Publish, vars, destVars, rangeVars

\* What a run owes is in it, in the table or ahead of it.
THEOREM OwedCorrect == Spec => []Owed
<1>1. Init => Owed
  BY DEF Init, Owed
<1> QED
  BY <1>1, StepOwed, BasicCorrect, RowsKeptCorrect, PTL DEF Spec

\* Every row that was published when a committed run began, for a day of its range, is
\* in the table, however the range is cut: by days, spans of days or of instants.  The
\* rows that are not owed are those of the day of a cursor with a merge key, of a report
\* that was given up, of the first and the last day that instants do not cover, and of
\* requests with more rows than a limit.
THEOREM NothingMissingCorrect == Spec => []NothingMissing
<1>1. Basic /\ Owed => NothingMissing
  <2> SUFFICES ASSUME TypeOK, Owed, ~capped, NEW p \in loaded
               PROVE  \E t \in table : <<t[1], t[2]>> = p
    BY DEF Basic, NothingMissing
  <2>1. PICK t \in table : t[1] = p[1] /\ t[2] = p[2]
    BY DEF Owed, HasRow
  <2>2. p = <<p[1], p[2]>>
    BY DEF TypeOK
  <2> QED
    BY <2>1, <2>2
<1> QED
  BY <1>1, BasicCorrect, OwedCorrect, PTL

-----------------------------------------------------------------------------
(* Figures that were final when they were asked for. *)

\* The service does not revise day d any more.
Over(d) == d + Revisable < today

\* A settled row is among those of the run, with the figure it has for good; and so
\* are the other rows of its day.
Settled ==
  /\ \A p \in settled \cup exact : Over(p[1]) /\ Published(p[1], p[2])
  /\ \A p \in settled : p[1] # last
  /\ \A p \in settled, k \in Keys : Published(p[1], k) => <<p[1], k>> \in settled
  /\ \A r \in rows : <<r[1], r[2]>> \in settled \cup exact => r[3] = figure[r[1]][r[2]]
  /\ ~capped => \A p \in settled : HasRow(rows, p) \/ Ahead(p)

LEMMA SettledType ==
  ASSUME TypeOK, NEW p \in settled \cup exact
  PROVE  p[1] \in Days /\ p[2] \in Keys /\ p = <<p[1], p[2]>> /\ p[1] \in Nat
BY BoundsAssumption DEF TypeOK, Days

\* What Settled says is not disturbed when only figures change that may.
LEMMA SettledStands ==
  ASSUME TypeOK, Settled, UNCHANGED <<report, settled, exact, rows, last, pc, rangeVars, next, capped>>,
         \A p \in settled \cup exact : Over(p[1])',
         \A e \in Days, l \in Keys : Over(e) => figure'[e][l] = figure[e][l]
  PROVE  Settled'
<1>1. ASSUME NEW p \in settled \cup exact, NEW k \in Keys
      PROVE  figure'[p[1]][k] = figure[p[1]][k]
  BY SettledType DEF Settled
<1>2. \A p \in settled \cup exact : Published(p[1], p[2])'
  BY <1>1, SettledType DEF Settled, Published
<1>3. \A p \in settled, k \in Keys : Published(p[1], k)' => <<p[1], k>> \in settled
  BY <1>1 DEF Settled, Published
<1>4. ASSUME NEW r \in rows, <<r[1], r[2]>> \in settled \cup exact
      PROVE  r[3] = figure'[r[1]][r[2]]
  <2>1. r[2] \in Keys
    BY RowType
  <2>2. figure'[r[1]][r[2]] = figure[r[1]][r[2]]
    BY <1>1, <1>4, <2>1
  <2> QED
    BY <1>4, <2>2 DEF Settled
<1> QED
  BY <1>2, <1>3, <1>4 DEF Settled, HasRow, Ahead, Late, rangeVars

LEMMA StepSettled == Basic /\ Settled /\ [Next]_vars => Settled'
<1> SUFFICES ASSUME TypeOK, Ranged, Settled, [Next]_vars PROVE Settled'
  BY DEF Basic
<1>0. /\ report' = report /\ (~capped' => ~capped) /\ today \in Nat /\ Revisable \in Nat
      /\ \A p \in settled \cup exact : p[1] \in Nat /\ Over(p[1])
  BY Steps, RangeType, SettledType, BoundsAssumption DEF Settled
<1>1. CASE NewDay
  <2>1. today' = today + 1 /\ UNCHANGED <<figure, settled, exact, rows, last, pc, rangeVars, next, capped>>
    BY <1>1 DEF NewDay, destVars, rangeVars
  <2>2. \A p \in settled \cup exact : Over(p[1])'
    BY <1>0, <2>1 DEF Over
  <2> QED
    BY <1>0, <2>1, <2>2, SettledStands
<1>2. ASSUME NEW d \in Days, NEW k \in Keys, Publish(d, k) PROVE Settled'
  <2>1. /\ UNCHANGED <<today, settled, exact, rows, last, pc, rangeVars, next, capped>>
        /\ \A e \in Days, l \in Keys : Over(e) => figure'[e][l] = figure[e][l]
    BY <1>2, PublishMoves DEF destVars, rangeVars, Over
  <2>2. \A p \in settled \cup exact : Over(p[1])'
    BY <1>0, <2>1 DEF Over
  <2> QED
    BY <1>0, <2>1, <2>2, SettledStands
<1>3. CASE StartRun
  <2>1. UNCHANGED <<today, figure, exact, rows, last>> /\ rows = {}
    BY <1>3 DEF StartRun, serviceVars, destVars, Ranged
  <2>2. known' = {p \in Days \X Keys : Published(p[1], p[2]) /\ AskedFor(p[1], begins')}
    BY <1>3 DEF StartRun
  <2>3. settled' = {p \in known' : Over(p[1]) /\ p[1] # last}
    BY <1>3 DEF StartRun, Over
  <2>4. ASSUME NEW p \in settled'
        PROVE  /\ p \in known' /\ p[1] \in Days /\ p[2] \in Keys
               /\ Over(p[1]) /\ Published(p[1], p[2]) /\ p[1] # last
    BY <2>2, <2>3
  <2>5. ASSUME NEW p \in settled', NEW k \in Keys, Published(p[1], k)
        PROVE  <<p[1], k>> \in settled'
    BY <2>2, <2>3, <2>4, <2>5
  <2>6. \A p \in settled' : Ahead(p)'
    BY <1>0, <1>3, <2>4, StartAhead
  <2>7. \A p \in exact : Over(p[1]) /\ Published(p[1], p[2])
    BY DEF Settled
  <2> QED
    BY <2>1, <2>4, <2>5, <2>6, <2>7 DEF Settled, Over, Published
<1>4. CASE Fetch
  <2>1. /\ UNCHANGED <<today, figure, settled, exact, last, low, high, begins>>
        /\ pc = "reading" /\ GoOn
    BY <1>4 DEF Fetch, serviceVars, destVars, rangeVars
  <2>2. ASSUME NEW r \in rows', <<r[1], r[2]>> \in settled \cup exact
        PROVE  r[3] = figure[r[1]][r[2]]
    <3>1. CASE r \in rows
      BY <2>2, <3>1 DEF Settled
    <3>2. CASE r \notin rows
      <4>1. r = <<r[1], r[2], figure[r[1]][r[2]]>>
        BY <1>4, <3>2, FetchAnswers
      <4> QED
        BY <4>1
    <3> QED
      BY <3>1, <3>2
  <2>3. ASSUME ~capped', NEW p \in settled PROVE HasRow(rows', p) \/ Ahead(p)'
    <3>0. p[1] \in Nat /\ p[2] \in Keys /\ Published(p[1], p[2]) /\ p[1] # last
      BY SettledType DEF Settled
    <3>1. CASE HasRow(rows, p)
      BY <1>4, <3>1, FetchAnswers DEF HasRow
    <3>2. CASE Ahead(p) /\ p[1] \in next .. Until
      <4>1. ~Repeated(p[1], p[2])
        BY <3>0 DEF Repeated
      <4>2. <<p[1], p[2], figure[p[1]][p[2]]>> \in rows'
        BY <1>4, <2>3, <3>0, <3>2, <4>1, FetchAnswers DEF Ahead
      <4> QED
        BY <4>2 DEF HasRow
    <3>3. CASE Ahead(p) /\ p[1] \notin next .. Until
      BY <1>0, <2>1, <3>0, <3>3, GoOnAhead
    <3> QED
      BY <1>0, <2>3, <3>1, <3>2, <3>3 DEF Settled
  <2>4. /\ \A p \in settled \cup exact : Over(p[1])' /\ Published(p[1], p[2])'
        /\ \A p \in settled, k \in Keys : Published(p[1], k)' => <<p[1], k>> \in settled
    BY <2>1 DEF Settled, Over, Published
  <2> QED
    BY <1>0, <2>1, <2>2, <2>3, <2>4 DEF Settled
<1>5. CASE Load
  <2>1. /\ UNCHANGED <<today, figure>> /\ rows' = {} /\ settled' = {}
        /\ exact' = exact \cup settled
    BY <1>5 DEF Load, EndRun, serviceVars
  <2> QED
    BY <2>1 DEF Settled, Over, Published
<1>6. CASE Aborts
  <2>1. UNCHANGED <<today, figure, exact>> /\ rows' = {} /\ settled' = {}
    BY <1>6 DEF Aborts, EndRun, serviceVars, destVars
  <2> QED
    BY <2>1 DEF Settled, Over, Published
<1>7. CASE Skips
  <2>1. /\ UNCHANGED <<today, figure, exact, rows, last, low, high, begins, capped>>
        /\ pc = "reading" /\ GoOn
        /\ settled' = {p \in settled : p[1] \notin next .. Until}
    BY <1>7 DEF Skips, PassOver, serviceVars, destVars
  <2>2. /\ \A p \in settled' \cup exact : Over(p[1])' /\ Published(p[1], p[2])'
        /\ \A p \in settled' : p[1] # last
        /\ \A p \in settled', k \in Keys : Published(p[1], k)' => <<p[1], k>> \in settled'
    BY <2>1 DEF Settled, Over, Published
  <2>3. ASSUME ~capped, NEW p \in settled' PROVE HasRow(rows, p) \/ Ahead(p)'
    <3>1. p[1] \in Nat /\ (HasRow(rows, p) \/ Ahead(p))
      BY <2>1, <2>3, SettledType DEF Settled
    <3>2. CASE Ahead(p)
      BY <1>0, <2>1, <3>1, <3>2, GoOnAhead
    <3> QED
      BY <3>1, <3>2
  <2>4. ASSUME NEW r \in rows, <<r[1], r[2]>> \in settled' \cup exact
        PROVE  r[3] = figure[r[1]][r[2]]
    BY <2>1, <2>4 DEF Settled
  <2> QED
    BY <2>1, <2>2, <2>3, <2>4 DEF Settled
<1>8. CASE UNCHANGED vars
  BY <1>0, <1>8 DEF Settled, Over, Published, HasRow, Ahead, Late, vars, serviceVars, destVars, rangeVars
<1> QED
  BY <1>1, <1>2, <1>3, <1>4, <1>5, <1>6, <1>7, <1>8, Steps

\* Rows that were final before a run are never missed by it, nor read with another figure.
THEOREM SettledCorrect == Spec => []Settled
<1>1. Init => Settled
  BY DEF Init, Settled
<1> QED
  BY <1>1, StepSettled, BasicCorrect, PTL DEF Spec

\* The rows of p in the table, one or more, have its figure.
HasFinal(p) ==
  /\ HasRow(table, p)
  /\ \A t \in table : t[1] = p[1] /\ t[2] = p[2] => t[3] = figure[p[1]][p[2]]

\* The cursor has come to the day of p; when it stands there, and a merge key would
\* delete the day, the cursor leaves out all of it.
CursorPast(p) ==
  Cursor =>
    /\ p[1] <= last
    /\ report.key # "row" /\ p[1] = last =>
         /\ \A k \in Keys : Published(last, k) => \E r \in seen : r[2] = k /\ r[3] = figure[last][k]
         /\ \A r \in rows : r[1] # last

Figures ==
  ~capped /\ report.key # "none" => \A p \in exact : HasFinal(p) /\ CursorPast(p)

\* A load of rows with the final figures leaves just these.
LEMMA LoadFinal ==
  ASSUME TypeOK, Ranged, DaysWhole, Settled, Figures, Load, ~capped, report.key # "none",
         NEW p \in exact'
  PROVE  HasFinal(p)'
<1>1. /\ table' = Kept \cup rows /\ exact' = exact \cup settled /\ figure' = figure
      /\ pc = "loading"
  BY DEF Load, serviceVars
<1>2. Kept \subseteq table
  BY FeatureType DEF Kept
<1>3. p[1] \in Days /\ p[2] \in Keys /\ p = <<p[1], p[2]>> /\ p[1] \in Nat
  BY <1>1, SettledType
<1>4. \A r \in rows : r[1] = p[1] /\ r[2] = p[2] => r[3] = figure[p[1]][p[2]]
  BY <1>1, <1>3 DEF Settled
<1>5. CASE HasRow(rows, p)
  <2>1. HasRow(table', p)
    BY <1>1, <1>5 DEF HasRow
  <2>2. ASSUME NEW t \in Kept, t[1] = p[1], t[2] = p[2] PROVE FALSE
    <3>1. PICK r \in rows : r[1] = t[1] /\ r[2] = t[2]
      BY <1>5, <2>2 DEF HasRow
    <3>2. CASE report.key = "row"
      BY <3>1, <3>2 DEF Kept
    <3>3. CASE report.key \in {"day", "both"}
      BY <3>1, <3>3 DEF Kept
    <3> QED
      BY <3>2, <3>3, FeatureType
  <2> QED
    BY <1>1, <1>4, <2>1, <2>2 DEF HasFinal
<1>6. CASE ~HasRow(rows, p)
  <2>1. p \in exact /\ HasFinal(p) /\ CursorPast(p)
    <3>1. p \notin settled
      BY <1>1, <1>6 DEF Settled, Ahead
    <3> QED
      BY <1>1, <3>1 DEF Figures
  <2>2. ASSUME NEW t \in table, t[1] = p[1], t[2] = p[2] PROVE t \in Kept
    <3>1. CASE report.key = "row"
      <4>1. \A r \in rows : <<r[1], r[2]>> # <<t[1], t[2]>>
        BY <1>6, <2>2 DEF HasRow
      <4> QED
        BY <3>1, <4>1 DEF Kept
    <3>2. CASE report.key \in {"day", "both"}
      <4>1. ASSUME NEW r \in rows, r[1] = t[1] PROVE FALSE
        <5>1. CASE report.start = "window"
          BY <1>6, <2>2, <4>1, <5>1 DEF DaysWhole, HasRow
        <5>2. CASE Cursor
          <6>1. last <= r[1] /\ p[1] <= last /\ last \in Nat
            BY <2>1, <5>2, RangeType DEF Ranged, CursorPast
          <6>2. p[1] = last
            BY <1>3, <2>2, <4>1, <6>1
          <6> QED
            BY <2>1, <2>2, <3>2, <4>1, <5>2, <6>2 DEF CursorPast
        <5> QED
          BY <5>1, <5>2, FeatureType DEF Cursor
      <4> QED
        BY <3>2, <4>1 DEF Kept
    <3> QED
      BY <3>1, <3>2, FeatureType
  <2> QED
    BY <1>1, <1>2, <1>6, <2>1, <2>2 DEF HasFinal, HasRow
<1> QED
  BY <1>5, <1>6

\* The cursor moves past what is loaded, and keeps the rows of the day it stops at.
LEMMA LoadCursor ==
  ASSUME TypeOK, Settled, Figures, Load, ~capped, report.key # "none", Cursor,
         NEW p \in exact'
  PROVE  /\ p[1] <= last'
         /\ report.key # "row" /\ p[1] = last' =>
              \A k \in Keys : Published(last', k) =>
                \E r \in seen' : r[2] = k /\ r[3] = figure[last'][k]
<1>1. /\ exact' = exact \cup settled /\ figure' = figure /\ pc = "loading" /\ last' = Latest
      /\ seen' = {r \in rows : r[1] = Latest} \cup (IF Latest = last THEN seen ELSE {})
  BY DEF Load, Cursor, serviceVars
<1>2. p[1] \in Nat /\ p[2] \in Keys
  BY <1>1, SettledType
<1>3. /\ Latest \in Nat /\ last \in Nat /\ last <= Latest
      /\ \A r \in rows : r[1] <= Latest
  BY LatestType
<1>4. CASE p \in exact
  <2>1. CursorPast(p)
    BY <1>4 DEF Figures
  <2>2. p[1] <= last
    BY <2>1 DEF CursorPast
  <2>3. p[1] = Latest => Latest = last
    BY <1>2, <1>3, <2>2
  <2>4. p[1] <= Latest
    BY <1>2, <1>3, <2>2
  <2> QED
    BY <1>1, <2>1, <2>3, <2>4 DEF CursorPast
<1>5. CASE p \in settled
  <2>1. \A q \in settled : HasRow(rows, q)
    BY <1>1 DEF Settled, Ahead
  <2>2. p[1] <= Latest
    BY <1>3, <1>5, <2>1 DEF HasRow
  <2>3. ASSUME p[1] = Latest, NEW k \in Keys, Published(Latest, k)
        PROVE  \E r \in seen' : r[2] = k /\ r[3] = figure[Latest][k]
    <3>1. <<Latest, k>> \in settled
      BY <1>5, <2>3 DEF Settled
    <3>2. PICK r \in rows : r[1] = Latest /\ r[2] = k
      BY <2>1, <3>1 DEF HasRow
    <3>3. r[3] = figure[Latest][k]
      BY <3>1, <3>2 DEF Settled
    <3> QED
      BY <1>1, <3>2, <3>3
  <2> QED
    BY <1>1, <2>2, <2>3 DEF Published
<1> QED
  BY <1>1, <1>4, <1>5

LEMMA StepFigures == Basic /\ RowsKept /\ Settled /\ Figures /\ [Next]_vars => Figures'
<1> SUFFICES ASSUME TypeOK, Ranged, DaysWhole, Settled, Figures, [Next]_vars,
                    ~capped, ~capped', report.key # "none", NEW p \in exact'
             PROVE  HasFinal(p)' /\ CursorPast(p)'
  BY Steps DEF Basic, RowsKept, Figures
<1>0. /\ report' = report /\ Cursor' = Cursor
      /\ p \in exact => HasFinal(p) /\ CursorPast(p) /\ Over(p[1]) /\ p[1] \in Days /\ p[2] \in Keys
  BY Steps, SettledType DEF Figures, Settled
<1>1. CASE UNCHANGED <<figure, table, exact, last, seen, rows>>
  BY <1>0, <1>1 DEF HasFinal, CursorPast, Published, HasRow
<1>2. ASSUME NEW d \in Days, NEW k \in Keys, Publish(d, k) PROVE HasFinal(p)' /\ CursorPast(p)'
  <2>1. /\ UNCHANGED <<table, exact, last, seen, rows>>
        /\ \A l \in Keys : figure'[p[1]][l] = figure[p[1]][l]
    BY <1>0, <1>2, PublishMoves DEF destVars, rangeVars, Over
  <2>2. HasFinal(p)'
    BY <1>0, <2>1 DEF HasFinal, HasRow
  <2>3. CursorPast(p)'
    BY <1>0, <2>1 DEF CursorPast, Published
  <2> QED
    BY <2>2, <2>3
<1>3. CASE StartRun
  BY <1>0, <1>3 DEF StartRun, serviceVars, destVars, HasFinal, CursorPast, Published, HasRow
<1>4. CASE Fetch
  <2>1. UNCHANGED <<figure, table, exact, last, seen>>
    BY <1>4 DEF Fetch, serviceVars, destVars
  <2>2. HasFinal(p)'
    BY <1>0, <2>1 DEF HasFinal, HasRow
  <2>3. ASSUME Cursor, report.key # "row", p[1] = last, NEW r \in rows', r[1] = last PROVE FALSE
    <3>1. r \notin rows
      BY <1>0, <2>1, <2>3 DEF CursorPast
    <3>2. Published(r[1], r[2]) /\ r[2] \in Keys /\ ~Repeated(r[1], r[2])
      BY <1>4, <3>1, FetchAnswers
    <3>3. \E q \in seen : q[2] = r[2] /\ q[3] = figure[last][r[2]]
      BY <1>0, <2>1, <2>3, <3>2 DEF CursorPast
    <3> QED
      BY <2>3, <3>2, <3>3 DEF Repeated, Cursor
  <2>4. CursorPast(p)'
    BY <1>0, <2>1, <2>3 DEF CursorPast, Published
  <2> QED
    BY <2>2, <2>4
<1>5. CASE Load
  <2>1. HasFinal(p)'
    BY <1>5, LoadFinal
  <2>2. rows' = {} /\ figure' = figure
    BY <1>5 DEF Load, EndRun, serviceVars
  <2>3. CursorPast(p)'
    BY <1>0, <1>5, <2>2, LoadCursor DEF CursorPast, Published
  <2> QED
    BY <2>1, <2>3
<1>6. CASE Aborts
  <2>1. UNCHANGED <<figure, table, exact, last, seen>> /\ rows' = {}
    BY <1>6 DEF Aborts, EndRun, serviceVars, destVars
  <2> QED
    BY <1>0, <2>1 DEF HasFinal, CursorPast, Published, HasRow
<1>7. CASE Skips
  BY <1>1, <1>7 DEF Skips, serviceVars, destVars
<1> QED
  BY <1>1, <1>2, <1>3, <1>4, <1>5, <1>6, <1>7, Steps
     DEF NewDay, vars, serviceVars, destVars, rangeVars

\* What has been loaded with its final figure keeps it, and the cursor has come past it.
THEOREM FiguresCorrect == Spec => []Figures
<1>1. Init => Figures
  BY DEF Init, Figures
<1> QED
  BY <1>1, StepFigures, BasicCorrect, RowsKeptCorrect, SettledCorrect, PTL DEF Spec

\* A figure that could not change any more when it was asked for is the one in the
\* table, and the only one where rows are merged.
THEOREM FinalFiguresCorrect == Spec => []FinalFigures
<1>1. Basic /\ Figures => FinalFigures
  <2> SUFFICES ASSUME TypeOK, Figures, ~capped, report.key # "none", NEW p \in exact
               PROVE  {t[3] : t \in {u \in table : <<u[1], u[2]>> = p}} = {figure[p[1]][p[2]]}
    BY DEF Basic, FinalFigures
  <2>1. HasFinal(p) /\ p = <<p[1], p[2]>>
    BY SettledType DEF Figures
  <2>2. PICK t \in table : t[1] = p[1] /\ t[2] = p[2]
    BY <2>1 DEF HasFinal, HasRow
  <2>3. \A u \in table : <<u[1], u[2]>> = p => u[3] = figure[p[1]][p[2]]
    BY <2>1 DEF HasFinal
  <2>4. <<t[1], t[2]>> = p
    BY <2>1, <2>2
  <2> QED
    BY <2>3, <2>4
<1> QED
  BY <1>1, BasicCorrect, FiguresCorrect, PTL
=============================================================================

------------------------ MODULE SqlIncrementalProofs ------------------------
(***************************************************************************)
(* No row is skipped, none that stays in the source is taken out of the     *)
(* destination and none is loaded twice, for every set of rows, any number  *)
(* of writes and of failures, and every combination of options.             *)
(***************************************************************************)
EXTENDS SqlIncremental, FiniteSetTheorems, TLAPS

\* A non-empty set of numbers up to n has a maximum.
LEMMA MaximumExists ==
  ASSUME NEW n \in Nat, NEW T, T \subseteq 0 .. n, T # {}
  PROVE  \E m \in T : \A t \in T : t <= m
<1> DEFINE Mirror == {n - t : t \in T}
<1>1. \A t \in T : t \in Int /\ n - t \in Nat
  OBVIOUS
<1>2. Mirror \subseteq Nat /\ Mirror # {}
  BY <1>1
<1>3. PICK k \in Mirror : \A j \in Mirror : ~ (<<j, k>> \in OpToRel(<, Nat))
  <2> HIDE DEF Mirror
  <2> QED
    BY <1>2, WFMin, NatLessThanWellFounded
<1>4. PICK m \in T : k = n - m
  OBVIOUS
<1>5. ASSUME NEW t \in T PROVE ~ (n - t < n - m)
  <2>1. n - t \in Mirror
    OBVIOUS
  <2> HIDE DEF Mirror
  <2> QED
    BY <1>1, <1>3, <1>4, <2>1 DEF OpToRel
<1> QED
  BY <1>1, <1>5

\* What the command line may say.
LEMMA OptionsType ==
  ASSUME TypeOK
  PROVE  /\ Strategy \in Strategies /\ Limit \in Nat
         /\ Key \in BOOLEAN /\ PrimaryKey \in BOOLEAN
         /\ Window \in BOOLEAN /\ PersistentDir \in BOOLEAN
BY OptionsAssumption DEF TypeOK, Strategy, Limit, Key, PrimaryKey, Window, PersistentDir

\* The command line does not change.
SameOptions ==
  /\ options' = options /\ Strategy' = Strategy /\ Limit' = Limit
  /\ Key' = Key /\ PrimaryKey' = PrimaryKey /\ Window' = Window
  /\ PersistentDir' = PersistentDir /\ Refused' = Refused /\ Cut' = Cut
  /\ JobByJob' = JobByJob

LEMMA OptionsStay == ASSUME [Next]_vars PROVE SameOptions
BY DEF Next, vars, SameOptions, Strategy, Limit, Key, PrimaryKey, Window, PersistentDir,
       Refused, Cut, JobByJob

\* The rows of the source are rows.
LEMMA CurrentType ==
  ASSUME TypeOK
  PROVE  /\ Rows \subseteq Row
         /\ \A i \in Ids : Exists(i) => Current(i) \in Rows
         /\ \A r \in Rows : r.id \in Ids /\ Exists(r.id) /\ r = Current(r.id)
<1>1. ASSUME NEW i \in Ids, Exists(i)
      PROVE  Current(i) \in Row /\ Current(i) \in Rows /\ Current(i).id = i
  BY <1>1, BoundsAssumption DEF TypeOK, Exists, Current, Row, Rows, Time
<1> QED
  BY <1>1 DEF Rows

LEMMA StartType == ASSUME TypeOK PROVE Start \in Cursor
BY BoundsAssumption DEF TypeOK, Start, NoCursor, Cursor, Time

\* An incremental cursor moves to the latest row it has passed on, and remembers the
\* rows there.
LEMMA AdvancedCursor ==
  ASSUME TypeOK, NEW B \in SUBSET Row, NEW cursor \in Cursor,
         Key, ~Window, B # {}
  PROVE  \E last \in Time :
           LET at == {r \in B : r.at = last}
           IN /\ at # {}
              /\ \A r \in B : r.at <= last
              /\ Advanced(B, cursor) =
                   [last |-> last,
                    seen |-> IF last = cursor.last THEN cursor.seen \cup at ELSE at]
<1> DEFINE T == {r.at : r \in B}
           last == CHOOSE t \in T : \A r \in B : r.at <= t
<1>1. T \subseteq 0 .. MaxTime /\ T # {} /\ MaxTime \in Nat
  BY BoundsAssumption DEF Row, Time
<1>2. \E t \in T : \A u \in T : u <= t
  <2> HIDE DEF T
  <2> QED BY <1>1, MaximumExists
<1>3. \E t \in T : \A r \in B : r.at <= t
  BY <1>2
<1>4. last \in T /\ \A r \in B : r.at <= last
  <2> HIDE DEF T
  <2> QED BY <1>3
<1>5. last \in Time
  BY <1>1, <1>4 DEF Time
<1>6. {r \in B : r.at = last} # {}
  BY <1>4
<1>7. Advanced(B, cursor) =
        [last |-> last,
         seen |-> IF last = cursor.last THEN cursor.seen \cup {r \in B : r.at = last}
                  ELSE {r \in B : r.at = last}]
  BY DEF Advanced
<1> HIDE DEF last
<1> QED
  BY <1>4, <1>5, <1>6, <1>7

LEMMA AdvancedSame ==
  ASSUME NEW B, NEW cursor, ~Key \/ Window \/ B = {}
  PROVE  Advanced(B, cursor) = cursor
BY DEF Advanced

LEMMA AdvancedType ==
  ASSUME TypeOK, NEW B \in SUBSET Row, NEW cursor \in Cursor
  PROVE  Advanced(B, cursor) \in Cursor
<1>1. CASE Key /\ ~Window /\ B # {}
  <2>1. PICK last \in Time :
          Advanced(B, cursor) =
            [last |-> last,
             seen |-> IF last = cursor.last THEN cursor.seen \cup {r \in B : r.at = last}
                      ELSE {r \in B : r.at = last}]
    BY <1>1, AdvancedCursor
  <2> QED
    BY <2>1 DEF Cursor
<1>2. CASE ~(Key /\ ~Window /\ B # {})
  BY <1>2, AdvancedSame, OptionsType
<1> QED
  BY <1>1, <1>2

\* What an extraction reads and leaves: an incremental run passes on rows that its
\* cursor has not, and what it leaves was passed on, or is as late as what it took;
\* a run without a limit leaves nothing else of its range.
LEMMA TakenRows ==
  ASSUME TypeOK, NEW w \in [from : Time, to : Time], NEW S \in Fetched(w)
  PROVE  LET B == Taken(S, Start)
         IN /\ B \subseteq Rows
            /\ \A r \in B : InRange(w, r)
            /\ Key /\ ~Window =>
                 /\ \A r \in B : r.at >= Start.last /\ ~Deduplicated(r, Start)
                 /\ \A r \in Rows \ B :
                      \/ ~(r.at >= Start.last)
                      \/ Deduplicated(r, Start)
                      \/ \A q \in B : q.at <= r.at
            /\ Limit = 0 =>
                 \A r \in Rows \ B :
                   ~InRange(w, r) \/ (Key /\ ~Window /\ Deduplicated(r, Start))
<1> DEFINE R == {r \in Rows : InRange(w, r)}
<1>1. S \subseteq R
  BY DEF Fetched
<1>2. S = R \/ (Limit # 0 /\ (Key => \A r \in S, q \in R \ S : r.at <= q.at))
  BY DEF Fetched
<1>3. Key /\ ~Window => \A r \in Rows : InRange(w, r) <=> r.at >= Start.last
  BY DEF InRange
<1> QED
  BY <1>1, <1>2, <1>3, OptionsType DEF Taken

\* What a load does to the table: every row it loads is there, a row that was there
\* goes only if its strategy takes it out, and no other row appears.
TakenOut(c, R) ==
  \/ Strategy \in {"replace", "scd2"}
  \/ Strategy \in {"merge", "delete+insert"} /\ \E r \in R : Matches(c, r)

LEMMA AppendedRows ==
  ASSUME NEW base \in [Row -> 0 .. 2], NEW R \in SUBSET Row
  PROVE  /\ Appended(base, R) \in [Row -> 0 .. 2]
         /\ \A c \in R : Appended(base, R)[c] > 0
         /\ \A c \in R : base[c] = 0 => Appended(base, R)[c] = 1
         /\ \A c \in Row \ R : Appended(base, R)[c] = base[c]
         /\ \A c \in Row : base[c] > 0 => Appended(base, R)[c] > 0
BY DEF Appended, Several

LEMMA WrittenRows ==
  ASSUME TypeOK, NEW R \in SUBSET Row
  PROVE  /\ Written(R) \in [Row -> 0 .. 2]
         /\ \A c \in R : Written(R)[c] > 0
         /\ \A c \in R : ~Loaded(c) \/ TakenOut(c, R) => Written(R)[c] = 1
         /\ \A c \in Row \ R : ~TakenOut(c, R) => Written(R)[c] = table[c]
         /\ \A c \in Row \ R : TakenOut(c, R) => Written(R)[c] = 0
<1> DEFINE base == [c \in Row |-> IF TakenOut(c, R) THEN 0 ELSE table[c]]
<1>1. table \in [Row -> 0 .. 2]
  BY DEF TypeOK
<1>2. base \in [Row -> 0 .. 2]
  BY <1>1
<1>3. Written(R) = Appended(base, R)
  <2>1. CASE Strategy \in {"replace", "scd2"}
    BY <2>1 DEF Written, TakenOut
  <2>2. CASE Strategy = "append"
    <3>1. base = table
      BY <1>1, <2>2 DEF TakenOut
    <3> HIDE DEF base
    <3> QED BY <2>2, <3>1 DEF Written
  <2>3. CASE Strategy \in {"merge", "delete+insert"}
    <3>1. base = [c \in Row |-> IF \E r \in R : Matches(c, r) THEN 0 ELSE table[c]]
      BY <2>3 DEF TakenOut
    <3> HIDE DEF base
    <3> QED BY <2>3, <3>1 DEF Written
  <2> QED
    BY <2>1, <2>2, <2>3, OptionsType DEF Strategies
<1>4. \A c \in Row : ~Loaded(c) \/ TakenOut(c, R) => base[c] = 0
  BY <1>1 DEF Loaded
<1>5. \A c \in Row : base[c] = IF TakenOut(c, R) THEN 0 ELSE table[c]
  OBVIOUS
<1> HIDE DEF base
<1> QED
  BY <1>2, <1>3, <1>4, <1>5, AppendedRows

\* What a step of a load does to the table: nothing, the jobs of the package or of a
\* part of it, or the jobs that were left.
LEMMA LoadedTable ==
  ASSUME TypeOK, LoadJobs \/ LoadFails
  PROVE  \E R \in SUBSET package.rows :
           \/ table' = table
           \/ package.jobs = "all" /\ table' = Written(R) /\ (R = package.rows \/ JobByJob)
           \/ package.jobs = "rest" /\ table' = Appended(table, R) /\ R = package.rows
<1>1. CASE LoadJobs
  BY <1>1 DEF LoadJobs, TypeOK
<1>2. CASE LoadFails
  <2>1. PICK kept \in {package} \cup
               {[package EXCEPT !.jobs = "rest", !.rows = @ \ R] : R \in SUBSET package.rows} :
          /\ kept # package => pc = "loading" /\ JobByJob /\ package.jobs = "all"
          /\ table' = IF kept = package THEN table ELSE Written(package.rows \ kept.rows)
    BY <1>2 DEF LoadFails
  <2>2. package.rows \ kept.rows \in SUBSET package.rows
    OBVIOUS
  <2> QED
    BY <2>1, <2>2
<1> QED
  BY <1>1, <1>2

\* A package that is kept after a failure holds what is left of it.
LEMMA KeptPackage ==
  ASSUME TypeOK, LoadFails, package' # NoPackage, package' # package
  PROVE  /\ JobByJob /\ package.jobs = "all" /\ PersistentDir
         /\ package'.pending = package.pending /\ package'.cursor = package.cursor
         /\ package'.jobs = "rest" /\ package'.rows \subseteq package.rows
         /\ package' \in [pending : BOOLEAN, jobs : {"all", "rest", "none"},
                          rows : SUBSET Row, cursor : Cursor]
         /\ table' = Written(package.rows \ package'.rows)
<1>1. PICK kept \in {package} \cup
             {[package EXCEPT !.jobs = "rest", !.rows = @ \ R] : R \in SUBSET package.rows} :
        /\ kept # package => pc = "loading" /\ JobByJob /\ package.jobs = "all"
        /\ table' = IF kept = package THEN table ELSE Written(package.rows \ kept.rows)
        /\ package' = IF PersistentDir THEN kept ELSE NoPackage
  BY DEF LoadFails
<1>2. PersistentDir /\ package' = kept /\ kept # package
  BY <1>1
<1>3. PICK R \in SUBSET package.rows :
        kept = [package EXCEPT !.jobs = "rest", !.rows = @ \ R]
  BY <1>1, <1>2
<1>4. package \in [pending : BOOLEAN, jobs : {"all", "rest", "none"},
                   rows : SUBSET Row, cursor : Cursor]
  BY DEF TypeOK
<1> QED
  BY <1>1, <1>2, <1>3, <1>4

LEMMA NoPackageType ==
  NoPackage \in [pending : BOOLEAN, jobs : {"all", "rest", "none"},
                 rows : SUBSET Row, cursor : Cursor]
BY BoundsAssumption DEF NoPackage, NoCursor, Cursor, Time

(* Every step leaves the source, the destination, the package, both cursors and the *)
(* phase of the run with values they can have.                                      *)
THEOREM TypeCorrect == Spec => []TypeOK
<1>1. Init => TypeOK
  <2> SUFFICES ASSUME Init PROVE TypeOK
    OBVIOUS
  <2>1. NoCursor \in Cursor /\ 0 \in Time
    BY BoundsAssumption DEF NoCursor, Cursor, Time
  <2> QED
    BY <2>1, NoPackageType, BoundsAssumption DEF Init, TypeOK, NoPackage
<1>2. TypeOK /\ [Next]_vars => TypeOK'
  <2> SUFFICES ASSUME TypeOK, [Next]_vars PROVE TypeOK'
    OBVIOUS
  <2>0. options' \in Options
    BY DEF TypeOK, Next, vars
  <2>1. CASE Tick
    BY <2>0, <2>1, BoundsAssumption DEF Tick, TypeOK, Time, Pending
  <2>2. ASSUME NEW i \in Ids, NEW t \in Time, Write(i, t) PROVE TypeOK'
    BY <2>0, <2>2, BoundsAssumption DEF Write, TypeOK, Time, Pending
  <2>3. CASE Extract
    <3>1. PICK w \in [from : Time, to : Time] : \E S \in Fetched(w) :
            LET B == Taken(S, Start)
                cursor == Advanced(B, Start)
            IN /\ package' = [pending |-> TRUE, jobs |-> "all", rows |-> B, cursor |-> cursor]
               /\ local' = cursor
      BY <2>3 DEF Extract
    <3>2. PICK S \in Fetched(w) :
            /\ package' = [pending |-> TRUE, jobs |-> "all", rows |-> Taken(S, Start),
                           cursor |-> Advanced(Taken(S, Start), Start)]
            /\ local' = Advanced(Taken(S, Start), Start)
      BY <3>1
    <3>3. Taken(S, Start) \in SUBSET Row
      BY TakenRows, CurrentType
    <3>4. Advanced(Taken(S, Start), Start) \in Cursor
      BY <3>3, StartType, AdvancedType
    <3>5. pc' = "loading" /\ UNCHANGED <<sourceVars, table, saved, failures>>
      BY <2>3 DEF Extract
    <3> QED
      BY <2>0, <3>2, <3>3, <3>4, <3>5 DEF TypeOK, sourceVars, Pending
  <2>4. CASE Reject
    BY <2>0, <2>4 DEF Reject, TypeOK, sourceVars, Pending
  <2>5. CASE StartWithPending
    BY <2>0, <2>5 DEF StartWithPending, TypeOK, sourceVars, Pending
  <2>6. CASE LoadJobs
    <3>1. table' \in [Row -> 0 .. 2]
      BY <2>6, LoadedTable, AppendedRows, WrittenRows DEF TypeOK
    <3> QED
      BY <2>0, <2>6, <3>1 DEF LoadJobs, TypeOK, sourceVars, Pending
  <2>7. CASE CompleteLoad
    BY <2>0, <2>7, NoPackageType DEF CompleteLoad, TypeOK, sourceVars, Pending
  <2>8. CASE LoadFails
    <3>1. table' \in [Row -> 0 .. 2]
      BY <2>8, LoadedTable, AppendedRows, WrittenRows DEF TypeOK
    <3>2. package' \in [pending : BOOLEAN, jobs : {"all", "rest", "none"},
                        rows : SUBSET Row, cursor : Cursor]
      BY <2>8, KeptPackage, NoPackageType DEF TypeOK
    <3>3. /\ failures < MaxFailures /\ failures' = failures + 1 /\ pc' = "idle"
          /\ UNCHANGED <<sourceVars, saved, local>>
      BY <2>8 DEF LoadFails
    <3> QED
      BY <2>0, <3>1, <3>2, <3>3, BoundsAssumption DEF TypeOK, sourceVars
  <2>9. CASE UNCHANGED vars
    BY <2>9 DEF vars, sourceVars, TypeOK, Pending
  <2> QED
    BY <2>1, <2>2, <2>3, <2>4, <2>5, <2>6, <2>7, <2>8, <2>9 DEF Next, Database, Run
<1> QED
  BY <1>1, <1>2, PTL DEF Spec

-----------------------------------------------------------------------------
(* What the destination, the package and the cursors know of the source is of the  *)
(* past.                                                                            *)

\* c is an earlier state of its row, or the present one.
Was(c) ==
  /\ c.version <= source[c.id].version
  /\ c.version = source[c.id].version => c = Current(c.id)

Cursors == {saved, local, package.cursor}
Known(c) == Loaded(c) \/ c \in package.rows \/ \E cursor \in Cursors : c \in cursor.seen

SourceDated ==
  \A i \in Ids : Exists(i) => /\ source[i].at <= clock
                              /\ source[i].at = clock => i \in stamped
KnownDated ==
  \A c \in Row : Known(c) => /\ Was(c) /\ c.at <= clock
                             /\ c.at = clock => c.id \in stamped
CursorsDated ==
  \A cursor \in Cursors : /\ cursor.last <= clock
                          /\ \A s \in cursor.seen : s.at = cursor.last

\* Failures are counted.
LEMMA FailuresGrow ==
  ASSUME TypeOK, [Next]_vars
  PROVE  failures \in Nat /\ (failures' = failures \/ failures' = failures + 1)
<1>1. failures \in Nat
  BY BoundsAssumption DEF TypeOK
<1>2. LoadFails => failures' = failures + 1
  BY DEF LoadFails
<1>3. ~LoadFails => failures' = failures
  BY DEF Next, vars, sourceVars, Database, Tick, Write, Run, Extract, Reject,
         StartWithPending, LoadJobs, CompleteLoad
<1> QED
  BY <1>1, <1>2, <1>3

\* How far a package is, and whose it is.
PackageTrue ==
  /\ pc = "loaded" => package.jobs = "none"
  /\ Pending => ~Refused
  /\ ~Pending => package = NoPackage
  /\ package.jobs = "rest" => JobByJob
  /\ PersistentDir /\ Pending => package.cursor = local

Dated == TypeOK /\ SourceDated /\ KnownDated /\ CursorsDated /\ PackageTrue

\* Everything but a query leaves what is known as it is, or forgets some of it.
LEMMA KnownStays ==
  ASSUME TypeOK, Reject \/ StartWithPending \/ LoadJobs \/ CompleteLoad \/ LoadFails
  PROVE  /\ \A c \in Row : Known(c)' => Known(c)
         /\ Cursors' \subseteq Cursors \cup {NoCursor}
         /\ UNCHANGED sourceVars
<1>1. CASE Reject \/ StartWithPending
  BY <1>1 DEF Reject, StartWithPending, Known, Cursors, Loaded
<1>2. CASE CompleteLoad
  BY <1>2 DEF CompleteLoad, Known, Cursors, Loaded, NoPackage, NoCursor
<1>3. CASE LoadJobs \/ LoadFails
  <2>1. \A c \in Row : Loaded(c)' => Loaded(c) \/ c \in package.rows
    BY <1>3, LoadedTable, WrittenRows, AppendedRows DEF Loaded, TypeOK
  <2>2. package'.rows \subseteq package.rows /\ package'.cursor \in {package.cursor, NoCursor}
    <3>1. CASE LoadJobs
      BY <3>1 DEF LoadJobs, TypeOK
    <3>2. CASE LoadFails
      BY <3>2, KeptPackage DEF NoPackage
    <3> QED
      BY <1>3, <3>1, <3>2
  <2>3. UNCHANGED <<sourceVars, saved, local>>
    BY <1>3 DEF LoadJobs, LoadFails
  <2> QED
    BY <2>1, <2>2, <2>3 DEF Known, Cursors, NoCursor
<1> QED
  BY <1>1, <1>2, <1>3

\* The one query of a run, named.
Extracted(B, cursor) ==
  /\ B \in SUBSET Rows
  /\ cursor = Advanced(B, Start)
  /\ package' = [pending |-> TRUE, jobs |-> "all", rows |-> B, cursor |-> cursor]
  /\ local' = cursor

LEMMA ExtractRows ==
  ASSUME TypeOK, Extract
  PROVE  \E w \in [from : Time, to : Time] : \E S \in Fetched(w) :
           Extracted(Taken(S, Start), Advanced(Taken(S, Start), Start))
BY TakenRows DEF Extract, Extracted

\* A cursor that has passed on rows of the source is at the time of one of them.
LEMMA AdvancedDated ==
  ASSUME Dated, NEW B \in SUBSET Rows, NEW cursor \in Cursor,
         cursor.last <= clock, \A s \in cursor.seen : s.at = cursor.last
  PROVE  /\ Advanced(B, cursor).last <= clock
         /\ \A s \in Advanced(B, cursor).seen : s.at = Advanced(B, cursor).last
         /\ Advanced(B, cursor).seen \subseteq cursor.seen \cup B
<1>1. B \in SUBSET Row /\ \A r \in B : r.at <= clock
  BY CurrentType DEF Dated, SourceDated, Current
<1>2. CASE Key /\ ~Window /\ B # {}
  <2>1. PICK last \in Time :
           LET at == {r \in B : r.at = last}
           IN /\ at # {}
              /\ \A r \in B : r.at <= last
              /\ Advanced(B, cursor) =
                   [last |-> last,
                    seen |-> IF last = cursor.last THEN cursor.seen \cup at ELSE at]
    BY <1>1, <1>2, AdvancedCursor DEF Dated
  <2>2. last <= clock
    BY <1>1, <2>1
  <2> QED
    BY <2>1, <2>2
<1>3. CASE ~(Key /\ ~Window /\ B # {})
  BY <1>3, AdvancedSame
<1> QED
  BY <1>2, <1>3

\* The source as each writer leaves it.
LEMMA SourceDatedStep ==
  ASSUME Dated, [Next]_vars
  PROVE  SourceDated'
<1>1. CASE Tick
  BY <1>1 DEF Tick, Dated, SourceDated, TypeOK, Exists, Time
<1>2. ASSUME NEW i \in Ids, NEW t \in Time, Write(i, t) PROVE SourceDated'
  BY <1>2 DEF Write, Dated, SourceDated, TypeOK, Exists, Time
<1>3. CASE Run \/ LoadFails \/ UNCHANGED vars
  <2>1. UNCHANGED sourceVars
    BY <1>3 DEF Run, Extract, Reject, StartWithPending, LoadJobs, CompleteLoad, LoadFails, vars
  <2> QED
    BY <2>1 DEF sourceVars, Dated, SourceDated, Exists
<1> QED
  BY <1>1, <1>2, <1>3 DEF Next, Database

LEMMA KnownDatedStep ==
  ASSUME Dated, [Next]_vars
  PROVE  KnownDated' /\ CursorsDated'
<1> USE DEF Dated
<1>0. clock \in Int /\ MaxTime \in Int /\ \A c \in Row : c.id \in Ids /\ c.at \in Int /\ c.version \in Int
  BY BoundsAssumption DEF TypeOK, Row, Time
<1>1. CASE Tick
  <2>1. \A c \in Row : (Known(c)' <=> Known(c)) /\ (Was(c)' <=> Was(c))
    BY <1>1 DEF Tick, Known, Cursors, Loaded, Was, Current
  <2>2. Cursors' = Cursors /\ clock' = clock + 1
    BY <1>1 DEF Tick, Cursors
  <2>3. \A cursor \in Cursors : cursor.last \in Int
    BY DEF Cursors, TypeOK, Cursor, Time
  <2> QED
    BY <1>0, <2>1, <2>2, <2>3 DEF KnownDated, CursorsDated
<1>2. ASSUME NEW i \in Ids, NEW t \in Time, Write(i, t) PROVE KnownDated' /\ CursorsDated'
  <2>1. \A c \in Row : Known(c)' <=> Known(c)
    BY <1>2 DEF Write, Known, Cursors, Loaded
  <2>2. \A c \in Row : Was(c) => Was(c)'
    <3> SUFFICES ASSUME NEW c \in Row, Was(c) PROVE Was(c)'
      OBVIOUS
    <3>1. CASE c.id = i
      BY <1>0, <1>2, <3>1 DEF Write, Was, TypeOK
    <3>2. CASE c.id # i
      BY <1>0, <1>2, <3>2 DEF Write, Was, TypeOK, Current
    <3> QED
      BY <3>1, <3>2
  <2>3. Cursors' = Cursors /\ clock' = clock /\ stamped \subseteq stamped'
    BY <1>2 DEF Write, Cursors
  <2> QED
    BY <2>1, <2>2, <2>3 DEF KnownDated, CursorsDated
<1>3. CASE Extract
  <2>1. PICK B, cursor : Extracted(B, cursor)
    BY <1>3, ExtractRows
  <2>2. Start \in Cursor /\ Start.last <= clock /\ (\A s \in Start.seen : s.at = Start.last)
    BY <1>0, StartType DEF Start, NoCursor, CursorsDated, Cursors, TypeOK, Time
  <2>3. /\ cursor.last <= clock /\ \A s \in cursor.seen : s.at = cursor.last
        /\ cursor.seen \subseteq Start.seen \cup B
    BY <2>1, <2>2, AdvancedDated DEF Extracted
  <2>4. UNCHANGED <<sourceVars, table, saved>>
    BY <1>3 DEF Extract
  <2>5. Cursors' = {saved, cursor}
    BY <2>1, <2>4 DEF Cursors, Extracted
  <2>6. Start.seen = {} \/ Start \in Cursors
    BY DEF Start, NoCursor, Cursors
  <2>7. \A c \in Row : Known(c)' => Known(c) \/ c \in B
    <3>1. package'.rows = B /\ table' = table
      BY <2>1, <2>4 DEF Extracted
    <3>2. ASSUME NEW c, \E k \in {saved, cursor} : c \in k.seen
          PROVE  c \in B \/ \E k \in Cursors : c \in k.seen
      BY <2>3, <2>6, <3>2 DEF Cursors
    <3> QED
      BY <2>5, <3>1, <3>2 DEF Known, Loaded
  <2>8. \A c \in Row : Was(c)' <=> Was(c)
    BY <2>4 DEF Was, Current, sourceVars
  <2>9. \A c \in B : Was(c) /\ c.at <= clock /\ (c.at = clock => c.id \in stamped)
    <3> SUFFICES ASSUME NEW c \in B
                 PROVE  Was(c) /\ c.at <= clock /\ (c.at = clock => c.id \in stamped)
      OBVIOUS
    <3>1. c \in Rows /\ c.id \in Ids /\ Exists(c.id) /\ c = Current(c.id) /\ c \in Row
      BY <2>1, CurrentType DEF Extracted
    <3>2. c.version = source[c.id].version /\ c.at = source[c.id].at
      BY <3>1 DEF Current
    <3> QED
      BY <1>0, <3>1, <3>2 DEF Was, SourceDated
  <2>10. clock' = clock /\ stamped' = stamped
    BY <2>4 DEF sourceVars
  <2> QED
    BY <2>3, <2>5, <2>7, <2>8, <2>9, <2>10 DEF KnownDated, CursorsDated, Cursors
<1>4. CASE Reject \/ StartWithPending \/ LoadJobs \/ CompleteLoad \/ LoadFails
  <2>1. /\ \A c \in Row : Known(c)' => Known(c)
        /\ Cursors' \subseteq Cursors \cup {NoCursor}
        /\ clock' = clock /\ stamped' = stamped /\ source' = source
    BY <1>4, KnownStays DEF sourceVars
  <2>2. \A c \in Row : Was(c)' <=> Was(c)
    BY <2>1 DEF Was, Current
  <2>3. NoCursor.last <= clock /\ NoCursor.seen = {}
    BY <1>0 DEF NoCursor, TypeOK, Time
  <2> QED
    BY <2>1, <2>2, <2>3 DEF KnownDated, CursorsDated
<1>5. CASE UNCHANGED vars
  BY <1>5 DEF vars, sourceVars, KnownDated, CursorsDated, Cursors, Known, Loaded, Was, Current
<1> QED
  BY <1>1, <1>2, <1>3, <1>4, <1>5 DEF Next, Database, Run

LEMMA PackageTrueStep ==
  ASSUME Dated, [Next]_vars
  PROVE  PackageTrue'
<1> USE DEF Dated
<1>0. SameOptions
  BY OptionsStay
<1>1. CASE Database \/ Reject \/ StartWithPending \/ UNCHANGED vars
  BY <1>0, <1>1 DEF SameOptions, Database, Tick, Write, Reject, StartWithPending, vars,
                    PackageTrue, Pending, TypeOK
<1>2. CASE Extract
  <2>1. PICK B, cursor : Extracted(B, cursor)
    BY <1>2, ExtractRows
  <2> QED
    BY <1>0, <1>2, <2>1 DEF SameOptions, Extract, Extracted, PackageTrue, Pending
<1>3. CASE LoadJobs
  BY <1>0, <1>3 DEF SameOptions, LoadJobs, PackageTrue, Pending, TypeOK
<1>4. CASE CompleteLoad
  BY <1>0, <1>4 DEF SameOptions, CompleteLoad, PackageTrue, Pending, NoPackage
<1>5. CASE LoadFails
  <2>1. pc' = "idle" /\ local' = local
    BY <1>5 DEF LoadFails
  <2>2. CASE package' = NoPackage
    BY <1>0, <2>1, <2>2 DEF SameOptions, PackageTrue, Pending, NoPackage
  <2>3. CASE package' = package
    BY <1>0, <2>1, <2>3 DEF SameOptions, PackageTrue, Pending
  <2>4. CASE package' # NoPackage /\ package' # package
    <3>1. Pending
      BY <1>5 DEF LoadFails, TypeOK
    <3> QED
      BY <1>0, <1>5, <2>1, <2>4, <3>1, KeptPackage DEF SameOptions, PackageTrue, Pending
  <2> QED
    BY <2>2, <2>3, <2>4
<1> QED
  BY <1>1, <1>2, <1>3, <1>4, <1>5 DEF Next, Run

(* The destination holds no content the source has not had, and no cursor is ahead  *)
(* of the clock or remembers a row at another time than its own.                    *)
THEOREM DatedCorrect == Spec => []Dated
<1>1. Init => SourceDated /\ KnownDated /\ CursorsDated /\ PackageTrue
  BY DEF Init, SourceDated, KnownDated, CursorsDated, PackageTrue, Exists, Known, Cursors,
         Loaded, NoPackage, NoCursor, Pending
<1>2. TypeOK /\ TypeOK' /\ SourceDated /\ KnownDated /\ CursorsDated /\ PackageTrue /\ [Next]_vars
      => SourceDated' /\ KnownDated' /\ CursorsDated' /\ PackageTrue'
  BY SourceDatedStep, KnownDatedStep, PackageTrueStep DEF Dated
<1> QED
  BY <1>1, <1>2, TypeCorrect, PTL DEF Spec, Dated

-----------------------------------------------------------------------------
(* What a load takes out of the destination.                                   *)

\* A package loads again what its jobs will take out and the source still has.
Retaken ==
  Strategy # "replace" /\ ~Cut /\ package.jobs = "all" =>
    \A i \in Ids :
      Exists(i) /\ Loaded(Current(i)) /\ TakenOut(Current(i), package.rows)
      => Current(i) \in package.rows

\* A failure keeps the package or loses it with the directory.
LEMMA FailedPackage ==
  ASSUME TypeOK, LoadFails
  PROVE  /\ Pending
         /\ \/ PersistentDir /\ package' = package /\ table' = table
            \/ PersistentDir /\ package' # NoPackage /\ package' # package
            \/ ~PersistentDir /\ package' = NoPackage
<1>1. PICK kept \in {package} \cup
             {[package EXCEPT !.jobs = "rest", !.rows = @ \ R] : R \in SUBSET package.rows} :
        /\ kept # package => pc = "loading" /\ JobByJob /\ package.jobs = "all"
        /\ table' = IF kept = package THEN table ELSE Written(package.rows \ kept.rows)
        /\ package' = IF PersistentDir THEN kept ELSE NoPackage
  BY DEF LoadFails
<1>2. Pending /\ kept.pending = package.pending
  BY DEF LoadFails, TypeOK, Pending
<1>3. kept # NoPackage
  <2>1. ~NoPackage.pending
    BY DEF NoPackage
  <2>2. kept.pending
    BY <1>2 DEF Pending
  <2> QED
    BY <2>1, <2>2
<1>4. PersistentDir => package' = kept
  BY <1>1
<1>5. ~PersistentDir => package' = NoPackage
  BY <1>1
<1>6. kept = package => table' = table
  BY <1>1
<1> QED
  BY <1>2, <1>3, <1>4, <1>5, <1>6

LEMMA RetakenStep ==
  ASSUME Dated, Retaken, [Next]_vars
  PROVE  Retaken'
<1> USE DEF Dated
<1>0. /\ SameOptions
      /\ \A c, R : TakenOut(c, R)' <=> TakenOut(c, R)
  BY OptionsStay DEF SameOptions, TakenOut, Matches
<1>1. CASE Tick \/ Reject \/ StartWithPending \/ UNCHANGED vars
  BY <1>0, <1>1 DEF Tick, Reject, StartWithPending, vars, sourceVars, SameOptions,
                    Retaken, Exists, Loaded, Current
<1>2. ASSUME NEW i \in Ids, NEW t \in Time, Write(i, t) PROVE Retaken'
  <2> SUFFICES ASSUME (Strategy # "replace" /\ ~Cut /\ package.jobs = "all")',
                      NEW j \in Ids, Exists(j)', Loaded(Current(j))',
                      TakenOut(Current(j), package.rows)'
               PROVE  Current(j)' \in package'.rows
    BY DEF Retaken
  <2>1. package' = package /\ table' = table
    BY <1>2 DEF Write
  <2>2. CASE j = i
    <3>1. Current(i)' \in Row /\ Current(i)'.version = source[i].version + 1 /\ Current(i)'.id = i
      BY <1>2, BoundsAssumption DEF Write, Current, Row, TypeOK, Time
    <3>2. Loaded(Current(i)')
      BY <2>1, <2>2 DEF Loaded
    <3>3. Was(Current(i)')
      BY <3>1, <3>2 DEF KnownDated, Known
    <3> QED
      BY <3>1, <3>3, BoundsAssumption DEF Was, TypeOK
  <2>3. CASE j # i
    <3>1. Current(j)' = Current(j) /\ (Exists(j)' <=> Exists(j))
      BY <1>2, <2>3 DEF Write, Current, Exists, TypeOK
    <3> QED
      BY <1>0, <2>1, <3>1 DEF Retaken, SameOptions, Loaded
  <2> QED
    BY <2>2, <2>3
<1>3. CASE Extract
  <2>0. PICK w \in [from : Time, to : Time] : \E S \in Fetched(w) :
          Extracted(Taken(S, Start), Advanced(Taken(S, Start), Start))
    BY <1>3, ExtractRows
  <2>1. PICK S \in Fetched(w) : Extracted(Taken(S, Start), Advanced(Taken(S, Start), Start))
    BY <2>0
  <2> DEFINE B == Taken(S, Start)
  <2>2. /\ B \subseteq Rows
        /\ \A r \in B : InRange(w, r)
        /\ Limit = 0 =>
             \A r \in Rows \ B :
               ~InRange(w, r) \/ (Key /\ ~Window /\ Deduplicated(r, Start))
    BY TakenRows
  <2>3. package'.rows = B /\ UNCHANGED <<sourceVars, table>> /\ ~Refused
    BY <1>3, <2>1 DEF Extracted, Extract
  <2> HIDE DEF B
  <2> SUFFICES ASSUME Strategy # "replace", ~Cut,
                      NEW i \in Ids, Exists(i), TakenOut(Current(i), B)
               PROVE  Current(i) \in B
    BY <1>0, <2>3 DEF Retaken, SameOptions, Exists, Current, sourceVars, Loaded
  <2>4. Current(i) \in Rows
    BY CurrentType
  <2>5. ASSUME NEW r \in B, r.id = i PROVE Current(i) \in B
    BY <2>2, <2>5, CurrentType
  <2>6. CASE Strategy = "scd2"
    BY <2>2, <2>3, <2>4, <2>6, OptionsType DEF Refused, InRange
  <2>7. CASE Strategy = "merge"
    BY <2>5, <2>7 DEF TakenOut, Matches, Current
  <2>8. CASE Strategy = "delete+insert"
    <3>1. Limit = 0
      BY <2>8, OptionsType DEF Cut
    <3>2. PICK r \in B : Matches(Current(i), r)
      BY <2>8 DEF TakenOut
    <3>3. CASE PrimaryKey /\ Current(i).id = r.id
      BY <2>5, <3>3 DEF Current
    <3>4. CASE Key /\ Current(i).at = r.at
      <4>1. InRange(w, Current(i))
        BY <2>2, <3>4 DEF InRange
      <4> QED
        BY <2>2, <2>4, <2>8, <3>1, <4>1 DEF Deduplicated
    <3> QED
      BY <3>2, <3>3, <3>4 DEF Matches
  <2> QED
    BY <2>6, <2>7, <2>8 DEF TakenOut
<1>4. CASE LoadJobs \/ CompleteLoad
  BY <1>4 DEF LoadJobs, CompleteLoad, NoPackage, Retaken, TypeOK
<1>5. CASE LoadFails
  <2>1. CASE package' = package /\ table' = table
    BY <1>0, <1>5, <2>1 DEF LoadFails, sourceVars, SameOptions, Retaken, Exists, Loaded, Current
  <2>2. CASE package'.jobs # "all"
    BY <2>2 DEF Retaken
  <2> QED
    BY <1>5, <2>1, <2>2, FailedPackage, KeptPackage DEF NoPackage
<1> QED
  BY <1>1, <1>2, <1>3, <1>4, <1>5 DEF Next, Database, Run

\* No step takes out a row that the source still has.
LEMMA CurrentStays ==
  ASSUME Dated, Retaken, [Next]_vars, Strategy # "replace", ~Cut,
         NEW i \in Ids, Exists(i), Loaded(Current(i))
  PROVE  table'[Current(i)] > 0
<1> USE DEF Dated
<1>1. Current(i) \in Row
  BY CurrentType
<1>2. CASE table' = table
  BY <1>2 DEF Loaded
<1>3. CASE LoadJobs \/ LoadFails
  <2>1. PICK R \in SUBSET package.rows :
          \/ table' = table
          \/ package.jobs = "all" /\ table' = Written(R) /\ (R = package.rows \/ JobByJob)
          \/ package.jobs = "rest" /\ table' = Appended(table, R) /\ R = package.rows
    BY <1>3, LoadedTable
  <2>2. R \in SUBSET Row
    BY <2>1 DEF TypeOK
  <2>3. CASE package.jobs = "all" /\ table' = Written(R) /\ (R = package.rows \/ JobByJob)
    <3>1. TakenOut(Current(i), R) => Current(i) \in R
      BY <2>3 DEF Retaken, TakenOut, JobByJob
    <3> QED
      BY <1>1, <2>2, <2>3, <3>1, WrittenRows DEF Loaded
  <2>4. CASE package.jobs = "rest" /\ table' = Appended(table, R)
    BY <1>1, <2>2, <2>4, AppendedRows DEF Loaded, TypeOK
  <2> QED
    BY <1>2, <2>1, <2>3, <2>4
<1> QED
  BY <1>2, <1>3
     DEF Next, vars, sourceVars, Database, Tick, Write, Run, Extract, Reject, StartWithPending,
         CompleteLoad

LEMMA RetakenCorrect == Spec => []Retaken
<1>1. Init => Retaken
  BY DEF Init, Retaken, NoPackage
<1>2. Dated /\ Retaken /\ [Next]_vars => Retaken'
  BY RetakenStep
<1> QED
  BY <1>1, <1>2, DatedCorrect, PTL DEF Spec

(* A row that is loaded and unchanged in the source is never taken out of the     *)
(* destination again, under every strategy but replace, and whichever jobs of a    *)
(* load fail; a limit that cuts a delete+insert between two rows with one merge    *)
(* key is excepted.                                                                *)
THEOREM UnchangedStaysCorrect == Spec => UnchangedStays
<1>1. ASSUME Dated, Retaken, [Next]_vars
      PROVE  Strategy # "replace" /\ ~Cut =>
               \A i \in Ids :
                 Exists(i) /\ source'[i] = source[i] /\ Loaded(Current(i))
                 => Loaded(Current(i))'
  <2> SUFFICES ASSUME Strategy # "replace", ~Cut, NEW i \in Ids, Exists(i),
                      source'[i] = source[i], Loaded(Current(i))
               PROVE  Loaded(Current(i))'
    OBVIOUS
  <2>1. Current(i)' = Current(i)
    BY DEF Current
  <2>2. table'[Current(i)] > 0
    BY <1>1, CurrentStays
  <2> QED
    BY <2>1, <2>2 DEF Loaded
<1> QED
  BY <1>1, DatedCorrect, RetakenCorrect, PTL DEF Spec, UnchangedStays

-----------------------------------------------------------------------------
(* What the next query will read.                                               *)

\* The cursor that the next extraction starts from, unless a failure comes first.
Reached == IF Pending THEN package.cursor ELSE Start

Reads(i, cursor) == Current(i).at >= cursor.last /\ ~Deduplicated(Current(i), cursor)

Incremental == Key /\ ~Window /\ ~Cut /\ ~Refused /\ Strategy # "replace"

\* A row whose last write shows is loaded, in the package or still to be read; a
\* package that may be lost is no excuse.
Covered ==
  Incremental =>
    \A i \in Ids :
      Exists(i) /\ i \notin hidden =>
        /\ Loaded(Current(i)) \/ InPackage(Current(i)) \/ Reads(i, Reached)
        /\ ~PersistentDir => (Loaded(Current(i)) \/ Reads(i, saved))

LEMMA ReachedKnown == ASSUME Strategy # "replace" PROVE Reached \in Cursors
BY DEF Reached, Start, Cursors

\* Loading a package does not move the cursor the next query starts from.
LEMMA ReachedStays ==
  ASSUME Dated, [Next]_vars, ~Extract, LoadFails => PersistentDir, Strategy # "replace"
  PROVE  Reached' = Reached
<1> USE DEF Dated
<1>0. SameOptions
  BY OptionsStay
<1>1. CASE CompleteLoad
  <2>1. Pending /\ ~Pending'
    BY <1>1 DEF CompleteLoad, TypeOK, NoPackage, Pending
  <2> QED
    BY <1>0, <1>1, <2>1 DEF SameOptions, CompleteLoad, Reached, Start, PackageTrue
<1>2. CASE LoadFails
  <2>1. package'.cursor = package.cursor /\ Pending /\ Pending'
    BY <1>2, FailedPackage, KeptPackage DEF Pending
  <2> QED
    BY <2>1 DEF Reached
<1>3. CASE LoadJobs
  BY <1>0, <1>3 DEF SameOptions, LoadJobs, Reached, Start, Pending, TypeOK
<1>4. CASE Database \/ Reject \/ StartWithPending \/ UNCHANGED vars
  BY <1>0, <1>4 DEF SameOptions, Database, Tick, Write, Reject, StartWithPending, vars,
                    Reached, Start, Pending
<1> QED
  BY <1>1, <1>2, <1>3, <1>4 DEF Next, Run

\* A write that shows is read by every cursor there is.
LEMMA WriteIsRead ==
  ASSUME Dated, NEW i \in Ids, NEW t \in Time, Write(i, t), SameOptions, i \notin hidden',
         NEW cursor \in Cursors
  PROVE  Current(i)'.at >= cursor.last /\ ~Deduplicated(Current(i)', cursor)
<1> USE DEF Dated
<1>1. /\ t = clock /\ ~(PrimaryKey /\ i \in stamped)
  BY DEF Write, TypeOK, Time
<1>2. /\ Current(i)'.at = t /\ Current(i)'.id = i
      /\ Current(i)'.version = source[i].version + 1
  BY DEF Write, Current, TypeOK
<1>3. cursor.last <= clock /\ \A s \in cursor.seen : s.at = cursor.last /\ s \in Row
  BY DEF CursorsDated, Cursors, TypeOK, Cursor
<1>4. clock \in Int /\ cursor.last \in Int
  BY DEF TypeOK, Cursors, Cursor, Time
<1>5. ASSUME NEW s \in cursor.seen, s.at = clock
      PROVE  (PrimaryKey => s.id # i) /\ s # Current(i)'
  <2>1. s \in Row /\ Was(s) /\ s.id \in stamped
    BY <1>3, <1>5 DEF KnownDated, Known
  <2>2. s = Current(i)' => source[i].version + 1 <= source[i].version
    BY <1>2, <2>1 DEF Was
  <2> QED
    BY <1>1, <2>1, <2>2, BoundsAssumption DEF TypeOK
<1>6. ~Deduplicated(Current(i)', cursor)
  BY <1>1, <1>2, <1>3, <1>5 DEF Deduplicated
<1> QED
  BY <1>1, <1>2, <1>3, <1>4, <1>6

\* What a query leaves, its cursor does not pass.
LEMMA ExtractCovers ==
  ASSUME Dated, Extract, Key, ~Window, NEW i \in Ids, Exists(i), Reads(i, Start)
  PROVE  Current(i) \in package'.rows \/ Reads(i, package'.cursor)
<1> USE DEF Dated
<1>0. PICK w \in [from : Time, to : Time] : \E S \in Fetched(w) :
        Extracted(Taken(S, Start), Advanced(Taken(S, Start), Start))
  BY ExtractRows
<1>1. PICK S \in Fetched(w) : Extracted(Taken(S, Start), Advanced(Taken(S, Start), Start))
  BY <1>0
<1> DEFINE B == Taken(S, Start)
<1>2. /\ B \subseteq Rows
      /\ \A r \in Rows \ B :
           \/ ~(r.at >= Start.last)
           \/ Deduplicated(r, Start)
           \/ \A q \in B : q.at <= r.at
  BY TakenRows
<1>3. package'.rows = B /\ package'.cursor = Advanced(B, Start)
  BY <1>1 DEF Extracted
<1> HIDE DEF B
<1> SUFFICES ASSUME Current(i) \notin B PROVE Reads(i, Advanced(B, Start))
  BY <1>3
<1>4. Current(i) \in Rows /\ Current(i) \in Row /\ Current(i).id = i /\ B \in SUBSET Row
  BY <1>2, CurrentType DEF Current
<1>5. \A q \in B : q.at <= Current(i).at
  BY <1>2, <1>4 DEF Reads
<1>6. \A q \in B : q.id # i /\ q # Current(i)
  BY <1>2, CurrentType
<1>7. CASE B = {}
  BY <1>7, AdvancedSame
<1>8. CASE B # {}
  <2>1. PICK last \in Time :
           LET at == {r \in B : r.at = last}
           IN /\ at # {}
              /\ \A r \in B : r.at <= last
              /\ Advanced(B, Start) =
                   [last |-> last,
                    seen |-> IF last = Start.last THEN Start.seen \cup at ELSE at]
    BY <1>4, <1>8, AdvancedCursor, StartType
  <2>2. Current(i).at >= last
    BY <1>5, <2>1
  <2>3. ASSUME NEW s \in Advanced(B, Start).seen, Current(i).at = last
        PROVE  s \in B \/ (s \in Start.seen /\ Current(i).at = Start.last)
    BY <2>1, <2>3
  <2>4. Advanced(B, Start).last = last
    BY <2>1
  <2>5. ~Deduplicated(Current(i), Advanced(B, Start))
    BY <1>4, <1>6, <2>3, <2>4 DEF Reads, Deduplicated
  <2> QED
    BY <2>2, <2>4, <2>5 DEF Reads
<1> QED
  BY <1>7, <1>8

LEMMA CoveredStep ==
  ASSUME Dated, Retaken, Covered, [Next]_vars
  PROVE  Covered'
<1> USE DEF Dated
<1>0. SameOptions
  BY OptionsStay
<1> SUFFICES ASSUME Incremental, NEW i \in Ids, Exists(i)', i \notin hidden'
             PROVE  /\ Loaded(Current(i))' \/ InPackage(Current(i))' \/ Reads(i, Reached)'
                    /\ ~PersistentDir => (Loaded(Current(i))' \/ Reads(i, saved)')
  BY <1>0 DEF Covered, Incremental, SameOptions
<1>1. \A c, k : Deduplicated(c, k)' <=> Deduplicated(c, k)
  BY <1>0 DEF Deduplicated, SameOptions
<1>2. Reached \in Cursors /\ saved \in Cursors
  BY ReachedKnown DEF Incremental, Cursors
<1>3. ASSUME NEW t \in Time, Write(i, t)
      PROVE  /\ Reads(i, Reached)'
             /\ Reads(i, saved)'
  <2>1. Reached' = Reached /\ saved' = saved
    BY <1>0, <1>3 DEF Write, Reached, Start, Pending, SameOptions
  <2> QED
    BY <1>0, <1>1, <1>2, <1>3, <2>1, WriteIsRead DEF Reads
<1>4. ASSUME Current(i)' = Current(i), Exists(i), i \notin hidden
      PROVE  /\ Loaded(Current(i))' \/ InPackage(Current(i))' \/ Reads(i, Reached)'
             /\ ~PersistentDir => (Loaded(Current(i))' \/ Reads(i, saved)')
  <2>1. /\ Loaded(Current(i)) \/ InPackage(Current(i)) \/ Reads(i, Reached)
        /\ ~PersistentDir => (Loaded(Current(i)) \/ Reads(i, saved))
    BY <1>4 DEF Covered
  <2>2. CASE Loaded(Current(i))
    BY <1>4, <2>2, CurrentStays DEF Loaded, Incremental
  <2>3. \A cursor : Reads(i, cursor) /\ cursor' = cursor => Reads(i, cursor)'
    BY <1>1, <1>4 DEF Reads
  <2>4. CASE ~Extract /\ (LoadFails => PersistentDir) /\ ~CompleteLoad /\ ~Loaded(Current(i))
    <3>1. Reached' = Reached
      BY <2>4, ReachedStays DEF Incremental
    <3>2. saved' = saved
      BY <2>4 DEF Next, Database, Tick, Write, Run, Reject, StartWithPending, LoadJobs,
                  LoadFails, vars
    <3>3. Reads(i, Reached) => Reads(i, Reached)'
      BY <1>1, <1>4, <3>1 DEF Reads
    <3>4. Reads(i, saved) => Reads(i, saved)'
      BY <1>1, <1>4, <3>2 DEF Reads
    <3>5. InPackage(Current(i)) => Loaded(Current(i))' \/ InPackage(Current(i))'
      <4> SUFFICES ASSUME InPackage(Current(i))
                   PROVE  Loaded(Current(i))' \/ InPackage(Current(i))'
        OBVIOUS
      <4>0. package.rows \in SUBSET Row /\ package.jobs \in {"all", "rest"}
        BY DEF TypeOK, InPackage
      <4>1. CASE LoadJobs
        <5>1. table'[Current(i)] > 0
          BY <4>0, <4>1, WrittenRows, AppendedRows DEF LoadJobs, InPackage, TypeOK
        <5> QED
          BY <1>4, <5>1 DEF Loaded
      <4>2. CASE LoadFails
        <5>1. CASE package' = package
          BY <1>4, <5>1 DEF InPackage, Pending
        <5>2. CASE package' # package
          <6>1. /\ table' = Written(package.rows \ package'.rows)
                /\ package'.pending = package.pending /\ package'.jobs = "rest"
            BY <2>4, <4>2, <5>2, FailedPackage, KeptPackage
          <6>2. Current(i) \in package.rows \ package'.rows => table'[Current(i)] > 0
            BY <4>0, <6>1, WrittenRows
          <6> QED
            BY <1>4, <6>1, <6>2 DEF InPackage, Loaded, Pending
        <5> QED
          BY <5>1, <5>2
      <4>3. CASE package' = package
        BY <1>4, <4>3 DEF InPackage, Pending
      <4> QED
        BY <2>4, <4>1, <4>2, <4>3
           DEF Next, Database, Tick, Write, Run, Reject, StartWithPending, vars
    <3> QED
      BY <2>1, <2>4, <3>3, <3>4, <3>5
  <2>5. CASE CompleteLoad /\ ~Loaded(Current(i))
    <3>1. ~InPackage(Current(i))
      BY <2>5 DEF CompleteLoad, InPackage, PackageTrue
    <3>2. Reached' = Reached
      <4>1. ~Extract
        BY <2>5 DEF CompleteLoad, Extract
      <4>2. ~LoadFails
        <5>1. failures' = failures /\ failures \in Int
          BY <2>5 DEF CompleteLoad, TypeOK
        <5>2. LoadFails => failures' = failures + 1
          BY DEF LoadFails
        <5> QED
          BY <5>1, <5>2
      <4> QED
        BY <4>1, <4>2, ReachedStays DEF Incremental
    <3>3. saved' = Reached
      BY <2>5 DEF CompleteLoad, Reached, TypeOK
    <3> QED
      BY <1>1, <1>4, <2>1, <2>5, <3>1, <3>2, <3>3 DEF Reads
  <2>6. CASE Extract /\ ~Loaded(Current(i))
    <3>1. ~Pending /\ saved' = saved
      BY <2>6 DEF Extract
    <3>2. Reads(i, Start)
      BY <2>1, <2>6, <3>1 DEF InPackage, Reached
    <3>3. Current(i) \in package'.rows \/ Reads(i, package'.cursor)
      BY <1>4, <2>6, <3>2, ExtractCovers DEF Incremental
    <3>4. Pending' /\ package'.jobs = "all"
      BY <2>6, ExtractRows DEF Extracted, Pending
    <3>5. InPackage(Current(i))' \/ Reads(i, Reached)'
      BY <1>1, <1>4, <3>3, <3>4 DEF InPackage, Reached, Reads
    <3> QED
      BY <1>1, <1>4, <2>1, <2>6, <3>1, <3>5 DEF Reads
  <2>7. CASE LoadFails /\ ~PersistentDir /\ ~Loaded(Current(i))
    <3>1. package' = NoPackage /\ saved' = saved
      BY <2>7, FailedPackage DEF LoadFails
    <3>2. Reached' = saved
      BY <1>0, <2>7, <3>1 DEF Reached, Start, Pending, NoPackage, SameOptions, Incremental
    <3> QED
      BY <1>1, <1>4, <2>1, <2>7, <3>1, <3>2 DEF Reads
  <2> QED
    BY <2>2, <2>4, <2>5, <2>6, <2>7
<1>5. ASSUME ~ \E t \in Time : Write(i, t)
      PROVE  Current(i)' = Current(i) /\ Exists(i) /\ i \notin hidden
  <2>1. CASE \E j \in Ids, t \in Time : Write(j, t)
    <3>1. PICK j \in Ids, t \in Time : Write(j, t)
      BY <2>1
    <3>2. j # i
      BY <1>5, <3>1
    <3> QED
      BY <3>1, <3>2 DEF Write, Current, Exists, TypeOK
  <2>2. CASE source' = source /\ hidden' = hidden
    BY <2>2 DEF Current, Exists
  <2> QED
    BY <2>1, <2>2 DEF Next, vars, sourceVars, Database, Tick, Run, Extract, Reject,
                      StartWithPending, LoadJobs, CompleteLoad, LoadFails
<1> QED
  BY <1>3, <1>4, <1>5

(* No row is skipped: what the incremental column shows of a row is in the         *)
(* destination, in a package still to load, or read by the next run, whatever      *)
(* failed in between.                                                              *)
THEOREM NothingSkippedCorrect == Spec => []NothingSkipped
<1>1. Init => Covered
  BY DEF Init, Covered, Exists
<1>2. Dated /\ Retaken /\ Covered /\ [Next]_vars => Covered'
  BY CoveredStep
<1>3. Dated /\ Covered => NothingSkipped
  <2> SUFFICES ASSUME Dated, Covered, Incremental, NEW i \in Ids, Exists(i), i \notin hidden
               PROVE  Loaded(Current(i)) \/ InPackage(Current(i)) \/ Reads(i, Start)
    BY DEF NothingSkipped, Incremental, Reads
  <2>1. /\ Loaded(Current(i)) \/ InPackage(Current(i)) \/ Reads(i, Reached)
        /\ ~PersistentDir => (Loaded(Current(i)) \/ Reads(i, saved))
    BY DEF Covered
  <2>2. CASE PersistentDir \/ ~Pending
    <3>1. Reached = Start
      BY <2>2 DEF Reached, Start, Dated, PackageTrue, Incremental
    <3> QED
      BY <2>1, <3>1
  <2>3. CASE ~PersistentDir
    BY <2>1, <2>3 DEF Start, Incremental
  <2> QED
    BY <2>2, <2>3
<1> QED
  BY <1>1, <1>2, <1>3, DatedCorrect, RetakenCorrect, PTL DEF Spec

-----------------------------------------------------------------------------
(* What may be loaded again.                                                     *)

\* Appending is safe where the rows of a failed package are not read again.
AppendsOnce ==
  Strategy = "append" /\ Key /\ ~Window /\ (PersistentDir \/ failures = 0)

\* The cursor has passed on c.
Passed(c, cursor) == c.at < cursor.last \/ (c.at = cursor.last /\ c \in cursor.seen)

AllPassed == AppendsOnce => \A c \in Row : Loaded(c) \/ c \in package.rows => Passed(c, Reached)

\* What jobs that append are still to load is not there.
Fresh ==
  \/ Strategy = "replace" /\ package.jobs = "rest"
  \/ AppendsOnce /\ package.jobs # "none"
  => \A c \in package.rows : ~Loaded(c)

Once == AllPassed /\ Fresh /\ LoadedOnce

LEMMA FreshStep ==
  ASSUME Dated, Once, [Next]_vars
  PROVE  AllPassed' /\ Fresh'
<1> USE DEF Dated, Once
<1>0. /\ SameOptions
      /\ AppendsOnce' => AppendsOnce
      /\ AppendsOnce' /\ LoadFails => PersistentDir
  <2>1. SameOptions
    BY OptionsStay
  <2>2. failures \in Nat /\ (failures' = failures \/ failures' = failures + 1)
    BY FailuresGrow
  <2>3. LoadFails => failures' = failures + 1
    BY DEF LoadFails
  <2> QED
    BY <2>1, <2>2, <2>3 DEF SameOptions, AppendsOnce
<1>1. CASE Extract
  <2>0. PICK w \in [from : Time, to : Time] : \E S \in Fetched(w) :
          Extracted(Taken(S, Start), Advanced(Taken(S, Start), Start))
    BY <1>1, ExtractRows
  <2>1. PICK S \in Fetched(w) : Extracted(Taken(S, Start), Advanced(Taken(S, Start), Start))
    BY <2>0
  <2> DEFINE B == Taken(S, Start)
             cursor == Advanced(B, Start)
  <2>2. /\ B \subseteq Rows
        /\ Key /\ ~Window => \A r \in B : r.at >= Start.last /\ ~Deduplicated(r, Start)
    BY TakenRows
  <2>3. /\ package'.rows = B /\ package'.jobs = "all" /\ Pending' /\ package'.cursor = cursor
        /\ table' = table /\ ~Pending
    <3>1. package' = [pending |-> TRUE, jobs |-> "all", rows |-> B, cursor |-> cursor]
      BY <2>1 DEF Extracted
    <3>2. table' = table /\ ~Pending
      BY <1>1 DEF Extract
    <3> HIDE DEF B, cursor
    <3> QED BY <3>1, <3>2 DEF Pending
  <2> HIDE DEF B
  <2> SUFFICES ASSUME AppendsOnce
               PROVE  /\ \A c \in Row : Loaded(c) \/ c \in B => Passed(c, cursor)
                      /\ \A c \in B : ~Loaded(c)
    BY <1>0, <2>3 DEF AllPassed, Fresh, SameOptions, Loaded, Reached, Passed
  <2>4. \A c \in Row : Loaded(c) => Passed(c, Start)
    BY <2>3 DEF AllPassed, Reached
  <2>5. Start \in Cursor /\ Start.last \in Int /\ \A c \in Row : c.at \in Int
    BY StartType DEF Cursor, Time, Row
  <2>6. B \in SUBSET Row
    BY <2>2, CurrentType
  <2>7. ASSUME NEW c \in B PROVE ~Loaded(c)
    <3>1. c.at >= Start.last /\ ~Deduplicated(c, Start) /\ c \in Row
      BY <2>2, <2>6 DEF AppendsOnce
    <3>2. ~Passed(c, Start)
      BY <2>5, <3>1 DEF Passed, Deduplicated, AppendsOnce
    <3> QED
      BY <2>4, <3>1, <3>2
  <2>8. ASSUME NEW c \in Row, Loaded(c) \/ c \in B PROVE Passed(c, cursor)
    <3>1. CASE B = {}
      BY <2>4, <2>8, <3>1, AdvancedSame
    <3>2. CASE B # {}
      <4>1. PICK last \in Time :
               LET at == {r \in B : r.at = last}
               IN /\ at # {}
                  /\ \A r \in B : r.at <= last
                  /\ Advanced(B, Start) =
                       [last |-> last,
                        seen |-> IF last = Start.last THEN Start.seen \cup at ELSE at]
        BY <2>5, <2>6, <3>2, AdvancedCursor DEF AppendsOnce
      <4>2. last >= Start.last /\ last \in Int
        BY <2>2, <4>1 DEF AppendsOnce, Time
      <4>3. cursor.last = last
        BY <4>1
      <4>4. CASE c \in B
        <5>1. c.at <= last /\ (c.at = last => c \in cursor.seen)
          BY <4>1, <4>4
        <5> QED
          BY <2>5, <4>2, <4>3, <5>1 DEF Passed
      <4>5. CASE Loaded(c) /\ last = Start.last
        <5>1. Start.seen \subseteq cursor.seen
          BY <4>1, <4>5
        <5> QED
          BY <2>4, <4>3, <4>5, <5>1 DEF Passed
      <4>6. CASE Loaded(c) /\ last # Start.last
        BY <2>4, <2>5, <4>2, <4>3, <4>6 DEF Passed
      <4> QED
        BY <2>8, <4>4, <4>5, <4>6
    <3> QED
      BY <3>1, <3>2
  <2> QED
    BY <2>7, <2>8
<1>2. ASSUME ~Extract PROVE AllPassed'
  <2> SUFFICES ASSUME AppendsOnce', NEW c \in Row, (Loaded(c) \/ c \in package.rows)'
               PROVE  Passed(c, Reached)'
    BY DEF AllPassed
  <2>1. Reached' = Reached
    BY <1>0, <1>2, ReachedStays DEF AppendsOnce
  <2>2. Loaded(c) \/ c \in package.rows
    <3>1. CASE LoadJobs \/ LoadFails
      <4>1. Loaded(c)' => Loaded(c) \/ c \in package.rows
        BY <3>1, LoadedTable, WrittenRows, AppendedRows DEF Loaded, TypeOK
      <4>2. package'.rows \subseteq package.rows
        BY <3>1, FailedPackage, KeptPackage DEF LoadJobs, TypeOK, NoPackage
      <4> QED
        BY <4>1, <4>2
    <3>2. CASE table' = table /\ package'.rows \subseteq package.rows
      BY <3>2 DEF Loaded
    <3>3. CASE CompleteLoad
      BY <3>3 DEF CompleteLoad, NoPackage, Loaded
    <3> QED
      BY <1>2, <3>1, <3>2, <3>3
         DEF Next, vars, Database, Tick, Write, Run, Reject, StartWithPending
  <2>3. Passed(c, Reached)
    BY <1>0, <2>2 DEF AllPassed
  <2> QED
    BY <2>1, <2>3 DEF Passed
<1>3. ASSUME ~Extract PROVE Fresh'
  <2> SUFFICES ASSUME \/ Strategy' = "replace" /\ package'.jobs = "rest"
                      \/ AppendsOnce' /\ package'.jobs # "none",
                      NEW c \in package'.rows
               PROVE  ~Loaded(c)'
    BY DEF Fresh
  <2>0. /\ Strategy = "replace" \/ AppendsOnce
        /\ Strategy = "replace" => package'.jobs = "rest"
        /\ package'.jobs # "none"
    BY <1>0 DEF SameOptions, AppendsOnce
  <2>1. CASE LoadJobs \/ CompleteLoad
    BY <2>0, <2>1 DEF LoadJobs, CompleteLoad, NoPackage, TypeOK
  <2>2. CASE LoadFails
    <3>1. CASE package' = package /\ table' = table
      BY <2>0, <3>1 DEF Fresh, Loaded
    <3>2. CASE package' = NoPackage
      BY <3>2 DEF NoPackage
    <3>3. CASE package' # NoPackage /\ package' # package
      <4>1. /\ package.jobs = "all" /\ package'.rows \subseteq package.rows
            /\ table' = Written(package.rows \ package'.rows)
        BY <2>2, <3>3, KeptPackage
      <4>2. c \in Row /\ c \notin package.rows \ package'.rows
            /\ package.rows \ package'.rows \in SUBSET Row
        BY <4>1 DEF TypeOK
      <4>3. CASE Strategy = "replace"
        <5>1. TakenOut(c, package.rows \ package'.rows)
          BY <4>3 DEF TakenOut
        <5> QED
          BY <4>1, <4>2, <5>1, WrittenRows DEF Loaded
      <4>4. CASE AppendsOnce
        <5>1. ~TakenOut(c, package.rows \ package'.rows)
          BY <4>4 DEF TakenOut, AppendsOnce
        <5>2. ~Loaded(c)
          BY <4>1, <4>4 DEF Fresh
        <5> QED
          BY <4>1, <4>2, <5>1, <5>2, WrittenRows DEF Loaded
      <4> QED
        BY <2>0, <4>3, <4>4
    <3> QED
      BY <2>2, <3>1, <3>2, <3>3, FailedPackage
  <2>3. CASE table' = table /\ package' = package
    BY <2>0, <2>3 DEF Fresh, Loaded
  <2> QED
    BY <1>3, <2>1, <2>2, <2>3 DEF Next, vars, Database, Tick, Write, Run, Reject, StartWithPending
<1> QED
  BY <1>1, <1>2, <1>3

\* The strategies and options under which a row is loaded once.
SafeStrategy ==
  \/ Strategy \in {"replace", "scd2"}
  \/ Strategy = "merge" /\ PrimaryKey
  \/ Strategy = "delete+insert" /\ (Key \/ PrimaryKey)
  \/ AppendsOnce

LEMMA LoadedOnceStep ==
  ASSUME Dated, Once, [Next]_vars
  PROVE  LoadedOnce'
<1> USE DEF Dated, Once
<1> SUFFICES ASSUME SafeStrategy', NEW c \in Row PROVE table'[c] <= 1
  BY DEF LoadedOnce, SafeStrategy, AppendsOnce
<1>0. SafeStrategy
  <2>1. SameOptions
    BY OptionsStay
  <2>2. failures \in Nat /\ (failures' = failures \/ failures' = failures + 1)
    BY FailuresGrow
  <2> QED
    BY <2>1, <2>2 DEF SameOptions, SafeStrategy, AppendsOnce
<1>1. table[c] <= 1 /\ table \in [Row -> 0 .. 2]
  BY <1>0 DEF LoadedOnce, SafeStrategy, AppendsOnce, TypeOK
<1>2. CASE table' = table
  BY <1>1, <1>2
<1>3. CASE LoadJobs \/ LoadFails
  <2>1. PICK R \in SUBSET package.rows :
          \/ table' = table
          \/ package.jobs = "all" /\ table' = Written(R) /\ (R = package.rows \/ JobByJob)
          \/ package.jobs = "rest" /\ table' = Appended(table, R) /\ R = package.rows
    BY <1>3, LoadedTable
  <2>2. R \in SUBSET Row
    BY <2>1 DEF TypeOK
  <2>3. CASE package.jobs = "all" /\ table' = Written(R)
    <3>1. c \in R => ~Loaded(c) \/ TakenOut(c, R)
      BY <1>0, <2>3, OptionsType DEF SafeStrategy, TakenOut, Matches, Fresh
    <3> QED
      BY <1>1, <2>2, <2>3, <3>1, WrittenRows
  <2>4. CASE package.jobs = "rest" /\ table' = Appended(table, R) /\ R = package.rows
    <3>1. c \in R => ~Loaded(c)
      BY <1>0, <2>4 DEF SafeStrategy, Fresh, PackageTrue, JobByJob
    <3>2. c \in R => table[c] = 0
      BY <1>1, <3>1 DEF Loaded
    <3> QED
      BY <1>1, <2>2, <2>4, <3>2, AppendedRows
  <2> QED
    BY <1>2, <2>1, <2>3, <2>4
<1> QED
  BY <1>2, <1>3
     DEF Next, vars, sourceVars, Database, Tick, Write, Run, Extract, Reject, StartWithPending,
         CompleteLoad

(* No row is loaded twice: merging on a key, delete+insert on the incremental key   *)
(* and replacing make retries and overlapping intervals harmless; appending does    *)
(* with a package that survives its failure.                                        *)
THEOREM LoadedOnceCorrect == Spec => []LoadedOnce
<1>1. Init => Once
  BY DEF Init, Once, AllPassed, Fresh, LoadedOnce, Loaded, NoPackage
<1>2. Dated /\ Once /\ [Next]_vars => Once'
  BY FreshStep, LoadedOnceStep DEF Once
<1>3. Once => LoadedOnce
  BY DEF Once
<1> QED
  BY <1>1, <1>2, <1>3, DatedCorrect, PTL DEF Spec
=============================================================================

-------------------- MODULE FilesystemIncrementalProofs --------------------
(***************************************************************************)
(* No content of a file is skipped and none is appended twice, for every    *)
(* set of files, any number of writes and of failures, and every            *)
(* combination of --pipelines-dir and --full-refresh.                       *)
(***************************************************************************)
EXTENDS FilesystemIncremental, FiniteSetTheorems, TLAPS

\* A non-empty set of numbers up to n has a maximum.
LEMMA MaximumExists ==
  ASSUME NEW n \in Nat, NEW T, T \subseteq 0 .. n, T # {}
  PROVE  \E m \in T : \A t \in T : t <= m
<1> DEFINE Mirror == {n - t : t \in T}
<1>1. \A t \in T : t \in Int /\ n - t \in Nat
  OBVIOUS
<1>2. Mirror \subseteq Nat /\ Mirror # {}
  BY <1>1
<1>3. PICK k \in Mirror : \A j \in Mirror : ~ (<<j, k>> \in OpToRel(<, Nat))
  <2> HIDE DEF Mirror
  <2> QED
    BY <1>2, WFMin, NatLessThanWellFounded
<1>4. PICK m \in T : k = n - m
  OBVIOUS
<1>5. ASSUME NEW t \in T PROVE ~ (n - t < n - m)
  <2>1. n - t \in Mirror
    OBVIOUS
  <2> HIDE DEF Mirror
  <2> QED
    BY <1>1, <1>3, <1>4, <2>1 DEF OpToRel
<1> QED
  BY <1>1, <1>5

\* The command line does not change.
SameOptions ==
  options' = options /\ PersistentDir' = PersistentDir /\ FullRefresh' = FullRefresh

LEMMA OptionsStay == ASSUME [Next]_vars PROVE SameOptions
BY DEF Next, vars, SameOptions, PersistentDir, FullRefresh

LEMMA OptionsType ==
  ASSUME TypeOK
  PROVE  PersistentDir \in BOOLEAN /\ FullRefresh \in BOOLEAN
BY OptionsAssumption DEF TypeOK, PersistentDir, FullRefresh

LEMMA CurrentType ==
  ASSUME TypeOK, NEW f \in Files, Exists(f)
  PROVE  Current(f) \in Content /\ version[f] \in 1 .. MaxVersion
BY BoundsAssumption DEF TypeOK, Exists, Current, Content

LEMMA StartType == ASSUME TypeOK PROVE Start \in Cursor /\ Restored \in Cursor
BY BoundsAssumption DEF TypeOK, Start, Restored, NoCursor, Cursor

\* The cursor moves to the latest time among the selected files, and remembers those.
LEMMA AdvancedCursor ==
  ASSUME TypeOK, Selected # {}
  PROVE  \E last \in 0 .. MaxTime :
           LET at == {f \in Selected : listing[f] = last}
           IN /\ at # {}
              /\ \A f \in Selected : listing[f] <= last
              /\ Advanced =
                   [last |-> last,
                    seen |-> IF last = Start.last THEN Start.seen \cup at ELSE at]
<1> DEFINE T == {listing[f] : f \in Selected}
           last == CHOOSE t \in T : \A f \in Selected : listing[f] <= t
<1>1. T \subseteq 0 .. MaxTime /\ T # {} /\ MaxTime \in Nat
  BY BoundsAssumption DEF TypeOK, Selected, NotListed
<1>2. \E t \in T : \A u \in T : u <= t
  <2> HIDE DEF T
  <2> QED BY <1>1, MaximumExists
<1>3. \E t \in T : \A f \in Selected : listing[f] <= t
  BY <1>2
<1>4. last \in T /\ \A f \in Selected : listing[f] <= last
  <2> HIDE DEF T
  <2> QED BY <1>3
<1>5. {f \in Selected : listing[f] = last} # {}
  BY <1>4
<1>6. Advanced =
        [last |-> last,
         seen |-> IF last = Start.last THEN Start.seen \cup {f \in Selected : listing[f] = last}
                  ELSE {f \in Selected : listing[f] = last}]
  BY DEF Advanced
<1> HIDE DEF last
<1> QED
  BY <1>1, <1>4, <1>5, <1>6

LEMMA AdvancedType == ASSUME TypeOK PROVE Advanced \in Cursor
<1>1. CASE Selected = {}
  BY <1>1, StartType DEF Advanced
<1>2. CASE Selected # {}
  <2>1. PICK last \in 0 .. MaxTime :
          Advanced =
            [last |-> last,
             seen |-> IF last = Start.last THEN Start.seen \cup {f \in Selected : listing[f] = last}
                      ELSE {f \in Selected : listing[f] = last}]
    BY <1>2, AdvancedCursor
  <2>2. Start.seen \subseteq Files /\ Selected \subseteq Files
    BY StartType DEF Cursor, Selected
  <2> QED
    BY <2>1, <2>2, BoundsAssumption DEF Cursor
<1> QED
  BY <1>1, <1>2

\* Nothing is selected that was passed over before; a selected file is passed over from
\* then on; a file that is later than the whole listing is not.
LEMMA AdvancedSelects ==
  ASSUME TypeOK, NEW f \in Files, NEW t \in 0 .. MaxTime
  PROVE  /\ Selects(Advanced, f, t) => Selects(Start, f, t)
         /\ f \in Selected /\ listing[f] = t => ~Selects(Advanced, f, t)
         /\ (\A g \in Files : listing[g] <= t) /\ listing[f] # t /\ Selects(Start, f, t)
            => Selects(Advanced, f, t)
<1>0. Start.last \in Int /\ \A g \in Files : listing[g] \in Int
  BY StartType DEF Cursor, TypeOK, NotListed
<1>1. CASE Selected = {}
  BY <1>1 DEF Advanced
<1>2. CASE Selected # {}
  <2>1. PICK last \in 0 .. MaxTime :
           LET at == {g \in Selected : listing[g] = last}
           IN /\ at # {}
              /\ \A g \in Selected : listing[g] <= last
              /\ Advanced =
                   [last |-> last,
                    seen |-> IF last = Start.last THEN Start.seen \cup at ELSE at]
    BY <1>2, AdvancedCursor
  <2>2. PICK h \in Selected : listing[h] = last
    BY <2>1
  <2>3. h \in Files /\ last >= Start.last
    BY <1>0, <2>2 DEF Selected, Selects
  <2>4. Advanced.last = last
    BY <2>1
  <2>5. last = Start.last => Start.seen \subseteq Advanced.seen
    BY <2>1
  <2>6. f \in Selected /\ listing[f] = last => f \in Advanced.seen
    BY <2>1
  <2>7. f \in Advanced.seen =>
          (f \in Selected /\ listing[f] = last) \/ (last = Start.last /\ f \in Start.seen)
    BY <2>1
  <2>8. Selects(Advanced, f, t) => Selects(Start, f, t)
    BY <1>0, <2>3, <2>4, <2>5 DEF Selects
  <2>9. f \in Selected /\ listing[f] = t => ~Selects(Advanced, f, t)
    BY <1>0, <2>1, <2>4, <2>6 DEF Selects
  <2>10. ASSUME \A g \in Files : listing[g] <= t, listing[f] # t, Selects(Start, f, t)
         PROVE  Selects(Advanced, f, t)
    <3>1. last <= t
      BY <2>2, <2>3, <2>10
    <3> QED
      BY <1>0, <2>4, <2>7, <2>10, <3>1 DEF Selects
  <2> QED
    BY <2>8, <2>9, <2>10
<1> QED
  BY <1>1, <1>2

\* What jobs holding the rows R do to the table.
LEMMA LoadingTable ==
  ASSUME TypeOK, NEW R \in SUBSET Content
  PROVE  /\ Loading(R) \in [Content -> 0 .. 2]
         /\ \A c \in R : Loading(R)[c] > 0
         /\ \A c \in R : package.drop \/ table[c] = 0 => Loading(R)[c] = 1
         /\ \A c \in Content \ R : Loading(R)[c] = IF package.drop THEN 0 ELSE table[c]
BY DEF TypeOK, Loading, Several

\* What is left of a package after the jobs holding the rows R.
LEMMA RemainingPackage ==
  ASSUME TypeOK, NEW R
  PROVE  /\ Remaining(R) \in [pending : BOOLEAN, drop : BOOLEAN, rows : SUBSET Content,
                              cursor : Cursor]
         /\ Remaining(R).pending = package.pending /\ ~Remaining(R).drop
         /\ Remaining(R).rows = package.rows \ R /\ Remaining(R).cursor = package.cursor
BY DEF TypeOK, Remaining

LEMMA NoPackageType ==
  /\ NoPackage \in [pending : BOOLEAN, drop : BOOLEAN, rows : SUBSET Content, cursor : Cursor]
  /\ ~NoPackage.pending /\ ~NoPackage.drop /\ NoPackage.rows = {}
  /\ NoPackage.cursor = NoCursor
BY BoundsAssumption DEF NoPackage, NoCursor, Cursor

\* A step of a load: nothing, jobs holding some of the rows, or a failure that loses the
\* package with its directory.
LEMMA LoadStep ==
  ASSUME TypeOK, LoadJobs \/ LoadFails
  PROVE  /\ Pending /\ UNCHANGED <<fileVars, saved, local, readVars>>
         /\ \E R \in SUBSET package.rows :
              \/ table' = table /\ package' = package
              \/ table' = Loading(R) /\ package' = Remaining(R)
              \/ /\ ~PersistentDir /\ LoadFails /\ package' = NoPackage
                 /\ table' = table \/ table' = Loading(R)
<1>1. Pending
  BY DEF LoadJobs, LoadFails, TypeOK
<1>2. UNCHANGED <<fileVars, saved, local, readVars>>
  BY DEF LoadJobs, LoadFails
<1>3. CASE LoadJobs
  BY <1>1, <1>2, <1>3 DEF LoadJobs
<1>4. CASE LoadFails
  <2>1. \/ UNCHANGED table /\ package' = IF PersistentDir THEN package ELSE NoPackage
        \/ \E R \in SUBSET package.rows :
             /\ table' = Loading(R)
             /\ package' = IF PersistentDir THEN Remaining(R) ELSE NoPackage
    BY <1>4 DEF LoadFails
  <2>2. package.rows \in SUBSET package.rows
    OBVIOUS
  <2> QED
    BY <1>1, <1>2, <1>4, <2>1, <2>2
<1> QED
  BY <1>3, <1>4

\* Failures are counted.
LEMMA FailuresGrow ==
  ASSUME TypeOK, [Next]_vars
  PROVE  /\ failures \in Nat
         /\ failures' = IF ExtractFails \/ LoadFails THEN failures + 1 ELSE failures
<1>1. failures \in Nat
  BY BoundsAssumption DEF TypeOK
<1>2. ExtractFails \/ LoadFails => failures' = failures + 1
  BY DEF ExtractFails, LoadFails
<1>3. ~(ExtractFails \/ LoadFails) => failures' = failures
  BY DEF Next, vars, Filesystem, Tick, Write, Restore, Store, Run, StartRun, StartWithPending,
         Stat, Filter, Read, FinishExtract, LoadJobs, CompleteLoad
<1> QED
  BY <1>1, <1>2, <1>3

\* A run handles files that there are: none is ever deleted.
Listed ==
  /\ \A f \in toStat \cup toRead : Exists(f)
  /\ \A f \in Files : listing[f] # NotListed => Exists(f)

LEMMA ListedStep ==
  ASSUME TypeOK, Listed, [Next]_vars
  PROVE  Listed'
<1>0. \A f \in Files : Exists(f) => Exists(f)'
  <2>1. ASSUME NEW g \in Files, NEW t, Store(g, t), NEW f \in Files, Exists(f) PROVE Exists(f)'
    BY <2>1, BoundsAssumption DEF Store, TypeOK, Exists
  <2>2. CASE \E g \in Files : Write(g) \/ Restore(g)
    BY <2>1, <2>2 DEF Write, Restore
  <2>3. CASE version' = version
    BY <2>3 DEF Exists
  <2> QED
    BY <2>2, <2>3
       DEF Next, vars, fileVars, Filesystem, Tick, Run, StartRun, StartWithPending, Stat, Filter,
           Read, FinishExtract, ExtractFails, LoadJobs, CompleteLoad, LoadFails
<1>1. CASE StartRun
  BY <1>1 DEF StartRun, fileVars, Listed, Exists
<1>2. ASSUME NEW f \in Files, Stat(f) PROVE Listed'
  BY <1>2 DEF Stat, fileVars, Listed, Exists, TypeOK
<1>3. CASE Filter
  BY <1>3 DEF Filter, fileVars, Listed, Exists, Selected
<1>4. ASSUME NEW f \in Files, Read(f) PROVE Listed'
  BY <1>4 DEF Read, fileVars, Listed, Exists
<1>5. CASE UNCHANGED <<toStat, toRead, listing>>
  BY <1>0, <1>5 DEF Listed, TypeOK
<1> QED
  BY <1>1, <1>2, <1>3, <1>4, <1>5
     DEF Next, vars, readVars, Filesystem, Tick, Write, Restore, Store, Run, StartWithPending,
         FinishExtract, ExtractFails, LoadJobs, CompleteLoad, LoadFails

(* Every step leaves the files, the destination, the package, the cursors and the    *)
(* listing with values they can have.                                                *)
THEOREM TypeCorrect == Spec => []TypeOK
<1>1. Init => TypeOK
  <2> SUFFICES ASSUME Init PROVE TypeOK
    OBVIOUS
  <2>1. NoCursor \in Cursor
    BY BoundsAssumption DEF NoCursor, Cursor
  <2>2. listing \in [Files -> NotListed .. MaxTime]
    BY BoundsAssumption DEF Init, NotListed
  <2>3. version \in [Files -> 0 .. MaxVersion] /\ mtime \in [Files -> 0 .. MaxTime]
    BY BoundsAssumption DEF Init
  <2>4. table \in [Content -> 0 .. 2]
    BY DEF Init
  <2>5. package = NoPackage /\ saved = NoCursor /\ local = NoCursor
    BY DEF Init
  <2>6. clock \in 0 .. MaxTime /\ failures \in 0 .. MaxFailures
    BY BoundsAssumption DEF Init
  <2>7. /\ options \in Options /\ pc = "idle" /\ refresh = FALSE
        /\ hidden = {} /\ stamped = {} /\ raced = {} /\ toStat = {} /\ toRead = {} /\ rows = {}
    BY DEF Init
  <2> QED
    BY <2>1, <2>2, <2>3, <2>4, <2>5, <2>6, <2>7, NoPackageType DEF TypeOK
<1>2. TypeOK /\ Listed /\ [Next]_vars => TypeOK'
  <2> SUFFICES ASSUME TypeOK, Listed, [Next]_vars PROVE TypeOK'
    OBVIOUS
  <2> USE DEF fileVars, destVars, dirVars, readVars, Pending
  <2>0. options' \in Options
    BY DEF TypeOK, Next, vars
  <2>1. CASE Tick
    BY <2>0, <2>1, BoundsAssumption DEF Tick, TypeOK
  <2>2. ASSUME NEW f \in Files, NEW t \in 0 .. clock, Store(f, t) PROVE TypeOK'
    <3>1. /\ version' \in [Files -> 0 .. MaxVersion] /\ mtime' \in [Files -> 0 .. MaxTime]
          /\ hidden' \subseteq Files /\ stamped' \subseteq Files
      BY <2>2, BoundsAssumption DEF Store, TypeOK
    <3>2. raced' \subseteq Content
      BY <2>2, BoundsAssumption DEF Store, TypeOK, Content
    <3> QED
      BY <2>0, <2>2, <3>1, <3>2 DEF Store, TypeOK
  <2>3. CASE StartRun
    <3>1. refresh' \in BOOLEAN
      BY <2>3, OptionsType DEF StartRun
    <3>2. listing' \in [Files -> NotListed .. MaxTime]
      BY <2>3, BoundsAssumption DEF StartRun, NotListed
    <3> QED
      BY <2>0, <2>3, <3>1, <3>2 DEF StartRun, TypeOK
  <2>4. CASE StartWithPending
    BY <2>0, <2>4 DEF StartWithPending, TypeOK
  <2>5. ASSUME NEW f \in Files, Stat(f) PROVE TypeOK'
    <3>1. listing' \in [Files -> NotListed .. MaxTime]
      BY <2>5, BoundsAssumption DEF Stat, TypeOK, NotListed
    <3> QED
      BY <2>0, <2>5, <3>1 DEF Stat, TypeOK
  <2>6. CASE Filter
    BY <2>0, <2>6 DEF Filter, TypeOK, Selected
  <2>7. ASSUME NEW f \in Files, Read(f) PROVE TypeOK'
    <3>1. Current(f) \in Content
      BY <2>7, CurrentType DEF Read, Listed
    <3> QED
      BY <2>0, <2>7, <3>1 DEF Read, TypeOK
  <2>8. CASE FinishExtract
    BY <2>0, <2>8, AdvancedType DEF FinishExtract, TypeOK
  <2>9. CASE ExtractFails
    BY <2>0, <2>9, BoundsAssumption DEF ExtractFails, TypeOK
  <2>10. CASE LoadJobs \/ LoadFails
    <3>1. table' \in [Content -> 0 .. 2]
      BY <2>10, LoadStep, LoadingTable DEF TypeOK
    <3>2. package' \in [pending : BOOLEAN, drop : BOOLEAN, rows : SUBSET Content, cursor : Cursor]
      BY <2>10, LoadStep, RemainingPackage, NoPackageType DEF TypeOK
    <3>3. /\ pc' = "idle" \/ (pc' = "loaded" /\ package'.pending)
          /\ failures' \in 0 .. MaxFailures
      <4>1. CASE LoadJobs
        BY <4>1, LoadStep, RemainingPackage DEF LoadJobs, TypeOK
      <4>2. CASE LoadFails
        BY <4>2, FailuresGrow, BoundsAssumption DEF LoadFails
      <4> QED
        BY <2>10, <4>1, <4>2
    <3> QED
      BY <2>0, <2>10, <3>1, <3>2, <3>3, LoadStep DEF TypeOK
  <2>11. CASE CompleteLoad
    BY <2>0, <2>11, NoPackageType DEF CompleteLoad, TypeOK
  <2>12. CASE UNCHANGED vars
    BY <2>12 DEF vars, TypeOK
  <2> QED
    BY <2>1, <2>2, <2>3, <2>4, <2>5, <2>6, <2>7, <2>8, <2>9, <2>10, <2>11, <2>12, BoundsAssumption
       DEF Next, Filesystem, Write, Restore, Run, TypeOK
<1>3. Init => Listed
  BY DEF Init, Listed
<1>4. TypeOK /\ Listed /\ [Next]_vars => Listed'
  BY ListedStep
<1> QED
  BY <1>1, <1>2, <1>3, <1>4, PTL DEF Spec

-----------------------------------------------------------------------------
(* Everything a run knows of the files is of the past.                          *)

Cursors == {saved, local, package.cursor}

\* No time is ahead of the clock, and what has the present time was stamped with it.
FilesDated ==
  \A f \in Files :
    /\ Exists(f) => mtime[f] <= clock /\ (mtime[f] = clock => f \in stamped)
    /\ listing[f] <= clock /\ (listing[f] = clock => f \in stamped)
CursorsDated ==
  \A cursor \in Cursors :
    cursor.last <= clock /\ (cursor.last = clock => cursor.seen \subseteq stamped)

\* No content is known before it is written.
Versions ==
  \A f \in Files, v \in 1 .. MaxVersion :
    table[<<f, v>>] > 0 \/ <<f, v>> \in package.rows \/ <<f, v>> \in rows => v <= version[f]

\* How far a package is, and whose it is.
PackageTrue ==
  /\ pc \in {"listing", "reading"} => ~Pending
  /\ pc = "loaded" => package.rows = {} /\ ~package.drop
  /\ ~Pending => package = NoPackage
  /\ PersistentDir /\ Pending => package.cursor = local
  /\ refresh \/ package.drop => FullRefresh

Dated == TypeOK /\ Listed /\ FilesDated /\ CursorsDated /\ Versions /\ PackageTrue

\* A load puts nothing into the table but the rows of its package.
LEMMA LoadKnows ==
  ASSUME TypeOK, LoadJobs \/ LoadFails \/ CompleteLoad
  PROVE  /\ \A c \in Content : table'[c] > 0 => table[c] > 0 \/ c \in package.rows
         /\ package'.rows \subseteq package.rows
         /\ Cursors' \subseteq Cursors \cup {NoCursor}
         /\ package'.drop => package.drop
<1>1. CASE CompleteLoad
  BY <1>1, NoPackageType DEF CompleteLoad, Cursors
<1>2. CASE LoadJobs \/ LoadFails
  <2>1. PICK R \in SUBSET package.rows :
           \/ table' = table /\ package' = package
           \/ table' = Loading(R) /\ package' = Remaining(R)
           \/ /\ ~PersistentDir /\ LoadFails /\ package' = NoPackage
              /\ table' = table \/ table' = Loading(R)
    BY <1>2, LoadStep
  <2>2. R \in SUBSET Content /\ saved' = saved /\ local' = local
    BY <1>2, <2>1, LoadStep DEF TypeOK
  <2>3. \A c \in Content : table'[c] > 0 => table[c] > 0 \/ c \in package.rows
    BY <2>1, <2>2, LoadingTable
  <2>4. /\ package'.rows \subseteq package.rows /\ package'.cursor \in {package.cursor, NoCursor}
        /\ package'.drop => package.drop
    BY <2>1, RemainingPackage, NoPackageType
  <2> QED
    BY <2>2, <2>3, <2>4 DEF Cursors
<1> QED
  BY <1>1, <1>2

LEMMA FilesDatedStep ==
  ASSUME Dated, [Next]_vars
  PROVE  FilesDated'
<1> USE DEF Dated
<1>0. clock \in Int /\ \A f \in Files : mtime[f] \in Int /\ listing[f] \in Int
  BY DEF TypeOK, NotListed
<1>1. CASE Tick
  BY <1>0, <1>1 DEF Tick, FilesDated, readVars, Exists
<1>2. ASSUME NEW f \in Files, NEW t \in 0 .. clock, Store(f, t) PROVE FilesDated'
  BY <1>0, <1>2 DEF Store, FilesDated, readVars, Exists, TypeOK
<1>3. CASE StartRun
  BY <1>0, <1>3 DEF StartRun, FilesDated, fileVars, Exists, NotListed, TypeOK
<1>4. ASSUME NEW f \in Files, Stat(f) PROVE FilesDated'
  <2>1. Exists(f)
    BY <1>4 DEF Stat, Listed
  <2> QED
    BY <1>0, <1>4, <2>1 DEF Stat, FilesDated, fileVars, Exists, TypeOK
<1>5. CASE UNCHANGED <<fileVars, listing>>
  BY <1>5 DEF FilesDated, fileVars, Exists
<1>6. 0 .. clock - 1 \subseteq 0 .. clock /\ clock \in 0 .. clock
  BY DEF TypeOK
<1> QED
  BY <1>1, <1>2, <1>3, <1>4, <1>5, <1>6
     DEF Next, vars, readVars, fileVars, Filesystem, Write, Restore, Run, StartWithPending,
         Filter, Read, FinishExtract, ExtractFails, LoadJobs, CompleteLoad, LoadFails

\* The cursor an extraction starts from, and the one it leaves.
LEMMA StartDated ==
  ASSUME Dated
  PROVE  /\ Start.last <= clock /\ (Start.last = clock => Start.seen \subseteq stamped)
         /\ Advanced.last <= clock /\ (Advanced.last = clock => Advanced.seen \subseteq stamped)
<1> USE DEF Dated
<1>1. Start.last <= clock /\ (Start.last = clock => Start.seen \subseteq stamped)
  BY DEF Start, Restored, NoCursor, CursorsDated, Cursors, TypeOK
<1>2. CASE Selected = {}
  BY <1>1, <1>2 DEF Advanced
<1>3. CASE Selected # {}
  <2>1. PICK last \in 0 .. MaxTime :
           LET at == {g \in Selected : listing[g] = last}
           IN /\ at # {}
              /\ \A g \in Selected : listing[g] <= last
              /\ Advanced =
                   [last |-> last,
                    seen |-> IF last = Start.last THEN Start.seen \cup at ELSE at]
    BY <1>3, AdvancedCursor
  <2>2. PICK h \in Selected : listing[h] = last
    BY <2>1
  <2>3. last <= clock /\ (last = clock => {g \in Selected : listing[g] = last} \subseteq stamped)
    BY <2>2 DEF FilesDated, Selected
  <2> QED
    BY <1>1, <2>1, <2>3
<1> QED
  BY <1>1, <1>2, <1>3

LEMMA CursorsDatedStep ==
  ASSUME Dated, [Next]_vars
  PROVE  CursorsDated'
<1> USE DEF Dated
<1>1. CASE Tick
  <2>1. \A cursor \in Cursors : cursor.last \in Int
    BY DEF Cursors, TypeOK, Cursor
  <2> QED
    BY <1>1, <2>1 DEF Tick, CursorsDated, Cursors, destVars, dirVars, TypeOK
<1>2. ASSUME NEW f \in Files, NEW t, Store(f, t) PROVE CursorsDated'
  BY <1>2 DEF Store, CursorsDated, Cursors, destVars, dirVars
<1>3. CASE FinishExtract
  <2>1. Cursors' = {saved, Advanced} /\ clock' = clock /\ stamped' = stamped
    BY <1>3 DEF FinishExtract, Cursors, destVars, fileVars
  <2> QED
    BY <2>1, StartDated DEF CursorsDated, Cursors
<1>4. CASE LoadJobs \/ LoadFails \/ CompleteLoad
  <2>1. clock' = clock /\ stamped' = stamped
    BY <1>4 DEF LoadJobs, LoadFails, CompleteLoad, fileVars
  <2>2. NoCursor.last <= clock /\ NoCursor.seen = {}
    BY DEF NoCursor, TypeOK
  <2> QED
    BY <1>4, <2>1, <2>2, LoadKnows DEF CursorsDated
<1>5. CASE UNCHANGED <<fileVars, destVars, dirVars>>
  BY <1>5 DEF CursorsDated, Cursors, fileVars, destVars, dirVars
<1> QED
  BY <1>1, <1>2, <1>3, <1>4, <1>5
     DEF Next, vars, Filesystem, Write, Restore, Run, StartRun, StartWithPending, Stat,
         Filter, Read, ExtractFails

LEMMA VersionsStep ==
  ASSUME Dated, [Next]_vars
  PROVE  Versions'
<1> USE DEF Dated
<1>0. \A f \in Files : version[f] \in Int
  BY DEF TypeOK
<1> SUFFICES ASSUME NEW f \in Files, NEW v \in 1 .. MaxVersion,
                    table'[<<f, v>>] > 0 \/ <<f, v>> \in package'.rows \/ <<f, v>> \in rows'
             PROVE  v <= version'[f]
  BY DEF Versions
<1>1. ASSUME NEW g \in Files, NEW t, Store(g, t) PROVE v <= version'[f]
  BY <1>0, <1>1, BoundsAssumption DEF Store, Versions, destVars, dirVars, readVars, TypeOK
<1>2. ASSUME NEW g \in Files, Read(g) PROVE v <= version'[f]
  BY <1>0, <1>2 DEF Read, Versions, destVars, dirVars, fileVars, Current
<1>3. CASE StartRun
  BY <1>3 DEF StartRun, Versions, destVars, dirVars, fileVars
<1>4. CASE FinishExtract
  BY <1>4 DEF FinishExtract, Versions, destVars, readVars, fileVars
<1>5. CASE LoadJobs \/ LoadFails \/ CompleteLoad
  <2>1. version' = version /\ rows' = rows
    BY <1>5 DEF LoadJobs, LoadFails, CompleteLoad, fileVars, readVars
  <2>2. <<f, v>> \in Content
    BY DEF Content
  <2> QED
    BY <1>5, <2>1, <2>2, LoadKnows DEF Versions
<1>6. CASE UNCHANGED <<version, destVars, dirVars, rows>>
  BY <1>6 DEF Versions, destVars, dirVars
<1> QED
  BY <1>1, <1>2, <1>3, <1>4, <1>5, <1>6
     DEF Next, vars, readVars, fileVars, Filesystem, Tick, Write, Restore, Run,
         StartWithPending, Stat, Filter, ExtractFails

LEMMA PackageTrueStep ==
  ASSUME Dated, [Next]_vars
  PROVE  PackageTrue'
<1> USE DEF Dated
<1>0. SameOptions
  BY OptionsStay
<1>1. CASE StartRun
  <2>1. refresh' => FullRefresh
    BY <1>1 DEF StartRun
  <2>2. package' = package /\ local' = local /\ pc' = "listing" /\ ~Pending
    BY <1>1 DEF StartRun, dirVars
  <2> QED
    BY <1>0, <2>1, <2>2 DEF SameOptions, PackageTrue, Pending
<1>2. CASE FinishExtract
  BY <1>0, <1>2 DEF SameOptions, FinishExtract, readVars, PackageTrue, Pending
<1>3. CASE CompleteLoad
  BY <1>0, <1>3, NoPackageType DEF SameOptions, CompleteLoad, readVars, PackageTrue, Pending
<1>4. CASE LoadJobs \/ LoadFails
  <2>1. pc' = "idle" \/ (pc' = "loaded" /\ LoadJobs)
    BY <1>4 DEF LoadJobs, LoadFails
  <2>2. LoadJobs => package'.rows = {} /\ ~package'.drop
    BY RemainingPackage DEF LoadJobs
  <2>3. Pending /\ local' = local /\ refresh' = refresh
    BY <1>4, LoadStep DEF readVars
  <2>4. \/ package' = NoPackage
        \/ package'.pending = package.pending /\ package'.cursor = package.cursor
    BY <1>4, LoadStep, RemainingPackage
  <2>5. package'.drop => package.drop
    BY <1>4, LoadKnows
  <2> QED
    BY <1>0, <2>1, <2>2, <2>3, <2>4, <2>5, NoPackageType DEF SameOptions, PackageTrue, Pending
<1>5. CASE UNCHANGED <<dirVars, refresh>> /\ (pc' = pc \/ pc' \in {"idle", "loading"})
  BY <1>0, <1>5 DEF SameOptions, dirVars, PackageTrue, Pending
<1>6. CASE Filter
  BY <1>0, <1>6 DEF SameOptions, Filter, dirVars, PackageTrue, Pending
<1> QED
  BY <1>1, <1>2, <1>3, <1>4, <1>5, <1>6
     DEF Next, vars, readVars, Filesystem, Tick, Write, Restore, Store, Run,
         StartWithPending, Stat, Read, ExtractFails

LEMMA DatedCorrect == Spec => []Dated
<1>1. Init => Listed /\ FilesDated /\ CursorsDated /\ Versions /\ PackageTrue
  <2> SUFFICES ASSUME Init PROVE Listed /\ FilesDated /\ CursorsDated /\ Versions /\ PackageTrue
    OBVIOUS
  <2>1. Listed /\ FilesDated
    BY DEF Init, Listed, FilesDated, Exists, NotListed
  <2>2. CursorsDated
    BY NoPackageType DEF Init, CursorsDated, Cursors, NoCursor
  <2>3. Versions
    BY NoPackageType DEF Init, Versions, Content
  <2>4. PackageTrue
    BY NoPackageType DEF Init, PackageTrue, Pending
  <2> QED
    BY <2>1, <2>2, <2>3, <2>4
<1>2. TypeOK /\ TypeOK' /\ Listed /\ FilesDated /\ CursorsDated /\ Versions /\ PackageTrue
      /\ [Next]_vars
      => Listed' /\ FilesDated' /\ CursorsDated' /\ Versions' /\ PackageTrue'
  BY ListedStep, FilesDatedStep, CursorsDatedStep, VersionsStep, PackageTrueStep DEF Dated
<1> QED
  BY <1>1, <1>2, TypeCorrect, PTL DEF Spec, Dated

-----------------------------------------------------------------------------
(* What the next run will select.                                               *)

\* The cursor that the next run starts from, unless a failure comes first.
Reached == IF Pending THEN package.cursor ELSE Restored

\* f was written after the listing, with a time that the run's cursor will not pass.
Late(f) ==
  /\ \A g \in Files : listing[g] <= mtime[f]
  /\ listing[f] # mtime[f]
  /\ Selects(Start, f, mtime[f])

\* The run knows the present time of every file whose last write shows, and has the
\* content of those it selected.
Underway ==
  /\ pc = "listing" =>
       \A f \in Files : Exists(f) /\ f \notin hidden => f \in toStat \/ listing[f] = mtime[f]
  /\ pc = "reading" =>
       /\ toRead \subseteq Selected
       /\ \A f \in Files : Exists(f) /\ f \notin hidden =>
            \/ Late(f)
            \/ /\ listing[f] = mtime[f]
               /\ f \in Selected => f \in toRead \/ Current(f) \in rows

\* A run that refreshes a destination whose package may be lost is excepted.
RefreshIsKept == FullRefresh => PersistentDir

Covered ==
  RefreshIsKept =>
    \A f \in Files :
      Exists(f) /\ f \notin hidden =>
        /\ Loaded(Current(f)) \/ InPackage(Current(f)) \/ Selects(Reached, f, mtime[f])
        /\ ~PersistentDir => (Loaded(Current(f)) \/ Selects(saved, f, mtime[f]))

\* A write that shows is selected by every cursor there is.
LEMMA WriteIsSelected ==
  ASSUME Dated, NEW f \in Files, NEW t \in 0 .. clock, Store(f, t), f \notin hidden'
  PROVE  /\ t = clock /\ mtime'[f] = clock /\ f \notin stamped
         /\ pc = "listing" => f \in toStat
         /\ \A cursor \in Cursors \cup {Start} : Selects(cursor, f, clock)
<1> USE DEF Dated
<1>1. t = clock /\ mtime'[f] = clock /\ f \notin stamped /\ (pc = "listing" => f \in toStat)
  BY DEF Store, TypeOK
<1>2. ASSUME NEW cursor \in Cursors \cup {Start}
      PROVE  /\ cursor.last <= clock /\ (cursor.last = clock => cursor.seen \subseteq stamped)
             /\ cursor.last \in Int
  BY StartDated, StartType DEF CursorsDated, Cursors, TypeOK, Cursor
<1> QED
  BY <1>1, <1>2 DEF Selects, TypeOK

LEMMA UnderwayStep ==
  ASSUME Dated, Underway, [Next]_vars
  PROVE  Underway'
<1> USE DEF Dated
<1>0. SameOptions
  BY OptionsStay
<1>1. ASSUME UNCHANGED <<listing, refresh, destVars, dirVars>>
      PROVE  Start' = Start /\ Selected' = Selected
  BY <1>0, <1>1 DEF SameOptions, Start, Restored, Selected, destVars, dirVars
<1>2. ASSUME NEW f \in Files, NEW t \in 0 .. clock, Store(f, t) PROVE Underway'
  <2>1. /\ Start' = Start /\ Selected' = Selected /\ pc' = pc
        /\ UNCHANGED <<listing, toStat, toRead, rows>>
    BY <1>1, <1>2 DEF Store, readVars
  <2>2. \A g \in Files \ {f} : /\ mtime'[g] = mtime[g] /\ (Exists(g)' <=> Exists(g))
                               /\ Current(g)' = Current(g)
                               /\ (g \in hidden' <=> g \in hidden)
    BY <1>2 DEF Store, TypeOK, Exists, Current
  <2>3. ASSUME f \notin hidden', pc = "reading" PROVE Late(f)'
    <3>1. mtime'[f] = clock /\ f \notin stamped /\ Selects(Start, f, clock)
      BY <1>2, <2>3, WriteIsSelected
    <3>2. (\A g \in Files : listing[g] <= clock) /\ listing[f] # clock
      BY <3>1 DEF FilesDated
    <3> QED
      BY <2>1, <3>1, <3>2 DEF Late
  <2>4. ASSUME f \notin hidden', pc = "listing" PROVE f \in toStat
    BY <1>2, <2>4, WriteIsSelected
  <2>5. \A g \in Files \ {f} : Late(g) => Late(g)'
    BY <2>1, <2>2 DEF Late
  <2> QED
    BY <2>1, <2>2, <2>3, <2>4, <2>5 DEF Underway
<1>3. CASE StartRun
  BY <1>3 DEF StartRun, Underway, fileVars, Exists
<1>4. ASSUME NEW f \in Files, Stat(f) PROVE Underway'
  BY <1>4 DEF Stat, Underway, fileVars, Exists, TypeOK
<1>5. CASE Filter
  <2>1. Selected' = Selected /\ toRead' = Selected /\ toStat = {} /\ pc' = "reading"
        /\ pc = "listing" /\ UNCHANGED <<fileVars, listing>>
    BY <1>1, <1>5 DEF Filter
  <2> QED
    BY <2>1 DEF Underway, fileVars, Exists
<1>6. ASSUME NEW f \in Files, Read(f) PROVE Underway'
  <2>1. /\ Start' = Start /\ Selected' = Selected /\ pc' = pc /\ pc = "reading"
        /\ UNCHANGED <<listing, fileVars>>
        /\ toRead' = toRead \ {f} /\ rows' = rows \cup {Current(f)}
    BY <1>1, <1>6 DEF Read
  <2>2. \A g \in Files : (Late(g)' <=> Late(g)) /\ Current(g)' = Current(g)
                         /\ (Exists(g)' <=> Exists(g))
    BY <2>1 DEF Late, fileVars, Current, Exists
  <2> QED
    BY <2>1, <2>2 DEF Underway, fileVars
<1>7. CASE UNCHANGED <<pc, readVars, version, mtime, hidden, destVars, dirVars>>
  <2>1. Start' = Start /\ Selected' = Selected
    BY <1>1, <1>7 DEF readVars
  <2> QED
    BY <1>7, <2>1 DEF Underway, Late, readVars, Exists, Current
<1>8. CASE pc' \notin {"listing", "reading"}
  BY <1>8 DEF Underway
<1>9. 0 .. clock - 1 \subseteq 0 .. clock /\ clock \in 0 .. clock
  BY DEF TypeOK
<1> QED
  BY <1>2, <1>3, <1>4, <1>5, <1>6, <1>7, <1>8, <1>9
     DEF Next, vars, fileVars, destVars, dirVars, readVars, Filesystem, Tick, Write, Restore, Run,
         StartWithPending, FinishExtract, ExtractFails, LoadJobs, CompleteLoad, LoadFails

\* The whole of an extraction: what is left out of its package is loaded, or late.
LEMMA ExtractCovers ==
  ASSUME Dated, Underway, FinishExtract, NEW f \in Files, Exists(f), f \notin hidden,
         Loaded(Current(f)) \/ Selects(Restored, f, mtime[f])
  PROVE  Current(f) \in rows \/ Selects(Advanced, f, mtime[f]) \/ (~refresh /\ Loaded(Current(f)))
<1> USE DEF Dated
<1>1. /\ \/ Late(f)
         \/ listing[f] = mtime[f] /\ (f \in Selected => Current(f) \in rows)
      /\ mtime[f] \in 0 .. MaxTime
  BY DEF FinishExtract, Underway, TypeOK
<1>2. CASE Late(f)
  BY <1>1, <1>2, AdvancedSelects DEF Late
<1>3. CASE listing[f] = mtime[f] /\ f \notin Selected
  <2>1. ~Selects(Start, f, mtime[f])
    BY <1>1, <1>3 DEF Selected, NotListed
  <2>2. ~refresh
    BY <1>1, <2>1 DEF Start, NoCursor, Selects
  <2> QED
    BY <2>1, <2>2 DEF Start
<1> QED
  BY <1>1, <1>2, <1>3

LEMMA ReachedStays ==
  ASSUME Dated, [Next]_vars, ~FinishExtract, LoadFails => PersistentDir
  PROVE  Reached' = Reached
<1> USE DEF Dated
<1>0. SameOptions
  BY OptionsStay
<1>1. CASE CompleteLoad
  <2>1. Pending /\ ~Pending'
    BY <1>1, NoPackageType DEF CompleteLoad, TypeOK, Pending
  <2> QED
    BY <1>0, <1>1, <2>1 DEF SameOptions, CompleteLoad, Reached, Restored, PackageTrue
<1>2. CASE LoadJobs \/ LoadFails
  <2>1. PersistentDir \/ LoadJobs
    BY <1>2
  <2>2. package'.cursor = package.cursor /\ Pending /\ package'.pending = package.pending
    <3>1. CASE LoadJobs
      BY <3>1, LoadStep, RemainingPackage DEF LoadJobs
    <3>2. CASE PersistentDir /\ LoadFails
      BY <3>2, LoadStep, RemainingPackage
    <3> QED
      BY <1>2, <2>1, <3>1, <3>2
  <2> QED
    BY <2>2 DEF Reached, Pending
<1>3. CASE UNCHANGED <<destVars, dirVars>>
  BY <1>0, <1>3 DEF SameOptions, destVars, dirVars, Reached, Restored, Pending
<1> QED
  BY <1>1, <1>2, <1>3
     DEF Next, vars, Filesystem, Tick, Write, Restore, Store, Run, StartRun, StartWithPending, Stat,
         Filter, Read, ExtractFails

\* A load keeps what is loaded, and loads its package or keeps it.
LEMMA LoadCovers ==
  ASSUME Dated, RefreshIsKept, LoadJobs \/ LoadFails, NEW c \in Content
  PROVE  /\ Loaded(c) => Loaded(c)'
         /\ InPackage(c) /\ (LoadFails => PersistentDir) => Loaded(c)' \/ InPackage(c)'
<1> USE DEF Dated
<1>1. PICK R \in SUBSET package.rows :
         \/ table' = table /\ package' = package
         \/ table' = Loading(R) /\ package' = Remaining(R)
         \/ /\ ~PersistentDir /\ LoadFails /\ package' = NoPackage
            /\ table' = table \/ table' = Loading(R)
  BY LoadStep
<1>2. R \in SUBSET Content /\ Pending /\ table[c] \in 0 .. 2
  BY <1>1, LoadStep DEF TypeOK
<1>3. ~package.drop \/ PersistentDir
  BY DEF RefreshIsKept, PackageTrue
<1>4. CASE table' = table /\ package' = package
  BY <1>4 DEF Loaded, InPackage, Pending
<1>5. CASE table' = Loading(R) /\ package' = Remaining(R)
  <2>1. ~package'.drop /\ package'.rows = package.rows \ R /\ package'.pending = package.pending
    BY <1>5, RemainingPackage
  <2>2. c \in R => table'[c] > 0
    BY <1>2, <1>5, LoadingTable
  <2>3. c \notin R /\ ~package.drop => table'[c] = table[c]
    BY <1>2, <1>5, LoadingTable
  <2> QED
    BY <1>2, <2>1, <2>2, <2>3 DEF Loaded, InPackage, Pending
<1>6. CASE /\ ~PersistentDir /\ LoadFails /\ package' = NoPackage
           /\ table' = table \/ table' = Loading(R)
  <2>1. ~package.drop /\ ~package'.pending
    BY <1>3, <1>6, NoPackageType
  <2>2. table[c] > 0 => table'[c] > 0
    BY <1>2, <1>6, <2>1, LoadingTable
  <2> QED
    BY <1>6, <2>1, <2>2 DEF Loaded, Pending
<1> QED
  BY <1>1, <1>4, <1>5, <1>6

LEMMA CoveredStep ==
  ASSUME Dated, Underway, Covered, [Next]_vars
  PROVE  Covered'
<1> USE DEF Dated
<1>0. SameOptions
  BY OptionsStay
<1> SUFFICES ASSUME RefreshIsKept, NEW f \in Files, Exists(f)', f \notin hidden'
             PROVE  /\ Loaded(Current(f))' \/ InPackage(Current(f))' \/ Selects(Reached', f, mtime'[f])
                    /\ ~PersistentDir => (Loaded(Current(f))' \/ Selects(saved', f, mtime'[f]))
  BY <1>0 DEF Covered, RefreshIsKept, SameOptions, Selects
<1>1. ASSUME NEW t \in 0 .. clock, Store(f, t)
      PROVE  Selects(Reached', f, mtime'[f]) /\ Selects(saved', f, mtime'[f])
  <2>1. Reached' = Reached /\ saved' = saved
    BY <1>0, <1>1 DEF Store, destVars, dirVars, Reached, Restored, Pending, SameOptions
  <2>2. Reached \in Cursors /\ saved \in Cursors
    BY DEF Reached, Restored, Cursors
  <2> QED
    BY <1>1, <2>1, <2>2, WriteIsSelected
<1>2. ASSUME Current(f)' = Current(f), mtime'[f] = mtime[f], Exists(f), f \notin hidden
      PROVE  /\ Loaded(Current(f))' \/ InPackage(Current(f))' \/ Selects(Reached', f, mtime'[f])
             /\ ~PersistentDir => (Loaded(Current(f))' \/ Selects(saved', f, mtime'[f]))
  <2>1. /\ Loaded(Current(f)) \/ InPackage(Current(f)) \/ Selects(Reached, f, mtime[f])
        /\ ~PersistentDir => (Loaded(Current(f)) \/ Selects(saved, f, mtime[f]))
        /\ Current(f) \in Content
    BY <1>2, CurrentType DEF Covered
  <2>2. CASE LoadJobs \/ LoadFails
    <3>1. /\ Loaded(Current(f)) => Loaded(Current(f))'
          /\ InPackage(Current(f)) /\ (LoadFails => PersistentDir)
             => Loaded(Current(f))' \/ InPackage(Current(f))'
      BY <1>2, <2>1, <2>2, LoadCovers DEF Loaded, InPackage
    <3>2. saved' = saved
      BY <2>2, LoadStep
    <3>3. CASE LoadFails /\ ~PersistentDir
      <4>1. package' = NoPackage
        BY <3>3 DEF LoadFails
      <4>2. Reached' = saved
        BY <1>0, <3>2, <3>3, <4>1, NoPackageType DEF Reached, Restored, Pending, SameOptions
      <4> QED
        BY <1>2, <2>1, <3>1, <3>2, <3>3, <4>2
    <3>4. CASE LoadFails => PersistentDir
      <4>1. pc # "reading"
        BY <2>2 DEF LoadJobs, LoadFails
      <4>2. Reached' = Reached
        BY <3>4, <4>1, ReachedStays DEF FinishExtract
      <4> QED
        BY <1>2, <2>1, <3>1, <3>2, <3>4, <4>2
    <3> QED
      BY <3>3, <3>4
  <2>3. CASE CompleteLoad
    <3>1. /\ package.rows = {} /\ ~package.drop /\ Pending
          /\ table' = table /\ saved' = package.cursor /\ ~package'.pending
      BY <2>3, NoPackageType DEF CompleteLoad, PackageTrue, TypeOK
    <3>2. Reached' = package.cursor
      BY <1>0, <2>3, <3>1 DEF CompleteLoad, Reached, Restored, Pending, SameOptions, PackageTrue
    <3> QED
      BY <1>2, <2>1, <3>1, <3>2 DEF Loaded, InPackage, Pending, Reached
  <2>4. CASE FinishExtract
    <3>1. ~Pending /\ Reached = Restored
      BY <2>4 DEF FinishExtract, PackageTrue, Reached
    <3>2. /\ Pending' /\ package'.rows = rows /\ package'.drop = refresh
          /\ Reached' = Advanced /\ saved' = saved /\ table' = table
      BY <2>4 DEF FinishExtract, Reached, Pending, destVars
    <3>3. Loaded(Current(f)) \/ Selects(Restored, f, mtime[f])
      BY <2>1, <3>1 DEF InPackage
    <3>4. Current(f) \in rows \/ Selects(Advanced, f, mtime[f]) \/ (~refresh /\ Loaded(Current(f)))
      BY <1>2, <2>4, <3>3, ExtractCovers
    <3>5. ~refresh \/ PersistentDir
      BY DEF PackageTrue, RefreshIsKept
    <3> QED
      BY <1>2, <2>1, <3>2, <3>4, <3>5 DEF Loaded, InPackage
  <2>5. CASE UNCHANGED <<destVars, dirVars>>
    BY <1>0, <1>2, <2>1, <2>5
       DEF SameOptions, destVars, dirVars, Loaded, InPackage, Pending, Reached, Restored
  <2> QED
    BY <2>2, <2>3, <2>4, <2>5
       DEF Next, vars, Filesystem, Tick, Write, Restore, Store, Run, StartRun, StartWithPending,
           Stat, Filter, Read, ExtractFails
<1>3. CASE \E g \in Files \ {f}, t \in 0 .. clock : Store(g, t)
  <2>1. Current(f)' = Current(f) /\ mtime'[f] = mtime[f] /\ Exists(f) /\ f \notin hidden
    BY <1>3 DEF Store, Current, Exists, TypeOK
  <2> QED
    BY <1>2, <2>1
<1>4. CASE UNCHANGED <<version, mtime, hidden>>
  BY <1>2, <1>4 DEF Current, Exists
<1>5. 0 .. clock - 1 \subseteq 0 .. clock /\ clock \in 0 .. clock
  BY DEF TypeOK
<1> QED
  BY <1>1, <1>3, <1>4, <1>5
     DEF Next, vars, fileVars, Filesystem, Tick, Write, Restore, Run, StartRun, StartWithPending,
         Stat, Filter, Read, FinishExtract, ExtractFails, LoadJobs, CompleteLoad, LoadFails

(* No content is skipped: what a file holds is in the table, in a package still to  *)
(* load, or selected by the next run, whenever it was written and whatever failed,  *)
(* unless the write was hidden.                                                     *)
THEOREM NothingSkippedCorrect == Spec => []NothingSkipped
<1>1. Init => Underway /\ Covered
  BY DEF Init, Underway, Covered, Exists
<1>2. Dated /\ Underway /\ Covered /\ [Next]_vars => Underway' /\ Covered'
  BY UnderwayStep, CoveredStep
<1>3. Dated /\ Covered => NothingSkipped
  <2> SUFFICES ASSUME Dated, Covered, RefreshIsKept, NEW f \in Files, Exists(f), f \notin hidden
               PROVE  Loaded(Current(f)) \/ InPackage(Current(f)) \/ Selects(Restored, f, mtime[f])
    BY DEF NothingSkipped, RefreshIsKept
  <2>1. /\ Loaded(Current(f)) \/ InPackage(Current(f)) \/ Selects(Reached, f, mtime[f])
        /\ ~PersistentDir => (Loaded(Current(f)) \/ Selects(saved, f, mtime[f]))
    BY DEF Covered
  <2>2. CASE PersistentDir \/ ~Pending
    <3>1. Reached = Restored
      BY <2>2 DEF Reached, Restored, Dated, PackageTrue
    <3> QED
      BY <2>1, <3>1
  <2>3. CASE ~PersistentDir
    BY <2>1, <2>3 DEF Restored
  <2> QED
    BY <2>2, <2>3
<1> QED
  BY <1>1, <1>2, <1>3, DatedCorrect, PTL DEF Spec

-----------------------------------------------------------------------------
(* What may be appended again.                                                  *)

\* No package has been lost.
NoneLost == PersistentDir \/ failures = 0

\* What the run has listed of a file is its time, or the file was written since.
ListedNow ==
  pc \in {"listing", "reading"} =>
    \A f \in Files : listing[f] # NotListed => listing[f] = mtime[f] \/ Current(f) \in raced

\* What was read was selected.
RowsSelected ==
  /\ pc = "listing" => rows = {}
  /\ pc = "reading" => toRead \subseteq Selected /\ \A c \in rows : c[1] \in Selected

\* A content that is loaded, or in a package, is not selected again.
NoRepeat ==
  NoneLost =>
    \A f \in Files :
      /\ Exists(f) /\ Current(f) \notin raced
      /\ Loaded(Current(f)) \/ InPackage(Current(f))
      => ~Selects(Reached, f, mtime[f])

\* What is still to be appended is not in the table, or the table is dropped first.
Fresh ==
  NoneLost =>
    /\ ~package.drop => \A c \in package.rows \ raced : table[c] = 0
    /\ pc = "reading" /\ ~refresh => \A c \in rows \ raced : table[c] = 0

Once == ListedNow /\ RowsSelected /\ NoRepeat /\ Fresh /\ LoadedOnce

\* A package that was lost stays lost.
LEMMA NoneLostBefore ==
  ASSUME TypeOK, [Next]_vars, NoneLost'
  PROVE  NoneLost /\ (LoadFails \/ ExtractFails => PersistentDir)
BY FailuresGrow, OptionsStay DEF NoneLost, SameOptions

LEMMA ListedNowStep ==
  ASSUME Dated, ListedNow, [Next]_vars
  PROVE  ListedNow'
<1> USE DEF Dated
<1>1. ASSUME NEW f \in Files, NEW t, Store(f, t) PROVE ListedNow'
  BY <1>1 DEF Store, ListedNow, readVars, Current, TypeOK
<1>2. CASE StartRun
  BY <1>2 DEF StartRun, ListedNow
<1>3. ASSUME NEW f \in Files, Stat(f) PROVE ListedNow'
  BY <1>3 DEF Stat, ListedNow, fileVars, Current, TypeOK
<1>4. CASE UNCHANGED <<listing, mtime, version, raced>> /\ pc' \in {pc, "reading", "idle", "loading", "loaded"}
           /\ (pc' = "reading" => pc \in {"listing", "reading"})
  BY <1>4 DEF ListedNow, Current
<1> QED
  BY <1>1, <1>2, <1>3, <1>4
     DEF Next, vars, fileVars, readVars, Filesystem, Tick, Write, Restore, Run, StartWithPending,
         Filter, Read, FinishExtract, ExtractFails, LoadJobs, CompleteLoad, LoadFails

LEMMA RowsSelectedStep ==
  ASSUME Dated, RowsSelected, [Next]_vars
  PROVE  RowsSelected'
<1> USE DEF Dated
<1>0. SameOptions
  BY OptionsStay
<1>1. ASSUME UNCHANGED <<listing, refresh, destVars, dirVars>>
      PROVE  Selected' = Selected
  BY <1>0, <1>1 DEF SameOptions, Start, Restored, Selected, destVars, dirVars
<1>2. CASE StartRun
  BY <1>2 DEF StartRun, RowsSelected
<1>3. CASE Filter
  BY <1>1, <1>3 DEF Filter, RowsSelected
<1>4. ASSUME NEW f \in Files, Read(f) PROVE RowsSelected'
  BY <1>1, <1>4 DEF Read, RowsSelected, Current
<1>5. CASE UNCHANGED <<listing, refresh, toRead, rows, destVars, dirVars, pc>>
  BY <1>1, <1>5 DEF RowsSelected
<1>6. CASE pc' \notin {"listing", "reading"}
  BY <1>6 DEF RowsSelected
<1>7. ASSUME NEW f \in Files, Stat(f) PROVE RowsSelected'
  BY <1>7 DEF Stat, RowsSelected
<1> QED
  BY <1>2, <1>3, <1>4, <1>5, <1>6, <1>7
     DEF Next, vars, readVars, Filesystem, Tick, Write, Restore, Store, Run, StartWithPending,
         FinishExtract, ExtractFails, LoadJobs, CompleteLoad, LoadFails

LEMMA NoRepeatStep ==
  ASSUME Dated, Once, [Next]_vars
  PROVE  NoRepeat'
<1> USE DEF Dated, Once
<1> SUFFICES ASSUME NoneLost', NEW f \in Files, Exists(f)', (Current(f) \notin raced)',
                    Loaded(Current(f))' \/ InPackage(Current(f))'
             PROVE  ~Selects(Reached', f, mtime'[f])
  BY DEF NoRepeat, Selects
<1>0. NoneLost /\ (LoadFails => PersistentDir)
  BY NoneLostBefore
<1>1. ASSUME NEW t, Store(f, t) PROVE FALSE
  <2>1. /\ Current(f)' = <<f, version[f] + 1>> /\ version[f] + 1 \in 1 .. MaxVersion
        /\ table' = table /\ package' = package
    BY <1>1, BoundsAssumption DEF Store, Current, TypeOK, destVars, dirVars
  <2>2. version[f] + 1 <= version[f]
    BY <2>1 DEF Versions, Loaded, InPackage
  <2> QED
    BY <2>2 DEF TypeOK
<1>2. CASE ~FinishExtract /\ ~ \E t \in 0 .. clock : Store(f, t)
  <2>1. Reached' = Reached
    BY <1>0, <1>2, ReachedStays
  <2>2. Current(f)' = Current(f) /\ Exists(f) /\ mtime'[f] = mtime[f] /\ Current(f) \notin raced
    <3>1. CASE \E g \in Files \ {f}, t \in 0 .. clock : Store(g, t)
      BY <3>1 DEF Store, Current, Exists, TypeOK
    <3>2. CASE UNCHANGED <<version, mtime, raced>>
      BY <3>2 DEF Current, Exists
    <3>3. 0 .. clock - 1 \subseteq 0 .. clock /\ clock \in 0 .. clock
      BY DEF TypeOK
    <3> QED
      BY <1>2, <3>1, <3>2, <3>3
         DEF Next, vars, fileVars, Filesystem, Tick, Write, Restore, Run, StartRun,
             StartWithPending, Stat, Filter, Read, ExtractFails, LoadJobs, CompleteLoad, LoadFails
  <2>3. Loaded(Current(f)) \/ InPackage(Current(f))
    <3>0. Current(f) \in Content
      BY <2>2, CurrentType
    <3>1. CASE CompleteLoad
      BY <2>2, <3>1, NoPackageType
         DEF CompleteLoad, Loaded, InPackage, Pending, PackageTrue, TypeOK
    <3>2. CASE LoadJobs \/ LoadFails
      <4>1. PICK R \in SUBSET package.rows :
              \/ table' = table /\ package' = package
              \/ table' = Loading(R) /\ package' = Remaining(R)
              \/ /\ ~PersistentDir /\ LoadFails /\ package' = NoPackage
                 /\ table' = table \/ table' = Loading(R)
        BY <3>2, LoadStep
      <4>2. R \in SUBSET Content /\ Pending
        BY <3>2, <4>1, LoadStep DEF TypeOK
      <4>3. CASE table' = table /\ package' = package
        BY <2>2, <4>3 DEF Loaded, InPackage, Pending
      <4>4. CASE table' = Loading(R) /\ package' = Remaining(R)
        <5>1. ~package'.drop /\ package'.rows \subseteq package.rows
          BY <4>4, RemainingPackage
        <5>2. table'[Current(f)] > 0 =>
                Current(f) \in R \/ (~package.drop /\ table[Current(f)] > 0)
          BY <3>0, <4>2, <4>4, LoadingTable
        <5> QED
          BY <2>2, <4>1, <4>2, <5>1, <5>2 DEF Loaded, InPackage, Pending
      <4> QED
        BY <1>0, <4>1, <4>3, <4>4
    <3>3. CASE UNCHANGED <<destVars, dirVars>>
      BY <2>2, <3>3 DEF destVars, dirVars, Loaded, InPackage, Pending
    <3> QED
      BY <1>2, <3>1, <3>2, <3>3
         DEF Next, vars, Filesystem, Tick, Write, Restore, Store, Run, StartRun, StartWithPending,
             Stat, Filter, Read, ExtractFails
  <2> QED
    BY <1>0, <2>1, <2>2, <2>3 DEF NoRepeat
<1>3. CASE FinishExtract
  <2>1. /\ Pending' /\ package'.rows = rows /\ package'.drop = refresh /\ Reached' = Advanced
        /\ UNCHANGED <<table, version, mtime, raced>> /\ pc = "reading" /\ ~Pending
    BY <1>3 DEF FinishExtract, Reached, Pending, destVars, fileVars, PackageTrue
  <2>2. Current(f)' = Current(f) /\ Exists(f) /\ Current(f) \notin raced /\ mtime[f] \in 0 .. MaxTime
    BY <2>1 DEF Current, Exists, TypeOK
  <2>3. CASE Current(f) \in rows
    <3>1. f \in Selected
      BY <2>1, <2>3 DEF RowsSelected, Current
    <3>2. listing[f] = mtime[f]
      BY <2>1, <2>2, <3>1 DEF ListedNow, Selected
    <3> QED
      BY <2>1, <2>2, <3>1, <3>2, AdvancedSelects
  <2>4. CASE ~refresh /\ table[Current(f)] > 0
    <3>1. ~Selects(Restored, f, mtime[f])
      BY <1>0, <2>1, <2>2, <2>4 DEF NoRepeat, Loaded, Reached
    <3> QED
      BY <2>1, <2>2, <2>4, <3>1, AdvancedSelects DEF Start
  <2> QED
    BY <2>1, <2>2, <2>3, <2>4 DEF Loaded, InPackage
<1> QED
  BY <1>1, <1>2, <1>3

LEMMA FreshStep ==
  ASSUME Dated, Once, [Next]_vars
  PROVE  Fresh'
<1> USE DEF Dated, Once
<1> SUFFICES ASSUME NoneLost'
             PROVE  /\ ~package'.drop => \A c \in package'.rows \ raced' : table'[c] = 0
                    /\ pc' = "reading" /\ ~refresh' => \A c \in rows' \ raced' : table'[c] = 0
  BY DEF Fresh
<1>0. NoneLost /\ (LoadFails => PersistentDir)
  BY NoneLostBefore
<1>1. ASSUME NEW f \in Files, NEW t, Store(f, t)
      PROVE  /\ ~package'.drop => \A c \in package'.rows \ raced' : table'[c] = 0
             /\ pc' = "reading" /\ ~refresh' => \A c \in rows' \ raced' : table'[c] = 0
  <2>1. raced \subseteq raced' /\ UNCHANGED <<package, table, pc, refresh, rows>>
    BY <1>1 DEF Store, destVars, dirVars, readVars
  <2> QED
    BY <1>0, <2>1 DEF Fresh
<1>2. ASSUME NEW f \in Files, Read(f)
      PROVE  /\ ~package'.drop => \A c \in package'.rows \ raced' : table'[c] = 0
             /\ pc' = "reading" /\ ~refresh' => \A c \in rows' \ raced' : table'[c] = 0
  <2>1. /\ pc = "reading" /\ f \in toRead /\ rows' = rows \cup {Current(f)}
        /\ UNCHANGED <<package, table, pc, refresh, raced>>
    BY <1>2 DEF Read, fileVars, destVars, dirVars
  <2>2. ASSUME Current(f) \notin raced, ~refresh PROVE table[Current(f)] = 0
    <3>1. f \in Selected /\ Exists(f) /\ Current(f) \in Content
      BY <2>1, CurrentType DEF RowsSelected, Listed
    <3>2. listing[f] = mtime[f] /\ Selects(Restored, f, mtime[f])
      BY <2>1, <2>2, <3>1 DEF ListedNow, Selected, Start
    <3>3. ~Pending /\ Reached = Restored
      BY <2>1 DEF PackageTrue, Reached
    <3>4. ~Loaded(Current(f))
      BY <1>0, <2>2, <3>1, <3>2, <3>3 DEF NoRepeat
    <3> QED
      BY <3>1, <3>3, <3>4 DEF Loaded, TypeOK
  <2> QED
    BY <1>0, <2>1, <2>2 DEF Fresh
<1>3. CASE FinishExtract
  <2>1. /\ package'.rows = rows /\ package'.drop = refresh /\ pc' = "loading" /\ pc = "reading"
        /\ UNCHANGED <<table, raced>>
    BY <1>3 DEF FinishExtract, destVars, fileVars
  <2> QED
    BY <1>0, <2>1 DEF Fresh
<1>4. CASE LoadJobs \/ LoadFails
  <2>1. PICK R \in SUBSET package.rows :
          \/ table' = table /\ package' = package
          \/ table' = Loading(R) /\ package' = Remaining(R)
          \/ /\ ~PersistentDir /\ LoadFails /\ package' = NoPackage
             /\ table' = table \/ table' = Loading(R)
    BY <1>4, LoadStep
  <2>2. R \in SUBSET Content /\ package.rows \in SUBSET Content /\ raced' = raced
        /\ pc' # "reading"
    BY <1>4, <2>1, LoadStep DEF TypeOK, fileVars, LoadJobs, LoadFails
  <2>3. CASE table' = table /\ package' = package
    BY <1>0, <2>2, <2>3 DEF Fresh
  <2>4. CASE table' = Loading(R) /\ package' = Remaining(R)
    <3>1. package'.rows = package.rows \ R
      BY <2>4, RemainingPackage
    <3>2. \A c \in package.rows \ R : table'[c] = IF package.drop THEN 0 ELSE table[c]
      BY <2>2, <2>4, LoadingTable
    <3> QED
      BY <1>0, <2>2, <3>1, <3>2 DEF Fresh
  <2> QED
    BY <1>0, <2>1, <2>3, <2>4
<1>5. CASE CompleteLoad
  BY <1>5, NoPackageType DEF CompleteLoad
<1>6. CASE StartRun \/ Filter
  <2>1. UNCHANGED <<package, table, raced>> /\ rows' = {}
    BY <1>6 DEF StartRun, Filter, dirVars, destVars, fileVars, RowsSelected
  <2> QED
    BY <1>0, <2>1 DEF Fresh
<1>7. CASE UNCHANGED <<package, table, raced, rows, refresh>> /\ (pc' = "reading" => pc = "reading")
  BY <1>0, <1>7 DEF Fresh
<1> QED
  BY <1>1, <1>2, <1>3, <1>4, <1>5, <1>6, <1>7
     DEF Next, vars, fileVars, destVars, dirVars, readVars, Filesystem, Tick, Write, Restore, Run,
         StartWithPending, Stat, ExtractFails

LEMMA LoadedOnceStep ==
  ASSUME Dated, Once, [Next]_vars
  PROVE  LoadedOnce'
<1> USE DEF Dated, Once
<1> SUFFICES ASSUME NoneLost', NEW c \in Content \ raced' PROVE table'[c] <= 1
  BY DEF LoadedOnce, NoneLost
<1>0. NoneLost
  BY NoneLostBefore
<1>1. raced \subseteq raced' /\ c \notin raced
  BY DEF Next, vars, fileVars, Filesystem, Tick, Write, Restore, Store, Run, StartRun,
         StartWithPending, Stat, Filter, Read, FinishExtract, ExtractFails, LoadJobs, CompleteLoad,
         LoadFails
<1>2. table[c] <= 1 /\ table[c] \in 0 .. 2
  BY <1>0, <1>1 DEF LoadedOnce, NoneLost, TypeOK
<1>3. CASE LoadJobs \/ LoadFails
  <2>1. PICK R \in SUBSET package.rows : table' = table \/ table' = Loading(R)
    BY <1>3, LoadStep
  <2>2. R \in SUBSET Content
    BY <2>1 DEF TypeOK
  <2>3. c \in R => package.drop \/ table[c] = 0
    BY <1>0, <1>1, <2>1 DEF Fresh
  <2> QED
    BY <1>2, <2>1, <2>2, <2>3, LoadingTable
<1>4. CASE table' = table
  BY <1>2, <1>4
<1> QED
  BY <1>3, <1>4
     DEF Next, vars, destVars, Filesystem, Tick, Write, Restore, Store, Run, StartRun,
         StartWithPending, Stat, Filter, Read, FinishExtract, ExtractFails, CompleteLoad

(* No content is appended twice where no package is lost, unless it was written      *)
(* between the listing and the reading of a run; a refresh drops before it appends.  *)
THEOREM LoadedOnceCorrect == Spec => []LoadedOnce
<1>1. Init => Once
  BY NoPackageType
     DEF Init, Once, ListedNow, RowsSelected, NoRepeat, Fresh, LoadedOnce, Exists
<1>2. Dated /\ Once /\ [Next]_vars => Once'
  BY ListedNowStep, RowsSelectedStep, NoRepeatStep, FreshStep, LoadedOnceStep DEF Once
<1>3. Once => LoadedOnce
  BY DEF Once
<1> QED
  BY <1>1, <1>2, <1>3, DatedCorrect, PTL DEF Spec
=============================================================================

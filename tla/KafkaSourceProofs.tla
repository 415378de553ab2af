------------------------- MODULE KafkaSourceProofs -------------------------
(***************************************************************************)
(* No message is skipped, for every number of partitions and messages,      *)
(* every batch size, any number of failures, and every option but the       *)
(* "replace" strategy, which starts each run from an empty state.           *)
(***************************************************************************)
EXTENDS KafkaSource, TLAPS

\* What rows the table, a package or an extraction already accounts for.
Settled(m) == Loaded(m) \/ Expired(m)

SavedSettled ==
  \A m \in Message : Wanted(m) /\ OffsetOf(m) <= saved[PartOf(m)] => Settled(m)

\* The state in the working directory runs ahead of the load, by the package.
LocalSettled ==
  PersistentDir =>
    \A m \in Message : Wanted(m) /\ OffsetOf(m) <= local[PartOf(m)] => Settled(m) \/ InPackage(m)

PackageSettled ==
  Pending =>
    \A m \in Message :
      Wanted(m) /\ OffsetOf(m) <= package.offsets[PartOf(m)] => Settled(m) \/ InPackage(m)

\* An extraction has every wanted message behind its state and its position.
ExtractionSettled ==
  pc = "consuming" =>
    /\ ~Pending
    /\ \A m \in Message :
         /\ Wanted(m)
         /\ OffsetOf(m) <= offsets[PartOf(m)] \/ OffsetOf(m) < position[PartOf(m)]
         => Settled(m) \/ m \in rows

\* What completed jobs leave in the package is in the table already.
JobsSettled == pc = "loaded" => \A m \in package.rows : Loaded(m)

Settlement ==
  SavedSettled /\ LocalSettled /\ PackageSettled /\ ExtractionSettled /\ JobsSettled

\* The command line does not change.
SameOptions ==
  /\ options' = options /\ Strategy' = Strategy
  /\ StartFrom' = StartFrom /\ PersistentDir' = PersistentDir

LEMMA OptionsStay == ASSUME [Next]_vars PROVE SameOptions
BY DEF Next, vars, SameOptions, Strategy, StartFrom, PersistentDir

\* What the command line may say.
LEMMA OptionsType ==
  ASSUME TypeOK
  PROVE  /\ Strategy \in {"append", "merge", "replace"}
         /\ StartFrom \in BOOLEAN /\ PersistentDir \in BOOLEAN
         /\ options \in Options
BY OptionsAssumption DEF TypeOK, Strategy, StartFrom, PersistentDir

\* A message is a partition and an offset.
LEMMA MessageType ==
  ASSUME NEW m \in Message
  PROVE  /\ PartOf(m) \in Partitions /\ OffsetOf(m) \in 0 .. MaxMessages - 1
         /\ OffsetOf(m) \in Nat
BY BoundsAssumption DEF Message, PartOf, OffsetOf

\* What the jobs of a package do to the table, unless they replace it.
LEMMA WrittenGrows ==
  ASSUME TypeOK, NEW R \in SUBSET Message, Strategy # "replace"
  PROVE  \A m \in Message : Loaded(m) \/ m \in R => Written(R)[m] > 0
BY OptionsType DEF TypeOK, Written, Several, Loaded

\* The counts of the table stay within none, one and several.
LEMMA WrittenType ==
  ASSUME TypeOK, NEW R \in SUBSET Message
  PROVE  Written(R) \in [Message -> 0 .. 2]
<1>0. table \in [Message -> 0 .. 2]
  BY DEF TypeOK
<1>1. CASE Strategy = "append"
  BY <1>0, <1>1 DEF Written, Several
<1>2. CASE Strategy = "merge"
  BY <1>0, <1>2 DEF Written
<1>3. CASE Strategy = "replace"
  BY <1>3 DEF Written
<1> QED
  BY <1>1, <1>2, <1>3, OptionsType

\* A load leaves rows of the package, or fewer, to a later one.
LEMMA RemainingType ==
  ASSUME TypeOK, NEW R \in SUBSET Message
  PROVE  /\ Remaining(R) \in [pending : BOOLEAN, rows : SUBSET Message,
                              offsets : [Partitions -> Offset]]
         /\ Remaining(R).pending = package.pending
         /\ Remaining(R).offsets = package.offsets
         /\ package.rows \ R \subseteq Remaining(R).rows
         /\ Remaining(R).rows \subseteq package.rows
BY DEF TypeOK, Remaining

\* The state and the position of a run that starts.
LEMMA StartType ==
  ASSUME TypeOK, StartRun
  PROVE  /\ offsets' \in [Partitions -> Offset]
         /\ tracker' \in [Partitions -> [cur : -1 .. MaxMessages, max : 0 .. MaxMessages]]
         /\ position' \in [Partitions -> 0 .. MaxMessages]
<1> DEFINE state == IF Strategy = "replace" THEN NoOffsets ELSE Restored
<1>1. state \in [Partitions -> Offset]
  BY BoundsAssumption, OptionsType DEF TypeOK, NoOffsets, Restored, Offset
<1>2. ASSUME NEW p \in Partitions
      PROVE  /\ FirstOffset(p, state) \in -1 .. MaxMessages
             /\ Assigned(p, FirstOffset(p, state)) \in 0 .. MaxMessages
  <2>1. state[p] \in -1 .. MaxMessages - 1 /\ Older[p] \in Nat
    BY <1>1, ClusterAssumption DEF Offset
  <2>2. low[p] \in 0 .. MaxMessages /\ high[p] \in 0 .. MaxMessages
    BY DEF TypeOK
  <2> QED
    BY <2>1, <2>2, BoundsAssumption
       DEF FirstOffset, OffsetForTime, Larger, Assigned
<1> HIDE DEF state
<1>3. /\ offsets' = state
      /\ tracker' = [p \in Partitions |-> [cur |-> FirstOffset(p, state), max |-> high[p]]]
      /\ position' = [p \in Partitions |-> Assigned(p, FirstOffset(p, state))]
  BY DEF StartRun, state
<1>4. high \in [Partitions -> 0 .. MaxMessages]
  BY DEF TypeOK
<1> QED
  BY <1>1, <1>2, <1>3, <1>4

\* A batch moves the tracker, the state and the position within the partition.
LEMMA ConsumeType ==
  ASSUME TypeOK, NEW n \in [Partitions -> 0 .. BatchSize], Consume(n)
  PROVE  /\ offsets' \in [Partitions -> Offset]
         /\ tracker' \in [Partitions -> [cur : -1 .. MaxMessages, max : 0 .. MaxMessages]]
         /\ position' \in [Partitions -> 0 .. MaxMessages]
         /\ rows' \in SUBSET Message
<1>1. ASSUME NEW p \in Partitions, n[p] # 0
      PROVE  /\ FetchFrom(p) + n[p] \in 0 .. MaxMessages
             /\ LastFetched(p, n) \in Offset
  <2>1. n[p] \in Nat /\ n[p] > 0
    BY <1>1, BoundsAssumption
  <2>2. FetchFrom(p) \in Nat
    BY BoundsAssumption DEF TypeOK, FetchFrom, Larger
  <2>3. FetchFrom(p) + n[p] <= high[p] /\ high[p] \in 0 .. MaxMessages
    BY <2>1 DEF Consume, TypeOK
  <2> QED
    BY <2>1, <2>2, <2>3, BoundsAssumption DEF LastFetched, Offset
<1>2. offsets' \in [Partitions -> Offset]
  BY <1>1 DEF Consume, RenewedOffsets, TypeOK
<1>3. tracker' \in [Partitions -> [cur : -1 .. MaxMessages, max : 0 .. MaxMessages]]
  <2>1. ASSUME NEW p \in Partitions
        PROVE  tracker'[p] \in [cur : -1 .. MaxMessages, max : 0 .. MaxMessages]
    <3>1. tracker'[p] = IF n[p] = 0 THEN tracker[p] ELSE [tracker[p] EXCEPT !.cur = LastFetched(p, n)]
      BY DEF Consume, Renewed
    <3>2. tracker[p] \in [cur : -1 .. MaxMessages, max : 0 .. MaxMessages]
      BY DEF TypeOK
    <3>3. Offset \subseteq -1 .. MaxMessages
      BY BoundsAssumption DEF Offset
    <3> QED
      BY <1>1, <3>1, <3>2, <3>3
  <2>2. tracker' = [p \in Partitions |-> tracker'[p]]
    BY DEF Consume, Renewed
  <2> QED
    BY <2>1, <2>2
<1>4. position' \in [Partitions -> 0 .. MaxMessages]
  BY <1>1 DEF Consume, TypeOK
<1>5. rows' \in SUBSET Message
  BY DEF Consume, Fetched, TypeOK
<1> QED
  BY <1>2, <1>3, <1>4, <1>5

\* The package of an extraction that commits.
LEMMA CommitType ==
  ASSUME NEW R \in SUBSET Message, NEW o \in [Partitions -> Offset], CommitExtract(R, o)
  PROVE  /\ package' \in [pending : BOOLEAN, rows : SUBSET Message,
                           offsets : [Partitions -> Offset]]
         /\ package'.pending /\ package'.rows = R /\ package'.offsets = o
         /\ local' = o /\ local' \in [Partitions -> Offset]
         /\ pc' = "loading"
BY DEF CommitExtract, Package

\* Every variable keeps its type; in particular no position passes the end of
\* its partition.
THEOREM TypeCorrect == Spec => []TypeOK
<1>1. Init => TypeOK
  <2> SUFFICES ASSUME Init PROVE TypeOK
    OBVIOUS
  <2>1. NoOffsets \in [Partitions -> Offset]
    BY BoundsAssumption DEF NoOffsets, Offset
  <2>2. NoPackage \in [pending : BOOLEAN, rows : SUBSET Message, offsets : [Partitions -> Offset]]
    BY <2>1 DEF NoPackage
  <2>3. /\ {saved, local, offsets} \subseteq [Partitions -> Offset]
        /\ package \in [pending : BOOLEAN, rows : SUBSET Message, offsets : [Partitions -> Offset]]
    BY <2>1, <2>2 DEF Init
  <2>4. /\ low \in [Partitions -> 0 .. MaxMessages] /\ high \in [Partitions -> 0 .. MaxMessages]
        /\ position \in [Partitions -> 0 .. MaxMessages]
        /\ tracker \in [Partitions -> [cur : -1 .. MaxMessages, max : 0 .. MaxMessages]]
    BY BoundsAssumption DEF Init
  <2>5. table \in [Message -> 0 .. 2]
    BY DEF Init
  <2>6. pc = "idle" /\ rows \in SUBSET Message
    BY DEF Init
  <2>8. failures \in 0 .. MaxFailures
    BY BoundsAssumption DEF Init
  <2>9. options \in Options
    BY DEF Init
  <2> QED
    BY <2>3, <2>4, <2>5, <2>6, <2>8, <2>9 DEF TypeOK
<1>2. TypeOK /\ [Next]_vars => TypeOK'
  <2> SUFFICES ASSUME TypeOK, [Next]_vars PROVE TypeOK'
    OBVIOUS
  <2>0. options' = options
    BY OptionsStay DEF SameOptions
  <2> USE BoundsAssumption, <2>0
  <2>1. ASSUME NEW p \in Partitions, Produce(p) PROVE TypeOK'
    BY <2>1 DEF Produce, TypeOK, destVars, dirVars, readVars, Pending
  <2>2. ASSUME NEW p \in Partitions, Expire(p) PROVE TypeOK'
    BY <2>2 DEF Expire, TypeOK, destVars, dirVars, readVars, Pending
  <2>3. CASE StartRun
    <3>1. UNCHANGED <<clusterVars, destVars, dirVars, failures>>
      BY <2>3 DEF StartRun
    <3>2. rows' = {} /\ pc' = "consuming"
      BY <2>3 DEF StartRun
    <3> QED
      BY <2>3, <3>1, <3>2, StartType
         DEF TypeOK, clusterVars, destVars, dirVars, Pending
  <2>4. CASE StartWithPending
    BY <2>4 DEF StartWithPending, TypeOK, clusterVars, destVars, dirVars, readVars, Pending
  <2>5. ASSUME NEW n \in [Partitions -> 0 .. BatchSize], Consume(n) PROVE TypeOK'
    <3>1. \/ pc' = "consuming" /\ UNCHANGED dirVars
          \/ CommitExtract(rows', offsets')
      BY <2>5 DEF Consume
    <3>2. UNCHANGED <<clusterVars, destVars, failures>>
      BY <2>5 DEF Consume
    <3>3. CASE pc' = "consuming" /\ UNCHANGED dirVars
      BY <2>5, <3>2, <3>3, ConsumeType DEF TypeOK, clusterVars, destVars, dirVars, Pending
    <3>4. CASE CommitExtract(rows', offsets')
      <4>1. rows' \in SUBSET Message /\ offsets' \in [Partitions -> Offset]
        BY <2>5, ConsumeType
      <4>2. /\ package' \in [pending : BOOLEAN, rows : SUBSET Message,
                              offsets : [Partitions -> Offset]]
            /\ package'.pending /\ local' \in [Partitions -> Offset] /\ pc' = "loading"
        BY <3>4, <4>1, CommitType
      <4> QED
        BY <2>5, <3>2, <4>1, <4>2, ConsumeType DEF TypeOK, clusterVars, destVars, Pending
    <3> QED
      BY <3>1, <3>3, <3>4
  <2>6. CASE NonFatalErrors \/ ConsumeNothing
    <3>1. CommitExtract(rows, offsets)
      BY <2>6 DEF NonFatalErrors, ConsumeNothing
    <3>2. /\ UNCHANGED <<clusterVars, destVars, tracker, position, offsets, rows>>
          /\ failures' \in 0 .. MaxFailures
      <4>1. failures \in 0 .. MaxFailures
        BY DEF TypeOK
      <4>2. CASE NonFatalErrors
        BY <4>1, <4>2 DEF NonFatalErrors
      <4>3. CASE ConsumeNothing
        BY <4>1, <4>3 DEF ConsumeNothing, readVars
      <4> QED
        BY <2>6, <4>2, <4>3
    <3>3. rows \in SUBSET Message /\ offsets \in [Partitions -> Offset]
      BY DEF TypeOK
    <3>4. /\ package' \in [pending : BOOLEAN, rows : SUBSET Message,
                            offsets : [Partitions -> Offset]]
          /\ package'.pending /\ local' \in [Partitions -> Offset] /\ pc' = "loading"
      BY <3>1, <3>3, CommitType
    <3> QED
      BY <3>2, <3>4 DEF TypeOK, clusterVars, destVars, Pending
  <2>7. CASE ExtractFails
    BY <2>7 DEF ExtractFails, TypeOK, clusterVars, destVars, dirVars, readVars, Pending
  <2>8. CASE LoadJobs
    <3>1. package.rows \in SUBSET Message /\ Pending
      BY <2>8 DEF TypeOK, LoadJobs
    <3>2. /\ table' = Written(package.rows) /\ package' = Remaining(package.rows)
          /\ pc' = "loaded" /\ UNCHANGED <<clusterVars, saved, local, readVars, failures>>
      BY <2>8 DEF LoadJobs
    <3>3. table' \in [Message -> 0 .. 2]
      BY <3>1, <3>2, WrittenType DEF TypeOK
    <3>4. /\ package' \in [pending : BOOLEAN, rows : SUBSET Message,
                            offsets : [Partitions -> Offset]]
          /\ package'.pending
      BY <3>1, <3>2, RemainingType DEF Pending
    <3> QED
      BY <3>2, <3>3, <3>4 DEF TypeOK, clusterVars, readVars, Pending
  <2>9. CASE CompleteLoad
    BY <2>9 DEF CompleteLoad, TypeOK, clusterVars, readVars, NoPackage, NoOffsets, Offset, Pending
  <2>10. CASE LoadFails
    <3>1. /\ pc' = "idle" /\ failures' \in 0 .. MaxFailures
          /\ UNCHANGED <<clusterVars, saved, local, readVars>>
      BY <2>10 DEF LoadFails, TypeOK
    <3>2. /\ table' \in [Message -> 0 .. 2]
          /\ package' \in [pending : BOOLEAN, rows : SUBSET Message,
                            offsets : [Partitions -> Offset]]
      <4>0. NoPackage \in [pending : BOOLEAN, rows : SUBSET Message,
                           offsets : [Partitions -> Offset]]
        BY DEF NoPackage, NoOffsets, Offset
      <4>1. CASE pc = "loading"
        <5>1. PICK R \in SUBSET package.rows :
                /\ table' = Written(R) \/ table' = table
                /\ package' = IF PersistentDir THEN Remaining(R) ELSE NoPackage
          BY <2>10, <4>1 DEF LoadFails
        <5>2. R \in SUBSET Message
          BY DEF TypeOK
        <5>3. Written(R) \in [Message -> 0 .. 2] /\ table \in [Message -> 0 .. 2]
          BY <5>2, WrittenType DEF TypeOK
        <5>4. Remaining(R) \in [pending : BOOLEAN, rows : SUBSET Message,
                                offsets : [Partitions -> Offset]]
          BY <5>2, RemainingType
        <5> QED
          BY <4>0, <5>1, <5>3, <5>4
      <4>2. CASE pc = "loaded"
        BY <2>10, <4>0, <4>2 DEF LoadFails, TypeOK
      <4> QED
        BY <2>10, <4>1, <4>2 DEF LoadFails
    <3> QED
      BY <3>1, <3>2 DEF TypeOK, clusterVars, readVars
  <2>11. CASE UNCHANGED vars
    BY <2>11 DEF vars, TypeOK, clusterVars, destVars, dirVars, readVars, Pending
  <2> QED
    BY <2>1, <2>2, <2>3, <2>4, <2>5, <2>6, <2>7, <2>8, <2>9, <2>10, <2>11
       DEF Next, Extract, Consumption, Load, Fault, Cluster
<1> QED
  BY <1>1, <1>2, PTL DEF Spec

-----------------------------------------------------------------------------
\* Everything settled stays settled while the table only grows.
LEMMA SettledStays ==
  ASSUME TypeOK, TypeOK', NEW m \in Message, Settled(m),
         Loaded(m) => Loaded(m)', low' = low \/ \E p \in Partitions : Expire(p)
  PROVE  Settled(m)'
BY MessageType DEF Settled, Expired, Expire, TypeOK

\* Where a run starts: nothing wanted lies behind its state or its position.
LEMMA StartSettled ==
  ASSUME TypeOK, Settlement, Strategy # "replace", StartRun,
         NEW m \in Message, Wanted(m),
         OffsetOf(m) <= offsets'[PartOf(m)] \/ OffsetOf(m) < position'[PartOf(m)]
  PROVE  Settled(m)
<1> DEFINE p == PartOf(m)
<1>1. p \in Partitions /\ OffsetOf(m) \in Nat
  BY MessageType
<1>2. offsets' = Restored /\ ~Pending
  BY DEF StartRun
<1>3. Restored[p] \in Int /\ low[p] \in Nat /\ high[p] \in Nat /\ Older[p] \in Nat
  BY <1>1, BoundsAssumption, OptionsType, ClusterAssumption DEF TypeOK, Restored, Offset
<1>4. OffsetOf(m) <= Restored[p] => Settled(m)
  BY <1>2 DEF Settlement, SavedSettled, LocalSettled, Restored, InPackage
<1>5. position'[p] = Assigned(p, FirstOffset(p, Restored))
  BY <1>1 DEF StartRun
<1>6. CASE OffsetOf(m) < position'[p]
  <2>1. CASE ~StartFrom
    <3>1. FirstOffset(p, Restored) = Restored[p] + 1 /\ Restored[p] >= -1
      BY <1>1, <2>1, BoundsAssumption, OptionsType DEF FirstOffset, TypeOK, Restored, Offset
    <3>2. position'[p] = Restored[p] + 1
      BY <1>3, <1>5, <3>1 DEF Assigned
    <3> QED
      BY <1>1, <1>3, <1>4, <1>6, <3>2
  <2>2. CASE StartFrom
    <3>1. OffsetOf(m) >= Older[p]
      BY <2>2 DEF Wanted
    <3>2. CASE high[p] > Older[p]
      <4>1. position'[p] = Larger(low[p], Older[p])
        BY <1>3, <1>5, <2>2, <3>2 DEF FirstOffset, OffsetForTime, Assigned, Larger
      <4>2. OffsetOf(m) < low[p]
        BY <1>1, <1>3, <1>6, <3>1, <4>1 DEF Larger
      <4> QED
        BY <4>2 DEF Settled, Expired
    <3>3. CASE ~(high[p] > Older[p])
      <4>1. position'[p] <= high[p]
        BY <1>3, <1>5, <2>2, <3>3 DEF FirstOffset, OffsetForTime, Assigned
      <4>2. position'[p] \in Int
        BY <1>3, <1>5, <2>2, <3>3 DEF FirstOffset, OffsetForTime, Assigned
      <4> QED
        BY <1>1, <1>3, <1>6, <3>1, <3>3, <4>1, <4>2
    <3> QED
      BY <3>2, <3>3
  <2> QED
    BY <2>1, <2>2
<1> QED
  BY <1>2, <1>4, <1>6

\* A batch leaves no gap behind the new state and position.
LEMMA ConsumeSettled ==
  ASSUME TypeOK, Settlement, NEW n \in [Partitions -> 0 .. BatchSize], Consume(n),
         NEW m \in Message, Wanted(m),
         OffsetOf(m) <= offsets'[PartOf(m)] \/ OffsetOf(m) < position'[PartOf(m)]
  PROVE  Settled(m) \/ m \in rows'
<1> DEFINE p == PartOf(m)
<1>1. p \in Partitions /\ OffsetOf(m) \in Nat
  BY MessageType
<1>2. pc = "consuming" /\ rows' = rows \cup Fetched(n)
  BY DEF Consume
<1>3. /\ position'[p] = IF n[p] = 0 THEN position[p] ELSE FetchFrom(p) + n[p]
      /\ offsets'[p] = IF n[p] = 0 THEN offsets[p] ELSE LastFetched(p, n)
  BY <1>1 DEF Consume, RenewedOffsets
<1>4. OffsetOf(m) <= offsets[p] \/ OffsetOf(m) < position[p] => Settled(m) \/ m \in rows
  BY <1>2 DEF Settlement, ExtractionSettled
<1>5. CASE n[p] = 0
  BY <1>2, <1>3, <1>4, <1>5
<1>6. CASE n[p] # 0
  <2>1. n[p] \in Nat /\ n[p] > 0 /\ FetchFrom(p) \in Nat /\ low[p] \in Nat /\ position[p] \in Nat
    BY <1>1, <1>6, BoundsAssumption DEF TypeOK, FetchFrom, Larger
  <2>2. OffsetOf(m) < FetchFrom(p) + n[p]
    BY <1>1, <1>3, <1>6, <2>1 DEF LastFetched
  <2>3. CASE OffsetOf(m) >= FetchFrom(p)
    BY <1>2, <2>1, <2>2, <2>3 DEF Fetched
  <2>4. CASE ~(OffsetOf(m) >= FetchFrom(p))
    <3>1. OffsetOf(m) < position[p] \/ OffsetOf(m) < low[p]
      BY <1>1, <2>1, <2>4 DEF FetchFrom, Larger
    <3> QED
      BY <1>2, <1>4, <3>1 DEF Settled, Expired
  <2> QED
    BY <2>3, <2>4
<1> QED
  BY <1>5, <1>6

\* An extraction that commits leaves the unloaded rows behind its state in the package.
LEMMA CommitSettled ==
  ASSUME TypeOK, SavedSettled, NEW R \in SUBSET Message, NEW o \in [Partitions -> Offset],
         SameOptions, CommitExtract(R, o), UNCHANGED <<clusterVars, destVars>>,
         \A m \in Message : Wanted(m) /\ OffsetOf(m) <= o[PartOf(m)] => Settled(m) \/ m \in R
  PROVE  Settlement'
<1> USE DEF SameOptions
<1>1. /\ package'.pending /\ package'.rows = R /\ package'.offsets = o
      /\ local' = o /\ pc' = "loading"
  BY CommitType
<1>2. \A m \in Message : Settled(m)' <=> Settled(m)
  BY DEF Settled, Loaded, Expired, clusterVars, destVars
<1>3. SavedSettled'
  BY <1>2 DEF SavedSettled, Wanted, destVars
<1>4. LocalSettled' /\ PackageSettled'
  BY <1>1, <1>2 DEF LocalSettled, PackageSettled, InPackage, Pending, Wanted
<1> QED
  BY <1>1, <1>3, <1>4 DEF Settlement, ExtractionSettled, JobsSettled

\* The settlement survives a step that leaves states, package and extraction alone
\* while the table grows or retention takes a message.
LEMMA FrameSettled ==
  ASSUME TypeOK, TypeOK', Settlement, SameOptions, UNCHANGED <<saved, dirVars, pc, readVars>>,
         UNCHANGED table, low' = low \/ \E p \in Partitions : Expire(p)
  PROVE  Settlement'
<1> USE DEF SameOptions
<1>1. \A m \in Message : Settled(m) => Settled(m)'
  BY SettledStays DEF Loaded
<1>2. \A m \in Message : (Wanted(m)' <=> Wanted(m)) /\ (InPackage(m)' <=> InPackage(m))
  BY DEF Wanted, InPackage, Pending, dirVars
<1>3. SavedSettled' /\ LocalSettled' /\ PackageSettled'
  BY <1>1, <1>2 DEF Settlement, SavedSettled, LocalSettled, PackageSettled, dirVars, Pending
<1>4. ExtractionSettled'
  BY <1>1, <1>2 DEF Settlement, ExtractionSettled, dirVars, readVars, Pending
<1>5. JobsSettled'
  BY DEF Settlement, JobsSettled, Loaded, dirVars
<1> QED
  BY <1>3, <1>4, <1>5 DEF Settlement

\* Jobs that load rows of the package, all of it or a part, keep the settlement.
LEMMA LoadSettled ==
  ASSUME TypeOK, TypeOK', Settlement, SameOptions, NEW R \in SUBSET package.rows,
         Strategy # "replace", Pending,
         table' = Written(R) \/ (R = {} /\ table' = table),
         package' = Remaining(R), pc' # "consuming", pc' = "loaded" => R = package.rows,
         UNCHANGED <<clusterVars, saved, local>>
  PROVE  Settlement'
<1> USE DEF SameOptions
<1>1. R \in SUBSET Message /\ table \in [Message -> 0 .. 2]
  BY DEF TypeOK
<1>2. \A m \in Message : Loaded(m) \/ m \in R => Loaded(m)'
  BY <1>1, WrittenGrows DEF Loaded
<1>3. \A m \in Message : Settled(m) => Settled(m)'
  BY <1>2 DEF Settled, Expired, clusterVars
<1>4. /\ package'.pending = package.pending /\ package'.offsets = package.offsets
      /\ package.rows \ R \subseteq package'.rows
  BY <1>1, RemainingType
<1>5. \A m \in Message : Settled(m) \/ InPackage(m) => Settled(m)' \/ InPackage(m)'
  BY <1>2, <1>3, <1>4 DEF InPackage, Pending, Settled
<1>6. \A m \in Message : Wanted(m)' <=> Wanted(m)
  BY DEF Wanted
<1>7. SavedSettled'
  BY <1>3, <1>6 DEF Settlement, SavedSettled
<1>8. LocalSettled'
  BY <1>5, <1>6 DEF Settlement, LocalSettled
<1>9. PackageSettled'
  BY <1>4, <1>5, <1>6 DEF Settlement, PackageSettled, Pending
<1>10. JobsSettled'
  <2>1. package'.rows \subseteq package.rows
    BY <1>1, RemainingType
  <2> QED
    BY <1>1, <1>2, <2>1 DEF JobsSettled, TypeOK
<1> QED
  BY <1>7, <1>8, <1>9, <1>10 DEF Settlement, ExtractionSettled

\* A step of a run that touches neither cluster, table, state nor package.
LEMMA RunSettled ==
  ASSUME Settlement, SameOptions, UNCHANGED <<clusterVars, destVars, dirVars>>, pc' # "loaded"
  PROVE  /\ SavedSettled' /\ LocalSettled' /\ PackageSettled' /\ JobsSettled'
         /\ \A m \in Message : Settled(m)' <=> Settled(m)
<1> USE DEF SameOptions
<1>1. \A m \in Message : Settled(m)' <=> Settled(m)
  BY DEF Settled, Loaded, Expired, clusterVars, destVars
<1>2. \A m \in Message : InPackage(m)' <=> InPackage(m)
  BY DEF InPackage, Pending, dirVars
<1> QED
  BY <1>1, <1>2 DEF Settlement, SavedSettled, LocalSettled, PackageSettled, JobsSettled,
                    Wanted, Pending, destVars, dirVars

\* One step of the system keeps the settlement.
LEMMA StepSettled ==
  ASSUME TypeOK, TypeOK', Settlement, Strategy # "replace", [Next]_vars
  PROVE  Settlement'
<1>0. SameOptions
  BY OptionsStay
<1> USE <1>0 DEF SameOptions
<1>1. ASSUME NEW p \in Partitions, Produce(p) \/ Expire(p) PROVE Settlement'
  <2>1. UNCHANGED <<destVars, dirVars, pc, readVars>>
    BY <1>1 DEF Produce, Expire
  <2>2. low' = low \/ \E q \in Partitions : Expire(q)
    BY <1>1 DEF Produce
  <2> QED
    BY <2>1, <2>2, FrameSettled DEF destVars
<1>2. CASE StartRun
  <2>1. pc' = "consuming" /\ ~Pending /\ UNCHANGED <<clusterVars, destVars, dirVars>>
    BY <1>2 DEF StartRun
  <2>2. ExtractionSettled'
    BY <1>2, <2>1, RunSettled, StartSettled DEF ExtractionSettled, Wanted, Pending, dirVars
  <2> QED
    BY <2>1, <2>2, RunSettled DEF Settlement
<1>3. CASE StartWithPending \/ ExtractFails
  <2>1. pc' \notin {"consuming", "loaded"} /\ UNCHANGED <<clusterVars, destVars, dirVars>>
    BY <1>3 DEF StartWithPending, ExtractFails
  <2> QED
    BY <2>1, RunSettled DEF Settlement, ExtractionSettled
<1>4. ASSUME NEW n \in [Partitions -> 0 .. BatchSize], Consume(n) PROVE Settlement'
  <2>1. /\ pc = "consuming" /\ UNCHANGED <<clusterVars, destVars>>
        /\ \/ pc' = "consuming" /\ UNCHANGED dirVars
           \/ CommitExtract(rows', offsets')
    BY <1>4 DEF Consume
  <2>2. ASSUME NEW m \in Message, Wanted(m),
               OffsetOf(m) <= offsets'[PartOf(m)] \/ OffsetOf(m) < position'[PartOf(m)]
        PROVE  Settled(m) \/ m \in rows'
    BY <1>4, <2>2, ConsumeSettled
  <2>3. CASE pc' = "consuming" /\ UNCHANGED dirVars
    <3>1. ~Pending'
      BY <2>1, <2>3 DEF Settlement, ExtractionSettled, Pending, dirVars
    <3>2. ExtractionSettled'
      BY <2>1, <2>2, <2>3, <3>1, RunSettled DEF ExtractionSettled, Wanted
    <3> QED
      BY <2>1, <2>3, <3>2, RunSettled DEF Settlement
  <2>4. CASE CommitExtract(rows', offsets')
    <3>1. rows' \in SUBSET Message /\ offsets' \in [Partitions -> Offset]
      BY <1>4, ConsumeType
    <3> QED
      BY <2>1, <2>2, <2>4, <3>1, CommitSettled DEF Settlement
  <2> QED
    BY <2>1, <2>3, <2>4
<1>5. CASE NonFatalErrors \/ ConsumeNothing
  <2>1. /\ pc = "consuming" /\ CommitExtract(rows, offsets)
        /\ UNCHANGED <<clusterVars, destVars>>
    BY <1>5 DEF NonFatalErrors, ConsumeNothing
  <2>2. \A m \in Message :
          Wanted(m) /\ OffsetOf(m) <= offsets[PartOf(m)] => Settled(m) \/ m \in rows
    BY <2>1 DEF Settlement, ExtractionSettled
  <2>3. rows \in SUBSET Message /\ offsets \in [Partitions -> Offset]
    BY DEF TypeOK
  <2> QED
    BY <2>1, <2>2, <2>3, CommitSettled DEF Settlement
<1>6. CASE LoadJobs
  <2>1. /\ table' = Written(package.rows) /\ package' = Remaining(package.rows)
        /\ pc = "loading" /\ pc' = "loaded" /\ UNCHANGED <<clusterVars, saved, local>>
    BY <1>6 DEF LoadJobs
  <2>2. Pending
    BY <2>1 DEF TypeOK
  <2>3. package.rows \in SUBSET package.rows
    OBVIOUS
  <2> QED
    BY <2>1, <2>2, <2>3, LoadSettled
<1>7. CASE CompleteLoad
  <2>1. /\ pc = "loaded" /\ pc' = "idle" /\ saved' = package.offsets
        /\ package' = NoPackage /\ UNCHANGED <<clusterVars, table, local>>
    BY <1>7 DEF CompleteLoad
  <2>2. Pending
    BY <2>1 DEF TypeOK
  <2>3. \A m \in Message : Settled(m)' <=> Settled(m)
    BY <2>1 DEF Settled, Loaded, Expired, clusterVars
  <2>4. \A m \in Message : InPackage(m) => Settled(m)
    BY <2>1 DEF Settlement, JobsSettled, InPackage, Settled
  <2>5. SavedSettled'
    BY <2>1, <2>2, <2>3, <2>4 DEF Settlement, PackageSettled, SavedSettled, Wanted
  <2>6. LocalSettled'
    BY <2>1, <2>3, <2>4 DEF Settlement, LocalSettled, Wanted
  <2> QED
    BY <2>1, <2>5, <2>6
       DEF Settlement, PackageSettled, ExtractionSettled, JobsSettled, Pending, NoPackage
<1>8. CASE LoadFails
  <2>1. pc' = "idle" /\ UNCHANGED <<clusterVars, saved, local>>
    BY <1>8 DEF LoadFails
  <2>2. /\ Pending
        /\ \E R \in SUBSET package.rows :
             /\ table' = Written(R) \/ (R = {} /\ table' = table)
             /\ package' = Remaining(R) \/ (~PersistentDir /\ package' = NoPackage)
    <3>0. Pending
      BY <1>8 DEF LoadFails, TypeOK
    <3>1. CASE pc = "loading"
      <4>1. PICK R \in SUBSET package.rows :
              /\ table' = Written(R) \/ (R = {} /\ table' = table)
              /\ package' = IF PersistentDir THEN Remaining(R) ELSE NoPackage
        BY <1>8, <3>1 DEF LoadFails
      <4>2. PersistentDir \/ ~PersistentDir
        OBVIOUS
      <4>3. package' = Remaining(R) \/ (~PersistentDir /\ package' = NoPackage)
        BY <4>1, <4>2, Zenon
      <4> QED
        BY <3>0, <4>1, <4>3
    <3>2. CASE pc = "loaded"
      <4>1. package \in [pending : BOOLEAN, rows : SUBSET Message, offsets : [Partitions -> Offset]]
        BY DEF TypeOK
      <4>2. package = Remaining({})
        BY <4>1 DEF Remaining
      <4>3. table' = table /\ package' = IF PersistentDir THEN package ELSE NoPackage
        BY <1>8, <3>2 DEF LoadFails
      <4>4. package' = Remaining({}) \/ (~PersistentDir /\ package' = NoPackage)
        BY <4>2, <4>3, Zenon
      <4>5. {} \in SUBSET package.rows
        OBVIOUS
      <4> QED
        BY <3>0, <4>3, <4>4, <4>5
    <3> QED
      BY <1>8, <3>1, <3>2 DEF LoadFails
  <2>3. PICK R \in SUBSET package.rows :
          /\ table' = Written(R) \/ (R = {} /\ table' = table)
          /\ package' = Remaining(R) \/ (~PersistentDir /\ package' = NoPackage)
    BY <2>2
  <2>4. CASE package' = Remaining(R)
    BY <2>1, <2>2, <2>3, <2>4, LoadSettled
  <2>5. CASE ~PersistentDir /\ package' = NoPackage
    <3>1. R \in SUBSET Message /\ table \in [Message -> 0 .. 2]
      BY DEF TypeOK
    <3>2. \A m \in Message : Settled(m) => Settled(m)'
      BY <2>1, <2>3, <3>1, WrittenGrows DEF Settled, Loaded, Expired, clusterVars
    <3> QED
      BY <2>1, <2>5, <3>2
         DEF Settlement, SavedSettled, LocalSettled, PackageSettled, ExtractionSettled,
             JobsSettled, Wanted, Pending, NoPackage
  <2> QED
    BY <2>3, <2>4, <2>5
<1>9. CASE UNCHANGED vars
  <2>1. UNCHANGED <<clusterVars, destVars, dirVars, pc, readVars>>
    BY <1>9 DEF vars
  <2> QED
    BY <2>1, FrameSettled DEF clusterVars, destVars
<1> QED
  BY <1>1, <1>2, <1>3, <1>4, <1>5, <1>6, <1>7, <1>8, <1>9
     DEF Next, Extract, Consumption, Load, Fault, Cluster

LEMMA InitSettled == ASSUME Init PROVE Settlement
<1>1. \A m \in Message : OffsetOf(m) >= 0 /\ PartOf(m) \in Partitions
  BY MessageType
<1>2. saved = NoOffsets /\ local = NoOffsets /\ package = NoPackage /\ pc = "idle"
  BY DEF Init
<1>3. \A m \in Message : ~(OffsetOf(m) <= NoOffsets[PartOf(m)])
  BY <1>1, MessageType DEF NoOffsets
<1> QED
  BY <1>2, <1>3 DEF Settlement, SavedSettled, LocalSettled, PackageSettled,
                    ExtractionSettled, JobsSettled, Pending, NoPackage

\* No wanted message behind the offset the next run starts from is missing from
\* the table, unless a package still holds it or its retention ended first.
THEOREM NoMessageSkipped == Spec => []NothingSkipped
<1>1. Init => Settlement
  BY InitSettled
<1>2. TypeOK /\ TypeOK' /\ (Strategy # "replace" => Settlement) /\ [Next]_vars
      => (Strategy # "replace" => Settlement)'
  BY StepSettled, OptionsStay DEF SameOptions
<1>3. (Strategy # "replace" => Settlement) => NothingSkipped
  BY DEF Settlement, SavedSettled, LocalSettled, NothingSkipped, Covered, Restored, Settled
<1> QED
  BY <1>1, <1>2, <1>3, TypeCorrect, PTL DEF Spec

-----------------------------------------------------------------------------
(* Runs that continue where the state says: each extraction takes messages     *)
(* past the state it starts from, and all of them.                            *)

\* A state only runs ahead of the destination's by a package.
LocalAhead == PersistentDir => \A p \in Partitions : saved[p] <= local[p]

PackageAhead ==
  Pending =>
    /\ package.offsets = local
    /\ \A p \in Partitions : saved[p] <= local[p]
    /\ \A m \in package.rows :
         saved[PartOf(m)] < OffsetOf(m) /\ OffsetOf(m) <= local[PartOf(m)]

ExtractionAhead ==
  pc = "consuming" =>
    /\ ~Pending
    /\ \A p \in Partitions : Restored[p] <= offsets[p] /\ offsets[p] < position[p]
    /\ \A m \in rows :
         Restored[PartOf(m)] < OffsetOf(m) /\ OffsetOf(m) <= offsets[PartOf(m)]

Onward == LocalAhead /\ PackageAhead /\ ExtractionAhead

\* A batch goes on from the position and ends at the new state.
LEMMA ConsumeOnward ==
  ASSUME TypeOK, NEW n \in [Partitions -> 0 .. BatchSize], Consume(n), ExtractionAhead
  PROVE  /\ ~Pending
         /\ \A p \in Partitions : /\ Restored[p] <= offsets'[p] /\ offsets'[p] < position'[p]
         /\ \A m \in rows' :
              Restored[PartOf(m)] < OffsetOf(m) /\ OffsetOf(m) <= offsets'[PartOf(m)]
<1>1. /\ pc = "consuming" /\ rows' = rows \cup Fetched(n)
      /\ \A p \in Partitions :
           /\ position'[p] = IF n[p] = 0 THEN position[p] ELSE FetchFrom(p) + n[p]
           /\ offsets'[p] = IF n[p] = 0 THEN offsets[p] ELSE LastFetched(p, n)
  BY DEF Consume, RenewedOffsets
<1>2. ASSUME NEW p \in Partitions
      PROVE  /\ Restored[p] \in Int /\ offsets[p] \in Int /\ offsets'[p] \in Int
             /\ Restored[p] <= offsets[p] /\ offsets[p] <= offsets'[p]
             /\ offsets'[p] < position'[p]
             /\ n[p] > 0 => offsets[p] < FetchFrom(p) /\ offsets'[p] = FetchFrom(p) + n[p] - 1
  <2>1. /\ Restored[p] \in Int /\ offsets[p] \in Int /\ position[p] \in Nat /\ low[p] \in Nat
        /\ n[p] \in Nat
    BY BoundsAssumption, OptionsType DEF TypeOK, Restored, Offset
  <2>2. Restored[p] <= offsets[p] /\ offsets[p] < position[p]
    BY <1>1 DEF ExtractionAhead
  <2>3. FetchFrom(p) \in Nat /\ position[p] <= FetchFrom(p)
    BY <2>1 DEF FetchFrom, Larger
  <2> QED
    BY <1>1, <2>1, <2>2, <2>3 DEF LastFetched
<1>3. ASSUME NEW m \in rows'
      PROVE  Restored[PartOf(m)] < OffsetOf(m) /\ OffsetOf(m) <= offsets'[PartOf(m)]
  <2>1. m \in Message
    BY ConsumeType
  <2>2. PartOf(m) \in Partitions /\ OffsetOf(m) \in Nat
    BY <2>1, MessageType
  <2>3. CASE m \in rows
    BY <1>1, <1>2, <2>2, <2>3 DEF ExtractionAhead
  <2>4. CASE m \in Fetched(n)
    <3>1. /\ n[PartOf(m)] > 0 /\ n[PartOf(m)] \in Nat /\ FetchFrom(PartOf(m)) \in Nat
          /\ OffsetOf(m) >= FetchFrom(PartOf(m))
          /\ OffsetOf(m) < FetchFrom(PartOf(m)) + n[PartOf(m)]
      BY <2>2, <2>4, BoundsAssumption DEF Fetched, FetchFrom, Larger, TypeOK
    <3> QED
      BY <1>2, <2>2, <3>1
  <2> QED
    BY <1>1, <2>3, <2>4
<1> QED
  BY <1>1, <1>2, <1>3 DEF ExtractionAhead

\* A commit puts the state of the extraction ahead of the destination's, and the
\* rows between the two.
LEMMA CommitOnward ==
  ASSUME TypeOK, LocalAhead, NEW R \in SUBSET Message, NEW o \in [Partitions -> Offset],
         SameOptions, CommitExtract(R, o), UNCHANGED destVars,
         \A p \in Partitions : Restored[p] <= o[p],
         \A m \in R : Restored[PartOf(m)] < OffsetOf(m) /\ OffsetOf(m) <= o[PartOf(m)]
  PROVE  Onward'
<1> USE DEF SameOptions
<1>1. /\ package'.rows = R /\ package'.offsets = o /\ local' = o /\ pc' = "loading"
  BY CommitType
<1>2. ASSUME NEW p \in Partitions PROVE saved[p] <= Restored[p]
  BY OptionsType DEF LocalAhead, Restored, TypeOK, Offset
<1>3. ASSUME NEW p \in Partitions
      PROVE  saved[p] \in Int /\ Restored[p] \in Int /\ o[p] \in Int
  BY BoundsAssumption, OptionsType DEF TypeOK, Offset, Restored
<1>4. \A p \in Partitions : saved'[p] <= local'[p]
  BY <1>1, <1>2, <1>3 DEF destVars
<1>5. ASSUME NEW m \in R
      PROVE  saved'[PartOf(m)] < OffsetOf(m) /\ OffsetOf(m) <= local'[PartOf(m)]
  <2>1. PartOf(m) \in Partitions /\ OffsetOf(m) \in Nat
    BY MessageType
  <2> QED
    BY <1>1, <1>2, <1>3, <2>1 DEF destVars
<1> QED
  BY <1>1, <1>4, <1>5 DEF Onward, LocalAhead, PackageAhead, ExtractionAhead

\* A step that touches no state outside the run.
LEMMA FrameOnward ==
  ASSUME Onward, SameOptions, UNCHANGED <<saved, local, package>>,
         pc' # "consuming" \/ UNCHANGED <<pc, offsets, position, rows>>
  PROVE  Onward'
<1> USE DEF SameOptions
<1>1. LocalAhead' /\ PackageAhead'
  BY DEF Onward, LocalAhead, PackageAhead, Pending
<1>2. ExtractionAhead'
  BY DEF Onward, ExtractionAhead, Restored, Pending
<1> QED
  BY <1>1, <1>2 DEF Onward

LEMMA StepOnward ==
  ASSUME TypeOK, TypeOK', Onward, Strategy # "replace", ~StartFrom, [Next]_vars
  PROVE  Onward'
<1>0. SameOptions
  BY OptionsStay
<1> USE <1>0 DEF SameOptions
<1>1. ASSUME NEW p \in Partitions, Produce(p) \/ Expire(p) PROVE Onward'
  BY <1>1, FrameOnward DEF Produce, Expire, destVars, dirVars, readVars
<1>2. CASE StartRun
  <2>1. /\ pc' = "consuming" /\ ~Pending /\ UNCHANGED <<destVars, dirVars>>
        /\ offsets' = Restored /\ rows' = {}
    BY <1>2 DEF StartRun
  <2>2. ASSUME NEW p \in Partitions PROVE offsets'[p] < position'[p]
    <3>1. position'[p] = Assigned(p, FirstOffset(p, Restored))
      BY <1>2 DEF StartRun
    <3>2. Restored[p] \in Offset
      BY OptionsType DEF TypeOK, Restored
    <3>3. FirstOffset(p, Restored) = Restored[p] + 1
      BY DEF FirstOffset
    <3> QED
      BY <2>1, <3>1, <3>2, <3>3, BoundsAssumption DEF Assigned, Offset
  <2>3. \A p \in Partitions : Restored[p] \in Int
    BY OptionsType, BoundsAssumption DEF TypeOK, Restored, Offset
  <2>4. LocalAhead' /\ PackageAhead'
    BY <2>1 DEF Onward, LocalAhead, PackageAhead, Pending, destVars, dirVars
  <2>5. ExtractionAhead'
    BY <2>1, <2>2, <2>3 DEF ExtractionAhead, Restored, Pending, destVars, dirVars
  <2> QED
    BY <2>4, <2>5 DEF Onward
<1>3. CASE StartWithPending \/ ExtractFails
  BY <1>3, FrameOnward DEF StartWithPending, ExtractFails, destVars, dirVars
<1>4. ASSUME NEW n \in [Partitions -> 0 .. BatchSize], Consume(n) PROVE Onward'
  <2>1. /\ UNCHANGED destVars
        /\ \/ pc' = "consuming" /\ UNCHANGED dirVars
           \/ CommitExtract(rows', offsets')
    BY <1>4 DEF Consume
  <2>2. /\ ~Pending
        /\ \A p \in Partitions : /\ Restored[p] <= offsets'[p] /\ offsets'[p] < position'[p]
        /\ \A m \in rows' :
             Restored[PartOf(m)] < OffsetOf(m) /\ OffsetOf(m) <= offsets'[PartOf(m)]
    BY <1>4, ConsumeOnward DEF Onward
  <2>3. CASE pc' = "consuming" /\ UNCHANGED dirVars
    BY <2>1, <2>2, <2>3
       DEF Onward, LocalAhead, PackageAhead, ExtractionAhead, Restored, Pending, destVars, dirVars
  <2>4. CASE CommitExtract(rows', offsets')
    <3>1. rows' \in SUBSET Message /\ offsets' \in [Partitions -> Offset]
      BY <1>4, ConsumeType
    <3> QED
      BY <2>1, <2>2, <2>4, <3>1, CommitOnward DEF Onward
  <2> QED
    BY <2>1, <2>3, <2>4
<1>5. CASE NonFatalErrors \/ ConsumeNothing
  <2>1. pc = "consuming" /\ CommitExtract(rows, offsets) /\ UNCHANGED destVars
    BY <1>5 DEF NonFatalErrors, ConsumeNothing
  <2>2. rows \in SUBSET Message /\ offsets \in [Partitions -> Offset]
    BY DEF TypeOK
  <2> QED
    BY <2>1, <2>2, CommitOnward DEF Onward, ExtractionAhead
<1>6. CASE LoadJobs
  <2>1. /\ package' = Remaining(package.rows) /\ pc' = "loaded" /\ UNCHANGED <<saved, local>>
        /\ package.rows \in SUBSET Message
    BY <1>6 DEF LoadJobs, TypeOK
  <2>2. /\ package'.pending = package.pending /\ package'.offsets = package.offsets
        /\ package'.rows \subseteq package.rows
    BY <2>1, RemainingType
  <2> QED
    BY <2>1, <2>2 DEF Onward, LocalAhead, PackageAhead, ExtractionAhead, Pending
<1>7. CASE CompleteLoad
  <2>1. /\ saved' = package.offsets /\ package' = NoPackage /\ pc' = "idle"
        /\ local' = local /\ Pending
    BY <1>7 DEF CompleteLoad, TypeOK
  <2>2. saved' = local'
    BY <2>1 DEF Onward, PackageAhead
  <2>3. \A p \in Partitions : local'[p] \in Int
    BY BoundsAssumption DEF TypeOK, Offset
  <2> QED
    BY <2>1, <2>2, <2>3
       DEF Onward, LocalAhead, PackageAhead, ExtractionAhead, Pending, NoPackage
<1>8. CASE LoadFails
  <2>1. pc' = "idle" /\ UNCHANGED <<saved, local>>
    BY <1>8 DEF LoadFails
  <2>2. \/ package' = NoPackage
        \/ /\ package'.pending = package.pending /\ package'.offsets = package.offsets
           /\ package'.rows \subseteq package.rows
    <3>1. CASE pc = "loading"
      <4>1. PICK R \in SUBSET package.rows :
              package' = IF PersistentDir THEN Remaining(R) ELSE NoPackage
        BY <1>8, <3>1 DEF LoadFails
      <4>2. R \in SUBSET Message
        BY DEF TypeOK
      <4> QED
        BY <4>1, <4>2, RemainingType
    <3>2. CASE pc = "loaded"
      BY <1>8, <3>2 DEF LoadFails
    <3> QED
      BY <1>8, <3>1, <3>2 DEF LoadFails
  <2>3. CASE package' = NoPackage
    BY <2>1, <2>3 DEF Onward, LocalAhead, PackageAhead, ExtractionAhead, Pending, NoPackage
  <2>4. CASE /\ package'.pending = package.pending /\ package'.offsets = package.offsets
             /\ package'.rows \subseteq package.rows
    BY <2>1, <2>4 DEF Onward, LocalAhead, PackageAhead, ExtractionAhead, Pending
  <2> QED
    BY <2>2, <2>3, <2>4
<1>9. CASE UNCHANGED vars
  BY <1>9, FrameOnward DEF vars, destVars, dirVars, readVars
<1> QED
  BY <1>1, <1>2, <1>3, <1>4, <1>5, <1>6, <1>7, <1>8, <1>9
     DEF Next, Extract, Consumption, Load, Fault, Cluster

LEMMA InitOnward == ASSUME Init PROVE Onward
<1>1. ASSUME NEW p \in Partitions PROVE saved[p] <= local[p]
  BY DEF Init, NoOffsets
<1> QED
  BY <1>1 DEF Init, Onward, LocalAhead, PackageAhead, ExtractionAhead, Pending, NoPackage

-----------------------------------------------------------------------------
(* No message twice: an appended one is behind the state in the working         *)
(* directory from then on, and leaves the package with the job that wrote it.   *)

\* What no load has to count any more, with a directory that survives.
Once ==
  /\ \A m \in Message : table[m] <= 1
  /\ \A m \in Message : Loaded(m) => OffsetOf(m) <= local[PartOf(m)]
  /\ Pending => \A m \in package.rows : ~Loaded(m)

Appending == Strategy = "append" /\ PersistentDir /\ ~StartFrom

\* Jobs that append rows of the package count each of them once.
LEMMA AppendOnce ==
  ASSUME TypeOK, Once, PackageAhead, Strategy = "append", Pending,
         NEW R \in SUBSET package.rows,
         table' = Written(R) \/ (R = {} /\ table' = table),
         package' = Remaining(R), local' = local
  PROVE  Once'
<1>1. R \in SUBSET Message /\ table \in [Message -> 0 .. 2] /\ package.rows \in SUBSET Message
  BY DEF TypeOK
<1>2. \A m \in package.rows : ~Loaded(m) /\ OffsetOf(m) <= local[PartOf(m)]
  BY DEF Once, PackageAhead
<1>3. ASSUME NEW m \in Message
      PROVE  /\ m \in R => table'[m] = 1
             /\ m \notin R => table'[m] = table[m]
  <2>1. table[m] \in 0 .. 2
    BY <1>1
  <2>2. m \in R => table[m] = 0
    BY <1>2, <2>1 DEF Loaded
  <2>3. table' = Written(R) => table'[m] = Several(table[m] + (IF m \in R THEN 1 ELSE 0))
    BY DEF Written
  <2>4. CASE table' = Written(R)
    BY <2>1, <2>2, <2>3, <2>4 DEF Several
  <2>5. CASE R = {} /\ table' = table
    BY <2>5
  <2> QED
    BY <2>4, <2>5
<1>4. package'.rows = package.rows \ R
  BY DEF Remaining, TypeOK
<1>5. \A m \in Message : table'[m] <= 1
  BY <1>3 DEF Once
<1>6. \A m \in Message : Loaded(m)' => OffsetOf(m) <= local'[PartOf(m)]
  BY <1>1, <1>2, <1>3 DEF Once, Loaded
<1>7. \A m \in package'.rows : ~Loaded(m)'
  BY <1>1, <1>2, <1>3, <1>4 DEF Loaded
<1> QED
  BY <1>5, <1>6, <1>7 DEF Once

\* A new package has messages past the state in the directory, none of them loaded.
LEMMA CommitOnce ==
  ASSUME TypeOK, Once, Appending, NEW R \in SUBSET Message, NEW o \in [Partitions -> Offset],
         CommitExtract(R, o), table' = table,
         \A p \in Partitions : Restored[p] <= o[p],
         \A m \in R : Restored[PartOf(m)] < OffsetOf(m)
  PROVE  Once'
<1>1. package'.rows = R /\ local' = o
  BY CommitType
<1>2. Restored = local
  BY DEF Restored, Appending
<1>3. ASSUME NEW m \in Message
      PROVE  /\ OffsetOf(m) \in Int /\ local[PartOf(m)] \in Int /\ o[PartOf(m)] \in Int
             /\ local[PartOf(m)] <= o[PartOf(m)]
  BY <1>2, MessageType, BoundsAssumption DEF TypeOK, Offset
<1>4. \A m \in Message : Loaded(m) => OffsetOf(m) <= local[PartOf(m)]
  BY DEF Once
<1>5. \A m \in Message : Loaded(m)' <=> Loaded(m)
  BY DEF Loaded
<1>6. \A m \in R : ~Loaded(m)'
  BY <1>2, <1>3, <1>4, <1>5
<1>7. \A m \in Message : Loaded(m)' => OffsetOf(m) <= local'[PartOf(m)]
  BY <1>1, <1>3, <1>4, <1>5
<1> QED
  BY <1>1, <1>6, <1>7 DEF Once

LEMMA StepOnce ==
  ASSUME TypeOK, TypeOK', Onward, Once, Appending, [Next]_vars
  PROVE  Once'
<1>0. SameOptions
  BY OptionsStay
<1> USE <1>0 DEF SameOptions, Appending
<1>1. CASE UNCHANGED <<table, local, package>>
  BY <1>1 DEF Once, Loaded, Pending
<1>2. ASSUME NEW n \in [Partitions -> 0 .. BatchSize], Consume(n) PROVE Once'
  <2>1. UNCHANGED table /\ (UNCHANGED dirVars \/ CommitExtract(rows', offsets'))
    BY <1>2 DEF Consume, destVars
  <2>2. CASE CommitExtract(rows', offsets')
    <3>1. /\ ~Pending
          /\ \A p \in Partitions : Restored[p] <= offsets'[p]
          /\ \A m \in rows' : Restored[PartOf(m)] < OffsetOf(m)
      BY <1>2, ConsumeOnward DEF Onward
    <3>2. rows' \in SUBSET Message /\ offsets' \in [Partitions -> Offset]
      BY <1>2, ConsumeType
    <3> QED
      BY <2>1, <2>2, <3>1, <3>2, CommitOnce
  <2> QED
    BY <1>1, <2>1, <2>2 DEF dirVars
<1>3. CASE NonFatalErrors \/ ConsumeNothing
  <2>1. pc = "consuming" /\ CommitExtract(rows, offsets) /\ UNCHANGED table
    BY <1>3 DEF NonFatalErrors, ConsumeNothing, destVars
  <2>2. rows \in SUBSET Message /\ offsets \in [Partitions -> Offset]
    BY DEF TypeOK
  <2> QED
    BY <2>1, <2>2, CommitOnce DEF Onward, ExtractionAhead
<1>4. CASE LoadJobs
  <2>1. /\ table' = Written(package.rows) /\ package' = Remaining(package.rows)
        /\ local' = local /\ Pending
    BY <1>4 DEF LoadJobs, TypeOK
  <2> QED
    BY <2>1, AppendOnce DEF Onward
<1>5. CASE CompleteLoad
  BY <1>5 DEF CompleteLoad, Once, Loaded, Pending, NoPackage
<1>6. CASE LoadFails
  <2>1. CASE pc = "loading"
    <3>1. PICK R \in SUBSET package.rows :
            /\ table' = Written(R) \/ (R = {} /\ table' = table)
            /\ package' = IF PersistentDir THEN Remaining(R) ELSE NoPackage
      BY <1>6, <2>1 DEF LoadFails
    <3>2. package' = Remaining(R)
      BY <3>1
    <3>3. local' = local /\ Pending
      BY <1>6, <2>1 DEF LoadFails, TypeOK
    <3> QED
      BY <3>1, <3>2, <3>3, AppendOnce DEF Onward
  <2>2. CASE pc = "loaded"
    <3>1. UNCHANGED <<table, local, package>>
      BY <1>6, <2>2 DEF LoadFails
    <3> QED
      BY <1>1, <3>1
  <2> QED
    BY <1>6, <2>1, <2>2 DEF LoadFails
<1>7. CASE StartRun \/ StartWithPending \/ ExtractFails \/ UNCHANGED vars
           \/ \E p \in Partitions : Produce(p) \/ Expire(p)
  BY <1>1, <1>7 DEF StartRun, StartWithPending, ExtractFails, Produce, Expire, vars,
                    destVars, dirVars
<1> QED
  BY <1>2, <1>3, <1>4, <1>5, <1>6, <1>7
     DEF Next, Extract, Consumption, Load, Fault, Cluster

\* Rows that replace or merge are counted once whatever they replace.
LEMMA StepNoRepeat ==
  ASSUME TypeOK, Strategy # "append", \A m \in Message : table[m] <= 1, [Next]_vars
  PROVE  \A m \in Message : table'[m] <= 1
<1>1. ASSUME NEW R \in SUBSET Message PROVE \A m \in Message : Written(R)[m] <= 1
  BY OptionsType DEF Written
<1>2. CASE LoadJobs
  BY <1>1, <1>2 DEF LoadJobs, TypeOK
<1>3. CASE LoadFails
  <2>1. CASE pc = "loading"
    <3>1. PICK R \in SUBSET package.rows : table' = Written(R) \/ table' = table
      BY <1>3, <2>1 DEF LoadFails
    <3> QED
      BY <1>1, <3>1 DEF TypeOK
  <2>2. CASE pc = "loaded"
    BY <1>3, <2>2 DEF LoadFails
  <2> QED
    BY <1>3, <2>1, <2>2 DEF LoadFails
<1>4. CASE UNCHANGED table
  BY <1>4
<1> QED
  BY <1>2, <1>3, <1>4
     DEF Next, Extract, Consumption, Load, Fault, Cluster, StartRun, StartWithPending,
         Consume, NonFatalErrors, ConsumeNothing, CompleteLoad, ExtractFails, Produce,
         Expire, vars, destVars

\* No message has two rows, unless rows are appended from a directory that is
\* thrown away or by runs that go back to --interval-start.
THEOREM LoadedOnceCorrect == Spec => []LoadedOnce
<1> DEFINE
      Forward == Strategy # "replace" /\ ~StartFrom => Onward
      Single == /\ Appending => Once
                /\ Strategy # "append" => \A m \in Message : table[m] <= 1
<1>1. Init => Forward
  BY InitOnward
<1>2. Init => Single
  <2> SUFFICES ASSUME Init PROVE Single
    OBVIOUS
  <2>1. \A m \in Message : table[m] = 0
    BY DEF Init
  <2>2. ~Pending
    BY DEF Init, Pending, NoPackage
  <2> QED
    BY <2>1, <2>2 DEF Once, Loaded
<1>3. TypeOK /\ TypeOK' /\ Forward /\ [Next]_vars => Forward'
  BY StepOnward, OptionsStay DEF SameOptions
<1>4. TypeOK /\ TypeOK' /\ Forward /\ Single /\ [Next]_vars => Single'
  <2> SUFFICES ASSUME TypeOK, TypeOK', Forward, Single, [Next]_vars PROVE Single'
    OBVIOUS
  <2>1. SameOptions
    BY OptionsStay
  <2>2. Appending' => Once'
    <3>1. Appending' => Appending
      BY <2>1 DEF SameOptions, Appending
    <3>2. Appending => Strategy # "replace" /\ ~StartFrom
      BY DEF Appending
    <3> QED
      BY <3>1, <3>2, StepOnce
  <2>3. Strategy' # "append" => \A m \in Message : table'[m] <= 1
    BY <2>1, StepNoRepeat DEF SameOptions
  <2> QED
    BY <2>2, <2>3
<1>5. Single => LoadedOnce
  BY DEF Once, Appending, LoadedOnce
<1> HIDE DEF Forward, Single
<1> QED
  BY <1>1, <1>2, <1>3, <1>4, <1>5, TypeCorrect, PTL DEF Spec

-----------------------------------------------------------------------------
(* The promise of the streaming sources. *)

Delivered == {m \in Message : Loaded(m)}
Acknowledged == {m \in Message : /\ ~StartFrom /\ OffsetOf(m) <= saved[PartOf(m)]
                                 /\ Expired(m) => Loaded(m)}

\* What counts as acknowledged is in the table: it is wanted, and settled.
LEMMA AcknowledgedIsLoaded ==
  /\ SavedSettled =>
       Acknowledged = {m \in Message : /\ ~StartFrom /\ OffsetOf(m) <= saved[PartOf(m)]
                                       /\ Loaded(m)}
  /\ SavedSettled' /\ SameOptions =>
       Acknowledged' = {m \in Message : /\ ~StartFrom /\ OffsetOf(m) <= saved'[PartOf(m)]
                                        /\ Loaded(m)'}
BY DEF Acknowledged, SavedSettled, Settled, Wanted, SameOptions

\* Jobs of the package deliver messages and acknowledge none: they all lie past
\* the state of the destination.
LEMMA JobsDeliver ==
  ASSUME TypeOK, Settlement, Settlement', SameOptions, ~StartFrom => Onward,
         TypeOK', Strategy # "replace", Pending, NEW R \in SUBSET package.rows,
         table' = Written(R) \/ (R = {} /\ table' = table), UNCHANGED saved
  PROVE  Promise!Deliver(R)
<1>1. R \in SUBSET Message /\ table \in [Message -> 0 .. 2]
  BY DEF TypeOK
<1>2. \A m \in Message : Loaded(m)' <=> Loaded(m) \/ m \in R
  <2>1. CASE table' = Written(R)
    <3> SUFFICES ASSUME NEW m \in Message PROVE table'[m] > 0 <=> table[m] > 0 \/ m \in R
      BY DEF Loaded
    <3>1. table[m] \in 0 .. 2
      BY <1>1
    <3> QED
      BY <2>1, <3>1, OptionsType DEF Written, Several
  <2>2. CASE R = {} /\ table' = table
    BY <2>2 DEF Loaded
  <2> QED
    BY <2>1, <2>2
<1>3. Delivered' = Delivered \cup R
  BY <1>1, <1>2 DEF Delivered
<1>4. Acknowledged' = Acknowledged
  <2>1. ASSUME ~StartFrom, NEW m \in R PROVE ~(OffsetOf(m) <= saved[PartOf(m)])
    <3>1. saved[PartOf(m)] < OffsetOf(m)
      BY <2>1 DEF Onward, PackageAhead
    <3>2. m \in Message
      BY <1>1
    <3>3. OffsetOf(m) \in Int /\ saved[PartOf(m)] \in Int
      BY <3>2, MessageType, BoundsAssumption DEF TypeOK, Offset
    <3> QED
      BY <3>1, <3>3
  <2>2. /\ Acknowledged = {m \in Message : /\ ~StartFrom /\ OffsetOf(m) <= saved[PartOf(m)]
                                           /\ Loaded(m)}
        /\ Acknowledged' = {m \in Message : /\ ~StartFrom /\ OffsetOf(m) <= saved[PartOf(m)]
                                            /\ Loaded(m)'}
    BY AcknowledgedIsLoaded DEF Settlement, SameOptions
  <2> QED
    BY <1>2, <2>1, <2>2
<1> QED
  BY <1>3, <1>4 DEF Promise!Deliver, Delivered, Acknowledged

\* A step that leaves table and saved state alone is none of the promise's: no
\* message that counts as acknowledged can expire unloaded.
LEMMA StutterDelivers ==
  ASSUME TypeOK, TypeOK', Settlement, Settlement', SameOptions, UNCHANGED destVars
  PROVE  UNCHANGED Promise!vars
<1>1. \A m \in Message : Loaded(m)' <=> Loaded(m)
  BY DEF Loaded, destVars
<1>2. Delivered' = Delivered
  BY <1>1 DEF Delivered
<1>3. Acknowledged' = Acknowledged
  BY <1>1, AcknowledgedIsLoaded DEF Settlement, SameOptions, destVars
<1> QED
  BY <1>2, <1>3 DEF Promise!vars, Delivered, Acknowledged

\* A load that completes acknowledges what its state covers.
LEMMA CompletionAcknowledges ==
  ASSUME TypeOK, TypeOK', Settlement, Settlement', SameOptions, ~StartFrom => Onward,
         CompleteLoad
  PROVE  \E S \in SUBSET Message : Promise!Acknowledge(S)
<1> DEFINE S == Acknowledged'
<1>1. Pending /\ saved' = package.offsets /\ UNCHANGED table
  BY DEF CompleteLoad, TypeOK
<1>2. \A m \in Message : Loaded(m)' <=> Loaded(m)
  BY <1>1 DEF Loaded
<1>3. Delivered' = Delivered
  BY <1>2 DEF Delivered
<1>4. /\ Acknowledged = {m \in Message : /\ ~StartFrom /\ OffsetOf(m) <= saved[PartOf(m)]
                                         /\ Loaded(m)}
      /\ S = {m \in Message : /\ ~StartFrom /\ OffsetOf(m) <= saved'[PartOf(m)]
                              /\ Loaded(m)'}
  BY AcknowledgedIsLoaded DEF Settlement
<1> HIDE DEF S
<1>5. S \in SUBSET Message /\ S \subseteq Delivered
  BY <1>2, <1>4 DEF Delivered
<1>6. ASSUME ~StartFrom, NEW m \in Message, OffsetOf(m) <= saved[PartOf(m)]
      PROVE  OffsetOf(m) <= saved'[PartOf(m)]
  <2>1. saved[PartOf(m)] <= saved'[PartOf(m)]
    BY <1>1, <1>6, MessageType DEF Onward, PackageAhead
  <2>2. OffsetOf(m) \in Int /\ saved[PartOf(m)] \in Int /\ saved'[PartOf(m)] \in Int
    BY MessageType, BoundsAssumption DEF TypeOK, Offset
  <2> QED
    BY <1>6, <2>1, <2>2
<1>7. Acknowledged \subseteq S
  BY <1>2, <1>4, <1>6
<1>8. Acknowledged' = Acknowledged \cup S
  BY <1>7 DEF S
<1> QED
  BY <1>3, <1>5, <1>8 DEF Promise!Acknowledge, Delivered, Acknowledged

LEMMA DeliveryStep ==
  ASSUME TypeOK, TypeOK', Settlement, Settlement', ~StartFrom => Onward,
         Strategy # "replace", [Next]_vars
  PROVE  [Promise!Next]_(Promise!vars)
<1>0. SameOptions
  BY OptionsStay
<1>1. CASE LoadJobs
  <2>1. /\ table' = Written(package.rows) /\ Pending /\ UNCHANGED saved
        /\ package.rows \in SUBSET package.rows /\ package.rows \in SUBSET Message
    BY <1>1 DEF LoadJobs, TypeOK
  <2>2. Promise!Deliver(package.rows)
    BY <1>0, <2>1, JobsDeliver
  <2> QED
    BY <2>1, <2>2 DEF Promise!Next
<1>2. CASE CompleteLoad
  BY <1>0, <1>2, CompletionAcknowledges DEF Promise!Next
<1>3. CASE LoadFails
  <2>1. CASE pc = "loading"
    <3>1. PICK R \in SUBSET package.rows : table' = Written(R) \/ (R = {} /\ table' = table)
      BY <1>3, <2>1 DEF LoadFails
    <3>2. Pending /\ UNCHANGED saved /\ R \in SUBSET Message
      BY <1>3, <2>1 DEF LoadFails, TypeOK
    <3>3. Promise!Deliver(R)
      BY <1>0, <3>1, <3>2, JobsDeliver
    <3> QED
      BY <3>2, <3>3 DEF Promise!Next
  <2>2. CASE pc = "loaded"
    <3>1. UNCHANGED destVars
      BY <1>3, <2>2 DEF LoadFails, destVars
    <3> QED
      BY <1>0, <3>1, StutterDelivers
  <2> QED
    BY <1>3, <2>1, <2>2 DEF LoadFails
<1>4. CASE UNCHANGED destVars
  BY <1>0, <1>4, StutterDelivers
<1> QED
  BY <1>1, <1>2, <1>3, <1>4
     DEF Next, Extract, Consumption, Load, Fault, Cluster, StartRun, StartWithPending,
         Consume, NonFatalErrors, ConsumeNothing, ExtractFails, Produce, Expire, vars

\* A load that replaces the table takes back what it delivered: every other
\* strategy keeps the promise, whatever --interval-start says.
THEOREM Refinement == Spec /\ Strategy # "replace" => ImplementsDelivery
<1> DEFINE
      Additively == Strategy # "replace"
      Forward == Additively => (~StartFrom => Onward)
      Settling == Additively => Settlement
<1>1. Init => Promise!Init
  <2> SUFFICES ASSUME Init PROVE Delivered = {} /\ Acknowledged = {}
    BY DEF Promise!Init, Delivered, Acknowledged
  <2>1. \A m \in Message : ~Loaded(m)
    BY DEF Init, Loaded
  <2>2. ASSUME NEW m \in Message PROVE ~(OffsetOf(m) <= saved[PartOf(m)])
    <3>1. PartOf(m) \in Partitions /\ OffsetOf(m) \in Nat
      BY MessageType
    <3>2. saved[PartOf(m)] = -1
      BY <3>1 DEF Init, NoOffsets
    <3> QED
      BY <3>1, <3>2
  <2> QED
    BY <2>1, <2>2 DEF Delivered, Acknowledged
<1>2. Init => Forward
  BY InitOnward
<1>3. TypeOK /\ TypeOK' /\ Forward /\ [Next]_vars => Forward'
  BY StepOnward, OptionsStay DEF SameOptions
<1>4. Additively /\ [Next]_vars => Additively'
  BY OptionsStay DEF SameOptions
<1>5. Init => Settling
  BY InitSettled
<1>6. TypeOK /\ TypeOK' /\ Settling /\ [Next]_vars => Settling'
  BY StepSettled, OptionsStay DEF SameOptions
<1>7. /\ TypeOK /\ TypeOK' /\ Settling /\ Settling' /\ Forward /\ Additively /\ Additively'
      /\ [Next]_vars
      => [Promise!Next]_(Promise!vars)
  BY DeliveryStep
<1> HIDE DEF Additively, Forward, Settling
<1>8. Spec /\ Additively => ImplementsDelivery
  BY <1>1, <1>2, <1>3, <1>4, <1>5, <1>6, <1>7, TypeCorrect, PTL
     DEF Spec, ImplementsDelivery, Promise!Spec
<1> QED
  BY <1>8 DEF Additively
=============================================================================

------------------------ MODULE KinesisSourceProofs ------------------------
(***************************************************************************)
(* No record is skipped and none is loaded twice, for every number of        *)
(* shards, however they are split, every number of records, chunk size and   *)
(* number of failures, and every option.                                    *)
(***************************************************************************)
EXTENDS KinesisSource, FiniteSetTheorems, SequenceTheorems, TLAPS

\* A non-empty set of naturals has a minimum.
LEMMA MinimumExists ==
  ASSUME NEW T \in SUBSET Nat, T # {}
  PROVE  \E m \in T : \A t \in T : m <= t
<1>1. PICK m \in T : \A t \in T : ~ (<<t, m>> \in OpToRel(<, Nat))
  BY WFMin, NatLessThanWellFounded
<1>2. ASSUME NEW t \in T PROVE ~ (t < m)
  BY <1>1, <1>2 DEF OpToRel
<1> QED
  BY <1>2

\* The command line does not change.
SameOptions == Start' = Start /\ Limited' = Limited

LEMMA OptionsStay == ASSUME [Next]_vars PROVE SameOptions /\ options' = options
BY DEF Next, vars, SameOptions, Start, Limited

LEMMA OptionsType ==
  ASSUME TypeOK
  PROVE  Start \in {Epoch} \cup 0 .. MaxTime /\ Start \in Int /\ Limited \in BOOLEAN
BY OptionsAssumption, BoundsAssumption DEF TypeOK, Start, Limited, Epoch

\* A record is a shard and a position in it.
LEMMA RecordType ==
  ASSUME NEW r \in Record
  PROVE  /\ r[1] \in Shards /\ r[2] \in 1 .. MaxRecords[r[1]]
         /\ r[2] \in Nat /\ r[2] >= 1 /\ r = <<r[1], r[2]>>
BY BoundsAssumption DEF Record

LEMMA RecordPair ==
  ASSUME NEW s \in Shards, NEW i \in 1 .. MaxRecords[s]
  PROVE  <<s, i>> \in Record
BY DEF Record

\* What the states and sequences of the shards are made of.
LEMMA ShardType ==
  ASSUME TypeOK, NEW s \in Shards
  PROVE  /\ arrivals[s] \in Seq(0 .. MaxTime) /\ Len(arrivals[s]) \in Nat
         /\ Len(arrivals[s]) <= MaxRecords[s] /\ MaxRecords[s] \in Nat
         /\ \A i \in 1 .. Len(arrivals[s]) : arrivals[s][i] \in 0 .. MaxTime
         /\ saved.last[s] \in 0 .. Len(arrivals[s]) /\ saved.last[s] \in Nat
         /\ state.last[s] \in 0 .. Len(arrivals[s]) /\ state.last[s] \in Nat
         /\ clock \in 0 .. MaxTime /\ clock \in Nat
         /\ saved.since \in Int /\ state.since \in Int /\ since \in Int
         /\ tip \in [Shards -> Nat]
<1>1. arrivals[s] \in Seq(0 .. MaxTime) /\ Len(arrivals[s]) <= MaxRecords[s]
  BY DEF TypeOK
<1>2. MaxTime \in Nat /\ Skew \in Nat /\ MaxRecords[s] \in Nat
  BY BoundsAssumption
<1>3. saved.last[s] \in 0 .. Len(arrivals[s]) /\ state.last[s] \in 0 .. Len(arrivals[s])
  BY DEF TypeOK
<1>4. saved.since \in Since /\ state.since \in Since /\ since \in Since
  BY DEF TypeOK, State
<1>5. clock \in 0 .. MaxTime /\ tip \in [Shards -> Nat]
  BY DEF TypeOK
<1> QED
  BY <1>1, <1>2, <1>3, <1>4, <1>5 DEF Since, Epoch

\* An order of a set of shards has each of them.
LEMMA OrderType ==
  ASSUME NEW S \in SUBSET Shards, NEW q \in SetToSeqs(S)
  PROVE  /\ q \in Seq(Shards)
         /\ \A s \in S : \E i \in 1 .. Len(q) : q[i] = s
<1> DEFINE n == Cardinality(S)
           D == 1 .. n
<1>1. IsFiniteSet(S) /\ n \in Nat
  BY ShardsAssumption, FS_Subset, FS_CardinalityType
<1>2. q \in [D -> S] /\ \A i, j \in D : i # j => q[i] # q[j]
  BY DEF SetToSeqs
<1>3. q \in Injection(D, S)
  BY <1>2 DEF Injection, IsInjective
<1>4. Cardinality(D) = n
  BY <1>1, FS_Interval
<1> HIDE DEF n
<1>5. q \in Surjection(D, S)
  BY <1>1, <1>3, <1>4, FS_Injection DEF n
<1>6. \A s \in S : \E i \in D : q[i] = s
  BY <1>5 DEF Surjection
<1>7. q \in Seq(Shards) /\ Len(q) = n
  BY <1>1, <1>2
<1> QED
  BY <1>6, <1>7

\* AT_TIMESTAMP finds the first record of the time, or the end of the shard.
LEMMA FirstAtType ==
  ASSUME TypeOK, NEW s \in Shards, NEW t \in Int
  PROVE  /\ FirstAt(s, t) \in 1 .. Len(arrivals[s]) + 1
         /\ \A i \in 1 .. Len(arrivals[s]) : arrivals[s][i] >= t => FirstAt(s, t) <= i
<1> DEFINE at == {i \in 1 .. Len(arrivals[s]) : arrivals[s][i] >= t}
<1>1. Len(arrivals[s]) \in Nat
  BY ShardType
<1>2. CASE at = {}
  BY <1>1, <1>2 DEF FirstAt
<1>3. CASE at # {}
  <2>1. at \subseteq 0 .. Len(arrivals[s])
    BY <1>1
  <2>2. \E i \in at : \A j \in at : i <= j
    <3> HIDE DEF at
    <3> QED
      BY <1>1, <1>3, <2>1, MinimumExists
  <2>3. FirstAt(s, t) = CHOOSE i \in at : \A j \in at : i <= j
    BY <1>3 DEF FirstAt
  <2>4. FirstAt(s, t) \in at /\ \A j \in at : FirstAt(s, t) <= j
    <3> HIDE DEF at
    <3> QED
      BY <2>2, <2>3
  <2> QED
    BY <1>1, <2>4
<1> QED
  BY <1>2, <1>3

\* Where a shard is read from lies within it.
LEMMA IteratorType ==
  ASSUME TypeOK, NEW s \in Shards
  PROVE  ShardIterator(s, state.last[s], since) \in 1 .. Len(arrivals[s]) + 1
<1>1. /\ state.last[s] \in 0 .. Len(arrivals[s]) /\ Len(arrivals[s]) \in Nat
      /\ since \in Int
  BY ShardType
<1>2. FirstAt(s, since) \in 1 .. Len(arrivals[s]) + 1
  BY <1>1, FirstAtType
<1> QED
  BY <1>1, <1>2 DEF ShardIterator, FromTimestamp, Latest

LEMMA CountsType ==
  ASSUME TypeOK, NEW R
  PROVE  /\ Counted(rows, R) \in [Record -> 0 .. 2]
         /\ Appended(R) \in [Record -> 0 .. 2]
<1>0. rows \in [Record -> 0 .. 2] /\ table \in [Record -> 0 .. 2]
  BY DEF TypeOK
<1>1. \A k \in Nat : Several(k) \in 0 .. 2
  BY DEF Several
<1>2. ASSUME NEW r \in Record
      PROVE  /\ rows[r] + (IF r \in R THEN 1 ELSE 0) \in Nat
             /\ table[r] + (IF r \in R THEN rows[r] ELSE 0) \in Nat
  BY <1>0
<1> QED
  BY <1>1, <1>2 DEF Counted, Appended

\* A batch moves the sequence number of its shard to the last record in it.
LEMMA GetRecordsMoves ==
  ASSUME TypeOK, NEW n \in 0 .. ChunkSize, GetRecords(n)
  PROVE  /\ shard \in Shards /\ pc = "reading"
         /\ iterator \in Nat /\ iterator >= 1 /\ n \in Nat
         /\ iterator' = iterator + n /\ iterator' \in Nat
         /\ iterator' <= Len(arrivals[shard]) + 1
         /\ state' \in State /\ state'.since = state.since
         /\ \A s \in Shards :
              state'.last[s] = IF s = shard /\ n # 0 THEN iterator + n - 1 ELSE state.last[s]
         /\ \A s \in Shards : state'.last[s] \in 0 .. Len(arrivals[s])
         /\ rows' = Counted(rows, Batch(n))
         /\ UNCHANGED <<streamVars, destVars, since, tip, failures>>
<1>1. /\ shard \in Shards /\ pc = "reading" /\ iterator \in Nat /\ iterator >= 1 /\ n \in Nat
  BY BoundsAssumption DEF TypeOK, GetRecords
<1>2. /\ iterator' = iterator + n /\ iterator' <= Len(arrivals[shard]) + 1
      /\ rows' = Counted(rows, Batch(n))
      /\ UNCHANGED <<streamVars, destVars, since, tip, failures>>
  BY DEF GetRecords
<1>3. state' = [state EXCEPT !.last[shard] = IF n = 0 THEN @ ELSE iterator' - 1]
  BY DEF GetRecords
<1>4. state \in [last : [Shards -> Nat], since : Since]
  BY DEF TypeOK, State, SequenceNumber
<1> DEFINE number == IF n = 0 THEN state.last[shard] ELSE iterator' - 1
<1>5. state'.since = state.since /\ state' = [last |-> state'.last, since |-> state'.since]
  BY <1>3, <1>4
<1>6. state'.last = [state.last EXCEPT ![shard] = number]
  BY <1>3, <1>4
<1>7. number \in Nat
  BY <1>1, <1>2, <1>4
<1>8. state'.last \in [Shards -> Nat]
  <2> HIDE DEF number
  <2> QED
    BY <1>1, <1>4, <1>6, <1>7
<1>10. ASSUME NEW s \in Shards
       PROVE  state'.last[s] = IF s = shard /\ n # 0 THEN iterator + n - 1 ELSE state.last[s]
  <2>0. state.last \in [Shards -> Nat]
    BY <1>4
  <2>1. s = shard => state'.last[s] = number
    <3> HIDE DEF number
    <3> QED
      BY <1>6, <2>0
  <2>2. s # shard => state'.last[s] = state.last[s]
    <3> HIDE DEF number
    <3> QED
      BY <1>6, <2>0
  <2>3. n # 0 => number = iterator + n - 1
    BY <1>1, <1>2
  <2>4. n = 0 => number = state.last[shard]
    OBVIOUS
  <2> HIDE DEF number
  <2> QED
    BY <2>1, <2>2, <2>3, <2>4
<1>11. state' \in State
  BY <1>4, <1>5, <1>8 DEF State, SequenceNumber
<1>9. ASSUME NEW s \in Shards PROVE state'.last[s] \in 0 .. Len(arrivals[s])
  <2>1. state.last[s] \in 0 .. Len(arrivals[s]) /\ Len(arrivals[s]) \in Nat
    BY ShardType
  <2> QED
    BY <1>1, <1>2, <1>10, <2>1
<1> QED
  BY <1>1, <1>2, <1>5, <1>9, <1>10, <1>11

\* The queue after a batch has the shards of the one before, at their places.
LEMMA GetRecordsQueues ==
  ASSUME TypeOK, NEW n \in 0 .. ChunkSize, GetRecords(n)
  PROVE  /\ queue' \in Seq(Shards) /\ Len(queue) <= Len(queue')
         /\ \A i \in 1 .. Len(queue) : i \in 1 .. Len(queue') /\ queue'[i] = queue[i]
<1>1. queue \in Seq(Shards)
  BY DEF TypeOK
<1>2. CASE queue' = queue
  BY <1>1, <1>2
<1>3. CASE \E new \in SetToSeqs(ChildShards(shard, iterator')) : queue' = queue \o new
  <2>1. PICK new \in SetToSeqs(ChildShards(shard, iterator')) : queue' = queue \o new
    BY <1>3
  <2>2. ChildShards(shard, iterator') \in SUBSET Shards
    BY GetRecordsMoves, ShardsAssumption DEF ChildShards
  <2>3. new \in Seq(Shards)
    BY <2>2, OrderType
  <2> QED
    BY <1>1, <2>1, <2>3
<1> QED
  BY <1>2, <1>3 DEF GetRecords

\* What the end of a run leaves behind it.
LEMMA EndRunType ==
  ASSUME TypeOK, EndRun, saved' \in State, arrivals' = arrivals,
         \A s \in Shards : saved'.last[s] \in 0 .. Len(arrivals[s])
  PROVE  /\ state' \in State /\ since' \in Since /\ pc' = "idle"
         /\ \A s \in Shards : state'.last[s] \in 0 .. Len(arrivals[s])
         /\ queue' \in Seq(Shards) /\ shard' = NoShard /\ iterator' = 1
         /\ rows' \in [Record -> 0 .. 2] /\ tip' \in [Shards -> Nat]
<1>1. <<>> \in Seq(Shards) /\ NoRows \in [Record -> 0 .. 2]
  BY DEF NoRows
<1> QED
  BY <1>1 DEF EndRun, TypeOK, State

\* Every variable keeps its type; no position passes the end of its shard.
THEOREM TypeCorrect == Spec => []TypeOK
<1>1. Init => TypeOK
  <2> SUFFICES ASSUME Init PROVE TypeOK
    OBVIOUS
  <2>1. options \in Options /\ Start \in {Epoch} \cup 0 .. MaxTime /\ {MaxTime, Skew, MaxFailures} \subseteq Nat
    BY BoundsAssumption, OptionsAssumption DEF Init, Start
  <2>2. NoRows \in [Record -> 0 .. 2] /\ [r \in Record |-> 0] \in [Record -> 0 .. 2]
    BY DEF NoRows
  <2>3. Start \in Since
    BY <2>1 DEF Since
  <2>4. [last |-> [s \in Shards |-> 0], since |-> Start] \in State
    BY <2>3 DEF State, SequenceNumber
  <2>5. saved \in State /\ state \in State /\ since \in Since
    BY <2>3, <2>4 DEF Init
  <2>6. <<>> \in Seq(0 .. MaxTime) /\ <<>> \in Seq(Shards)
    OBVIOUS
  <2>7. arrivals \in [Shards -> Seq(0 .. MaxTime)] /\ queue \in Seq(Shards)
    BY <2>6 DEF Init
  <2>8. \A s \in Shards : Len(arrivals[s]) = 0 /\ MaxRecords[s] \in Nat
    BY BoundsAssumption DEF Init
  <2>9. \A s \in Shards : saved.last[s] = 0 /\ state.last[s] = 0
    BY DEF Init
  <2>10. listed \subseteq Shards /\ closed \subseteq listed
    BY DEF Init, FirstShards
  <2>11. table \in [Record -> 0 .. 2] /\ rows \in [Record -> 0 .. 2]
    BY <2>2 DEF Init
  <2>12. clock \in 0 .. MaxTime /\ failures \in 0 .. MaxFailures
    BY <2>1 DEF Init
  <2>13. pc = "idle" /\ shard = NoShard /\ iterator = 1 /\ tip \in [Shards -> Nat]
    BY DEF Init
  <2> QED
    BY <2>1, <2>5, <2>7, <2>8, <2>9, <2>10, <2>11, <2>12, <2>13 DEF TypeOK
<1>2. TypeOK /\ [Next]_vars => TypeOK'
  <2> SUFFICES ASSUME TypeOK, [Next]_vars PROVE TypeOK'
    OBVIOUS
  <2>0. options' = options
    BY OptionsStay
  <2>1. CASE Tick
    <3>1. clock' \in 0 .. MaxTime /\ UNCHANGED <<arrivals, listed, closed, destVars, pc, readVars, failures>>
      BY <2>1, BoundsAssumption DEF Tick, TypeOK
    <3> QED
      BY <2>0, <3>1 DEF TypeOK, destVars, readVars
  <2>2. ASSUME NEW s \in Shards, Put(s) PROVE TypeOK'
    <3>1. /\ arrivals' = [arrivals EXCEPT ![s] = Append(@, clock)]
          /\ Len(arrivals[s]) < MaxRecords[s]
          /\ UNCHANGED <<clock, listed, closed, destVars, pc, readVars, failures>>
      BY <2>2 DEF Put
    <3>2. /\ Append(arrivals[s], clock) \in Seq(0 .. MaxTime)
          /\ Len(Append(arrivals[s], clock)) = Len(arrivals[s]) + 1
      BY ShardType
    <3>3. arrivals' \in [Shards -> Seq(0 .. MaxTime)]
      BY <3>1, <3>2 DEF TypeOK
    <3>4. ASSUME NEW q \in Shards
          PROVE  /\ Len(arrivals'[q]) <= MaxRecords[q] /\ Len(arrivals'[q]) >= Len(arrivals[q])
                 /\ Len(arrivals'[q]) \in Nat /\ Len(arrivals[q]) \in Nat
      <4>1. arrivals'[q] = IF q = s THEN Append(arrivals[s], clock) ELSE arrivals[q]
        BY <3>1 DEF TypeOK
      <4>2. Len(arrivals[q]) \in Nat /\ Len(arrivals[q]) <= MaxRecords[q] /\ MaxRecords[q] \in Nat
        BY ShardType
      <4> QED
        BY <3>1, <3>2, <4>1, <4>2
    <3>5. \A q \in Shards : {saved'.last[q], state'.last[q]} \subseteq 0 .. Len(arrivals'[q])
      BY <3>1, <3>4, ShardType DEF destVars, readVars
    <3>6. shard' # NoShard => iterator' <= Len(arrivals'[shard']) + 1
      <4>1. shard' = shard /\ iterator' = iterator /\ iterator \in Nat
        BY <3>1 DEF readVars, TypeOK
      <4>2. shard # NoShard => shard \in Shards /\ iterator <= Len(arrivals[shard]) + 1
        BY DEF TypeOK
      <4> QED
        BY <3>4, <4>1, <4>2
    <3> QED
      BY <2>0, <3>1, <3>3, <3>4, <3>5, <3>6 DEF TypeOK, destVars, readVars
  <2>3. ASSUME NEW s \in Shards, Split(s) PROVE TypeOK'
    <3>1. /\ closed' \subseteq listed' /\ listed' \subseteq Shards
          /\ UNCHANGED <<clock, arrivals, destVars, pc, readVars, failures>>
      BY <2>3, ShardsAssumption DEF Split, TypeOK
    <3> QED
      BY <2>0, <3>1 DEF TypeOK, destVars, readVars
  <2>4. CASE StartRun
    <3>1. /\ since' = saved.since /\ shard' = NoShard /\ rows' = NoRows /\ pc' = "reading"
          /\ UNCHANGED <<streamVars, destVars, iterator, failures>>
      BY <2>4 DEF StartRun
    <3>2. PICK ahead \in 0 .. Skew : state' = [saved EXCEPT !.since = SinceNow(ahead)]
      BY <2>4 DEF StartRun
    <3>3. saved \in [last : [Shards -> Nat], since : Since]
      BY DEF TypeOK, State, SequenceNumber
    <3>4. SinceNow(ahead) \in Since
      BY BoundsAssumption DEF SinceNow, Since, TypeOK
    <3>5. state' \in State /\ state'.last = saved.last
      BY <3>2, <3>3, <3>4 DEF State, SequenceNumber
    <3>6. queue' \in Seq(Shards)
      <4>1. queue' \in SetToSeqs(listed) /\ listed \in SUBSET Shards
        BY <2>4 DEF StartRun, TypeOK
      <4> QED
        BY <4>1, OrderType
    <3>7. NoRows \in [Record -> 0 .. 2]
      BY DEF NoRows
    <3>8. tip' \in [Shards -> Nat]
      BY <2>4, ShardType DEF StartRun, TypeOK
    <3> QED
      BY <2>0, <3>1, <3>3, <3>5, <3>6, <3>7, <3>8 DEF TypeOK, streamVars, destVars
  <2>5. CASE NextShard
    <3>1. /\ queue # <<>> /\ shard' = Head(queue) /\ queue' = Tail(queue)
          /\ iterator' = ShardIterator(shard', state.last[shard'], since)
          /\ UNCHANGED <<streamVars, destVars, pc, state, since, rows, failures>>
      BY <2>5 DEF NextShard
    <3>2. shard' \in Shards /\ queue' \in Seq(Shards)
      BY <3>1 DEF TypeOK
    <3>3. iterator' \in 1 .. Len(arrivals[shard']) + 1 /\ Len(arrivals[shard']) \in Nat
      BY <3>1, <3>2, IteratorType, ShardType
    <3>4. tip' \in [Shards -> Nat]
      BY <2>5, <3>2, ShardType DEF NextShard, TypeOK
    <3> QED
      BY <2>0, <3>1, <3>2, <3>3, <3>4 DEF TypeOK, streamVars, destVars
  <2>6. ASSUME NEW n \in 0 .. ChunkSize, GetRecords(n) PROVE TypeOK'
    <3>1. /\ shard \in Shards /\ iterator' \in Nat \ {0}
          /\ iterator' <= Len(arrivals[shard]) + 1 /\ state' \in State
          /\ \A s \in Shards : state'.last[s] \in 0 .. Len(arrivals[s])
          /\ UNCHANGED <<streamVars, destVars, since, tip, failures>>
      BY <2>6, GetRecordsMoves
    <3>2. rows' \in [Record -> 0 .. 2]
      BY <2>6, GetRecordsMoves, CountsType
    <3>3. queue' \in Seq(Shards)
      BY <2>6, GetRecordsQueues
    <3>4. pc' \in {"reading", "extracted"} /\ (shard' = shard \/ shard' = NoShard)
      BY <2>6 DEF GetRecords
    <3> QED
      BY <2>0, <3>1, <3>2, <3>3, <3>4 DEF TypeOK, streamVars, destVars
  <2>7. CASE FinishExtract
    BY <2>0, <2>7 DEF FinishExtract, TypeOK, streamVars, destVars, readVars
  <2>8. CASE ExtractFails
    <3>1. failures' \in 0 .. MaxFailures /\ EndRun /\ UNCHANGED <<streamVars, destVars>>
      BY <2>8, BoundsAssumption DEF ExtractFails, TypeOK
    <3>2. saved' \in State /\ \A s \in Shards : saved'.last[s] \in 0 .. Len(arrivals[s])
      BY <3>1 DEF TypeOK, destVars
    <3> QED
      BY <2>0, <3>1, <3>2, EndRunType DEF TypeOK, streamVars, destVars
  <2>9. CASE Load
    <3>1. /\ table' = Appended(Yielded) /\ saved' = state /\ EndRun
          /\ UNCHANGED <<streamVars, failures>>
      BY <2>9 DEF Load
    <3>2. table' \in [Record -> 0 .. 2]
      BY <3>1, CountsType
    <3>3. saved' \in State /\ \A s \in Shards : saved'.last[s] \in 0 .. Len(arrivals[s])
      BY <3>1 DEF TypeOK
    <3> QED
      BY <2>0, <3>1, <3>2, <3>3, EndRunType DEF TypeOK, streamVars
  <2>10. CASE LoadFails
    <3>1. EndRun /\ failures' \in 0 .. MaxFailures /\ UNCHANGED <<streamVars, saved>>
      BY <2>10, BoundsAssumption DEF LoadFails, TypeOK
    <3>2. PICK R \in SUBSET Yielded : table' = Appended(R)
      BY <2>10 DEF LoadFails
    <3>3. table' \in [Record -> 0 .. 2]
      BY <3>2, CountsType
    <3>4. saved' \in State /\ \A s \in Shards : saved'.last[s] \in 0 .. Len(arrivals[s])
      BY <3>1 DEF TypeOK
    <3> QED
      BY <2>0, <3>1, <3>3, <3>4, EndRunType DEF TypeOK, streamVars
  <2>11. CASE UNCHANGED vars
    BY <2>11 DEF vars, TypeOK, streamVars, destVars, readVars
  <2> QED
    BY <2>1, <2>2, <2>3, <2>4, <2>5, <2>6, <2>7, <2>8, <2>9, <2>10, <2>11
       DEF Next, Stream, Extract
<1> QED
  BY <1>1, <1>2, PTL DEF Spec

-----------------------------------------------------------------------------
(* What the stream looks like. *)

\* Records arrive in order, none in the future, none in a shard that is not there.
InOrder ==
  \A s \in Shards :
    /\ \A i, j \in 1 .. Len(arrivals[s]) : i <= j => arrivals[s][i] <= arrivals[s][j]
    /\ \A i \in 1 .. Len(arrivals[s]) : arrivals[s][i] <= clock
    /\ s \notin listed => Len(arrivals[s]) = 0

\* What a record that is put changes.
LEMMA PutRecords ==
  ASSUME TypeOK, NEW s \in Shards, Put(s)
  PROVE  /\ s \in listed /\ UNCHANGED <<clock, listed, closed, destVars, pc, readVars, failures>>
         /\ \A q \in Shards : q # s => arrivals'[q] = arrivals[q]
         /\ Len(arrivals'[s]) = Len(arrivals[s]) + 1
         /\ \A i \in 1 .. Len(arrivals[s]) : arrivals'[s][i] = arrivals[s][i]
         /\ arrivals'[s][Len(arrivals[s]) + 1] = clock
<1>1. arrivals' = [arrivals EXCEPT ![s] = Append(@, clock)] /\ s \in listed
  BY DEF Put
<1>2. arrivals \in [Shards -> Seq(0 .. MaxTime)] /\ clock \in 0 .. MaxTime
  BY DEF TypeOK
<1>3. arrivals[s] \in Seq(0 .. MaxTime) /\ arrivals'[s] = Append(arrivals[s], clock)
  BY <1>1, <1>2
<1>4. \A q \in Shards : q # s => arrivals'[q] = arrivals[q]
  BY <1>1, <1>2
<1> QED
  BY <1>1, <1>2, <1>3, <1>4, AppendProperties DEF Put

LEMMA PutOrder == ASSUME TypeOK, InOrder, NEW s \in Shards, Put(s) PROVE InOrder'
<1> SUFFICES ASSUME NEW q \in Shards
             PROVE  /\ \A i, j \in 1 .. Len(arrivals'[q]) :
                         i <= j => arrivals'[q][i] <= arrivals'[q][j]
                    /\ \A i \in 1 .. Len(arrivals'[q]) : arrivals'[q][i] <= clock'
                    /\ q \notin listed' => Len(arrivals'[q]) = 0
  BY DEF InOrder
<1>1. CASE q # s
  BY <1>1, PutRecords DEF InOrder
<1>2. CASE q = s
  <2>1. Len(arrivals[s]) \in Nat /\ clock \in Nat
    BY ShardType
  <2>2. /\ Len(arrivals'[s]) = Len(arrivals[s]) + 1 /\ clock' = clock
        /\ \A i \in 1 .. Len(arrivals[s]) : arrivals'[s][i] = arrivals[s][i]
        /\ arrivals'[s][Len(arrivals[s]) + 1] = clock /\ s \in listed'
    BY PutRecords
  <2>3. \A i \in 1 .. Len(arrivals'[s]) :
          i \in 1 .. Len(arrivals[s]) \/ i = Len(arrivals[s]) + 1
    BY <2>1, <2>2
  <2>4. /\ \A i, j \in 1 .. Len(arrivals[s]) : i <= j => arrivals[s][i] <= arrivals[s][j]
        /\ \A i \in 1 .. Len(arrivals[s]) : arrivals[s][i] <= clock
    BY DEF InOrder
  <2>5. ASSUME NEW i \in 1 .. Len(arrivals'[s]) PROVE arrivals'[s][i] <= clock
    BY <2>1, <2>2, <2>3, <2>4
  <2>6. ASSUME NEW i \in 1 .. Len(arrivals'[s]), NEW j \in 1 .. Len(arrivals'[s]), i <= j
        PROVE  arrivals'[s][i] <= arrivals'[s][j]
    <3>1. CASE j = Len(arrivals[s]) + 1
      BY <2>2, <2>5, <3>1
    <3>2. CASE j \in 1 .. Len(arrivals[s])
      <4>1. i \in 1 .. Len(arrivals[s])
        BY <2>1, <2>2, <2>6, <3>2
      <4> QED
        BY <2>2, <2>4, <2>6, <3>2, <4>1
    <3> QED
      BY <2>3, <3>1, <3>2
  <2> QED
    BY <1>2, <2>2, <2>5, <2>6
<1> QED
  BY <1>1, <1>2

LEMMA StepOrder == TypeOK /\ InOrder /\ [Next]_vars => InOrder'
<1> SUFFICES ASSUME TypeOK, InOrder, [Next]_vars PROVE InOrder'
  OBVIOUS
<1>1. CASE UNCHANGED streamVars
  BY <1>1 DEF InOrder, streamVars
<1>2. CASE Tick
  <2>1. clock' = clock + 1 /\ UNCHANGED <<arrivals, listed>>
    BY <1>2 DEF Tick
  <2>2. ASSUME NEW s \in Shards, NEW i \in 1 .. Len(arrivals[s]) PROVE arrivals[s][i] <= clock + 1
    <3>1. arrivals[s][i] \in 0 .. MaxTime /\ clock \in Nat
      BY ShardType
    <3> QED
      BY <3>1 DEF InOrder
  <2> QED
    BY <2>1, <2>2 DEF InOrder
<1>3. ASSUME NEW s \in Shards, Put(s) PROVE InOrder'
  BY <1>3, PutOrder
<1>4. ASSUME NEW s \in Shards, Split(s) PROVE InOrder'
  BY <1>4 DEF Split, InOrder
<1> QED
  BY <1>1, <1>2, <1>3, <1>4
     DEF Next, Stream, Extract, StartRun, NextShard, GetRecords, FinishExtract, ExtractFails,
         Load, LoadFails, vars

\* Records arrive in order in every reachable state.
THEOREM OrderCorrect == Spec => []InOrder
<1>1. Init => InOrder
  BY DEF Init, InOrder
<1> QED
  BY <1>1, StepOrder, TypeCorrect, PTL DEF Spec

-----------------------------------------------------------------------------
(* The position in a shard and its sequence number. *)

Positioned ==
  pc = "reading" /\ shard # NoShard /\ state.last[shard] # 0
    => iterator = state.last[shard] + 1

LEMMA StepPositioned == TypeOK /\ Positioned /\ [Next]_vars => Positioned'
<1> SUFFICES ASSUME TypeOK, Positioned, [Next]_vars PROVE Positioned'
  OBVIOUS
<1>1. CASE UNCHANGED <<pc, readVars>>
  BY <1>1 DEF Positioned, readVars
<1>2. CASE pc' # "reading"
  BY <1>2 DEF Positioned
<1>3. CASE StartRun
  BY <1>3 DEF StartRun, Positioned
<1>4. CASE NextShard
  BY <1>4 DEF NextShard, Positioned, ShardIterator
<1>5. ASSUME NEW n \in 0 .. ChunkSize, GetRecords(n), pc' = "reading", shard' # NoShard
      PROVE  Positioned'
  <2>1. shard' = shard /\ shard \in Shards
    BY <1>5, GetRecordsMoves DEF GetRecords
  <2>2. /\ iterator \in Nat /\ n \in Nat /\ iterator' = iterator + n /\ pc = "reading"
        /\ state'.last[shard] = IF n # 0 THEN iterator + n - 1 ELSE state.last[shard]
    BY <1>5, <2>1, GetRecordsMoves
  <2>3. shard # NoShard
    BY <1>5, <2>1
  <2> QED
    BY <2>1, <2>2, <2>3 DEF Positioned
<1> QED
  BY <1>1, <1>2, <1>3, <1>4, <1>5
     DEF Next, Stream, Extract, Tick, Put, Split, GetRecords, FinishExtract, ExtractFails,
         Load, LoadFails, EndRun, vars, Positioned

\* A run stands behind the last record it has of the shard, always.
THEOREM PositionCorrect == Spec => []Positioned
<1>1. Init => Positioned
  BY DEF Init, Positioned
<1> QED
  BY <1>1, StepPositioned, TypeCorrect, PTL DEF Spec

-----------------------------------------------------------------------------
(* Nothing is loaded twice, and nothing is left out between two records of a    *)
(* shard that are read.                                                        *)

OnceLoaded ==
  \A r \in Record : table[r] <= 1 /\ (Loaded(r) => r[2] <= saved.last[r[1]])
OnceYielded ==
  \A r \in Record :
    /\ saved.last[r[1]] <= state.last[r[1]]
    /\ rows[r] <= 1
    /\ rows[r] > 0 => saved.last[r[1]] < r[2] /\ r[2] <= state.last[r[1]]

\* What follows a record of the shard, as far as the shard was read, came along.
LoadedOn ==
  \A r, q \in Record :
    r[1] = q[1] /\ r[2] <= q[2] /\ q[2] <= saved.last[q[1]] /\ Loaded(r) => Loaded(q)
ReadOn ==
  \A r, q \in Record :
    r[1] = q[1] /\ r[2] <= q[2] /\ q[2] <= state.last[q[1]] /\ (Loaded(r) \/ rows[r] > 0)
      => Loaded(q) \/ rows[q] > 0

Exact ==
  failures = 0 =>
    /\ OnceLoaded /\ LoadedOn
    /\ pc # "idle" => OnceYielded /\ ReadOn

LEMMA CountType ==
  ASSUME TypeOK, NEW r \in Record
  PROVE  /\ r[1] \in Shards /\ r[2] \in Nat /\ r[2] >= 1
         /\ rows[r] \in 0 .. 2 /\ table[r] \in 0 .. 2
         /\ saved.last[r[1]] \in Nat /\ state.last[r[1]] \in Nat
BY RecordType, ShardType DEF TypeOK

\* What a batch yields: the records from the iterator on.
LEMMA GetRecordsYields ==
  ASSUME TypeOK, NEW n \in 0 .. ChunkSize, GetRecords(n), NEW r \in Record
  PROVE  /\ r \in Batch(n) <=> r[1] = shard /\ iterator <= r[2] /\ r[2] <= iterator + n - 1
         /\ r \in Batch(n) => rows'[r] = Several(rows[r] + 1) /\ rows'[r] > 0
         /\ r \notin Batch(n) => rows'[r] = rows[r]
<1>1. r = <<r[1], r[2]>> /\ r[2] \in Nat /\ iterator \in Nat /\ n \in Nat
  BY RecordType, GetRecordsMoves
<1>2. r \in Batch(n) <=> r[1] = shard /\ r[2] \in iterator .. iterator + n - 1
  BY <1>1 DEF Batch
<1>3. rows'[r] = Several(rows[r] + (IF r \in Batch(n) THEN 1 ELSE 0)) /\ rows[r] \in 0 .. 2
  BY GetRecordsMoves, CountType DEF Counted
<1> QED
  BY <1>1, <1>2, <1>3 DEF Several

\* What a load adds: the rows of the run.
LEMMA LoadAdds ==
  ASSUME TypeOK, Load, NEW r \in Record
  PROVE  table'[r] = Several(table[r] + rows[r])
<1>1. table'[r] = Several(table[r] + (IF r \in Yielded THEN rows[r] ELSE 0))
  BY DEF Load, Appended
<1>2. r \notin Yielded => rows[r] = 0
  BY CountType DEF Yielded
<1> QED
  BY <1>1, <1>2

LEMMA GetRecordsExact ==
  ASSUME TypeOK, Positioned, NEW n \in 0 .. ChunkSize, GetRecords(n),
         OnceLoaded, OnceYielded, ReadOn
  PROVE  OnceYielded' /\ ReadOn'
<1> DEFINE last == state.last[shard]
<1>1. /\ shard \in Shards /\ shard # NoShard /\ pc = "reading" /\ iterator \in Nat /\ n \in Nat
      /\ iterator >= 1 /\ last \in Nat /\ UNCHANGED <<table, saved>>
  BY GetRecordsMoves, ShardType DEF GetRecords, destVars
<1>2. last < iterator /\ (last # 0 => iterator = last + 1)
  BY <1>1 DEF Positioned
<1>3. ASSUME NEW r \in Record
      PROVE  /\ r[1] \in Shards /\ r[2] \in Nat /\ r[2] >= 1
             /\ rows[r] \in 0 .. 2 /\ table[r] \in 0 .. 2
             /\ saved.last[r[1]] \in Nat /\ state.last[r[1]] \in Nat
             /\ r[1] = shard /\ n # 0 => state'.last[r[1]] = iterator + n - 1
             /\ r[1] # shard \/ n = 0 => state'.last[r[1]] = state.last[r[1]]
             /\ r[1] = shard => state.last[r[1]] = last
             /\ Loaded(r)' = Loaded(r) /\ (Loaded(r) => r[2] <= saved.last[r[1]])
             /\ saved.last[r[1]] <= state.last[r[1]] /\ rows[r] <= 1
             /\ rows[r] > 0 => saved.last[r[1]] < r[2] /\ r[2] <= state.last[r[1]]
  BY <1>1, CountType, GetRecordsMoves DEF OnceLoaded, OnceYielded, Loaded
<1> HIDE DEF last
<1>4. ASSUME NEW r \in Record
      PROVE  /\ saved.last[r[1]] <= state'.last[r[1]] /\ rows'[r] <= 1
             /\ rows'[r] > 0 => saved.last[r[1]] < r[2] /\ r[2] <= state'.last[r[1]]
  <2>1. saved.last[r[1]] <= state'.last[r[1]] /\ state.last[r[1]] <= state'.last[r[1]]
    BY <1>1, <1>2, <1>3
  <2>2. CASE r \in Batch(n)
    <3>1. r[1] = shard /\ iterator <= r[2] /\ r[2] <= iterator + n - 1
      BY <2>2, GetRecordsYields
    <3>2. rows[r] = 0 /\ n # 0
      BY <1>1, <1>2, <1>3, <3>1
    <3>3. rows'[r] = 1
      BY <2>2, <3>2, GetRecordsYields DEF Several
    <3> QED
      BY <1>1, <1>2, <1>3, <3>1, <3>2, <3>3
  <2>3. CASE r \notin Batch(n)
    <3>1. rows'[r] = rows[r]
      BY <2>3, GetRecordsYields
    <3>2. state'.last[r[1]] \in Nat
      BY <1>1, <1>3
    <3> QED
      BY <1>3, <2>1, <3>1, <3>2
  <2> QED
    BY <2>2, <2>3
<1>5. ASSUME NEW r \in Record, NEW q \in Record,
             r[1] = q[1], r[2] <= q[2], q[2] <= state'.last[q[1]],
             Loaded(r) \/ rows'[r] > 0
      PROVE  Loaded(q) \/ rows'[q] > 0
  <2>1. CASE q \in Batch(n)
    BY <2>1, GetRecordsYields
  <2>2. CASE q \notin Batch(n)
    <3>1. rows'[q] = rows[q]
      BY <2>2, GetRecordsYields
    <3>2. q[2] < iterator \/ q[1] # shard \/ n = 0
      BY <1>1, <1>3, <1>5, <2>2, GetRecordsYields
    <3>3. r \notin Batch(n)
      BY <1>1, <1>3, <1>5, <3>2, GetRecordsYields
    <3>4. rows'[r] = rows[r]
      BY <3>3, GetRecordsYields
    <3>5. q[2] <= state.last[q[1]]
      <4>1. CASE q[1] # shard \/ n = 0
        BY <1>3, <1>5, <4>1
      <4>2. CASE q[1] = shard /\ n # 0
        <5>1. r[2] <= last
          BY <1>3, <1>5, <3>4, <4>2
        <5>2. last # 0
          BY <1>3, <5>1
        <5> QED
          BY <1>1, <1>2, <1>3, <3>2, <4>2, <5>2
      <4> QED
        BY <4>1, <4>2
    <3> QED
      BY <1>5, <3>1, <3>4, <3>5 DEF ReadOn
  <2> QED
    BY <2>1, <2>2
<1> QED
  BY <1>1, <1>3, <1>4, <1>5 DEF OnceYielded, ReadOn

LEMMA LoadExact ==
  ASSUME TypeOK, Load, OnceLoaded, LoadedOn, OnceYielded, ReadOn
  PROVE  OnceLoaded' /\ LoadedOn'
<1>1. saved' = state
  BY DEF Load
<1>2. ASSUME NEW r \in Record
      PROVE  /\ table'[r] <= 1 /\ (Loaded(r)' <=> Loaded(r) \/ rows[r] > 0)
             /\ Loaded(r)' => r[2] <= state.last[r[1]]
  <2>1. /\ r[2] \in Nat /\ rows[r] \in 0 .. 2 /\ table[r] \in 0 .. 2
        /\ saved.last[r[1]] \in Nat /\ state.last[r[1]] \in Nat
    BY CountType
  <2>2. /\ table[r] <= 1 /\ (table[r] > 0 => r[2] <= saved.last[r[1]])
        /\ saved.last[r[1]] <= state.last[r[1]] /\ rows[r] <= 1
        /\ rows[r] > 0 => saved.last[r[1]] < r[2] /\ r[2] <= state.last[r[1]]
    BY DEF OnceLoaded, OnceYielded, Loaded
  <2>3. table[r] = 0 \/ rows[r] = 0
    BY <2>1, <2>2
  <2>4. table'[r] = table[r] + rows[r]
    BY <2>1, <2>2, <2>3, LoadAdds DEF Several
  <2> QED
    BY <2>1, <2>2, <2>3, <2>4 DEF Loaded
<1>3. OnceLoaded'
  BY <1>1, <1>2 DEF OnceLoaded
<1>4. LoadedOn'
  BY <1>1, <1>2 DEF LoadedOn, ReadOn
<1> QED
  BY <1>3, <1>4

LEMMA StepExact == TypeOK /\ Positioned /\ Exact /\ [Next]_vars => Exact'
<1> SUFFICES ASSUME TypeOK, Positioned, Exact, [Next]_vars, failures' = 0 PROVE Exact'
  BY DEF Exact
<1>0. failures \in Nat /\ MaxFailures \in Nat
  BY BoundsAssumption DEF TypeOK
<1>1. CASE UNCHANGED <<destVars, pc, readVars, failures>>
  BY <1>1 DEF Exact, OnceLoaded, LoadedOn, OnceYielded, ReadOn, Loaded, destVars, readVars
<1>2. CASE StartRun
  <2>1. /\ UNCHANGED <<table, saved, failures>> /\ rows' = NoRows /\ pc = "idle"
    BY <1>2 DEF StartRun, destVars
  <2>2. state'.last = saved.last
    <3>1. PICK ahead \in 0 .. Skew : state' = [saved EXCEPT !.since = SinceNow(ahead)]
      BY <1>2 DEF StartRun
    <3>2. saved \in [last : [Shards -> Nat], since : Since]
      BY DEF TypeOK, State, SequenceNumber
    <3> QED
      BY <3>1, <3>2
  <2>3. OnceLoaded /\ LoadedOn
    BY <2>1 DEF Exact
  <2>4. OnceLoaded' /\ LoadedOn'
    BY <2>1, <2>3 DEF OnceLoaded, LoadedOn, Loaded
  <2>5. \A r \in Record : rows'[r] = 0 /\ saved.last[r[1]] \in Nat
    BY <2>1, CountType DEF NoRows
  <2>6. OnceYielded'
    BY <2>1, <2>2, <2>5 DEF OnceYielded
  <2>7. ReadOn'
    BY <2>1, <2>2, <2>3, <2>5 DEF ReadOn, LoadedOn, Loaded
  <2> QED
    BY <2>4, <2>6, <2>7 DEF Exact
<1>3. CASE NextShard
  BY <1>3 DEF NextShard, Exact, OnceLoaded, LoadedOn, OnceYielded, ReadOn, Loaded, destVars
<1>4. ASSUME NEW n \in 0 .. ChunkSize, GetRecords(n) PROVE Exact'
  <2>1. pc = "reading" /\ UNCHANGED <<table, saved, failures>>
    BY <1>4 DEF GetRecords, destVars
  <2>2. OnceLoaded /\ LoadedOn /\ OnceYielded /\ ReadOn
    BY <2>1 DEF Exact
  <2>3. OnceLoaded' /\ LoadedOn'
    BY <2>1, <2>2 DEF OnceLoaded, LoadedOn, Loaded
  <2>4. OnceYielded' /\ ReadOn'
    BY <1>4, <2>2, GetRecordsExact
  <2> QED
    BY <2>3, <2>4 DEF Exact
<1>5. CASE FinishExtract
  BY <1>5 DEF FinishExtract, Exact, OnceLoaded, LoadedOn, OnceYielded, ReadOn, Loaded,
              destVars, readVars
<1>6. CASE Load
  <2>1. failures' = failures /\ pc = "extracted" /\ pc' = "idle"
    BY <1>6 DEF Load, EndRun
  <2>2. OnceLoaded' /\ LoadedOn'
    BY <1>6, <2>1, LoadExact DEF Exact
  <2> QED
    BY <2>1, <2>2 DEF Exact
<1>7. ~ExtractFails /\ ~LoadFails
  BY <1>0 DEF ExtractFails, LoadFails
<1> QED
  BY <1>1, <1>2, <1>3, <1>4, <1>5, <1>6, <1>7
     DEF Next, Stream, Extract, Tick, Put, Split, vars

\* As long as nothing fails, a shard is loaded without a gap and without a repetition.
THEOREM ExactCorrect == Spec => []Exact
<1>1. Init => Exact
  <2> SUFFICES ASSUME Init PROVE Exact
    OBVIOUS
  <2>1. pc = "idle" /\ \A r \in Record : table[r] = 0
    BY DEF Init
  <2> QED
    BY <2>1 DEF Exact, OnceLoaded, LoadedOn, Loaded
<1> QED
  BY <1>1, StepExact, TypeCorrect, PositionCorrect, PTL DEF Spec

\* While no load fails, no record is appended twice: neither the second of overlap
\* between two runs nor a child shard that is queued twice reads it again.
THEOREM LoadedOnceCorrect == Spec => []LoadedOnce
<1>1. Exact => LoadedOnce
  BY DEF Exact, OnceLoaded, LoadedOnce
<1> QED
  BY <1>1, ExactCorrect, PTL

-----------------------------------------------------------------------------
(* Nothing is skipped. The second that a run takes off its start makes up for a  *)
(* clock that is ahead of the stream's by no more than that.                   *)

\* A start is not in the future of the stream, unless --interval-start says so.
Behind ==
  /\ (saved.since # Epoch /\ saved.since <= clock) \/ saved.since = Start
  /\ pc # "idle" => state.since # Epoch /\ state.since <= clock /\ since = saved.since

Missing(r) == Promised(r) /\ ~Loaded(r)

\* The queue has shard s.
Queued(s) == \E i \in 1 .. Len(queue) : queue[i] = s

\* The run still comes to record r, or its state leaves it to the next one.
Reached(r) ==
  IF state.last[r[1]] # 0 THEN r[2] > state.last[r[1]]
  ELSE /\ ArrivalOf(r) >= since
       /\ Queued(r[1]) \/ r[1] = shard \/ ArrivalOf(r) >= state.since
       /\ r[1] = shard => r[2] >= iterator

SavedReads == \A r \in Record : Missing(r) /\ saved.since # Epoch => ReadFrom(r, saved)
RunReads ==
  \A r \in Record :
    Missing(r) /\ rows[r] = 0 =>
      /\ pc = "reading" => Reached(r)
      /\ pc = "extracted" => ReadFrom(r, state)

NothingLeft == ~Limited => SavedReads /\ RunReads

LEMMA StepBehind ==
  ASSUME Skew <= 1
  PROVE  TypeOK /\ Behind /\ [Next]_vars => Behind'
<1> SUFFICES ASSUME TypeOK, Behind, [Next]_vars PROVE Behind'
  OBVIOUS
<1>0. /\ Start' = Start /\ clock \in Nat /\ Skew \in Nat
      /\ saved.since \in Int /\ state.since \in Int
      /\ saved \in [last : [Shards -> Nat], since : Since]
  BY OptionsStay, BoundsAssumption DEF TypeOK, State, SequenceNumber, Since, SameOptions, Epoch
<1>1. CASE Tick
  BY <1>0, <1>1 DEF Tick, Behind, destVars, readVars
<1>2. CASE StartRun
  <2>1. PICK ahead \in 0 .. Skew : state' = [saved EXCEPT !.since = SinceNow(ahead)]
    BY <1>2 DEF StartRun
  <2>2. state'.since = clock + ahead - 1
    BY <1>0, <2>1 DEF SinceNow
  <2>3. state'.since <= clock /\ state'.since # Epoch
    BY <1>0, <2>1, <2>2 DEF Epoch
  <2> QED
    BY <1>0, <1>2, <2>3 DEF StartRun, Behind, streamVars, destVars
<1>3. ASSUME NEW n \in 0 .. ChunkSize, GetRecords(n) PROVE Behind'
  <2>1. state'.since = state.since /\ pc = "reading" /\ UNCHANGED <<clock, saved, since>>
    BY <1>3, GetRecordsMoves DEF streamVars, destVars
  <2> QED
    BY <1>0, <2>1 DEF Behind
<1>4. CASE Load
  BY <1>4 DEF Load, EndRun, Behind, streamVars
<1>5. CASE UNCHANGED <<clock, saved, pc, readVars>>
  BY <1>0, <1>5 DEF Behind, readVars
<1>6. CASE NextShard \/ FinishExtract \/ ExtractFails \/ LoadFails
  BY <1>0, <1>6 DEF NextShard, FinishExtract, ExtractFails, LoadFails, EndRun, Behind,
                    streamVars, destVars, readVars
<1> QED
  BY <1>1, <1>2, <1>3, <1>4, <1>5, <1>6
     DEF Next, Stream, Extract, Put, Split, vars, streamVars, destVars

LEMMA MissingType ==
  ASSUME TypeOK, NEW r \in Record, Missing(r)
  PROVE  /\ r[1] \in Shards /\ r[1] # NoShard /\ r[2] \in 1 .. Len(arrivals[r[1]])
         /\ ArrivalOf(r) \in Nat
<1>1. r[1] \in Shards /\ r[2] \in 1 .. Len(arrivals[r[1]])
  BY RecordType, ShardType DEF Missing, Promised, Arrived
<1>2. arrivals[r[1]][r[2]] \in 0 .. MaxTime
  BY <1>1, ShardType
<1> QED
  BY <1>1, <1>2, ShardsAssumption DEF ArrivalOf

\* What is missing does not depend on more than the records, the table and the tip.
LEMMA MissingStays ==
  ASSUME TypeOK, UNCHANGED <<arrivals, table, tip>>, Start' = Start,
         NEW r \in Record, Missing(r)'
  PROVE  Missing(r) /\ ArrivalOf(r)' = ArrivalOf(r)
BY DEF Missing, Promised, Arrived, Loaded, ArrivalOf

\* A record that is put is read by a run from any state and by one under way.
LEMMA PutLeft ==
  ASSUME TypeOK, Behind, NEW s \in Shards, Put(s), Start' = Start, Limited' = Limited,
         SavedReads, RunReads
  PROVE  SavedReads' /\ RunReads'
<1>0. /\ UNCHANGED <<clock, table, saved, pc, state, since, queue, shard, iterator, rows, tip>>
      /\ \A q \in Shards : q # s => arrivals'[q] = arrivals[q]
      /\ Len(arrivals'[s]) = Len(arrivals[s]) + 1
      /\ \A i \in 1 .. Len(arrivals[s]) : arrivals'[s][i] = arrivals[s][i]
      /\ arrivals'[s][Len(arrivals[s]) + 1] = clock
  BY PutRecords DEF destVars, readVars
<1> SUFFICES ASSUME NEW r \in Record, Missing(r)'
             PROVE  /\ saved'.since # Epoch => ReadFrom(r, saved)'
                    /\ rows'[r] = 0 => /\ pc' = "reading" => Reached(r)'
                                       /\ pc' = "extracted" => ReadFrom(r, state)'
  BY DEF SavedReads, RunReads
<1>1. /\ r[1] \in Shards /\ r[2] \in Nat /\ r[2] >= 1 /\ Len(arrivals[r[1]]) \in Nat
      /\ saved.last[r[1]] \in 0 .. Len(arrivals[r[1]])
      /\ state.last[r[1]] \in 0 .. Len(arrivals[r[1]])
      /\ saved.since \in Int /\ state.since \in Int /\ since \in Int /\ clock \in Nat
  BY RecordType, ShardType
<1>2. CASE Arrived(r)
  <2>1. arrivals'[r[1]][r[2]] = arrivals[r[1]][r[2]]
    BY <1>0, <1>1, <1>2 DEF Arrived
  <2>2. Missing(r) /\ ArrivalOf(r)' = ArrivalOf(r)
    BY <1>0, <1>2, <2>1 DEF Missing, Promised, ArrivalOf, Loaded
  <2> QED
    BY <1>0, <2>2 DEF SavedReads, RunReads, ReadFrom, Reached, Queued
<1>3. CASE ~Arrived(r)
  <2>1. r[1] = s /\ r[2] = Len(arrivals[s]) + 1
    BY <1>0, <1>1, <1>3 DEF Arrived, Missing, Promised
  <2>2. ArrivalOf(r)' = clock /\ clock >= Start
    BY <1>0, <1>1, <2>1 DEF ArrivalOf, Missing, Promised, Epoch
  <2>3. /\ clock >= saved.since
        /\ pc # "idle" => state.since # Epoch /\ clock >= state.since /\ clock >= since
    BY <1>1, <2>2 DEF Behind
  <2>4. r[2] > saved.last[r[1]] /\ r[2] > state.last[r[1]]
    BY <1>1, <2>1
  <2>5. r[1] = shard => r[2] >= iterator
    <3>1. s # NoShard /\ iterator \in Nat
      BY ShardsAssumption DEF TypeOK
    <3> QED
      BY <2>1, <3>1 DEF TypeOK
  <2>6. saved.since # Epoch => ReadFrom(r, saved)'
    BY <1>0, <2>2, <2>3, <2>4 DEF ReadFrom
  <2>7. pc = "extracted" => ReadFrom(r, state)'
    BY <1>0, <2>2, <2>3, <2>4 DEF ReadFrom
  <2>8. pc = "reading" => Reached(r)'
    BY <1>0, <2>2, <2>3, <2>4, <2>5 DEF Reached
  <2> QED
    BY <1>0, <2>6, <2>7, <2>8
<1> QED
  BY <1>2, <1>3

LEMMA StartLeft ==
  ASSUME TypeOK, InOrder, Behind, StartRun, Start' = Start, SavedReads
  PROVE  SavedReads' /\ RunReads'
<1>0. /\ UNCHANGED <<clock, arrivals, table, saved>>
      /\ since' = saved.since /\ shard' = NoShard /\ pc' = "reading"
      /\ queue' \in SetToSeqs(listed) /\ listed \in SUBSET Shards
  BY DEF StartRun, streamVars, destVars, TypeOK
<1>1. state'.last = saved.last
  <2>1. PICK ahead \in 0 .. Skew : state' = [saved EXCEPT !.since = SinceNow(ahead)]
    BY DEF StartRun
  <2>2. saved \in [last : [Shards -> Nat], since : Since]
    BY DEF TypeOK, State, SequenceNumber
  <2> QED
    BY <2>1, <2>2
<1>2. ASSUME NEW r \in Record, Missing(r)'
      PROVE  ReadFrom(r, saved)' /\ Reached(r)'
  <2>0. saved.since # Epoch
    <3> SUFFICES ASSUME saved.since = Epoch PROVE FALSE
      OBVIOUS
    <3>1. Start = Epoch /\ tip' = [s \in Shards |-> Len(arrivals[s])]
      BY <1>0 DEF Behind, StartRun
    <3>2. r[1] \in Shards /\ r[2] \in Nat /\ Len(arrivals[r[1]]) \in Nat
      BY RecordType, ShardType
    <3>3. r[2] <= Len(arrivals[r[1]]) /\ r[2] > Len(arrivals[r[1]])
      BY <1>0, <1>2, <3>1, <3>2 DEF Missing, Promised, Arrived
    <3> QED
      BY <3>2, <3>3
  <2>1. Missing(r) /\ ArrivalOf(r)' = ArrivalOf(r)
    BY <1>0, <1>2, <2>0, MissingStays DEF StartRun
  <2>2. ReadFrom(r, saved)
    BY <2>0, <2>1 DEF SavedReads
  <2>3. r[1] \in Shards /\ r[1] # NoShard /\ r[2] \in 1 .. Len(arrivals[r[1]])
    BY <2>1, MissingType
  <2>4. r[1] \in listed
    BY <2>3, ShardType DEF InOrder
  <2>5. Queued(r[1])'
    BY <1>0, <2>4, OrderType DEF Queued
  <2> QED
    BY <1>0, <1>1, <2>1, <2>2, <2>3, <2>5 DEF ReadFrom, Reached
<1> QED
  BY <1>0, <1>2 DEF SavedReads, RunReads

LEMMA NextShardLeft ==
  ASSUME TypeOK, Behind, NextShard, Start' = Start, SavedReads, RunReads
  PROVE  SavedReads' /\ RunReads'
<1>0. /\ UNCHANGED <<clock, arrivals, table, saved, pc, state, since, rows>>
      /\ pc = "reading" /\ shard = NoShard /\ queue # <<>> /\ queue \in Seq(Shards)
      /\ shard' = Head(queue) /\ queue' = Tail(queue)
      /\ iterator' = ShardIterator(shard', state.last[shard'], since)
  BY DEF NextShard, streamVars, destVars, TypeOK
<1> DEFINE fromTip == since = Epoch /\ state.last[shard'] = 0
<1>3. shard' \in Shards
  BY <1>0
<1>4. fromTip => Start = Epoch /\ tip' = [tip EXCEPT ![shard'] = Len(arrivals[shard'])]
  BY <1>0 DEF Behind, NextShard
<1>5. ~fromTip => tip' = tip
  BY DEF NextShard
<1>6. ASSUME NEW r \in Record, Missing(r)'
      PROVE  /\ Missing(r) /\ ArrivalOf(r)' = ArrivalOf(r)
             /\ ~(fromTip /\ r[1] = shard')
  <2>1. CASE ~fromTip
    BY <1>0, <1>5, <1>6, <2>1, MissingStays
  <2>2. CASE fromTip
    <3>0. /\ r[1] \in Shards /\ r[2] \in Nat /\ Len(arrivals[r[1]]) \in Nat
          /\ tip \in [Shards -> Nat]
      BY RecordType, ShardType
    <3>1. r[2] > tip'[r[1]] /\ r[2] <= Len(arrivals[r[1]]) /\ ~Loaded(r)
      BY <1>0, <1>4, <1>6, <2>2 DEF Missing, Promised, Arrived, Loaded
    <3>2. r[1] # shard'
      BY <1>3, <1>4, <2>2, <3>0, <3>1
    <3>3. tip'[r[1]] = tip[r[1]]
      BY <1>3, <1>4, <2>2, <3>0, <3>2
    <3> QED
      BY <1>0, <1>4, <2>2, <3>1, <3>2, <3>3 DEF Missing, Promised, Arrived, ArrivalOf
  <2> QED
    BY <2>1, <2>2
<1>1. SavedReads'
  BY <1>0, <1>6 DEF SavedReads, ReadFrom
<1>2. ASSUME NEW r \in Record, Missing(r)', rows'[r] = 0
      PROVE  Reached(r)'
  <2>1. Missing(r) /\ ArrivalOf(r)' = ArrivalOf(r)
    BY <1>2, <1>6
  <2>2. Reached(r)
    BY <1>0, <1>2, <2>1 DEF RunReads
  <2>3. CASE state.last[r[1]] # 0
    BY <1>0, <2>2, <2>3 DEF Reached
  <2>4. CASE state.last[r[1]] = 0
    <3>1. /\ r[1] \in Shards /\ r[1] # NoShard /\ r[2] \in 1 .. Len(arrivals[r[1]])
          /\ ArrivalOf(r) >= since /\ since \in Int
      BY <2>1, <2>2, <2>4, MissingType, ShardType DEF Reached
    <3>2. r[1] = shard' => r[2] >= iterator'
      <4> SUFFICES ASSUME r[1] = shard' PROVE r[2] >= iterator'
        OBVIOUS
      <4>1. iterator' = FirstAt(r[1], since)
        BY <1>0, <1>2, <1>6, <2>4 DEF ShardIterator, FromTimestamp
      <4>2. FirstAt(r[1], since) \in 1 .. Len(arrivals[r[1]]) + 1 /\ Len(arrivals[r[1]]) \in Nat
        BY <3>1, FirstAtType, ShardType
      <4>3. FirstAt(r[1], since) <= r[2]
        BY <3>1, FirstAtType DEF ArrivalOf
      <4> QED
        BY <3>1, <4>1, <4>2, <4>3
    <3>3. Queued(r[1]) => Queued(r[1])' \/ r[1] = shard'
      <4> SUFFICES ASSUME NEW i \in 1 .. Len(queue), queue[i] = r[1]
                   PROVE  Queued(r[1])' \/ r[1] = shard'
        BY DEF Queued
      <4>1. CASE i = 1
        BY <1>0, <4>1
      <4>2. CASE i # 1
        <5>1. i - 1 \in 1 .. Len(Tail(queue)) /\ Tail(queue)[i - 1] = queue[i]
          BY <1>0, <4>2
        <5> QED
          BY <1>0, <5>1 DEF Queued
      <4> QED
        BY <4>1, <4>2
    <3>4. Queued(r[1]) \/ ArrivalOf(r) >= state.since
      BY <1>0, <2>2, <2>4, <3>1 DEF Reached
    <3> QED
      BY <1>0, <2>1, <2>4, <3>1, <3>2, <3>3, <3>4 DEF Reached
  <2> QED
    BY <2>3, <2>4
<1> QED
  BY <1>0, <1>1, <1>2 DEF RunReads

LEMMA GetRecordsLeft ==
  ASSUME TypeOK, InOrder, Positioned, Behind, NEW n \in 0 .. ChunkSize, GetRecords(n),
         ~Limited, Start' = Start, SavedReads, RunReads
  PROVE  SavedReads' /\ RunReads'
<1>0. /\ UNCHANGED <<clock, arrivals, table, saved, since, tip>> /\ pc = "reading" /\ pc' = "reading"
      /\ shard \in Shards /\ shard # NoShard
      /\ shard' = IF BehindLatest(shard, iterator') < 1 THEN NoShard ELSE shard
      /\ iterator \in Nat /\ iterator >= 1 /\ n \in Nat
      /\ iterator' = iterator + n /\ iterator' <= Len(arrivals[shard]) + 1
      /\ state'.since = state.since /\ state.since \in Int
      /\ \A s \in Shards :
           state'.last[s] = IF s = shard /\ n # 0 THEN iterator + n - 1 ELSE state.last[s]
  BY GetRecordsMoves, ShardType DEF GetRecords, streamVars, destVars
<1>1. SavedReads'
  BY <1>0, MissingStays DEF SavedReads, ReadFrom
<1>2. ASSUME NEW r \in Record, Missing(r)', rows'[r] = 0
      PROVE  Reached(r)'
  <2>1. Missing(r) /\ ArrivalOf(r)' = ArrivalOf(r)
    BY <1>0, <1>2, MissingStays
  <2>2. r \notin Batch(n) /\ rows[r] = 0
    BY <1>2, GetRecordsYields
  <2>3. Reached(r)
    BY <1>0, <2>1, <2>2 DEF RunReads
  <2>4. /\ r[1] \in Shards /\ r[1] # NoShard /\ r[2] \in 1 .. Len(arrivals[r[1]])
        /\ ArrivalOf(r) \in Nat /\ Len(arrivals[r[1]]) \in Nat /\ r[2] \in Nat
        /\ state.last[r[1]] \in Nat
    BY <2>1, MissingType, ShardType
  <2>5. Queued(r[1]) => Queued(r[1])'
    BY GetRecordsQueues DEF Queued
  <2>6. CASE r[1] # shard
    <3>1. r[1] # shard' /\ state'.last[r[1]] = state.last[r[1]]
      BY <1>0, <2>4, <2>6
    <3> QED
      BY <1>0, <2>1, <2>3, <2>5, <2>6, <3>1 DEF Reached
  <2>7. CASE r[1] = shard
    <3>1. r[2] >= iterator
      BY <1>0, <2>3, <2>4, <2>7 DEF Reached, Positioned
    <3>2. CASE n # 0
      <4>1. state'.last[r[1]] = iterator + n - 1
        BY <1>0, <2>4, <2>7, <3>2
      <4>2. r[2] > iterator + n - 1
        BY <1>0, <2>2, <2>4, <2>7, <3>1, GetRecordsYields
      <4>3. iterator + n - 1 # 0
        BY <1>0, <3>2
      <4> QED
        BY <4>1, <4>2, <4>3 DEF Reached
    <3>3. CASE n = 0
      <4>1. state'.last[r[1]] = state.last[r[1]] /\ iterator' = iterator
        BY <1>0, <2>4, <3>3
      <4>2. CASE state.last[r[1]] # 0
        BY <2>3, <4>1, <4>2 DEF Reached
      <4>3. CASE state.last[r[1]] = 0
        <5>1. shard' # shard => ArrivalOf(r) >= state.since
          <6> SUFFICES ASSUME shard' # shard PROVE ArrivalOf(r) >= state.since
            OBVIOUS
          <6>1. iterator \in 1 .. Len(arrivals[shard])
            BY <1>0, <2>4, <2>7, <3>1
          <6>2. clock - arrivals[shard][iterator] < 1
            BY <1>0, <2>4, <2>7, <4>1, <6>1 DEF BehindLatest
          <6>3. arrivals[shard][iterator] <= arrivals[shard][r[2]]
            BY <2>4, <2>7, <3>1, <6>1 DEF InOrder
          <6>4. arrivals[shard][iterator] \in 0 .. MaxTime /\ clock \in Nat
            BY <1>0, <6>1, ShardType
          <6>5. state.since <= clock
            BY <1>0 DEF Behind
          <6> QED
            BY <1>0, <2>4, <2>7, <6>2, <6>3, <6>4, <6>5 DEF ArrivalOf
        <5>2. ArrivalOf(r) >= since
          BY <2>3, <4>3 DEF Reached
        <5> QED
          BY <1>0, <2>1, <2>7, <3>1, <4>1, <4>3, <5>1, <5>2 DEF Reached
      <4> QED
        BY <4>2, <4>3
    <3> QED
      BY <3>2, <3>3
  <2> QED
    BY <2>6, <2>7
<1> QED
  BY <1>0, <1>1, <1>2 DEF RunReads

LEMMA LoadLeft ==
  ASSUME TypeOK, Load, Start' = Start, RunReads
  PROVE  SavedReads' /\ RunReads'
<1>1. saved' = state /\ pc = "extracted" /\ pc' = "idle" /\ UNCHANGED <<clock, arrivals, tip>>
  BY DEF Load, EndRun, streamVars
<1>2. ASSUME NEW r \in Record, Missing(r)' PROVE ReadFrom(r, saved)'
  <2>1. table[r] = 0 /\ rows[r] = 0
    <3>1. table'[r] = Several(table[r] + rows[r]) /\ rows[r] \in 0 .. 2 /\ table[r] \in 0 .. 2
      BY LoadAdds, CountType
    <3>2. ~(table'[r] > 0)
      BY <1>2 DEF Missing, Loaded
    <3> QED
      BY <3>1, <3>2 DEF Several
  <2>2. Missing(r) /\ ArrivalOf(r)' = ArrivalOf(r)
    BY <1>1, <1>2, <2>1 DEF Missing, Promised, Arrived, Loaded, ArrivalOf
  <2>3. ReadFrom(r, state)
    BY <1>1, <2>1, <2>2 DEF RunReads
  <2> QED
    BY <1>1, <2>2, <2>3 DEF ReadFrom
<1> QED
  BY <1>1, <1>2 DEF SavedReads, RunReads

\* What was loaded stays in the table when some jobs of a package complete.
LEMMA LoadFailsLeft ==
  ASSUME TypeOK, LoadFails, Start' = Start, SavedReads
  PROVE  SavedReads' /\ RunReads'
<1>1. UNCHANGED <<clock, arrivals, saved, tip>> /\ pc' = "idle"
  BY DEF LoadFails, EndRun, streamVars
<1>2. PICK R \in SUBSET Yielded : table' = Appended(R)
  BY DEF LoadFails
<1>3. ASSUME NEW r \in Record, Missing(r)', saved'.since # Epoch PROVE ReadFrom(r, saved)'
  <2>1. rows[r] \in 0 .. 2 /\ table[r] \in 0 .. 2
    BY CountType
  <2>2. table'[r] = Several(table[r] + (IF r \in R THEN rows[r] ELSE 0))
    BY <1>2 DEF Appended
  <2>3. table[r] = 0
    BY <1>3, <2>1, <2>2 DEF Missing, Loaded, Several
  <2>4. Missing(r) /\ ArrivalOf(r)' = ArrivalOf(r)
    BY <1>1, <1>3, <2>3 DEF Missing, Promised, Arrived, Loaded, ArrivalOf
  <2> QED
    BY <1>1, <1>3, <2>4 DEF SavedReads, ReadFrom
<1> QED
  BY <1>1, <1>3 DEF SavedReads, RunReads

LEMMA StepLeft ==
  TypeOK /\ InOrder /\ Positioned /\ Behind /\ NothingLeft /\ [Next]_vars => NothingLeft'
<1> SUFFICES ASSUME TypeOK, InOrder, Positioned, Behind, NothingLeft, [Next]_vars, ~Limited
             PROVE  SavedReads' /\ RunReads'
  BY OptionsStay DEF NothingLeft, SameOptions
<1>0. SavedReads /\ RunReads /\ Start' = Start /\ Limited' = Limited
  BY OptionsStay DEF NothingLeft, SameOptions
<1>1. CASE UNCHANGED <<arrivals, destVars, pc, readVars>>
  <2>1. UNCHANGED <<arrivals, table, saved, pc, state, since, queue, shard, iterator, rows, tip>>
    BY <1>1 DEF destVars, readVars
  <2> QED
    BY <1>0, <2>1, MissingStays DEF SavedReads, RunReads, ReadFrom, Reached, Queued
<1>2. ASSUME NEW s \in Shards, Put(s) PROVE SavedReads' /\ RunReads'
  BY <1>0, <1>2, PutLeft
<1>3. CASE StartRun
  BY <1>0, <1>3, StartLeft
<1>4. CASE NextShard
  BY <1>0, <1>4, NextShardLeft
<1>5. ASSUME NEW n \in 0 .. ChunkSize, GetRecords(n) PROVE SavedReads' /\ RunReads'
  BY <1>0, <1>5, GetRecordsLeft
<1>6. CASE FinishExtract
  <2>1. /\ pc = "reading" /\ pc' = "extracted" /\ shard = NoShard /\ queue = <<>>
        /\ UNCHANGED <<arrivals, table, saved, state, rows, tip>>
    BY <1>6 DEF FinishExtract, streamVars, destVars, readVars
  <2>2. SavedReads'
    BY <1>0, <2>1, MissingStays DEF SavedReads, ReadFrom
  <2>4. state.since # Epoch
    BY <2>1 DEF Behind
  <2>3. ASSUME NEW r \in Record, Missing(r)', rows'[r] = 0 PROVE ReadFrom(r, state)'
    <3>1. Missing(r) /\ ArrivalOf(r)' = ArrivalOf(r)
      BY <1>0, <2>1, <2>3, MissingStays
    <3>2. Reached(r) /\ r[1] # NoShard
      BY <1>0, <2>1, <2>3, <3>1, MissingType DEF RunReads
    <3>3. ~Queued(r[1])
      BY <2>1 DEF Queued
    <3> QED
      BY <2>1, <2>4, <3>1, <3>2, <3>3 DEF Reached, ReadFrom
  <2> QED
    BY <2>1, <2>2, <2>3 DEF RunReads
<1>7. CASE ExtractFails
  <2>1. UNCHANGED <<arrivals, table, saved, tip>> /\ pc' = "idle"
    BY <1>7 DEF ExtractFails, EndRun, streamVars, destVars
  <2> QED
    BY <1>0, <2>1, MissingStays DEF SavedReads, RunReads, ReadFrom
<1>8. CASE Load
  BY <1>0, <1>8, LoadLeft
<1>9. CASE LoadFails
  BY <1>0, <1>9, LoadFailsLeft
<1> QED
  BY <1>1, <1>2, <1>3, <1>4, <1>5, <1>6, <1>7, <1>8, <1>9
     DEF Next, Stream, Extract, Tick, Split, vars, streamVars

\* What is missing in the table is before the run, or left to the next one.
THEOREM LeftCorrect == ASSUME Skew <= 1 PROVE Spec => [](Behind /\ NothingLeft)
<1>1. Init => Behind /\ NothingLeft
  <2> SUFFICES ASSUME Init PROVE Behind /\ NothingLeft
    OBVIOUS
  <2>1. \A r \in Record : ~Missing(r)
    <3> SUFFICES ASSUME NEW r \in Record PROVE ~Arrived(r)
      BY DEF Missing, Promised
    <3> QED
      BY RecordType DEF Init, Arrived
  <2> QED
    BY <2>1 DEF Init, Behind, NothingLeft, SavedReads, RunReads
<1>2. TypeOK /\ Behind /\ [Next]_vars => Behind'
  BY StepBehind
<1> QED
  BY <1>1, <1>2, StepLeft, TypeCorrect, OrderCorrect, PositionCorrect, PTL DEF Spec

\* Every wanted record is in the table or is read by the next run, when the machine's
\* clock is at most a second ahead of the stream's: one that arrived at or after
\* --interval-start or, where that is the epoch, at the tip of its shard. A yield limit
\* leaves out no more than the beginning of a shard.
THEOREM NothingSkippedCorrect == ASSUME Skew <= 1 PROVE Spec => []NothingSkipped
<1>1. TypeOK /\ Exact /\ NothingLeft => NothingSkipped
  <2> SUFFICES ASSUME TypeOK, Exact, NothingLeft, NEW r \in Record,
                      Missing(r), saved.since # Epoch, ~ReadFrom(r, saved)
               PROVE  /\ Limited
                      /\ failures = 0 => \A i \in 1 .. r[2] : ~Loaded(<<r[1], i>>)
    BY DEF NothingSkipped, Missing, Wanted
  <2>1. Limited
    BY DEF NothingLeft, SavedReads
  <2>2. ASSUME failures = 0, NEW i \in 1 .. r[2], Loaded(<<r[1], i>>) PROVE FALSE
    <3>1. /\ r[1] \in Shards /\ r[2] \in 1 .. MaxRecords[r[1]] /\ MaxRecords[r[1]] \in Nat
          /\ saved.last[r[1]] \in Nat
      BY RecordType, ShardType
    <3>2. i \in 1 .. MaxRecords[r[1]]
      BY <2>2, <3>1
    <3>3. <<r[1], i>> \in Record
      BY <3>1, <3>2, RecordPair
    <3>4. i <= saved.last[r[1]]
      BY <2>2, <3>3 DEF Exact, OnceLoaded
    <3>5. r[2] <= saved.last[r[1]]
      BY <3>1, <3>2, <3>4 DEF ReadFrom
    <3>6. i <= r[2]
      BY <2>2, <3>1
    <3>7. Loaded(r)
      BY <2>2, <3>3, <3>5, <3>6 DEF Exact, LoadedOn
    <3> QED
      BY <3>7 DEF Missing
  <2> QED
    BY <2>1, <2>2
<1>2. Spec => [](Behind /\ NothingLeft)
  BY LeftCorrect
<1> QED
  BY <1>1, <1>2, TypeCorrect, ExactCorrect, PTL
=============================================================================

---------------------------- MODULE KafkaSource ----------------------------
(***************************************************************************)
(* Incremental extraction from Kafka: OffsetTracker (kafka/helpers.py) and  *)
(* the reading loop of kafka_consumer (kafka/adapter.py), for a sequence of *)
(* `omniload ingest` runs over one topic while producers append to it.      *)
(*                                                                         *)
(* External, modelled from their use: the Kafka cluster (a log per          *)
(* partition, retention), confluent_kafka's consumer, and dlt (the resource *)
(* state is committed with the rows extracted under it, a "replace" run     *)
(* starts from an empty resource state, a package left in a persistent      *)
(* working directory is loaded INSTEAD of extracting).                      *)
(***************************************************************************)
EXTENDS Integers, FiniteSets

CONSTANTS
  Partitions,     \* the partitions of the topic
  MaxMessages,    \* bound: messages per partition
  BatchSize,      \* ?batch_size=
  Options,        \* the command lines considered
  Older,          \* Older[p]: how many first messages of p precede --interval-start
  Retention,      \* whether the cluster deletes old messages
  MaxFailures     \* bound: error events, extractions and loads that fail

ASSUME BoundsAssumption ==
  /\ MaxMessages \in Nat /\ BatchSize \in Nat \ {0} /\ MaxFailures \in Nat
ASSUME PartitionsAssumption == IsFiniteSet(Partitions)
ASSUME OptionsAssumption ==
  Options \subseteq [strategy : {"append", "merge", "replace"}, startFrom : BOOLEAN,
                     persistentDir : BOOLEAN, limited : BOOLEAN]
ASSUME ClusterAssumption == Older \in [Partitions -> Nat] /\ Retention \in BOOLEAN

VARIABLES
  options,     \* the command line all runs are started with
  (* the cluster *)
  low, high,   \* retained offsets of p are low[p] .. high[p] - 1
  (* the destination *)
  table,       \* table[m]: rows of message m, 2 standing for "several"
  saved,       \* "offsets" of the state the destination holds, -1 for no entry
  (* the working directory of the pipeline *)
  local,       \* "offsets" of the state there
  package,     \* the pending load package, NoPackage when there is none
  (* one run *)
  pc,
  tracker,     \* OffsetTracker: cur and max per partition
  position,    \* the consumer's position
  offsets,     \* the resource state the extraction works on
  rows,        \* messages yielded so far
  failures

clusterVars == <<low, high>>
destVars == <<table, saved>>
dirVars == <<local, package>>
readVars == <<tracker, position, offsets, rows>>
vars == <<clusterVars, destVars, dirVars, pc, readVars, failures, options>>

Strategy == options.strategy            \* --incremental-strategy
StartFrom == options.startFrom          \* --interval-start is given
PersistentDir == options.persistentDir  \* --pipelines-dir is given
Limited == options.limited              \* --yield-limit may close the generator

Message == Partitions \X (0 .. MaxMessages - 1)
PartOf(m) == m[1]
OffsetOf(m) == m[2]
Expired(m) == OffsetOf(m) < low[PartOf(m)]
\* Messages at or after --interval-start, all of them without it.
Wanted(m) == StartFrom => OffsetOf(m) >= Older[PartOf(m)]

NoOffsets == [p \in Partitions |-> -1]
NoPackage == [pending |-> FALSE, rows |-> {}, offsets |-> NoOffsets]
Package(R, o) == [pending |-> TRUE, rows |-> R, offsets |-> o]
Pending == package.pending

\* The state a run starts from: a fresh directory is synced from the destination.
Restored == IF PersistentDir THEN local ELSE saved

Larger(a, b) == IF a > b THEN a ELSE b

Init ==
  /\ options \in Options
  /\ low = [p \in Partitions |-> 0] /\ high = [p \in Partitions |-> 0]
  /\ table = [m \in Message |-> 0] /\ saved = NoOffsets
  /\ local = NoOffsets /\ package = NoPackage
  /\ pc = "idle" /\ failures = 0
  /\ tracker = [p \in Partitions |-> [cur |-> 0, max |-> 0]]
  /\ position = [p \in Partitions |-> 0]
  /\ offsets = NoOffsets /\ rows = {}

-----------------------------------------------------------------------------
(* The cluster. *)

Produce(p) ==
  /\ high[p] < MaxMessages
  /\ high' = [high EXCEPT ![p] = @ + 1]
  /\ UNCHANGED <<low, destVars, dirVars, pc, readVars, failures>>

Expire(p) ==
  /\ Retention /\ low[p] < high[p]
  /\ low' = [low EXCEPT ![p] = @ + 1]
  /\ UNCHANGED <<high, destVars, dirVars, pc, readVars, failures>>

-----------------------------------------------------------------------------
(* Starting a run. *)

\* offsets_for_times: the first offset at or after the timestamp, -1 if there is none.
OffsetForTime(p) ==
  IF high[p] > Older[p] THEN Larger(low[p], Older[p]) ELSE -1

\* MUTANT of FirstOffset: the saved offset is taken for the next one to read.
FirstOffsetAgain(p, state) == Larger(state[p], 0)

\* MUTANT of FirstOffset: one is added where the offset is saved and again here.
FirstOffsetTwice(p, state) == state[p] + 2

\* _init_partition_offsets: where partition p is read from.
FirstOffset(p, state) ==
  IF ~StartFrom THEN state[p] + 1
  ELSE IF OffsetForTime(p) # -1 THEN OffsetForTime(p)
  ELSE high[p] - 1

\* consumer.assign; offset -1 is Kafka's "end of the partition".
Assigned(p, first) == IF first = -1 THEN high[p] ELSE first

\* OffsetTracker.__init__ on the resource state, empty for a "replace" resource.
StartRun ==
  /\ pc = "idle" /\ ~Pending
  /\ LET state == IF Strategy = "replace" THEN NoOffsets ELSE Restored
         first == [p \in Partitions |-> FirstOffset(p, state)]
     IN /\ offsets' = state
        /\ tracker' = [p \in Partitions |-> [cur |-> first[p], max |-> high[p]]]
        /\ position' = [p \in Partitions |-> Assigned(p, first[p])]
  /\ rows' = {}
  /\ pc' = "consuming"
  /\ UNCHANGED <<clusterVars, destVars, dirVars, failures>>

\* dlt finds the package of an earlier run and loads it instead of extracting.
StartWithPending ==
  /\ pc = "idle" /\ Pending
  /\ pc' = "loading"
  /\ UNCHANGED <<clusterVars, destVars, dirVars, readVars, failures>>

-----------------------------------------------------------------------------
(* The reading loop of kafka_consumer. *)

\* OffsetTracker.has_unread
HasUnread(t) == \E p \in Partitions : t[p].cur + 1 < t[p].max

\* The extract step ends: rows and state go to the working directory together.
CommitExtract(R, o) ==
  /\ package' = Package(R, o)
  /\ local' = o
  /\ pc' = "loading"

\* auto.offset.reset=earliest: a position that retention deleted becomes low.
FetchFrom(p) == Larger(position[p], low[p])
Fetched(n) == {m \in Message : /\ n[PartOf(m)] > 0
                               /\ OffsetOf(m) >= FetchFrom(PartOf(m))
                               /\ OffsetOf(m) < FetchFrom(PartOf(m)) + n[PartOf(m)]}
LastFetched(p, n) == FetchFrom(p) + n[p] - 1

\* consumer.consume returns a batch; renew follows each message, the batch is
\* yielded, and has_unread decides whether to go on.
Renewed(t, n) ==
  [p \in Partitions |-> IF n[p] = 0 THEN t[p] ELSE [t[p] EXCEPT !.cur = LastFetched(p, n)]]
\* MUTANT of RenewedOffsets: renew saves the next offset, not the one read.
RenewedToNext(o, n) ==
  [p \in Partitions |-> IF n[p] = 0 THEN o[p] ELSE LastFetched(p, n) + 1]
RenewedOffsets(o, n) ==
  [p \in Partitions |-> IF n[p] = 0 THEN o[p] ELSE LastFetched(p, n)]

Consume(n) ==
  /\ pc = "consuming"
  /\ \A p \in Partitions : n[p] > 0 => FetchFrom(p) + n[p] <= high[p]
  /\ Cardinality(Fetched(n)) \in 1 .. BatchSize
  /\ tracker' = Renewed(tracker, n)
  /\ offsets' = RenewedOffsets(offsets, n)
  /\ position' = [p \in Partitions |->
                    IF n[p] = 0 THEN position[p] ELSE FetchFrom(p) + n[p]]
  /\ rows' = rows \cup Fetched(n)
  /\ \/ HasUnread(tracker') /\ pc' = "consuming" /\ UNCHANGED dirVars
     \/ (Limited \/ ~HasUnread(tracker')) /\ CommitExtract(rows', offsets')
  /\ UNCHANGED <<clusterVars, destVars, failures>>

\* A batch of non-fatal error events: logged, an empty batch is yielded, and
\* has_unread decides as after any batch.
NonFatalErrors ==
  /\ pc = "consuming" /\ ~HasUnread(tracker)
  /\ failures < MaxFailures /\ failures' = failures + 1
  /\ CommitExtract(rows, offsets)
  /\ UNCHANGED <<clusterVars, destVars, tracker, position, offsets, rows>>

\* consume returns nothing within batch_timeout: the loop breaks.
ConsumeNothing ==
  /\ pc = "consuming"
  /\ CommitExtract(rows, offsets)
  /\ UNCHANGED <<clusterVars, destVars, readVars, failures>>

\* A fatal error event, a value the decoder rejects, or a kill: the state is dropped.
ExtractFails ==
  /\ pc = "consuming" /\ failures < MaxFailures
  /\ failures' = failures + 1
  /\ pc' = "idle"
  /\ UNCHANGED <<clusterVars, destVars, dirVars, readVars>>

-----------------------------------------------------------------------------
(* The load step: the jobs of the package, then its entry in _dlt_loads, which *)
(* makes the state that came with it the one later runs restore.               *)

Several(k) == IF k > 2 THEN 2 ELSE k
\* table once the jobs holding the rows R of the package have completed
Written(R) ==
  [m \in Message |->
    CASE Strategy = "append"  -> Several(table[m] + (IF m \in R THEN 1 ELSE 0))
      [] Strategy = "merge"   -> IF m \in R THEN 1 ELSE table[m]
      [] Strategy = "replace" -> IF m \in R THEN 1 ELSE 0]

\* The jobs a later load of the kept package has to do: all of them again where
\* that changes nothing.
Remaining(R) ==
  [package EXCEPT !.rows = IF Strategy = "append" THEN @ \ R ELSE @]

LoadJobs ==
  /\ pc = "loading"
  /\ table' = Written(package.rows)
  /\ package' = Remaining(package.rows)
  /\ pc' = "loaded"
  /\ UNCHANGED <<clusterVars, saved, local, readVars, failures>>

CompleteLoad ==
  /\ pc = "loaded"
  /\ saved' = package.offsets
  /\ package' = NoPackage
  /\ pc' = "idle"
  /\ UNCHANGED <<clusterVars, table, local, readVars, failures>>

\* MUTANT of LoadFails: the state is kept although the rows were not loaded.
LoadFailsKeepsState ==
  /\ failures < MaxFailures /\ pc = "loading"
  /\ failures' = failures + 1
  /\ saved' = package.offsets /\ package' = NoPackage
  /\ pc' = "idle"
  /\ UNCHANGED <<clusterVars, table, local, readVars>>

\* MUTANT of LoadFails: the package does not survive in the working directory.
LoadFailsDropsPackage ==
  /\ failures < MaxFailures /\ pc = "loading"
  /\ failures' = failures + 1
  /\ package' = NoPackage
  /\ pc' = "idle"
  /\ UNCHANGED <<clusterVars, destVars, local, readVars>>

\* Some jobs completed, then one failed or the process was killed.  A persistent
\* directory keeps the package with the jobs that remain; a temporary one is gone.
LoadFails ==
  /\ failures < MaxFailures
  /\ \/ /\ pc = "loading"
        /\ \E R \in SUBSET package.rows :
             /\ Strategy # "append" => R \in {{}, package.rows}
             /\ table' = Written(R) \/ (R = {} /\ UNCHANGED table)
             /\ package' = IF PersistentDir THEN Remaining(R) ELSE NoPackage
     \/ /\ pc = "loaded"
        /\ package' = IF PersistentDir THEN package ELSE NoPackage
        /\ UNCHANGED table
  /\ failures' = failures + 1
  /\ pc' = "idle"
  /\ UNCHANGED <<clusterVars, saved, local, readVars>>

-----------------------------------------------------------------------------
Consumption == \E n \in [Partitions -> 0 .. BatchSize] : Consume(n)
Extract ==
  \/ StartRun \/ StartWithPending
  \/ Consumption \/ NonFatalErrors \/ ConsumeNothing
Load == LoadJobs \/ CompleteLoad
Fault == ExtractFails \/ LoadFails
Cluster == \E p \in Partitions : Produce(p) \/ Expire(p)

Next == (Extract \/ Load \/ Fault \/ Cluster) /\ UNCHANGED options

Spec == Init /\ [][Next]_vars

(* Schedules keep starting runs, steps of a run are taken, and the consumer     *)
(* does not leave one partition out forever.                                   *)
FairSpec ==
  /\ Spec
  /\ WF_vars(Extract /\ UNCHANGED options) /\ WF_vars(Load /\ UNCHANGED options)
  /\ \A p \in Partitions :
       SF_vars(\E n \in [Partitions -> 0 .. BatchSize] :
                 n[p] > 0 /\ Consume(n) /\ UNCHANGED options)

-----------------------------------------------------------------------------
Offset == -1 .. MaxMessages - 1

TypeOK ==
  /\ options \in Options
  /\ low \in [Partitions -> 0 .. MaxMessages] /\ high \in [Partitions -> 0 .. MaxMessages]
  /\ table \in [Message -> 0 .. 2]
  /\ {saved, local, offsets} \subseteq [Partitions -> Offset]
  /\ package \in [pending : BOOLEAN, rows : SUBSET Message, offsets : [Partitions -> Offset]]
  /\ pc \in {"idle", "consuming", "loading", "loaded"}
  /\ pc \in {"loading", "loaded"} => Pending
  /\ tracker \in [Partitions -> [cur : -1 .. MaxMessages, max : 0 .. MaxMessages]]
  /\ position \in [Partitions -> 0 .. MaxMessages]
  /\ rows \in SUBSET Message
  /\ failures \in 0 .. MaxFailures

(* No message is skipped: each wanted message behind the offset the next run   *)
(* starts from is in the table, unless its retention ended first.  An offset is *)
(* saved (renew) before the rows read with it are loaded, so this is about      *)
(* every failure between the two.                                              *)
Covered(m) == OffsetOf(m) <= Restored[PartOf(m)]
InPackage(m) == Pending /\ m \in package.rows
Loaded(m) == table[m] > 0
NothingSkipped ==
  Strategy # "replace" =>
    \A m \in Message : Covered(m) /\ Wanted(m) => Loaded(m) \/ InPackage(m) \/ Expired(m)

(* The same as the promise of the streaming sources: an offset in the state of  *)
(* the destination plays the part of an acknowledgement, unless every run goes  *)
(* back to --interval-start.                                                   *)
Promise == INSTANCE Delivery WITH
  Msgs <- Message,
  delivered <- {m \in Message : Loaded(m)},
  acknowledged <- {m \in Message : /\ ~StartFrom /\ OffsetOf(m) <= saved[PartOf(m)]
                                   /\ Expired(m) => Loaded(m)}
ImplementsDelivery == Promise!Spec

(* A message is in the table once: partial loads and retries do not append it   *)
(* twice when the working directory survives, and merging makes them harmless. *)
LoadedOnce ==
  Strategy # "append" \/ (PersistentDir /\ ~StartFrom) => \A m \in Message : table[m] <= 1

(* Every message at or after --interval-start reaches the table or its retention *)
(* ends, however producers, timeouts of the consumer and failures interleave:    *)
(* again and again, and so for good, there is none that is neither.              *)
EventuallyLoaded ==
  \A m \in Message :
    []<>(OffsetOf(m) < high[PartOf(m)] /\ Wanted(m) => Loaded(m) \/ Expired(m))
=============================================================================

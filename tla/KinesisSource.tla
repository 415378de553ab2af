--------------------------- MODULE KinesisSource ---------------------------
(***************************************************************************)
(* Incremental extraction from Kinesis: kinesis_stream                      *)
(* (kinesis/adapter.py) and get_shard_iterator (kinesis/helpers.py), for a  *)
(* sequence of `omniload ingest` runs over one stream while records arrive  *)
(* and shards are split.                                                   *)
(*                                                                         *)
(* External, modelled from their use: the stream, and dlt, which commits    *)
(* the resource state and the incremental value of a run with its rows.     *)
(* Time is counted in seconds, the unit of both margins of the code         *)
(* (milliseconds_behind_latest=1000 and subtract(seconds=1)).               *)
(***************************************************************************)
EXTENDS Integers, Sequences, FiniteSets, SequencesExt

CONSTANTS
  Shards,         \* the shards the stream ever has
  Children,       \* Children[s]: the shards that replace s when it is closed
  MaxRecords,     \* bound: MaxRecords[s] records in shard s
  MaxTime,        \* bound: seconds
  ChunkSize,      \* chunk_size
  Options,        \* the command lines considered
  Skew,           \* seconds by which the machine's clock may run ahead of the stream's
  MaxFailures     \* bound: extractions and loads that fail

ASSUME BoundsAssumption ==
  /\ {MaxTime, Skew, MaxFailures} \subseteq Nat
  /\ ChunkSize \in Nat \ {0} /\ MaxRecords \in [Shards -> Nat]
Epoch == -2  \* the time whose timestamp is 0; the model counts from a later moment
ASSUME OptionsAssumption ==
  Options \subseteq [start : {Epoch} \cup 0 .. MaxTime, limited : BOOLEAN]
NoShard == "none"
ASSUME ShardsAssumption ==
  /\ IsFiniteSet(Shards) /\ NoShard \notin Shards
  /\ Children \in [Shards -> SUBSET Shards]

VARIABLES
  options,     \* the command line of all runs
  (* the stream *)
  clock,
  arrivals,    \* arrivals[s]: arrival times of the records of s, in sequence order
  listed,      \* shards list_shards returns
  closed,      \* those that take no more records
  (* the destination *)
  table,       \* table[r]: rows of record r, 2 standing for "several"
  saved,       \* the state that comes with it
  (* one run *)
  pc,
  state,       \* the state the extraction works on
  since,       \* initial_at_datetime
  queue,       \* shard_ids
  shard,       \* shard_id, NoShard between two shards
  iterator,    \* position of the next record of that shard
  rows,        \* rows[r]: how often record r was yielded, 2 standing for "several"
  tip,         \* history: where shard s ended when a LATEST start set in
  failures

streamVars == <<clock, arrivals, listed, closed>>
destVars == <<table, saved>>
readVars == <<state, since, queue, shard, iterator, rows, tip>>
vars == <<streamVars, destVars, pc, readVars, failures, options>>

Start == options.start      \* --interval-start
Limited == options.limited  \* --yield-limit may close the generator after a batch

\* A record is a shard and a sequence number, from 1; 0 is no sequence number.
Record == UNION {{s} \X (1 .. MaxRecords[s]) : s \in Shards}
Arrived(r) == r[2] <= Len(arrivals[r[1]])
ArrivalOf(r) == arrivals[r[1]][r[2]]

\* last: the incremental's mapping of shard to sequence number;
\* since: initial_at_timestamp in the resource state.
Since == {Epoch} \cup -1 .. MaxTime + Skew
SequenceNumber == Nat
State == [last : [Shards -> SequenceNumber], since : Since]

NoRows == [r \in Record |-> 0]
Several(k) == IF k > 2 THEN 2 ELSE k
\* counts of rows with one more of each record in R
Counted(counts, R) == [r \in Record |-> Several(counts[r] + (IF r \in R THEN 1 ELSE 0))]

\* Every shard that no other one is split into exists from the beginning.
FirstShards == Shards \ UNION {Children[s] : s \in Shards}

Init ==
  /\ options \in Options
  /\ clock = 0 /\ arrivals = [s \in Shards |-> <<>>]
  /\ listed = FirstShards /\ closed = {}
  /\ table = [r \in Record |-> 0]
  /\ saved = [last |-> [s \in Shards |-> 0], since |-> Start]
  /\ pc = "idle" /\ failures = 0
  /\ state = saved /\ since = Start
  /\ queue = <<>> /\ shard = NoShard /\ iterator = 1 /\ rows = NoRows
  /\ tip = [s \in Shards |-> 0]

-----------------------------------------------------------------------------
(* The stream. *)

Tick ==
  /\ clock < MaxTime
  /\ clock' = clock + 1
  /\ UNCHANGED <<arrivals, listed, closed, destVars, pc, readVars, failures>>

Put(s) ==
  /\ s \in listed \ closed /\ Len(arrivals[s]) < MaxRecords[s]
  /\ arrivals' = [arrivals EXCEPT ![s] = Append(@, clock)]
  /\ UNCHANGED <<clock, listed, closed, destVars, pc, readVars, failures>>

Split(s) ==
  /\ s \in listed \ closed /\ Children[s] # {}
  /\ closed' = closed \cup {s}
  /\ listed' = listed \cup Children[s]
  /\ UNCHANGED <<clock, arrivals, destVars, pc, readVars, failures>>

-----------------------------------------------------------------------------
(* kinesis_stream *)

\* MUTANT of SinceNow: the next run starts from now itself.
SinceExactlyNow(ahead) == clock + ahead
\* pendulum.now().subtract(seconds=1): the next run's start for shards that have no
\* sequence number yet.
SinceNow(ahead) == clock + ahead - 1

\* The state is read and moved on, then the shards are listed, in any order.
StartRun ==
  /\ pc = "idle"
  /\ since' = saved.since
  /\ \E ahead \in 0 .. Skew : state' = [saved EXCEPT !.since = SinceNow(ahead)]
  /\ queue' \in SetToSeqs(listed)
  /\ shard' = NoShard /\ rows' = NoRows
  /\ tip' = IF since' = Epoch THEN [s \in Shards |-> Len(arrivals[s])] ELSE tip
  /\ pc' = "reading"
  /\ UNCHANGED <<streamVars, destVars, iterator, failures>>

\* AT_TIMESTAMP: the first record that arrived at t or later.
FirstAt(s, t) ==
  LET at == {i \in 1 .. Len(arrivals[s]) : arrivals[s][i] >= t}
  IN IF at = {} THEN Len(arrivals[s]) + 1 ELSE CHOOSE i \in at : \A j \in at : i <= j

\* LATEST: behind the last record there is.
Latest(s) == Len(arrivals[s]) + 1
\* A timestamp of 0 asks for the tip of the stream.
FromTimestamp(s, t) == IF t = Epoch THEN Latest(s) ELSE FirstAt(s, t)

\* MUTANT of ShardIterator: AT_SEQUENCE_NUMBER instead of AFTER_SEQUENCE_NUMBER.
ShardIteratorAt(s, last, t) == IF last # 0 THEN last ELSE FromTimestamp(s, t)
\* MUTANT of ShardIterator: the sequence number is counted on twice.
ShardIteratorTwice(s, last, t) == IF last # 0 THEN last + 2 ELSE FromTimestamp(s, t)
\* MUTANT of ShardIterator: LATEST for a shard that was never read.
ShardIteratorLatest(s, last, t) == IF last # 0 THEN last + 1 ELSE Latest(s)
\* get_shard_iterator: after the last sequence number, else from the timestamp.
ShardIterator(s, last, t) == IF last # 0 THEN last + 1 ELSE FromTimestamp(s, t)

NextShard ==
  /\ pc = "reading" /\ shard = NoShard /\ queue # <<>>
  /\ shard' = Head(queue) /\ queue' = Tail(queue)
  /\ iterator' = ShardIterator(shard', state.last[shard'], since)
  /\ tip' = IF since = Epoch /\ state.last[shard'] = 0
            THEN [tip EXCEPT ![shard'] = Len(arrivals[shard'])] ELSE tip
  /\ UNCHANGED <<streamVars, destVars, pc, state, since, rows, failures>>

\* MillisBehindLatest of a response that ends before the record at position i.
BehindLatest(s, i) == IF i > Len(arrivals[s]) THEN 0 ELSE clock - arrivals[s][i]

\* ChildShards of such a response: only at the end of a closed shard.
ChildShards(s, i) == IF s \in closed /\ i > Len(arrivals[s]) THEN Children[s] ELSE {}

Batch(n) == {shard} \X (iterator .. iterator + n - 1)

\* get_records returns n records, which are yielded and move the incremental on;
\* child shards are queued even when they are listed (the test compares an id
\* with shard descriptions); a shard less than a second behind is left.
GetRecords(n) ==
  /\ pc = "reading" /\ shard # NoShard
  /\ iterator' = iterator + n /\ iterator' <= Len(arrivals[shard]) + 1
  /\ rows' = Counted(rows, Batch(n))
  /\ state' = [state EXCEPT !.last[shard] = IF n = 0 THEN @ ELSE iterator' - 1]
  /\ \/ /\ \E new \in SetToSeqs(ChildShards(shard, iterator')) : queue' = queue \o new
        /\ shard' = IF BehindLatest(shard, iterator') < 1 THEN NoShard ELSE shard
        /\ UNCHANGED pc
     \/ /\ Limited
        /\ pc' = "extracted"
        /\ UNCHANGED <<queue, shard>>
  /\ UNCHANGED <<streamVars, destVars, since, tip, failures>>

\* The process is over.
EndRun ==
  /\ pc' = "idle"
  /\ state' = saved' /\ since' = saved'.since
  /\ queue' = <<>> /\ shard' = NoShard /\ iterator' = 1 /\ rows' = NoRows
  /\ UNCHANGED tip

FinishExtract ==
  /\ pc = "reading" /\ shard = NoShard /\ queue = <<>>
  /\ pc' = "extracted"
  /\ UNCHANGED <<streamVars, destVars, readVars, failures>>

\* A client error, a record that is not JSON, or a kill: the state is dropped.
ExtractFails ==
  /\ pc = "reading" /\ failures < MaxFailures
  /\ failures' = failures + 1
  /\ UNCHANGED <<streamVars, destVars>>
  /\ EndRun

-----------------------------------------------------------------------------
(* The load: the rows are appended, then the state becomes the current one.    *)

Yielded == {r \in Record : rows[r] > 0}
\* the table once the jobs with the rows of the records R have completed
Appended(R) ==
  [r \in Record |-> Several(table[r] + (IF r \in R THEN rows[r] ELSE 0))]

Load ==
  /\ pc = "extracted"
  /\ table' = Appended(Yielded)
  /\ saved' = state
  /\ EndRun
  /\ UNCHANGED <<streamVars, failures>>

\* Some jobs of the package completed; its temporary directory is gone.
LoadFails ==
  /\ pc = "extracted" /\ failures < MaxFailures
  /\ \E R \in SUBSET Yielded : table' = Appended(R)
  /\ failures' = failures + 1
  /\ UNCHANGED <<streamVars, saved>>
  /\ EndRun

Stream == Tick \/ \E s \in Shards : Put(s) \/ Split(s)
Extract == StartRun \/ NextShard \/ (\E n \in 0 .. ChunkSize : GetRecords(n)) \/ FinishExtract
Next == (Stream \/ Extract \/ Load \/ ExtractFails \/ LoadFails) /\ UNCHANGED options

Spec == Init /\ [][Next]_vars

(* Runs are started and go on, and get_records does not return empty batches    *)
(* for records that are there forever.                                         *)
FairSpec ==
  /\ Spec
  /\ WF_vars(Extract /\ UNCHANGED options) /\ WF_vars(Load /\ UNCHANGED options)
  /\ WF_vars(Tick /\ UNCHANGED options)
  /\ SF_vars((\E n \in 1 .. ChunkSize : GetRecords(n)) /\ UNCHANGED options)

-----------------------------------------------------------------------------
TypeOK ==
  /\ options \in Options
  /\ clock \in 0 .. MaxTime
  /\ arrivals \in [Shards -> Seq(0 .. MaxTime)]
  /\ \A s \in Shards : Len(arrivals[s]) <= MaxRecords[s]
  /\ closed \subseteq listed /\ listed \subseteq Shards
  /\ table \in [Record -> 0 .. 2]
  /\ saved \in State /\ state \in State /\ since \in Since
  /\ pc \in {"idle", "reading", "extracted"}
  /\ queue \in Seq(Shards) /\ shard \in Shards \cup {NoShard}
  /\ \A s \in Shards : {saved.last[s], state.last[s]} \subseteq 0 .. Len(arrivals[s])
  /\ tip \in [Shards -> Nat]
  /\ iterator \in Nat \ {0}
  /\ shard # NoShard => iterator <= Len(arrivals[shard]) + 1
  /\ rows \in [Record -> 0 .. 2]
  /\ failures \in 0 .. MaxFailures

(* Whether a run that starts from state st reads record r. *)
ReadFrom(r, st) ==
  IF st.last[r[1]] # 0 THEN r[2] > st.last[r[1]]
  ELSE st.since # Epoch /\ ArrivalOf(r) >= st.since
Loaded(r) == table[r] > 0

(* Asked for by --interval-start: what arrived at that time or later; after the   *)
(* epoch, which stands for LATEST, what arrived at the tip of the stream once a   *)
(* run that was completed had come to the shard.                                 *)
Promised(r) ==
  Arrived(r) /\ IF Start = Epoch THEN r[2] > tip[r[1]] ELSE ArrivalOf(r) >= Start
Wanted(r) == Promised(r) /\ saved.since # Epoch

(* Every record that is wanted is in the table or is read by the next run: a     *)
(* shard may be left with unread records, and one that had none is read from the *)
(* start of the previous run, less one second.  A --yield-limit may leave out    *)
(* the beginning of a shard, which is not visited while that time moves on for   *)
(* all of them (ReadsAllAfterStart); but nothing between a record of the shard   *)
(* that was loaded and the one that was read last.                              *)
NothingSkipped ==
  \A r \in Record :
    \/ ~Wanted(r) \/ Loaded(r) \/ ReadFrom(r, saved)
    \/ Limited /\ (failures = 0 => \A i \in 1 .. r[2] : ~Loaded(<<r[1], i>>))

(* What the comment on --interval-start in kinesis/api.py says: all messages      *)
(* after that time are in the table or are read by the next run.  A yield limit  *)
(* that ends a run before some shard was visited breaks it.                      *)
ReadsAllAfterStart ==
  \A r \in Record :
    Arrived(r) /\ ArrivalOf(r) >= Start => Loaded(r) \/ ReadFrom(r, saved)

(* A record is appended once while no load fails: neither the second of overlap *)
(* between two runs nor a child shard that is queued twice reads it again.      *)
LoadedOnce == failures = 0 => \A r \in Record : table[r] <= 1

(* Records reach the table however shards are split and runs fail; a yield limit *)
(* may stop every run before it comes to a shard.                             *)
EventuallyLoaded ==
  \A r \in Record : (~Limited /\ Wanted(r)) ~> Loaded(r)
=============================================================================

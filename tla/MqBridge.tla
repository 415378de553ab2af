------------------------------ MODULE MqBridge ------------------------------
(***************************************************************************)
(* Streaming ingestion through mq-bridge: the extraction loop of            *)
(* source/mqbridge/adapter.py, the commit hooks of source/mqbridge/api.py   *)
(* and the guarded load region of omniload/api.py, for several runs of      *)
(* `omniload ingest` that share one queue and one destination table.        *)
(*                                                                         *)
(* External, modelled from their use: the broker (leases, redelivery, ack,  *)
(* nack) and dlt (a load package is loaded from the pipeline's working      *)
(* directory; a package left there by an earlier attempt is loaded INSTEAD  *)
(* of extracting; the destination merges on the primary key).               *)
(***************************************************************************)
EXTENDS Naturals, Sequences, FiniteSets

CONSTANTS
  Msgs,           \* the messages producers ever send; a message is its _mqb_id
  Poison,         \* those whose payload the json format cannot decode
  Runs,           \* the schedules (hosts, cron jobs) that start ingest runs
  MaxMessages,    \* ?max_messages=
  Options,        \* the command lines considered
  MaxFailures     \* bound: faults the environment injects

ASSUME BoundsAssumption ==
  /\ MaxMessages \in Nat \ {0}
  /\ MaxFailures \in Nat
ASSUME MsgsAssumption == IsFiniteSet(Msgs) /\ Poison \subseteq Msgs
ASSUME OptionsAssumption ==
  Options \subseteq [yieldLimit : Nat, batchSize : Nat \ {0}, persistentDir : BOOLEAN,
                     destination : {"database", "databricks", "file"}]

VARIABLES
  options,    \* the command line of all runs
  (* the broker *)
  sent,       \* messages published so far
  ready,      \* deliverable to any consumer
  held,       \* held[r]: leased to the consumer run r has open
  expiring,   \* leased to a consumer nobody holds any more
  gone,       \* acknowledged
  (* the destination *)
  table,      \* table[m]: rows of message m
  published,  \* messages that some completed load made visible
  (* one run *)
  pc, attempt,
  consumer,   \* MqBridgeSource._consumer: the attempt that opened it, 0 for None
  pending,    \* MqBridgeSource._pending_batches
  batch,      \* messages of the last poll, {} once the batch is recorded
  todo,       \* those of batch the generator has not yielded yet
  drained,    \* the generator's count of recorded messages
  pkg,        \* what the extract step has collected
  staged,     \* rows in the temporary bucket of a single-file destination
  workdir,    \* load package in the pipeline's working directory
  failures

brokerVars == <<sent, ready, held, expiring, gone>>
destVars == <<table, published>>
readerVars == <<batch, todo, drained, pkg>>
sourceVars == <<consumer, pending>>
vars == <<brokerVars, destVars, readerVars, sourceVars,
          pc, attempt, staged, workdir, failures, options>>

BatchSize == options.batchSize          \* ?batch_size=
YieldLimit == options.yieldLimit        \* --yield-limit, 0 when it is not given
PersistentDir == options.persistentDir  \* --pipelines-dir is given
SingleFile == options.destination = "file"        \* one local file
Databricks == options.destination = "databricks"  \* the only one that is retried
None == 0
MaxRetries == 3

PC == {"idle", "run", "poll", "yield", "load", "loaded", "ack", "release"}
Token == [msgs : SUBSET Msgs, of : 0..MaxRetries]

Init ==
  /\ options \in Options
  /\ sent = {} /\ ready = {} /\ expiring = {} /\ gone = {}
  /\ held = [r \in Runs |-> {}]
  /\ table = [m \in Msgs |-> 0] /\ published = {}
  /\ pc = [r \in Runs |-> "idle"] /\ attempt = [r \in Runs |-> 1]
  /\ consumer = [r \in Runs |-> None] /\ pending = [r \in Runs |-> <<>>]
  /\ batch = [r \in Runs |-> {}] /\ todo = [r \in Runs |-> {}]
  /\ drained = [r \in Runs |-> 0] /\ pkg = [r \in Runs |-> {}]
  /\ staged = [r \in Runs |-> {}] /\ workdir = [r \in Runs |-> {}]
  /\ failures = 0

-----------------------------------------------------------------------------
(* Helpers *)

\* One injected fault.
Fail == failures < MaxFailures /\ failures' = failures + 1

Goto(r, label) == pc' = [pc EXCEPT ![r] = label]

\* Mutant: the resource appends instead of merging.
MergedByAppend(t, p) == [m \in Msgs |-> IF m \in p THEN t[m] + 1 ELSE t[m]]

\* The rows of the merge-mode resource after package p is merged on _mqb_id.
Merged(t, p) == [m \in Msgs |-> IF m \in p THEN 1 ELSE t[m]]

\* Items the resource has yielded in this attempt (what add_limit counts).
Yielded(r) == drained[r] + Cardinality(batch[r] \ todo[r])
LimitReached(r) == YieldLimit > 0 /\ Yielded(r) >= YieldLimit

\* The process is over: only the working directory can outlive it.
EndRun(r) ==
  /\ Goto(r, "idle")
  /\ attempt' = [attempt EXCEPT ![r] = 1]
  /\ consumer' = [consumer EXCEPT ![r] = None]
  /\ pending' = [pending EXCEPT ![r] = <<>>]
  /\ batch' = [batch EXCEPT ![r] = {}]
  /\ todo' = [todo EXCEPT ![r] = {}]
  /\ drained' = [drained EXCEPT ![r] = 0]
  /\ pkg' = [pkg EXCEPT ![r] = {}]
  /\ staged' = [staged EXCEPT ![r] = {}]
  /\ workdir' = IF PersistentDir THEN workdir ELSE [workdir EXCEPT ![r] = {}]

\* The broker learns that r's consumer is gone without a nack.
DropLeases(r) ==
  /\ held' = [held EXCEPT ![r] = {}]
  /\ expiring' = expiring \cup held[r]
  /\ UNCHANGED <<sent, ready, gone>>

\* _nack_outstanding, then close: the nack is best effort.
HandBack(r) ==
  \/ /\ ready' = ready \cup held[r]
     /\ held' = [held EXCEPT ![r] = {}]
     /\ UNCHANGED <<sent, expiring, gone>>
  \/ DropLeases(r)

-----------------------------------------------------------------------------
(* The broker *)

Publish(m) ==
  /\ m \notin sent
  /\ sent' = sent \cup {m}
  /\ ready' = ready \cup {m}
  /\ UNCHANGED <<held, expiring, gone, destVars, readerVars, sourceVars,
                 pc, attempt, staged, workdir, failures>>

\* A lease of a closed or lost consumer runs out.
Redeliver(m) ==
  /\ m \in expiring
  /\ expiring' = expiring \ {m}
  /\ ready' = ready \cup {m}
  /\ UNCHANGED <<sent, held, gone, destVars, readerVars, sourceVars,
                 pc, attempt, staged, workdir, failures>>

\* A long load outlives the visibility timeout of a batch it still works on.
LeaseTimeout(r, m) ==
  /\ m \in held[r]
  /\ Fail
  /\ held' = [held EXCEPT ![r] = @ \ {m}]
  /\ ready' = ready \cup {m}
  /\ UNCHANGED <<sent, expiring, gone, destVars, readerVars, sourceVars,
                 pc, attempt, staged, workdir>>

-----------------------------------------------------------------------------
(* Extraction *)

\* Mutant: the first attempt has the number that stands for no consumer.
StartRunFromZero(r) ==
  /\ pc[r] = "idle"
  /\ Goto(r, "run")
  /\ attempt' = [attempt EXCEPT ![r] = None]
  /\ UNCHANGED <<brokerVars, destVars, readerVars, sourceVars, staged, workdir, failures>>

StartRun(r) ==
  /\ pc[r] = "idle"
  /\ Goto(r, "run")
  /\ UNCHANGED <<brokerVars, destVars, readerVars, sourceVars,
                 attempt, staged, workdir, failures>>

\* pipeline.run finds a package in the working directory and skips extraction.
LoadPendingPackage(r) ==
  /\ pc[r] = "run" /\ workdir[r] # {}
  /\ Goto(r, "load")
  /\ UNCHANGED <<brokerVars, destVars, readerVars, sourceVars,
                 attempt, staged, workdir, failures>>

\* Mutant: a retry goes on with the consumer of the failed attempt.
OpenConsumerOnce(r) ==
  /\ pc[r] = "run" /\ workdir[r] = {}
  /\ consumer' = [consumer EXCEPT ![r] = IF @ = None THEN attempt[r] ELSE @]
  /\ drained' = [drained EXCEPT ![r] = 0]
  /\ pkg' = [pkg EXCEPT ![r] = {}]
  /\ Goto(r, "poll")
  /\ UNCHANGED <<brokerVars, destVars, batch, todo, pending,
                 attempt, staged, workdir, failures>>

\* First pull of the resource.  On a retry the earlier consumer is overwritten.
OpenConsumer(r) ==
  /\ pc[r] = "run" /\ workdir[r] = {}
  /\ consumer' = [consumer EXCEPT ![r] = attempt[r]]
  /\ DropLeases(r)
  /\ batch' = [batch EXCEPT ![r] = {}]
  /\ todo' = [todo EXCEPT ![r] = {}]
  /\ drained' = [drained EXCEPT ![r] = 0]
  /\ pkg' = [pkg EXCEPT ![r] = {}]
  /\ Goto(r, "poll")
  /\ UNCHANGED <<destVars, pending, attempt, staged, workdir, failures>>

Poll(r) ==
  /\ pc[r] = "poll" /\ drained[r] < MaxMessages
  /\ \E S \in SUBSET ready :
       /\ S # {} /\ Cardinality(S) <= BatchSize
       /\ Cardinality(S) <= MaxMessages - drained[r]
       /\ ready' = ready \ S
       /\ held' = [held EXCEPT ![r] = @ \cup S]
       /\ batch' = [batch EXCEPT ![r] = S]
       /\ todo' = [todo EXCEPT ![r] = S]
  /\ Goto(r, "yield")
  /\ UNCHANGED <<sent, expiring, gone, destVars, drained, pkg, sourceVars,
                 attempt, staged, workdir, failures>>

YieldMessage(r) ==
  /\ pc[r] = "yield" /\ ~LimitReached(r)
  /\ \E m \in todo[r] \ Poison :
       /\ todo' = [todo EXCEPT ![r] = @ \ {m}]
       /\ pkg' = [pkg EXCEPT ![r] = @ \cup {m}]
  /\ UNCHANGED <<brokerVars, destVars, batch, drained, sourceVars,
                 pc, attempt, staged, workdir, failures>>

\* message.json() raises: the extract step fails and its package is discarded.
DecodeFails(r) ==
  /\ pc[r] = "yield" /\ ~LimitReached(r) /\ todo[r] \cap Poison # {}
  /\ Goto(r, "release")
  /\ UNCHANGED <<brokerVars, destVars, readerVars, sourceVars,
                 attempt, staged, workdir, failures>>

\* Mutant: the batch is counted and its token forgotten.
RecordBatchForgets(r) ==
  /\ pc[r] = "yield" /\ ~LimitReached(r) /\ todo[r] = {}
  /\ drained' = [drained EXCEPT ![r] = @ + Cardinality(batch[r])]
  /\ batch' = [batch EXCEPT ![r] = {}]
  /\ Goto(r, "poll")
  /\ UNCHANGED <<brokerVars, destVars, todo, pkg, sourceVars,
                 attempt, staged, workdir, failures>>

\* The generator resumes after the last message of the batch.
RecordBatch(r) ==
  /\ pc[r] = "yield" /\ ~LimitReached(r) /\ todo[r] = {}
  /\ pending' = [pending EXCEPT ![r] =
                   Append(@, [msgs |-> batch[r], of |-> consumer[r]])]
  /\ drained' = [drained EXCEPT ![r] = @ + Cardinality(batch[r])]
  /\ batch' = [batch EXCEPT ![r] = {}]
  /\ Goto(r, "poll")
  /\ UNCHANGED <<brokerVars, destVars, todo, pkg, consumer,
                 attempt, staged, workdir, failures>>

\* The package is complete: queue idle, max_messages drained, or the yield limit
\* closed the generator.  An idle timeout over a queue that has messages is a fault.
FinishExtract(r) ==
  /\ \/ pc[r] = "yield" /\ LimitReached(r) /\ UNCHANGED failures
     \/ /\ pc[r] = "poll"
        /\ \/ (drained[r] >= MaxMessages \/ ready = {}) /\ UNCHANGED failures
           \/ Fail
  /\ workdir' = [workdir EXCEPT ![r] = pkg[r]]
  /\ pkg' = [pkg EXCEPT ![r] = {}]
  /\ Goto(r, "load")
  /\ UNCHANGED <<brokerVars, destVars, batch, todo, drained, sourceVars,
                 attempt, staged>>

-----------------------------------------------------------------------------
(* The guarded load region *)

\* Mutant: source.post_load comes before destination.post_load.
LoadThenAck(r) ==
  /\ pc[r] = "load"
  /\ staged' = [staged EXCEPT ![r] = workdir[r]]
  /\ workdir' = [workdir EXCEPT ![r] = {}]
  /\ Goto(r, "ack")
  /\ UNCHANGED <<brokerVars, destVars, readerVars, sourceVars, attempt, failures>>

Load(r) ==
  /\ pc[r] = "load"
  /\ IF SingleFile
     THEN staged' = [staged EXCEPT ![r] = workdir[r]] /\ UNCHANGED destVars
     ELSE /\ table' = Merged(table, workdir[r])
          /\ published' = published \cup workdir[r]
          /\ UNCHANGED staged
  /\ workdir' = [workdir EXCEPT ![r] = {}]
  /\ Goto(r, "loaded")
  /\ UNCHANGED <<brokerVars, readerVars, sourceVars, attempt, failures>>

\* The load raises after writing any part of the package.  dlt keeps the package
\* for the next run (or drops it when a job failed for good); the Databricks loop
\* retries, every other failure leaves the region.
LoadFails(r) ==
  /\ pc[r] = "load" /\ Fail
  /\ \E part \in SUBSET workdir[r], keep \in BOOLEAN :
       /\ IF SingleFile THEN UNCHANGED destVars
          ELSE table' = Merged(table, part) /\ published' = published \cup part
       /\ workdir' = IF keep THEN workdir ELSE [workdir EXCEPT ![r] = {}]
  /\ \/ /\ Databricks /\ attempt[r] < MaxRetries
        /\ attempt' = [attempt EXCEPT ![r] = @ + 1]
        /\ Goto(r, "run")
     \/ UNCHANGED attempt /\ Goto(r, "release")
  /\ UNCHANGED <<brokerVars, readerVars, sourceVars, staged>>

\* destination.post_load: a single file is written over its previous content.
DestinationPostLoad(r) ==
  /\ pc[r] = "loaded"
  /\ IF SingleFile
     THEN /\ table' = Merged([m \in Msgs |-> 0], staged[r])
          /\ published' = published \cup staged[r]
     ELSE UNCHANGED destVars
  /\ Goto(r, "ack")
  /\ UNCHANGED <<brokerVars, readerVars, sourceVars,
                 attempt, staged, workdir, failures>>

DestinationPostLoadFails(r) ==
  /\ pc[r] = "loaded" /\ SingleFile /\ Fail
  /\ Goto(r, "release")
  /\ UNCHANGED <<brokerVars, destVars, readerVars, sourceVars,
                 attempt, staged, workdir>>

\* Mutant: a token of the overwritten consumer is honoured.
AckAnyToken(r) ==
  /\ pc[r] = "ack" /\ consumer[r] # None /\ pending[r] # <<>>
  /\ gone' = gone \cup Head(pending[r]).msgs
  /\ ready' = ready \ Head(pending[r]).msgs
  /\ expiring' = expiring \ Head(pending[r]).msgs
  /\ held' = [q \in Runs |-> held[q] \ Head(pending[r]).msgs]
  /\ pending' = [pending EXCEPT ![r] = Tail(@)]
  /\ UNCHANGED <<sent, destVars, readerVars, consumer,
                 pc, attempt, staged, workdir, failures>>

\* source.post_load: ack one token.  What the broker still holds for this consumer
\* is removed for certain, a message whose lease has passed on may be.  A token of an
\* overwritten consumer means nothing to the present one.
AckBatch(r) ==
  /\ pc[r] = "ack" /\ consumer[r] # None /\ pending[r] # <<>>
  /\ \E S \in SUBSET Head(pending[r]).msgs :
       /\ IF Head(pending[r]).of = consumer[r]
          THEN Head(pending[r]).msgs \cap held[r] \subseteq S
          ELSE S = {}
       /\ gone' = gone \cup S
       /\ ready' = ready \ S
       /\ expiring' = expiring \ S
       /\ held' = [q \in Runs |-> held[q] \ S]
  /\ pending' = [pending EXCEPT ![r] = Tail(@)]
  /\ UNCHANGED <<sent, destVars, readerVars, consumer,
                 pc, attempt, staged, workdir, failures>>

\* ack raises: post_load clears its state and closes; release then finds no consumer.
AckFails(r) ==
  /\ pc[r] = "ack" /\ consumer[r] # None /\ pending[r] # <<>>
  /\ Fail
  /\ DropLeases(r)
  /\ EndRun(r)
  /\ UNCHANGED destVars

\* Mutant: nack first.
NackBeforeAck(r) ==
  /\ pc[r] = "ack"
  /\ HandBack(r)
  /\ EndRun(r)
  /\ UNCHANGED <<destVars, failures>>

\* Every token acked: hand the truncated batch back and close; the run succeeded.
NackAndClose(r) ==
  /\ pc[r] = "ack" /\ pending[r] = <<>>
  /\ HandBack(r)
  /\ EndRun(r)
  /\ UNCHANGED <<destVars, failures>>

\* Mutant: release waits for a consumer that was never opened.
ReleaseNeedsConsumer(r) ==
  /\ pc[r] = "release" /\ consumer[r] # None
  /\ HandBack(r)
  /\ EndRun(r)
  /\ UNCHANGED <<destVars, failures>>

\* The except branch of the load region: nothing is acked, everything handed back.
Release(r) ==
  /\ pc[r] = "release"
  /\ HandBack(r)
  /\ EndRun(r)
  /\ UNCHANGED <<destVars, failures>>

-----------------------------------------------------------------------------
(* Faults that may strike anywhere *)

\* An exception or Ctrl-C outside the load step itself.
Interrupt(r) ==
  /\ pc[r] \in {"run", "poll", "yield", "loaded"}
  /\ Fail
  /\ Goto(r, "release")
  /\ UNCHANGED <<brokerVars, destVars, readerVars, sourceVars,
                 attempt, staged, workdir>>

\* The process is killed: no hook runs.
Crash(r) ==
  /\ pc[r] # "idle"
  /\ Fail
  /\ DropLeases(r)
  /\ EndRun(r)
  /\ UNCHANGED destVars

-----------------------------------------------------------------------------
\* The steps of a run that scheduling alone drives.
Step(r) ==
  \/ LoadPendingPackage(r) \/ OpenConsumer(r)
  \/ Poll(r) \/ YieldMessage(r) \/ DecodeFails(r) \/ RecordBatch(r) \/ FinishExtract(r)
  \/ Load(r) \/ DestinationPostLoad(r)
  \/ AckBatch(r) \/ NackAndClose(r) \/ Release(r)

Fault(r) ==
  \/ \E m \in Msgs : LeaseTimeout(r, m)
  \/ LoadFails(r) \/ DestinationPostLoadFails(r) \/ AckFails(r)
  \/ Interrupt(r) \/ Crash(r)

Next ==
  /\ \/ \E m \in Msgs : Publish(m) \/ Redeliver(m)
     \/ \E r \in Runs : StartRun(r) \/ Step(r) \/ Fault(r)
  /\ UNCHANGED options

Spec == Init /\ [][Next]_vars

\* Schedules keep firing, a started run keeps running, leases run out.
FairSpec ==
  /\ Spec
  /\ \A r \in Runs : /\ WF_vars(StartRun(r) /\ UNCHANGED options)
                      /\ WF_vars(Step(r) /\ UNCHANGED options)
  /\ \A m \in Msgs : WF_vars(Redeliver(m) /\ UNCHANGED options)

-----------------------------------------------------------------------------
(* Properties *)

TypeOK ==
  /\ options \in Options
  /\ sent \in SUBSET Msgs /\ ready \in SUBSET Msgs
  /\ expiring \in SUBSET Msgs /\ gone \in SUBSET Msgs
  /\ held \in [Runs -> SUBSET Msgs]
  /\ table \in [Msgs -> Nat] /\ published \in SUBSET Msgs
  /\ pc \in [Runs -> PC] /\ attempt \in [Runs -> 1..MaxRetries]
  /\ consumer \in [Runs -> 0..MaxRetries]
  /\ pending \in [Runs -> Seq(Token)]
  /\ batch \in [Runs -> SUBSET Msgs] /\ todo \in [Runs -> SUBSET Msgs]
  /\ drained \in [Runs -> Nat] /\ pkg \in [Runs -> SUBSET Msgs]
  /\ staged \in [Runs -> SUBSET Msgs] /\ workdir \in [Runs -> SUBSET Msgs]
  /\ failures \in 0..MaxFailures

\* No message is lost: the broker forgets only what a completed load has made
\* visible (post_load runs after destination.post_load, release never acks).
AckedIsPublished == gone \subseteq published

\* Effectively-once: a message the broker has forgotten has exactly one row,
\* however often a crash, a nack or a timeout had it redelivered and reloaded.
EffectivelyOnce == ~SingleFile => \A m \in gone : table[m] = 1

\* post_load acks before its no-token nack, so a successful run hands back only the
\* batch that --yield-limit truncated, never one the load has committed.
NacksOnlyTruncated ==
  [][\A r \in Runs : pc[r] = "ack" /\ pc'[r] = "idle" => ready' \ ready \subseteq batch[r]]_vars

\* Where the messages of a recorded batch are kept at each point of the run that
\* recorded it, up to the acknowledgement.
Secured(r, S) ==
  /\ pc[r] \in {"poll", "yield"} => S \subseteq pkg[r]
  /\ pc[r] = "run" => workdir[r] = {} \/ S \subseteq workdir[r]
  /\ pc[r] = "load" => S \subseteq workdir[r]
  /\ pc[r] = "loaded" => S \subseteq (IF SingleFile THEN staged[r] ELSE published)
  /\ pc[r] = "ack" => S \subseteq published

TokensSecuredIn(r) ==
  /\ pc[r] = "idle" => pending[r] = <<>> /\ held[r] = {}
  /\ pc[r] = "yield" => batch[r] \ todo[r] \subseteq pkg[r]
  /\ consumer[r] <= attempt[r]
  /\ \A i \in DOMAIN pending[r] :
       /\ pending[r][i].of <= attempt[r]
       /\ pc[r] = "run" => pending[r][i].of < attempt[r]
       /\ pending[r][i].of = consumer[r] => Secured(r, pending[r][i].msgs)

\* The messages of every token the present consumer can ack are, at every step
\* between the record_batch of the generator and the ack of post_load, in the package
\* or the destination the run would lose them from last; and a run that is over, by
\* whichever exit, holds no token and no lease any more.
TokensSecured == \A r \in Runs : TokensSecuredIn(r)

\* A yield limit that lets a whole batch through, and no message that cannot be decoded:
\* --yield-limit at or below the batch size truncates every batch, which is handed back
\* unacknowledged however often it is loaded.
Drains == (YieldLimit = 0 \/ YieldLimit > BatchSize) /\ sent \cap Poison = {}

\* A queue that is polled, decoded and loaded is drained: a message is acknowledged
\* in the end, whatever finite number of faults the runs meet.
EveryMessageAcked ==
  \A m \in Msgs : (Drains /\ m \in sent) ~> (Drains => m \in gone)

\* A run that has started ends.
EveryRunEnds == \A r \in Runs : pc[r] # "idle" ~> pc[r] = "idle"

\* The abstract promise.
D == INSTANCE Delivery WITH delivered <- published, acknowledged <- gone
ImplementsDelivery == D!Spec
=============================================================================

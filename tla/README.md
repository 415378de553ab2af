# omniload: specifications, model checking and proofs

omniload moves data from some eighty kinds of sources (databases, files, queues,
HTTP APIs) to about twenty kinds of destinations. `omniload ingest`, or
`run_ingest()` in `src/omniload/api.py`, builds a *source* and a *destination*,
hands both to the dlt library and gets one *run*: extract rows, load them, save the
state the next run starts from. A deployment is a sequence of such runs, started by
a scheduler, over sources that are written to all the time. What can go wrong is
rarely in one run; it is between two of them: what a failed, killed, retried or
truncated run leaves behind, and what the next one makes of it. That is what these
modules are about: *no row is lost, none is duplicated, and the destination catches
up.* Paths below are relative to the repository root (`src/` there is
`src/src/` in `PROJECT.json`).

1. [Inventory](#1-inventory)
2. [Plan](#2-plan)
3. [Modules](#3-modules)
4. [Runs](#4-runs)
5. [Fairness](#5-fairness)
6. [Proofs](#6-proofs)
7. [What the environment is assumed to do](#7-what-the-environment-is-assumed-to-do)
8. [Where code and documentation disagree](#8-where-code-and-documentation-disagree)
9. [Not modelled](#9-not-modelled)

To repeat the checks: `tlc -config <Cfg>.cfg <MCModule>.tla` for every run of
section 4, `tlapm <Module>Proofs.tla` for the proofs of section 6.

## 1. Inventory

| component | state it keeps | operations | hard behaviour | correct means |
|---|---|---|---|---|
| **ingest run**, `omniload/api.py` | pipeline directory (temporary unless `--pipelines-dir`), load package, dlt's local state, retry counter | resolve strategy and keys, run the pipeline, retry on Databricks, `post_load` of destination then source, `release` on any exception | failure or kill between any two of these; a package of a failed run is loaded *instead* of extracting | the source is told to commit only after the rows are durable, and told to release on every other exit |
| **mq-bridge source**, `source/mqbridge` | `_consumer`, `_pending_batches`; leases at the broker | open lazily, poll, yield, `record_batch`, ack, nack, close | redelivery, lease timeouts, `--yield-limit` in mid-batch, retry in the same process, two runs on one queue | at least once at the broker, one row per message in the table, no lease outlives its run |
| **Kafka source**, `source/kafka` | `offsets` in dlt's resource state, `OffsetTracker` | init offsets, consume, renew, `has_unread` | offset saved before its row is loaded; producers, retention and timeouts during the loop; off-by-one at the watermarks | nothing between the saved offset and the table is missing; every message is loaded in the end |
| **Kinesis source**, `source/kinesis` | last sequence number per shard, timestamp for the others | list shards, iterate, queue children | resharding while reading, clock skew, early end of the generator | every record after the start is loaded once |
| **SQL source and strategies**, `core/router.py`, `api.py` | dlt's incremental cursor and the rows seen at it | one range query, deduplicate at the boundary, write by disposition | rows written at, on and behind the boundary between two runs; strategy, keys, interval and limit combine | no row skipped or twice, no unchanged row removed, destination catches up |
| **filesystem source**, `dlt_filesystem/source` | cursor on modification times and the URLs seen at it | glob, stat, filter, read | files written while they are listed or read; times that tie or go backwards; `--full-refresh` that fails halfway | no content skipped unless its time hides it, none appended twice |
| filesystem readers | worksheet names seen | decode formats | name collisions across files | one table per worksheet name |
| filesystem transports | fsspec clients | URI to client, ranged reads | server ignoring ranges | bytes are those of the object |
| **single-file destinations**, `dlt_filesystem/target` | temporary bucket, output file | load into the bucket, rewrite the file in `post_load` | failure while overwriting, several data files, resumed packages | the file is one load's rows |
| **remote staging**, `dlt_filesystem/staging.py`, `sql_database/remote.py` | run-scoped copy | size, open, download, compare, remove | object replaced at any point, connection closed early | the copy is one version, gone afterwards |
| **rsync source**, `source/rsync` | staging directory shared by runs | transfer delta, list, read | concurrent runs, remote deletions, transfers that break off | the rows are those of whole files |
| **HTTP API sources** (about seventy), MongoDB, Stripe, DynamoDB, Elasticsearch, Couchbase | page cursor; dlt's cursor on a time, for some | page, retry, stop, filter by range | the collection moves between two pages; the cursor passes what was not read; retries that give up silently | all items or an error; the next run reads what this one could not |
| **report sources** (Facebook, Google Ads, LinkedIn, TikTok, ... ) | dlt's cursor on the day, or none | choose days, cut them into requests, poll, merge | figures that are revised later; a cursor that is also the merge key; reports that are not ready | no day left out, no row deleted without being replaced, last figures in the end |
| query engines (Dune, Allium, Solidgate, Fireflies) | job id, retry count | start, poll, fetch | never finishing jobs | results or an error in bounded time |
| **Elasticsearch destination** | process-wide set of cleared indices | clear once, bulk insert | several batches, several runs in one process | index holds exactly this load |
| database destinations | none | URI to dlt destination | dlt's | dlt's |
| table names, registry, command line, codecs | none that changes | parse, look up, map rows | pure | equal to a reference definition |

**Interactions.** `_run_ingest` calls the source once (`dlt_source`), then
`pipeline.run`, inside which dlt pulls the source's generator. State lives in three
places that fail independently: the remote source (offsets, leases), the pipeline
directory (package and local state) and the destination (rows and, beside them, the
state that a fresh directory is synced from). The hooks `post_load` and `release`
are the only callbacks; they run in the same process after or instead of a
completed load. There are no locks between runs: two runs on one queue, directory
or file simply interleave.

`PROJECT.json` lists the hazards one by one, at the line where each bites, with the
properties that watch it.

## 2. Plan

Ordered by what would hurt most if it were wrong.

| step | module | state |
|---|---|---|
| 1 | `Delivery` (abstract promise), `MqBridge`, `MqBridgeProofs` | done |
| 2 | `KafkaSource`, which implements the same `Delivery`, `KafkaSourceProofs` | done |
| 3 | `KinesisSource`, `KinesisSourceProofs` | done |
| 4 | `FilesystemIncremental`, `FilesystemIncrementalProofs` | done |
| 5 | `SqlIncremental`, `SqlIncrementalProofs` | done |
| 6 | `PagedSource` and `Connectors`: HTTP, NoSQL and search sources; `PagedSourceProofs` | done |
| 7 | `DailyReport` and `Reports`: report sources; `DailyReportProofs` | done |
| 8 | `RemoteStaging`, `LocalFileTarget`, `ElasticsearchTarget`, and `StagedExport`, which composes them with a run; `StagedExportProofs` | done |
| 9 | `Sources` and `IngestRequest`: what a run makes of its command line and its source | checked, not proved (section 6) |
| 10 | worksheet names, recipe registry, custom queries: state that lives as long as the process | open |
| 11 | query engines that are polled | open |
| 12 | table names, comparison of sequence numbers as strings: pure operators against reference definitions | open |
| 13 | several Kafka topics | open |

Abstract specifications: `Delivery` (done) for streaming sources; "a cursor never
passes a row that is nowhere" for the three incremental sources, whose
`NothingSkipped` has one shape (`Covered` in the proofs of two of them) and should
become one abstract module.

The command line flags are a rigid variable `options`, chosen once in `Init` from
the constant `Options`, so that one run of TLC covers several deployments and a
theorem covers all of them. No module to be proved about uses a `RECURSIVE` operator.

## 3. Modules

Every module states its variables in groups (the remote source, the destination,
the working directory, one run), has one action per operation, and comments the
bounds, which are the constants named `Max...`. Operators marked `MUTANT` are
deliberate bugs; nothing but mutation checks uses them.

**`Delivery`** — abstract. `delivered` and `acknowledged` only grow, and a message is
acknowledged only when it has been delivered.

**`MqBridge`** — a set of runs `Runs` shares one queue and one table. A message is in
exactly one of `ready`, `held[r]`, `expiring`, `gone`.

| TLA+ | code |
|---|---|
| `StartRun`, `OpenConsumer` | `MqBridgeSource.dlt_source`, `open_consumer` on first pull |
| `Poll`, `YieldMessage`, `DecodeFails`, `RecordBatch`, `FinishExtract` | the generator of `mqbridge_resource`; `LimitReached` is dlt's `add_limit` closing it |
| `LoadPendingPackage`, `Load`, `LoadFails` | `run_pipeline` and the retry loop |
| `DestinationPostLoad`, `DestinationPostLoadFails` | `destination.post_load()`, a no-op but for single files |
| `AckBatch`, `AckFails`, `NackAndClose` | `MqBridgeSource.post_load`, one step per token |
| `Release`, `Interrupt`, `Crash` | the `except BaseException` branch; a kill, where no hook runs |

The acknowledgement loop is one step per token because a lease may time out, or the
process die, between two of them. `consumer[r]` is the attempt that opened the
present consumer, so a token knows whether it belongs to it.

**`KafkaSource`** — one topic. `FirstOffset` is `_init_partition_offsets`, `Consume` one
iteration of the loop in `kafka_consumer` (`renew` for each message, `yield`,
`has_unread`), `ConsumeNothing` the empty poll that ends it, `NonFatalErrors` a
batch of error events. `saved`, `local` and `package.offsets` are the three copies
of the state; `Restored` is the one a run starts from. `LoadJobs` and
`CompleteLoad` are separate because rows become visible before the state does.

**`KinesisSource`** — `StartRun` reads and moves the timestamp and lists the shards
(`adapter.py:69-88`), `NextShard` is the outer loop with `get_shard_iterator`
(`ShardIterator`: after the sequence number, at the timestamp, or, for a timestamp of 0,
at the latest record; `TRIM_HORIZON` needs a run without a start, which `api.py` refuses),
`GetRecords` one turn of the inner loop with the queueing of child shards and the
cut-off at one second. Time is counted in seconds, the unit of both margins. A run's
rows are counted like those of the table, by record: rows are appended, so their number
is what matters and not their order.

**`SqlIncremental`** — one table with a natural key, contents (`version`) and the
incremental column (`at`). `Refused` is what `_run_ingest` rejects for scd2;
`Start`, `InRange`, `Fetched`, `Deduplicated`, `Advanced` are the cursor, the
`WHERE`, the `LIMIT`, the boundary rows and the new cursor; `Written` is the load by
strategy. `hidden` is a history variable: the rows whose last write the incremental
column does not show, which no code could see. `stamped` is another: the rows written
with the present time already. Where rows are told apart by a primary key, a further
write at that time is hidden if *any* version of the row has been read with it, not only
the one just before, which takes three versions of one row to tell apart.

**`FilesystemIncremental`** — `StartRun` is the glob, `Stat` one
`fs_client.info`, `Filter` the cursor, `Read` the opening of a file *later*; writers
act between all of them. `hidden`, `stamped` and `raced` are history variables: writes
that a modification time does not show, the files written with the present time
already, and writes during a listing or reading.

**`PagedSource`, `Connectors`** — some seventy connectors do one thing in different
ways: a client pages through a collection, a resource keeps a cursor on a time of
the items. `PagedSource` is that one thing, with the ways as a record of features.
`OffsetConnectors` (clients that count pages or items, or go on at a time) and
`TokenConnectors` (tokens, single replies, queries) give each connector its features,
in the terms of `ConnectorFeatures`: read off its client (`Paging`) and its resource
(`Listing`, `Since`), with the service's order of items. `Connectors` has all of them.

| feature | values | seen in |
|---|---|---|
| `position`: how the next page is found | a token or key, a number of items, a time, a snapshot (one reply, or one query) | Linear; Pipedrive; Phantombuster; Elasticsearch |
| `stop`: what ends the loop | no next page, an empty page, a short page, the first page, an item older than the range, an item known already, a page empty after filtering | Linear; Wise; Fluxx; PlusVibe; Gorgias; Pipedrive's leads; Freshdesk |
| `error`: a page that fails | the run fails, the last answer is handled again, the loop ends, the page is skipped | most; Gorgias; Klaviyo, Hostaway's settings; Phantombuster |
| `order`, `stamp`: what the service lists by, and which time the cursor is on | key, the newest first, time upwards or downwards; creation or update | HubSpot; Gorgias' messages; Zendesk; Stripe |
| `from`, `upto`: the range | all, at or after the cursor, after it, the cursor as it moves; open, the start of the run, a window | Docebo; Linear; Salesforce; Intercom |
| `parents`: one loop for each of several objects | none, each with its parameters, parameters shared, each of those whose own time passed the cursor | Asana, Slack; Zoom; Customer.io's actions, Hostaway's calendars |

A listing is a set of pairs of item and time with an order, `Before`: what a request
returns is told by places in it (`Place`, the number of items before one), for a token by
the last item of the page before.

The properties hold for all, with premises over features: `ReadsOn` (the loop ends
with the listing or an error) and `Dependable` (`ReadsOn`, rows that are merged, a range that is closed at
the cursor, and a listing in which an update cannot get behind the run's position
while the cursor moves on). What the premises leave out is a result:

| not dependable | because |
|---|---|
| Pipedrive and all that count items | a deletion shifts later items past the next page |
| Salesforce, Pinterest, Intercom search, Klaviyo metrics and lists, Shopify's GraphQL products and inventory | the range begins after the cursor: a second item with its time is lost |
| HubSpot search, DynamoDB, MongoDB, Intercom tickets, Zendesk, Shopify products | an update moves an item while the run is paging, the cursor passes it |
| Slack, Asana's tasks, Facebook's campaigns | the range has no end, and channels, projects or accounts are read one after the other |
| Klaviyo, Hostaway's settings, Docebo's group members | an error ends the loop, and the run succeeds; where the table is replaced, loaded rows go |
| Snapchat | an item whose own status is not `SUCCESS` is left out, and the cursor goes on |
| Gorgias' messages and surveys | listed by creation, but the loop ends at a page of old updates: an update of an old message behind it is not seen |
| Freshdesk, PlusVibe, Jira's users, Monday's updates, Phantombuster | the loop ends early (for Jira's users and Monday's updates, after one page), or steps over items of one time |
| Customer.io's actions and messages of broadcasts and campaigns, Personio's absence balances, Pipedrive's participants and changes of deals | children are asked for when their parent passes the cursor: one that is written while its parent stays as it is waits for the parent's next change (`Visible`) |
| Customer.io's test groups, Hostaway's calendars | the same, and what the changed parents have replaces the table (run `replaced`) |
| Zoom | the token of one user's last page is sent for the next user |
| Intercom (paginated) | the cursor that filters is the one that moves with each item |

Dependable are, among others, Jira, Linear, Solidgate, Stripe (incremental), Gorgias,
Elasticsearch, Couchbase, GitHub's GraphQL resources and everything that is loaded
whole with tokens.

**`DailyReport`, `Reports`** — the same for report sources: `start` (the last day
loaded, or a window), `end` (today or yesterday), `cut` (one request, spans, single
days), `dated` (the range is one of days, or of instants), `pages` (all pages of a request
are turned, or those up to a limit), `key` (a primary key, the day as merge key, both,
none), `error` and `absent`. The service publishes and revises figures for `Revisable`
days. `known` are the rows a run owes, `loaded` those that committed runs owe: what the
code loses is taken out of them where it happens, so that the properties speak of all
other rows of each source.

| family | members | limit |
|---|---|---|
| cursor on the day, merge key the day | Facebook, AppsFlyer, AppLovin MAX, Indeed | rows of the last day that have not changed are left out by the cursor and deleted with the day when another row has changed (`Loses`) |
| cursor on the day, primary key | LinkedIn, Google Ads, Frankfurter, Pulse, Anthropic usage, App Store | a revision after the row was loaded is never seen (`settled` excepts the cursor's day, `EventuallyReported` asks for a row only) |
| reports that are polled | Indeed | a report that is not ready after ten polls is passed over, and the cursor with it (`PassOver`) |
| window, all pages of all days | Snapchat, Adjust, AppLovin, Reddit, Anthropic costs | none inside the window |
| window of instants | TikTok, Google Analytics | rows of the first day are dated at midnight, and dropped when the window begins later in that day (`AskedFor`) |
| spans of instants | TikTok | the next span begins a day after the last, at the time of day the window began: if that is later than the one it ends at, the last day may not be asked for (`Late`) |
| capped pages | Google Analytics | `get_report` ends past a million rows: the others are not loaded, and those of the same days that were are deleted by the merge on the date (`AboveLimit`, `capped`) |

**`RemoteStaging`, `LocalFileTarget`, `ElasticsearchTarget`, `StagedExport`** — the
first has the remote files and their local copies, the next two a destination each,
and `StagedExport` composes them with the run of `api.py` in the order of its context managers and hooks.

| TLA+ | code |
|---|---|
| `StartRun` (`AskSize`), `Open`, `Download`, `EndDownload` (`SizeAgrees`) | `materialize_remote_object`: `info`, `open`, the loop, the comparison |
| `StartRun` (`StartTransfer`), `Transfer`, `TransferBreaksOff` (`LeavePartial`) | `RsyncStager.stage`, `--partial` |
| `MakeBucket` | `dlt_dest`: after a database is staged, before rsync |
| `Resume`, `ReadDatabase`, `ListFiles`, `ReadFile` | `pipeline.run`: a pending package, or extraction |
| `LoadJob`, `EndLoad`, `StartExport`, `EndExport`, `ExportFails` | jobs of the load, `post_load` |
| `BeginJob`, `ClearForJob`, `EndJob`, `JobFails` | `elasticsearch_insert`: the test of `_cleared_indices`, the deletion, `bulk`, its exceptions; dlt calls it for several data files at once |
| `StartProcess` | `_cleared_indices` is empty in a new process, kept in one that runs several ingests |
| `EndIndexed` | no `post_load` for an index |
| `Fails` | any exception, or the end of the process |

A copy is a sequence that names, for each chunk, the version it is of, so truncated
and mixed copies are told from whole ones. `sound[s]` is a history variable: the files
nobody disturbed while run `s` copied them. `before[s]` is one too: the jobs of a
resumed package that are in the bucket of an earlier run.

An index is one load's documents only under `Replaces`: each run in a process of its
own, and one data file. `docs/supported-sources/elasticsearch.md` says without
condition that an existing index is deleted before new data is loaded. A process that
ingests twice keeps the documents of the first load, and of several data files that
are loaded at the same time each may find the index uncleared, so that one deletes
what another has inserted (either premise is needed: without it TLC finds
`ExportsWholeLoads` violated). A load that is resumed in a new process deletes the
documents of its earlier jobs (`before`), and an empty load deletes nothing. Documents
are assumed to have an id, without one a job that is tried again inserts them twice.

**`Sources`, `IngestRequest`** — the sequence of decisions in `_run_ingest` before and
after `dlt_source`, for all source classes. `Sources` has one record per class, named
after it and read off its `api.py`: whether it manages incrementality, the guard it
begins with, what it refuses, how much of the interval it hands on, and what its
resources read and how they write. A request is a source, one of its resources, a
strategy, a key and one option.

| TLA+ | code |
|---|---|
| `LeftKey`, `MergeKey` | the key is nulled for sources that manage incrementality (`api.py:478-479`), the merge-key hint is set before that (`377-385`) |
| `Honoured`, `Strategy`, `RunsScd2` | resolution of the strategy (`364-387`, `478-522`) |
| `FilesRefused`, `KeyRefused`, `StrategyRefused`, `Scd2Refused` | the `ValidationError`s, in the order of `Verdict` |
| `GuardFires`, `SourceRefuses` | the checks at the beginning of each `dlt_source` |
| `Reads`, `Window`, `Disposition`, `Deduplicates` | `run_options`, `write_disposition`, `set_primary_key` |
| `Extract`, `Load` | `run_pipeline`; by the interface only: how a source pages and cuts its ranges is in `Connectors` and `Reports` |

`plan` is what is left of a request when the load is started. Requests that leave the
same plan are one behaviour: 17,577 requests leave some 700. `Unsound` names the
combinations the code accepts although they lose rows, which is part of the result:

| accepted | loses |
|---|---|
| `delete+insert` with a key, on a source that manages incrementality or does not look at the key (Kafka, Asana, Mailchimp, Monday, Attio, Bruin, Allium, Dune) and hands on only what is new | loaded rows that share the key's value with a new one |
| the same with `--yield-limit`, on sources that do look at it | rows the limit cut off, until they change |
| `scd2` on Kafka, Asana's tasks, Monday's boards, Google Ads, Allium, Dune | the open record of each row that is not new |

## 4. Runs

| run | asks | result |
|---|---|---|
| `mq_delivery` | is anything acknowledged before it is visible; one row per message; does a lease or a token outlive its run; what does a nack hand back; does `MqBridge` implement `Delivery`; is every message acknowledged and does every run end | holds |
| `kafka_incremental` | is anything skipped, duplicated, left for ever; `Delivery` | holds |
| `kinesis_incremental` | is anything skipped, duplicated or never loaded under a split, skew and a failure | holds |
| `kinesis_limited` | does a run read all messages after `--interval-start` | violated, section 8 |
| `fs_incremental` | is any content skipped, duplicated, never loaded | holds |
| `sql_incremental` | is any row skipped, duplicated, removed although unchanged, never loaded, under twelve command lines | holds |
| `paged` | for 180 resources of 50 sources: does the loop reach every item; does the cursor pass one; does the table catch up | holds, under the premises of section 3 |
| `replaced` | do the rows that replace a table of children have all that the service has | violated, section 8 |
| `daily_reports` | for 22 resources of 16 sources: is a day left out, a row deleted, a figure wrong | holds, under the premises of section 3 |
| `staged_export` | are rows those of whole versions, files and indices those of whole loads, and does the target get to the last version | holds |
| `requests` | for every source, strategy, key and option: does a run that is accepted lose a loaded row or falsify the history | holds, outside `Unsound` |
| `own_keys` | does a key that a source says should not be provided lose rows | violated, section 8 |

**Bounds, and why they suffice.**

- `mq_delivery`: two runs (one to fail, one to take over), three messages of which
  one cannot be decoded, one fault, and three deployments: batches of two without a
  limit and with one that falls on or inside them, batches of one with a limit above.
  What needs a second fault (a failure during the retry) is in the proofs only, which
  hold for any number. `EveryMessageAcked` asks that a batch can be completed and
  decoded (`Drains`): a limit at or below the batch size hands each batch back for ever.
- `kafka_incremental`: two partitions, so that one can be ahead; two messages each,
  enough for "one behind the maximum" and for an older and a newer one; one fault.
- `kinesis_incremental`: a shard with one record that is split, and its child with
  two; chunks of one record, so that every chunk can be the last of a run; two seconds,
  since both margins are one second; one fault. `--interval-start` is a time inside the
  run, with and without a limit, or the epoch, for which the code reads from the latest
  record on (`Promised` asks for what arrived after the first iterator, `tip`). Liveness
  is asked only without a limit. With one, and as long as nothing fails, `NothingSkipped`
  asks of each shard that its records are loaded without a gap; the shards that a limit
  leaves out are what `kinesis_limited` shows (no split, no fault, no skew, three seconds).
- `paged`: two items on pages of one, so that everything a page can end with
  happens; three times (before, at and after the cursor); one fault; for children, two
  parents with one child each. `replaced`: the same, no fault.
- `daily_reports`: two keys, so that one can change and the other not; four days with
  a window and a span shorter than that; three changes (publish two, revise one; four
  also pass); one fault; requests of more than two rows are above the limit of rows, so
  that a window of three days can be, and need not.
- `staged_export`: versions of two, one and two chunks, so that one can replace
  another of the same or a different length; one object and one run, two files and one
  run, one file and two runs for rsync; an index with each of its options and one
  schedule; one fault.
- `fs_incremental`: two files (a tie needs two), two contents, two times, one fault.
- `sql_incremental`: two rows, two contents, three times (before, at, after the
  boundary), two faults. Row counts saturate at two, which tells "once" from "several".
- `requests`: two rows, so that one can be new and the other unchanged; three times
  (before, at and after the cursor; inside, at the end of and after the interval), a
  default window shorter than that. `own_keys`: the same, no options.

What the properties allow is part of the result, for example that
`SqlIncremental!LoadedOnce` says nothing of appending with an interval.

- A delete+insert cut by `--sql-limit` can delete a loaded row that shares its merge
  key with a row inside the limit (`Cut` excepts it), and a limit smaller than the
  number of rows with one value of the key makes no progress.
- A merge with a primary key does not see a second update of a row at the same
  value of the key (`tests/warehouse/operations.py` expects as much).
- A failed `--full-refresh` without `--pipelines-dir` drops the tables and keeps the
  cursor (`FilesystemIncremental!NothingSkipped` excepts it).
- A `--yield-limit` below the batch size never completes a batch, and a message that
  cannot be decoded stops its queue: nothing is lost, nothing moves
  (`Drains` excepts both).
- An export resumed from a package whose load had broken off has only the rows that
  were left (`before`): the jobs that were complete went to the bucket of the earlier
  run. `LocalFilesystemDestination.post_load` means to read all data files "so nothing
  is dropped", which is true of one bucket. The next full run repairs the file. With a
  cursor, rows would be gone for good, which is why an append to a single file is one
  load's rows (`docs/supported-sources/filesystem.md` says so for files).
- A reader of the output file finds it empty while it is rewritten;
  `EventuallyExported` says "again and again" for this reason.
- A remote file that has been removed stays in rsync's staging directory and in the
  rows; if its last transfer broke off, it stays truncated (`WholeCopies` speaks of
  files that a run has transferred).

## 5. Fairness

Runs are started again and again (a scheduler), and a started run takes its next
step: weak fairness of a run's steps as a whole, never of a particular outcome.
Faults, writers and producers have no fairness; the number of faults is bounded,
since a run that always fails never progresses.

- `MqBridge`: weak fairness of `Redeliver`: a lease that nobody renews runs out.
- `KafkaSource`: strong fairness of consuming from each partition: librdkafka
  fetches all assigned partitions in turn. Weak fairness would not do, since
  `ConsumeNothing` is always possible.
- `KinesisSource`: strong fairness of `GetRecords` with at least one record: a shard
  with records does not return empty batches for ever; weak fairness of the clock.
- All others: weak fairness of a run's steps only; in `StagedExport` for each schedule.

Properties of the form `[]<>P` where writes are bounded mean "for good from some
point on" when nothing but a write can falsify `P`.

## 6. Proofs

`tlapm` checks them from the assumptions `BoundsAssumption`, `OptionsAssumption` and
the like, which say that bounds are naturals, sets are finite, flags have their
types. They hold for any number of runs, messages, partitions, faults, batch sizes
and for all command lines at once.

Each inductive invariant was first checked by TLC on an instance (or, where the property
depends on features, on all combinations of features), then proved. Every proof has the
same outline: lemmas on the operators, one lemma for each conjunct of the invariant with
a step for each action that can disturb it, and a theorem that puts them together.
Integers, sets, functions and sequences are the ones of the library. Where a model chooses
the greatest or the least of some numbers (`CHOOSE`, `Max`, `Min`), the lemmas
`MaximumExists` and `MinimumExists` say that there is one, since `<` is well-founded.

**`MqBridgeProofs`**

- `TypeCorrect`: `Spec => []TypeOK`.
- `TokensAlwaysSecured`: `TokensSecured` is inductive together with `TypeOK`. It says
  that a run that has ended, by whichever exit, holds no token and no lease, and
  where the messages of each token in `pending[r]` are at each point of the run: in
  the package being extracted, in the working directory, staged, published. It
  speaks of tokens of the *present* consumer only: after a Databricks retry, tokens
  of the attempt before are in no package (section 8), which is harmless because
  they mean nothing to the new consumer (`consumer[r] <= attempt[r]`, and a token
  that exists when a retry starts is strictly older).
- `NoMessageLost`: `AckedIsPublished`, since `AckBatch` takes from a secured token and
  at `"ack"` secured means published.
- `OneRowPerMessage`: `EffectivelyOnce`, from `published` messages having exactly one
  row in a merging destination.
- `NacksOnlyTruncatedCorrect`: an action property. Its invariant, `Accounted`, says that
  whatever a consumer holds is in the batch under way or belongs to a token of that
  consumer; when all of those are acknowledged, only the batch is left to hand back.
- `Refinement`: `Spec => D!Spec`, step by step.

**`KafkaSourceProofs`**

- `TypeCorrect`: `Spec => []TypeOK`; the tracker's offsets stay within the log.
- `NoMessageSkipped`: `NothingSkipped`. It is not inductive: it speaks of the state a
  run starts from, while three other copies (of the run, of the package, of the
  destination) are on their way to become that state. The invariant says the same
  of each copy with the rows that travel with it: what the run's offsets cover is in
  `rows`, loaded, in the package, expired or older than the start.
- `LoadedOnceCorrect`: the offsets only move forward (`Onward`: destination, working
  directory, package and run are in this order, and a run's rows lie strictly
  between the offsets it started from and its own), so a row that is appended is not
  loaded yet (`Once`). It needs the working directory to survive, as the property says.
- `Refinement`: every step implements `Delivery`, unless the strategy is `replace`, which
  takes rows out of the table; the run has the other two for the same reason.

**`KinesisSourceProofs`**

- `TypeCorrect`: sequence numbers and the iterator stay within their shards.
- `LoadedOnceCorrect`: by `Exact`. The sequence numbers of table, saved state and run
  are in order, and a row lies between the saved number of its shard and the one of the
  run (`OnceYielded`). This is why a child shard that is queued twice is harmless: its
  iterator is computed from the number the first visit left (`Positioned`).
- `NothingSkippedCorrect`: what is missing in the table is, at every point of the run,
  still in front of it (`Reached`: in a queued shard, behind the iterator of the open
  one, or arrived after the time the run leaves for shards without a number), or left
  to the next run. For a start at the epoch, what is missing arrived after `tip`, or is
  read from there. With `--yield-limit` only `ReadOn` holds: no gap in a shard.
  It assumes `Skew <= 1`, which is the second that `subtract(seconds=1)` takes off. This
  is not for the proof's sake: with `Skew = 2` TLC finds a record that is skipped, in a
  shard that was empty when the run read it, because it arrives before the time that
  the run leaves there for the next one.

**`SqlIncrementalProofs`** and **`FilesystemIncrementalProofs`** have one plan.

- `Dated`: what the table, a package and the cursors know are versions that were there,
  none is from the future, and one with the present time is `stamped`. From this follows
  that a write that is not hidden is read by every cursor there is.
- `NothingSkippedCorrect`: `Covered`. A row (a file) whose last write shows is loaded, in
  the package, or read by the cursor *reached*, which is the package's while one is
  pending; and without `--pipelines-dir` it is loaded or read by the saved cursor, since
  the package may be lost. For files, `Underway` says the same in the middle of a
  run, where each file is still to be asked for, listed with its present time,
  selected and still to be read, or read.
- `LoadedOnceCorrect`: what is loaded or packaged has been passed by the cursor
  (`AllPassed`, `NoRepeat`), and what a package still has to append is not in the table
  (`Fresh`). For files, with `raced` as the exception of a content written between
  listing and reading.
- `UnchangedStaysCorrect` (SQL, an action property): `Retaken`. Whatever of the source a
  load takes out is among the rows it brings: a `delete+insert` reads all rows at the
  boundary again, since `Deduplicated` leaves none out, and a merge reads the row it
  replaces.

The attempt to prove `Covered` corrected the two models. `hidden` used to compare a write
with the version before it only. A row that is read with the present time, written again
with an older one, and once more with the present time would have counted as visible,
although the cursor has passed it. The bounds of the runs have too few versions to show
this; the proof did not go through until `stamped` was there.

**`DailyReportProofs`**, for all 768 combinations of the features

- `TypeCorrect`; `LoadedStaysCorrect`, from `DaysWhole` (a window is asked for with all
  rows of a day or none, as long as no limit stopped a request), `CursorLast` (the cursor
  has come to all that is loaded, so a merge by the day reaches rows of its day only) and
  `SeenKept` (what the cursor leaves out is in the table).
- `NothingMissingCorrect`: `Owed`. Each row the run owes is in the table, handed on, or
  of a day that a later request asks for (`Ahead`): the requests leave no day between
  them, however the range is cut. The theorem has no premise on the source; the rows that
  are not owed are the ones of the table in section 3, and when a limit of rows has once
  stopped a request (`capped`) nothing is said any more.
- `FinalFiguresCorrect`: `Settled` (rows that were final when the run began have their
  figure) and `Figures`, which needs `CursorPast`: the cursor of the report has come to
  the day, and if it stands there, no later load brings anything of that day.

**`PagedSourceProofs`**, for all combinations of the features

- `TypeCorrect`.
- `EveryItemReadCorrect`: `Reading`. Each item of the range that stayed as it was is
  handed on, or in what is left of the listing (`Rest`), or of a parent that comes
  later. Its lemmas are about places: a page is the first `PageSize` of the rest, so
  what the loop leaves behind the last page is nothing (`LastPageIsLast`), what follows
  a page is the rest without it (`NextRest`), and a write by others takes only that item
  out of the rest, or moves places, in which case nothing is `steady` (`RestStays`).
- `NothingLostCorrect`: `Saving`. Between two runs an item is in the table as it is or the
  next run asks for it (`Saved`). During a run, each item is handed on, or still to come,
  or newer than the cursor that the run will leave (`Behind`): because the range has an
  end, or because the listing has the newest first, so all that is handed on later is
  older. Where the range is one of parents, `ParentRun` says the same of parents. `Clocked`,
  `Creation` and `SeenThen` are what is true of times whatever the features are.

Two premises became precise with the proof. `ReadsOn` asks a source that stops at an old
item to list by time, and not by parents that have changed, and `Dependable` asks for rows
that are merged. No connector of `Connectors` changes sides.

**`StagedExportProofs`**, for every deployment (either kind of source and target, with and
without `--pipelines-dir`, one process or several, objects tied to their version or not)

- `TypeCorrect`; no copy is longer than a version.
- A step is the remote side's or one schedule's, which touches no other schedule (`Frame`),
  except through the directory that rsync runs share; `Moves` lists what it may do with
  the package of its own run.
- `WholeCopiesCorrect`: by `Packages`, from `Objects` and `Transfers`. A sound copy of an
  object has, at each point of the download, only chunks of the version that was opened, so
  at its full size it is that version (this is all that `SizeAgrees` can tell, and enough).
  A sound file of rsync is whole whichever run transferred it last (`CopySteps`), and a
  package has of each file that is read exactly the rows of its copy at that time.
- `ExportsWholeLoadsCorrect` (an action property). Files: a run that loads has a bucket of
  its own with `done \ before` in it (`Filled`). Indices: `Indexing`. Until the first
  batch has cleared the index the load has done nothing, and from then on the index holds
  documents of the package only. A batch that is repeated replaces its own document and no
  other, because a package has one version of each chunk; and a load always has a batch,
  because a package is never empty. Without the last an index would keep what it has.

**Only model-checked.**

- Liveness and fairness: `EveryMessageAcked`, `EveryRunEnds`, `EventuallyLoaded` (three),
  `EventuallyCurrent` (two), `EventuallyReported`, `EventuallyExported`. They rest on
  `ENABLED` and on well-founded induction over behaviours, for which there is no prover here.
- `IngestRequest!StaysOrReturns` and `HistoryIsTrue`: what they say depends on the entries of
  the table of source classes in `Sources`, and the run goes through all of these. For more
  rows and times than the run has they are not proved.

## 7. What the environment is assumed to do

These are not in the repository and are modelled from how the code uses them.

- **dlt.** A package in the working directory is loaded before anything is extracted,
  and then nothing is. State changes made while extracting are committed with the
  rows and become visible in the destination when the package is complete. A failed
  extraction leaves neither rows nor state. Appending and replacing are written job
  by job and may stop between two jobs; merging, delete+insert and scd2 are one
  transaction. A fresh directory restores the state from the destination.
  A `replace` resource starts from an empty state. `add_limit` closes the generator.
  `dlt.sources.incremental` with closed ranges drops rows at the boundary that it has
  seen, by primary key, by content without one, not at all if the key is `()`; with an
  end value it keeps no state. A merge without any key appends.
- **Brokers.** A lease ends by ack, nack, timeout or loss of the consumer. A token means
  nothing to a consumer that did not hand it out. Acknowledging an expired lease may
  or may not remove the message. Message ids are unique and stable.
- **Kafka.** Offsets are dense; retention removes from the beginning; an out-of-range
  position goes to the beginning.
- **Kinesis.** Sequence numbers follow arrival; children appear when their parent is
  closed and read to its end.
- **Databases and filesystems.** One query sees one state of a table. A filesystem gives
  each file's times and contents separately.

- **HTTP services.** A listing is in the order that its documentation or the client's
  parameters name; a token or key stands for a place in that order, a number of items
  does not; a page shows the collection as it is then, an error leaves no page.
- **Report services.** A figure may be published and revised during its day and
  `Revisable` days after; a report has all rows of the days it is asked for.
- **Object stores and rsync.** An object is replaced as a whole; an open one may or may
  not be tied to its version. rsync transfers a file whose size or time differs,
  verifies it, and renames it into place; it finds a change in either.

## 8. Where code and documentation disagree

1. `replaced`: "Replace ... simply replaces the entire destination table with the source
   table" (`docs/getting-started/incremental-loading.md`). Customer.io's
   `newsletter_test_groups` and Hostaway's `listing_calendars` are replaced with the
   children of the newsletters and listings that have changed since the last run: the
   second run removes the children of all others. Each of the two parents is a merged
   resource with a cursor, which a replacement of the children does not reset. (Asana's
   stories are written the same way, but Asana leaves the strategy to the run, and its
   default, `replace`, resets the cursor of the tasks too.)
2. `own_keys`: some forty sources begin with "... takes care of incrementality on its
   own, you should not provide incremental_key" and a test of the key. `_run_ingest`
   takes the key away before, so the test never fires and the key is silently ignored,
   but for `delete+insert`, which has made it the merge key by then: the merge of a few
   new rows deletes all loaded rows with the same value in that column. The sources
   that test `requested_incremental_key` (mq-bridge, Delta Lake, rsync) do refuse.
3. `kinesis_limited`: "the resource will read all messages after this timestamp"
   (`source/kinesis/api.py`, of `--interval-start`). The timestamp in the state moves at the
   start of a run for all shards; a `--yield-limit` that ends the run before some shard is
   visited loses what that shard held. Without a limit the sentence fails for a start at
   1970-01-01: `get_shard_iterator` takes a timestamp of 0 for `LATEST`, and what arrived
   before the first run is not read.

Seen while modelling, without a run of their own:

- The comment in `MqBridgeSource.post_load` says it acks "exactly the batches that made
  it into the load package". After a Databricks retry whose package dlt had dropped,
  `_pending_batches` still holds the tokens of the failed attempt, and they are acked
  too. `NoMessageLost` shows that nothing is lost as long as a token is meaningless to
  another consumer.
- `tests/stream/test_kafka.py` says a second run with the default strategy leaves the
  three rows alone. The default strategy is `replace`: the run reads everything again,
  and if its first `consume` returns nothing in time, the table is empty afterwards
  and the run succeeds.
- "Anything that hands dlt less than that state ... corrupts the history rather than
  failing, so refuse it up front" (`api.py`, of scd2): the options are refused, the
  resources with a cursor of their own are not (`Unsound`). A source that declares
  scd2 itself (Shopify's) is not checked against `--yield-limit` either.
- `docs/supported-sources/asana.md` and `monday.md` call tasks and boards merged and
  incremental; with the default strategy `replace` applies, and the cursor starts
  afresh with each run (so for Mailchimp and Google Ads).
- Dune takes its end timestamp from the start date; Cursor writes the interval into
  dlt's configuration of the whole process; RevenueCat and Fluxx read the interval and
  do not use it.
- "By default, omniload reads from the beginning of the Kinesis stream"
  (`docs/supported-sources/kinesis.md`): without `--interval-start`, `source/kinesis/api.py`
  raises `ValueError("No start date provided")`.
- `has_unread` is to be "True, if there are messages to read, False if all the current
  offsets are equal to their maximums" (`source/kafka/helpers.py`), and the loop is to "read messages up to the maximum offsets"
  (`source/kafka/adapter.py`). The test is `cur + 1 < max`, of a `cur` that is the next
  offset to read: a partition with one unread message counts as read, and that message
  waits for the next run. `EventuallyLoaded` shows that it is loaded then, or by a later
  one; that no message is left unread by a run is not stated as a property, since it is
  not so.
- Google Analytics' `get_report` "Processes every page and yields a dictionary for every
  row of the report", but ends past offset 1,000,000 without an error, and the merge on the
  date then deletes what an earlier, smaller request had loaded (`AboveLimit`).
- TikTok: "You can override this by specifying `interval_start` and `interval_end`"
  (`docs/supported-sources/tiktok-ads.md`), but with a start at 12:00 and an end at 06:00
  some 31 days later the day of the end is in no interval (`Late`).
- `source/fireflies/helpers.py` cuts the time of analytics into chunks. Those of thirty
  days begin a day after the end of the one before, although an end is an instant, and
  those by month end at the beginning of its last day: a day between two of them is in
  no chunk.

Smaller ones are excepted by premises of properties that hold: the meetings "for all
users in the account" (`zoom/adapter.py`, one dictionary of parameters for all users),
the "inclusive" search of Intercom that asks for `>`, and the sentence on data files
quoted in section 4. Two more are part of properties that hold: `start_from`, which goes
one message further back than its docstring says, and a third way to hide a file's write that the documentation of
incremental loading does not name (`FilesystemIncremental!NothingSkipped`).

## 9. Not modelled

- `IngestRequest` takes one option at a time and no `--primary-key`; table name
  defaults, reshaping, partition hints and InfluxDB's `merge` by primary key are left out.
- URI grammars, credentials, reflection, format decoding, logging: no state.
- Several Kafka topics (a topic that is added later has no offsets and fails), compaction,
  Kinesis retention, sequence numbers compared as strings, a second page of shards (its
  keys are taken for shards), a `query:` as SQL source (it replaces a function of dlt
  for the whole process), worksheets that become several
  tables: in the plan.
- Of the connectors: the items themselves, tokens that are renewed, children of
  children, and the ones whose loop is none of `PagedSource`'s: MongoDB's parallel loaders
  (omniload never chooses them), an empty page of Stripe with `has_more` (the loop repeats it for
  ever), Fireflies' chunks by duration (a day between two of them), Indeed's statistics
  by campaign (they read the cursor while it moves), Solidgate's reports (polled for
  ever), Dune and Allium (they raise after the last poll). `fluxx` and `shopify` are
  long for the fields and queries they list; their loops are in `Connectors` or like
  those there.
- Of the report sources: a change of the offset of TikTok's `timezone` (the end of summer
  time) between two of its intervals, which can shift the days they are of; hours as the
  cursor (`stat_time_hour`, `dateHour`); Google Analytics' realtime reports.
- The readers' registry of worksheets, masks and recipes: planned, section 2.
- Destinations: dlt's; they appear as the environment of section 7.
- Concurrent runs that share one pipeline directory: nothing in the code keeps them
  apart, so schedules are assumed to use one each (`MqBridge` has several runs, each
  with its own working directory).

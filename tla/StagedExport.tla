---------------------------- MODULE StagedExport ----------------------------
(***************************************************************************)
(* Runs that read staged copies (RemoteStaging) and write a local file       *)
(* (LocalFileTarget) or an Elasticsearch index (ElasticsearchTarget):         *)
(* _run_ingest_with_remote_database and _run_ingest of omniload/api.py.  The  *)
(* order of a run is: stage a remote database; make the bucket; transfer with *)
(* rsync; extract; load, one job for each data file; write the output file;  *)
(* remove the staged copy.                                                   *)
(*                                                                         *)
(* A package whose load broke off stays in a persistent pipeline directory.  *)
(* The next run loads what is left of it, instead of extracting.  Schedules   *)
(* run at the same time, each with a pipeline and a target of its own.        *)
(***************************************************************************)
EXTENDS RemoteStaging, LocalFileTarget, ElasticsearchTarget

ASSUME TargetsAssumption == Targets = Schedules /\ Indices = Schedules /\ Documents = Rows
\* A row is a chunk: its file, its place and the version it is of.
ASSUME RowsAssumption ==
  \A v \in Versions : Files \X (1 .. Chunks[v]) \X Versions \subseteq Rows

CONSTANT MaxFailures     \* bound: transfers, loads and writes that fail, kills
ASSUME BoundsAssumption == MaxFailures \in Nat

VARIABLES
  pc,
  unread,      \* files listed and not read yet
  package,     \* rows extracted, a data file for each
  done,        \* jobs of the package that are completed
  pending,     \* the package is of a run that failed
  before,      \* history: jobs that earlier runs completed, in other buckets
  failures

targetVars == <<fileVars, indexVars>>
packageVars == <<unread, package, done, pending, before>>
vars == <<options, remoteVars, stagingVars, targetVars, pc, packageVars, failures>>

Init ==
  /\ InitStaging /\ InitTarget /\ InitIndex
  /\ pc = [s \in Schedules |-> "idle"]
  /\ unread = [s \in Schedules |-> {}]
  /\ package = [s \in Schedules |-> {}] /\ done = [s \in Schedules |-> {}]
  /\ pending = [s \in Schedules |-> FALSE] /\ before = [s \in Schedules |-> {}]
  /\ failures = 0

Goto(s, l) == pc' = [pc EXCEPT ![s] = l]

DropPackage(s) ==
  /\ package' = [package EXCEPT ![s] = {}]
  /\ pending' = [pending EXCEPT ![s] = FALSE]
  /\ done' = [done EXCEPT ![s] = {}] /\ before' = [before EXCEPT ![s] = {}]

\* The jobs that are completed stay so, with their data files in the old bucket.
LeavePackage(s) ==
  /\ pending' = [pending EXCEPT ![s] = TRUE]
  /\ before' = [before EXCEPT ![s] = done[s]]
  /\ UNCHANGED <<package, done>>

Incomplete(s) ==
  pc[s] = "loading" \/ (pending[s] /\ pc[s] \notin {"exporting", "writing"})

\* What is left when a run fails: a package that is still to be loaded.
RunFailsAt(s, broken) ==
  /\ Goto(s, "idle") /\ EndStaging(s, broken) /\ EndBatches(s)
  /\ unread' = [unread EXCEPT ![s] = {}]
  /\ IF options.persistent /\ Incomplete(s)
     THEN LeavePackage(s) ELSE DropPackage(s)
RunFails(s) == RunFailsAt(s, {})

-----------------------------------------------------------------------------
(* Staging *)

StartRun(s) ==
  /\ pc[s] = "idle"
  /\ IF options.source = "object"
     THEN AskSize(s) /\ Goto(s, "opening") /\ UNCHANGED fileVars
     ELSE StartTransfer(s) /\ Goto(s, "transferring") /\ MakeBucket(s)
  /\ StartProcess(s, options.shared)
  /\ UNCHANGED <<packageVars, failures>>

\* RemoteObjectNotFoundError, before anything is made
ObjectNotFound(s) ==
  /\ pc[s] = "idle" /\ options.source = "object" /\ remote[Object] = 0
  /\ UNCHANGED <<remoteVars, stagingVars, targetVars, pc, packageVars, failures>>

Open(s) ==
  /\ pc[s] = "opening"
  /\ OpenObject(s) /\ Goto(s, "downloading")
  /\ UNCHANGED <<targetVars, packageVars, failures>>

Download(s) ==
  /\ pc[s] = "downloading"
  /\ ReadChunk(s)
  /\ UNCHANGED <<pc, targetVars, packageVars, failures>>

\* The loop ends with the object, or when the connection is closed before.
EndDownload(s) ==
  /\ pc[s] = "downloading"
  /\ \/ EndOfObject(s) /\ failures' = failures
     \/ failures < MaxFailures /\ failures' = failures + 1
  /\ IF SizeAgrees(s)
     THEN Goto(s, "staged") /\ MakeBucket(s) /\ UNCHANGED <<stagingVars, indexVars, packageVars>>
     ELSE RunFails(s) /\ RemoveCopy(s) /\ UNCHANGED fileVars
  /\ UNCHANGED remoteVars

\* RemoteObjectNotFoundError, or the version that was opened is gone.
DownloadFails(s) ==
  /\ \/ pc[s] = "opening" /\ remote[Object] = 0
     \/ pc[s] = "downloading" /\ ~AtEnd(s) /\ ~Readable(s)
  /\ RunFails(s) /\ RemoveCopy(s)
  /\ UNCHANGED <<remoteVars, fileVars, failures>>

Transfer(s) ==
  /\ pc[s] = "transferring"
  /\ \E f \in todo[s] : TransferFile(s, f)
  /\ UNCHANGED <<pc, targetVars, packageVars, failures>>

\* A file on the list is gone: RsyncTransferError.
TransferFails(s) ==
  /\ pc[s] = "transferring"
  /\ \E f \in todo[s] : remote[f] = 0
  /\ RunFails(s)
  /\ UNCHANGED <<remoteVars, staged, fileVars, failures>>

TransferBreaksOff(s) ==
  /\ pc[s] = "transferring" /\ failures < MaxFailures
  /\ failures' = failures + 1
  /\ \E f \in {g \in todo[s] : remote[g] # 0} : \E n \in 1 .. Chunks[remote[f]] - 1 :
       LeavePartial(s, f, n) /\ RunFailsAt(s, {f})
  /\ UNCHANGED <<remoteVars, fileVars>>

-----------------------------------------------------------------------------
(* pipeline.run: a pending package, or extraction *)

RowsOf(f, copy) == {<<f, i, copy[i]>> : i \in DOMAIN copy}

Resume(s) ==
  /\ pending[s]
  /\ \/ pc[s] = "staged"
     \/ pc[s] = "transferring" /\ todo[s] = {}
  /\ Goto(s, "loading")
  /\ UNCHANGED <<remoteVars, stagingVars, targetVars, packageVars, failures>>

ReadDatabase(s) ==
  /\ pc[s] = "staged" /\ ~pending[s]
  /\ package' = [package EXCEPT ![s] = RowsOf(Object, Copy(s)[Object])]
  /\ Goto(s, "loading")
  /\ UNCHANGED <<remoteVars, stagingVars, targetVars, unread, done, pending, before, failures>>

ListFiles(s) ==
  /\ pc[s] = "transferring" /\ todo[s] = {} /\ ~pending[s]
  /\ Listed(s) # {}
  /\ unread' = [unread EXCEPT ![s] = Listed(s)]
  /\ Goto(s, "reading")
  /\ UNCHANGED <<remoteVars, stagingVars, targetVars, package, done, pending, before, failures>>

\* NoFilesFoundError
NoFilesFound(s) ==
  /\ pc[s] = "transferring" /\ todo[s] = {} /\ ~pending[s]
  /\ Listed(s) = {}
  /\ RunFails(s)
  /\ UNCHANGED <<remoteVars, staged, fileVars, failures>>

ReadFile(s, f) ==
  /\ pc[s] = "reading" /\ f \in unread[s]
  /\ unread' = [unread EXCEPT ![s] = @ \ {f}]
  /\ package' = [package EXCEPT ![s] = @ \cup RowsOf(f, Copy(s)[f])]
  /\ IF unread[s] = {f} THEN Goto(s, "loading") ELSE UNCHANGED pc
  /\ UNCHANGED <<remoteVars, stagingVars, targetVars, done, pending, before, failures>>

Loading(s, target) == pc[s] = "loading" /\ options.target = target
Complete(s, r) ==
  /\ done' = [done EXCEPT ![s] = @ \cup {r}]
  /\ UNCHANGED <<unread, package, pending, before>>

LoadJob(s) ==
  /\ Loading(s, "file")
  /\ \E r \in package[s] \ done[s] : WriteDataFile(s, r) /\ Complete(s, r)
  /\ UNCHANGED <<remoteVars, stagingVars, indexVars, pc, failures>>

BeginJob(s) ==
  /\ Loading(s, "index")
  /\ Begun(s) = {} \/ options.parallel
  /\ \E r \in package[s] \ done[s] : BeginBatch(s, r)
  /\ UNCHANGED <<remoteVars, stagingVars, fileVars, pc, packageVars, failures>>

ClearForJob(s) ==
  /\ Loading(s, "index")
  /\ \E r \in clearing[s] : ClearIndex(s, r)
  /\ UNCHANGED <<remoteVars, stagingVars, fileVars, pc, packageVars, failures>>

EndJob(s) ==
  /\ Loading(s, "index")
  /\ \E r \in inserting[s] : InsertBatch(s, r) /\ Complete(s, r)
  /\ UNCHANGED <<remoteVars, stagingVars, fileVars, pc, failures>>

\* The load goes on, and the job is tried again.
JobFails(s) ==
  /\ Loading(s, "index") /\ failures < MaxFailures
  /\ failures' = failures + 1
  /\ \E r \in Begun(s) : BatchFails(s, r)
  /\ UNCHANGED <<remoteVars, stagingVars, fileVars, pc, packageVars>>

EndLoad(s) ==
  /\ pc[s] = "loading" /\ done[s] = package[s]
  /\ Goto(s, "exporting")
  /\ UNCHANGED <<remoteVars, stagingVars, targetVars, packageVars, failures>>

-----------------------------------------------------------------------------
(* post_load *)

StartExport(s) ==
  /\ pc[s] = "exporting" /\ options.target = "file"
  /\ OpenOutput(s) /\ Goto(s, "writing")
  /\ UNCHANGED <<remoteVars, stagingVars, indexVars, packageVars, failures>>

EndRun(s) ==
  Goto(s, "idle") /\ EndStaging(s, {}) /\ RemoveCopy(s) /\ DropPackage(s)

EndExport(s) ==
  /\ pc[s] = "writing"
  /\ WriteOutput(s) /\ EndRun(s)
  /\ UNCHANGED <<remoteVars, indexVars, unread, failures>>

\* nothing is left to do for an index
EndIndexed(s) ==
  /\ pc[s] = "exporting" /\ options.target = "index"
  /\ EndRun(s)
  /\ UNCHANGED <<remoteVars, targetVars, unread, failures>>

ExportFails(s) ==
  /\ pc[s] \in {"exporting", "writing"} /\ options.target = "file" /\ failures < MaxFailures
  /\ failures' = failures + 1
  /\ WriteOutputFails(s) /\ RunFails(s) /\ RemoveCopy(s)
  /\ UNCHANGED remoteVars

\* A load that breaks off, any other exception, or the end of the process.
Fails(s) ==
  /\ pc[s] # "idle" /\ failures < MaxFailures
  /\ failures' = failures + 1
  /\ RunFails(s) /\ RemoveCopy(s)
  /\ UNCHANGED <<remoteVars, fileVars>>

-----------------------------------------------------------------------------
Remote == \E f \in Files : WriteRemote(f) \/ RemoveRemote(f)
Others == UNCHANGED <<targetVars, pc, packageVars, failures>>

Run(s) ==
  \/ StartRun(s) \/ ObjectNotFound(s) \/ Open(s) \/ Download(s)
  \/ EndDownload(s) \/ DownloadFails(s) \/ Transfer(s) \/ TransferFails(s)
  \/ Resume(s) \/ ReadDatabase(s) \/ ListFiles(s) \/ NoFilesFound(s)
  \/ \E f \in Files : ReadFile(s, f)
  \/ LoadJob(s) \/ BeginJob(s) \/ ClearForJob(s) \/ EndJob(s) \/ EndLoad(s)
  \/ StartExport(s) \/ EndExport(s) \/ EndIndexed(s)

Next ==
  /\ \/ Remote /\ Others
     \/ \E s \in options.runs :
          Run(s) \/ TransferBreaksOff(s) \/ JobFails(s) \/ ExportFails(s) \/ Fails(s)
  /\ UNCHANGED options

Spec == Init /\ [][Next]_vars

\* Each schedule keeps starting runs, and a run takes its steps.
FairSpec ==
  Spec /\ \A s \in Schedules : WF_vars(s \in options.runs /\ Run(s) /\ UNCHANGED options)

-----------------------------------------------------------------------------
PipelineTypeOK ==
  /\ pc \in [Schedules -> {"idle", "opening", "downloading", "staged", "transferring",
                           "reading", "loading", "exporting", "writing"}]
  /\ unread \in [Schedules -> SUBSET Files] /\ pending \in [Schedules -> BOOLEAN]
  /\ {package, done, before} \subseteq [Schedules -> SUBSET Rows]
  /\ failures \in 0 .. MaxFailures
  /\ \A s \in Schedules : pc[s] = "downloading" => opened[s] # 0
TypeOK == StagingTypeOK /\ TargetTypeOK /\ IndexTypeOK /\ PipelineTypeOK

\* A file that nobody disturbed while the run copied it is loaded whole, in one
\* version: neither a closed connection, nor an object that is replaced before it
\* is opened, nor what earlier runs have left in the shared directory, makes rows
\* of a truncated or mixed copy.  An object that is not tied to its version is
\* disturbed when it is written during the download, a file of rsync when the
\* transfer of another run breaks off at it.
WholeCopies ==
  \A s \in Schedules : pc[s] = "loading" /\ ~pending[s] =>
    \A f \in sound[s] :
      \E v \in Versions : {r \in package[s] : r[1] = f} = RowsOf(f, Whole(v))

\* An index is replaced by a load: one process for each run, and one data file.
Replaces == options.target = "file" \/ (~options.shared /\ ~options.parallel)

\* A load leaves its own rows, all of them, and none of another: data files that
\* a failed run left behind are not read, and an index does not keep documents of
\* before.  But of a package that is resumed the jobs which earlier runs completed
\* are missing, since their data files are in other buckets, or the new process
\* has deleted their documents with the index.
ExportsWholeLoads ==
  [][\A s \in Schedules :
       /\ pc[s] = "writing" /\ output'[s] # output[s] =>
            output'[s] = package[s] \ before[s]
       /\ pc[s] = "loading" /\ pc'[s] = "exporting" /\ options.target = "index" /\ Replaces =>
            package[s] \ before[s] \subseteq index[s] /\ index[s] \subseteq package[s]]_vars

Exported(s) == IF options.target = "file" THEN output[s] ELSE index[s]

\* When nothing is written any more, every schedule's target has again and again,
\* between two rewrites, each remote file whole and in its last version.
EventuallyExported ==
  Replaces => \A s \in Schedules : \A f \in Files :
    []<>(s \in options.runs /\ f \in options.files /\ remote[f] # 0 =>
           {r \in Exported(s) : r[1] = f} = RowsOf(f, Whole(remote[f])))
=============================================================================

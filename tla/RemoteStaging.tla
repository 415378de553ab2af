--------------------------- MODULE RemoteStaging ---------------------------
(***************************************************************************)
(* Remote files that a run copies before it reads them: a database file of   *)
(* an object store (dlt_filesystem/staging.py), downloaded chunk by chunk    *)
(* into a directory of the run, or a selection of files that rsync transfers *)
(* (source/rsync/stager.py) into one directory which all runs share.  The    *)
(* remote files are written all the while.                                   *)
(*                                                                         *)
(* External: the object store, which knows the size of an object and may tie  *)
(* an open file to its version (S3 asks with the ETag) or not; and rsync,    *)
(* which replaces a file when it has received and verified it, but leaves    *)
(* under the same name what it has of it when it breaks off (--partial).     *)
(***************************************************************************)
EXTENDS Integers, Sequences

CONSTANTS
  Schedules,    \* runs started by one schedule follow each other
  Files,        \* remote files
  Chunks,       \* Chunks[v] is the length of version v; their number is the bound on writes
  Options       \* the deployments considered

Deployment == [
  source     : {"object", "rsync"},
  pinned     : BOOLEAN,      \* an open object is tied to its version
  persistent : BOOLEAN,      \* --pipelines-dir
  target     : {"file", "index"},   \* a local file, an Elasticsearch index
  shared     : BOOLEAN,      \* all runs in one process
  parallel   : BOOLEAN,      \* the documents fill several data files
  files      : (SUBSET Files) \ {{}},  \* the selection
  runs       : SUBSET Schedules]

ASSUME ChunksAssumption == Chunks \in Seq(Nat \ {0})
ASSUME OptionsAssumption == Options \subseteq Deployment

Versions == 1 .. Len(Chunks)

VARIABLES
  options,
  (* the remote side *)
  remote,       \* remote[f]: version of file f, 0 if there is none
  writes,
  (* local copies: a copy is the sequence of the versions its chunks are of *)
  staged,       \* staged[s][f]
  (* one run *)
  expected,     \* chunks the object had when it was asked for its size
  opened,       \* version of the object when it was opened
  todo,         \* files rsync has still to transfer
  (* history *)
  sound         \* files of the run that nobody disturbed

remoteVars == <<remote, writes>>
downloadVars == <<expected, opened, todo>>
stagingVars == <<staged, downloadVars, sound>>

Whole(v) == [i \in 1 .. Chunks[v] |-> v]
Object == CHOOSE f \in options.files : TRUE
Place(s) == IF options.source = "object" THEN s ELSE CHOOSE t \in Schedules : TRUE
Copy(s) == staged[Place(s)]

InitStaging ==
  /\ options \in Options
  /\ remote = [f \in Files |-> 0] /\ writes = 0
  /\ staged = [s \in Schedules |-> [f \in Files |-> <<>>]]
  /\ expected = [s \in Schedules |-> 0] /\ opened = [s \in Schedules |-> 0]
  /\ todo = [s \in Schedules |-> {}] /\ sound = [s \in Schedules |-> {}]

\* The end of run s, which leaves truncated copies of files broken to others.
EndStaging(s, broken) ==
  /\ expected' = [expected EXCEPT ![s] = 0] /\ opened' = [opened EXCEPT ![s] = 0]
  /\ todo' = [todo EXCEPT ![s] = {}]
  /\ sound' = [t \in Schedules |-> IF t = s THEN {} ELSE sound[t] \ broken]

-----------------------------------------------------------------------------
(* The remote side *)

\* An object that is not tied to its version changes under its readers.
Disturbs(f) ==
  sound' = [s \in Schedules |->
              IF options.source = "object" /\ ~options.pinned THEN sound[s] \ {f}
              ELSE sound[s]]

WriteRemote(f) ==
  /\ f \in options.files /\ writes < Len(Chunks)
  /\ writes' = writes + 1
  /\ remote' = [remote EXCEPT ![f] = writes + 1]
  /\ Disturbs(f)
  /\ UNCHANGED <<staged, downloadVars>>

RemoveRemote(f) ==
  /\ f \in options.files /\ remote[f] # 0
  /\ remote' = [remote EXCEPT ![f] = 0]
  /\ Disturbs(f)
  /\ UNCHANGED <<writes, staged, downloadVars>>

-----------------------------------------------------------------------------
(* materialize_remote_object *)

AskSize(s) ==
  /\ remote[Object] # 0
  /\ expected' = [expected EXCEPT ![s] = Chunks[remote[Object]]]
  /\ UNCHANGED <<remoteVars, staged, opened, todo, sound>>

OpenObject(s) ==
  /\ remote[Object] # 0
  /\ opened' = [opened EXCEPT ![s] = remote[Object]]
  /\ sound' = [sound EXCEPT ![s] = {f \in {Object} : Chunks[remote[f]] = expected[s]}]
  /\ UNCHANGED <<remoteVars, staged, expected, todo>>

Downloaded(s) == Len(staged[s][Object])
AtEnd(s) == Downloaded(s) = Chunks[opened[s]]
Readable(s) == remote[Object] = opened[s] \/ (~options.pinned /\ remote[Object] # 0)

\* a chunk of the version there is now
ReadChunk(s) ==
  /\ ~AtEnd(s) /\ Readable(s) /\ Downloaded(s) < Chunks[remote[Object]]
  /\ staged' = [staged EXCEPT ![s][Object] = Append(@, remote[Object])]
  /\ UNCHANGED <<remoteVars, downloadVars, sound>>

\* Reading found the end of the file, also of a shorter one put in its place.
EndOfObject(s) == AtEnd(s) \/ (Readable(s) /\ Downloaded(s) >= Chunks[remote[Object]])

\* MUTANT of SizeAgrees: whatever was read is accepted.
SizeAgreesAlways(s) == TRUE
SizeAgrees(s) == Downloaded(s) = expected[s]

\* TemporaryDirectory: the copy goes with the run, however it ends.
RemoveCopy(s) ==
  staged' = IF options.source = "object"
            THEN [staged EXCEPT ![s] = [f \in Files |-> <<>>]] ELSE staged

-----------------------------------------------------------------------------
(* RsyncStager.stage *)

StartTransfer(s) ==
  /\ todo' = [todo EXCEPT ![s] = {f \in options.files : remote[f] # 0}]
  /\ UNCHANGED <<remoteVars, staged, expected, opened, sound>>

\* MUTANT of Transferred: a file that is there already is not looked at again.
TransferredOnce(s, f) == IF Copy(s)[f] = <<>> THEN Whole(remote[f]) ELSE Copy(s)[f]
\* Size or time differ, or the file is the same.
Transferred(s, f) == Whole(remote[f])

TransferFile(s, f) ==
  /\ remote[f] # 0
  /\ staged' = [staged EXCEPT ![Place(s)][f] = Transferred(s, f)]
  /\ todo' = [todo EXCEPT ![s] = @ \ {f}]
  /\ sound' = [sound EXCEPT ![s] = @ \cup {f}]
  /\ UNCHANGED <<remoteVars, expected, opened>>

\* The transfer ends in the middle of file f, and so does the run.
LeavePartial(s, f, n) ==
  staged' = [staged EXCEPT ![Place(s)][f] = SubSeq(Whole(remote[f]), 1, n)]

\* what the glob finds, files that are gone remotely among them
Listed(s) == {f \in Files : Copy(s)[f] # <<>>}

-----------------------------------------------------------------------------
\* no copy is longer than a version
Lengths == {0} \cup UNION {0 .. Chunks[v] : v \in Versions}
Contents == UNION {[1 .. n -> Versions] : n \in Lengths}

StagingTypeOK ==
  /\ options \in Options
  /\ remote \in [Files -> 0 .. Len(Chunks)] /\ writes \in 0 .. Len(Chunks)
  /\ staged \in [Schedules -> [Files -> Contents]]
  /\ expected \in [Schedules -> Nat] /\ opened \in [Schedules -> 0 .. Len(Chunks)]
  /\ todo \in [Schedules -> SUBSET Files] /\ sound \in [Schedules -> SUBSET Files]
=============================================================================

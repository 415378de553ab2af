------------------------- MODULE StagedExportProofs -------------------------
(***************************************************************************)
(* What is loaded is whole, and what is written is one load's, for every     *)
(* number of schedules, files and versions, every length, any number of      *)
(* failures, and every deployment.                                          *)
(***************************************************************************)
EXTENDS StagedExport, SequenceTheorems, TLAPS

\* Versions are positive numbers, and so are their lengths.
LEMMA VersionsType ==
  /\ Len(Chunks) \in Nat
  /\ \A v \in Versions : v \in Nat /\ v # 0 /\ Chunks[v] \in Nat \ {0}
<1>1. Chunks \in Seq(Nat \ {0})
  BY ChunksAssumption
<1>2. Len(Chunks) \in Nat /\ \A v \in 1 .. Len(Chunks) : Chunks[v] \in Nat \ {0}
  BY <1>1, ElementOfSeq, LenProperties
<1> QED
  BY <1>2 DEF Versions

\* A copy is a sequence of chunks, no longer than a version.
LEMMA ContentType ==
  ASSUME NEW c \in Contents
  PROVE  /\ c \in Seq(Versions) /\ Len(c) \in Nat /\ DOMAIN c = 1 .. Len(c)
         /\ Len(c) = 0 \/ \E v \in Versions : Len(c) <= Chunks[v]
         /\ \A i \in DOMAIN c : c[i] \in Versions
<1>1. PICK n \in Lengths : c \in [1 .. n -> Versions]
  BY DEF Contents
<1>2. n \in Nat /\ (n = 0 \/ \E v \in Versions : n <= Chunks[v])
  BY <1>1, VersionsType DEF Lengths
<1>3. c \in Seq(Versions) /\ Len(c) = n
  BY <1>1, <1>2, LenProperties, IsASeq
<1> QED
  BY <1>1, <1>2, <1>3

\* Conversely, a sequence of chunks that is no longer than a version is a copy.
LEMMA ContentIs ==
  ASSUME NEW c \in Seq(Versions), NEW v \in Versions, Len(c) <= Chunks[v]
  PROVE  c \in Contents
<1>1. Len(c) \in Nat /\ c \in [1 .. Len(c) -> Versions]
  BY LenProperties
<1>2. Len(c) \in 0 .. Chunks[v]
  BY <1>1, VersionsType
<1>3. Len(c) \in Lengths
  BY <1>2 DEF Lengths
<1> QED
  BY <1>1, <1>3 DEF Contents

\* No copy at all
LEMMA EmptyCopy == <<>> \in Contents /\ Len(<<>>) = 0
<1>1. <<>> \in [1 .. 0 -> Versions] /\ 0 \in Lengths
  BY DEF Lengths
<1> QED
  BY <1>1 DEF Contents

\* A whole copy
LEMMA WholeType ==
  ASSUME NEW v \in Versions
  PROVE  /\ Whole(v) \in Contents /\ Whole(v) # <<>>
         /\ Len(Whole(v)) = Chunks[v] /\ \A i \in 1 .. Chunks[v] : Whole(v)[i] = v
<1>1. Chunks[v] \in Nat \ {0}
  BY VersionsType
<1>2. Whole(v) \in [1 .. Chunks[v] -> Versions]
  BY DEF Whole
<1>3. Whole(v) \in Seq(Versions) /\ Len(Whole(v)) = Chunks[v]
  BY <1>1, <1>2, IsASeq, LenProperties
<1>4. Whole(v) \in Contents
  BY <1>1, <1>3, ContentIs
<1>5. Whole(v) # <<>>
  BY <1>1, <1>3
<1> QED
  BY <1>3, <1>4, <1>5 DEF Whole

\* Its rows
LEMMA RowsType ==
  ASSUME NEW f \in Files, NEW c \in Contents
  PROVE  /\ RowsOf(f, c) \subseteq Rows
         /\ \A r \in RowsOf(f, c) : r[1] = f
         /\ \A r, q \in RowsOf(f, c) : SameId(r, q) => r = q
         /\ c # <<>> => RowsOf(f, c) # {}
<1>1. /\ DOMAIN c = 1 .. Len(c) /\ Len(c) \in Nat
      /\ Len(c) = 0 \/ \E v \in Versions : Len(c) <= Chunks[v]
      /\ \A i \in DOMAIN c : c[i] \in Versions
  BY ContentType
<1>2. ASSUME NEW i \in DOMAIN c PROVE <<f, i, c[i]>> \in Rows
  <2>1. PICK v \in Versions : Len(c) <= Chunks[v]
    BY <1>1
  <2>2. i \in 1 .. Chunks[v]
    BY <1>1, <2>1, VersionsType
  <2> QED
    BY <1>1, <2>2, RowsAssumption
<1>3. c # <<>> => DOMAIN c # {}
  <2>1. c \in Seq(Versions)
    BY ContentType
  <2>2. c # <<>> => Len(c) \in Nat \ {0}
    BY <2>1, EmptySeq
  <2>3. c # <<>> => 1 \in 1 .. Len(c)
    BY <2>2
  <2> QED
    BY <1>1, <2>3
<1>4. ASSUME NEW r \in RowsOf(f, c)
      PROVE  \E i \in DOMAIN c : r = <<f, i, c[i]>>
  BY DEF RowsOf
<1>5. RowsOf(f, c) \subseteq Rows
  BY <1>2, <1>4
<1>6. c # <<>> => RowsOf(f, c) # {}
  BY <1>3 DEF RowsOf
<1>7. \A r \in RowsOf(f, c) : r[1] = f
  BY <1>4
<1>8. ASSUME NEW r \in RowsOf(f, c), NEW q \in RowsOf(f, c), SameId(r, q)
      PROVE  r = q
  <2>1. PICK i \in DOMAIN c : r = <<f, i, c[i]>>
    BY <1>4
  <2>2. PICK j \in DOMAIN c : q = <<f, j, c[j]>>
    BY <1>4
  <2>3. i = j
    BY <1>8, <2>1, <2>2 DEF SameId
  <2> QED
    BY <2>1, <2>2, <2>3
<1> QED
  BY <1>5, <1>6, <1>7, <1>8

\* The selection has an object; every run has a place for its copies.
LEMMA DeploymentType ==
  ASSUME TypeOK
  PROVE  /\ options.source \in {"object", "rsync"} /\ options.target \in {"file", "index"}
         /\ options.files \subseteq Files /\ Object \in options.files /\ Object \in Files
         /\ \A s \in Schedules : Place(s) \in Schedules
         /\ options.source = "object" => \A s \in Schedules : Place(s) = s
         /\ Targets = Schedules /\ Indices = Schedules /\ Documents = Rows
<1>1. options \in Deployment
  BY OptionsAssumption DEF TypeOK, StagingTypeOK
<1>2. options.files \subseteq Files /\ options.files # {}
  BY <1>1 DEF Deployment
<1>3. Object \in options.files
  BY <1>2 DEF Object
<1> QED
  BY <1>1, <1>2, <1>3, TargetsAssumption DEF Deployment, Place

-----------------------------------------------------------------------------
(* Every step has the type of its parts. *)

\* A step of one schedule.
Step(s) == Run(s) \/ TransferBreaksOff(s) \/ JobFails(s) \/ ExportFails(s) \/ Fails(s)

\* The remote side steps, or one schedule.
LEMMA Steps ==
  ASSUME TypeOK, [Next]_vars
  PROVE  /\ options' = options
         /\ \/ UNCHANGED vars
            \/ Remote /\ Others
            \/ \E s \in Schedules : Step(s)
<1>1. options.runs \subseteq Schedules
  <2>1. options \in Deployment
    BY OptionsAssumption DEF TypeOK, StagingTypeOK
  <2> QED
    BY <2>1 DEF Deployment
<1> QED
  BY <1>1 DEF Next, vars, Step

\* The end of a run, with what it leaves of the copies.
Leaves(s) ==
  \/ UNCHANGED staged
  \/ RemoveCopy(s)
  \/ \E f \in Files : \E n \in 1 .. Chunks[remote[f]] - 1 :
       remote[f] # 0 /\ LeavePartial(s, f, n) /\ \A t \in Schedules : f \notin sound'[t]

\* What a step does to the copies.
LEMMA StagingSteps ==
  ASSUME TypeOK, NEW s \in Schedules, Step(s)
  PROVE  \/ UNCHANGED <<remoteVars, stagingVars>>
         \/ AskSize(s) \/ OpenObject(s) \/ StartTransfer(s)
         \/ pc[s] = "downloading" /\ ReadChunk(s)
         \/ \E f \in todo[s] : TransferFile(s, f)
         \/ \E broken \in SUBSET Files :
              EndStaging(s, broken) /\ Leaves(s) /\ UNCHANGED remoteVars
<1> DEFINE Ends == \E broken \in SUBSET Files :
                     EndStaging(s, broken) /\ Leaves(s) /\ UNCHANGED remoteVars
<1>1. CASE StartRun(s)
  BY <1>1 DEF StartRun
<1>2. CASE Open(s)
  BY <1>2 DEF Open
<1>3. CASE Download(s)
  BY <1>3 DEF Download
<1>4. CASE EndDownload(s)
  <2>1. {} \in SUBSET Files
    OBVIOUS
  <2> QED
    BY <1>4, <2>1 DEF EndDownload, RunFails, RunFailsAt, Leaves
<1>5. CASE DownloadFails(s) \/ TransferFails(s) \/ NoFilesFound(s) \/ ExportFails(s) \/ Fails(s)
  <2>1. {} \in SUBSET Files
    OBVIOUS
  <2> QED
    BY <1>5, <2>1 DEF DownloadFails, TransferFails, NoFilesFound, ExportFails, Fails, RunFails,
                      RunFailsAt, Leaves
<1>6. CASE Transfer(s)
  BY <1>6 DEF Transfer
<1>7. CASE TransferBreaksOff(s)
  <2>1. PICK f \in {g \in todo[s] : remote[g] # 0} : \E n \in 1 .. Chunks[remote[f]] - 1 :
          LeavePartial(s, f, n) /\ RunFailsAt(s, {f})
    BY <1>7 DEF TransferBreaksOff
  <2>2. f \in Files /\ remote[f] # 0
    BY <2>1 DEF TypeOK, StagingTypeOK
  <2>3. EndStaging(s, {f}) /\ UNCHANGED remoteVars
    BY <1>7, <2>1 DEF TransferBreaksOff, RunFailsAt
  <2>4. \A t \in Schedules : f \notin sound'[t]
    BY <2>3 DEF EndStaging
  <2>5. {f} \in SUBSET Files
    BY <2>2
  <2> QED
    BY <2>1, <2>2, <2>3, <2>4, <2>5 DEF Leaves
<1>8. CASE EndExport(s) \/ EndIndexed(s)
  <2>1. {} \in SUBSET Files
    OBVIOUS
  <2> QED
    BY <1>8, <2>1 DEF EndExport, EndIndexed, EndRun, Leaves
<1>9. CASE \/ ObjectNotFound(s) \/ Resume(s) \/ ReadDatabase(s) \/ ListFiles(s)
           \/ (\E f \in Files : ReadFile(s, f)) \/ LoadJob(s) \/ BeginJob(s) \/ ClearForJob(s)
           \/ EndJob(s) \/ EndLoad(s) \/ StartExport(s) \/ JobFails(s)
  BY <1>9 DEF ObjectNotFound, Resume, ReadDatabase, ListFiles, ReadFile, LoadJob, BeginJob,
              ClearForJob, EndJob, EndLoad, StartExport, JobFails
<1> QED
  BY <1>1, <1>2, <1>3, <1>4, <1>5, <1>6, <1>7, <1>8, <1>9 DEF Step, Run

\* A step keeps the types of remote files and copies,
LEMMA StagingType == TypeOK /\ [Next]_vars => StagingTypeOK'
<1> SUFFICES ASSUME TypeOK, [Next]_vars PROVE StagingTypeOK'
  OBVIOUS
<1> USE DEF TypeOK, StagingTypeOK
<1>1. CASE UNCHANGED <<remoteVars, stagingVars>>
  BY <1>1, Steps DEF remoteVars, stagingVars, downloadVars
<1>2. CASE Remote
  <2>1. PICK f \in Files : WriteRemote(f) \/ RemoveRemote(f)
    BY <1>2 DEF Remote
  <2>2. CASE WriteRemote(f)
    <3>1. writes + 1 \in 0 .. Len(Chunks)
      BY <2>2, VersionsType DEF WriteRemote
    <3>2. sound' \in [Schedules -> SUBSET Files]
      BY <2>2 DEF WriteRemote, Disturbs
    <3> QED
      BY <2>2, <3>1, <3>2, Steps DEF WriteRemote, downloadVars
  <2>3. CASE RemoveRemote(f)
    <3>1. 0 \in 0 .. Len(Chunks)
      BY VersionsType
    <3>2. sound' \in [Schedules -> SUBSET Files]
      BY <2>3 DEF RemoveRemote, Disturbs
    <3> QED
      BY <2>3, <3>1, <3>2, Steps DEF RemoveRemote, downloadVars
  <2> QED
    BY <2>1, <2>2, <2>3
<1>3. ASSUME NEW s \in Schedules, AskSize(s) \/ OpenObject(s) \/ StartTransfer(s)
      PROVE  StagingTypeOK'
  <2>1. remote[Object] \in 0 .. Len(Chunks)
    BY DeploymentType
  <2>2. remote[Object] # 0 => Chunks[remote[Object]] \in Nat
    BY <2>1, VersionsType DEF Versions
  <2>3. CASE AskSize(s)
    BY <2>2, <2>3, Steps DEF AskSize, remoteVars
  <2>4. CASE OpenObject(s)
    <3>1. {f \in {Object} : Chunks[remote[f]] = expected[s]} \in SUBSET Files
      BY DeploymentType
    <3> QED
      BY <2>1, <2>4, <3>1, Steps DEF OpenObject, remoteVars
  <2>5. CASE StartTransfer(s)
    <3>1. {f \in options.files : remote[f] # 0} \in SUBSET Files
      BY DeploymentType
    <3> QED
      BY <2>5, <3>1, Steps DEF StartTransfer, remoteVars
  <2> QED
    BY <1>3, <2>3, <2>4, <2>5
<1>4. ASSUME NEW s \in Schedules, pc[s] = "downloading", ReadChunk(s) PROVE StagingTypeOK'
  <2> DEFINE c == staged[s][Object]
             v == remote[Object]
  <2>1. c \in Contents /\ v \in 0 .. Len(Chunks) /\ Object \in Files
    BY DeploymentType
  <2>2. c \in Seq(Versions) /\ Len(c) \in Nat
    BY <2>1, ContentType
  <2>3. Len(c) < Chunks[v]
    BY <1>4 DEF ReadChunk, Downloaded
  <2>4. v # 0
    BY <1>4 DEF PipelineTypeOK, ReadChunk, Readable
  <2>5. v \in Versions
    BY <2>1, <2>4, VersionsType DEF Versions
  <2>6. Append(c, v) \in Seq(Versions) /\ Len(Append(c, v)) = Len(c) + 1
    BY <2>2, <2>5, AppendProperties
  <2>7. Append(c, v) \in Contents
    <3> HIDE DEF c, v
    <3>1. Chunks[v] \in Nat
      BY <2>5, VersionsType
    <3>2. Len(Append(c, v)) <= Chunks[v]
      BY <2>2, <2>3, <2>6, <3>1
    <3> QED
      BY <2>5, <2>6, <3>2, ContentIs
  <2>8. staged' = [staged EXCEPT ![s] = [@ EXCEPT ![Object] = Append(c, v)]]
    BY <1>4 DEF ReadChunk
  <2>9. staged' \in [Schedules -> [Files -> Contents]]
    <3> HIDE DEF c, v
    <3> QED
      BY <2>7, <2>8
  <2> QED
    BY <1>4, <2>9, Steps DEF ReadChunk, remoteVars, downloadVars
<1>5. ASSUME NEW s \in Schedules, NEW f \in todo[s], TransferFile(s, f) PROVE StagingTypeOK'
  <2>1. f \in Files /\ remote[f] \in Versions /\ Place(s) \in Schedules
    BY <1>5, VersionsType, DeploymentType DEF TransferFile, Versions
  <2>2. Whole(remote[f]) \in Contents
    BY <2>1, WholeType
  <2>3. staged' = [staged EXCEPT ![Place(s)] = [@ EXCEPT ![f] = Whole(remote[f])]]
    BY <1>5 DEF TransferFile, Transferred
  <2>4. staged' \in [Schedules -> [Files -> Contents]]
    <3> HIDE DEF Contents
    <3> QED
      BY <2>1, <2>2, <2>3
  <2>5. todo' \in [Schedules -> SUBSET Files] /\ sound' \in [Schedules -> SUBSET Files]
    BY <1>5, <2>1 DEF TransferFile
  <2> QED
    BY <1>5, <2>4, <2>5, Steps DEF TransferFile, remoteVars
<1>6. ASSUME NEW s \in Schedules, NEW broken \in SUBSET Files,
             EndStaging(s, broken), Leaves(s), UNCHANGED remoteVars
      PROVE  StagingTypeOK'
  <2>1. /\ expected' \in [Schedules -> Nat] /\ opened' \in [Schedules -> 0 .. Len(Chunks)]
        /\ todo' \in [Schedules -> SUBSET Files] /\ sound' \in [Schedules -> SUBSET Files]
    BY <1>6, VersionsType DEF EndStaging
  <2>2. staged' \in [Schedules -> [Files -> Contents]]
    <3>1. CASE RemoveCopy(s)
      <4>1. [f \in Files |-> <<>>] \in [Files -> Contents]
        BY EmptyCopy
      <4> QED
        BY <3>1, <4>1 DEF RemoveCopy
    <3>2. ASSUME NEW f \in Files, NEW n \in 1 .. Chunks[remote[f]] - 1,
                 remote[f] # 0, LeavePartial(s, f, n)
          PROVE  staged' \in [Schedules -> [Files -> Contents]]
      <4> DEFINE w == Whole(remote[f])
      <4>1. remote[f] \in Versions /\ Place(s) \in Schedules
        BY <3>2, VersionsType, DeploymentType DEF Versions
      <4>2. Chunks[remote[f]] \in Nat /\ n \in Nat /\ n <= Chunks[remote[f]]
        BY <4>1, VersionsType
      <4>3. w \in Seq(Versions) /\ Len(w) = Chunks[remote[f]]
        BY <4>1, WholeType, ContentType
      <4>4. SubSeq(w, 1, n) \in Seq(Versions) /\ Len(SubSeq(w, 1, n)) = n
        <5> HIDE DEF w
        <5>1. 1 \in 1 .. Len(w) + 1 /\ n \in 1 - 1 .. Len(w)
          BY <4>2, <4>3
        <5> QED
          BY <4>3, <4>2, <5>1, SubSeqProperties
      <4>5. SubSeq(w, 1, n) \in Contents
        <5> HIDE DEF w
        <5> QED
          BY <4>1, <4>2, <4>4, ContentIs
      <4>6. staged' = [staged EXCEPT ![Place(s)] = [@ EXCEPT ![f] = SubSeq(w, 1, n)]]
        BY <3>2 DEF LeavePartial
      <4> HIDE DEF w
      <4> QED
        BY <4>1, <4>5, <4>6
    <3> QED
      BY <1>6, <3>1, <3>2 DEF Leaves
  <2> QED
    BY <1>6, <2>1, <2>2, Steps DEF remoteVars
<1>7. CASE UNCHANGED vars
  BY <1>1, <1>7 DEF vars
<1>8. ASSUME NEW s \in Schedules, Step(s) PROVE StagingTypeOK'
  BY <1>1, <1>3, <1>4, <1>5, <1>6, <1>8, StagingSteps
<1> QED
  BY <1>2, <1>7, <1>8, Steps

\* What a step does to the local file.
LEMMA TargetSteps ==
  ASSUME NEW s \in Schedules, Step(s)
  PROVE  \/ UNCHANGED fileVars
         \/ MakeBucket(s) \/ OpenOutput(s) \/ WriteOutput(s) \/ WriteOutputFails(s)
         \/ \E r \in package[s] : WriteDataFile(s, r)
BY DEF Step, Run, StartRun, ObjectNotFound, Open, Download, EndDownload, DownloadFails,
       Transfer, TransferFails, TransferBreaksOff, Resume, ReadDatabase, ListFiles,
       NoFilesFound, ReadFile, LoadJob, BeginJob, ClearForJob, EndJob, JobFails, EndLoad,
       StartExport, EndExport, EndIndexed, ExportFails, Fails, targetVars

\* of output files,
LEMMA TargetType == TypeOK /\ [Next]_vars => TargetTypeOK'
<1> SUFFICES ASSUME TypeOK, [Next]_vars PROVE TargetTypeOK'
  OBVIOUS
<1> USE DeploymentType DEF TypeOK, TargetTypeOK
<1>1. CASE UNCHANGED fileVars
  BY <1>1 DEF fileVars
<1>2. ASSUME NEW s \in Schedules,
             MakeBucket(s) \/ OpenOutput(s) \/ WriteOutput(s) \/ WriteOutputFails(s)
      PROVE  TargetTypeOK'
  BY <1>2 DEF MakeBucket, OpenOutput, WriteOutput, WriteOutputFails
<1>3. ASSUME NEW s \in Schedules, NEW r \in package[s], WriteDataFile(s, r)
      PROVE  TargetTypeOK'
  BY <1>3 DEF WriteDataFile, PipelineTypeOK
<1>4. ASSUME NEW s \in Schedules, Step(s) PROVE TargetTypeOK'
  BY <1>1, <1>2, <1>3, <1>4, TargetSteps
<1>5. CASE (Remote /\ Others) \/ UNCHANGED vars
  BY <1>1, <1>5 DEF Others, targetVars, vars
<1> QED
  BY <1>4, <1>5, Steps

\* What a step does to the index.
LEMMA IndexSteps ==
  ASSUME NEW s \in Schedules, Step(s)
  PROVE  \/ UNCHANGED indexVars
         \/ StartProcess(s, options.shared) \/ EndBatches(s)
         \/ \E r \in package[s] : BeginBatch(s, r)
         \/ \E r \in clearing[s] : ClearIndex(s, r)
         \/ \E r \in inserting[s] : InsertBatch(s, r)
         \/ \E r \in Begun(s) : BatchFails(s, r)
BY DEF Step, Run, StartRun, ObjectNotFound, Open, Download, EndDownload, DownloadFails,
       Transfer, TransferFails, TransferBreaksOff, Resume, ReadDatabase, ListFiles,
       NoFilesFound, ReadFile, LoadJob, BeginJob, ClearForJob, EndJob, JobFails, EndLoad,
       StartExport, EndExport, EndIndexed, ExportFails, Fails, RunFails, RunFailsAt, targetVars

\* of indices
LEMMA IndexType == TypeOK /\ [Next]_vars => IndexTypeOK'
<1> SUFFICES ASSUME TypeOK, [Next]_vars PROVE IndexTypeOK'
  OBVIOUS
<1> USE DeploymentType DEF TypeOK, IndexTypeOK
<1>1. CASE UNCHANGED indexVars
  BY <1>1 DEF indexVars
<1>2. ASSUME NEW s \in Schedules, StartProcess(s, options.shared) \/ EndBatches(s)
      PROVE  IndexTypeOK'
  <2>1. options.shared \in BOOLEAN
    BY OptionsAssumption DEF StagingTypeOK, Deployment
  <2> QED
    BY <1>2, <2>1 DEF StartProcess, EndBatches
<1>3. ASSUME NEW s \in Schedules, NEW r \in package[s], BeginBatch(s, r)
      PROVE  IndexTypeOK'
  BY <1>3 DEF BeginBatch, PipelineTypeOK
<1>4. ASSUME NEW s \in Schedules, NEW r \in Begun(s),
             ClearIndex(s, r) \/ InsertBatch(s, r) \/ BatchFails(s, r)
      PROVE  IndexTypeOK'
  <2>1. r \in Documents
    BY DEF Begun
  <2>2. CASE ClearIndex(s, r)
    BY <2>1, <2>2 DEF ClearIndex
  <2> DEFINE replaced == {d \in index[s] : ~SameId(d, r)} \cup {r}
  <2>3. replaced \in SUBSET Documents
    BY <2>1
  <2> HIDE DEF replaced
  <2>4. index' \in {index, [index EXCEPT ![s] = replaced]} => index' \in [Indices -> SUBSET Documents]
    BY <2>3
  <2>5. CASE InsertBatch(s, r)
    <3>1. index' = [index EXCEPT ![s] = replaced]
      BY <2>5 DEF InsertBatch, replaced
    <3> QED
      BY <2>4, <2>5, <3>1 DEF InsertBatch
  <2>6. CASE BatchFails(s, r)
    <3>1. index' \in {index, [index EXCEPT ![s] = replaced]}
      BY <2>6 DEF BatchFails, replaced
    <3> QED
      BY <2>4, <2>6, <3>1 DEF BatchFails
  <2> QED
    BY <1>4, <2>2, <2>5, <2>6
<1>5. ASSUME NEW s \in Schedules, Step(s) PROVE IndexTypeOK'
  BY <1>1, <1>2, <1>3, <1>4, <1>5, IndexSteps DEF Begun
<1>6. CASE (Remote /\ Others) \/ UNCHANGED vars
  BY <1>1, <1>6 DEF Others, targetVars, vars
<1> QED
  BY <1>5, <1>6, Steps

\* A run that fails keeps its package or drops it.
LEMMA RunFailsPipeline ==
  ASSUME TypeOK, NEW s \in Schedules, NEW broken, RunFailsAt(s, broken)
  PROVE  /\ pc' = [pc EXCEPT ![s] = "idle"] /\ unread' = [unread EXCEPT ![s] = {}]
         /\ \/ /\ Incomplete(s) /\ pending' = [pending EXCEPT ![s] = TRUE]
               /\ before' = [before EXCEPT ![s] = done[s]]
               /\ package' = package /\ done' = done
            \/ /\ pending' = [pending EXCEPT ![s] = FALSE]
               /\ before' = [before EXCEPT ![s] = {}]
               /\ package' = [package EXCEPT ![s] = {}] /\ done' = [done EXCEPT ![s] = {}]
BY DEF RunFailsAt, LeavePackage, DropPackage, Goto

\* and of runs and packages.
LEMMA PipelineType == TypeOK /\ [Next]_vars => PipelineTypeOK'
<1> SUFFICES ASSUME TypeOK, [Next]_vars PROVE PipelineTypeOK'
  OBVIOUS
<1> USE DEF TypeOK, PipelineTypeOK
<1>0. failures \in Nat /\ (failures < MaxFailures => failures + 1 \in 0 .. MaxFailures)
  BY BoundsAssumption
<1>1. CASE UNCHANGED <<pc, packageVars, failures, opened>>
  BY <1>1 DEF packageVars
<1>2. ASSUME NEW s \in Schedules, NEW broken, RunFailsAt(s, broken), failures' \in 0 .. MaxFailures
      PROVE  PipelineTypeOK'
  <2>1. \A t \in Schedules : opened'[t] = opened[t] \/ t = s
    BY <1>2 DEF RunFailsAt, EndStaging, StagingTypeOK
  <2>2. \A t \in Schedules : pc'[t] = "downloading" => pc[t] = "downloading" /\ t # s
    BY <1>2 DEF RunFailsAt, Goto
  <2>3. \A t \in Schedules : pc'[t] = "downloading" => opened'[t] # 0
    BY <2>1, <2>2
  <2>4. pc' \in [Schedules -> {"idle", "opening", "downloading", "staged", "transferring",
                              "reading", "loading", "exporting", "writing"}]
    BY <1>2 DEF RunFailsAt, Goto
  <2>5. unread' \in [Schedules -> SUBSET Files]
    BY <1>2, RunFailsPipeline
  <2>6. /\ pending' \in [Schedules -> BOOLEAN] /\ package' \in [Schedules -> SUBSET Rows]
        /\ done' \in [Schedules -> SUBSET Rows] /\ before' \in [Schedules -> SUBSET Rows]
    <3>1. /\ package \in [Schedules -> SUBSET Rows] /\ done \in [Schedules -> SUBSET Rows]
          /\ before \in [Schedules -> SUBSET Rows] /\ done[s] \in SUBSET Rows
      OBVIOUS
    <3>2. CASE LeavePackage(s)
      BY <3>1, <3>2 DEF LeavePackage
    <3>3. CASE DropPackage(s)
      BY <3>1, <3>3 DEF DropPackage
    <3> QED
      BY <1>2, <3>2, <3>3 DEF RunFailsAt
  <2> QED
    BY <1>2, <2>3, <2>4, <2>5, <2>6
<1>3. ASSUME NEW s \in Schedules,
             \/ StartRun(s) \/ ObjectNotFound(s) \/ Download(s) \/ Transfer(s) \/ Resume(s)
             \/ EndLoad(s) \/ StartExport(s) \/ BeginJob(s) \/ ClearForJob(s) \/ JobFails(s)
             \/ LoadJob(s) \/ EndJob(s)
      PROVE  PipelineTypeOK'
  <2>1. CASE StartRun(s)
    BY <2>1 DEF StartRun, Goto, AskSize, StartTransfer, packageVars
  <2>2. CASE ObjectNotFound(s) \/ Download(s) \/ Transfer(s) \/ BeginJob(s) \/ ClearForJob(s)
    BY <2>2 DEF ObjectNotFound, Download, ReadChunk, Transfer, TransferFile, BeginJob,
                ClearForJob, packageVars, stagingVars, downloadVars
  <2>3. CASE Resume(s) \/ EndLoad(s) \/ StartExport(s)
    BY <2>3 DEF Resume, EndLoad, StartExport, Goto, packageVars, stagingVars, downloadVars
  <2>4. CASE JobFails(s)
    BY <2>4, <1>0 DEF JobFails, packageVars, stagingVars, downloadVars
  <2>5. CASE LoadJob(s)
    <3>1. PICK r \in package[s] : Complete(s, r)
      BY <2>5 DEF LoadJob
    <3> QED
      BY <2>5, <3>1 DEF LoadJob, Complete, stagingVars, downloadVars
  <2>6. CASE EndJob(s)
    <3>1. PICK r \in inserting[s] : Complete(s, r)
      BY <2>6 DEF EndJob
    <3>2. r \in Rows
      BY <3>1, DeploymentType DEF IndexTypeOK
    <3> QED
      BY <2>6, <3>1, <3>2 DEF EndJob, Complete, stagingVars, downloadVars
  <2> QED
    BY <1>3, <2>1, <2>2, <2>3, <2>4, <2>5, <2>6
<1>4. ASSUME NEW s \in Schedules, Open(s) PROVE PipelineTypeOK'
  BY <1>4 DEF Open, OpenObject, Goto, packageVars, StagingTypeOK
<1>5. ASSUME NEW s \in Schedules, EndDownload(s) PROVE PipelineTypeOK'
  <2>1. failures' \in 0 .. MaxFailures
    BY <1>0, <1>5 DEF EndDownload
  <2>2. CASE Goto(s, "staged") /\ UNCHANGED <<stagingVars, indexVars, packageVars>>
    BY <2>1, <2>2 DEF Goto, packageVars, stagingVars, downloadVars
  <2>3. CASE RunFails(s)
    BY <1>2, <2>1, <2>3 DEF RunFails
  <2> QED
    BY <1>5, <2>2, <2>3 DEF EndDownload
<1>6. ASSUME NEW s \in Schedules,
             \/ DownloadFails(s) \/ TransferFails(s) \/ NoFilesFound(s) \/ ExportFails(s)
             \/ Fails(s) \/ TransferBreaksOff(s)
      PROVE  PipelineTypeOK'
  <2>1. failures' \in 0 .. MaxFailures
    BY <1>0, <1>6 DEF DownloadFails, TransferFails, NoFilesFound, ExportFails, Fails,
                      TransferBreaksOff
  <2>2. \E broken : RunFailsAt(s, broken)
    BY <1>6 DEF DownloadFails, TransferFails, NoFilesFound, ExportFails, Fails,
                TransferBreaksOff, RunFails
  <2> QED
    BY <1>2, <2>1, <2>2
<1>7. ASSUME NEW s \in Schedules, ReadDatabase(s) PROVE PipelineTypeOK'
  <2>1. RowsOf(Object, Copy(s)[Object]) \subseteq Rows
    BY RowsType, DeploymentType DEF Copy, StagingTypeOK
  <2> QED
    BY <1>7, <2>1 DEF ReadDatabase, Goto, stagingVars, downloadVars
<1>8. ASSUME NEW s \in Schedules, ListFiles(s) PROVE PipelineTypeOK'
  BY <1>8 DEF ListFiles, Listed, Goto, stagingVars, downloadVars
<1>9. ASSUME NEW s \in Schedules, NEW f \in Files, ReadFile(s, f) PROVE PipelineTypeOK'
  <2>1. RowsOf(f, Copy(s)[f]) \subseteq Rows
    BY RowsType, DeploymentType DEF Copy, StagingTypeOK
  <2> QED
    BY <1>9, <2>1 DEF ReadFile, Goto, stagingVars, downloadVars
<1>10. ASSUME NEW s \in Schedules, EndExport(s) \/ EndIndexed(s) PROVE PipelineTypeOK'
  <2>1. EndRun(s) /\ UNCHANGED <<unread, failures>>
    BY <1>10 DEF EndExport, EndIndexed
  <2>2. /\ pending' \in [Schedules -> BOOLEAN] /\ package' \in [Schedules -> SUBSET Rows]
        /\ done' \in [Schedules -> SUBSET Rows] /\ before' \in [Schedules -> SUBSET Rows]
    BY <2>1 DEF EndRun, DropPackage
  <2>3. pc' = [pc EXCEPT ![s] = "idle"] /\ opened' = [opened EXCEPT ![s] = 0]
    BY <2>1 DEF EndRun, EndStaging, Goto
  <2>4. \A t \in Schedules : pc'[t] = "downloading" => opened'[t] # 0
    BY <2>3 DEF StagingTypeOK
  <2> QED
    BY <2>1, <2>2, <2>3, <2>4
<1>11. ASSUME NEW s \in Schedules, Step(s) PROVE PipelineTypeOK'
  BY <1>3, <1>4, <1>5, <1>6, <1>7, <1>8, <1>9, <1>10, <1>11 DEF Step, Run
<1>12. CASE Remote /\ Others
  <2>1. opened' = opened
    BY <1>12 DEF Remote, WriteRemote, RemoveRemote, downloadVars
  <2> QED
    BY <1>1, <1>12, <2>1 DEF Others
<1>13. CASE UNCHANGED vars
  BY <1>1, <1>13 DEF vars, stagingVars, downloadVars
<1> QED
  BY <1>11, <1>12, <1>13, Steps

(* Every reachable state has its types: no copy is longer than a version, and a   *)
(* download is one of a version.                                               *)
THEOREM TypeCorrect == Spec => []TypeOK
<1>1. Init => TypeOK
  <2> SUFFICES ASSUME Init PROVE TypeOK
    OBVIOUS
  <2>1. StagingTypeOK
    BY EmptyCopy, VersionsType DEF Init, InitStaging, StagingTypeOK
  <2>2. TargetTypeOK /\ IndexTypeOK
    BY TargetsAssumption DEF Init, InitTarget, InitIndex, TargetTypeOK, IndexTypeOK
  <2>3. PipelineTypeOK
    BY BoundsAssumption DEF Init, PipelineTypeOK
  <2> QED
    BY <2>1, <2>2, <2>3 DEF TypeOK
<1>2. TypeOK /\ [Next]_vars => TypeOK'
  BY StagingType, TargetType, IndexType, PipelineType DEF TypeOK
<1> QED
  BY <1>1, <1>2, PTL DEF Spec

-----------------------------------------------------------------------------
(* What a step of one schedule does to the package of its own run, and to the    *)
(* others.                                                                    *)

Keeps(s) ==
  /\ package'[s] = package[s] /\ done'[s] = done[s]
  /\ pending'[s] = pending[s] /\ before'[s] = before[s]

\* The run goes on, with the package it has.
GoesOn(s) ==
  /\ unread'[s] = unread[s] /\ Keeps(s)
  /\ \/ pc'[s] = pc[s]
     \/ pc[s] = "idle" /\ pc'[s] = "opening" /\ options.source = "object"
     \/ pc[s] = "idle" /\ pc'[s] = "transferring" /\ options.source = "rsync"
     \/ pc[s] = "opening" /\ pc'[s] = "downloading"
     \/ pc[s] = "downloading" /\ pc'[s] = "staged"
     \/ pending[s] /\ pc[s] \in {"staged", "transferring"} /\ pc'[s] = "loading"
     \/ pc[s] = "loading" /\ pc'[s] = "exporting" /\ done[s] = package[s]
     \/ pc[s] = "exporting" /\ pc'[s] = "writing" /\ options.target = "file"

\* It ends, and leaves its package or drops it.
Ends(s) ==
  /\ pc'[s] = "idle"
  /\ \/ /\ Incomplete(s) /\ pending'[s] /\ before'[s] = done[s]
        /\ package'[s] = package[s] /\ done'[s] = done[s]
     \/ ~pending'[s] /\ before'[s] = {} /\ package'[s] = {} /\ done'[s] = {}

\* It reads the copy of the object.
Reads(s) ==
  /\ pc[s] = "staged" /\ pc'[s] = "loading" /\ ~pending[s]
  /\ package'[s] = RowsOf(Object, Copy(s)[Object])
  /\ done'[s] = done[s] /\ pending'[s] = pending[s] /\ before'[s] = before[s]

\* It lists files,
Lists(s) ==
  /\ pc[s] = "transferring" /\ pc'[s] = "reading" /\ ~pending[s]
  /\ Listed(s) # {} /\ unread'[s] = Listed(s) /\ Keeps(s)

\* and reads them.
ReadsFile(s, f) ==
  /\ pc[s] = "reading" /\ f \in unread[s]
  /\ unread'[s] = unread[s] \ {f}
  /\ package'[s] = package[s] \cup RowsOf(f, Copy(s)[f])
  /\ done'[s] = done[s] /\ pending'[s] = pending[s] /\ before'[s] = before[s]
  /\ \/ unread[s] = {f} /\ pc'[s] = "loading"
     \/ unread[s] # {f} /\ pc'[s] = "reading"

\* It completes a job.
Completes(s, r) ==
  /\ pc[s] = "loading" /\ pc'[s] = "loading"
  /\ done'[s] = done[s] \cup {r}
  /\ unread'[s] = unread[s] /\ package'[s] = package[s]
  /\ pending'[s] = pending[s] /\ before'[s] = before[s]

\* These are all the moves there are.
LEMMA Moves ==
  ASSUME TypeOK, NEW s \in Schedules, Step(s)
  PROVE  \/ GoesOn(s) \/ Ends(s)
         \/ ReadDatabase(s) /\ Reads(s)
         \/ ListFiles(s) /\ Lists(s)
         \/ \E f \in Files : ReadFile(s, f) /\ ReadsFile(s, f)
         \/ \E r \in Rows : (LoadJob(s) \/ EndJob(s)) /\ Completes(s, r)
<1> USE DEF TypeOK, PipelineTypeOK
<1>1. CASE StartRun(s)
  <2>1. pc'[s] = IF options.source = "object" THEN "opening" ELSE "transferring"
    BY <1>1 DEF StartRun, Goto
  <2>2. options.source \in {"object", "rsync"}
    BY DeploymentType
  <2> QED
    BY <1>1, <2>1, <2>2 DEF StartRun, packageVars, GoesOn, Keeps
<1>2. CASE ObjectNotFound(s) \/ Download(s) \/ Transfer(s) \/ BeginJob(s) \/ ClearForJob(s) \/ JobFails(s)
  BY <1>2 DEF ObjectNotFound, Download, Transfer, BeginJob, ClearForJob, JobFails, packageVars,
              GoesOn, Keeps
<1>3. CASE Open(s) \/ Resume(s)
  BY <1>3 DEF Open, Resume, Goto, packageVars, GoesOn, Keeps
<1>4. CASE EndLoad(s) \/ StartExport(s)
  BY <1>4 DEF EndLoad, StartExport, Goto, packageVars, GoesOn, Keeps
<1>5. ASSUME NEW broken, RunFailsAt(s, broken) PROVE Ends(s)
  BY <1>5, RunFailsPipeline DEF Ends
<1>6. CASE EndDownload(s)
  <2>1. CASE Goto(s, "staged") /\ UNCHANGED packageVars
    BY <1>6, <2>1 DEF EndDownload, Goto, packageVars, GoesOn, Keeps
  <2>2. CASE RunFails(s)
    BY <1>5, <2>2 DEF RunFails
  <2> QED
    BY <1>6, <2>1, <2>2 DEF EndDownload
<1>7. CASE \/ DownloadFails(s) \/ TransferFails(s) \/ NoFilesFound(s) \/ ExportFails(s)
           \/ Fails(s) \/ TransferBreaksOff(s)
  <2>1. \E broken : RunFailsAt(s, broken)
    BY <1>7 DEF DownloadFails, TransferFails, NoFilesFound, ExportFails, Fails,
                TransferBreaksOff, RunFails
  <2> QED
    BY <1>5, <2>1
<1>8. CASE EndExport(s) \/ EndIndexed(s)
  BY <1>8 DEF EndExport, EndIndexed, EndRun, DropPackage, Goto, Ends
<1>9. CASE ReadDatabase(s)
  BY <1>9 DEF ReadDatabase, Goto, Reads
<1>10. CASE ListFiles(s)
  BY <1>10 DEF ListFiles, Goto, Lists, Keeps
<1>11. ASSUME NEW f \in Files, ReadFile(s, f) PROVE ReadsFile(s, f)
  BY <1>11 DEF ReadFile, Goto, ReadsFile
<1>12. CASE LoadJob(s)
  <2>1. PICK r \in package[s] : Complete(s, r)
    BY <1>12 DEF LoadJob
  <2>2. Completes(s, r)
    BY <1>12, <2>1 DEF LoadJob, Loading, Complete, Completes
  <2>3. r \in Rows
    OBVIOUS
  <2> QED
    BY <1>12, <2>2, <2>3
<1>13. CASE EndJob(s)
  <2>1. PICK r \in inserting[s] : Complete(s, r)
    BY <1>13 DEF EndJob
  <2>2. r \in Rows
    BY DeploymentType DEF IndexTypeOK
  <2>3. Completes(s, r)
    BY <1>13, <2>1 DEF EndJob, Loading, Complete, Completes
  <2> QED
    BY <1>13, <2>2, <2>3
<1> QED
  BY <1>1, <1>2, <1>3, <1>4, <1>6, <1>7, <1>8, <1>9, <1>10, <1>11, <1>12, <1>13 DEF Step, Run

\* Nothing of schedule t's run is changed, but what is sound may be no longer.
Untouched(t) ==
  /\ pc'[t] = pc[t] /\ unread'[t] = unread[t] /\ Keeps(t)
  /\ expected'[t] = expected[t] /\ opened'[t] = opened[t] /\ todo'[t] = todo[t]
  /\ sound'[t] \subseteq sound[t]
  /\ bucket'[t] = bucket[t] /\ output'[t] = output[t]
  /\ index'[t] = index[t] /\ cleared'[t] = cleared[t]
  /\ clearing'[t] = clearing[t] /\ inserting'[t] = inserting[t]
  /\ options.source = "object" => staged'[t] = staged[t]

\* A step of one schedule touches no other.
LEMMA Frame ==
  ASSUME TypeOK, NEW s \in Schedules, Step(s), NEW t \in Schedules, t # s
  PROVE  Untouched(t)
<1>1. pc'[t] = pc[t] /\ unread'[t] = unread[t] /\ Keeps(t)
  <2> USE DEF TypeOK, PipelineTypeOK, Keeps
  <2>1. CASE \/ StartRun(s) \/ ObjectNotFound(s) \/ Download(s) \/ Transfer(s) \/ BeginJob(s)
             \/ ClearForJob(s) \/ JobFails(s) \/ Open(s) \/ Resume(s) \/ EndLoad(s)
             \/ StartExport(s)
    BY <2>1 DEF StartRun, ObjectNotFound, Download, Transfer, BeginJob, ClearForJob, JobFails,
                Open, Resume, EndLoad, StartExport, Goto, packageVars
  <2>2. ASSUME NEW broken, RunFailsAt(s, broken)
        PROVE  pc'[t] = pc[t] /\ unread'[t] = unread[t] /\ Keeps(t)
    BY <2>2, RunFailsPipeline
  <2>3. CASE EndDownload(s)
    BY <2>2, <2>3 DEF EndDownload, RunFails, Goto, packageVars
  <2>4. CASE \/ DownloadFails(s) \/ TransferFails(s) \/ NoFilesFound(s) \/ ExportFails(s)
             \/ Fails(s) \/ TransferBreaksOff(s)
    <3>1. \E broken : RunFailsAt(s, broken)
      BY <2>4 DEF DownloadFails, TransferFails, NoFilesFound, ExportFails, Fails,
                  TransferBreaksOff, RunFails
    <3> QED
      BY <2>2, <3>1
  <2>5. CASE EndExport(s) \/ EndIndexed(s)
    BY <2>5 DEF EndExport, EndIndexed, EndRun, DropPackage, Goto
  <2>6. CASE ReadDatabase(s) \/ ListFiles(s) \/ (\E f \in Files : ReadFile(s, f))
    BY <2>6 DEF ReadDatabase, ListFiles, ReadFile, Goto
  <2>7. CASE LoadJob(s) \/ EndJob(s)
    <3>1. \E r : Complete(s, r)
      BY <2>7 DEF LoadJob, EndJob
    <3>2. pc' = pc
      BY <2>7 DEF LoadJob, EndJob
    <3> QED
      BY <3>1, <3>2 DEF Complete
  <2> QED
    BY <2>1, <2>3, <2>4, <2>5, <2>6, <2>7 DEF Step, Run
<1>2. /\ expected'[t] = expected[t] /\ opened'[t] = opened[t] /\ todo'[t] = todo[t]
      /\ sound'[t] \subseteq sound[t]
      /\ options.source = "object" => staged'[t] = staged[t]
  <2> USE DEF TypeOK, StagingTypeOK
  <2>1. CASE UNCHANGED <<remoteVars, stagingVars>>
    BY <2>1 DEF stagingVars, downloadVars
  <2>2. CASE AskSize(s) \/ OpenObject(s) \/ StartTransfer(s) \/ ReadChunk(s)
    BY <2>2 DEF AskSize, OpenObject, StartTransfer, ReadChunk, downloadVars
  <2>3. ASSUME options.source = "object" PROVE Place(s) = s
    BY <2>3, DeploymentType
  <2>4. CASE \E f \in todo[s] : TransferFile(s, f)
    BY <2>3, <2>4 DEF TransferFile
  <2>5. ASSUME NEW broken \in SUBSET Files, EndStaging(s, broken), Leaves(s)
        PROVE  /\ expected'[t] = expected[t] /\ opened'[t] = opened[t] /\ todo'[t] = todo[t]
               /\ sound'[t] \subseteq sound[t]
               /\ options.source = "object" => staged'[t] = staged[t]
    <3>1. options.source = "object" => staged'[t] = staged[t]
      BY <2>3, <2>5 DEF Leaves, RemoveCopy, LeavePartial
    <3> QED
      BY <2>5, <3>1 DEF EndStaging
  <2> QED
    BY <2>1, <2>2, <2>4, <2>5, StagingSteps
<1>3. bucket'[t] = bucket[t] /\ output'[t] = output[t]
  <2> USE DeploymentType DEF TypeOK, TargetTypeOK
  <2>1. CASE UNCHANGED fileVars
    BY <2>1 DEF fileVars
  <2>2. CASE MakeBucket(s) \/ OpenOutput(s) \/ WriteOutput(s) \/ WriteOutputFails(s)
    BY <2>2 DEF MakeBucket, OpenOutput, WriteOutput, WriteOutputFails
  <2>3. CASE \E r \in package[s] : WriteDataFile(s, r)
    BY <2>3 DEF WriteDataFile
  <2> QED
    BY <2>1, <2>2, <2>3, TargetSteps
<1>4. /\ index'[t] = index[t] /\ cleared'[t] = cleared[t]
      /\ clearing'[t] = clearing[t] /\ inserting'[t] = inserting[t]
  <2> USE DeploymentType DEF TypeOK, IndexTypeOK
  <2>1. CASE UNCHANGED indexVars
    BY <2>1 DEF indexVars
  <2>2. CASE StartProcess(s, options.shared) \/ EndBatches(s)
    BY <2>2 DEF StartProcess, EndBatches
  <2>3. ASSUME NEW r, BeginBatch(s, r) \/ ClearIndex(s, r) \/ InsertBatch(s, r) \/ BatchFails(s, r)
        PROVE  /\ index'[t] = index[t] /\ cleared'[t] = cleared[t]
               /\ clearing'[t] = clearing[t] /\ inserting'[t] = inserting[t]
    BY <2>3 DEF BeginBatch, ClearIndex, InsertBatch, BatchFails
  <2> QED
    BY <2>1, <2>2, <2>3, IndexSteps
<1> QED
  BY <1>1, <1>2, <1>3, <1>4 DEF Untouched

\* The remote side, and a step that changes nothing, touch no run.
LEMMA RemoteFrame ==
  ASSUME TypeOK, (Remote /\ Others) \/ UNCHANGED vars, NEW t \in Schedules
  PROVE  /\ Untouched(t) /\ staged' = staged
         /\ \/ \E f \in Files : WriteRemote(f) \/ RemoveRemote(f)
            \/ UNCHANGED remoteVars
<1> USE DEF Untouched, Keeps, targetVars, fileVars, indexVars, packageVars, downloadVars,
            stagingVars
<1>1. CASE UNCHANGED vars
  BY <1>1 DEF vars
<1>2. CASE Remote /\ Others
  <2>1. PICK f \in Files : WriteRemote(f) \/ RemoveRemote(f)
    BY <1>2 DEF Remote
  <2>2. sound'[t] \subseteq sound[t]
    BY <2>1 DEF WriteRemote, RemoveRemote, Disturbs, TypeOK, StagingTypeOK
  <2>3. UNCHANGED <<staged, expected, opened, todo>>
    BY <2>1 DEF WriteRemote, RemoveRemote
  <2>4. UNCHANGED <<bucket, output, index, cleared, clearing, inserting, pc, unread, package,
                    done, pending, before>>
    BY <1>2 DEF Others
  <2> QED
    BY <2>1, <2>2, <2>3, <2>4
<1> QED
  BY <1>1, <1>2

\* Seen from one schedule, a step is its own or touches nothing of it.
LEMMA OneRun ==
  ASSUME TypeOK, [Next]_vars, NEW t \in Schedules
  PROVE  options' = options /\ (Untouched(t) \/ Step(t))
BY Steps, Frame, RemoteFrame

-----------------------------------------------------------------------------
(* The stages of a run: what it has of a package before, during and after the    *)
(* load.                                                                      *)

StageOK(s) ==
  /\ pc[s] \in {"opening", "downloading", "staged"} => options.source = "object"
  /\ pc[s] \in {"transferring", "reading"} => options.source = "rsync"
  /\ pc[s] \in {"idle", "opening", "downloading", "staged", "transferring"} /\ ~pending[s] =>
       package[s] = {}
  /\ pc[s] \notin {"loading", "exporting", "writing"} => done[s] = before[s]
  /\ ~pending[s] => before[s] = {}
  /\ before[s] \subseteq done[s]
  /\ pc[s] = "reading" => ~pending[s]
  /\ pc[s] \in {"exporting", "writing"} => done[s] = package[s]
  /\ pc[s] = "writing" => options.target = "file"
Stages == \A s \in Schedules : StageOK(s)

\* Every step keeps the stages.
LEMMA StagesStep == TypeOK /\ Stages /\ [Next]_vars => Stages'
<1> SUFFICES ASSUME TypeOK, Stages, [Next]_vars, NEW s \in Schedules PROVE StageOK(s)'
  BY DEF Stages
<1>0. StageOK(s) /\ options' = options /\ (Untouched(s) \/ Step(s))
  BY OneRun DEF Stages
<1> USE DEF StageOK
<1>1. CASE Untouched(s)
  BY <1>0, <1>1 DEF Untouched, Keeps
<1>2. CASE GoesOn(s)
  BY <1>0, <1>2 DEF GoesOn, Keeps
<1>3. CASE Ends(s)
  BY <1>0, <1>3 DEF Ends
<1>4. CASE Reads(s) \/ Lists(s)
  BY <1>0, <1>4 DEF Reads, Lists, Keeps
<1>5. ASSUME NEW f \in Files, ReadsFile(s, f) PROVE StageOK(s)'
  BY <1>0, <1>5 DEF ReadsFile
<1>6. ASSUME NEW r \in Rows, Completes(s, r) PROVE StageOK(s)'
  BY <1>0, <1>6 DEF Completes
<1> QED
  BY <1>0, <1>1, <1>2, <1>3, <1>4, <1>5, <1>6, Moves

-----------------------------------------------------------------------------
(* The bucket holds what this run has loaded. *)

FilledOK(s) ==
  /\ pc[s] \in {"staged", "transferring", "reading"} => bucket[s] = {}
  /\ pc[s] \in {"loading", "exporting", "writing"} => bucket[s] = done[s] \ before[s]
Filled == options.target = "file" => \A s \in Schedules : FilledOK(s)

\* Every step keeps it: a run gets a new bucket before it loads.
LEMMA FilledStep == TypeOK /\ Stages /\ Filled /\ [Next]_vars => Filled'
<1> SUFFICES ASSUME TypeOK, Stages, Filled, [Next]_vars, options'.target = "file",
                    NEW s \in Schedules
             PROVE  FilledOK(s)'
  BY DEF Filled
<1>0. /\ StageOK(s) /\ options' = options /\ options.target = "file" /\ FilledOK(s)
      /\ Untouched(s) \/ Step(s)
  BY OneRun DEF Stages, Filled
<1> USE DEF FilledOK
<1>1. CASE Untouched(s)
  BY <1>0, <1>1 DEF Untouched, Keeps
<1>2. CASE pc'[s] \in {"idle", "opening"}
  BY <1>2
<1>3. CASE StartRun(s) \/ EndDownload(s)
  <2>1. pc'[s] \in {"idle", "opening"} \/ (bucket'[s] = {} /\ pc'[s] \in {"staged", "transferring"})
    BY <1>3, DeploymentType
    DEF StartRun, EndDownload, RunFails, RunFailsAt, Goto, MakeBucket, TypeOK, PipelineTypeOK,
        TargetTypeOK
  <2> QED
    BY <2>1
<1>4. CASE LoadJob(s)
  <2>1. PICK r \in package[s] \ done[s] : WriteDataFile(s, r) /\ Complete(s, r)
    BY <1>4 DEF LoadJob
  <2>2. bucket'[s] = bucket[s] \cup {r}
    BY <2>1, DeploymentType DEF WriteDataFile, TypeOK, TargetTypeOK
  <2>3. done'[s] = done[s] \cup {r} /\ before'[s] = before[s]
    BY <2>1 DEF Complete, TypeOK, PipelineTypeOK
  <2>4. pc'[s] = "loading" /\ pc[s] = "loading"
    BY <1>4 DEF LoadJob, Loading
  <2>5. r \notin before[s]
    BY <1>0, <2>1 DEF StageOK
  <2> QED
    BY <1>0, <2>2, <2>3, <2>4, <2>5
<1>5. CASE \/ ObjectNotFound(s) \/ Open(s) \/ Download(s) \/ Transfer(s) \/ BeginJob(s)
           \/ ClearForJob(s) \/ JobFails(s) \/ Resume(s) \/ EndLoad(s) \/ StartExport(s)
  <2>1. bucket'[s] = bucket[s]
    BY <1>5 DEF ObjectNotFound, Open, Download, Transfer, BeginJob, ClearForJob, JobFails, Resume,
                EndLoad, StartExport, OpenOutput, targetVars, fileVars
  <2>2. /\ done'[s] = done[s] /\ before'[s] = before[s]
        /\ \/ pc'[s] = pc[s] \/ pc'[s] = "downloading"
           \/ pc[s] \in {"staged", "transferring"} /\ pc'[s] = "loading"
           \/ pc[s] = "loading" /\ pc'[s] = "exporting"
           \/ pc[s] = "exporting" /\ pc'[s] = "writing"
    BY <1>5 DEF ObjectNotFound, Open, Download, Transfer, BeginJob, ClearForJob, JobFails, Resume,
                EndLoad, StartExport, Goto, packageVars, TypeOK, PipelineTypeOK
  <2> QED
    BY <1>0, <2>1, <2>2 DEF StageOK
<1>6. CASE ReadDatabase(s) \/ ListFiles(s) \/ \E f \in Files : ReadFile(s, f)
  <2>1. bucket'[s] = bucket[s]
    BY <1>6 DEF ReadDatabase, ListFiles, ReadFile, targetVars, fileVars
  <2>2. /\ done'[s] = done[s] /\ before'[s] = before[s]
        /\ pc[s] \in {"staged", "transferring", "reading"} /\ pc'[s] \in {"reading", "loading"}
    BY <1>6 DEF ReadDatabase, ListFiles, ReadFile, Goto, TypeOK, PipelineTypeOK
  <2> QED
    BY <1>0, <2>1, <2>2 DEF StageOK
<1>7. CASE \/ DownloadFails(s) \/ TransferFails(s) \/ NoFilesFound(s) \/ ExportFails(s)
           \/ Fails(s) \/ TransferBreaksOff(s) \/ EndExport(s) \/ EndIndexed(s)
  <2>1. pc'[s] = "idle"
    BY <1>7 DEF DownloadFails, TransferFails, NoFilesFound, ExportFails, Fails, TransferBreaksOff,
                EndExport, EndIndexed, RunFails, RunFailsAt, EndRun, Goto, TypeOK, PipelineTypeOK
  <2> QED
    BY <1>2, <2>1
<1>8. CASE EndJob(s)
  BY <1>0, <1>8 DEF EndJob, Loading
<1> QED
  BY <1>0, <1>1, <1>3, <1>4, <1>5, <1>6, <1>7, <1>8 DEF Step, Run

-----------------------------------------------------------------------------
(* The copy of an object. *)

IsWhole(c) == \E v \in Versions : c = Whole(v)

ObjectOK(s) ==
  /\ sound[s] \subseteq {Object}
  /\ pc[s] \in {"idle", "opening"} => staged[s][Object] = <<>>
  /\ pc[s] \in {"opening", "downloading"} => expected[s] # 0
  /\ pc[s] = "downloading" /\ Object \in sound[s] =>
       /\ expected[s] = Chunks[opened[s]]
       /\ options.pinned \/ remote[Object] = opened[s]
       /\ \A i \in 1 .. Len(staged[s][Object]) : staged[s][Object][i] = opened[s]
  /\ pc[s] = "staged" => staged[s][Object] # <<>>
  /\ pc[s] = "staged" /\ Object \in sound[s] => IsWhole(staged[s][Object])
Objects == options.source = "object" => \A s \in Schedules : ObjectOK(s)

\* The object and the places of the copies stay as they are.
LEMMA SameObject ==
  ASSUME TypeOK, options' = options, NEW s \in Schedules
  PROVE  Object' = Object /\ Place(s)' = Place(s) /\ Copy(s)' = staged'[Place(s)]
BY DEF Object, Place, Copy

\* A sound object that is not tied to its version is not written.
LEMMA SoundObject ==
  ASSUME TypeOK, [Next]_vars, options.source = "object", NEW s \in Schedules,
         Object \in sound'[s], ~options.pinned
  PROVE  remote'[Object] = remote[Object]
<1>1. CASE UNCHANGED remoteVars
  BY <1>1 DEF remoteVars
<1>2. ASSUME NEW t \in Schedules, Step(t) PROVE UNCHANGED remoteVars
  BY <1>2, StagingSteps DEF AskSize, OpenObject, StartTransfer, ReadChunk, TransferFile
<1>3. CASE (Remote /\ Others) \/ UNCHANGED vars
  <2>1. ASSUME NEW f \in Files, WriteRemote(f) \/ RemoveRemote(f)
        PROVE  remote'[Object] = remote[Object]
    <3>1. f \notin sound'[s]
      BY <2>1 DEF WriteRemote, RemoveRemote, Disturbs, TypeOK, StagingTypeOK
    <3> QED
      BY <2>1, <3>1, DeploymentType DEF WriteRemote, RemoveRemote, TypeOK, StagingTypeOK
  <2> QED
    BY <1>1, <1>3, <2>1, RemoteFrame
<1> QED
  BY <1>1, <1>2, <1>3, Steps

\* The end of a run takes its copy with it.
LEMMA EndsStaging ==
  ASSUME TypeOK, options.source = "object", Stages, NEW s \in Schedules, Step(s), pc'[s] = "idle",
         pc[s] # "idle"
  PROVE  staged'[s] = [f \in Files |-> <<>>] /\ sound'[s] = {}
<1>1. pc[s] \notin {"transferring", "reading"}
  BY DEF Stages, StageOK
<1>2. EndStaging(s, {}) /\ RemoveCopy(s)
  <2>1. CASE \/ EndDownload(s) \/ DownloadFails(s) \/ ExportFails(s) \/ Fails(s)
             \/ EndExport(s) \/ EndIndexed(s)
    BY <2>1 DEF EndDownload, DownloadFails, ExportFails, Fails, EndExport, EndIndexed, EndRun,
                RunFails, RunFailsAt, Goto, TypeOK, PipelineTypeOK
  <2>2. CASE \/ StartRun(s) \/ ObjectNotFound(s) \/ Open(s) \/ Download(s) \/ Transfer(s)
             \/ TransferFails(s) \/ TransferBreaksOff(s) \/ Resume(s) \/ ReadDatabase(s)
             \/ ListFiles(s) \/ NoFilesFound(s) \/ (\E f \in Files : ReadFile(s, f))
    BY <1>1, <2>2 DEF StartRun, ObjectNotFound, Open, Download, Transfer, TransferFails,
         TransferBreaksOff, Resume, ReadDatabase, ListFiles, NoFilesFound, ReadFile, Goto, TypeOK,
         PipelineTypeOK
  <2>3. CASE \/ LoadJob(s) \/ BeginJob(s) \/ ClearForJob(s) \/ EndJob(s) \/ JobFails(s)
             \/ EndLoad(s) \/ StartExport(s)
    BY <2>3 DEF LoadJob, BeginJob, ClearForJob, EndJob, JobFails, EndLoad, StartExport, Loading,
         Goto, TypeOK, PipelineTypeOK
  <2> QED
    BY <2>1, <2>2, <2>3 DEF Step, Run
<1> QED
  BY <1>2 DEF EndStaging, RemoveCopy, TypeOK, StagingTypeOK

\* Every step keeps it: a copy that passes SizeAgrees and is sound is whole.
LEMMA ObjectsStep == TypeOK /\ Stages /\ Objects /\ [Next]_vars => Objects'
<1> SUFFICES ASSUME TypeOK, Stages, Objects, [Next]_vars, options'.source = "object",
                    NEW s \in Schedules
             PROVE  ObjectOK(s)'
  BY DEF Objects
<1>0. /\ StageOK(s) /\ options' = options /\ options.source = "object" /\ ObjectOK(s)
      /\ Untouched(s) \/ Step(s)
  BY OneRun DEF Stages, Objects
<1>a. Object' = Object /\ Object \in Files /\ Copy(s) = staged[s]
  BY <1>0, SameObject, DeploymentType DEF Copy
<1> USE DEF ObjectOK
<1>1. CASE Untouched(s)
  <2>1. /\ pc'[s] = pc[s] /\ staged'[s] = staged[s] /\ expected'[s] = expected[s]
        /\ opened'[s] = opened[s] /\ sound'[s] \subseteq sound[s]
    BY <1>0, <1>1 DEF Untouched
  <2>2. Object \in sound'[s] => options.pinned \/ remote'[Object] = remote[Object]
    BY <1>0, SoundObject
  <2>3. IsWhole(staged[s][Object]) => IsWhole(staged[s][Object])'
    BY <1>a, <2>1 DEF IsWhole
  <2> QED
    BY <1>0, <1>a, <2>1, <2>2, <2>3
<1>2. CASE Step(s) /\ pc'[s] = "idle" /\ pc[s] # "idle"
  BY <1>0, <1>2, <1>a, EndsStaging
<1>3. CASE StartRun(s)
  <2>1. AskSize(s) /\ pc'[s] = "opening" /\ pc[s] = "idle"
    BY <1>0, <1>3 DEF StartRun, Goto, TypeOK, PipelineTypeOK
  <2>2. Chunks[remote[Object]] # 0
    BY <1>a, <2>1, VersionsType DEF AskSize, Versions, TypeOK, StagingTypeOK
  <2>3. staged' = staged /\ sound' = sound /\ expected'[s] # 0
    BY <2>1, <2>2 DEF AskSize, TypeOK, StagingTypeOK
  <2> QED
    BY <1>0, <1>a, <2>1, <2>3
<1>4. CASE Open(s)
  <2>1. OpenObject(s) /\ pc[s] = "opening" /\ pc'[s] = "downloading"
    BY <1>4 DEF Open, Goto, TypeOK, PipelineTypeOK
  <2>2. /\ sound'[s] = {f \in {Object} : Chunks[remote[f]] = expected[s]}
        /\ opened'[s] = remote[Object] /\ remote' = remote /\ staged' = staged
        /\ expected' = expected
    BY <2>1 DEF OpenObject, remoteVars, TypeOK, StagingTypeOK
  <2>3. Len(staged[s][Object]) = 0
    BY <1>0, <2>1, EmptyCopy
  <2> QED
    BY <1>0, <1>a, <2>1, <2>2, <2>3
<1>5. CASE Download(s)
  <2> DEFINE c == staged[s][Object]
             v == remote[Object]
  <2>1. pc[s] = "downloading" /\ ReadChunk(s) /\ pc'[s] = pc[s]
    BY <1>5 DEF Download
  <2>2. /\ remote' = remote /\ expected' = expected /\ opened' = opened /\ sound' = sound
        /\ v = opened[s] \/ (~options.pinned /\ v # 0)
    BY <2>1 DEF ReadChunk, Readable, remoteVars, downloadVars
  <2>3. staged'[s][Object] = Append(c, v)
    BY <1>a, <2>1 DEF ReadChunk, TypeOK, StagingTypeOK
  <2>4. /\ v \in Versions /\ c \in Seq(Versions) /\ Len(c) \in Nat
    <3>1. c \in Contents /\ v \in 0 .. Len(Chunks) /\ v # 0
      BY <1>a, <2>1, <2>2 DEF TypeOK, StagingTypeOK, PipelineTypeOK
    <3> QED
      BY <3>1, ContentType, VersionsType DEF Versions
  <2>5. ASSUME Object \in sound[s]
        PROVE  \A i \in 1 .. Len(Append(c, v)) : Append(c, v)[i] = opened[s]
    <3>1. v = opened[s] /\ \A i \in 1 .. Len(c) : c[i] = opened[s]
      BY <1>0, <2>1, <2>2, <2>5
    <3> HIDE DEF c, v
    <3> QED
      BY <2>4, <3>1, AppendProperties
  <2> HIDE DEF c, v
  <2> QED
    BY <1>0, <1>a, <2>1, <2>2, <2>3, <2>5
<1>6. CASE EndDownload(s) /\ pc'[s] # "idle"
  <2>1. /\ SizeAgrees(s) /\ pc[s] = "downloading" /\ pc'[s] = "staged"
        /\ UNCHANGED stagingVars
    BY <1>6 DEF EndDownload, RunFails, RunFailsAt, Goto, TypeOK, PipelineTypeOK
  <2> DEFINE c == staged[s][Object]
  <2>2. c \in Seq(Versions) /\ Len(c) = expected[s] /\ DOMAIN c = 1 .. Len(c)
    <3>1. c \in Contents
      BY <1>a DEF TypeOK, StagingTypeOK
    <3> QED
      BY <2>1, <3>1, ContentType DEF SizeAgrees, Downloaded
  <2>3. c # <<>>
    BY <1>0, <2>1, <2>2, EmptyCopy
  <2>4. ASSUME Object \in sound[s] PROVE IsWhole(c)
    <3>1. /\ Len(c) = Chunks[opened[s]]
          /\ \A i \in 1 .. Len(c) : c[i] = opened[s]
      BY <1>0, <2>1, <2>2, <2>4
    <3>2. opened[s] \in Versions
      BY <2>1, VersionsType DEF Versions, TypeOK, StagingTypeOK, PipelineTypeOK
    <3>3. c = Whole(opened[s])
      <4>1. c = [i \in DOMAIN c |-> c[i]]
        <5>1. c \in [1 .. Len(c) -> Versions]
          BY <2>2, LenProperties
        <5> QED
          BY <5>1
      <4> HIDE DEF c
      <4>2. c = [i \in 1 .. Chunks[opened[s]] |-> opened[s]]
        BY <2>2, <3>1, <4>1
      <4> QED
        BY <4>2 DEF Whole
    <3> QED
      BY <3>2, <3>3 DEF IsWhole
  <2>5. staged' = staged /\ sound' = sound
    BY <2>1 DEF stagingVars
  <2>6. IsWhole(c) => IsWhole(staged[s][Object])'
    BY <1>a, <2>5 DEF IsWhole
  <2> QED
    BY <1>0, <1>a, <2>1, <2>3, <2>4, <2>5, <2>6
<1>7. CASE \/ Transfer(s) \/ TransferFails(s) \/ TransferBreaksOff(s) \/ ListFiles(s)
           \/ NoFilesFound(s) \/ (\E f \in Files : ReadFile(s, f))
  BY <1>0, <1>7 DEF StageOK, Transfer, TransferFails, TransferBreaksOff, ListFiles, NoFilesFound,
                    ReadFile
<1>8. CASE \/ Resume(s) \/ ReadDatabase(s) \/ LoadJob(s) \/ BeginJob(s) \/ ClearForJob(s)
           \/ EndJob(s) \/ JobFails(s) \/ EndLoad(s) \/ StartExport(s)
  <2>1. pc'[s] \in {"loading", "exporting", "writing"} /\ sound' = sound
    BY <1>8 DEF Resume, ReadDatabase, LoadJob, BeginJob, ClearForJob, EndJob, JobFails, EndLoad,
         StartExport, Loading, Goto, stagingVars, TypeOK, PipelineTypeOK
  <2> QED
    BY <1>0, <1>a, <2>1
<1>9. CASE ObjectNotFound(s)
  <2>1. pc' = pc /\ staged' = staged /\ sound' = sound /\ pc[s] = "idle"
    BY <1>9 DEF ObjectNotFound, stagingVars
  <2> QED
    BY <1>0, <1>a, <2>1
<1>10. CASE \/ EndDownload(s) /\ pc'[s] = "idle"
            \/ DownloadFails(s) \/ ExportFails(s) \/ Fails(s) \/ EndExport(s) \/ EndIndexed(s)
  <2>1. pc'[s] = "idle" /\ pc[s] # "idle" /\ Step(s)
    BY <1>10 DEF EndDownload, DownloadFails, ExportFails, Fails, EndExport, EndIndexed, EndRun,
                 RunFails, RunFailsAt, Goto, Step, Run, TypeOK, PipelineTypeOK
  <2> QED
    BY <1>2, <2>1
<1> QED
  BY <1>0, <1>1, <1>3, <1>4, <1>5, <1>6, <1>7, <1>8, <1>9, <1>10 DEF Step, Run

-----------------------------------------------------------------------------
(* The copies of rsync, in the directory which all runs share. *)

RsyncOK(s) ==
  /\ pc[s] = "idle" => sound[s] = {}
  /\ pc[s] \in {"transferring", "reading"} => \A f \in sound[s] : IsWhole(Copy(s)[f])
  /\ pc[s] = "reading" => unread[s] # {} /\ \A f \in unread[s] : Copy(s)[f] # <<>>
Transfers == options.source = "rsync" => \A s \in Schedules : RsyncOK(s)

\* Whatever run takes a step, a file that stays sound keeps its copy or gets a
\* whole one, and no copy goes.
LEMMA CopySteps ==
  ASSUME TypeOK, Stages, [Next]_vars, options.source = "rsync",
         NEW s \in Schedules, NEW f \in Files
  PROVE  \/ Copy(s)'[f] = Copy(s)[f]
         \/ \E v \in Versions : Copy(s)'[f] = Whole(v)
         \/ Copy(s)'[f] # <<>> /\ f \notin sound'[s]
<1> DEFINE c == Copy(s)'[f]
           p == Place(s)
<1> SUFFICES \/ c = Copy(s)[f]
             \/ \E v \in Versions : c = Whole(v)
             \/ c # <<>> /\ f \notin sound'[s]
  OBVIOUS
<1>0. options' = options /\ p \in Schedules /\ c = staged'[p][f] /\ Copy(s)[f] = staged[p][f]
  BY Steps, SameObject, DeploymentType DEF Copy
<1> HIDE DEF c, p
<1>1. CASE staged' = staged
  BY <1>0, <1>1
<1>2. ASSUME NEW t \in Schedules, Step(t)
      PROVE  \/ staged' = staged
             \/ \E v \in Versions : c = Whole(v)
             \/ c = Copy(s)[f]
             \/ c # <<>> /\ f \notin sound'[s]
  <2>0. Place(t) = p
    BY <1>0 DEF Place, p
  <2>1. CASE UNCHANGED <<remoteVars, stagingVars>> \/ AskSize(t) \/ OpenObject(t) \/ StartTransfer(t)
    BY <2>1 DEF stagingVars, AskSize, OpenObject, StartTransfer
  <2>2. pc[t] # "downloading"
    BY DEF Stages, StageOK
  <2>3. ASSUME NEW g \in todo[t], TransferFile(t, g)
        PROVE  (\E v \in Versions : c = Whole(v)) \/ c = Copy(s)[f]
    <3>1. remote[g] \in Versions /\ g \in Files
      BY <2>3, VersionsType DEF TransferFile, Versions, TypeOK, StagingTypeOK
    <3>2. staged'[p] = [staged[p] EXCEPT ![g] = Whole(remote[g])]
      BY <1>0, <2>0, <2>3 DEF TransferFile, Transferred, TypeOK, StagingTypeOK
    <3> QED
      BY <1>0, <3>1, <3>2 DEF TypeOK, StagingTypeOK
  <2>4. ASSUME NEW g \in Files, NEW n \in 1 .. Chunks[remote[g]] - 1, remote[g] # 0,
               LeavePartial(t, g, n), g \notin sound'[s]
        PROVE  c = Copy(s)[f] \/ (c # <<>> /\ f \notin sound'[s])
    <3> DEFINE w == Whole(remote[g])
    <3>1. remote[g] \in Versions
      BY <2>4, VersionsType DEF Versions, TypeOK, StagingTypeOK
    <3>2. w \in Seq(Versions) /\ Len(w) = Chunks[remote[g]] /\ Chunks[remote[g]] \in Nat
      BY <3>1, WholeType, ContentType, VersionsType
    <3> HIDE DEF w
    <3>3. n \in Nat /\ n # 0 /\ Len(SubSeq(w, 1, n)) = n
      <4>1. 1 \in 1 .. Len(w) + 1 /\ n \in 1 - 1 .. Len(w) /\ n \in Nat /\ n # 0
        BY <3>2
      <4> QED
        BY <3>2, <4>1, SubSeqProperties
    <3>4. SubSeq(w, 1, n) # <<>>
      BY <3>3, EmptyCopy
    <3>5. staged'[p] = [staged[p] EXCEPT ![g] = SubSeq(w, 1, n)]
      BY <1>0, <2>0, <2>4 DEF LeavePartial, w, TypeOK, StagingTypeOK
    <3> QED
      BY <1>0, <2>4, <3>4, <3>5 DEF TypeOK, StagingTypeOK
  <2>5. Leaves(t) => \/ staged' = staged \/ c = Copy(s)[f] \/ (c # <<>> /\ f \notin sound'[s])
    BY <2>4 DEF Leaves, RemoveCopy
  <2> QED
    BY <1>2, <2>1, <2>2, <2>3, <2>5, StagingSteps
<1>3. CASE (Remote /\ Others) \/ UNCHANGED vars
  BY <1>1, <1>3, RemoteFrame
<1> QED
  BY <1>1, <1>2, <1>3, Steps

\* What was not sound before is so only once it is transferred or opened.
LEMMA SoundSteps ==
  ASSUME TypeOK, NEW s \in Schedules, Step(s)
  PROVE  \/ sound'[s] \subseteq sound[s]
         \/ Open(s)
         \/ Transfer(s)
<1>1. CASE EndDownload(s)
  BY <1>1 DEF EndDownload, RunFails, RunFailsAt, EndStaging, stagingVars, TypeOK, StagingTypeOK
<1>2. CASE \/ DownloadFails(s) \/ TransferFails(s) \/ NoFilesFound(s) \/ ExportFails(s)
           \/ Fails(s) \/ TransferBreaksOff(s) \/ EndExport(s) \/ EndIndexed(s)
  <2>1. \E broken : EndStaging(s, broken)
    BY <1>2 DEF DownloadFails, TransferFails, NoFilesFound, ExportFails, Fails, TransferBreaksOff,
                EndExport, EndIndexed, RunFails, RunFailsAt, EndRun
  <2> QED
    BY <2>1 DEF EndStaging, TypeOK, StagingTypeOK
<1>3. CASE \/ StartRun(s) \/ ObjectNotFound(s) \/ Download(s) \/ Resume(s) \/ ReadDatabase(s)
           \/ ListFiles(s) \/ (\E f \in Files : ReadFile(s, f)) \/ LoadJob(s) \/ BeginJob(s)
           \/ ClearForJob(s) \/ EndJob(s) \/ JobFails(s) \/ EndLoad(s) \/ StartExport(s)
  BY <1>3 DEF StartRun, ObjectNotFound, Download, Resume, ReadDatabase, ListFiles, ReadFile,
       LoadJob, BeginJob, ClearForJob, EndJob, JobFails, EndLoad, StartExport, AskSize,
       StartTransfer, ReadChunk, stagingVars
<1> QED
  BY <1>1, <1>2, <1>3 DEF Step, Run

\* Every step keeps it: what is sound is whole, whoever transfers it.
LEMMA TransfersStep == TypeOK /\ Stages /\ Transfers /\ [Next]_vars => Transfers'
<1> SUFFICES ASSUME TypeOK, Stages, Transfers, [Next]_vars, options'.source = "rsync",
                    NEW s \in Schedules
             PROVE  RsyncOK(s)'
  BY DEF Transfers
<1>0. /\ StageOK(s) /\ options' = options /\ options.source = "rsync" /\ RsyncOK(s)
      /\ Untouched(s) \/ Step(s)
  BY OneRun DEF Stages, Transfers
<1> DEFINE Kept(f) == \/ Copy(s)'[f] = Copy(s)[f]
                      \/ \E v \in Versions : Copy(s)'[f] = Whole(v)
                      \/ Copy(s)'[f] # <<>> /\ f \notin sound'[s]
<1>1. \A f \in Files : Kept(f)
  BY <1>0, CopySteps
<1>2. /\ sound[s] \subseteq Files /\ sound'[s] \subseteq Files
      /\ unread[s] \subseteq Files /\ unread'[s] \subseteq Files
  BY StagingType, PipelineType DEF TypeOK, StagingTypeOK, PipelineTypeOK
\* what was whole and stays sound is whole, what was there is there
<1>3. \A f \in sound'[s] : IsWhole(Copy(s)[f]) => IsWhole(Copy(s)[f])'
  BY <1>1, <1>2 DEF IsWhole, Whole
<1>4. \A f \in Files : Copy(s)[f] # <<>> => Copy(s)'[f] # <<>>
  BY <1>1, WholeType
<1> HIDE DEF Kept
<1>5. (pc'[s] = "idle" /\ pc[s] # "idle") /\ Step(s) => sound'[s] = {}
  <2> SUFFICES ASSUME pc'[s] = "idle", pc[s] # "idle", Step(s) PROVE sound'[s] = {}
    OBVIOUS
  <2>1. CASE \/ EndDownload(s) \/ DownloadFails(s) \/ TransferFails(s) \/ NoFilesFound(s)
             \/ ExportFails(s) \/ Fails(s) \/ TransferBreaksOff(s) \/ EndExport(s)
             \/ EndIndexed(s)
    <3>1. \E broken : EndStaging(s, broken)
      BY <2>1 DEF EndDownload, DownloadFails, TransferFails, NoFilesFound, ExportFails, Fails,
           TransferBreaksOff, EndExport, EndIndexed, RunFails, RunFailsAt, EndRun, Goto, TypeOK,
           PipelineTypeOK
    <3> QED
      BY <3>1 DEF EndStaging
  <2>2. CASE \/ StartRun(s) \/ ObjectNotFound(s) \/ Open(s) \/ Download(s) \/ Transfer(s)
             \/ Resume(s) \/ ReadDatabase(s) \/ ListFiles(s) \/ (\E f \in Files : ReadFile(s, f))
             \/ LoadJob(s) \/ BeginJob(s) \/ ClearForJob(s) \/ EndJob(s) \/ JobFails(s)
             \/ EndLoad(s) \/ StartExport(s)
    BY <2>2 DEF StartRun, ObjectNotFound, Open, Download, Transfer, Resume, ReadDatabase,
         ListFiles, ReadFile, LoadJob, BeginJob, ClearForJob, EndJob, JobFails, EndLoad,
         StartExport, Goto, TypeOK, PipelineTypeOK
  <2> QED
    BY <2>1, <2>2 DEF Step, Run
<1>6. CASE Untouched(s)
  BY <1>0, <1>2, <1>3, <1>4, <1>6 DEF Untouched, RsyncOK
<1>7. CASE Open(s)
  BY <1>0, <1>7 DEF Open, Goto, RsyncOK, TypeOK, PipelineTypeOK
<1>8. CASE Transfer(s)
  <2>1. PICK g \in todo[s] : TransferFile(s, g)
    BY <1>8 DEF Transfer
  <2>2. pc'[s] = "transferring" /\ pc[s] = "transferring"
    BY <1>8 DEF Transfer
  <2>3. sound'[s] = sound[s] \cup {g}
    BY <2>1 DEF TransferFile, TypeOK, StagingTypeOK
  <2>4. IsWhole(Copy(s)[g])'
    <3>1. remote[g] \in Versions /\ g \in Files
      BY <2>1, VersionsType DEF TransferFile, Versions, TypeOK, StagingTypeOK
    <3>2. Copy(s)' = staged'[Place(s)] /\ Place(s) \in Schedules
      BY <1>0, SameObject, DeploymentType
    <3>3. Copy(s)'[g] = Whole(remote[g])
      BY <2>1, <3>1, <3>2 DEF TransferFile, Transferred, TypeOK, StagingTypeOK
    <3> QED
      BY <3>1, <3>3 DEF IsWhole, Whole
  <2>5. \A f \in sound'[s] : IsWhole(Copy(s)[f])'
    BY <1>0, <1>3, <2>2, <2>3, <2>4 DEF RsyncOK
  <2> QED
    BY <2>2, <2>5 DEF RsyncOK
<1>9. CASE Step(s) /\ sound'[s] \subseteq sound[s]
  <2>1. CASE GoesOn(s)
    <3>1. pc'[s] \in {"transferring", "reading"} => pc'[s] = pc[s] \/ pc[s] = "idle"
      BY <2>1 DEF GoesOn
    <3>2. pc'[s] = "reading" => pc[s] = "reading" /\ unread'[s] = unread[s]
      BY <2>1 DEF GoesOn
    <3>3. pc'[s] = "idle" => sound'[s] = {}
      BY <1>0, <1>5, <1>9 DEF RsyncOK
    <3>4. pc'[s] \in {"transferring", "reading"} => \A f \in sound'[s] : IsWhole(Copy(s)[f])'
      BY <1>0, <1>3, <1>9, <3>1 DEF RsyncOK
    <3>5. pc'[s] = "reading" => unread'[s] # {} /\ \A f \in unread'[s] : Copy(s)'[f] # <<>>
      BY <1>0, <1>2, <1>4, <3>2 DEF RsyncOK
    <3> QED
      BY <3>3, <3>4, <3>5 DEF RsyncOK
  <2>2. CASE Ends(s)
    BY <1>0, <1>5, <1>9, <2>2 DEF Ends, RsyncOK
  <2>3. CASE Reads(s) \/ \E r \in Rows : Completes(s, r)
    BY <2>3 DEF Reads, Completes, RsyncOK
  <2>4. CASE Lists(s)
    <3>1. pc[s] = "transferring" /\ pc'[s] = "reading" /\ unread'[s] = Listed(s) /\ Listed(s) # {}
      BY <2>4 DEF Lists
    <3>2. \A f \in Listed(s) : f \in Files /\ Copy(s)[f] # <<>>
      BY DEF Listed
    <3> QED
      BY <1>0, <1>3, <1>4, <1>9, <3>1, <3>2 DEF RsyncOK
  <2>5. CASE \E f \in Files : ReadsFile(s, f)
    <3>1. PICK f \in Files : ReadsFile(s, f)
      BY <2>5
    <3>2. /\ pc[s] = "reading" /\ unread'[s] \subseteq unread[s]
          /\ pc'[s] = "loading" \/ (pc'[s] = "reading" /\ unread'[s] # {})
      BY <3>1 DEF ReadsFile
    <3> QED
      BY <1>0, <1>2, <1>3, <1>4, <1>9, <3>2 DEF RsyncOK
  <2> QED
    BY <1>9, <2>1, <2>2, <2>3, <2>4, <2>5, Moves
<1> QED
  BY <1>0, <1>6, <1>7, <1>8, <1>9, SoundSteps

-----------------------------------------------------------------------------
(* The packages *)

LoadedWhole(s, f) == \E v \in Versions : {r \in package[s] : r[1] = f} = RowsOf(f, Whole(v))

PackageOK(s) ==
  /\ pc[s] = "reading" => \A f \in unread[s] : \A r \in package[s] : r[1] # f
  /\ pc[s] = "reading" => \A f \in sound[s] \ unread[s] : LoadedWhole(s, f)
  /\ pc[s] = "loading" /\ ~pending[s] => \A f \in sound[s] : LoadedWhole(s, f)
  /\ pc[s] = "loading" \/ pending[s] => package[s] # {}
  /\ \A r, q \in package[s] : SameId(r, q) => r = q
Packages == \A s \in Schedules : PackageOK(s)

\* The copy of one file
LEMMA CopyRows ==
  ASSUME TypeOK, NEW s \in Schedules, NEW f \in Files
  PROVE  /\ Copy(s)[f] \in Contents
         /\ \A r \in RowsOf(f, Copy(s)[f]) : r[1] = f
         /\ \A r, q \in RowsOf(f, Copy(s)[f]) : SameId(r, q) => r = q
         /\ Copy(s)[f] # <<>> => RowsOf(f, Copy(s)[f]) # {}
<1>1. Copy(s)[f] \in Contents
  BY DeploymentType DEF Copy, TypeOK, StagingTypeOK
<1> QED
  BY <1>1, RowsType

\* Every step keeps it: a package has the rows of each sound file, in one version.
LEMMA PackagesStep ==
  TypeOK /\ Stages /\ Objects /\ Transfers /\ Packages /\ [Next]_vars => Packages'
<1> SUFFICES ASSUME TypeOK, Stages, Objects, Transfers, Packages, [Next]_vars,
                    NEW s \in Schedules
             PROVE  PackageOK(s)'
  BY DEF Packages
<1>0. /\ StageOK(s) /\ options' = options /\ PackageOK(s)
      /\ options.source = "object" => ObjectOK(s)
      /\ options.source = "rsync" => RsyncOK(s)
      /\ Untouched(s) \/ Step(s)
  BY OneRun DEF Stages, Objects, Transfers, Packages
<1>1. ASSUME package'[s] = package[s], NEW f PROVE LoadedWhole(s, f)' <=> LoadedWhole(s, f)
  BY <1>1 DEF LoadedWhole, RowsOf, Whole
<1>2. CASE Untouched(s)
  BY <1>0, <1>1, <1>2 DEF Untouched, Keeps, PackageOK
<1>3. CASE Step(s) /\ GoesOn(s)
  <2>1. /\ package'[s] = package[s] /\ pending'[s] = pending[s] /\ unread'[s] = unread[s]
        /\ pc'[s] = "reading" => pc[s] = "reading"
        /\ pc'[s] = "loading" => pc[s] = "loading" \/ pending[s]
    BY <1>3 DEF GoesOn, Keeps
  <2>2. pc'[s] \in {"reading", "loading"} => sound'[s] \subseteq sound[s] \/ pending[s]
    <3>1. Open(s) => pc'[s] = "downloading"
      BY DEF Open, Goto, TypeOK, PipelineTypeOK
    <3>2. Transfer(s) => pc'[s] = "transferring"
      BY DEF Transfer
    <3> QED
      BY <1>3, <3>1, <3>2, SoundSteps
  <2>3. pc'[s] = "reading" => ~pending[s]
    BY <1>0, <2>1 DEF StageOK
  <2> QED
    BY <1>0, <1>1, <2>1, <2>2, <2>3 DEF PackageOK
<1>4. CASE Ends(s)
  <2>1. /\ pc'[s] = "idle"
        /\ \/ package'[s] = package[s] /\ Incomplete(s)
           \/ package'[s] = {} /\ ~pending'[s]
    BY <1>4 DEF Ends
  <2> QED
    BY <1>0, <2>1 DEF PackageOK, Incomplete
<1>5. CASE ReadDatabase(s)
  <2>1. /\ pc[s] = "staged" /\ pc'[s] = "loading" /\ ~pending[s] /\ pending' = pending
        /\ package'[s] = RowsOf(Object, Copy(s)[Object]) /\ sound' = sound
    BY <1>5 DEF ReadDatabase, Goto, stagingVars, TypeOK, PipelineTypeOK
  <2>2. options.source = "object" /\ ObjectOK(s) /\ Copy(s) = staged[s] /\ Object \in Files
    BY <1>0, <2>1, DeploymentType DEF StageOK, Copy
  <2>3. package'[s] # {} /\ \A r, q \in package'[s] : SameId(r, q) => r = q
    BY <2>1, <2>2, CopyRows DEF ObjectOK
  <2>4. ASSUME NEW f \in sound'[s] PROVE LoadedWhole(s, f)'
    <3>1. f = Object /\ IsWhole(Copy(s)[f])
      BY <2>1, <2>2, <2>4 DEF ObjectOK
    <3>2. PICK v \in Versions : Copy(s)[f] = Whole(v)
      BY <3>1 DEF IsWhole
    <3>3. \A r \in package'[s] : r[1] = f
      BY <2>1, <2>2, <3>1, CopyRows
    <3>4. {r \in package'[s] : r[1] = f} = RowsOf(f, Whole(v))
      BY <2>1, <3>1, <3>2, <3>3
    <3> QED
      BY <3>4 DEF LoadedWhole, RowsOf, Whole
  <2> QED
    BY <2>1, <2>3, <2>4 DEF PackageOK
<1>6. CASE ListFiles(s)
  <2>1. /\ pc[s] = "transferring" /\ pc'[s] = "reading" /\ ~pending[s]
        /\ package' = package /\ pending' = pending /\ sound' = sound
        /\ unread'[s] = Listed(s)
    BY <1>6 DEF ListFiles, Goto, stagingVars, TypeOK, PipelineTypeOK
  <2>2. package[s] = {} /\ options.source = "rsync" /\ RsyncOK(s)
    BY <1>0, <2>1 DEF StageOK
  <2>3. sound[s] \subseteq Listed(s)
    <3>1. ASSUME NEW f \in sound[s] PROVE f \in Files /\ Copy(s)[f] # <<>>
      BY <2>1, <2>2, <3>1, WholeType DEF RsyncOK, IsWhole, TypeOK, StagingTypeOK
    <3> QED
      BY <3>1 DEF Listed
  <2> QED
    BY <2>1, <2>2, <2>3 DEF PackageOK
<1>7. ASSUME NEW f \in Files, ReadFile(s, f) PROVE PackageOK(s)'
  <2> DEFINE read == RowsOf(f, Copy(s)[f])
  <2>1. /\ pc[s] = "reading" /\ f \in unread[s] /\ unread'[s] = unread[s] \ {f}
        /\ package'[s] = package[s] \cup read /\ pending' = pending /\ sound' = sound
        /\ pc'[s] = "reading" \/ (pc'[s] = "loading" /\ unread[s] = {f})
    BY <1>7 DEF ReadFile, Goto, stagingVars, TypeOK, PipelineTypeOK
  <2>2. options.source = "rsync" /\ RsyncOK(s) /\ PackageOK(s) /\ ~pending[s]
    BY <1>0, <2>1 DEF StageOK
  <2>3. /\ \A r \in read : r[1] = f
        /\ \A r, q \in read : SameId(r, q) => r = q
        /\ read # {}
    BY <2>1, <2>2, CopyRows DEF RsyncOK
  <2>4. \A r \in package[s] : r[1] # f
    BY <2>1, <2>2 DEF PackageOK
  <2> HIDE DEF read
  <2>5. ASSUME NEW g \in sound'[s], g \notin unread'[s] PROVE LoadedWhole(s, g)'
    <3>1. CASE g = f
      <4>1. IsWhole(Copy(s)[f])
        BY <2>1, <2>2, <2>5, <3>1 DEF RsyncOK
      <4>2. PICK v \in Versions : Copy(s)[f] = Whole(v)
        BY <4>1 DEF IsWhole
      <4>3. {r \in package'[s] : r[1] = f} = read
        BY <2>1, <2>3, <2>4
      <4>4. {r \in package'[s] : r[1] = f} = RowsOf(f, Whole(v))
        BY <4>2, <4>3 DEF read
      <4> QED
        BY <3>1, <4>4 DEF LoadedWhole, RowsOf, Whole
    <3>2. CASE g # f
      <4>1. LoadedWhole(s, g)
        BY <2>1, <2>2, <2>5, <3>2 DEF PackageOK
      <4>2. {r \in package'[s] : r[1] = g} = {r \in package[s] : r[1] = g}
        BY <2>1, <2>3, <3>2
      <4> QED
        BY <4>1, <4>2 DEF LoadedWhole, RowsOf, Whole
    <3> QED
      BY <3>1, <3>2
  <2>6. \A r, q \in package'[s] : SameId(r, q) => r = q
    BY <2>1, <2>2, <2>3, <2>4 DEF PackageOK, SameId
  <2>7. \A g \in unread'[s] : \A r \in package'[s] : r[1] # g
    BY <2>1, <2>2, <2>3 DEF PackageOK
  <2>8. package'[s] # {}
    BY <2>1, <2>3
  <2> QED
    BY <2>1, <2>2, <2>5, <2>6, <2>7, <2>8 DEF PackageOK
<1>8. CASE LoadJob(s) \/ EndJob(s)
  <2>1. /\ pc' = pc /\ pending' = pending /\ package' = package /\ unread' = unread
        /\ sound' = sound
    BY <1>8 DEF LoadJob, EndJob, Complete, stagingVars
  <2> QED
    BY <1>0, <1>1, <2>1 DEF PackageOK
<1> QED
  BY <1>0, <1>2, <1>3, <1>4, <1>5, <1>6, <1>7, <1>8, Moves

-----------------------------------------------------------------------------
(* An index that is replaced: the first batch clears it, one batch at a time. *)

IndexingOK(s) ==
  /\ Begun(s) \subseteq package[s] \ done[s]
  /\ pc[s] # "loading" => Begun(s) = {}
  /\ \A r, q \in Begun(s) : r = q
  /\ pc[s] \in {"opening", "downloading", "staged", "transferring", "reading"} => ~cleared[s]
  /\ pc[s] = "loading" /\ ~cleared[s] => inserting[s] = {} /\ done[s] = before[s]
  /\ pc[s] = "loading" /\ cleared[s] =>
       clearing[s] = {} /\ index[s] \subseteq package[s] /\ done[s] \ before[s] \subseteq index[s]
  /\ done[s] # {} => index[s] \subseteq package[s]
Indexing == options.target = "index" /\ Replaces => \A s \in Schedules : IndexingOK(s)

\* Every step keeps it: what an index holds after the clearing is of the package.
LEMMA IndexingStep == TypeOK /\ Stages /\ Packages /\ Indexing /\ [Next]_vars => Indexing'
<1> SUFFICES ASSUME TypeOK, Stages, Packages, Indexing, [Next]_vars,
                    options'.target = "index", Replaces', NEW s \in Schedules
             PROVE  IndexingOK(s)'
  BY DEF Indexing
<1>0. /\ StageOK(s) /\ PackageOK(s) /\ options' = options
      /\ Untouched(s) \/ Step(s)
  BY OneRun DEF Stages, Packages
<1>a. options.target = "index" /\ Replaces /\ ~options.shared /\ ~options.parallel /\ IndexingOK(s)
  BY <1>0 DEF Indexing, Replaces
<1>b. /\ index \in [Schedules -> SUBSET Rows] /\ cleared \in [Schedules -> BOOLEAN]
      /\ clearing \in [Schedules -> SUBSET Rows] /\ inserting \in [Schedules -> SUBSET Rows]
  BY DeploymentType DEF TypeOK, IndexTypeOK
<1> USE DEF Begun
<1>1. CASE Untouched(s)
  BY <1>a, <1>1 DEF Untouched, Keeps, IndexingOK
<1>2. CASE StartRun(s)
  <2>1. /\ pc[s] = "idle" /\ pc'[s] \in {"opening", "transferring"}
        /\ package' = package /\ done' = done
        /\ index' = index /\ clearing' = clearing /\ inserting' = inserting /\ ~cleared'[s]
    BY <1>a, <1>b, <1>2, DeploymentType
    DEF StartRun, Goto, StartProcess, packageVars, TypeOK, PipelineTypeOK
  <2> QED
    BY <1>a, <2>1 DEF IndexingOK
<1>3. CASE /\ pc'[s] = "idle" /\ index'[s] = index[s] /\ clearing'[s] = {} /\ inserting'[s] = {}
           /\ done'[s] = {} \/ (done'[s] = done[s] /\ package'[s] = package[s])
  BY <1>a, <1>3 DEF IndexingOK
<1>4. ASSUME NEW broken, RunFailsAt(s, broken) PROVE IndexingOK(s)'
  <2>1. pc'[s] = "idle" /\ index'[s] = index[s] /\ clearing'[s] = {} /\ inserting'[s] = {}
    BY <1>b, <1>4 DEF RunFailsAt, EndBatches, Goto, TypeOK, PipelineTypeOK
  <2>2. done'[s] = {} \/ (done'[s] = done[s] /\ package'[s] = package[s])
    BY <1>4, RunFailsPipeline DEF TypeOK, PipelineTypeOK
  <2> QED
    BY <1>3, <2>1, <2>2
<1>5. CASE \/ DownloadFails(s) \/ TransferFails(s) \/ NoFilesFound(s) \/ ExportFails(s)
           \/ Fails(s) \/ TransferBreaksOff(s)
  <2>1. \E broken : RunFailsAt(s, broken)
    BY <1>5 DEF DownloadFails, TransferFails, NoFilesFound, ExportFails, Fails,
                TransferBreaksOff, RunFails
  <2> QED
    BY <1>4, <2>1
<1>6. CASE EndExport(s) \/ StartExport(s) \/ LoadJob(s)
  BY <1>0, <1>a, <1>6 DEF EndExport, StartExport, LoadJob, Loading, StageOK
<1>7. CASE EndIndexed(s)
  <2>1. /\ pc[s] = "exporting" /\ pc'[s] = "idle" /\ index' = index /\ done'[s] = {}
        /\ clearing' = clearing /\ inserting' = inserting
    BY <1>7 DEF EndIndexed, EndRun, DropPackage, Goto, targetVars, indexVars, TypeOK, PipelineTypeOK
  <2>2. clearing[s] = {} /\ inserting[s] = {}
    BY <1>a, <2>1 DEF IndexingOK
  <2> QED
    BY <1>3, <2>1, <2>2
<1>8. CASE \/ ObjectNotFound(s) \/ Open(s) \/ Download(s) \/ EndDownload(s) \/ Transfer(s)
           \/ Resume(s) \/ ReadDatabase(s) \/ ListFiles(s) \/ (\E f \in Files : ReadFile(s, f))
           \/ EndLoad(s)
  <2>1. CASE RunFails(s)
    BY <1>4, <2>1 DEF RunFails
  <2>2. CASE ~RunFails(s)
    <3>1. UNCHANGED indexVars /\ done' = done /\ before' = before
      BY <1>8, <2>2 DEF ObjectNotFound, Open, Download, EndDownload, Transfer, Resume,
         ReadDatabase, ListFiles, ReadFile, EndLoad, targetVars, packageVars
    <3>2. \/ pc'[s] = pc[s] /\ (package'[s] = package[s] \/ pc[s] = "reading")
          \/ /\ pc[s] \in {"opening", "downloading", "staged", "transferring", "reading"}
             /\ pc'[s] \in {"downloading", "staged", "reading", "loading"}
          \/ pc[s] = "loading" /\ pc'[s] = "exporting" /\ package'[s] = package[s]
      BY <1>8, <2>2 DEF ObjectNotFound, Open, Download, EndDownload, Transfer, Resume,
         ReadDatabase, ListFiles, ReadFile, EndLoad, Goto, packageVars, TypeOK, PipelineTypeOK
    <3>3. package'[s] = package[s] \/ done[s] = {}
      <4>1. package'[s] = package[s] \/ (pc[s] \in {"staged", "reading"} /\ ~pending[s])
        BY <1>0, <1>8, <2>2 DEF ObjectNotFound, Open, Download, EndDownload, Transfer, Resume,
           ReadDatabase, ListFiles, ReadFile, EndLoad, packageVars, StageOK, TypeOK, PipelineTypeOK
      <4> QED
        BY <1>0, <4>1 DEF StageOK
    <3>4. /\ index' = index /\ cleared' = cleared /\ clearing' = clearing /\ inserting' = inserting
      BY <3>1 DEF indexVars
    <3>5. CASE pc[s] = "loading"
      <4>1. package'[s] = package[s] /\ (pc'[s] = "loading" \/ pc'[s] = "exporting")
        BY <3>2, <3>5
      <4>2. pc'[s] = "exporting" => done[s] = package[s]
        BY <1>8, <2>2, <3>5 DEF ObjectNotFound, Open, Download, EndDownload, Transfer, Resume,
           ReadDatabase, ListFiles, ReadFile, EndLoad, Goto, TypeOK, PipelineTypeOK
      <4> QED
        BY <1>a, <3>1, <3>4, <3>5, <4>1, <4>2 DEF IndexingOK
    <3>6. CASE pc[s] # "loading"
      <4>1. clearing[s] = {} /\ inserting[s] = {}
        BY <1>a, <3>6 DEF IndexingOK
      <4>2. pc[s] \in {"opening", "downloading", "staged", "transferring", "reading"} =>
              done[s] = before[s] /\ ~cleared[s]
        BY <1>0, <1>a DEF StageOK, IndexingOK
      <4>3. done[s] # {} => index[s] \subseteq package'[s]
        BY <1>a, <3>3 DEF IndexingOK
      <4> QED
        BY <1>a, <3>1, <3>2, <3>4, <3>6, <4>1, <4>2, <4>3 DEF IndexingOK
    <3> QED
      BY <3>5, <3>6
  <2> QED
    BY <2>1, <2>2
<1>9. CASE BeginJob(s)
  <2>1. PICK r \in package[s] \ done[s] : BeginBatch(s, r)
    BY <1>9 DEF BeginJob
  <2>2. /\ pc[s] = "loading" /\ pc' = pc /\ clearing[s] = {} /\ inserting[s] = {}
        /\ package' = package /\ done' = done /\ before' = before
    BY <1>a, <1>9 DEF BeginJob, Loading, packageVars
  <2>3. /\ index' = index /\ cleared' = cleared
        /\ \/ cleared[s] /\ inserting'[s] = {r} /\ clearing'[s] = {}
           \/ ~cleared[s] /\ inserting'[s] = {} /\ clearing'[s] = {r}
    BY <1>b, <2>1, <2>2 DEF BeginBatch
  <2> QED
    BY <1>a, <2>1, <2>2, <2>3 DEF IndexingOK
<1>10. CASE ClearForJob(s)
  <2>1. PICK r \in clearing[s] : ClearIndex(s, r)
    BY <1>10 DEF ClearForJob
  <2>2. /\ pc[s] = "loading" /\ pc' = pc
        /\ package' = package /\ done' = done /\ before' = before
    BY <1>10 DEF ClearForJob, Loading, packageVars
  <2>3. ~cleared[s] /\ inserting[s] = {} /\ clearing[s] = {r} /\ done[s] = before[s]
    BY <1>a, <2>1, <2>2 DEF IndexingOK
  <2>4. index'[s] = {} /\ cleared'[s] /\ clearing'[s] = {} /\ inserting'[s] = {r}
    BY <1>b, <2>1, <2>3 DEF ClearIndex
  <2> QED
    BY <1>a, <2>2, <2>3, <2>4 DEF IndexingOK
<1>11. ASSUME NEW r \in inserting[s], pc[s] = "loading"
       PROVE  /\ cleared[s] /\ clearing[s] = {} /\ inserting[s] = {r} /\ r \in package[s] \ done[s]
              /\ {d \in index[s] : ~SameId(d, r)} \cup {r} \subseteq package[s]
              /\ (done[s] \cup {r}) \ before[s] \subseteq {d \in index[s] : ~SameId(d, r)} \cup {r}
  <2>1. /\ cleared[s] /\ clearing[s] = {} /\ inserting[s] = {r} /\ r \in package[s] \ done[s]
        /\ index[s] \subseteq package[s] /\ done[s] \ before[s] \subseteq index[s]
    BY <1>a, <1>b, <1>11 DEF IndexingOK
  <2>2. \A d \in done[s] \ before[s] : ~SameId(d, r)
    BY <1>0, <2>1 DEF PackageOK
  <2> QED
    BY <2>1, <2>2
<1>12. CASE EndJob(s)
  <2>1. PICK r \in inserting[s] : InsertBatch(s, r) /\ Complete(s, r)
    BY <1>12 DEF EndJob
  <2>2. pc[s] = "loading" /\ pc' = pc /\ package' = package /\ before' = before
    BY <1>12, <2>1 DEF EndJob, Loading, Complete
  <2>3. done'[s] = done[s] \cup {r}
    BY <2>1 DEF Complete, TypeOK, PipelineTypeOK
  <2>4. /\ index'[s] = {d \in index[s] : ~SameId(d, r)} \cup {r}
        /\ inserting'[s] = inserting[s] \ {r} /\ cleared' = cleared /\ clearing' = clearing
    BY <1>b, <2>1 DEF InsertBatch
  <2>5. /\ index'[s] \subseteq package[s] /\ done'[s] \ before[s] \subseteq index'[s]
        /\ cleared[s] /\ clearing[s] = {} /\ inserting'[s] = {}
    BY <1>11, <2>1, <2>2, <2>3, <2>4
  <2> QED
    BY <1>a, <2>2, <2>4, <2>5 DEF IndexingOK
<1>13. CASE JobFails(s)
  <2>1. PICK r \in Begun(s) : BatchFails(s, r)
    BY <1>13 DEF JobFails
  <2>2. /\ pc[s] = "loading" /\ pc' = pc
        /\ package' = package /\ done' = done /\ before' = before
    BY <1>13 DEF JobFails, Loading, packageVars
  <2>3. /\ clearing'[s] = clearing[s] \ {r} /\ inserting'[s] = inserting[s] \ {r}
        /\ cleared' = cleared
    BY <1>b, <2>1 DEF BatchFails
  <2>4. clearing'[s] = {} /\ inserting'[s] = {}
    BY <1>a, <2>1, <2>3 DEF IndexingOK
  <2>5. CASE index' = index
    BY <1>a, <2>2, <2>3, <2>4, <2>5 DEF IndexingOK
  <2>6. CASE r \in inserting[s] /\ index'[s] = {d \in index[s] : ~SameId(d, r)} \cup {r}
    <3>1. /\ index'[s] \subseteq package[s] /\ done[s] \ before[s] \subseteq index'[s]
          /\ cleared[s]
      BY <1>11, <2>2, <2>6
    <3> QED
      BY <1>a, <2>2, <2>3, <2>4, <3>1 DEF IndexingOK
  <2> QED
    BY <1>b, <2>1, <2>5, <2>6 DEF BatchFails
<1> QED
  BY <1>0, <1>1, <1>2, <1>5, <1>6, <1>7, <1>8, <1>9, <1>10, <1>12, <1>13 DEF Step, Run

-----------------------------------------------------------------------------
(* The theorems *)

Loads == Stages /\ Filled /\ Objects /\ Transfers /\ Packages /\ Indexing

\* The inductive invariant
LEMMA LoadsCorrect == Spec => [](TypeOK /\ Loads)
<1>1. Init => Loads
  <2> SUFFICES ASSUME Init, NEW s \in Schedules
               PROVE  /\ StageOK(s) /\ FilledOK(s) /\ ObjectOK(s)
                      /\ RsyncOK(s) /\ PackageOK(s) /\ IndexingOK(s)
    BY DEF Loads, Stages, Filled, Objects, Transfers, Packages, Indexing
  <2> USE DEF Init
  <2>0. /\ pc[s] = "idle" /\ package[s] = {} /\ done[s] = {} /\ before[s] = {} /\ pending[s] = FALSE
    OBVIOUS
  <2>1. sound[s] = {} /\ staged[s][Object] = <<>>
    <3>1. Object \in Files
      <4>1. options \in Deployment
        BY OptionsAssumption DEF InitStaging
      <4> QED
        BY <4>1 DEF Deployment, Object
    <3> QED
      BY <3>1 DEF InitStaging
  <2>2. clearing[s] = {} /\ inserting[s] = {}
    BY TargetsAssumption DEF InitIndex
  <2> QED
    BY <2>0, <2>1, <2>2 DEF StageOK, FilledOK, ObjectOK, RsyncOK, PackageOK, IndexingOK, Begun
<1>2. TypeOK /\ Loads /\ [Next]_vars => Loads'
  BY StagesStep, FilledStep, ObjectsStep, TransfersStep, PackagesStep, IndexingStep DEF Loads
<1> QED
  BY <1>1, <1>2, TypeCorrect, PTL DEF Spec

(* A file that nobody disturbed while the run copied it is loaded whole, in one  *)
(* version.                                                                   *)
THEOREM WholeCopiesCorrect == Spec => []WholeCopies
<1>1. TypeOK /\ Loads => WholeCopies
  BY DEF Loads, Packages, PackageOK, WholeCopies, LoadedWhole
<1> QED
  BY <1>1, LoadsCorrect, PTL

(* What a load leaves is its own rows, but those that earlier runs have completed. *)
THEOREM ExportsWholeLoadsCorrect == Spec => ExportsWholeLoads
<1> DEFINE Writes(s) ==
      pc[s] = "writing" /\ output'[s] # output[s] => output'[s] = package[s] \ before[s]
           Replaced(s) ==
      pc[s] = "loading" /\ pc'[s] = "exporting" /\ options.target = "index" /\ Replaces =>
        package[s] \ before[s] \subseteq index[s] /\ index[s] \subseteq package[s]
<1>1. ASSUME TypeOK, Loads, [Next]_vars, NEW s \in Schedules PROVE Writes(s) /\ Replaced(s)
  <2>0. StageOK(s) /\ PackageOK(s) /\ (Untouched(s) \/ Step(s))
    BY <1>1, OneRun DEF Loads, Stages, Packages
  <2>1. Writes(s)
    <3> SUFFICES ASSUME pc[s] = "writing", output'[s] # output[s]
                 PROVE  output'[s] = package[s] \ before[s]
      OBVIOUS
    <3>1. Step(s)
      BY <2>0 DEF Untouched
    <3>2. options.target = "file" /\ bucket[s] = package[s] \ before[s]
      BY <1>1, <2>0 DEF StageOK, Loads, Filled, FilledOK
    <3>3. EndExport(s)
      <4>1. CASE \/ StartRun(s) \/ ObjectNotFound(s) \/ Open(s) \/ Download(s) \/ EndDownload(s)
                 \/ DownloadFails(s) \/ Transfer(s) \/ TransferFails(s) \/ TransferBreaksOff(s)
                 \/ Resume(s) \/ ReadDatabase(s) \/ ListFiles(s) \/ NoFilesFound(s)
                 \/ (\E f \in Files : ReadFile(s, f))
        BY <4>1 DEF StartRun, ObjectNotFound, Open, Download, EndDownload, DownloadFails, Transfer,
             TransferFails, TransferBreaksOff, Resume, ReadDatabase, ListFiles, NoFilesFound,
             ReadFile, targetVars, fileVars
      <4>2. CASE \/ LoadJob(s) \/ BeginJob(s) \/ ClearForJob(s) \/ EndJob(s) \/ JobFails(s)
                 \/ EndLoad(s) \/ StartExport(s) \/ EndIndexed(s)
        BY <4>2 DEF LoadJob, BeginJob, ClearForJob, EndJob, JobFails, EndLoad, StartExport,
             EndIndexed, Loading
      <4>3. CASE ExportFails(s) \/ Fails(s)
        BY <4>3 DEF ExportFails, Fails, WriteOutputFails, fileVars
      <4> QED
        BY <3>1, <4>1, <4>2, <4>3 DEF Step, Run
    <3> QED
      BY <1>1, <3>2, <3>3, DeploymentType DEF EndExport, WriteOutput, TypeOK, TargetTypeOK
  <2>2. Replaced(s)
    <3> SUFFICES ASSUME pc[s] = "loading", pc'[s] = "exporting", options.target = "index", Replaces
                 PROVE  package[s] \ before[s] \subseteq index[s] /\ index[s] \subseteq package[s]
      OBVIOUS
    <3>1. IndexingOK(s)
      BY <1>1 DEF Loads, Indexing
    <3>2. done[s] = package[s]
      <4>1. Step(s)
        BY <2>0 DEF Untouched
      <4> QED
        BY <1>1, <4>1, Moves DEF GoesOn, Ends, Reads, Lists, ReadsFile, Completes
    <3>3. package[s] # {}
      BY <2>0 DEF PackageOK
    <3>4. cleared[s] \in BOOLEAN
      BY <1>1, DeploymentType DEF TypeOK, IndexTypeOK
    <3> QED
      BY <3>1, <3>2, <3>3, <3>4 DEF IndexingOK
  <2> QED
    BY <2>1, <2>2
<1>2. TypeOK /\ Loads /\ [Next]_vars =>
        [\A s \in Schedules :
           /\ pc[s] = "writing" /\ output'[s] # output[s] =>
                output'[s] = package[s] \ before[s]
           /\ pc[s] = "loading" /\ pc'[s] = "exporting" /\ options.target = "index" /\ Replaces =>
                package[s] \ before[s] \subseteq index[s] /\ index[s] \subseteq package[s]]_vars
  BY <1>1
<1> QED
  BY <1>2, LoadsCorrect, PTL DEF Spec, ExportsWholeLoads
=============================================================================

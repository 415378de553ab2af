-------------------------- MODULE LocalFileTarget --------------------------
(***************************************************************************)
(* The destinations that write one local file                               *)
(* (dlt_filesystem/target/local.py, csv://, file://).  dlt loads into a new   *)
(* temporary bucket, one data file for every job of the load; post_load()    *)
(* reads all data files and writes the output file in place.                 *)
(***************************************************************************)
EXTENDS FiniteSets

CONSTANTS
  Targets,     \* output files, one for every schedule
  Rows         \* what a data file holds

VARIABLES
  bucket,      \* bucket[s]: the data files in the bucket of the present run
  output       \* output[s]: the rows of the output file, empty if there is none

fileVars == <<bucket, output>>

InitTarget ==
  /\ bucket = [s \in Targets |-> {}]
  /\ output = [s \in Targets |-> {}]

\* MUTANT of MakeBucket: one directory for all runs.
MakeBucketAgain(s) == UNCHANGED fileVars
\* dlt_dest: a new directory.  That of a run that failed before is left behind.
MakeBucket(s) ==
  /\ bucket' = [bucket EXCEPT ![s] = {}]
  /\ UNCHANGED output

WriteDataFile(s, r) ==
  /\ bucket' = [bucket EXCEPT ![s] = @ \cup {r}]
  /\ UNCHANGED output

\* The writer opens the file for writing, and what it held is gone.
OpenOutput(s) ==
  /\ output' = [output EXCEPT ![s] = {}]
  /\ UNCHANGED bucket

\* The rows of all data files; then the bucket is removed.
WriteOutput(s) ==
  /\ output' = [output EXCEPT ![s] = bucket[s]]
  /\ bucket' = [bucket EXCEPT ![s] = {}]

\* The bucket is removed also when reading or writing fails.
WriteOutputFails(s) ==
  /\ bucket' = [bucket EXCEPT ![s] = {}]
  /\ UNCHANGED output

TargetTypeOK ==
  /\ bucket \in [Targets -> SUBSET Rows]
  /\ output \in [Targets -> SUBSET Rows]
=============================================================================

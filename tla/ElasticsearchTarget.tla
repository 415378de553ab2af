------------------------ MODULE ElasticsearchTarget ------------------------
(***************************************************************************)
(* The Elasticsearch destination (omniload/target/elasticsearch/adapter.py). *)
(* dlt calls elasticsearch_insert for every batch of documents, and the       *)
(* batches of several data files at the same time.  The first call of a       *)
(* process for an index deletes it: _cleared_indices remembers that, as long  *)
(* as the process lives.  A document with an id replaces the one of that id.  *)
(*                                                                         *)
(* External: dlt calls again for a batch that failed.                        *)
(***************************************************************************)
EXTENDS FiniteSets

CONSTANTS
  Indices,     \* one for every schedule
  Documents    \* <<file, place, version>>, the first two being the id

VARIABLES
  index,       \* index[s]: the documents of the index
  cleared,     \* _cleared_indices of the process of s has the index
  clearing,    \* batches that found it uncleared
  inserting    \* batches that are about to insert

indexVars == <<index, cleared, clearing, inserting>>

InitIndex ==
  /\ index = [s \in Indices |-> {}] /\ cleared = [s \in Indices |-> FALSE]
  /\ clearing = [s \in Indices |-> {}] /\ inserting = [s \in Indices |-> {}]

\* _cleared_indices lives as long as the process.
StartProcess(s, same) ==
  /\ cleared' = [cleared EXCEPT ![s] = @ /\ same]
  /\ UNCHANGED <<index, clearing, inserting>>

Begun(s) == clearing[s] \cup inserting[s]

\* `if index_name not in _cleared_indices`
BeginBatch(s, r) ==
  /\ r \notin Begun(s)
  /\ IF cleared[s]
     THEN inserting' = [inserting EXCEPT ![s] = @ \cup {r}] /\ UNCHANGED clearing
     ELSE clearing' = [clearing EXCEPT ![s] = @ \cup {r}] /\ UNCHANGED inserting
  /\ UNCHANGED <<index, cleared>>

\* MUTANT of ClearIndex: the index is taken to be new.
ClearIndexNot(s, r) ==
  /\ r \in clearing[s]
  /\ cleared' = [cleared EXCEPT ![s] = TRUE]
  /\ clearing' = [clearing EXCEPT ![s] = @ \ {r}]
  /\ inserting' = [inserting EXCEPT ![s] = @ \cup {r}]
  /\ UNCHANGED index
ClearIndex(s, r) ==
  /\ r \in clearing[s]
  /\ index' = [index EXCEPT ![s] = {}]
  /\ cleared' = [cleared EXCEPT ![s] = TRUE]
  /\ clearing' = [clearing EXCEPT ![s] = @ \ {r}]
  /\ inserting' = [inserting EXCEPT ![s] = @ \cup {r}]

SameId(a, b) == a[1] = b[1] /\ a[2] = b[2]

InsertBatch(s, r) ==
  /\ r \in inserting[s]
  /\ index' = [index EXCEPT ![s] = {d \in @ : ~SameId(d, r)} \cup {r}]
  /\ inserting' = [inserting EXCEPT ![s] = @ \ {r}]
  /\ UNCHANGED <<cleared, clearing>>

\* bulk() raises, before or after the document is written.
BatchFails(s, r) ==
  /\ r \in Begun(s)
  /\ \/ UNCHANGED index
     \/ r \in inserting[s] /\ index' = [index EXCEPT ![s] = {d \in @ : ~SameId(d, r)} \cup {r}]
  /\ clearing' = [clearing EXCEPT ![s] = @ \ {r}]
  /\ inserting' = [inserting EXCEPT ![s] = @ \ {r}]
  /\ UNCHANGED cleared

\* The calls end with the run.
EndBatches(s) ==
  /\ clearing' = [clearing EXCEPT ![s] = {}] /\ inserting' = [inserting EXCEPT ![s] = {}]
  /\ UNCHANGED <<index, cleared>>

IndexTypeOK ==
  /\ index \in [Indices -> SUBSET Documents] /\ cleared \in [Indices -> BOOLEAN]
  /\ clearing \in [Indices -> SUBSET Documents] /\ inserting \in [Indices -> SUBSET Documents]
=============================================================================

-------------------------- MODULE MCIngestRequest --------------------------
(* A small instance of IngestRequest for TLC: every source and resource with  *)
(* every strategy, a key, and one option at a time.                           *)
EXTENDS IngestRequest

Keys(s) == {"none", "time"} \cup IF s.key = "ignored" THEN {"group"} ELSE {}
All ==
  UNION {[source : {s}, table : s.tables, strategy : Strategies, key : Keys(s),
          option : Options] : s \in AllSources}
\* The sources whose guard is on a key they are never given.
Contested == {r \in All : r.source.own /\ r.source.guard = "resolved" /\ r.key # "none" /\ r.option = "none"}
=============================================================================

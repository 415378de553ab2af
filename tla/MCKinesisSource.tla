-------------------------- MODULE MCKinesisSource --------------------------
(* Small instances of KinesisSource for TLC: one of the shards is split. *)
EXTENDS KinesisSource

CONSTANTS s1, s2, s3
OneSplit == [s \in Shards |-> IF s = s1 THEN {s2} ELSE {}]
OneTwo == [s \in Shards |-> IF s = s1 THEN 1 ELSE 2]
Starts == [start : {1}, limited : BOOLEAN] \cup [start : {Epoch}, limited : {FALSE}]
LimitedStart == [start : {1}, limited : {TRUE}]
NoSplit == [s \in Shards |-> {}]
=============================================================================

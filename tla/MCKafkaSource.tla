--------------------------- MODULE MCKafkaSource ---------------------------
(* Small instances of KafkaSource for TLC. *)
EXTENDS KafkaSource

CONSTANTS p1, p2
Older12 == [p \in Partitions |-> IF p = p1 THEN 2 ELSE 1]

Flags(strategy, startFrom, persistentDir, limited) ==
  [strategy |-> strategy, startFrom |-> startFrom, persistentDir |-> persistentDir,
   limited |-> limited]
Additive == {Flags("append", FALSE, FALSE, TRUE), Flags("append", FALSE, TRUE, TRUE),
             Flags("append", TRUE, TRUE, FALSE), Flags("merge", FALSE, FALSE, FALSE)}
=============================================================================

-------------------------- MODULE MCSqlIncremental --------------------------
(* A small instance of SqlIncremental for TLC. *)
EXTENDS SqlIncremental

Flags(strategy, key, primaryKey, window, limit, persistentDir) ==
  [strategy |-> strategy, key |-> key, primaryKey |-> primaryKey, window |-> window,
   limit |-> limit, persistentDir |-> persistentDir]
Commands == {
  Flags("replace",       FALSE, FALSE, FALSE, 0, FALSE),
  Flags("replace",       FALSE, FALSE, FALSE, 0, TRUE),
  Flags("append",        TRUE,  FALSE, FALSE, 0, TRUE),
  Flags("append",        TRUE,  FALSE, FALSE, 1, FALSE),
  Flags("merge",         TRUE,  TRUE,  FALSE, 0, FALSE),
  Flags("merge",         TRUE,  TRUE,  TRUE,  0, TRUE),
  Flags("delete+insert", TRUE,  FALSE, FALSE, 0, FALSE),
  Flags("delete+insert", TRUE,  FALSE, TRUE,  0, TRUE),
  Flags("delete+insert", TRUE,  TRUE,  FALSE, 0, TRUE),
  Flags("scd2",          FALSE, FALSE, FALSE, 0, TRUE),
  Flags("scd2",          TRUE,  FALSE, FALSE, 0, FALSE),
  Flags("scd2",          FALSE, FALSE, FALSE, 1, FALSE)}
=============================================================================

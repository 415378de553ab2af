--------------------------- MODULE MCStagedExport ---------------------------
(* Small instances of StagedExport for TLC. *)
EXTENDS StagedExport

CONSTANTS a, b, one, two
MCFiles == {a, b}
MCSchedules == {one, two}
MCChunks == <<2, 1, 2>>
MCRows == MCFiles \X (1 .. 2) \X (1 .. 3)
File(source, pinned, persistent, files, runs) ==
  [source : {source}, pinned : pinned, persistent : persistent, target : {"file"},
   shared : {FALSE}, parallel : {FALSE}, files : {files}, runs : {runs}]
Index ==
  [source : {"object"}, pinned : {TRUE}, persistent : BOOLEAN, target : {"index"},
   shared : BOOLEAN, parallel : BOOLEAN, files : {{a}}, runs : {{one}}]
MCOptions ==
  File("object", BOOLEAN, BOOLEAN, {a}, {one})
  \cup File("rsync", {FALSE}, BOOLEAN, {a, b}, {one})
  \cup File("rsync", {FALSE}, BOOLEAN, {a}, {one, two})
  \cup Index
=============================================================================

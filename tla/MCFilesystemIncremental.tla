---------------------- MODULE MCFilesystemIncremental ----------------------
(* Small instances of FilesystemIncremental for TLC. *)
EXTENDS FilesystemIncremental

Flags(persistentDir, fullRefresh) ==
  [persistentDir |-> persistentDir, fullRefresh |-> fullRefresh]
\* A refresh is up to each run, so the second command line includes the runs without.
Commands == {Flags(FALSE, FALSE), Flags(TRUE, TRUE)}
=============================================================================

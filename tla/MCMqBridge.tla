----------------------------- MODULE MCMqBridge -----------------------------
(* Model-checking instances of MqBridge: the command lines it runs with. *)
EXTENDS MqBridge

Flags(yieldLimit, batchSize, persistentDir, destination) ==
  [yieldLimit |-> yieldLimit, batchSize |-> batchSize, persistentDir |-> persistentDir,
   destination |-> destination]
Deployments == {Flags(0, 2, TRUE, "database"), Flags(2, 2, FALSE, "databricks"),
                Flags(2, 1, FALSE, "file")}
=============================================================================

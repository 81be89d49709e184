--------------------------- MODULE MCStorageBatch ---------------------------
(***************************************************************************)
(* Instances of StorageBatch for TLC: the default configuration (a commit  *)
(* per event), batches with a delay, and batches that only the flusher     *)
(* ends.                                                                   *)
(***************************************************************************)
EXTENDS StorageBatch

CONSTANTS w1, w2

MCEach == [size |-> 1, delay |-> FALSE]
MCBatch == [size |-> 3, delay |-> FALSE]
MCConfigs == {MCEach, [size |-> 2, delay |-> TRUE], MCBatch}
MCBatchOnly == {MCBatch}
=============================================================================

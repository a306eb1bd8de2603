------------------------- MODULE MCStorageClient -------------------------
(***************************************************************************)
(* Small instance of StorageClient.tla for TLC: a Binance connector and a  *)
(* pool, or one model already recorded and three calls with two keys.      *)
(***************************************************************************)
EXTENDS StorageClient, TLC

CONSTANTS m1, k1, k2, pool

RecordedWithK1 == m1 :> k1
Limits == [feeds |-> 4, models |-> 3]
=============================================================================

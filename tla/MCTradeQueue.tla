--------------------------- MODULE MCTradeQueue ---------------------------
(***************************************************************************)
(* Small instances of TradeQueue.tla for TLC.                              *)
(*                                                                         *)
(*   MCQueuePool.cfg    three jobs, two with the same trade, two in flight *)
(*   MCQueueSerial.cfg  one in flight, two attempts each, fairness         *)
(*   MCQueueFailed.cfg, MCQueueDone.cfg   what the messages say and the    *)
(*                      code does not keep                                 *)
(***************************************************************************)
EXTENDS TradeQueue, TLC

CONSTANTS j1, j2, j3, k1, k2

TwiceTheSame == (j1 :> k1) @@ (j2 :> k1) @@ (j3 :> k2)
TwoTrades == (j1 :> k1) @@ (j2 :> k2)
=============================================================================

----------------------------- MODULE VaultLog -----------------------------
(***************************************************************************)
(* The TradeExecuted events of the vault (FlageVault.sol, executeTrade),   *)
(* as those who follow them from outside see them: a log that grows.       *)
(***************************************************************************)

VARIABLE log  \* the settled trades, in order
=============================================================================

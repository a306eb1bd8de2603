----------------------------- MODULE Dashboard -----------------------------
(***************************************************************************)
(* packages/dashboard: the wallet (UseWallet.tla) with the panels that use *)
(* it (FundsPanels.tla), and the figures of the vault (VaultFigures.tla).  *)
(* These two halves share no state: each behaviour moves one of them.      *)
(***************************************************************************)
EXTENDS FundsPanels, VaultFigures

CONSTANTS MaxWork  \* bound: connects, panels and transactions together

ASSUME WorkAssumption == MaxWork \in Nat

VARIABLES half

vars == <<half, walletVars, panelVars, figureVars>>

(* Types and ranges.                                                       *)
TypeOK == half \in {"forms", "figures"} /\ WalletTypeOK /\ PanelTypeOK /\ FiguresTypeOK

Init == half \in {"forms", "figures"} /\ WalletInit /\ PanelInit /\ FiguresInit

FormsStep ==
  /\ half = "forms"
  /\ PanelStep
  /\ begun' + mounts' + started' <= MaxWork
  /\ UNCHANGED <<half, figureVars>>

FiguresMove ==
  /\ half = "figures"
  /\ FiguresStep
  /\ UNCHANGED <<half, walletVars, panelVars>>

Next == FormsStep \/ FiguresMove

Spec == Init /\ [][Next]_vars

FairSpec == Spec /\ (half = "figures" => FiguresFairness)

-----------------------------------------------------------------------------
(* Once the RPC node stays up, the page comes to show all trades of the    *)
(* vault, in the count and in the list, and no error, though overlapping   *)
(* refreshes may show older figures over newer ones before (page.tsx).     *)
PageConverges ==
  half = "figures" /\ <>[]rpcUp
    => <>[](page = [stats |-> trades, history |-> trades, error |-> FALSE])
=============================================================================

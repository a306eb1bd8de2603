--------------------------- MODULE MCDashboard ---------------------------
(***************************************************************************)
(* Small instance of Dashboard.tla for TLC: a wallet with two accounts and *)
(* two networks, and a page with two refreshes at a time.                  *)
(***************************************************************************)
EXTENDS Dashboard, TLC

CONSTANTS a1, a2, c1, c2, s1, s2
=============================================================================

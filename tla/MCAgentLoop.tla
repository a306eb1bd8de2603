--------------------------- MODULE MCAgentLoop ---------------------------
(***************************************************************************)
(* Small instance of AgentLoop.tla for TLC: two pairs that had a price     *)
(* when the agent started, a snapshot of one of them written meanwhile,    *)
(* three trades and two starts of the agent.                               *)
(***************************************************************************)
EXTENDS AgentLoop, TLC

CONSTANTS p1, p2, u1, u2, u3

Topics ==
  u1 :> [kind |-> "price", of |-> p1] @@ u2 :> [kind |-> "price", of |-> p2]
    @@ u3 :> [kind |-> "book", of |-> p1]
PricesFirst == <<u1, u2>>
BothPairs == <<p1, p2>>
=============================================================================

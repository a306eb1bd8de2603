---------------------------- MODULE AgentLoop ----------------------------
(***************************************************************************)
(* The loop the agent trades in: the data server writes the stream         *)
(* (MarketStream.tla), the runner reads it, signs and submits              *)
(* (InferenceRunner.tla), the vault settles, and the monitor of the        *)
(* settlement service follows the vault's events (VaultMonitor.tla).       *)
(***************************************************************************)
EXTENDS InferenceRunner, VaultMonitor

vars == <<streamVars, runnerVars, monitorVars>>

(* Types and ranges of the three parts.                                    *)
TypeOK == StreamTypeOK /\ RunnerTypeOK /\ MonitorTypeOK

Init == StreamInit /\ RunnerInit /\ MonitorInit

Next ==
  \/ StreamStep /\ UNCHANGED <<runnerVars, monitorVars>>
  \/ RunnerStep /\ UNCHANGED <<streamVars, monitorVars>>
  \/ MonitorStep /\ UNCHANGED <<streamVars, runnerVars>>

Spec == Init /\ [][Next]_vars

(* The provider of the monitor polls as long as the process lives.         *)
FairSpec == Spec /\ WF_vars(Deliver /\ UNCHANGED <<streamVars, runnerVars>>)

-----------------------------------------------------------------------------
(* Properties *)

TakenAt(u) == CHOOSE i \in DOMAIN applied : applied[i] = u

(* The book and the price the agent infers from may come from different    *)
(* updates, since they are read apart (runner.py, _tick), but the price is *)
(* never the older of the two: server.ts writes it along with each book.   *)
PriceNotOlderThanBook ==
  \A p \in Pairs :
    books[p] # None /\ prices[p] # None => TakenAt(books[p]) <= TakenAt(prices[p])

(* The runner never has two transactions waiting: after a timeout the next *)
(* one takes the slot of the one that hangs (runner.py, submit_trade).     *)
OnePending == Cardinality(mempool) <= 1

(* Trades settle in the order in which they were signed, through timeouts, *)
(* lost answers, replaced transactions and restarts.                       *)
SettlesInSigningOrder == \A i, j \in DOMAIN log : i < j => log[i] < log[j]

(* A trade that loses its nonce loses it to a trade of another life of the *)
(* process: the counter starts afresh with each (agent.py, __init__), but  *)
(* within one life no gap or failure makes it repeat itself.               *)
OnlyRestartsReuseNonces ==
  \A t \in Trades \ Settled : \A s \in Settled :
    signed[s].nonce = signed[t].nonce => signed[s].life # signed[t].life

(* What is mined after the subscription reaches the history, unless the    *)
(* service has ended (monitor.ts).                                         *)
FollowsTheVault ==
  \A n \in 1..MaxTrades :
    (subscribed /\ since < n /\ n <= Len(log))
      ~> (service = "exited" \/ since + delivered >= n)
=============================================================================

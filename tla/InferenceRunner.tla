-------------------------- MODULE InferenceRunner --------------------------
(***************************************************************************)
(* packages/agent/src/runner.py and the state of agent.py: the loop that   *)
(* reads the stream, infers, signs and submits, with the chain it meets.   *)
(*                                                                         *)
(* One coroutine; each action is what runs between two awaits.  Inference  *)
(* is a choice of how many trades it gives.  A trade is named by its place *)
(* in `signed`.  The chain is external: it mines the transactions of the   *)
(* account in the order of their account nonces ("slots").                 *)
(***************************************************************************)
EXTENDS MarketStream, VaultLog

CONSTANTS TargetPairs,  \* config["target_pairs"]
          MaxTrades,    \* bound: trades signed
          MaxNonce,     \* bound: nonces taken in one life
          MaxLives      \* bound: starts of the process

ASSUME RunnerAssumption ==
  /\ TargetPairs \in Seq(Pairs) \ {<<>>}
  /\ MaxTrades \in Nat /\ MaxNonce \in Nat
  /\ MaxLives \in Nat \ {0}

VARIABLES
  pc,        \* where the coroutine waits
  at,        \* the pair being read, as an index of TargetPairs
  books,     \* orderbooks of this tick: pair -> update or None
  prices,    \* prices of this tick (both are cleared once inferred from)
  nonce,     \* agent._nonce
  life,      \* which start of the process this is
  signed,    \* the trades signed so far: [life, nonce]
  todo,      \* the trades of this tick not yet dealt with
  slot,      \* the account nonce read for the trade to be sent (else 0)
  mempool,   \* transactions not mined: [slot, trade]
  reverted   \* trades whose transaction was mined and reverted

tickVars == <<at, books, prices>>
agentVars == <<nonce, signed>>
accountVars == <<mempool, reverted, log>>
runnerVars == <<pc, tickVars, agentVars, life, todo, slot, accountVars>>

Trades == 1..Len(signed)
Settled == ToSet(log)
UsedNonces == {signed[t].nonce : t \in Settled}
Mined == Len(log) + Cardinality(reverted)

RunnerTypeOK ==
  /\ pc \in {"idle", "book", "price", "process", "count", "send", "receipt"}
  /\ at \in 1..Len(TargetPairs)
  /\ books \in [Pairs -> Updates \cup {None}]
  /\ prices \in [Pairs -> Updates \cup {None}]
  /\ nonce \in 0..MaxNonce
  /\ life \in 1..MaxLives
  /\ signed \in Seq([life : 1..MaxLives, nonce : 0..MaxNonce]) /\ Len(signed) <= MaxTrades
  /\ todo \in Seq(Trades)
  /\ slot \in 0..MaxTrades
  /\ mempool \subseteq [slot : 0..MaxTrades, trade : Trades]
  /\ reverted \subseteq Trades
  /\ log \in Seq(Trades)

Nothing == [p \in Pairs |-> None]

RunnerInit ==
  /\ pc = "idle" /\ at = 1
  /\ books = Nothing /\ prices = Nothing
  /\ nonce = 0 /\ life = 1
  /\ signed = <<>> /\ todo = <<>> /\ slot = 0
  /\ mempool = {} /\ reverted = {} /\ log = <<>>

-----------------------------------------------------------------------------
(* _tick: market data, one awaited read after the other; a read that        *)
(* returns nothing leaves the dictionary as it was.                        *)

Tick ==
  /\ pc = "idle"
  /\ pc' = "book"
  /\ UNCHANGED <<tickVars, agentVars, life, todo, slot, accountVars>>

ReadBook ==
  /\ pc = "book"
  /\ LET p == TargetPairs[at] IN
     \E v \in Answers("orderbook", p) : books' = [books EXCEPT ![p] = IF v = None THEN @ ELSE v]
  /\ pc' = "price"
  /\ UNCHANGED <<at, prices, agentVars, life, todo, slot, accountVars>>

(* Mutant of MorePairs: off by one.                                        *)
MorePairsInclusive == at <= Len(TargetPairs)

MorePairs == at < Len(TargetPairs)

ReadPrice ==
  /\ pc = "price"
  /\ LET p == TargetPairs[at] IN
     \E v \in Answers("price", p) : prices' = [prices EXCEPT ![p] = IF v = None THEN @ ELSE v]
  /\ IF MorePairs THEN pc' = "book" /\ at' = at + 1
     ELSE pc' = "process" /\ UNCHANGED at
  /\ UNCHANGED <<books, agentVars, life, todo, slot, accountVars>>

(* _decode: the nonce of the i-th trade decoded in a tick.                 *)
TakeNonce(i) == nonce + i - 1

(* Mutant of NonceAfter: a trade that the filter drops gives its nonce back. *)
NonceAfterPassed(m, n) == nonce + m

(* The counter after a tick that decoded n trades, of which m pass.        *)
NonceAfter(m, n) == nonce + n

(* Mutant of Batched: the last pair is submitted first.                    *)
BatchedBackwards(n) == [i \in 1..n |-> Len(signed) + n + 1 - i]

(* The trades of a tick in the order in which they are submitted.          *)
Batched(n) == [i \in 1..n |-> Len(signed) + i]

(* _risk_filter: places of the m trades, of n decoded, that it lets pass.  *)
(* It drops a BUY or SELL larger than the limit, which a confidence above  *)
(* one asks for (_calc_size): the model's outputs are not probabilities.   *)
Passed(m, n) == {place \in [1..m -> 1..n] : \A i, j \in 1..m : i < j => place[i] < place[j]}

(* process: _decode takes a nonce for each trade it decodes, the filter    *)
(* drops some, the rest is signed.  After an exception nothing is signed,  *)
(* and the nonces taken by then are gone (m = 0).                          *)
Process ==
  /\ pc = "process"
  /\ LET priced == {i \in DOMAIN TargetPairs : prices[TargetPairs[i]] # None} IN
     \E n \in 0..Cardinality(priced) : \E m \in 0..n : \E place \in Passed(m, n) :
       /\ nonce + n <= MaxNonce /\ Len(signed) + m <= MaxTrades
       /\ signed' = signed \o [i \in 1..m |-> [life |-> life, nonce |-> TakeNonce(place[i])]]
       /\ nonce' = NonceAfter(m, n)
       /\ todo' = Batched(m)
       /\ pc' = IF m = 0 THEN "idle" ELSE "count"
  /\ at' = 1 /\ books' = Nothing /\ prices' = Nothing
  /\ UNCHANGED <<life, slot, accountVars>>

-----------------------------------------------------------------------------
(* submit_trade.  An exception is logged and ends the trade, not the tick. *)

NextTrade ==
  /\ todo' = Tail(todo)
  /\ pc' = IF Tail(todo) = <<>> THEN "idle" ELSE "count"

(* Mutant of AccountNonce: transactions not mined are counted too.         *)
AccountNoncePending == Mined + Cardinality(mempool)

(* get_transaction_count counts the transactions of the latest block.      *)
AccountNonce == Mined

ReadCount ==
  /\ pc = "count"
  /\ \/ slot' = AccountNonce /\ pc' = "send" /\ UNCHANGED todo
     \/ NextTrade /\ UNCHANGED slot
  /\ UNCHANGED <<tickVars, agentVars, life, accountVars>>

(* The node takes the transaction if its slot is free, or in place of the  *)
(* pending one of that slot if it pays more.                               *)
Accepted ==
  /\ slot >= Mined
  /\ mempool' = {m \in mempool : m.slot # slot} \cup {[slot |-> slot, trade |-> Head(todo)]}

(* It is sent, or sent with the answer lost, or refused.                   *)
Send ==
  /\ pc = "send"
  /\ \/ Accepted /\ pc' = "receipt" /\ UNCHANGED todo
     \/ Accepted /\ NextTrade
     \/ NextTrade /\ UNCHANGED mempool
  /\ slot' = 0
  /\ UNCHANGED <<tickVars, agentVars, life, reverted, log>>

(* The receipt comes and its status is logged, or                          *)
(* wait_for_transaction_receipt fails or gives up after 30 s, whatever     *)
(* becomes of the transaction: all lead to the next trade.                 *)
Receipt ==
  /\ pc = "receipt"
  /\ NextTrade
  /\ UNCHANGED <<tickVars, agentVars, life, slot, accountVars>>

(* The process dies and is started again with the same TEE_SIGNING_KEY.    *)
Restart ==
  /\ life < MaxLives
  /\ life' = life + 1
  /\ nonce' = 0 /\ todo' = <<>>
  /\ pc' = "idle" /\ at' = 1 /\ slot' = 0
  /\ books' = Nothing /\ prices' = Nothing
  /\ UNCHANGED <<signed, accountVars>>

(* The vault settles a trade once per nonce, and may always refuse it.     *)
Mine ==
  /\ \E m \in mempool :
       /\ m.slot = Mined
       /\ mempool' = mempool \ {m}
       /\ \/ /\ signed[m.trade].nonce \notin UsedNonces
             /\ log' = Append(log, m.trade)
             /\ UNCHANGED reverted
          \/ reverted' = reverted \cup {m.trade} /\ UNCHANGED log
  /\ UNCHANGED <<pc, tickVars, agentVars, life, todo, slot>>

RunnerStep ==
  \/ Tick \/ ReadBook \/ ReadPrice \/ Process
  \/ ReadCount \/ Send \/ Receipt \/ Restart \/ Mine
=============================================================================

--------------------------- MODULE VaultClient ---------------------------
(***************************************************************************)
(* packages/settlement/src/vault-client.ts: validation of a signed trade   *)
(* in three reads of the vault, then submission with retries, against a    *)
(* chain that answers late, loses answers and changes in between.          *)
(*                                                                         *)
(* A job is one entry of the queue of TradeQueue.tla; two jobs may carry   *)
(* the same signed trade, that is the same key (signer and nonce).         *)
(* The chain is external: it takes the transactions of the submitter's     *)
(* account in the order of their account nonces, each settles or reverts.  *)
(*                                                                         *)
(* The steps of a job leave pc open: TradeQueue.tla moves the job on and,  *)
(* where it ends, the queue with it.                                       *)
(***************************************************************************)
EXTENDS Integers, Sequences

CONSTANTS Jobs, Keys,
          KeyOf,       \* job -> the key its trade carries
          MaxRetries,  \* config.maxRetries
          MaxEvents,   \* bound: what others do to the trades and the vault
          Other        \* who settles a trade, if not one of the jobs

ASSUME ClientAssumption ==
  /\ KeyOf \in [Jobs -> Keys]
  /\ MaxRetries \in Nat \ {0}
  /\ MaxEvents \in Nat
  /\ Other \notin Jobs

VARIABLES
  pc,          \* job -> where it is
  attempt,     \* job -> the loop counter of submitTrade
  expired,     \* keys whose deadline has passed
  teeActive,   \* the signer's registration
  pairOpen,    \* the pair is active and takes trades of this size
  usedNonces,  \* keys marked used by the vault
  mempool,     \* the submitter's transactions not mined yet
  receipts,    \* job -> what became of the transaction it waits for
  trades,      \* the TradeExecuted events of the vault, in order
  events       \* how often others have interfered

limitVars == <<expired, teeActive, pairOpen, events>>
chainVars == <<limitVars, usedNonces, mempool, receipts, trades>>

Txs == [job : Jobs, attempt : 1..MaxRetries]
Tx(j) == [job |-> j, attempt |-> attempt[j]]

InFlight == {"expired", "readNonce", "readTEE", "readPair", "send", "wait", "sleep"}
Failed == {"reverted", "gaveUp"}
Outcomes == {"submitted", "skipped"} \cup Failed
Points == {"unread", "dropped", "queued", "lost"} \cup InFlight \cup Outcomes

ClientTypeOK ==
  /\ pc \in [Jobs -> Points]
  /\ attempt \in [Jobs -> 0..MaxRetries]
  /\ expired \subseteq Keys
  /\ teeActive \in BOOLEAN
  /\ pairOpen \in BOOLEAN
  /\ usedNonces \subseteq Keys
  /\ mempool \in Seq(Txs)
  /\ receipts \in [Jobs -> {"none", "settled", "reverted"}]
  /\ trades \in Seq([key : Keys, by : Jobs \cup {Other}])
  /\ events \in 0..MaxEvents

ClientInit ==
  /\ pc = [j \in Jobs |-> "unread"]
  /\ attempt = [j \in Jobs |-> 0]
  /\ expired = {}
  /\ teeActive = TRUE
  /\ pairOpen = TRUE
  /\ usedNonces = {}
  /\ mempool = <<>>
  /\ receipts = [j \in Jobs |-> "none"]
  /\ trades = <<>>
  /\ events = 0

-----------------------------------------------------------------------------
(* validateTrade: the deadline by the local clock, then one read per await. *)

Validating == {"expired", "readNonce", "readTEE", "readPair"}

Begin(j) == IF KeyOf[j] \in expired THEN "expired" ELSE "readNonce"

AfterRead(j) ==
  CASE pc[j] = "expired" -> "skipped"
    [] pc[j] = "readNonce" -> IF KeyOf[j] \in usedNonces THEN "skipped" ELSE "readTEE"
    [] pc[j] = "readTEE" -> IF teeActive THEN "readPair" ELSE "skipped"
    [] pc[j] = "readPair" -> IF pairOpen THEN "send" ELSE "skipped"

(* A valid trade goes on to the first attempt of submitTrade.              *)
Validate(j) ==
  /\ pc[j] \in Validating
  /\ attempt' = [attempt EXCEPT ![j] = IF AfterRead(j) = "send" THEN 1 ELSE @]
  /\ UNCHANGED chainVars

-----------------------------------------------------------------------------
(* submitTrade.  An error that is no revert leads to another attempt.      *)

(* Mutant of AfterError: another attempt begins with validateTrade.        *)
AfterErrorValidating(j) == IF attempt[j] < MaxRetries THEN "readNonce" ELSE "gaveUp"

AfterError(j) == IF attempt[j] < MaxRetries THEN "sleep" ELSE "gaveUp"

Broadcast(j) == mempool' = Append(mempool, Tx(j))

Send(j) ==
  /\ pc[j] = "send"
  /\ Broadcast(j)
  /\ UNCHANGED <<attempt, limitVars, usedNonces, receipts, trades>>

(* The request fails, or the transaction went out and the answer was lost. *)
SendFails(j) ==
  /\ pc[j] = "send"
  /\ Broadcast(j) \/ UNCHANGED mempool
  /\ UNCHANGED <<attempt, limitVars, usedNonces, receipts, trades>>

(* tx.wait returns the receipt, or throws CALL_EXCEPTION for a reverted one. *)
WaitReturns(j) ==
  /\ pc[j] = "wait"
  /\ receipts[j] # "none"
  /\ receipts' = [receipts EXCEPT ![j] = "none"]
  /\ UNCHANGED <<attempt, limitVars, usedNonces, mempool, trades>>

(* Mutant of AfterReceipt: the status of the receipt is not looked at.     *)
AfterReceiptUnchecked(j) == "submitted"

AfterReceipt(j) == IF receipts[j] = "settled" THEN "submitted" ELSE "reverted"

(* tx.wait fails for a reason of the connection, mined or not.  Nobody     *)
(* asks for the receipt again.                                             *)
WaitFails(j) ==
  /\ pc[j] = "wait"
  /\ receipts' = [receipts EXCEPT ![j] = "none"]
  /\ UNCHANGED <<attempt, limitVars, usedNonces, mempool, trades>>

(* Mutant of Wake: the loop counter does not advance.                      *)
WakeUncounted(j) ==
  /\ pc[j] = "sleep"
  /\ UNCHANGED <<attempt, chainVars>>

Wake(j) ==
  /\ pc[j] = "sleep"
  /\ attempt' = [attempt EXCEPT ![j] = @ + 1]
  /\ UNCHANGED chainVars

-----------------------------------------------------------------------------
(* The chain.  executeTrade checks again what validateTrade has read, and  *)
(* more that it has not: the daily cap, and that a DEX fills the trade.    *)

Executable(k) == k \notin usedNonces /\ k \notin expired /\ teeActive /\ pairOpen

Settle(k, by) ==
  /\ Executable(k)
  /\ usedNonces' = usedNonces \cup {k}
  /\ trades' = Append(trades, [key |-> k, by |-> by])

Receive(tx, status) ==
  receipts' = IF pc[tx.job] = "wait" /\ tx = Tx(tx.job)
              THEN [receipts EXCEPT ![tx.job] = status] ELSE receipts

Mine ==
  /\ mempool # <<>>
  /\ mempool' = Tail(mempool)
  /\ LET tx == Head(mempool) IN
     \/ /\ Settle(KeyOf[tx.job], tx.job)
        /\ Receive(tx, "settled")
     \/ /\ Receive(tx, "reverted")
        /\ UNCHANGED <<usedNonces, trades>>
  /\ UNCHANGED <<limitVars, attempt, pc>>

(* Somebody else holds the same signed trade: runner.py submits its own.   *)
OtherSettles(k) ==
  /\ Settle(k, Other)
  /\ UNCHANGED <<expired, teeActive, pairOpen, mempool, receipts>>

OwnerOrClock ==
  /\ \/ teeActive' = ~teeActive /\ UNCHANGED <<expired, pairOpen>>
     \/ pairOpen' = ~pairOpen /\ UNCHANGED <<expired, teeActive>>
     \/ \E k \in Keys \ expired : expired' = expired \cup {k} /\ UNCHANGED <<teeActive, pairOpen>>
  /\ UNCHANGED <<usedNonces, mempool, receipts, trades>>

Interfere ==
  /\ events < MaxEvents
  /\ events' = events + 1
  /\ OwnerOrClock \/ \E k \in Keys : OtherSettles(k)
  /\ UNCHANGED <<attempt, pc>>

ChainStep == Mine \/ Interfere
=============================================================================

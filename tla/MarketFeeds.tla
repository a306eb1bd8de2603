---------------------------- MODULE MarketFeeds ----------------------------
(***************************************************************************)
(* packages/storage-client/src/connectors: BinanceConnector (binance.ts),  *)
(* a web socket that reconnects, and DEXEventConnector (dex.ts), a         *)
(* subscription to the swaps of each pool.                                 *)
(*                                                                         *)
(* Sockets are counted by their state; the one that `ws` refers to is told *)
(* apart because disconnect closes it.                                     *)
(***************************************************************************)
EXTENDS Integers, FiniteSets

CONSTANTS Pools,        \* addresses of pools
          MaxConnects   \* bound: calls of connect

ASSUME FeedAssumption == MaxConnects \in Nat

VARIABLES
  connects,    \* how often the user of the connector has called connect
  ws,          \* "null", "open" or "closed": the socket `ws` refers to
  others,      \* sockets that `ws` no longer refers to and that are not closed
  timers,      \* reconnections waiting for their timer
  listeners,   \* the pools in the map of listeners
  listened,    \* pool -> how often listenToPool has been called for it
  live         \* pool -> its subscriptions that deliver

binanceVars == <<connects, ws, others, timers>>
poolVars == <<listeners, listened, live>>
feedVars == <<binanceVars, poolVars>>

FeedsInit ==
  /\ connects = 0 /\ ws = "null" /\ others = 0 /\ timers = 0
  /\ listeners = {}
  /\ listened = [p \in Pools |-> 0]
  /\ live = [p \in Pools |-> 0]

-----------------------------------------------------------------------------
(* BinanceConnector *)

(* A new socket takes the place of the one `ws` referred to, which keeps   *)
(* its handlers.                                                           *)
Reconnected ==
  /\ ws' = "open"
  /\ others' = IF ws = "open" THEN others + 1 ELSE others

Connect ==
  /\ connects < MaxConnects
  /\ connects' = connects + 1
  /\ Reconnected
  /\ UNCHANGED <<timers, poolVars>>

(* The closing handshake takes its time; until then messages still come.   *)
Disconnect ==
  /\ ws # "null"
  /\ ws' = "null"
  /\ others' = IF ws = "open" THEN others + 1 ELSE others
  /\ UNCHANGED <<connects, timers, poolVars>>

(* Mutant of TimersAfterClose: an error is followed by a close, and both   *)
(* handlers reconnect.                                                     *)
TimersAfterCloseTwice == timers + 2

(* The close handler sets a timer, whoever closed the socket.              *)
TimersAfterClose == timers + 1

SocketCloses ==
  /\ \/ ws = "open" /\ ws' = "closed" /\ UNCHANGED others
     \/ others > 0 /\ others' = others - 1 /\ UNCHANGED ws
  /\ timers' = TimersAfterClose
  /\ UNCHANGED <<connects, poolVars>>

ReconnectTimer ==
  /\ timers > 0
  /\ timers' = timers - 1
  /\ Reconnected
  /\ UNCHANGED <<connects, poolVars>>

Connected == ws = "open" \/ others > 0

-----------------------------------------------------------------------------
(* DEXEventConnector *)

(* The map keeps the last contract of a pool only.                         *)
ListenToPool(p) ==
  /\ listeners' = listeners \cup {p}
  /\ listened' = [listened EXCEPT ![p] = @ + 1]
  /\ live' = [live EXCEPT ![p] = @ + 1]
  /\ UNCHANGED binanceVars

(* Mutant of StopAll: the map is cleared before it is gone through.        *)
StopAllCleared ==
  /\ listeners' = {}
  /\ UNCHANGED <<listened, live, binanceVars>>

(* Mutant of StopAll: what was dropped before is dropped again.            *)
StopAllAgain ==
  /\ live' = [p \in Pools |-> IF listened[p] > 0 THEN live[p] - 1 ELSE live[p]]
  /\ listeners' = {}
  /\ UNCHANGED <<listened, binanceVars>>

(* Each contract in the map drops its own listeners.                       *)
StopAll ==
  /\ live' = [p \in Pools |-> IF p \in listeners THEN live[p] - 1 ELSE live[p]]
  /\ listeners' = {}
  /\ UNCHANGED <<listened, binanceVars>>

Delivers(p) == live[p] > 0
=============================================================================

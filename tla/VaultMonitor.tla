--------------------------- MODULE VaultMonitor ---------------------------
(***************************************************************************)
(* packages/settlement/src/monitor.ts: the history of the vault's trades,  *)
(* and the start and end of the service around it (service.ts).            *)
(*                                                                         *)
(* A subscription delivers what is mined after it has taken effect, in     *)
(* order and once.                                                         *)
(***************************************************************************)
EXTENDS Integers, Sequences, VaultLog

VARIABLES
  service,     \* "querying" (queryFilter is awaited), "listening" (vault.on has
               \* been called), "exited"
  subscribed,  \* the subscription has taken effect
  since,       \* how many events had been mined by then
  delivered,   \* how many of the later ones have been delivered
  history      \* the monitor's history

monitorVars == <<service, subscribed, since, delivered, history>>

MonitorTypeOK ==
  /\ service \in {"querying", "listening", "exited"}
  /\ subscribed \in BOOLEAN
  /\ since \in 0..Len(log)
  /\ delivered \in 0..(Len(log) - since)
  /\ Len(history) <= Len(log)

MonitorInit ==
  /\ service = "querying"
  /\ subscribed = FALSE /\ since = 0 /\ delivered = 0
  /\ history = <<>>

(* start: the past events are pushed and the listener is registered.       *)
Replay ==
  /\ service = "querying"
  /\ service' = "listening"
  /\ history' = log
  /\ UNCHANGED <<log, subscribed, since, delivered>>

(* Mutant of Listening: the listener is registered before the query.       *)
ListeningEarly == service # "exited"

Listening == service = "listening"

(* vault.on is not awaited: the provider begins to poll some time later.   *)
Subscribe ==
  /\ Listening
  /\ ~subscribed
  /\ subscribed' = TRUE
  /\ since' = Len(log)
  /\ UNCHANGED <<log, service, delivered, history>>

(* Mutant of Deliver: the listener is registered with `once`.              *)
DeliverOnce ==
  /\ Listening /\ subscribed
  /\ delivered = 0 /\ since < Len(log)
  /\ delivered' = 1
  /\ history' = Append(history, log[since + 1])
  /\ UNCHANGED <<log, service, subscribed, since>>

(* The listener pushes the next event.                                     *)
Deliver ==
  /\ Listening /\ subscribed
  /\ since + delivered < Len(log)
  /\ delivered' = delivered + 1
  /\ history' = Append(history, log[since + delivered + 1])
  /\ UNCHANGED <<log, service, subscribed, since>>

(* A request of the start-up fails, or the service is told to end: stop    *)
(* removes the listener and the process exits.                             *)
Exit ==
  /\ service # "exited"
  /\ service' = "exited"
  /\ UNCHANGED <<log, subscribed, since, delivered, history>>

MonitorStep == Replay \/ Subscribe \/ Deliver \/ Exit

-----------------------------------------------------------------------------
(* The history is the vault's log, in order and without repetitions, with  *)
(* at most one gap: what was mined between the query of the past events    *)
(* and the subscription (monitor.ts, start).                               *)
MissesOnlyStartUp ==
  \E queried \in 0..Len(log) :
    /\ queried <= since \/ delivered = 0
    /\ history = SubSeq(log, 1, queried) \o SubSeq(log, since + 1, since + delivered)
=============================================================================

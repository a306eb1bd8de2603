--------------------------- MODULE VaultFigures ---------------------------
(***************************************************************************)
(* packages/dashboard/src/app/page.tsx, refresh and its interval, with the *)
(* reads of lib/vault.ts: the figures of the vault the page shows.         *)
(* Refreshes are asynchronous and may overlap.                             *)
(*                                                                         *)
(* The vault's trades only grow, so that their number stands for the list. *)
(***************************************************************************)
EXTENDS Integers, FiniteSets

CONSTANTS Slots,       \* bound: refreshes under way at a time
          MaxTrades,   \* bound: trades of the vault
          MaxOutages,  \* bound: changes of the RPC node's state
          Unread       \* a value not read yet

ASSUME FiguresAssumption ==
  /\ MaxTrades \in Nat /\ MaxOutages \in Nat
  /\ Unread \notin Nat

VARIABLES
  trades,    \* trades the vault has settled
  rpcUp,     \* the RPC node answers
  outages,   \* changes of rpcUp so far
  refresh,   \* slot -> [step, stats, history]
  page       \* [stats, history, error]: totalTrades and trades as set, an error shown

figureVars == <<trades, rpcUp, outages, refresh, page>>

Readable == 0..MaxTrades \cup {Unread}

FiguresTypeOK ==
  /\ trades \in 0..MaxTrades /\ rpcUp \in BOOLEAN /\ outages \in 0..MaxOutages
  /\ refresh \in [Slots -> [step : {"ended", "figures", "tee"}, stats : Readable, history : Readable]]
  /\ page \in [stats : Readable, history : Readable, error : BOOLEAN]

Ended == [step |-> "ended", stats |-> Unread, history |-> Unread]

FiguresInit ==
  /\ trades = 0 /\ rpcUp \in BOOLEAN /\ outages = 0
  /\ refresh = [s \in Slots |-> Ended]
  /\ page = [stats |-> Unread, history |-> Unread, error |-> FALSE]

(* By the effect of the mount, the interval or the Refresh button.         *)
Refresh(s) ==
  /\ refresh[s].step = "ended"
  /\ refresh' = [refresh EXCEPT ![s].step = "figures"]
  /\ UNCHANGED <<trades, rpcUp, outages, page>>

(* Mutant of Shown: an error stays until the page is loaded again.         *)
ShownWithError(r) == [stats |-> r.stats, history |-> r.history, error |-> page.error]

(* setStats, setTrades and setError(null).                                 *)
Shown(r) == [stats |-> r.stats, history |-> r.history, error |-> FALSE]

(* Promise.all waits for both; the attestation is read afterwards.         *)
Reads(s, r) ==
  LET both == r.stats # Unread /\ r.history # Unread IN
  /\ refresh' = [refresh EXCEPT ![s] = IF both THEN [Ended EXCEPT !.step = "tee"] ELSE r]
  /\ page' = IF both THEN Shown(r) ELSE page
  /\ UNCHANGED <<trades, rpcUp, outages>>

ReadStats(s) ==
  /\ refresh[s].step = "figures" /\ refresh[s].stats = Unread /\ rpcUp
  /\ Reads(s, [refresh[s] EXCEPT !.stats = trades])

ReadHistory(s) ==
  /\ refresh[s].step = "figures" /\ refresh[s].history = Unread /\ rpcUp
  /\ Reads(s, [refresh[s] EXCEPT !.history = trades])

ReadTEE(s) ==
  /\ refresh[s].step = "tee" /\ rpcUp
  /\ refresh' = [refresh EXCEPT ![s] = Ended]
  /\ UNCHANGED <<trades, rpcUp, outages, page>>

(* One of the reads is rejected.                                           *)
RefreshFails(s) ==
  /\ refresh[s].step # "ended" /\ ~rpcUp
  /\ refresh' = [refresh EXCEPT ![s] = Ended]
  /\ page' = [page EXCEPT !.error = TRUE]
  /\ UNCHANGED <<trades, rpcUp, outages>>

Answer(s) == ReadStats(s) \/ ReadHistory(s) \/ ReadTEE(s) \/ RefreshFails(s)

TradeSettles ==
  /\ trades < MaxTrades
  /\ trades' = trades + 1
  /\ UNCHANGED <<rpcUp, outages, refresh, page>>

RpcChanges ==
  /\ outages < MaxOutages
  /\ outages' = outages + 1
  /\ rpcUp' = ~rpcUp
  /\ UNCHANGED <<trades, refresh, page>>

FiguresStep == TradeSettles \/ RpcChanges \/ \E s \in Slots : Refresh(s) \/ Answer(s)

(* The interval keeps on, and every request ends: it has a timeout.        *)
FiguresFairness ==
  /\ WF_figureVars(\E s \in Slots : Refresh(s))
  /\ \A s \in Slots : WF_figureVars(Answer(s))

=============================================================================

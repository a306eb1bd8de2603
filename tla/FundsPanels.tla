---------------------------- MODULE FundsPanels ----------------------------
(***************************************************************************)
(* packages/dashboard/src/components: InvestPanel, WithdrawPanel and       *)
(* PortfolioPanel, of which the page mounts the one of the active tab.     *)
(* Handlers and loads are asynchronous; those of a panel that is gone      *)
(* change nothing any more.                                                *)
(*                                                                         *)
(* Amount, balances, allowance and owner meet in the `gate`: which button  *)
(* they enable.  What a load reads is arbitrary.                           *)
(***************************************************************************)
EXTENDS UseWallet

CONSTANTS Typed, Invalid,  \* destinations the user types: an address, something else
          MaxHandlers,     \* bound: transactions begun
          MaxMounts        \* bound: panels mounted

ASSUME PanelAssumption ==
  /\ {Typed, Invalid} \cap (Accounts \cup {None}) = {}
  /\ MaxHandlers \in Nat /\ MaxMounts \in Nat

VARIABLES
  tab,          \* activeTab
  mounts,       \* panels mounted so far
  form,         \* the mounted panel: [gate, status, destination]
  loads,        \* effects have loadBalances or loadHoldings under way
  loading,      \* PortfolioPanel: loading
  handlers,     \* handlers under way: [id, kind, step, to, disturbed]
  started,      \* transactions begun so far
  seen          \* accounts shown since the panel was mounted

panelVars == <<tab, mounts, form, loads, loading, handlers, started, seen>>

Tabs == {"overview", "portfolio", "invest", "withdraw"}
Destinations == Accounts \cup {None, Typed, Invalid}

(* No amount, neither button, Approve, or Deposit or Withdraw.             *)
Gates == {"empty", "blocked", "approve", "send"}

PanelTypeOK ==
  /\ tab \in Tabs /\ mounts \in 0..MaxMounts
  /\ form.gate \in Gates
  /\ form.status \in {"idle", "approving", "pending", "confirmed", "error"}
  /\ form.destination \in Destinations
  /\ loads \in BOOLEAN /\ loading \in BOOLEAN /\ seen \subseteq Accounts
  /\ started \in 0..MaxHandlers
  /\ \A h \in handlers :
       /\ h.id \in 1..started /\ h.kind \in {"approve", "deposit", "withdraw"}
       /\ h.step \in {"signing", "mining", "loading"}
       /\ h.to \in Destinations

EmptyForm == [gate |-> "empty", status |-> "idle", destination |-> None]

PanelInit ==
  /\ tab = "overview" /\ mounts = 0 /\ form = EmptyForm
  /\ loads = FALSE /\ loading = FALSE
  /\ handlers = {} /\ started = 0 /\ seen = {}

-----------------------------------------------------------------------------
(* Effects *)

(* Mutant of Defaulted: the wallet is asked for its account instead.       *)
DefaultedByWallet(f, t, a) ==
  IF t = "withdraw" /\ f.destination = None THEN [f EXCEPT !.destination = account] ELSE f

(* WithdrawPanel: an empty destination is filled with the account shown.   *)
Defaulted(f, t, a) ==
  IF t = "withdraw" /\ f.destination = None THEN [f EXCEPT !.destination = a] ELSE f

AccountsOf(a) == {a} \ {None}

(* The panel of tab t loads when it is mounted or the provider changes.    *)
LoadsOn(t, a) == t # "overview" /\ a # None

SwitchTab(t) ==
  /\ t # tab /\ mounts < MaxMounts
  /\ mounts' = mounts + 1
  /\ tab' = t
  /\ form' = Defaulted(EmptyForm, t, shown.account)
  /\ loads' = LoadsOn(t, shown.account)
  /\ loading' = (t = "portfolio" /\ LoadsOn(t, shown.account))
  /\ handlers' = {} /\ seen' = AccountsOf(shown.account)
  /\ UNCHANGED <<started, walletVars>>

Disturbed == {[h EXCEPT !.disturbed = TRUE] : h \in handlers}

(* A new provider, or none: the panel loads again for the account shown.   *)
NewProvider ==
  /\ WalletReplaced
  /\ form' = Defaulted(form, tab, shown'.account)
  /\ loads' = (loads \/ LoadsOn(tab, shown'.account))
  /\ loading' = (loading \/ (tab = "portfolio" /\ LoadsOn(tab, shown'.account)))
  /\ seen' = seen \cup AccountsOf(shown'.account)
  /\ UNCHANGED <<tab, mounts, handlers, started>>

(* The gates an amount may meet.                                           *)
GatesOfAmount == IF tab = "withdraw" THEN {"blocked", "send"} ELSE Gates \ {"empty"}

(* What loadBalances may leave; it ignores what fails.                     *)
Loaded ==
  IF form.gate = "empty" THEN {form} ELSE {[form EXCEPT !.gate = g] : g \in GatesOfAmount}

(* The load of an effect ends, for loadHoldings failed or not.  Another    *)
(* one may still be under way.                                             *)
LoadEnds ==
  /\ loads /\ loads' \in BOOLEAN
  /\ IF tab = "portfolio" THEN loading' = FALSE /\ UNCHANGED <<form, handlers>>
     ELSE form' \in Loaded /\ handlers' = Disturbed /\ UNCHANGED loading
  /\ UNCHANGED <<tab, mounts, started, seen, walletVars>>

(* The button of PortfolioPanel.                                           *)
RefreshHoldings ==
  /\ tab = "portfolio" /\ shown.account # None
  /\ loads' = TRUE /\ loading' = TRUE
  /\ UNCHANGED <<tab, mounts, form, handlers, started, seen, walletVars>>

-----------------------------------------------------------------------------
(* Inputs, shown while an account is.                                      *)

FormShown == tab \in {"invest", "withdraw"} /\ shown.account # None

Edited(gate) ==
  /\ form' = [form EXCEPT !.gate = gate, !.status = "idle"]
  /\ handlers' = Disturbed
  /\ UNCHANGED <<tab, mounts, loading, started, seen, walletVars>>

EditAmount ==
  /\ FormShown
  /\ \E g \in GatesOfAmount \cup {"empty"} : Edited(g)
  /\ UNCHANGED loads

(* Another token: its balances are loaded.                                 *)
SelectToken == FormShown /\ Edited("empty") /\ loads' = TRUE

(* The amount of the balance last loaded; the status stays.                *)
Max ==
  /\ FormShown
  /\ \E g \in GatesOfAmount \cup {"empty"} : form' = [form EXCEPT !.gate = g]
  /\ handlers' = Disturbed
  /\ UNCHANGED <<tab, mounts, loads, loading, started, seen, walletVars>>

EditDestination(d) ==
  /\ FormShown /\ tab = "withdraw"
  /\ form' = [form EXCEPT !.destination = IF d = None THEN shown.account ELSE d]
  /\ UNCHANGED <<tab, mounts, loads, loading, handlers, started, seen, walletVars>>

Dismiss ==
  /\ FormShown /\ form.status \in {"confirmed", "error"}
  /\ form' = [form EXCEPT !.status = "idle"]
  /\ UNCHANGED <<tab, mounts, loads, loading, handlers, started, seen, walletVars>>

-----------------------------------------------------------------------------
(* Handlers *)

ApproveEnabled == form.gate = "approve" /\ form.status \notin {"approving", "pending"}

(* Mutant of SendEnabled: the button looks at the form only.               *)
SendEnabledAlways == form.gate = "send"

(* The Deposit or the Withdraw button.                                     *)
SendEnabled == form.gate = "send" /\ form.status # "pending"

Handler(kind) ==
  [id |-> started + 1, kind |-> kind, step |-> "signing",
   to |-> IF kind = "withdraw" THEN form.destination ELSE None, disturbed |-> FALSE]

BeginHandler(kind, status) ==
  /\ started < MaxHandlers
  /\ started' = started + 1
  /\ handlers' = handlers \cup {Handler(kind)}
  /\ form' = [form EXCEPT !.status = status]
  /\ UNCHANGED <<tab, mounts, loads, loading, seen, walletVars>>

HandleApprove == FormShown /\ ApproveEnabled /\ BeginHandler("approve", "approving")

HandleDeposit == FormShown /\ tab = "invest" /\ SendEnabled /\ BeginHandler("deposit", "pending")

HandleWithdraw ==
  /\ FormShown /\ tab = "withdraw" /\ SendEnabled
  /\ IF form.destination # Invalid THEN BeginHandler("withdraw", "pending")
     ELSE /\ form' = [form EXCEPT !.status = "error"]
          /\ UNCHANGED <<tab, mounts, loads, loading, handlers, started, seen, walletVars>>

(* Once the transaction is sent, its destination matters no more.          *)
HandlerTo(h, step) ==
  handlers' = (handlers \ {h}) \cup {[h EXCEPT !.step = step, !.to = None]}

(* The wallet has signed and sent the transaction.                         *)
Sent(h) ==
  /\ h.step = "signing"
  /\ HandlerTo(h, "mining")
  /\ form' = [form EXCEPT !.status = "pending"]
  /\ UNCHANGED <<tab, mounts, loads, loading, started, seen, walletVars>>

(* tx.wait returns: the amount is cleared and loadBalances awaited.        *)
WaitReturns(h) ==
  /\ h.step = "mining"
  /\ HandlerTo(h, "loading")
  /\ form' = IF h.kind = "approve" THEN form ELSE [form EXCEPT !.gate = "empty"]
  /\ UNCHANGED <<tab, mounts, loads, loading, started, seen, walletVars>>

HandlerGone(h) == handlers' = {[g EXCEPT !.disturbed = TRUE] : g \in handlers \ {h}}

HandlerEnds(h) ==
  /\ h.step = "loading"
  /\ HandlerGone(h)
  /\ \E f \in Loaded :
       form' = [f EXCEPT !.status = IF h.kind = "approve" THEN "idle" ELSE "confirmed"]
  /\ UNCHANGED <<tab, mounts, loads, loading, started, seen, walletVars>>

(* Mutant of StatusAfterError: a rejected signature counts as a dismissal. *)
StatusAfterErrorKept(h) == IF h.step = "signing" THEN form.status ELSE "error"

(* Mutant of StatusAfterError: a status of its own that no part shows.     *)
StatusAfterErrorRejected(h) == IF h.step = "signing" THEN "rejected" ELSE "error"

StatusAfterError(h) == "error"

(* The signature is rejected, the transaction reverts or the wait fails.   *)
HandlerFails(h) ==
  /\ h.step \in {"signing", "mining"}
  /\ HandlerGone(h)
  /\ form' = [form EXCEPT !.status = StatusAfterError(h)]
  /\ UNCHANGED <<tab, mounts, loads, loading, started, seen, walletVars>>

PanelStep ==
  \/ NewProvider
  \/ QuietWalletStep /\ UNCHANGED panelVars
  \/ \E t \in Tabs : SwitchTab(t)
  \/ LoadEnds
  \/ RefreshHoldings \/ EditAmount \/ SelectToken \/ Max \/ Dismiss
  \/ \E d \in {None, Typed, Invalid} : EditDestination(d)
  \/ HandleApprove \/ HandleDeposit \/ HandleWithdraw
  \/ \E h \in handlers : Sent(h) \/ WaitReturns(h) \/ HandlerEnds(h) \/ HandlerFails(h)

-----------------------------------------------------------------------------
(* What looks busy is under way: a spinner ends when its work does, whoever*)
(* else has changed the form meanwhile (useWallet.ts, InvestPanel.tsx,     *)
(* WithdrawPanel.tsx, PortfolioPanel.tsx).                                 *)
BusyMeansInFlight ==
  /\ shown.connecting => connects # {}
  /\ form.status \in {"approving", "pending"} => handlers # {}
  /\ loading => loads

(* A form has two transactions in flight only after something else has     *)
(* touched it since the first began: an edit, which sets the status back   *)
(* to idle, the MAX button, a load of balances, or the end of another one  *)
(* (InvestPanel.tsx, WithdrawPanel.tsx, the buttons' `disabled`).          *)
OneTransactionAtATime ==
  \A g, h \in handlers : g.id < h.id => g.disturbed

(* A withdrawal goes to an address typed in or to an account that has been *)
(* shown since the panel was mounted, though not always to the one shown   *)
(* now: the default stays when the wallet changes (WithdrawPanel.tsx).     *)
DestinationKnown ==
  \A h \in handlers :
    h.kind = "withdraw" /\ h.step = "signing" => h.to = Typed \/ h.to \in seen
=============================================================================

----------------------------- MODULE UseWallet -----------------------------
(***************************************************************************)
(* packages/dashboard/src/hooks/useWallet.ts: what the page shows of the   *)
(* browser's wallet.  connect awaits the wallet several times, is begun by *)
(* a button and by the wallet's events, and may overlap with itself.       *)
(*                                                                         *)
(* The wallet is external; a change of it and the event that reports the   *)
(* change are one step.  A page without a wallet does nothing.             *)
(***************************************************************************)
EXTENDS Integers, FiniteSets

CONSTANTS Accounts, Chains, None,
          MaxConnects  \* bound: connects begun

ASSUME WalletAssumption ==
  /\ None \notin Accounts \cup Chains
  /\ MaxConnects \in Nat

VARIABLES
  account,   \* the wallet's: the account the page is authorised for, or None
  chain,     \* the wallet's network
  checked,   \* the effect of the mount has looked for an authorised account
  begun,     \* connects begun so far
  connects,  \* those under way: [id, step, account, late]
  shown,     \* state: [account, chain, connecting, error]
  raced      \* the account shown was written by a late connect

walletVars == <<account, chain, checked, begun, connects, shown, raced>>

Connect == [id : 1..MaxConnects, step : {"requesting", "network"},
            account : Accounts \cup {None}, late : BOOLEAN]

WalletTypeOK ==
  /\ account \in Accounts \cup {None} /\ chain \in Chains
  /\ checked \in BOOLEAN /\ raced \in BOOLEAN
  /\ begun \in 0..MaxConnects
  /\ connects \subseteq Connect
  /\ shown \in [account : Accounts \cup {None}, chain : Chains \cup {None},
                connecting : BOOLEAN, error : BOOLEAN]

InitialState == [account |-> None, chain |-> None, connecting |-> FALSE, error |-> FALSE]

WalletInit ==
  /\ account \in Accounts \cup {None} /\ chain \in Chains
  /\ checked = FALSE /\ begun = 0 /\ connects = {}
  /\ shown = InitialState /\ raced = FALSE

-----------------------------------------------------------------------------
(* connect up to its first await, and disconnect.                          *)

Begin ==
  /\ begun < MaxConnects
  /\ begun' = begun + 1
  /\ connects' = connects \cup
       {[id |-> begun + 1, step |-> "requesting", account |-> None, late |-> FALSE]}
  /\ shown' = [shown EXCEPT !.connecting = TRUE, !.error = FALSE]
  /\ UNCHANGED raced

(* What is under way is late from now on.                                  *)
Disconnect ==
  /\ shown' = InitialState
  /\ connects' = {[c EXCEPT !.late = TRUE] : c \in connects}
  /\ raced' = FALSE
  /\ UNCHANGED begun

(* The effect of the mount.                                                *)
LookForAccount ==
  /\ ~checked
  /\ checked' = TRUE
  /\ IF account # None THEN Begin ELSE UNCHANGED <<begun, connects, shown, raced>>
  /\ UNCHANGED <<account, chain>>

ClickConnect ==
  /\ shown.account = None /\ ~shown.connecting
  /\ Begin
  /\ UNCHANGED <<account, chain, checked>>

ClickDisconnect ==
  /\ shown.account # None
  /\ Disconnect
  /\ UNCHANGED <<account, chain, checked>>

(* onAccountsChanged: the user authorises, switches or revokes accounts.   *)
AccountsChanged(a) ==
  /\ a # account
  /\ account' = a
  /\ IF a = None THEN Disconnect ELSE Begin
  /\ UNCHANGED <<chain, checked>>

(* Mutant of ChainChanged: the event is not listened to.                   *)
ChainChangedUnheard(n) ==
  /\ n # chain
  /\ chain' = n
  /\ UNCHANGED <<account, checked, begun, connects, shown, raced>>

(* onChainChanged                                                          *)
ChainChanged(n) ==
  /\ n # chain
  /\ chain' = n
  /\ Begin
  /\ UNCHANGED <<account, checked>>

-----------------------------------------------------------------------------
(* connect after its awaits.                                               *)

(* Connects begun before one that ends are late.                           *)
OthersThan(c) ==
  {IF d.id < c.id THEN [d EXCEPT !.late = TRUE] ELSE d : d \in connects \ {c}}

(* The request is granted and getSigner has read the account.              *)
AccountRead(c) ==
  /\ c.step = "requesting" /\ account # None
  /\ connects' = (connects \ {c}) \cup {[c EXCEPT !.step = "network", !.account = account]}
  /\ UNCHANGED <<account, chain, checked, begun, shown, raced>>

(* getNetwork has read the chain.                                          *)
Connected(c) ==
  /\ c.step = "network"
  /\ connects' = OthersThan(c)
  /\ shown' = [account |-> c.account, chain |-> chain, connecting |-> FALSE, error |-> FALSE]
  /\ raced' = c.late
  /\ UNCHANGED <<account, chain, checked, begun>>

(* The user rejects the request, or the wallet fails.                      *)
ConnectFails(c) ==
  /\ connects' = OthersThan(c)
  /\ shown' = [shown EXCEPT !.connecting = FALSE, !.error = TRUE]
  /\ UNCHANGED <<account, chain, checked, begun, raced>>

(* Steps that leave the account shown as it is.                            *)
QuietWalletStep ==
  \/ LookForAccount \/ ClickConnect
  \/ \E a \in Accounts : AccountsChanged(a)
  \/ \E n \in Chains : ChainChanged(n)
  \/ \E c \in connects : AccountRead(c) \/ ConnectFails(c)

(* Steps after which the page has a new provider, or none.                 *)
WalletReplaced == ClickDisconnect \/ AccountsChanged(None) \/ \E c \in connects : Connected(c)

-----------------------------------------------------------------------------
(* With nothing under way and no error, the account and the network shown  *)
(* are the wallet's, whatever connects overlapped, unless one wrote its    *)
(* account late: after a connect begun later had ended, or after a         *)
(* disconnect (useWallet.ts, connect).                                     *)
ShownIsTheWallets ==
  connects = {} /\ ~raced /\ ~shown.error /\ shown.account # None
    => shown.account = account /\ shown.chain = chain
=============================================================================

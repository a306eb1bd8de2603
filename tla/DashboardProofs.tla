-------------------------- MODULE DashboardProofs --------------------------
(***************************************************************************)
(* Proofs about Dashboard.tla: what the page shows of the wallet, that no  *)
(* spinner outlives its work, one transaction at a time and where          *)
(* withdrawals go, for any accounts, networks, connects and transactions.  *)
(***************************************************************************)
EXTENDS Dashboard, TLAPS

USE WalletAssumption, PanelAssumption, FiguresAssumption

-----------------------------------------------------------------------------
(* The wallet. *)

(* A connect that is not late has the wallet's account, or another one,    *)
(* begun after the change, will write it.                                  *)
ReadsAreFresh ==
  \A c \in connects :
    c.step = "network" /\ ~c.late =>
      c.account = account \/ \E d \in connects : d.id > c.id

WalletInv ==
  /\ WalletTypeOK
  /\ \A c \in connects : c.id <= begun
  /\ ReadsAreFresh
  /\ ShownIsTheWallets
  /\ shown.connecting => connects # {}

ShownStates == [account : Accounts \cup {None}, chain : Chains \cup {None},
                connecting : BOOLEAN, error : BOOLEAN]

LEMMA WalletStarts == ASSUME WalletInit PROVE WalletInv
  <1>1. /\ account \in Accounts \cup {None} /\ chain \in Chains
        /\ checked = FALSE /\ begun = 0 /\ connects = {}
        /\ shown = InitialState /\ raced = FALSE
    BY DEF WalletInit
  <1>2. /\ InitialState \in ShownStates
        /\ InitialState.account = None /\ InitialState.connecting = FALSE
    BY DEF InitialState, ShownStates
  <1>3. 0 \in 0..MaxConnects
    OBVIOUS
  <1>4. WalletTypeOK
    BY <1>1, <1>2, <1>3 DEF WalletTypeOK, ShownStates
  <1>5. QED
    BY <1>1, <1>2, <1>4 DEF WalletInv, ReadsAreFresh, ShownIsTheWallets

(* A connect that is made late is otherwise the same.                      *)
LEMMA MadeLate ==
  ASSUME NEW c \in Connect
  PROVE  /\ [c EXCEPT !.late = TRUE] \in Connect
         /\ [c EXCEPT !.late = TRUE].id = c.id
         /\ [c EXCEPT !.late = TRUE].late
  <1>1. DOMAIN c = {"id", "step", "account", "late"}
    BY DEF Connect
  <1>2. QED
    BY <1>1 DEF Connect

LEMMA BeginKeeps ==
  ASSUME WalletInv, Begin, account' \in Accounts \cup {None}, chain' \in Chains, checked' \in BOOLEAN
  PROVE  WalletInv' /\ shown'.account = shown.account
  <1>. PICK new : new = [id |-> begun + 1, step |-> "requesting", account |-> None, late |-> FALSE]
    OBVIOUS
  <1>1. /\ begun < MaxConnects /\ begun' = begun + 1 /\ begun \in Nat
        /\ connects' = connects \cup {new} /\ raced' = raced
        /\ shown' = [shown EXCEPT !.connecting = TRUE, !.error = FALSE]
    BY DEF Begin, WalletInv, WalletTypeOK
  <1>2. new \in Connect /\ new.id = begun + 1 /\ new.step = "requesting"
    BY <1>1 DEF Connect
  <1>3. WalletTypeOK' /\ shown'.account = shown.account
    <2>1. shown \in ShownStates
      BY DEF WalletInv, WalletTypeOK, ShownStates
    <2>2. shown' \in ShownStates /\ shown'.account = shown.account
      BY <1>1, <2>1 DEF ShownStates
    <2>3. begun' \in 0..MaxConnects
      BY <1>1
    <2>4. connects' \subseteq Connect /\ raced' \in BOOLEAN
      BY <1>1, <1>2 DEF WalletInv, WalletTypeOK
    <2>5. QED
      BY <2>2, <2>3, <2>4 DEF WalletTypeOK, ShownStates
  <1>4. \A c \in connects : c.id \in Nat /\ c.id <= begun
    BY DEF WalletInv, WalletTypeOK, Connect
  <1>5. \A c \in connects' : c.id <= begun'
    BY <1>1, <1>2, <1>4
  <1>6. ReadsAreFresh'
    BY <1>1, <1>2, <1>4 DEF ReadsAreFresh
  <1>7. connects' # {}
    BY <1>1
  <1>8. QED
    BY <1>3, <1>5, <1>6, <1>7 DEF WalletInv, ShownIsTheWallets

LEMMA DisconnectKeeps ==
  ASSUME WalletInv, Disconnect, account' \in Accounts \cup {None}, chain' \in Chains,
         checked' \in BOOLEAN
  PROVE  WalletInv'
  <1>1. /\ shown' = InitialState /\ begun' = begun /\ raced' = FALSE
        /\ connects' = {[c EXCEPT !.late = TRUE] : c \in connects}
    BY DEF Disconnect
  <1>2. \A c \in connects' : c \in Connect /\ c.late /\ c.id <= begun
    <2>1. SUFFICES ASSUME NEW e \in connects
                   PROVE  /\ [e EXCEPT !.late = TRUE] \in Connect
                          /\ [e EXCEPT !.late = TRUE].late
                          /\ [e EXCEPT !.late = TRUE].id <= begun
      BY <1>1
    <2>2. e \in Connect /\ e.id <= begun
      BY DEF WalletInv, WalletTypeOK
    <2>3. QED
      BY <2>2, MadeLate
  <1>3. WalletTypeOK'
    BY <1>1, <1>2 DEF WalletInv, WalletTypeOK, InitialState
  <1>4. QED
    BY <1>1, <1>2, <1>3 DEF WalletInv, ReadsAreFresh, ShownIsTheWallets, InitialState

(* When a connect ends, those begun before it are late.                    *)
LEMMA OthersFresh ==
  ASSUME WalletInv, NEW c \in connects, connects' = OthersThan(c), UNCHANGED <<account, begun>>
  PROVE  /\ connects' \subseteq Connect /\ \A d \in connects' : d.id <= begun'
         /\ ReadsAreFresh'
         /\ connects' = {} => connects = {c}
  <1>1. connects' = {IF d.id < c.id THEN [d EXCEPT !.late = TRUE] ELSE d : d \in connects \ {c}}
    BY DEF OthersThan
  <1>2. \A d \in connects : d \in Connect /\ d.id \in Nat /\ d.id <= begun
    BY DEF WalletInv, WalletTypeOK, Connect
  <1>3. \A d \in connects' : \E e \in connects \ {c} :
          d.id = e.id /\ (IF e.id < c.id THEN d = [e EXCEPT !.late = TRUE] ELSE d = e)
    BY <1>1, <1>2, MadeLate
  <1>4. \A e \in connects \ {c} : \E d \in connects' : d.id = e.id
    <2>1. SUFFICES ASSUME NEW e \in connects \ {c} PROVE \E d \in connects' : d.id = e.id
      OBVIOUS
    <2>2. (IF e.id < c.id THEN [e EXCEPT !.late = TRUE] ELSE e) \in connects'
      BY <1>1
    <2>3. [e EXCEPT !.late = TRUE].id = e.id
      BY <1>2, MadeLate
    <2>4. QED
      BY <2>2, <2>3
  <1>5. \A d \in connects' : d \in Connect /\ d.id <= begun'
    BY <1>2, <1>3, MadeLate
  <1>6. ReadsAreFresh'
    <2>1. SUFFICES ASSUME NEW d \in connects', d.step = "network", ~d.late
                   PROVE  d.account = account \/ \E e \in connects' : e.id > d.id
      BY DEF ReadsAreFresh
    <2>2. d \in connects \ {c} /\ ~(d.id < c.id)
      <3>1. PICK e \in connects \ {c} :
              d.id = e.id /\ (IF e.id < c.id THEN d = [e EXCEPT !.late = TRUE] ELSE d = e)
        BY <1>3
      <3>2. [e EXCEPT !.late = TRUE].late
        BY <1>2, MadeLate
      <3>3. ~(e.id < c.id)
        BY <2>1, <3>1, <3>2
      <3>4. QED
        BY <3>1, <3>3
    <2>3. CASE d.account = account
      BY <2>3
    <2>4. CASE \E e \in connects : e.id > d.id
      <3>1. PICK e \in connects : e.id > d.id
        BY <2>4
      <3>2. e # c
        BY <1>2, <2>2, <3>1
      <3>3. QED
        BY <1>4, <3>1, <3>2
    <2>5. QED
      BY <2>1, <2>2, <2>3, <2>4 DEF WalletInv, ReadsAreFresh
  <1>7. connects' = {} => connects = {c}
    BY <1>4
  <1>8. QED
    BY <1>5, <1>6, <1>7

LEMMA ConnectedKeeps ==
  ASSUME WalletInv, NEW c \in connects, Connected(c)
  PROVE  WalletInv'
  <1>1. /\ c.step = "network" /\ connects' = OthersThan(c)
        /\ shown' = [account |-> c.account, chain |-> chain, connecting |-> FALSE, error |-> FALSE]
        /\ raced' = c.late /\ UNCHANGED <<account, chain, checked, begun>>
    BY DEF Connected
  <1>2. /\ connects' \subseteq Connect /\ \A d \in connects' : d.id <= begun'
        /\ ReadsAreFresh'
        /\ connects' = {} => connects = {c}
    BY <1>1, OthersFresh
  <1>3. c \in Connect
    BY DEF WalletInv, WalletTypeOK
  <1>4. WalletTypeOK'
    BY <1>1, <1>2, <1>3 DEF WalletInv, WalletTypeOK, Connect
  <1>5. ShownIsTheWallets'
    <2>1. SUFFICES ASSUME connects' = {}, ~c.late
                   PROVE  c.account = account
      BY <1>1 DEF ShownIsTheWallets
    <2>2. connects = {c} /\ c.id \in Nat
      BY <1>2, <1>3, <2>1 DEF Connect
    <2>3. QED
      BY <1>1, <2>1, <2>2 DEF WalletInv, ReadsAreFresh
  <1>6. QED
    BY <1>1, <1>2, <1>4, <1>5 DEF WalletInv

LEMMA ConnectFailsKeeps ==
  ASSUME WalletInv, NEW c \in connects, ConnectFails(c)
  PROVE  WalletInv' /\ shown'.account = shown.account
  <1>1. /\ connects' = OthersThan(c) /\ shown' = [shown EXCEPT !.connecting = FALSE, !.error = TRUE]
        /\ UNCHANGED <<account, chain, checked, begun, raced>>
    BY DEF ConnectFails
  <1>2. /\ connects' \subseteq Connect /\ \A d \in connects' : d.id <= begun'
        /\ ReadsAreFresh'
    BY <1>1, OthersFresh
  <1>3. /\ WalletTypeOK'
        /\ shown'.error /\ ~shown'.connecting /\ shown'.account = shown.account
    BY <1>1, <1>2 DEF WalletInv, WalletTypeOK
  <1>4. QED
    BY <1>2, <1>3 DEF WalletInv, ShownIsTheWallets

LEMMA AccountReadKeeps ==
  ASSUME WalletInv, NEW c \in connects, AccountRead(c)
  PROVE  WalletInv' /\ shown' = shown
  <1>. PICK new : new = [c EXCEPT !.step = "network", !.account = account]
    OBVIOUS
  <1>1. /\ connects' = (connects \ {c}) \cup {new}
        /\ UNCHANGED <<account, chain, checked, begun, shown, raced>>
    BY DEF AccountRead
  <1>2. c \in Connect /\ c.id <= begun /\ account \in Accounts \cup {None}
    BY DEF WalletInv, WalletTypeOK
  <1>3. new \in Connect /\ new.id = c.id /\ new.account = account
    BY <1>2 DEF Connect
  <1>4. WalletTypeOK' /\ \A d \in connects' : d.id <= begun'
    BY <1>1, <1>2, <1>3 DEF WalletInv, WalletTypeOK
  <1>5. \A e \in connects : \E d \in connects' : d.id = e.id
    BY <1>1, <1>3
  <1>6. ReadsAreFresh'
    BY <1>1, <1>3, <1>5 DEF WalletInv, ReadsAreFresh
  <1>7. connects' # {} /\ connects # {}
    BY <1>1
  <1>8. QED
    BY <1>1, <1>4, <1>6, <1>7 DEF WalletInv, ShownIsTheWallets

LEMMA QuietKeeps ==
  ASSUME WalletInv, QuietWalletStep
  PROVE  WalletInv' /\ shown'.account = shown.account
  <1>1. /\ account \in Accounts \cup {None} /\ chain \in Chains /\ checked \in BOOLEAN
    BY DEF WalletInv, WalletTypeOK
  <1>2. CASE LookForAccount
    <2>1. CASE account # None
      BY <1>1, <1>2, <2>1, BeginKeeps DEF LookForAccount
    <2>2. CASE account = None
      BY <1>2, <2>2 DEF LookForAccount, WalletInv, WalletTypeOK, ReadsAreFresh, ShownIsTheWallets
    <2>3. QED
      BY <2>1, <2>2
  <1>3. CASE ClickConnect
    BY <1>1, <1>3, BeginKeeps DEF ClickConnect
  <1>4. CASE \E a \in Accounts : AccountsChanged(a)
    BY <1>1, <1>4, BeginKeeps DEF AccountsChanged
  <1>5. CASE \E n \in Chains : ChainChanged(n)
    BY <1>1, <1>5, BeginKeeps DEF ChainChanged
  <1>6. CASE \E c \in connects : AccountRead(c) \/ ConnectFails(c)
    BY <1>6, AccountReadKeeps, ConnectFailsKeeps
  <1>7. QED
    BY <1>2, <1>3, <1>4, <1>5, <1>6 DEF QuietWalletStep

LEMMA ReplacedKeeps == ASSUME WalletInv, WalletReplaced PROVE WalletInv'
  <1>1. /\ account \in Accounts \cup {None} /\ chain \in Chains /\ checked \in BOOLEAN
    BY DEF WalletInv, WalletTypeOK
  <1>2. CASE ClickDisconnect
    BY <1>1, <1>2, DisconnectKeeps DEF ClickDisconnect
  <1>3. CASE AccountsChanged(None)
    BY <1>1, <1>3, DisconnectKeeps DEF AccountsChanged
  <1>4. CASE \E c \in connects : Connected(c)
    BY <1>4, ConnectedKeeps
  <1>5. QED
    BY <1>2, <1>3, <1>4 DEF WalletReplaced

LEMMA WalletQuiet == ASSUME WalletInv, UNCHANGED walletVars PROVE WalletInv'
  BY DEF WalletInv, WalletTypeOK, ReadsAreFresh, ShownIsTheWallets, walletVars

-----------------------------------------------------------------------------
(* The panels. *)

Statuses == {"idle", "approving", "pending", "confirmed", "error"}
Forms == [gate : Gates, status : Statuses, destination : Destinations]

FormInv ==
  /\ tab \in Tabs /\ mounts \in 0..MaxMounts
  /\ form \in Forms
  /\ loads \in BOOLEAN /\ loading \in BOOLEAN /\ seen \subseteq Accounts
  /\ loading => loads /\ tab = "portfolio"
  /\ shown.account # None => shown.account \in seen
  /\ tab = "withdraw" =>
       /\ form.destination \in {None, Typed, Invalid} \cup seen
       /\ shown.account # None => form.destination # None

HandlerType(h) ==
  h \in [id : 1..started, kind : {"approve", "deposit", "withdraw"},
        step : {"signing", "mining", "loading"}, to : Destinations, disturbed : BOOLEAN]

(* What keeps both buttons disabled.                                       *)
Held(f) == f.status = "pending" \/ (f.status = "approving" /\ f.gate # "send")

HandlersInv ==
  /\ started \in 0..MaxHandlers
  /\ \A h \in handlers : HandlerType(h) /\ (~h.disturbed => Held(form))
  /\ form.status \in {"approving", "pending"} => handlers # {}
  /\ OneTransactionAtATime
  /\ DestinationKnown

PanelInv == FormInv /\ HandlersInv

(* The handlers stay what they were, or are disturbed, or go on.           *)
Follows(h, g) ==
  /\ HandlerType(h) /\ h.id = g.id /\ (g.disturbed => h.disturbed)
  /\ h.kind = "withdraw" /\ h.step = "signing" =>
       g.kind = "withdraw" /\ g.step = "signing" /\ g.to = h.to

LEMMA HandlersFollow ==
  ASSUME HandlersInv, UNCHANGED started, seen \subseteq seen',
         \A h \in handlers' : \E g \in handlers : Follows(h, g),
         \A h \in handlers' : ~h.disturbed => Held(form'),
         form'.status \in {"approving", "pending"} => handlers' # {}
  PROVE  HandlersInv'
  <1>1. \A h \in handlers' : HandlerType(h)'
    BY DEF Follows, HandlerType
  <1>2. OneTransactionAtATime'
    <2>1. SUFFICES ASSUME NEW g \in handlers', NEW h \in handlers', g.id < h.id
                   PROVE  g.disturbed
      BY DEF OneTransactionAtATime
    <2>2. PICK g0 \in handlers : Follows(g, g0)
      OBVIOUS
    <2>3. PICK h0 \in handlers : Follows(h, h0)
      OBVIOUS
    <2>4. g0.id < h0.id
      BY <2>1, <2>2, <2>3 DEF Follows
    <2>5. g0.disturbed
      BY <2>4 DEF HandlersInv, OneTransactionAtATime
    <2>6. QED
      BY <2>2, <2>5 DEF Follows
  <1>3. DestinationKnown'
    <2>1. SUFFICES ASSUME NEW h \in handlers', h.kind = "withdraw", h.step = "signing"
                   PROVE  h.to = Typed \/ h.to \in seen'
      BY DEF DestinationKnown
    <2>2. PICK g \in handlers : Follows(h, g)
      OBVIOUS
    <2>3. QED
      BY <2>1, <2>2 DEF Follows, HandlersInv, DestinationKnown
  <1>4. QED
    BY <1>1, <1>2, <1>3 DEF HandlersInv, Held

LEMMA DisturbedType ==
  ASSUME NEW h, HandlerType(h)
  PROVE  Follows([h EXCEPT !.disturbed = TRUE], h) /\ [h EXCEPT !.disturbed = TRUE].disturbed
  <1>. DEFINE d == [h EXCEPT !.disturbed = TRUE]
  <1>1. /\ HandlerType(d) /\ d.id = h.id /\ d.kind = h.kind /\ d.step = h.step /\ d.to = h.to
        /\ d.disturbed
    BY DEF HandlerType
  <1>. HIDE DEF d
  <1>2. Follows(d, h)
    BY <1>1 DEF Follows
  <1>3. QED
    BY <1>1, <1>2 DEF d

(* Whatever disturbs the handlers may set the form, but not to busy.       *)
LEMMA DisturbanceKeeps ==
  ASSUME HandlersInv, UNCHANGED started, seen \subseteq seen',
         NEW some \in SUBSET handlers, handlers' = {[h EXCEPT !.disturbed = TRUE] : h \in some},
         form'.status \in {"approving", "pending"} => some # {}
  PROVE  HandlersInv'
  <1>1. \A h \in handlers' : h.disturbed /\ \E g \in handlers : Follows(h, g)
    BY DisturbedType DEF HandlersInv
  <1>2. some # {} => handlers' # {}
    OBVIOUS
  <1>3. QED
    BY <1>1, <1>2, HandlersFollow

(* Steps that leave the handlers alone.                                    *)
LEMMA FormOnly ==
  ASSUME HandlersInv, UNCHANGED <<started, handlers>>, seen \subseteq seen',
         \A h \in handlers : ~h.disturbed => Held(form'),
         form'.status = form.status \/ form'.status \notin {"approving", "pending"}
  PROVE  HandlersInv'
  <1>1. \A h \in handlers : Follows(h, h)
    BY DEF Follows, HandlersInv
  <1>2. form'.status \in {"approving", "pending"} => handlers' # {}
    BY DEF HandlersInv
  <1>3. QED
    BY <1>1, <1>2, HandlersFollow

LEMMA Disabled ==
  ASSUME HandlersInv, ApproveEnabled \/ SendEnabled
  PROVE  \A h \in handlers : h.disturbed
  BY DEF HandlersInv, Held, ApproveEnabled, SendEnabled

LEMMA BeginHandlerKeeps ==
  ASSUME HandlersInv, FormInv, NEW kind \in {"approve", "deposit", "withdraw"},
         NEW status \in {"approving", "pending"}, BeginHandler(kind, status),
         \A h \in handlers : h.disturbed,
         status = "approving" => form.gate # "send",
         kind = "withdraw" => form.destination = Typed \/ form.destination \in seen
  PROVE  HandlersInv'
  <1>. PICK new : new = Handler(kind)
    OBVIOUS
  <1>1. /\ started < MaxHandlers /\ started' = started + 1 /\ started \in Nat
        /\ handlers' = handlers \cup {new} /\ seen' = seen
        /\ form' = [form EXCEPT !.status = status]
    BY DEF BeginHandler, HandlersInv
  <1>2. form'.status = status /\ form'.gate = form.gate
    BY <1>1 DEF FormInv, Forms
  <1>3. /\ new.id = started + 1 /\ new.kind = kind /\ new.step = "signing"
        /\ kind = "withdraw" => new.to = form.destination
    BY DEF Handler
  <1>4. HandlerType(new)'
    <2>1. form.destination \in Destinations /\ None \in Destinations
      BY DEF FormInv, Forms, Destinations
    <2>2. new \in [id : {started + 1}, kind : {"approve", "deposit", "withdraw"},
                  step : {"signing"}, to : Destinations, disturbed : {FALSE}]
      BY <2>1 DEF Handler
    <2>3. started + 1 \in 1..started'
      BY <1>1
    <2>4. new \in [id : 1..started', kind : {"approve", "deposit", "withdraw"},
                  step : {"signing", "mining", "loading"}, to : Destinations, disturbed : BOOLEAN]
      BY <2>2, <2>3
    <2>5. QED
      BY <2>4 DEF HandlerType
  <1>5. \A h \in handlers : HandlerType(h)' /\ h.id < new.id /\ h.id \in Nat
    BY <1>1, <1>3 DEF HandlersInv, HandlerType
  <1>6. Held(form)'
    BY <1>2 DEF Held
  <1>7. OneTransactionAtATime'
    BY <1>1, <1>3, <1>5 DEF HandlersInv, OneTransactionAtATime
  <1>8. DestinationKnown'
    BY <1>1, <1>3 DEF HandlersInv, DestinationKnown
  <1>9. started' \in 0..MaxHandlers /\ handlers' # {}
    BY <1>1
  <1>10. QED
    BY <1>1, <1>4, <1>5, <1>6, <1>7, <1>8, <1>9 DEF HandlersInv

(* What the forms' steps do to the form itself.                            *)
LEMMA FormStays ==
  ASSUME FormInv, UNCHANGED <<tab, mounts, seen>>, shown'.account = shown.account,
         form' \in Forms, form'.destination = form.destination,
         loads' \in BOOLEAN, loading' \in BOOLEAN, loading' => loads' /\ tab = "portfolio"
  PROVE  FormInv'
  BY DEF FormInv

LEMMA DefaultedForm ==
  ASSUME NEW f \in Forms, NEW t, NEW a \in Accounts \cup {None}
  PROVE  /\ Defaulted(f, t, a) \in Forms
         /\ Defaulted(f, t, a).status = f.status /\ Defaulted(f, t, a).gate = f.gate
         /\ Defaulted(f, t, a).destination =
              (IF t = "withdraw" /\ f.destination = None THEN a ELSE f.destination)
  <1>1. a \in Destinations
    BY DEF Destinations
  <1>2. CASE t = "withdraw" /\ f.destination = None
    BY <1>1, <1>2 DEF Defaulted, Forms
  <1>3. CASE ~(t = "withdraw" /\ f.destination = None)
    BY <1>3 DEF Defaulted
  <1>4. QED
    BY <1>2, <1>3

LEMMA AmountGates ==
  GatesOfAmount \subseteq Gates /\ "empty" \in Gates
  BY DEF GatesOfAmount, Gates

LEMMA LoadedForm ==
  ASSUME form \in Forms, NEW f \in Loaded
  PROVE  f \in Forms /\ f.status = form.status /\ f.destination = form.destination
  BY AmountGates DEF Loaded, Forms

LEMMA NewProviderKeeps ==
  ASSUME PanelInv, NewProvider, shown'.account \in Accounts \cup {None}
  PROVE  PanelInv'
  <1>. DEFINE a == shown'.account
  <1>1. /\ form' = Defaulted(form, tab, a)
        /\ loads' = (loads \/ LoadsOn(tab, a))
        /\ loading' = (loading \/ (tab = "portfolio" /\ LoadsOn(tab, a)))
        /\ seen' = seen \cup AccountsOf(a)
        /\ UNCHANGED <<tab, mounts, handlers, started>>
    BY DEF NewProvider
  <1>2. FormInv /\ HandlersInv /\ form \in Forms
    BY DEF PanelInv, FormInv
  <1>. HIDE DEF a
  <1>3. a \in Accounts \cup {None}
    BY DEF a
  <1>4. /\ form' \in Forms /\ form'.status = form.status /\ form'.gate = form.gate
        /\ form'.destination =
             (IF tab = "withdraw" /\ form.destination = None THEN a ELSE form.destination)
    BY <1>1, <1>2, <1>3, DefaultedForm
  <1>5. seen \subseteq seen' /\ seen' \subseteq Accounts /\ (a # None => a \in seen')
    BY <1>1, <1>2, <1>3 DEF AccountsOf, FormInv
  <1>6. HandlersInv'
    BY <1>1, <1>2, <1>4, <1>5, FormOnly DEF HandlersInv, Held
  <1>7. loads' \in BOOLEAN /\ loading' \in BOOLEAN /\ (loading' => loads' /\ tab' = "portfolio")
    BY <1>1, <1>2 DEF FormInv
  <1>8. tab' = "withdraw" =>
          /\ form'.destination \in {None, Typed, Invalid} \cup seen'
          /\ a # None => form'.destination # None
    BY <1>1, <1>2, <1>3, <1>4, <1>5 DEF FormInv
  <1>9. FormInv'
    BY <1>1, <1>2, <1>4, <1>5, <1>7, <1>8 DEF FormInv, a
  <1>10. QED
    BY <1>6, <1>9 DEF PanelInv

LEMMA SwitchTabKeeps ==
  ASSUME PanelInv, NEW t \in Tabs, SwitchTab(t), shown.account \in Accounts \cup {None},
         shown'.account = shown.account
  PROVE  PanelInv'
  <1>1. /\ mounts < MaxMounts /\ mounts' = mounts + 1 /\ tab' = t
        /\ form' = Defaulted(EmptyForm, t, shown.account)
        /\ loads' = LoadsOn(t, shown.account)
        /\ loading' = (t = "portfolio" /\ LoadsOn(t, shown.account))
        /\ handlers' = {} /\ seen' = AccountsOf(shown.account) /\ started' = started
    BY DEF SwitchTab
  <1>2. EmptyForm \in Forms /\ EmptyForm.status = "idle" /\ EmptyForm.destination = None
    BY DEF EmptyForm, Forms, Gates, Statuses, Destinations
  <1>3. /\ form' \in Forms /\ form'.status = "idle"
        /\ form'.destination = (IF t = "withdraw" THEN shown.account ELSE None)
    BY <1>1, <1>2, DefaultedForm
  <1>4. FormInv'
    <2>1. seen' \subseteq Accounts /\ (shown.account # None => shown.account \in seen')
      BY <1>1 DEF AccountsOf
    <2>2. loads' \in BOOLEAN /\ loading' \in BOOLEAN /\ (loading' => loads' /\ tab' = "portfolio")
      BY <1>1 DEF LoadsOn
    <2>3. mounts' \in 0..MaxMounts
      BY <1>1 DEF PanelInv, FormInv
    <2>4. tab' = "withdraw" =>
            /\ form'.destination \in {None, Typed, Invalid} \cup seen'
            /\ shown.account # None => form'.destination # None
      BY <1>1, <1>3, <2>1
    <2>5. QED
      BY <1>1, <1>3, <2>1, <2>2, <2>3, <2>4 DEF FormInv
  <1>5. HandlersInv'
    BY <1>1, <1>3 DEF PanelInv, HandlersInv, OneTransactionAtATime, DestinationKnown
  <1>6. QED
    BY <1>4, <1>5 DEF PanelInv

(* Loads and inputs.                                                       *)
LEMMA InputsKeep ==
  ASSUME PanelInv, shown'.account = shown.account, shown.account \in Accounts \cup {None},
         \/ LoadEnds \/ RefreshHoldings \/ EditAmount \/ SelectToken \/ Max \/ Dismiss
         \/ \E d \in {None, Typed, Invalid} : EditDestination(d)
  PROVE  PanelInv'
  <1>1. FormInv /\ HandlersInv /\ form \in Forms
    BY DEF PanelInv, FormInv
  <1>2. /\ loads \in BOOLEAN /\ loading \in BOOLEAN
        /\ loading => loads /\ tab = "portfolio"
    BY <1>1 DEF FormInv
  <1>3. CASE LoadEnds /\ tab = "portfolio"
    <2>1. /\ loads' \in BOOLEAN /\ loading' = FALSE
          /\ UNCHANGED <<form, handlers, tab, mounts, started, seen>>
      BY <1>3 DEF LoadEnds
    <2>2. FormInv'
      BY <1>1, <2>1, FormStays
    <2>3. HandlersInv'
      BY <1>1, <2>1, FormOnly DEF HandlersInv
    <2>4. QED
      BY <2>2, <2>3 DEF PanelInv
  <1>4. CASE LoadEnds /\ tab # "portfolio"
    <2>1. /\ loads' \in BOOLEAN /\ loading' = loading /\ form' \in Loaded /\ handlers' = Disturbed
          /\ UNCHANGED <<tab, mounts, started, seen>>
      BY <1>4 DEF LoadEnds
    <2>2. form' \in Forms /\ form'.status = form.status /\ form'.destination = form.destination
      BY <1>1, <2>1, LoadedForm
    <2>3. FormInv'
      BY <1>1, <1>2, <1>4, <2>1, <2>2, FormStays
    <2>4. HandlersInv'
      BY <1>1, <2>1, <2>2, DisturbanceKeeps DEF Disturbed, HandlersInv
    <2>5. QED
      BY <2>3, <2>4 DEF PanelInv
  <1>5. CASE RefreshHoldings
    <2>1. /\ tab = "portfolio" /\ loads' = TRUE /\ loading' = TRUE
          /\ UNCHANGED <<tab, mounts, form, handlers, started, seen>>
      BY <1>5 DEF RefreshHoldings
    <2>2. FormInv'
      BY <1>1, <2>1, FormStays
    <2>3. HandlersInv'
      BY <1>1, <2>1, FormOnly DEF HandlersInv
    <2>4. QED
      BY <2>2, <2>3 DEF PanelInv
  <1>6. CASE EditAmount \/ SelectToken
    <2>1. PICK g \in Gates : Edited(g)
      BY <1>6, AmountGates DEF EditAmount, SelectToken
    <2>2. /\ form' = [form EXCEPT !.gate = g, !.status = "idle"] /\ handlers' = Disturbed
          /\ UNCHANGED <<tab, mounts, loading, started, seen>>
      BY <2>1 DEF Edited
    <2>3. loads' \in BOOLEAN /\ (loading => loads')
      BY <1>2, <1>6 DEF EditAmount, SelectToken
    <2>4. form' \in Forms /\ form'.status = "idle" /\ form'.destination = form.destination
      BY <1>1, <2>2 DEF Forms, Statuses
    <2>5. FormInv'
      BY <1>1, <1>2, <2>2, <2>3, <2>4, FormStays
    <2>6. HandlersInv'
      BY <1>1, <2>2, <2>4, DisturbanceKeeps DEF Disturbed
    <2>7. QED
      BY <2>5, <2>6 DEF PanelInv
  <1>7. CASE Max
    <2>1. PICK g \in Gates : form' = [form EXCEPT !.gate = g]
      BY <1>7, AmountGates DEF Max
    <2>2. handlers' = Disturbed /\ UNCHANGED <<tab, mounts, loads, loading, started, seen>>
      BY <1>7 DEF Max
    <2>3. form' \in Forms /\ form'.status = form.status /\ form'.destination = form.destination
      BY <1>1, <2>1 DEF Forms
    <2>4. FormInv'
      BY <1>1, <1>2, <2>2, <2>3, FormStays
    <2>5. HandlersInv'
      BY <1>1, <2>2, <2>3, DisturbanceKeeps DEF Disturbed, HandlersInv
    <2>6. QED
      BY <2>4, <2>5 DEF PanelInv
  <1>8. CASE Dismiss
    <2>1. /\ form.status \in {"confirmed", "error"} /\ form' = [form EXCEPT !.status = "idle"]
          /\ UNCHANGED <<tab, mounts, loads, loading, handlers, started, seen>>
      BY <1>8 DEF Dismiss
    <2>2. form' \in Forms /\ form'.status = "idle" /\ form'.destination = form.destination
      BY <1>1, <2>1 DEF Forms, Statuses
    <2>3. FormInv'
      BY <1>1, <1>2, <2>1, <2>2, FormStays
    <2>4. HandlersInv'
      BY <1>1, <2>1, <2>2, FormOnly DEF HandlersInv, Held
    <2>5. QED
      BY <2>3, <2>4 DEF PanelInv
  <1>9. CASE \E d \in {None, Typed, Invalid} : EditDestination(d)
    <2>1. PICK d \in {None, Typed, Invalid} : EditDestination(d)
      BY <1>9
    <2>. PICK to : to = IF d = None THEN shown.account ELSE d
      OBVIOUS
    <2>2. /\ shown.account # None /\ form' = [form EXCEPT !.destination = to]
          /\ UNCHANGED <<tab, mounts, loads, loading, handlers, started, seen>>
      BY <2>1 DEF EditDestination, FormShown
    <2>3. to \in {Typed, Invalid} \cup seen /\ to # None /\ to \in Destinations
      BY <1>1, <2>2 DEF FormInv, Destinations
    <2>4. /\ form' \in Forms /\ form'.status = form.status /\ form'.gate = form.gate
          /\ form'.destination = to
      BY <1>1, <2>2, <2>3 DEF Forms
    <2>5. FormInv'
      BY <1>1, <2>2, <2>3, <2>4 DEF FormInv
    <2>6. HandlersInv'
      BY <1>1, <2>2, <2>4, FormOnly DEF HandlersInv, Held
    <2>7. QED
      BY <2>5, <2>6 DEF PanelInv
  <1>10. QED
    BY <1>3, <1>4, <1>5, <1>6, <1>7, <1>8, <1>9

(* Transactions begin.                                                     *)
LEMMA TransactionsBegin ==
  ASSUME PanelInv, shown'.account = shown.account,
         HandleApprove \/ HandleDeposit \/ HandleWithdraw
  PROVE  PanelInv'
  <1>1. FormInv /\ HandlersInv /\ form \in Forms
    BY DEF PanelInv, FormInv
  <1>2. ASSUME NEW kind, NEW status \in {"approving", "pending"}, BeginHandler(kind, status)
        PROVE  FormInv'
    <2>1. /\ form' = [form EXCEPT !.status = status]
          /\ UNCHANGED <<tab, mounts, loads, loading, seen>>
      BY <1>2 DEF BeginHandler
    <2>2. form' \in Forms /\ form'.destination = form.destination
      BY <1>1, <1>2, <2>1 DEF Forms, Statuses
    <2>3. QED
      BY <1>1, <2>1, <2>2, FormStays DEF FormInv
  <1>3. CASE HandleApprove
    <2>1. ApproveEnabled /\ BeginHandler("approve", "approving") /\ form.gate # "send"
      BY <1>3 DEF HandleApprove, ApproveEnabled
    <2>2. HandlersInv'
      BY <1>1, <2>1, Disabled, BeginHandlerKeeps
    <2>3. QED
      BY <1>2, <2>1, <2>2 DEF PanelInv
  <1>4. CASE HandleDeposit
    <2>1. SendEnabled /\ BeginHandler("deposit", "pending")
      BY <1>4 DEF HandleDeposit
    <2>2. HandlersInv'
      BY <1>1, <2>1, Disabled, BeginHandlerKeeps
    <2>3. QED
      BY <1>2, <2>1, <2>2 DEF PanelInv
  <1>5. CASE HandleWithdraw /\ form.destination # Invalid
    <2>1. /\ SendEnabled /\ BeginHandler("withdraw", "pending")
          /\ tab = "withdraw" /\ shown.account # None
      BY <1>5 DEF HandleWithdraw, FormShown
    <2>2. form.destination = Typed \/ form.destination \in seen
      BY <1>1, <1>5, <2>1 DEF FormInv
    <2>3. HandlersInv'
      BY <1>1, <2>1, <2>2, Disabled, BeginHandlerKeeps
    <2>4. QED
      BY <1>2, <2>1, <2>3 DEF PanelInv
  <1>6. CASE HandleWithdraw /\ form.destination = Invalid
    <2>1. /\ SendEnabled /\ form' = [form EXCEPT !.status = "error"]
          /\ UNCHANGED <<tab, mounts, loads, loading, handlers, started, seen>>
      BY <1>6 DEF HandleWithdraw
    <2>2. form' \in Forms /\ form'.status = "error" /\ form'.destination = form.destination
      BY <1>1, <2>1 DEF Forms, Statuses
    <2>3. FormInv'
      BY <1>1, <2>1, <2>2, FormStays DEF FormInv
    <2>4. HandlersInv'
      BY <1>1, <2>1, <2>2, Disabled, FormOnly
    <2>5. QED
      BY <2>3, <2>4 DEF PanelInv
  <1>7. QED
    BY <1>3, <1>4, <1>5, <1>6

(* Handlers go on.                                                         *)
LEMMA HandlerToFollows ==
  ASSUME HandlersInv, NEW h \in handlers, NEW step \in {"mining", "loading"}, HandlerTo(h, step)
  PROVE  /\ handlers' # {}
         /\ \A d \in handlers' : \E g \in handlers : Follows(d, g)
  <1>. PICK new : new = [h EXCEPT !.step = step, !.to = None]
    OBVIOUS
  <1>1. handlers' = (handlers \ {h}) \cup {new}
    BY DEF HandlerTo
  <1>2. HandlerType(h) /\ None \in Destinations
    BY DEF HandlersInv, Destinations
  <1>3. /\ HandlerType(new) /\ new.id = h.id /\ new.disturbed = h.disturbed
        /\ new.step = step
    BY <1>2 DEF HandlerType
  <1>4. Follows(new, h)
    BY <1>3 DEF Follows
  <1>5. \A g \in handlers : Follows(g, g)
    BY DEF Follows, HandlersInv
  <1>6. QED
    BY <1>1, <1>4, <1>5

LEMMA HandlerGoneKeeps ==
  ASSUME PanelInv, NEW h \in handlers, HandlerGone(h), shown'.account = shown.account,
         UNCHANGED <<tab, mounts, loads, loading, started, seen>>,
         form' \in Forms, form'.destination = form.destination,
         form'.status \notin {"approving", "pending"}
  PROVE  PanelInv'
  <1>1. FormInv /\ HandlersInv
    BY DEF PanelInv
  <1>2. FormInv'
    BY <1>1, FormStays DEF FormInv
  <1>3. HandlersInv'
    <2>1. handlers' = {[g EXCEPT !.disturbed = TRUE] : g \in handlers \ {h}}
      BY DEF HandlerGone
    <2>2. handlers \ {h} \in SUBSET handlers
      OBVIOUS
    <2>3. QED
      BY <1>1, <2>1, <2>2, DisturbanceKeeps
  <1>4. QED
    BY <1>2, <1>3 DEF PanelInv

LEMMA HandlersGoOn ==
  ASSUME PanelInv, NEW h \in handlers, shown'.account = shown.account,
         Sent(h) \/ WaitReturns(h) \/ HandlerEnds(h) \/ HandlerFails(h)
  PROVE  PanelInv'
  <1>1. FormInv /\ HandlersInv /\ form \in Forms
    BY DEF PanelInv, FormInv
  <1>2. CASE Sent(h)
    <2>1. /\ HandlerTo(h, "mining") /\ form' = [form EXCEPT !.status = "pending"]
          /\ UNCHANGED <<tab, mounts, loads, loading, started, seen>>
      BY <1>2 DEF Sent
    <2>2. form' \in Forms /\ form'.status = "pending" /\ form'.destination = form.destination
      BY <1>1, <2>1 DEF Forms, Statuses
    <2>3. FormInv'
      BY <1>1, <2>1, <2>2, FormStays DEF FormInv
    <2>4. /\ handlers' # {}
          /\ \A d \in handlers' : \E g \in handlers : Follows(d, g)
      BY <1>1, <2>1, HandlerToFollows
    <2>5. Held(form')
      BY <2>2 DEF Held
    <2>6. HandlersInv'
      BY <1>1, <2>1, <2>4, <2>5, HandlersFollow
    <2>7. QED
      BY <2>3, <2>6 DEF PanelInv
  <1>3. CASE WaitReturns(h)
    <2>1. /\ HandlerTo(h, "loading")
          /\ form' = IF h.kind = "approve" THEN form ELSE [form EXCEPT !.gate = "empty"]
          /\ UNCHANGED <<tab, mounts, loads, loading, started, seen>>
      BY <1>3 DEF WaitReturns
    <2>2. /\ form' \in Forms /\ form'.status = form.status
          /\ form'.destination = form.destination
          /\ form'.gate = form.gate \/ form'.gate = "empty"
      BY <1>1, <2>1, AmountGates DEF Forms
    <2>3. FormInv'
      BY <1>1, <2>1, <2>2, FormStays DEF FormInv
    <2>4. /\ handlers' # {}
          /\ \A d \in handlers' : \E g \in handlers : Follows(d, g)
      BY <1>1, <2>1, HandlerToFollows
    <2>5. Held(form) => Held(form')
      BY <2>2 DEF Held
    <2>6. \A d \in handlers' : ~d.disturbed => Held(form')
      BY <1>1, <2>4, <2>5 DEF HandlersInv, Follows
    <2>7. HandlersInv'
      BY <1>1, <2>1, <2>4, <2>6, HandlersFollow
    <2>8. QED
      BY <2>3, <2>7 DEF PanelInv
  <1>4. CASE HandlerEnds(h)
    <2>1. /\ HandlerGone(h) /\ UNCHANGED <<tab, mounts, loads, loading, started, seen>>
      BY <1>4 DEF HandlerEnds
    <2>2. PICK f \in Loaded :
            form' = [f EXCEPT !.status = IF h.kind = "approve" THEN "idle" ELSE "confirmed"]
      BY <1>4 DEF HandlerEnds
    <2>3. f \in Forms /\ f.destination = form.destination
      BY <1>1, LoadedForm
    <2>4. form' \in Forms /\ form'.destination = form.destination
      BY <2>2, <2>3 DEF Forms, Statuses
    <2>5. form'.status \in {"idle", "confirmed"}
      BY <2>2, <2>3 DEF Forms
    <2>6. QED
      BY <2>1, <2>4, <2>5, HandlerGoneKeeps
  <1>5. CASE HandlerFails(h)
    <2>1. /\ HandlerGone(h) /\ form' = [form EXCEPT !.status = "error"]
          /\ UNCHANGED <<tab, mounts, loads, loading, started, seen>>
      BY <1>5 DEF HandlerFails, StatusAfterError
    <2>2. form' \in Forms /\ form'.status = "error" /\ form'.destination = form.destination
      BY <1>1, <2>1 DEF Forms, Statuses
    <2>3. QED
      BY <2>1, <2>2, HandlerGoneKeeps
  <1>6. QED
    BY <1>2, <1>3, <1>4, <1>5

LEMMA PanelStarts ==
  ASSUME PanelInit, shown.account = None PROVE PanelInv
  <1>1. EmptyForm \in Forms /\ EmptyForm.status = "idle"
    BY DEF EmptyForm, Forms, Gates, Statuses, Destinations
  <1>2. FormInv
    BY <1>1, PanelAssumption, 0 \in 0..MaxMounts DEF PanelInit, FormInv, Tabs
  <1>3. HandlersInv
    BY <1>1 DEF PanelInit, HandlersInv, OneTransactionAtATime, DestinationKnown
  <1>4. QED
    BY <1>2, <1>3 DEF PanelInv

LEMMA PanelQuiet ==
  ASSUME PanelInv, UNCHANGED panelVars, shown'.account = shown.account PROVE PanelInv'
  <1>1. FormInv'
    BY DEF PanelInv, FormInv, panelVars
  <1>2. HandlersInv'
    BY DEF PanelInv, HandlersInv, HandlerType, OneTransactionAtATime, DestinationKnown, panelVars
  <1>3. QED
    BY <1>1, <1>2 DEF PanelInv

LEMMA PanelTypes == ASSUME PanelInv PROVE PanelTypeOK
  <1>1. /\ form.gate \in Gates /\ form.status \in Statuses /\ form.destination \in Destinations
    BY DEF PanelInv, FormInv, Forms
  <1>2. \A h \in handlers :
          /\ h.id \in 1..started /\ h.kind \in {"approve", "deposit", "withdraw"}
          /\ h.step \in {"signing", "mining", "loading"} /\ h.to \in Destinations
    BY DEF PanelInv, HandlersInv, HandlerType
  <1>3. QED
    BY <1>1, <1>2 DEF PanelInv, FormInv, HandlersInv, PanelTypeOK, Statuses

(* A step of the forms.                                                    *)
LEMMA FormsKeep ==
  ASSUME WalletInv, PanelInv, PanelStep
  PROVE  WalletInv' /\ PanelInv'
  <1>1. shown.account \in Accounts \cup {None}
    BY DEF WalletInv, WalletTypeOK
  <1>2. CASE NewProvider
    <2>1. WalletInv'
      BY <1>2, ReplacedKeeps DEF NewProvider
    <2>2. shown'.account \in Accounts \cup {None}
      BY <2>1 DEF WalletInv, WalletTypeOK
    <2>3. QED
      BY <1>2, <2>1, <2>2, NewProviderKeeps
  <1>3. CASE QuietWalletStep /\ UNCHANGED panelVars
    BY <1>3, QuietKeeps, PanelQuiet
  <1>4. ASSUME UNCHANGED walletVars PROVE WalletInv' /\ shown'.account = shown.account
    BY <1>4, WalletQuiet DEF walletVars
  <1>5. CASE \E t \in Tabs : SwitchTab(t)
    <2>1. PICK t \in Tabs : SwitchTab(t)
      BY <1>5
    <2>2. WalletInv' /\ shown'.account = shown.account
      BY <1>4, <2>1 DEF SwitchTab
    <2>3. QED
      BY <1>1, <2>1, <2>2, SwitchTabKeeps
  <1>6. CASE \/ LoadEnds \/ RefreshHoldings \/ EditAmount \/ SelectToken \/ Max \/ Dismiss
             \/ \E d \in {None, Typed, Invalid} : EditDestination(d)
    <2>1. UNCHANGED walletVars
      BY <1>6 DEF LoadEnds, RefreshHoldings, EditAmount, SelectToken, Edited, Max, Dismiss,
                  EditDestination
    <2>2. WalletInv' /\ shown'.account = shown.account
      BY <1>4, <2>1
    <2>3. QED
      BY <1>1, <1>6, <2>2, InputsKeep
  <1>7. CASE HandleApprove \/ HandleDeposit \/ HandleWithdraw
    <2>1. UNCHANGED walletVars
      BY <1>7 DEF HandleApprove, HandleDeposit, HandleWithdraw, BeginHandler
    <2>2. WalletInv' /\ shown'.account = shown.account
      BY <1>4, <2>1
    <2>3. QED
      BY <1>7, <2>2, TransactionsBegin
  <1>8. CASE \E h \in handlers : Sent(h) \/ WaitReturns(h) \/ HandlerEnds(h) \/ HandlerFails(h)
    <2>1. PICK h \in handlers : Sent(h) \/ WaitReturns(h) \/ HandlerEnds(h) \/ HandlerFails(h)
      BY <1>8
    <2>2. UNCHANGED walletVars
      BY <2>1 DEF Sent, WaitReturns, HandlerEnds, HandlerFails
    <2>3. WalletInv' /\ shown'.account = shown.account
      BY <1>4, <2>2
    <2>4. QED
      BY <2>1, <2>3, HandlersGoOn
  <1>9. QED
    BY <1>2, <1>3, <1>5, <1>6, <1>7, <1>8 DEF PanelStep

-----------------------------------------------------------------------------
(* The figures. *)

Refreshes == [step : {"ended", "figures", "tee"}, stats : Readable, history : Readable]

LEMMA EndedIsARefresh == Ended \in Refreshes /\ [Ended EXCEPT !.step = "tee"] \in Refreshes
  BY DEF Ended, Refreshes, Readable

LEMMA FiguresStart == ASSUME FiguresInit PROVE FiguresTypeOK
  <1>1. refresh \in [Slots -> Refreshes]
    BY EndedIsARefresh DEF FiguresInit
  <1>2. QED
    BY <1>1 DEF FiguresInit, FiguresTypeOK, Refreshes, Readable

LEMMA ReadsKeep ==
  ASSUME FiguresTypeOK, NEW s \in Slots, NEW r \in Refreshes, Reads(s, r)
  PROVE  FiguresTypeOK'
  <1>. DEFINE both == r.stats # Unread /\ r.history # Unread
  <1>1. /\ refresh' = [refresh EXCEPT ![s] = IF both THEN [Ended EXCEPT !.step = "tee"] ELSE r]
        /\ page' = IF both THEN Shown(r) ELSE page
        /\ UNCHANGED <<trades, rpcUp, outages>>
    BY DEF Reads
  <1>. HIDE DEF both
  <1>2. refresh' \in [Slots -> Refreshes]
    BY <1>1, EndedIsARefresh DEF FiguresTypeOK, Refreshes
  <1>3. page' \in [stats : Readable, history : Readable, error : BOOLEAN]
    BY <1>1 DEF FiguresTypeOK, Refreshes, Shown
  <1>4. QED
    BY <1>1, <1>2, <1>3 DEF FiguresTypeOK, Refreshes

LEMMA FiguresKeep == ASSUME FiguresTypeOK, FiguresStep PROVE FiguresTypeOK'
  <1>1. refresh \in [Slots -> Refreshes] /\ trades \in 0..MaxTrades /\ trades \in Readable
    BY DEF FiguresTypeOK, Refreshes, Readable
  <1>2. CASE TradeSettles
    BY <1>2 DEF TradeSettles, FiguresTypeOK
  <1>3. CASE RpcChanges
    BY <1>3 DEF RpcChanges, FiguresTypeOK
  <1>4. ASSUME NEW s \in Slots, Refresh(s) PROVE FiguresTypeOK'
    BY <1>4 DEF Refresh, FiguresTypeOK
  <1>5. ASSUME NEW s \in Slots, ReadStats(s) PROVE FiguresTypeOK'
    <2>1. [refresh[s] EXCEPT !.stats = trades] \in Refreshes
      BY <1>1, <1>5 DEF Refreshes
    <2>2. QED
      BY <1>5, <2>1, ReadsKeep DEF ReadStats
  <1>6. ASSUME NEW s \in Slots, ReadHistory(s) PROVE FiguresTypeOK'
    <2>1. [refresh[s] EXCEPT !.history = trades] \in Refreshes
      BY <1>1, <1>6 DEF Refreshes
    <2>2. QED
      BY <1>6, <2>1, ReadsKeep DEF ReadHistory
  <1>7. ASSUME NEW s \in Slots, ReadTEE(s) PROVE FiguresTypeOK'
    <2>1. refresh' \in [Slots -> Refreshes]
      BY <1>1, <1>7, EndedIsARefresh DEF ReadTEE
    <2>2. QED
      BY <1>7, <2>1 DEF ReadTEE, FiguresTypeOK, Refreshes
  <1>8. ASSUME NEW s \in Slots, RefreshFails(s) PROVE FiguresTypeOK'
    <2>1. refresh' \in [Slots -> Refreshes]
      BY <1>1, <1>8, EndedIsARefresh DEF RefreshFails
    <2>2. QED
      BY <1>8, <2>1 DEF RefreshFails, FiguresTypeOK, Refreshes
  <1>9. QED
    BY <1>2, <1>3, <1>4, <1>5, <1>6, <1>7, <1>8 DEF FiguresStep, Answer

-----------------------------------------------------------------------------
(* The page. *)

DashInv == half \in {"forms", "figures"} /\ WalletInv /\ PanelInv /\ FiguresTypeOK

LEMMA DashStarts == Init => DashInv
  <1>1. SUFFICES ASSUME Init PROVE DashInv
    OBVIOUS
  <1>2. shown.account = None
    BY <1>1 DEF Init, WalletInit, InitialState
  <1>3. QED
    BY <1>1, <1>2, WalletStarts, PanelStarts, FiguresStart DEF Init, DashInv

LEMMA DashKeeps == DashInv /\ [Next]_vars => DashInv'
  <1>1. SUFFICES ASSUME DashInv, [Next]_vars PROVE DashInv'
    OBVIOUS
  <1>2. ASSUME UNCHANGED figureVars PROVE FiguresTypeOK'
    BY <1>1, <1>2 DEF DashInv, FiguresTypeOK, figureVars
  <1>3. ASSUME UNCHANGED <<walletVars, panelVars>> PROVE WalletInv' /\ PanelInv'
    <2>1. shown'.account = shown.account
      BY <1>3 DEF walletVars
    <2>2. QED
      BY <1>1, <1>3, <2>1, WalletQuiet, PanelQuiet DEF DashInv
  <1>4. CASE FormsStep
    BY <1>1, <1>2, <1>4, FormsKeep DEF FormsStep, DashInv
  <1>5. CASE FiguresMove
    BY <1>1, <1>3, <1>5, FiguresKeep DEF FiguresMove, DashInv
  <1>6. CASE UNCHANGED vars
    BY <1>1, <1>2, <1>3, <1>6 DEF vars, DashInv
  <1>7. QED
    BY <1>1, <1>4, <1>5, <1>6 DEF Next

LEMMA DashInvariant == Spec => []DashInv
  BY DashStarts, DashKeeps, PTL DEF Spec

(* The wallet, the panels and the figures stay in their types and bounds,  *)
(* whatever steps they take (useWallet.ts, the panels, page.tsx).          *)
THEOREM DashboardTypes == Spec => []TypeOK
  <1>1. DashInv => TypeOK
    BY PanelTypes DEF DashInv, WalletInv, TypeOK
  <1>2. QED
    BY <1>1, DashInvariant, PTL

(* Once every connect has ended, the page shows the wallet's account and   *)
(* network, unless a late connect wrote them (useWallet.ts, connect).      *)
THEOREM WalletIsShown == Spec => []ShownIsTheWallets
  <1>1. DashInv => ShownIsTheWallets
    BY DEF DashInv, WalletInv
  <1>2. QED
    BY <1>1, DashInvariant, PTL

(* No spinner outlives the work it stands for (useWallet.ts,               *)
(* InvestPanel.tsx, WithdrawPanel.tsx, PortfolioPanel.tsx).                *)
THEOREM SpinnersEnd == Spec => []BusyMeansInFlight
  <1>1. DashInv => BusyMeansInFlight
    BY DEF DashInv, WalletInv, PanelInv, FormInv, HandlersInv, BusyMeansInFlight
  <1>2. QED
    BY <1>1, DashInvariant, PTL

(* Of two transactions in flight, the earlier one had been disturbed: the  *)
(* buttons alone do not let a second one begin (InvestPanel.tsx,           *)
(* WithdrawPanel.tsx).                                                     *)
THEOREM ButtonsHoldOneTransaction == Spec => []OneTransactionAtATime
  <1>1. DashInv => OneTransactionAtATime
    BY DEF DashInv, PanelInv, HandlersInv
  <1>2. QED
    BY <1>1, DashInvariant, PTL

(* A withdrawal that is being signed goes to an address the user typed or  *)
(* to an account the panel has shown (WithdrawPanel.tsx).                  *)
THEOREM WithdrawalsGoWhereShown == Spec => []DestinationKnown
  <1>1. DashInv => DestinationKnown
    BY DEF DashInv, PanelInv, HandlersInv
  <1>2. QED
    BY <1>1, DashInvariant, PTL
=============================================================================

------------------------- MODULE FlageVaultProofs -------------------------
(***************************************************************************)
(* Proofs about FlageVault.tla, for all values of its constants.           *)
(*                                                                         *)
(* The inductive invariant IInv says what a transaction has changed at     *)
(* each point of router.swap, relative to the snapshot it started from:    *)
(* before the first successful pull nothing but the allowance for exactly  *)
(* the signed amount; while a DEX runs, the signed amount is with the      *)
(* router and the allowance is gone; after that either a DEX has paid, or  *)
(* the allowance is zero for good and only a trade of amount zero can go   *)
(* on, so that two DEXs never fill one trade.                              *)
(***************************************************************************)
EXTENDS FlageVault, TLAPS

Zero == [t \in Tokens |-> 0]
NoDexAllowance == [t \in Tokens |-> [d \in Dexes |-> 0]]

(* The router has what the owner withdrew to it, and lets no DEX take it.  *)
RouterClean == routerBalance = sentToRouter /\ dexAllowance = NoDexAllowance

Saved == trade.saved
Paid == trade.payload

(* What executeTrade has checked and written before it calls the router.   *)
SavedClean ==
  /\ Saved.routerBalance = sentToRouter
  /\ Saved.allowance = Zero
  /\ Saved.dexAllowance = NoDexAllowance

Checked ==
  /\ tee[trade.signer] = "active"
  /\ Paid.nonce \notin Saved.usedNonces[trade.signer]
  /\ pairs[Paid.pair].active
  /\ Paid.amount <= pairs[Paid.pair].maxPositionSize
  /\ Saved.dailyVolume[Paid.pair][Today] + Paid.amount <= pairs[Paid.pair].maxDailyVolume
  /\ swap.amountIn = Paid.amount
  /\ swap.tokenIn \in {pairs[Paid.pair].tokenA, pairs[Paid.pair].tokenB}

Written ==
  /\ usedNonces = [Saved.usedNonces EXCEPT ![trade.signer] = @ \cup {Paid.nonce}]
  /\ dailyVolume = [Saved.dailyVolume EXCEPT ![Paid.pair][Today] = @ + Paid.amount]

(* No DEX has been paid yet: the vault is whole and the router may take    *)
(* the signed amount once.                                                 *)
Fresh ==
  /\ vaultBalance = Saved.vaultBalance
  /\ allowance = [Zero EXCEPT ![swap.tokenIn] = swap.amountIn]

(* The allowance has been used up without a DEX paying out.                *)
Spent ==
  /\ swap.amountIn > 0
  /\ allowance = Zero
  /\ SpendsAtMostSignedAmount

InLoop == RouterClean /\ (Fresh \/ Spent)

Pulled == [Saved.vaultBalance EXCEPT ![swap.tokenIn] = @ - swap.amountIn]

InCall ==
  /\ swap.i <= Len(Configs)
  /\ swap.amountIn > 0 => PulledToken(Config) = swap.tokenIn
  /\ allowance = Zero
  /\ swap.amountIn <= Saved.vaultBalance[swap.tokenIn]
  /\ vaultBalance = Pulled
  /\ routerBalance = [sentToRouter EXCEPT ![PulledToken(Config)] = @ + swap.amountIn]
  /\ dexAllowance = [NoDexAllowance EXCEPT ![PulledToken(Config)][Config.router] = swap.amountIn]

HasPaid ==
  /\ RouterClean
  /\ allowance = Zero
  /\ swap.amountIn <= Saved.vaultBalance[swap.tokenIn]
  /\ swap.amountOut \in Outputs
  /\ swap.amountOut > 0
  /\ \E t \in Tokens : vaultBalance = [Pulled EXCEPT ![t] = @ + swap.amountOut]

AtRestInv == swap = NoSwap /\ RouterClean /\ allowance = Zero

InTradeInv ==
  /\ swap \in Swaps
  /\ SavedClean
  /\ Checked
  /\ Written
  /\ swap.pc = "loop" => InLoop
  /\ swap.pc = "called" => InCall
  /\ swap.pc = "returned" => HasPaid

IInv ==
  /\ TypeOK
  /\ trade = NoTrade => AtRestInv
  /\ trade # NoTrade => InTradeInv

-----------------------------------------------------------------------------
(* Facts about the constants.                                              *)

(* An active configuration of a pair comes from the owner's menu, so its   *)
(* tokens are tokens.                                                      *)
LEMMA ActivePairs ==
  ASSUME NEW c \in PairConfigs
  PROVE  /\ SetActive(c, FALSE) \in PairConfigs
         /\ c.active \in BOOLEAN
         /\ c.active => c \in PairConfig
<1>1. CASE c = UnsetPair
  BY <1>1 DEF UnsetPair, PairConfigs, SetActive
<1>2. CASE c # UnsetPair
  <2>1. PICK m \in PairMenu : c = SetActive(m, TRUE) \/ c = SetActive(m, FALSE)
    BY <1>2 DEF PairConfigs
  <2>2. m \in PairConfig
    BY VaultAssumption
  <2>3. /\ c \in PairConfig
        /\ SetActive(c, FALSE) = SetActive(m, FALSE)
    <3>1. CASE c = SetActive(m, TRUE)
      BY <3>1, <2>2 DEF PairConfig, SetActive
    <3>2. CASE c = SetActive(m, FALSE)
      BY <3>2, <2>2 DEF PairConfig, SetActive
    <3> QED
      BY <2>1, <3>1, <3>2
  <2>4. SetActive(m, FALSE) \in PairConfigs
    BY DEF PairConfigs
  <2> QED
    BY <2>3, <2>4 DEF PairConfig
<1> QED
  BY <1>1, <1>2

LEMMA MenuPairs ==
  ASSUME NEW m \in PairMenu
  PROVE  SetActive(m, TRUE) \in PairConfigs
BY DEF PairConfigs

-----------------------------------------------------------------------------
(* IInv is inductive.                                                      *)

LEMMA InitIInv == Init => IInv
<1> SUFFICES ASSUME Init PROVE IInv
  OBVIOUS
<1>1. RouterTypeOK
  <2>1. <<>> \in Seq(DEXConfig)
    OBVIOUS
  <2> QED
    BY <2>1 DEF Init, RouterInit, RouterTypeOK
<1>3. /\ tee \in [Signers -> {"none", "active", "inactive"}]
      /\ usedNonces \in [Signers -> SUBSET Nonces]
      /\ dailyVolume \in [Pairs -> [Days -> Nat]]
      /\ whitelistedTokens \subseteq Tokens
      /\ totalTrades \in Nat
      /\ netFunding \in [Tokens -> Int]
      /\ sentToVault \in [Tokens -> Nat]
      /\ sentToRouter \in [Tokens -> Nat]
  BY DEF Init
<1>4. /\ pairs \in [Pairs -> PairConfigs]
      /\ trade \in Trades \cup {NoTrade}
      /\ receipts \in Seq(Receipt)
  BY DEF Init, PairConfigs
<1>5. now \in 0..MaxTime
  BY VaultAssumption DEF Init
<1>2. AtRestInv
  BY DEF Init, RouterInit, AtRestInv, RouterClean, Zero, NoDexAllowance
<1> QED
  BY <1>1, <1>2, <1>3, <1>4, <1>5 DEF Init, IInv, TypeOK

(* The vault owner's calls and the clock.                                  *)
OwnerStep ==
  \/ \E s \in Signers : RegisterTEE(s) \/ DeactivateTEE(s)
  \/ \E p \in Pairs, m \in PairMenu : ConfigurePair(p, m)
  \/ \E p \in Pairs : DeactivatePair(p)
  \/ \E t \in Tokens : WhitelistToken(t)
  \/ \E t \in Tokens, n \in Amounts : Deposit(t, n)
  \/ \E t \in Tokens, n \in Amounts, to \in Recipients : Withdraw(t, n, to)
  \/ Tick

LEMMA OwnerIInv ==
  ASSUME IInv, OwnerStep
  PROVE  IInv'
<1> USE DEF routerVars, vaultConfig, journal, funding, tokenState, routerConfig, Idle
<1>0. /\ TypeOK /\ trade = NoTrade /\ AtRestInv
  BY DEF IInv, OwnerStep, RegisterTEE, DeactivateTEE, ConfigurePair, DeactivatePair,
     WhitelistToken, Deposit, Withdraw, Tick
<1>1. TypeOK'
  <2>1. ASSUME NEW s \in Signers, RegisterTEE(s) \/ DeactivateTEE(s)
        PROVE  TypeOK'
    BY <1>0, <2>1 DEF TypeOK, RouterTypeOK, RegisterTEE, DeactivateTEE
  <2>2. ASSUME NEW p \in Pairs, NEW m \in PairMenu, ConfigurePair(p, m)
        PROVE  TypeOK'
    BY <1>0, <2>2, MenuPairs DEF TypeOK, RouterTypeOK, ConfigurePair
  <2>3. ASSUME NEW p \in Pairs, DeactivatePair(p)
        PROVE  TypeOK'
    BY <1>0, <2>3, ActivePairs DEF TypeOK, RouterTypeOK, DeactivatePair
  <2>4. ASSUME (\E t \in Tokens : WhitelistToken(t)) \/ Tick
        PROVE  TypeOK'
    BY <1>0, <2>4, VaultAssumption DEF TypeOK, RouterTypeOK, WhitelistToken, Tick
  <2>5. ASSUME NEW t \in Tokens, NEW n \in Amounts, Deposit(t, n)
        PROVE  TypeOK'
    <3>1. n \in Nat
      BY RouterAssumption
    <3>2. vaultBalance[t] \in Nat /\ netFunding[t] \in Int
      BY <1>0 DEF TypeOK, RouterTypeOK
    <3>3. /\ vaultBalance' \in [Tokens -> Nat]
          /\ netFunding' \in [Tokens -> Int]
      BY <1>0, <2>5, <3>1, <3>2 DEF TypeOK, RouterTypeOK, Deposit
    <3> QED
      BY <1>0, <2>5, <3>3 DEF TypeOK, RouterTypeOK, Deposit
  <2>6. ASSUME NEW t \in Tokens, NEW n \in Amounts, NEW to \in Recipients,
               Withdraw(t, n, to)
        PROVE  TypeOK'
    <3>1. n \in Nat
      BY RouterAssumption
    <3>2. vaultBalance[t] \in Nat /\ vaultBalance[t] >= n
      BY <1>0, <2>6 DEF TypeOK, RouterTypeOK, Withdraw
    <3>3. /\ vaultBalance \in [Tokens -> Nat] /\ routerBalance \in [Tokens -> Nat]
          /\ sentToVault \in [Tokens -> Nat] /\ sentToRouter \in [Tokens -> Nat]
      BY <1>0 DEF TypeOK, RouterTypeOK
    <3>5. /\ [vaultBalance EXCEPT ![t] = @ - n] \in [Tokens -> Nat]
          /\ [routerBalance EXCEPT ![t] = @ + n] \in [Tokens -> Nat]
          /\ [sentToVault EXCEPT ![t] = @ + n] \in [Tokens -> Nat]
          /\ [sentToRouter EXCEPT ![t] = @ + n] \in [Tokens -> Nat]
      BY <3>1, <3>2, <3>3
    <3>6. /\ vaultBalance' \in [Tokens -> Nat] /\ routerBalance' \in [Tokens -> Nat]
          /\ sentToVault' \in [Tokens -> Nat] /\ sentToRouter' \in [Tokens -> Nat]
      BY <2>6, <3>3, <3>5 DEF Withdraw
    <3>4. netFunding' \in [Tokens -> Int]
      BY <1>0, <2>6, <3>1 DEF TypeOK, Withdraw
    <3> QED
      BY <1>0, <2>6, <3>4, <3>6 DEF TypeOK, RouterTypeOK, Withdraw
  <2> QED
    BY <2>1, <2>2, <2>3, <2>4, <2>5, <2>6 DEF OwnerStep
<1>2. /\ trade' = NoTrade
      /\ UNCHANGED <<allowance, dexAllowance, swap>>
  BY <1>0 DEF OwnerStep, RegisterTEE, DeactivateTEE, ConfigurePair, DeactivatePair,
     WhitelistToken, Deposit, Withdraw, Tick
<1>3. routerBalance' = sentToRouter'
  <2>1. routerBalance = sentToRouter /\ sentToRouter \in [Tokens -> Nat]
    BY <1>0 DEF AtRestInv, RouterClean, TypeOK
  <2>2. ASSUME NEW t \in Tokens, NEW n \in Amounts, NEW to \in Recipients,
               Withdraw(t, n, to)
        PROVE  routerBalance' = sentToRouter'
    <3>1. CASE to = "router"
      BY <2>1, <2>2, <3>1 DEF Withdraw
    <3>2. CASE to \in {"vault", "outside"}
      BY <2>1, <2>2, <3>2 DEF Withdraw
    <3> QED
      BY <3>1, <3>2 DEF Recipients
  <2>3. ASSUME \/ \E s \in Signers : RegisterTEE(s) \/ DeactivateTEE(s)
               \/ \E p \in Pairs, m \in PairMenu : ConfigurePair(p, m)
               \/ \E p \in Pairs : DeactivatePair(p)
               \/ \E t \in Tokens : WhitelistToken(t)
               \/ \E t \in Tokens, n \in Amounts : Deposit(t, n)
               \/ Tick
        PROVE  UNCHANGED <<routerBalance, sentToRouter>>
    BY <2>3 DEF RegisterTEE, DeactivateTEE, ConfigurePair, DeactivatePair, WhitelistToken,
       Deposit, Tick
  <2> QED
    BY <2>1, <2>2, <2>3 DEF OwnerStep
<1>4. AtRestInv'
  BY <1>0, <1>2, <1>3 DEF AtRestInv, RouterClean, Zero, NoDexAllowance
<1> QED
  BY <1>1, <1>2, <1>4 DEF IInv

(* The router owner's calls.                                               *)
LEMMA RouterOwnerIInv ==
  ASSUME IInv, RouterOwnerStep
  PROVE  IInv'
<1> USE DEF vars, routerVars, vaultConfig, journal, funding, tokenState, routerConfig, Idle
<1>0. /\ TypeOK /\ trade = NoTrade /\ AtRestInv
      /\ trade' = NoTrade
      /\ UNCHANGED <<tokenState, swap, vaultConfig, usedNonces, dailyVolume, now, journal>>
  BY DEF IInv, RouterOwnerStep, SetVault, AddDEXConfig, DeactivateDEX
<1>1. /\ vaultIsSet' \in BOOLEAN
      /\ dexConfigs' \in [Tokens \X Tokens -> Seq(DEXConfig)]
  <2>1. CASE \E b \in BOOLEAN : SetVault(b)
    BY <1>0, <2>1 DEF SetVault, TypeOK, RouterTypeOK
  <2>2. ASSUME NEW d \in DexMenu, AddDEXConfig(d)
        PROVE  <1>1!1 /\ <1>1!2
    <3>1. d.key \in Tokens \X Tokens /\ [d.config EXCEPT !.active = TRUE] \in DEXConfig
      BY RouterAssumption DEF DEXConfig
    <3>2. Append(dexConfigs[d.key], [d.config EXCEPT !.active = TRUE]) \in Seq(DEXConfig)
      BY <1>0, <3>1 DEF TypeOK, RouterTypeOK
    <3> QED
      BY <1>0, <2>2, <3>1, <3>2 DEF AddDEXConfig, TypeOK, RouterTypeOK
  <2>3. ASSUME NEW key \in Tokens \X Tokens, NEW index \in 1..MaxConfigs,
               DeactivateDEX(key, index)
        PROVE  <1>1!1 /\ <1>1!2
    <3> DEFINE list == dexConfigs[key]
    <3>1. list \in Seq(DEXConfig) /\ index \in 1..Len(list)
      BY <1>0, <2>3 DEF TypeOK, RouterTypeOK, DeactivateDEX
    <3>2. list[index] \in DEXConfig
      BY <3>1
    <3>3. [list[index] EXCEPT !.active = FALSE] \in DEXConfig
      BY <3>2 DEF DEXConfig
    <3>4. [list EXCEPT ![index] = [list[index] EXCEPT !.active = FALSE]] \in Seq(DEXConfig)
      BY <3>1, <3>3
    <3>5. dexConfigs' = [dexConfigs EXCEPT ![key] =
                           [list EXCEPT ![index] = [list[index] EXCEPT !.active = FALSE]]]
      BY <2>3 DEF DeactivateDEX
    <3>6. vaultIsSet' = vaultIsSet
      BY <2>3 DEF DeactivateDEX
    <3> QED
      BY <1>0, <3>4, <3>5, <3>6 DEF TypeOK, RouterTypeOK
  <2> QED
    BY <2>1, <2>2, <2>3 DEF RouterOwnerStep
<1>2. TypeOK'
  BY <1>0, <1>1 DEF TypeOK, RouterTypeOK
<1>3. AtRestInv'
  BY <1>0 DEF AtRestInv, RouterClean, Zero, NoDexAllowance
<1> QED
  BY <1>0, <1>2, <1>3 DEF IInv

(* A trade in progress is not the absence of one.                          *)
LEMMA TradesAreTrades ==
  ASSUME NEW x \in Trades
  PROVE  x # NoTrade
<1>1. DOMAIN x = {"signer", "payload", "saved"}
  BY DEF Trades
<1>2. DOMAIN NoTrade = {"signer"}
  BY DEF NoTrade
<1> QED
  BY <1>1, <1>2

LEMMA SwapsAreSwaps ==
  ASSUME NEW x \in Swaps
  PROVE  /\ x # NoSwap
         /\ x.pc \in {"loop", "called", "returned"}
BY DEF Swaps, NoSwap

(* Balances.                                                               *)
LEMMA Unmoved ==
  ASSUME NEW f \in [Tokens -> Nat], NEW t \in Tokens
  PROVE  [f EXCEPT ![t] = @ - 0] = f /\ [f EXCEPT ![t] = @ + 0] = f
<1>1. f[t] - 0 = f[t] /\ f[t] + 0 = f[t]
  OBVIOUS
<1> QED
  BY <1>1

LEMMA Taken ==
  ASSUME NEW f \in [Tokens -> Nat], NEW t \in Tokens, NEW n \in Nat, n <= f[t]
  PROVE  [f EXCEPT ![t] = @ - n] \in [Tokens -> Nat]
<1>1. f[t] - n \in Nat
  OBVIOUS
<1> QED
  BY <1>1

(* The updates of the record of a call.                                    *)
LEMMA NextIndex ==
  ASSUME NEW x \in Swaps
  PROVE  /\ [x EXCEPT !.i = x.i + 1] \in Swaps
         /\ [x EXCEPT !.i = x.i + 1].pc = x.pc
         /\ [x EXCEPT !.i = x.i + 1].amountIn = x.amountIn
         /\ [x EXCEPT !.i = x.i + 1].tokenIn = x.tokenIn
BY DEF Swaps

LEMMA NextPoint ==
  ASSUME NEW x \in Swaps, NEW out \in Nat
  PROVE  /\ [x EXCEPT !.pc = "called"] \in Swaps
         /\ [x EXCEPT !.pc = "called"].pc = "called"
         /\ [x EXCEPT !.pc = "loop", !.i = x.i + 1] \in Swaps
         /\ [x EXCEPT !.pc = "loop", !.i = x.i + 1].pc = "loop"
         /\ [x EXCEPT !.pc = "returned", !.amountOut = out] \in Swaps
         /\ [x EXCEPT !.pc = "returned", !.amountOut = out].pc = "returned"
         /\ [x EXCEPT !.pc = "returned", !.amountOut = out].amountOut = out
<1>1. /\ [x EXCEPT !.pc = "called"] \in Swaps
      /\ [x EXCEPT !.pc = "called"].pc = "called"
  <2>1. "called" \in {"loop", "called", "returned"}
    OBVIOUS
  <2> QED
    BY <2>1 DEF Swaps
<1>2. /\ [x EXCEPT !.pc = "loop", !.i = x.i + 1] \in Swaps
      /\ [x EXCEPT !.pc = "loop", !.i = x.i + 1].pc = "loop"
  <2>1. "loop" \in {"loop", "called", "returned"} /\ x.i + 1 \in Nat \ {0}
    BY DEF Swaps
  <2> QED
    BY <2>1 DEF Swaps
<1>3. /\ [x EXCEPT !.pc = "returned", !.amountOut = out] \in Swaps
      /\ [x EXCEPT !.pc = "returned", !.amountOut = out].pc = "returned"
      /\ [x EXCEPT !.pc = "returned", !.amountOut = out].amountOut = out
  <2>1. "returned" \in {"loop", "called", "returned"}
    OBVIOUS
  <2> QED
    BY <2>1 DEF Swaps
<1> QED
  BY <1>1, <1>2, <1>3

LEMMA SameCall ==
  ASSUME NEW x \in Swaps, NEW out \in Nat,
         NEW y \in {[x EXCEPT !.pc = "called"],
                    [x EXCEPT !.pc = "loop", !.i = x.i + 1],
                    [x EXCEPT !.pc = "returned", !.amountOut = out]}
  PROVE  /\ y.amountIn = x.amountIn
         /\ y.tokenIn = x.tokenIn
         /\ y.tokenOut = x.tokenOut
<1>1. CASE y = [x EXCEPT !.pc = "called"]
  BY <1>1 DEF Swaps
<1>2. CASE y = [x EXCEPT !.pc = "loop", !.i = x.i + 1]
  BY <1>2 DEF Swaps
<1>3. CASE y = [x EXCEPT !.pc = "returned", !.amountOut = out]
  BY <1>3 DEF Swaps
<1> QED
  BY <1>1, <1>2, <1>3

LEMMA ExecuteIInv ==
  ASSUME IInv, NEW s \in Signers, NEW p \in Payload, ExecuteTrade(s, p)
  PROVE  IInv' /\ trade' # NoTrade
<1>0. /\ TypeOK /\ trade = NoTrade /\ AtRestInv
  BY DEF IInv, ExecuteTrade, Idle
<1>1. /\ p.action \in {BUY, SELL} /\ p.pair \in Pairs /\ p.amount \in Nat
      /\ p.priceLimit \in Nat /\ p.nonce \in Nonces
  BY RouterAssumption, VaultAssumption DEF Payload
<1>2. Today \in Days
  BY <1>0 DEF TypeOK, Days, Today
<1>3. /\ pairs[p.pair] \in PairConfig
      /\ TokenIn(p) \in Tokens /\ TokenOut(p) \in Tokens
      /\ TokenIn(p) \in {pairs[p.pair].tokenA, pairs[p.pair].tokenB}
  <2>1. pairs[p.pair] \in PairConfigs /\ pairs[p.pair].active
    BY <1>0, <1>1 DEF TypeOK, ExecuteTrade, WithinLimits
  <2>2. pairs[p.pair] \in PairConfig
    BY <2>1, ActivePairs
  <2> QED
    BY <2>2 DEF PairConfig, TokenIn, TokenOut
<1>4. /\ dailyVolume[p.pair][Today] \in Nat
      /\ NewVolume(p) = dailyVolume[p.pair][Today] + p.amount
      /\ NewVolume(p) \in Nat
  BY <1>0, <1>1, <1>2 DEF TypeOK, NewVolume
<1>5. allowance' = [Zero EXCEPT ![TokenIn(p)] = p.amount]
  <2>1. allowance' = [Zero EXCEPT ![TokenIn(p)] = Zero[TokenIn(p)] + p.amount]
    BY <1>0 DEF ExecuteTrade, ApproveRouter, AtRestInv
  <2>2. Zero[TokenIn(p)] + p.amount = p.amount
    BY <1>1, <1>3 DEF Zero
  <2> QED
    BY <2>1, <2>2
<1>6. swap' \in Swaps
  BY <1>1, <1>3 DEF ExecuteTrade, SwapCall, Swaps
<1>7. trade' \in Trades /\ trade' # NoTrade
  <2>1. [usedNonces |-> usedNonces, dailyVolume |-> dailyVolume,
         vaultBalance |-> vaultBalance, routerBalance |-> routerBalance,
         allowance |-> allowance, dexAllowance |-> dexAllowance] \in Snapshot
    BY <1>0 DEF TypeOK, RouterTypeOK, Snapshot
  <2>2. trade' \in Trades
    BY <2>1 DEF ExecuteTrade, Trades
  <2> QED
    BY <2>2, TradesAreTrades
<1>8. /\ usedNonces' \in [Signers -> SUBSET Nonces]
      /\ dailyVolume' \in [Pairs -> [Days -> Nat]]
      /\ allowance' \in [Tokens -> Nat]
  <2>1. usedNonces' \in [Signers -> SUBSET Nonces]
    BY <1>0, <1>1 DEF TypeOK, ExecuteTrade
  <2>2. dailyVolume' \in [Pairs -> [Days -> Nat]]
    BY <1>0, <1>1, <1>2, <1>4 DEF TypeOK, ExecuteTrade
  <2>3. allowance' \in [Tokens -> Nat]
    BY <1>1, <1>3, <1>5 DEF Zero
  <2> QED
    BY <2>1, <2>2, <2>3
<1>9. TypeOK'
  BY <1>0, <1>6, <1>7, <1>8 DEF TypeOK, RouterTypeOK, ExecuteTrade, routerConfig, vaultConfig,
     journal, funding
<1>10. /\ trade'.signer = s /\ trade'.payload = p
       /\ trade'.saved.usedNonces = usedNonces
       /\ trade'.saved.dailyVolume = dailyVolume
       /\ trade'.saved.vaultBalance = vaultBalance
       /\ trade'.saved.routerBalance = routerBalance
       /\ trade'.saved.allowance = allowance
       /\ trade'.saved.dexAllowance = dexAllowance
       /\ swap'.pc = "loop" /\ swap'.tokenIn = TokenIn(p) /\ swap'.amountIn = p.amount
       /\ UNCHANGED <<vaultBalance, routerBalance, dexAllowance, tee, pairs, now, sentToRouter>>
  BY DEF ExecuteTrade, SwapCall, vaultConfig, journal, funding
<1>11. SavedClean'
  BY <1>0, <1>10 DEF SavedClean, Saved, AtRestInv, RouterClean, Zero, NoDexAllowance
<1>12. Checked'
  BY <1>0, <1>3, <1>4, <1>10 DEF Checked, Saved, Paid, ExecuteTrade, Accepted, WithinLimits, Today
<1>13. Written'
  BY <1>4, <1>10 DEF Written, Saved, Paid, ExecuteTrade, Today
<1>14. InLoop'
  BY <1>0, <1>5, <1>10 DEF InLoop, RouterClean, Fresh, Saved, AtRestInv, Zero, NoDexAllowance
<1> QED
  BY <1>6, <1>7, <1>9, <1>10, <1>11, <1>12, <1>13, <1>14 DEF IInv, InTradeInv

(* The steps of the swap change neither the trade nor the vault's storage. *)
LEMMA RouterStepIInv ==
  ASSUME IInv, RouterStep
  PROVE  IInv'
<1> USE DEF vaultConfig, journal, funding, tokenState, routerConfig
<1>0. /\ TypeOK /\ InTradeInv /\ trade # NoTrade /\ swap \in Swaps
      /\ swap.pc \in {"loop", "called"}
      /\ UNCHANGED <<tee, usedNonces, pairs, dailyVolume, whitelistedTokens, totalTrades,
                     now, trade, receipts, netFunding, sentToVault, sentToRouter,
                     vaultIsSet, dexConfigs>>
  <2>1. swap.pc \in {"loop", "called"}
    BY DEF RouterStep, SwapStep, SkipDEX, PullFromVault, DEXFills, DEXReverts, Looking
  <2>2. trade # NoTrade
    BY <2>1 DEF IInv, AtRestInv, NoSwap
  <2> QED
    BY <2>1, <2>2 DEF IInv, InTradeInv, RouterStep, SwapStep, SkipDEX, PullFromVault,
       DEXFills, DEXReverts
<1>1. /\ swap.amountIn \in Nat /\ swap.tokenIn \in Tokens /\ swap.tokenOut \in Tokens
      /\ swap.i \in Nat \ {0}
      /\ trade \in Trades
      /\ Saved.vaultBalance \in [Tokens -> Nat]
      /\ Configs \in Seq(DEXConfig)
      /\ swap.i <= Len(Configs) =>
           /\ Config \in DEXConfig
           /\ Config.router \in Dexes
           /\ PulledToken(Config) \in Tokens /\ PaidToken(Config) \in Tokens
  <2>1. /\ swap.amountIn \in Nat /\ swap.tokenIn \in Tokens /\ swap.tokenOut \in Tokens
        /\ swap.i \in Nat \ {0}
    BY <1>0 DEF Swaps
  <2>2. trade \in Trades /\ Saved.vaultBalance \in [Tokens -> Nat]
    BY <1>0 DEF TypeOK, Trades, Snapshot, Saved
  <2>3. Configs \in Seq(DEXConfig)
    BY <1>0, <2>1 DEF TypeOK, RouterTypeOK, Configs
  <2>4. ASSUME swap.i <= Len(Configs)
        PROVE  Config \in DEXConfig
    BY <2>1, <2>3, <2>4 DEF Config
  <2>5. ASSUME Config \in DEXConfig
        PROVE  /\ Config.router \in Dexes
               /\ PulledToken(Config) \in Tokens /\ PaidToken(Config) \in Tokens
    BY <2>1, <2>5 DEF DEXConfig, PulledToken, PaidToken
  <2> QED
    BY <2>1, <2>2, <2>3, <2>4, <2>5
<1>2. SavedClean' /\ Written'
  BY <1>0 DEF InTradeInv, SavedClean, Written, Saved, Paid, Today, Zero, NoDexAllowance
<1>3. ASSUME UNCHANGED <<swap.amountIn, swap.tokenIn>>
      PROVE  Checked'
  BY <1>0, <1>3 DEF InTradeInv, Checked, Saved, Paid, Today
(* What the steps have in common: IInv' from the swap record, the token    *)
(* state's type, and the part of the invariant at the new control point.   *)
<1>4. ASSUME swap' \in Swaps, UNCHANGED <<swap.amountIn, swap.tokenIn>>,
             vaultBalance' \in [Tokens -> Nat], routerBalance' \in [Tokens -> Nat],
             allowance' \in [Tokens -> Nat],
             dexAllowance' \in [Tokens -> [Dexes -> Nat]],
             swap'.pc = "loop" => InLoop',
             swap'.pc = "called" => InCall',
             swap'.pc = "returned" => HasPaid'
      PROVE  IInv'
  <2>1. TypeOK'
    BY <1>0, <1>4 DEF TypeOK, RouterTypeOK
  <2> QED
    BY <1>0, <1>2, <1>3, <1>4, <2>1 DEF IInv, InTradeInv
<1>5. CASE SkipDEX
  <2>1. /\ swap' \in Swaps /\ swap'.pc = "loop" /\ swap.pc = "loop"
        /\ UNCHANGED <<swap.amountIn, swap.tokenIn>>
        /\ UNCHANGED tokenState
    <3>1. swap.pc = "loop" /\ swap' = [swap EXCEPT !.i = swap.i + 1] /\ UNCHANGED tokenState
      BY <1>5 DEF SkipDEX, Looking
    <3>2. swap' \in Swaps
      BY <1>0, <1>1, <3>1, NextIndex
    <3> QED
      BY <1>0, <3>1, <3>2, NextIndex
  <2>2. InLoop'
    BY <1>0, <2>1 DEF InTradeInv, InLoop, RouterClean, Fresh, Spent, SpendsAtMostSignedAmount,
       Saved, Zero, NoDexAllowance, Idle
  <2> QED
    BY <1>0, <1>4, <2>1, <2>2 DEF TypeOK, RouterTypeOK
<1>6. CASE PullFromVault
  <2> DEFINE t == PulledToken(Config)
             amt == swap.amountIn
  <2>1. /\ swap.pc = "loop" /\ swap.i <= Len(Configs)
        /\ allowance[t] >= amt /\ vaultBalance[t] >= amt
        /\ swap' = [swap EXCEPT !.pc = "called"]
        /\ allowance' = [allowance EXCEPT ![t] = @ - amt]
        /\ vaultBalance' = [vaultBalance EXCEPT ![t] = @ - amt]
        /\ routerBalance' = [routerBalance EXCEPT ![t] = @ + amt]
        /\ dexAllowance' = [dexAllowance EXCEPT ![t][Config.router] = @ + amt]
    BY <1>6 DEF PullFromVault, Looking, CanPull
  <2>2. /\ swap' \in Swaps /\ swap'.pc = "called"
        /\ UNCHANGED <<swap.amountIn, swap.tokenIn, swap.tokenOut>>
        /\ swap'.i = swap.i
    BY <1>0, <2>1, NextPoint, SameCall DEF Swaps
  <2>3. t \in Tokens /\ Config.router \in Dexes /\ amt \in Nat
    BY <1>1, <2>1
  <2>4. InLoop
    BY <1>0, <2>1 DEF InTradeInv
  <2>5. Fresh
    BY <2>1, <2>3, <2>4 DEF InLoop, Spent, Zero
  <2>6. amt > 0 => t = swap.tokenIn
    BY <1>1, <2>1, <2>3, <2>5 DEF Fresh, Zero
  <2>7. allowance' = Zero
    BY <1>1, <2>1, <2>3, <2>5, <2>6 DEF Fresh, Zero
  <2>8. /\ vaultBalance' = Pulled
        /\ amt <= Saved.vaultBalance[swap.tokenIn]
        /\ vaultBalance' \in [Tokens -> Nat]
    <3>1. vaultBalance = Saved.vaultBalance
      BY <2>5 DEF Fresh
    <3>2. CASE amt = 0
      <4>1. vaultBalance' = vaultBalance
        BY <1>1, <2>1, <2>3, <3>1, <3>2, Unmoved
      <4>2. Pulled = Saved.vaultBalance
        BY <1>1, <3>2, Unmoved DEF Pulled
      <4>3. amt <= Saved.vaultBalance[swap.tokenIn]
        BY <1>1, <3>2
      <4> QED
        BY <1>1, <3>1, <4>1, <4>2, <4>3
    <3>3. CASE amt > 0
      <4>1. vaultBalance' = Pulled
        BY <2>1, <2>6, <3>1, <3>3 DEF Pulled
      <4>2. amt <= Saved.vaultBalance[swap.tokenIn]
        BY <1>1, <2>1, <2>6, <3>1, <3>3
      <4>3. Pulled \in [Tokens -> Nat]
        BY <1>1, <4>2, Taken DEF Pulled
      <4> QED
        BY <4>1, <4>2, <4>3
    <3> QED
      BY <2>3, <3>2, <3>3
  <2>9. /\ routerBalance' = [sentToRouter EXCEPT ![t] = @ + amt]
        /\ routerBalance' \in [Tokens -> Nat]
    <3>1. routerBalance = sentToRouter /\ sentToRouter \in [Tokens -> Nat]
      BY <1>0, <2>4 DEF InLoop, RouterClean, TypeOK
    <3> QED
      BY <2>1, <2>3, <3>1
  <2>10. dexAllowance' = [NoDexAllowance EXCEPT ![t][Config.router] = amt]
    <3>1. /\ dexAllowance = NoDexAllowance
          /\ NoDexAllowance[t][Config.router] + amt = amt
      BY <2>3, <2>4 DEF InLoop, RouterClean, NoDexAllowance
    <3> QED
      BY <2>1, <3>1
  <2>11. Configs' = Configs /\ Config' = Config /\ PulledToken(Config)' = t
         /\ Pulled' = Pulled /\ Saved' = Saved
    BY <1>0, <2>2 DEF Configs, Config, PulledToken, Pulled, Saved
  <2>12. InCall'
    BY <1>0, <2>1, <2>2, <2>6, <2>7, <2>8, <2>9, <2>10, <2>11 DEF InCall, Zero, NoDexAllowance
  <2>13. /\ routerBalance' \in [Tokens -> Nat]
         /\ allowance' \in [Tokens -> Nat]
         /\ dexAllowance' \in [Tokens -> [Dexes -> Nat]]
    BY <2>3, <2>7, <2>9, <2>10 DEF Zero, NoDexAllowance
  <2> QED
    BY <1>4, <2>2, <2>8, <2>12, <2>13
<1>7. ASSUME NEW out \in Nat,
             swap.pc = "called", InCall, RouterClean', allowance' = allowance,
             UNCHANGED <<swap.amountIn, swap.tokenIn>>,
             swap' \in Swaps, swap'.pc = "loop",
             swap.amountIn = 0 => vaultBalance' = Saved.vaultBalance,
             vaultBalance' \in [Tokens -> Nat],
             \A u \in Tokens : vaultBalance'[u] >= Pulled[u]
      PROVE  IInv'
  <2>1. allowance' = Zero /\ Saved' = Saved
    BY <1>0, <1>7 DEF InCall, Saved
  <2>2. ASSUME swap.amountIn = 0
        PROVE  InLoop'
    <3>1. Zero = [Zero EXCEPT ![swap.tokenIn] = 0]
      BY <1>1 DEF Zero
    <3>2. Zero' = Zero
      BY DEF Zero
    <3> QED
      BY <1>7, <2>1, <2>2, <3>1, <3>2 DEF InLoop, Fresh
  <2>3. ASSUME swap.amountIn > 0
        PROVE  InLoop'
    <3>1. ASSUME NEW u \in Tokens
          PROVE  vaultBalance'[u] >= Saved.vaultBalance[u]
                   - (IF u = swap.tokenIn THEN swap.amountIn ELSE 0)
      <4>1. vaultBalance'[u] >= Pulled[u]
        BY <1>7
      <4>2. Saved.vaultBalance[u] \in Nat
        BY <1>1
      <4> QED
        BY <1>1, <4>1, <4>2 DEF Pulled
    <3>2. SpendsAtMostSignedAmount'
      BY <1>7, <2>1, <3>1 DEF SpendsAtMostSignedAmount, Saved
    <3> QED
      BY <1>7, <2>1, <2>3, <3>2 DEF InLoop, Spent, Zero
  <2>4. InLoop'
    BY <1>1, <2>2, <2>3
  <2>5. /\ routerBalance' \in [Tokens -> Nat]
        /\ allowance' \in [Tokens -> Nat]
        /\ dexAllowance' \in [Tokens -> [Dexes -> Nat]]
    BY <1>0, <1>7, <2>1 DEF RouterClean, Zero, NoDexAllowance, TypeOK
  <2> QED
    BY <1>4, <1>7, <2>4, <2>5
<1>8. ASSUME swap.pc = "called",
             routerBalance' = [routerBalance EXCEPT ![PulledToken(Config)] = @ - swap.amountIn],
             dexAllowance' = [dexAllowance EXCEPT
                                ![PulledToken(Config)][Config.router] = @ - swap.amountIn]
      PROVE  InCall /\ RouterClean'
  <2>1. InCall
    BY <1>0, <1>8 DEF InTradeInv
  <2>2. PulledToken(Config) \in Tokens /\ Config.router \in Dexes
    BY <1>1, <2>1 DEF InCall
  <2>3. routerBalance' = sentToRouter'
    <3>1. /\ sentToRouter \in [Tokens -> Nat] /\ sentToRouter' = sentToRouter
          /\ routerBalance = [sentToRouter EXCEPT ![PulledToken(Config)] = @ + swap.amountIn]
      BY <1>0, <2>1 DEF TypeOK, InCall
    <3> QED
      BY <1>1, <1>8, <2>2, <3>1
  <2>4. dexAllowance' = NoDexAllowance
    <3> DEFINE t == PulledToken(Config)
               d == Config.router
    <3>1. dexAllowance = [NoDexAllowance EXCEPT ![t][d] = swap.amountIn]
      BY <2>1 DEF InCall
    <3>2. dexAllowance[t][d] - swap.amountIn = 0
      BY <1>1, <2>2, <3>1 DEF NoDexAllowance
    <3>3. dexAllowance' = [dexAllowance EXCEPT ![t][d] = 0]
      BY <1>8, <3>2
    <3> QED
      BY <2>2, <3>1, <3>3 DEF NoDexAllowance
  <2> QED
    BY <2>1, <2>3, <2>4 DEF RouterClean, Zero, NoDexAllowance
<1>9. ASSUME NEW out \in Outputs, DEXFills(out)
      PROVE  IInv'
  <2>1. /\ InCall /\ RouterClean' /\ swap.pc = "called" /\ allowance' = allowance
        /\ vaultBalance' = [vaultBalance EXCEPT ![PaidToken(Config)] = @ + out]
    BY <1>8, <1>9 DEF DEXFills
  <2>2. out \in Nat
    BY RouterAssumption
  <2>3. PaidToken(Config) \in Tokens
    BY <1>1, <2>1 DEF InCall
  <2>4. /\ Pulled \in [Tokens -> Nat]
        /\ vaultBalance' = [Pulled EXCEPT ![PaidToken(Config)] = @ + out]
    BY <1>1, <2>1 DEF InCall, Pulled
  <2>5. vaultBalance' \in [Tokens -> Nat]
    BY <2>2, <2>3, <2>4
  <2>6. CASE out > 0
    <3>1. swap' = [swap EXCEPT !.pc = "returned", !.amountOut = out]
      BY <1>9, <2>6 DEF DEXFills
    <3>2. /\ swap' \in Swaps /\ swap'.pc = "returned" /\ swap'.amountOut = out
          /\ UNCHANGED <<swap.amountIn, swap.tokenIn>>
      BY <1>0, <2>2, <3>1, NextPoint, SameCall
    <3>3. Pulled' = Pulled /\ Saved' = Saved
      BY <1>0, <3>2 DEF Pulled, Saved
    <3>4. allowance' = Zero /\ swap.amountIn <= Saved.vaultBalance[swap.tokenIn]
      BY <2>1 DEF InCall
    <3>5. HasPaid'
      BY <2>1, <2>3, <2>4, <2>6, <3>2, <3>3, <3>4 DEF HasPaid, Zero
    <3>6. /\ routerBalance' \in [Tokens -> Nat]
          /\ allowance' \in [Tokens -> Nat]
          /\ dexAllowance' \in [Tokens -> [Dexes -> Nat]]
      BY <1>0, <2>1, <3>4 DEF RouterClean, Zero, NoDexAllowance, TypeOK
    <3> QED
      BY <1>4, <2>5, <3>2, <3>5, <3>6
  <2>7. CASE out = 0
    <3>1. swap' = [swap EXCEPT !.pc = "loop", !.i = swap.i + 1]
      BY <1>9, <2>7 DEF DEXFills
    <3>2. /\ swap' \in Swaps /\ swap'.pc = "loop"
          /\ UNCHANGED <<swap.amountIn, swap.tokenIn>>
      BY <1>0, <2>2, <3>1, NextPoint, SameCall
    <3>3. vaultBalance' = Pulled
      BY <2>3, <2>4, <2>7
    <3>4. swap.amountIn = 0 => Pulled = Saved.vaultBalance
      BY <1>1 DEF Pulled
    <3>5. \A u \in Tokens : vaultBalance'[u] >= Pulled[u]
      BY <2>4, <3>3
    <3> QED
      BY <1>7, <2>1, <2>2, <2>5, <3>2, <3>3, <3>4, <3>5
  <2> QED
    BY <2>2, <2>6, <2>7
<1>10. CASE DEXReverts
  <2> DEFINE t == PulledToken(Config)
  <2>1. /\ InCall /\ RouterClean' /\ swap.pc = "called" /\ allowance' = allowance
        /\ vaultBalance' = [vaultBalance EXCEPT ![t] = @ + swap.amountIn]
        /\ swap' = [swap EXCEPT !.pc = "loop", !.i = swap.i + 1]
    BY <1>8, <1>10 DEF DEXReverts
  <2>2. /\ swap' \in Swaps /\ swap'.pc = "loop"
        /\ UNCHANGED <<swap.amountIn, swap.tokenIn>>
    BY <1>0, <2>1, NextPoint, SameCall
  <2>3. t \in Tokens
    BY <1>1, <2>1 DEF InCall
  <2>4. /\ Pulled \in [Tokens -> Nat]
        /\ vaultBalance' = [Pulled EXCEPT ![t] = @ + swap.amountIn]
    BY <1>1, <2>1 DEF InCall, Pulled
  <2>5. /\ vaultBalance' \in [Tokens -> Nat]
        /\ \A u \in Tokens : vaultBalance'[u] >= Pulled[u]
        /\ swap.amountIn = 0 => vaultBalance' = Pulled
    BY <1>1, <2>3, <2>4
  <2>6. swap.amountIn = 0 => Pulled = Saved.vaultBalance
    BY <1>1 DEF Pulled
  <2> QED
    BY <1>7, <2>1, <2>2, <2>5, <2>6
<1> QED
  BY <1>5, <1>6, <1>9, <1>10 DEF RouterStep, SwapStep

LEMMA CompleteIInv ==
  ASSUME IInv, CompleteTrade
  PROVE  /\ IInv'
         /\ trade \in Trades /\ InTradeInv /\ HasPaid
         /\ trade' = NoTrade
<1>0. /\ TypeOK /\ InTradeInv /\ trade # NoTrade /\ swap \in Swaps /\ HasPaid
      /\ trade' = NoTrade /\ swap' = NoSwap
  BY DEF IInv, AtRestInv, NoSwap, InTradeInv, CompleteTrade
<1>1. trade \in Trades
  BY <1>0 DEF TypeOK
<1>2. [signer |-> trade.signer, nonce |-> trade.payload.nonce,
       pair |-> trade.payload.pair, day |-> Today, action |-> trade.payload.action,
       amount |-> swap.amountIn, priceLimit |-> swap.priceLimit,
       tokenIn |-> swap.tokenIn, tokenOut |-> swap.tokenOut,
       amountOut |-> swap.amountOut] \in Receipt
  <2>1. trade.signer \in Signers /\ trade.payload \in Payload
    BY <1>1 DEF Trades
  <2>2. /\ trade.payload.nonce \in Nonces /\ trade.payload.pair \in Pairs
        /\ trade.payload.action \in {BUY, SELL}
    BY <2>1 DEF Payload
  <2>3. Today \in Days
    BY <1>0 DEF TypeOK, Days, Today
  <2>4. /\ swap.amountIn \in Nat /\ swap.priceLimit \in Nat /\ swap.amountOut \in Nat
        /\ swap.tokenIn \in Tokens /\ swap.tokenOut \in Tokens
    BY <1>0 DEF Swaps
  <2> QED
    BY <2>1, <2>2, <2>3, <2>4 DEF Receipt
<1>3. receipts' \in Seq(Receipt) /\ totalTrades' \in Nat
  BY <1>0, <1>2 DEF CompleteTrade, TypeOK
<1>4. /\ UNCHANGED <<routerConfig, tokenState, vaultConfig, usedNonces, dailyVolume,
                     now, netFunding, sentToVault, sentToRouter>>
  BY DEF CompleteTrade, funding
<1>5. TypeOK'
  BY <1>0, <1>3, <1>4 DEF TypeOK, RouterTypeOK, routerConfig, tokenState, vaultConfig
<1>6. AtRestInv'
  BY <1>0, <1>4 DEF HasPaid, AtRestInv, RouterClean, tokenState, Zero, NoDexAllowance
<1> QED
  BY <1>0, <1>1, <1>5, <1>6 DEF IInv

LEMMA RevertIInv ==
  ASSUME IInv, RevertTrade
  PROVE  /\ IInv'
         /\ trade # NoTrade
         /\ trade' = NoTrade
<1>0. /\ TypeOK /\ InTradeInv /\ trade # NoTrade
      /\ trade' = NoTrade /\ swap' = NoSwap
  BY DEF IInv, AtRestInv, NoSwap, RevertTrade, SwapReverts
<1>1. Saved \in Snapshot
  BY <1>0 DEF TypeOK, Trades, Saved
<1>2. /\ usedNonces' = Saved.usedNonces /\ dailyVolume' = Saved.dailyVolume
      /\ vaultBalance' = Saved.vaultBalance /\ routerBalance' = Saved.routerBalance
      /\ allowance' = Saved.allowance /\ dexAllowance' = Saved.dexAllowance
      /\ UNCHANGED <<routerConfig, vaultConfig, now, totalTrades, receipts,
                     netFunding, sentToVault, sentToRouter>>
  BY DEF RevertTrade, Saved, journal, funding
<1>3. TypeOK'
  BY <1>0, <1>1, <1>2 DEF TypeOK, RouterTypeOK, Snapshot, routerConfig, vaultConfig
<1>4. AtRestInv'
  BY <1>0, <1>2 DEF InTradeInv, SavedClean, AtRestInv, RouterClean, Zero, NoDexAllowance
<1> QED
  BY <1>0, <1>3, <1>4 DEF IInv

LEMMA StutterIInv ==
  ASSUME IInv, UNCHANGED vars
  PROVE  IInv'
<1> USE DEF vars, routerVars, vaultConfig, journal, funding
<1>1. TypeOK'
  BY DEF IInv, TypeOK, RouterTypeOK
<1>2. ASSUME trade = NoTrade
      PROVE  AtRestInv'
  BY <1>2 DEF IInv, AtRestInv, RouterClean, Zero, NoDexAllowance
<1>3. ASSUME trade # NoTrade
      PROVE  InTradeInv'
  <2>1. InTradeInv
    BY <1>3 DEF IInv
  <2>2. (swap \in Swaps /\ SavedClean /\ Checked /\ Written)'
    BY <2>1 DEF InTradeInv, SavedClean, Checked, Written, Saved, Paid, Today, Zero,
       NoDexAllowance
  <2>3. (swap.pc = "loop" => InLoop)'
    BY <2>1 DEF InTradeInv, InLoop, RouterClean, Fresh, Spent, SpendsAtMostSignedAmount, Idle,
       Saved, Zero, NoDexAllowance
  <2>4. (swap.pc = "called" => InCall)'
    BY <2>1 DEF InTradeInv, InCall, Pulled, PulledToken, Config, Configs, Saved, Zero,
       NoDexAllowance
  <2>5. (swap.pc = "returned" => HasPaid)'
    BY <2>1 DEF InTradeInv, HasPaid, RouterClean, Pulled, Saved, Zero, NoDexAllowance
  <2> QED
    BY <2>2, <2>3, <2>4, <2>5 DEF InTradeInv
<1> QED
  BY <1>1, <1>2, <1>3 DEF IInv

LEMMA NextIInv == IInv /\ [Next]_vars => IInv'
<1> SUFFICES ASSUME IInv, [Next]_vars PROVE IInv'
  OBVIOUS
<1>1. CASE OwnerStep
  BY <1>1, OwnerIInv
<1>2. ASSUME NEW s \in Signers, NEW p \in Payload, ExecuteTrade(s, p)
      PROVE  IInv'
  BY <1>2, ExecuteIInv
<1>3. CASE RouterStep
  BY <1>3, RouterStepIInv
<1>4. CASE CompleteTrade
  BY <1>4, CompleteIInv
<1>5. CASE RevertTrade
  BY <1>5, RevertIInv
<1>6. CASE RouterOwnerStep
  BY <1>6, RouterOwnerIInv
<1>7. CASE UNCHANGED vars
  BY <1>7, StutterIInv
<1> QED
  BY <1>1, <1>2, <1>3, <1>4, <1>5, <1>6, <1>7 DEF Next, OwnerStep

-----------------------------------------------------------------------------
(* Theorems.                                                               *)

(* IInv holds in every reachable state of executeTrade and router.swap.    *)
THEOREM Invariance == Spec => []IInv
<1>1. Init => IInv
  BY InitIInv
<1>2. IInv /\ [Next]_vars => IInv'
  BY NextIInv
<1> QED
  BY <1>1, <1>2, PTL DEF Spec

(* Every variable keeps its type; in particular no balance and no          *)
(* allowance ever goes below zero, so no subtraction the contracts do      *)
(* reverts where the model lets it through.                                *)
THEOREM TypeCorrect == Spec => []TypeOK
<1>1. IInv => TypeOK
  BY DEF IInv
<1> QED
  BY <1>1, Invariance, PTL

(* Between transactions nothing is left with the router but the tokens     *)
(* that the owner withdrew to it: no token of a trade, no allowance from   *)
(* the vault, no allowance to a DEX.                                       *)
THEOREM RouterIsLeftClean == Spec => []RouterLeftClean
<1>1. IInv => RouterLeftClean
  <2>1. ASSUME AtRestInv, NEW t \in Tokens
        PROVE  /\ routerBalance[t] = sentToRouter[t] /\ allowance[t] = 0
               /\ \A d \in Dexes : dexAllowance[t][d] = 0
    BY <2>1 DEF AtRestInv, RouterClean, Zero, NoDexAllowance
  <2> QED
    BY <2>1 DEF IInv, RouterLeftClean, Idle
<1> QED
  BY <1>1, Invariance, PTL

(* At every step of every transaction the vault has given away no more     *)
(* than the signed amount of the signed token.                             *)
THEOREM SpendingIsBounded == Spec => []SpendsAtMostSignedAmount
<1>1. IInv => SpendsAtMostSignedAmount
  <2> SUFFICES ASSUME IInv, trade # NoTrade
               PROVE  SpendsAtMostSignedAmount
    BY DEF SpendsAtMostSignedAmount, Idle
  <2>1. InTradeInv /\ trade \in Trades /\ swap \in Swaps
    BY DEF IInv, InTradeInv, TypeOK
  <2>2. /\ Saved.vaultBalance \in [Tokens -> Nat]
        /\ swap.amountIn \in Nat /\ swap.tokenIn \in Tokens
        /\ swap.pc \in {"loop", "called", "returned"}
    BY <2>1 DEF Trades, Snapshot, Saved, Swaps
  <2> DEFINE Bound(u) == Saved.vaultBalance[u]
                           - (IF u = swap.tokenIn THEN swap.amountIn ELSE 0)
  <2>3. ASSUME \A u \in Tokens : vaultBalance[u] >= Bound(u)
        PROVE  SpendsAtMostSignedAmount
    BY <2>3 DEF SpendsAtMostSignedAmount, Saved
  <2>4. \A u \in Tokens : Pulled[u] = Bound(u) /\ Bound(u) \in Int
    BY <2>2 DEF Pulled
  <2>5. CASE swap.pc = "loop" /\ Fresh
    <3>1. \A u \in Tokens : vaultBalance[u] >= Bound(u)
      BY <2>2, <2>5 DEF Fresh
    <3> QED
      BY <2>3, <3>1
  <2>6. CASE swap.pc = "loop" /\ Spent
    BY <2>6 DEF Spent
  <2>7. CASE swap.pc = "called"
    <3>1. vaultBalance = Pulled
      BY <2>1, <2>7 DEF InTradeInv, InCall
    <3>2. \A u \in Tokens : vaultBalance[u] >= Bound(u)
      <4> SUFFICES ASSUME NEW u \in Tokens
                   PROVE  vaultBalance[u] >= Bound(u)
        OBVIOUS
      <4> HIDE DEF Bound
      <4>1. vaultBalance[u] = Bound(u) /\ Bound(u) \in Int
        BY <2>4, <3>1
      <4> QED
        BY <4>1
    <3> QED
      BY <2>3, <3>2
  <2>8. CASE swap.pc = "returned"
    <3>1. PICK t \in Tokens : vaultBalance = [Pulled EXCEPT ![t] = @ + swap.amountOut]
      BY <2>1, <2>8 DEF InTradeInv, HasPaid
    <3>2. swap.amountOut \in Nat
      BY <2>1 DEF Swaps
    <3>3. \A u \in Tokens : vaultBalance[u] >= Pulled[u]
      <4>1. Pulled \in [Tokens -> Int]
        BY <2>2 DEF Pulled
      <4> QED
        BY <3>1, <3>2, <4>1
    <3>4. \A u \in Tokens : vaultBalance[u] >= Bound(u)
      BY <2>4, <3>3
    <3> QED
      BY <2>3, <3>4
  <2> QED
    BY <2>1, <2>2, <2>5, <2>6, <2>7, <2>8 DEF InTradeInv, InLoop
<1> QED
  BY <1>1, Invariance, PTL
=============================================================================

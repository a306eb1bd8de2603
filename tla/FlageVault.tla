---------------------------- MODULE FlageVault ----------------------------
(***************************************************************************)
(* packages/contracts/src/FlageVault.sol composed with the router it calls *)
(* (DEXRouter.tla) into the transactions of one chain.                     *)
(*                                                                         *)
(* executeTrade is ExecuteTrade (the checks and the writes that precede    *)
(* the call of router.swap), the steps of the swap, and CompleteTrade or   *)
(* RevertTrade.  Transactions do not overlap: every other action waits for *)
(* `trade` to be NoTrade.  A call that fails its checks reverts at once    *)
(* and changes nothing, so it is no step at all.                           *)
(*                                                                         *)
(* The sender is modelled only where the code asks for it: the actions     *)
(* under "Owner" are the owner's, ExecuteTrade is anybody's who holds a    *)
(* signed payload, and any payload may have been signed by any signer.     *)
(***************************************************************************)
EXTENDS DEXRouter, FiniteSetsExt

CONSTANTS Signers,      \* addresses a signature can recover to
          Nonces,
          Pairs,
          PairMenu,     \* the configurations the vault's owner may give a pair
          PriceLimits,  \* values of payload.priceLimit
          ZeroAddress,  \* tokens of a pair nobody has configured
          DayLength,    \* clock ticks in `1 days`
          MaxTime,      \* bound: the clock stops here
          MaxBalance,   \* bound: the owner deposits no further than this
          MaxStray      \* bound: withdrawn to the two contracts, all tokens together

BUY == 0
SELL == 1    \* what every other value of payload.action does as well

Days == {t \div DayLength : t \in 0..MaxTime}
PairConfig == [tokenA : Tokens, tokenB : Tokens,
               maxPositionSize : Nat, maxDailyVolume : Nat, active : BOOLEAN]
UnsetPair == [tokenA |-> ZeroAddress, tokenB |-> ZeroAddress,
              maxPositionSize |-> 0, maxDailyVolume |-> 0, active |-> FALSE]

ASSUME VaultAssumption ==
  /\ PairMenu \subseteq PairConfig
  /\ PriceLimits \subseteq Nat
  /\ DayLength \in Nat \ {0}
  /\ MaxTime \in Nat
  /\ MaxBalance \in Nat
  /\ MaxStray \in Nat
  /\ ZeroAddress \notin Tokens

SetActive(c, active) ==
  [tokenA |-> c.tokenA, tokenB |-> c.tokenB, maxPositionSize |-> c.maxPositionSize,
   maxDailyVolume |-> c.maxDailyVolume, active |-> active]

PairConfigs == {UnsetPair} \cup {SetActive(m, TRUE) : m \in PairMenu}
                          \cup {SetActive(m, FALSE) : m \in PairMenu}

Payload == [action : {BUY, SELL}, pair : Pairs, amount : Amounts,
            priceLimit : PriceLimits, deadline : 0..MaxTime,
            nonce : Nonces, vault : {"this", "other"}]

VARIABLES
  tee,                \* signer -> its registration: "none", "active", "inactive"
  usedNonces,         \* signer -> nonces marked used
  pairs,              \* pair -> configuration
  dailyVolume,        \* pair -> day -> volume
  whitelistedTokens,
  totalTrades,
  now,                \* block.timestamp
  trade,              \* the executeTrade in progress
  receipts,           \* the TradeExecuted and SwapExecuted events, in order
  netFunding,         \* token -> amounts of Deposited less those of Withdrawn events
  sentToVault,        \* token -> amounts of Withdrawn events whose `to` is the vault
  sentToRouter        \* token -> amounts of those whose `to` is the router

vaultConfig == <<tee, pairs, whitelistedTokens>>
funding == <<netFunding, sentToVault, sentToRouter>>
journal == <<totalTrades, receipts, funding>>
vars == <<routerVars, vaultConfig, usedNonces, dailyVolume, now, trade, journal>>

NoTrade == [signer |-> "nobody"]

(* What a revert undoes: the state as the transaction found it.            *)
Snapshot == [usedNonces : [Signers -> SUBSET Nonces],
             dailyVolume : [Pairs -> [Days -> Nat]],
             vaultBalance : [Tokens -> Nat],
             routerBalance : [Tokens -> Nat],
             allowance : [Tokens -> Nat],
             dexAllowance : [Tokens -> [Dexes -> Nat]]]

Trades == [signer : Signers, payload : Payload, saved : Snapshot]

Receipt == [signer : Signers, nonce : Nonces, pair : Pairs, day : Days,
            action : {BUY, SELL}, amount : Nat, priceLimit : Nat,
            tokenIn : Tokens, tokenOut : Tokens, amountOut : Nat]

(* The types; of balances and allowances, that no step drives them below   *)
(* zero: every transfer and every decrease of an allowance is covered.     *)
TypeOK ==
  /\ RouterTypeOK
  /\ tee \in [Signers -> {"none", "active", "inactive"}]
  /\ usedNonces \in [Signers -> SUBSET Nonces]
  /\ pairs \in [Pairs -> PairConfigs]
  /\ dailyVolume \in [Pairs -> [Days -> Nat]]
  /\ whitelistedTokens \subseteq Tokens
  /\ totalTrades \in Nat
  /\ now \in 0..MaxTime
  /\ trade \in Trades \cup {NoTrade}
  /\ receipts \in Seq(Receipt)
  /\ netFunding \in [Tokens -> Int]
  /\ sentToVault \in [Tokens -> Nat]
  /\ sentToRouter \in [Tokens -> Nat]

Init ==
  /\ RouterInit
  /\ tee = [s \in Signers |-> "none"]
  /\ usedNonces = [s \in Signers |-> {}]
  /\ pairs = [p \in Pairs |-> UnsetPair]
  /\ dailyVolume = [p \in Pairs |-> [d \in Days |-> 0]]
  /\ whitelistedTokens = {}
  /\ totalTrades = 0
  /\ now = 0
  /\ trade = NoTrade
  /\ receipts = <<>>
  /\ netFunding = [t \in Tokens |-> 0]
  /\ sentToVault = [t \in Tokens |-> 0]
  /\ sentToRouter = [t \in Tokens |-> 0]

Idle == trade = NoTrade

-----------------------------------------------------------------------------
(* Owner: TEE registrations and pairs.                                     *)

(* Mutant of RegisterTEE: a key registered again starts with no nonces.    *)
RegisterTEEAfresh(s) ==
  /\ Idle
  /\ tee' = [tee EXCEPT ![s] = "active"]
  /\ usedNonces' = [usedNonces EXCEPT ![s] = {}]
  /\ UNCHANGED <<routerVars, pairs, whitelistedTokens, dailyVolume, now, trade, journal>>

(* Registering an active or a revoked key again makes it active.           *)
RegisterTEE(s) ==
  /\ Idle
  /\ tee' = [tee EXCEPT ![s] = "active"]
  /\ UNCHANGED <<routerVars, pairs, whitelistedTokens, usedNonces, dailyVolume,
                 now, trade, journal>>

(* A key that was never registered keeps its zero signingAddress.          *)
DeactivateTEE(s) ==
  /\ Idle
  /\ tee' = [tee EXCEPT ![s] = IF @ = "none" THEN "none" ELSE "inactive"]
  /\ UNCHANGED <<routerVars, pairs, whitelistedTokens, usedNonces, dailyVolume,
                 now, trade, journal>>

ConfigurePair(p, m) ==
  /\ Idle
  /\ pairs' = [pairs EXCEPT ![p] = SetActive(m, TRUE)]
  /\ UNCHANGED <<routerVars, tee, whitelistedTokens, usedNonces, dailyVolume,
                 now, trade, journal>>

DeactivatePair(p) ==
  /\ Idle
  /\ pairs' = [pairs EXCEPT ![p] = SetActive(@, FALSE)]
  /\ UNCHANGED <<routerVars, tee, whitelistedTokens, usedNonces, dailyVolume,
                 now, trade, journal>>

(* Owner: capital.                                                         *)

WhitelistToken(t) ==
  /\ Idle
  /\ whitelistedTokens' = whitelistedTokens \cup {t}
  /\ UNCHANGED <<routerVars, tee, pairs, usedNonces, dailyVolume,
                 now, trade, journal>>

Deposit(t, amount) ==
  /\ Idle
  /\ t \in whitelistedTokens
  /\ vaultBalance[t] + amount <= MaxBalance
  /\ vaultBalance' = [vaultBalance EXCEPT ![t] = @ + amount]
  /\ netFunding' = [netFunding EXCEPT ![t] = @ + amount]
  /\ UNCHANGED <<routerConfig, routerBalance, allowance, dexAllowance, swap, vaultConfig,
                 usedNonces, dailyVolume, now, trade, totalTrades, receipts,
                 sentToVault, sentToRouter>>

(* The `to` of a withdrawal is any address but zero.  To the vault itself  *)
(* the token moves nothing; to the router it stays there, for no call that *)
(* is modelled here moves the router's own tokens.  The event is the same. *)
Recipients == {"outside", "vault", "router"}
Stray == SumFunction(sentToVault) + SumFunction(sentToRouter)

(* Mutant of Withdraw: the token does not check the balance.               *)
WithdrawUnchecked(t, amount, to) ==
  /\ Idle
  /\ t \in whitelistedTokens
  /\ to = "outside"
  /\ vaultBalance' = [vaultBalance EXCEPT ![t] = @ - amount]
  /\ netFunding' = [netFunding EXCEPT ![t] = @ - amount]
  /\ UNCHANGED <<routerConfig, routerBalance, allowance, dexAllowance, swap, vaultConfig,
                 usedNonces, dailyVolume, now, trade, totalTrades, receipts,
                 sentToVault, sentToRouter>>

Withdraw(t, amount, to) ==
  /\ Idle
  /\ t \in whitelistedTokens
  /\ vaultBalance[t] >= amount
  /\ to # "outside" => Stray + amount <= MaxStray
  /\ \/ /\ to = "vault"
        /\ sentToVault' = [sentToVault EXCEPT ![t] = @ + amount]
        /\ UNCHANGED <<vaultBalance, routerBalance, sentToRouter>>
     \/ /\ to = "router"
        /\ vaultBalance' = [vaultBalance EXCEPT ![t] = @ - amount]
        /\ routerBalance' = [routerBalance EXCEPT ![t] = @ + amount]
        /\ sentToRouter' = [sentToRouter EXCEPT ![t] = @ + amount]
        /\ UNCHANGED sentToVault
     \/ /\ to = "outside"
        /\ vaultBalance' = [vaultBalance EXCEPT ![t] = @ - amount]
        /\ UNCHANGED <<routerBalance, sentToVault, sentToRouter>>
  /\ netFunding' = [netFunding EXCEPT ![t] = @ - amount]
  /\ UNCHANGED <<routerConfig, allowance, dexAllowance, swap, vaultConfig,
                 usedNonces, dailyVolume, now, trade, totalTrades, receipts>>

-----------------------------------------------------------------------------
(* executeTrade.                                                           *)

TokenIn(p) == IF p.action = BUY THEN pairs[p.pair].tokenB ELSE pairs[p.pair].tokenA
TokenOut(p) == IF p.action = BUY THEN pairs[p.pair].tokenA ELSE pairs[p.pair].tokenB
Today == now \div DayLength

(* Mutant of Accepted: a key that was registered once is good for ever.    *)
AcceptedOnceRegistered(s, p) ==
  /\ now <= p.deadline
  /\ p.vault = "this"
  /\ tee[s] # "none"
  /\ p.nonce \notin usedNonces[s]

(* The checks that read the payload, the registration and the nonce.       *)
Accepted(s, p) ==
  /\ now <= p.deadline
  /\ p.vault = "this"
  /\ tee[s] = "active"
  /\ p.nonce \notin usedNonces[s]

(* Mutant of NewVolume: the last trade's amount instead of the day's sum.  *)
VolumeOfThisTrade(p) == p.amount

NewVolume(p) == dailyVolume[p.pair][Today] + p.amount

(* Mutant of WithinLimits: a paused pair still trades.                     *)
WithinLimitsIgnoringPause(p) ==
  /\ pairs[p.pair].tokenA # ZeroAddress
  /\ p.amount <= pairs[p.pair].maxPositionSize
  /\ NewVolume(p) <= pairs[p.pair].maxDailyVolume

WithinLimits(p) ==
  /\ pairs[p.pair].active
  /\ p.amount <= pairs[p.pair].maxPositionSize
  /\ NewVolume(p) <= pairs[p.pair].maxDailyVolume

(* Mutant of ApproveRouter: approves without limit, as a unit test does.   *)
ApproveUnlimited(p) ==
  allowance' = [allowance EXCEPT ![TokenIn(p)] = 1000]

(* safeIncreaseAllowance(dexRouter, payload.amount).                       *)
ApproveRouter(p) ==
  allowance' = [allowance EXCEPT ![TokenIn(p)] = @ + p.amount]

(* Up to and with the call of router.swap, which answers only its vault.   *)
ExecuteTrade(s, p) ==
  /\ Idle
  /\ Accepted(s, p)
  /\ WithinLimits(p)
  /\ vaultIsSet
  /\ usedNonces' = [usedNonces EXCEPT ![s] = @ \cup {p.nonce}]
  /\ dailyVolume' = [dailyVolume EXCEPT ![p.pair][Today] = NewVolume(p)]
  /\ ApproveRouter(p)
  /\ swap' = SwapCall(TokenIn(p), TokenOut(p), p.amount, p.priceLimit)
  /\ trade' = [signer |-> s, payload |-> p,
               saved |-> [usedNonces |-> usedNonces, dailyVolume |-> dailyVolume,
                          vaultBalance |-> vaultBalance, routerBalance |-> routerBalance,
                          allowance |-> allowance, dexAllowance |-> dexAllowance]]
  /\ UNCHANGED <<routerConfig, vaultBalance, routerBalance, dexAllowance, vaultConfig,
                 now, journal>>

RouterStep ==
  /\ SwapStep
  /\ UNCHANGED <<vaultConfig, usedNonces, dailyVolume, now, trade, journal>>

(* swap has returned: the trade is counted and its events emitted.         *)
CompleteTrade ==
  /\ swap.pc = "returned"
  /\ totalTrades' = totalTrades + 1
  /\ receipts' = Append(receipts,
       [signer |-> trade.signer, nonce |-> trade.payload.nonce,
        pair |-> trade.payload.pair, day |-> Today, action |-> trade.payload.action,
        amount |-> swap.amountIn, priceLimit |-> swap.priceLimit,
        tokenIn |-> swap.tokenIn, tokenOut |-> swap.tokenOut,
        amountOut |-> swap.amountOut])
  /\ swap' = NoSwap
  /\ trade' = NoTrade
  /\ UNCHANGED <<routerConfig, tokenState, vaultConfig, usedNonces, dailyVolume,
                 now, funding>>

(* The revert of swap reverts the whole transaction, the nonce included.   *)
RevertTrade ==
  /\ SwapReverts
  /\ usedNonces' = trade.saved.usedNonces
  /\ dailyVolume' = trade.saved.dailyVolume
  /\ vaultBalance' = trade.saved.vaultBalance
  /\ routerBalance' = trade.saved.routerBalance
  /\ allowance' = trade.saved.allowance
  /\ dexAllowance' = trade.saved.dexAllowance
  /\ swap' = NoSwap
  /\ trade' = NoTrade
  /\ UNCHANGED <<routerConfig, vaultConfig, now, journal>>

-----------------------------------------------------------------------------
(* The rest of the chain: a later block, the router's owner.               *)

Tick ==
  /\ Idle
  /\ now < MaxTime
  /\ now' = now + 1
  /\ UNCHANGED <<routerVars, vaultConfig, usedNonces, dailyVolume, trade, journal>>

RouterOwnerStep ==
  /\ Idle
  /\ \/ \E b \in BOOLEAN : SetVault(b)
     \/ \E m \in DexMenu : AddDEXConfig(m)
     \/ \E key \in Tokens \X Tokens, index \in 1..MaxConfigs : DeactivateDEX(key, index)
  /\ UNCHANGED <<vaultConfig, usedNonces, dailyVolume, now, trade, journal>>

Next ==
  \/ \E s \in Signers : RegisterTEE(s) \/ DeactivateTEE(s)
  \/ \E p \in Pairs, m \in PairMenu : ConfigurePair(p, m)
  \/ \E p \in Pairs : DeactivatePair(p)
  \/ \E t \in Tokens : WhitelistToken(t)
  \/ \E t \in Tokens, n \in Amounts : Deposit(t, n)
  \/ \E t \in Tokens, n \in Amounts, to \in Recipients : Withdraw(t, n, to)
  \/ \E s \in Signers, p \in Payload : ExecuteTrade(s, p)
  \/ RouterStep
  \/ CompleteTrade
  \/ RevertTrade
  \/ RouterOwnerStep
  \/ Tick

Spec == Init /\ [][Next]_vars

-----------------------------------------------------------------------------
(* Properties.                                                             *)

(* A signed nonce settles one trade only, however often its payload is     *)
(* sent again and whatever happens to the signer's registration between;   *)
(* and a nonce is used up by a trade that settled, never by a transaction  *)
(* that reverted (FlageVault.sol, step 5 of executeTrade).                 *)
NonceSettlesOnce ==
  /\ \A i, j \in 1..Len(receipts) :
       /\ receipts[i].signer = receipts[j].signer
       /\ receipts[i].nonce = receipts[j].nonce
       => i = j
  /\ Idle => \A s \in Signers :
       usedNonces[s] = {receipts[i].nonce :
                          i \in {j \in 1..Len(receipts) : receipts[j].signer = s}}

(* What the events tell: the volume of a pair on a day, what trades have   *)
(* sold of a token, and what they have bought.                             *)
Receipts == 1..Len(receipts)
Given == [i \in Receipts |-> receipts[i].amount]
Got == [i \in Receipts |-> receipts[i].amountOut]
SettledVolume(p, d) ==
  SumFunctionOnSet(Given, {i \in Receipts : receipts[i].pair = p /\ receipts[i].day = d})
Sold(t) == SumFunctionOnSet(Given, {i \in Receipts : receipts[i].tokenIn = t})
Bought(t) == SumFunctionOnSet(Got, {i \in Receipts : receipts[i].tokenOut = t})

(* The volume held against a pair's daily cap is the sum of the amounts of *)
(* the trades that settled for it on that day: no reverted trade counts,   *)
(* no settled one is forgotten (step 7 of executeTrade).                   *)
VolumeMatchesTrades ==
  Idle => \A p \in Pairs, d \in Days : dailyVolume[p][d] = SettledVolume(p, d)

(* What the vault holds of a token is what the events tell: deposits less  *)
(* the withdrawals to another address, less what trades sold, plus what    *)
(* they bought.  No path of the router's loop strands the vault's tokens   *)
(* in the router or a DEX (DEXRouter.sol, swap and its two helpers).  A    *)
(* Curve pool whose output index names another coin pays a token that no   *)
(* event tells of.                                                         *)
CurveOutputsWired ==
  \A key \in Tokens \X Tokens : \A i \in 1..Len(dexConfigs[key]) :
    dexConfigs[key][i].dexType = Curve => dexConfigs[key][i].coinOut = key[2]

CapitalMatchesEvents ==
  Idle /\ CurveOutputsWired =>
    \A t \in Tokens :
      vaultBalance[t] = netFunding[t] + sentToVault[t] - Sold(t) + Bought(t)

(* Between transactions the router holds no token but what the owner       *)
(* withdrew to it, may take none from the vault, and no DEX may take any   *)
(* from the router: the increases and the decreases of the allowances      *)
(* cancel on every path, and no trade pays with the tokens that were sent  *)
(* there or adds to them.                                                  *)
RouterLeftClean ==
  Idle => \A t \in Tokens :
    /\ routerBalance[t] = sentToRouter[t]
    /\ allowance[t] = 0
    /\ \A d \in Dexes : dexAllowance[t][d] = 0

(* At no moment of a transaction, whatever DEXs it has tried and whatever  *)
(* they did, has the vault given away more than the signed amount of the   *)
(* signed token, or anything of another token.                             *)
SpendsAtMostSignedAmount ==
  ~Idle => \A t \in Tokens :
    vaultBalance[t] >= trade.saved.vaultBalance[t]
                         - (IF t = swap.tokenIn THEN swap.amountIn ELSE 0)

(* The contracts keep the promise of TradeLedger.tla: in the abstract, a   *)
(* transaction in progress has not happened yet.                           *)
AtRest(current, saved) == IF Idle THEN current ELSE saved

Ledger == INSTANCE TradeLedger WITH
  authorised <- {s \in Signers : tee[s] = "active"},
  settled <- AtRest(usedNonces, trade.saved.usedNonces),
  limits <- pairs,
  volume <- AtRest(dailyVolume, trade.saved.dailyVolume),
  capital <- AtRest(vaultBalance, trade.saved.vaultBalance),
  Limits <- PairConfigs,
  Quantities <- Amounts \cup Outputs

ImplementsLedger == Ledger!Spec

(* "max buy price" (FlageVault.sol:19): a BUY that settled paid no more    *)
(* than priceLimit of the quote token for a unit of the base token.        *)
BuyPriceWithinLimit ==
  \A i \in 1..Len(receipts) :
    receipts[i].action = BUY
      => receipts[i].amount <= receipts[i].priceLimit * receipts[i].amountOut

(* "return 0 to try next DEX" (DEXRouter.sol:195): the failure of one DEX  *)
(* leaves the router able to take the same tokens from the vault for the   *)
(* next one, as long as the vault has them.                                *)
NextDEXCanBeTried ==
  Looking /\ IsTried(Config) /\ PulledToken(Config) = swap.tokenIn
    => (vaultBalance[swap.tokenIn] >= swap.amountIn
          => allowance[swap.tokenIn] >= swap.amountIn)
=============================================================================

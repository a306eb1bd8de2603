----------------------- MODULE FlageVaultRefinement -----------------------
(***************************************************************************)
(* More results about FlageVault.tla, from the inductive invariant of      *)
(* FlageVaultProofs.tla: a nonce settles once, the contracts implement the *)
(* atomic ledger of TradeLedger.tla, and the daily volume and the vault's  *)
(* balances are the sums of what the events tell.                          *)
(***************************************************************************)
EXTENDS FlageVaultProofs, FiniteSetTheorems, WellFoundedInduction, NaturalsInduction

-----------------------------------------------------------------------------
(* A nonce settles once.                                                   *)

(* The nonces of the trades of s that have settled.                        *)
SettledNonces(s) ==
  {receipts[i].nonce : i \in {j \in 1..Len(receipts) : receipts[j].signer = s}}

ReceiptsDiffer ==
  \A i, j \in 1..Len(receipts) :
    receipts[i].signer = receipts[j].signer /\ receipts[i].nonce = receipts[j].nonce
      => i = j

(* While a trade is in progress its nonce is marked but not settled: the   *)
(* marks that agree with the receipts are those of the snapshot.           *)
NonceInv ==
  /\ ReceiptsDiffer
  /\ trade = NoTrade => \A s \in Signers : usedNonces[s] = SettledNonces(s)
  /\ trade # NoTrade => \A s \in Signers : Saved.usedNonces[s] = SettledNonces(s)

LEMMA NonceInit == Init => NonceInv
<1> SUFFICES ASSUME Init PROVE NonceInv
  OBVIOUS
<1>1. receipts = <<>> /\ Len(receipts) = 0 /\ trade = NoTrade
  BY DEF Init
<1>2. \A s \in Signers : usedNonces[s] = {} /\ SettledNonces(s) = {}
  BY <1>1 DEF Init, SettledNonces
<1> QED
  <2>1. 1..Len(receipts) = {}
    BY <1>1
  <2>2. ReceiptsDiffer
    BY <2>1 DEF ReceiptsDiffer
  <2> QED
    BY <1>1, <1>2, <2>2 DEF NonceInv

(* Steps that touch neither nonces nor receipts nor the trade.             *)
LEMMA NonceFrame ==
  ASSUME NonceInv, UNCHANGED <<usedNonces, receipts, trade>>
  PROVE  NonceInv'
<1>1. \A s \in Signers : SettledNonces(s)' = SettledNonces(s)
  BY DEF SettledNonces
<1> QED
  BY <1>1 DEF NonceInv, ReceiptsDiffer, Saved

LEMMA NonceComplete ==
  ASSUME IInv, NonceInv, CompleteTrade
  PROVE  NonceInv'
<1> DEFINE r == [signer |-> trade.signer, nonce |-> trade.payload.nonce,
                 pair |-> trade.payload.pair, day |-> Today,
                 action |-> trade.payload.action,
                 amount |-> swap.amountIn, priceLimit |-> swap.priceLimit,
                 tokenIn |-> swap.tokenIn, tokenOut |-> swap.tokenOut,
                 amountOut |-> swap.amountOut]
           n == Len(receipts)
<1>1. /\ trade # NoTrade /\ trade \in Trades /\ Checked /\ Written
      /\ receipts \in Seq(Receipt) /\ trade' = NoTrade
      /\ usedNonces' = usedNonces
  BY CompleteIInv DEF IInv, AtRestInv, NoSwap, InTradeInv, TypeOK, CompleteTrade
<1>2. /\ trade.signer \in Signers
      /\ Saved.usedNonces \in [Signers -> SUBSET Nonces]
      /\ \A s \in Signers : Saved.usedNonces[s] = SettledNonces(s)
  BY <1>1 DEF Trades, Snapshot, Saved, NonceInv
<1>3. /\ receipts' = Append(receipts, r)
      /\ r.signer = trade.signer /\ r.nonce = trade.payload.nonce
  BY DEF CompleteTrade
<1> HIDE DEF r
<1>4. /\ n \in Nat /\ Len(receipts') = n + 1 /\ receipts'[n + 1] = r
      /\ \A i \in 1..n : receipts'[i] = receipts[i]
  BY <1>1, <1>3
<1>5. r.nonce \notin SettledNonces(trade.signer)
  BY <1>1, <1>2, <1>3 DEF Checked, Paid
<1>6. \A i \in 1..n : receipts[i].signer = r.signer => receipts[i].nonce # r.nonce
  BY <1>3, <1>5 DEF SettledNonces
<1>7. ReceiptsDiffer'
  <2> SUFFICES ASSUME NEW i \in 1..(n + 1), NEW j \in 1..(n + 1),
                      receipts'[i].signer = receipts'[j].signer,
                      receipts'[i].nonce = receipts'[j].nonce
               PROVE  i = j
    BY <1>4 DEF ReceiptsDiffer
  <2>1. CASE i \in 1..n /\ j \in 1..n
    BY <1>4, <2>1 DEF NonceInv, ReceiptsDiffer
  <2>2. CASE i = n + 1 /\ j \in 1..n
    BY <1>4, <1>6, <2>2
  <2>3. CASE i \in 1..n /\ j = n + 1
    BY <1>4, <1>6, <2>3
  <2> QED
    BY <1>4, <2>1, <2>2, <2>3
<1>8. ASSUME NEW s \in Signers
      PROVE  SettledNonces(s)' = IF s = trade.signer THEN SettledNonces(s) \cup {r.nonce}
                                                     ELSE SettledNonces(s)
  <2> DEFINE before == {j \in 1..n : receipts[j].signer = s}
             after == {j \in 1..(n + 1) : receipts'[j].signer = s}
  <2>1. after = IF s = trade.signer THEN before \cup {n + 1} ELSE before
    BY <1>3, <1>4
  <2>2. \A i \in before : receipts'[i].nonce = receipts[i].nonce
    BY <1>4
  <2>3. SettledNonces(s) = {receipts[i].nonce : i \in before}
    BY DEF SettledNonces
  <2>4. SettledNonces(s)' = {receipts'[i].nonce : i \in after}
    BY <1>4 DEF SettledNonces
  <2> HIDE DEF before, after
  <2> QED
    BY <1>4, <2>1, <2>2, <2>3, <2>4
<1>9. \A s \in Signers : usedNonces'[s] = SettledNonces(s)'
  BY <1>1, <1>2, <1>3, <1>8 DEF Written, Paid
<1> QED
  BY <1>1, <1>7, <1>9 DEF NonceInv

LEMMA NonceNext == IInv /\ NonceInv /\ [Next]_vars => NonceInv'
<1> SUFFICES ASSUME IInv, NonceInv, [Next]_vars PROVE NonceInv'
  OBVIOUS
<1>1. ASSUME OwnerStep \/ RouterStep \/ RouterOwnerStep \/ UNCHANGED vars
      PROVE  NonceInv'
  <2>1. CASE OwnerStep
    BY <2>1, NonceFrame DEF OwnerStep, RegisterTEE, DeactivateTEE, ConfigurePair,
       DeactivatePair, WhitelistToken, Deposit, Withdraw, Tick, journal
  <2>2. CASE RouterStep \/ RouterOwnerStep
    BY <2>2, NonceFrame DEF RouterStep, RouterOwnerStep, journal
  <2>3. CASE UNCHANGED vars
    BY <2>3, NonceFrame DEF vars, journal, funding
  <2> QED
    BY <1>1, <2>1, <2>2, <2>3
<1>2. ASSUME NEW s \in Signers, NEW p \in Payload, ExecuteTrade(s, p)
      PROVE  NonceInv'
  <2>1. /\ trade = NoTrade /\ receipts' = receipts
        /\ trade' # NoTrade /\ trade'.saved.usedNonces = usedNonces
    BY <1>2, ExecuteIInv DEF ExecuteTrade, Idle, journal
  <2> QED
    BY <2>1 DEF NonceInv, ReceiptsDiffer, SettledNonces, Saved
<1>3. CASE CompleteTrade
  BY <1>3, NonceComplete
<1>4. CASE RevertTrade
  <2>1. /\ trade # NoTrade /\ trade' = NoTrade /\ receipts' = receipts
        /\ usedNonces' = Saved.usedNonces
    BY <1>4, RevertIInv DEF RevertTrade, journal, Saved
  <2> QED
    BY <2>1 DEF NonceInv, ReceiptsDiffer, SettledNonces
<1> QED
  BY <1>1, <1>2, <1>3, <1>4 DEF Next, OwnerStep

(* A nonce settles one trade only, and only settled trades use nonces up,  *)
(* whatever is registered, revoked or sent again in between.               *)
THEOREM NoncesSettleOnce == Spec => []NonceSettlesOnce
<1>1. Init => NonceInv
  BY NonceInit
<1>2. IInv /\ NonceInv /\ [Next]_vars => NonceInv'
  BY NonceNext
<1>3. NonceInv => NonceSettlesOnce
  BY DEF NonceInv, NonceSettlesOnce, ReceiptsDiffer, SettledNonces, Idle
<1> QED
  BY <1>1, <1>2, <1>3, Invariance, PTL DEF Spec

-----------------------------------------------------------------------------
(* The contracts implement the ledger.                                     *)

Authorised == {s \in Signers : tee[s] = "active"}
Settled == AtRest(usedNonces, trade.saved.usedNonces)
Volume == AtRest(dailyVolume, trade.saved.dailyVolume)
Capital == AtRest(vaultBalance, trade.saved.vaultBalance)

LEMMA LedgerInit == Init => Ledger!Init
<1> SUFFICES ASSUME Init PROVE Ledger!Init
  OBVIOUS
<1>1. trade = NoTrade
  BY DEF Init
<1>2. Authorised = {}
  BY DEF Init, Authorised
<1>3. pairs \in [Pairs -> {l \in PairConfigs : ~l.active}]
  <2>1. UnsetPair \in PairConfigs /\ ~UnsetPair.active
    BY DEF PairConfigs, UnsetPair
  <2> QED
    BY <2>1 DEF Init
<1> QED
  BY <1>1, <1>2, <1>3 DEF Init, RouterInit, Ledger!Init, Authorised, AtRest, Idle

(* Steps the ledger does not see.                                          *)
LEMMA LedgerStutter ==
  ASSUME UNCHANGED <<tee, pairs, Settled, Volume, Capital>>
  PROVE  UNCHANGED Ledger!vars
BY DEF Ledger!vars, Settled, Volume, Capital

(* The vault owner's calls and the clock.                                  *)
LEMMA LedgerOwner ==
  ASSUME IInv, OwnerStep
  PROVE  [Ledger!Next]_(Ledger!vars)
<1> USE DEF journal, vaultConfig
<1>0. /\ trade = NoTrade /\ trade' = NoTrade /\ TypeOK
      /\ UNCHANGED <<usedNonces, dailyVolume>>
  BY DEF IInv, OwnerStep, RegisterTEE, DeactivateTEE, ConfigurePair, DeactivatePair,
     WhitelistToken, Deposit, Withdraw, Tick, Idle
<1>1. /\ Settled = usedNonces /\ Settled' = usedNonces
      /\ Volume = dailyVolume /\ Volume' = dailyVolume
      /\ Capital = vaultBalance /\ Capital' = vaultBalance'
  BY <1>0 DEF Settled, Volume, Capital, AtRest, Idle
<1>2. ASSUME NEW s \in Signers, RegisterTEE(s)
      PROVE  Ledger!Next
  <2>1. Authorised' = Authorised \cup {s}
    BY <1>0, <1>2 DEF RegisterTEE, Authorised, TypeOK
  <2>2. pairs' = pairs /\ vaultBalance' = vaultBalance
    BY <1>2 DEF RegisterTEE, routerVars
  <2>3. Ledger!Authorise(s)
    BY <1>1, <2>1, <2>2 DEF Ledger!Authorise, Authorised, Settled, Volume, Capital
  <2> QED
    BY <2>3 DEF Ledger!Next
<1>3. ASSUME NEW s \in Signers, DeactivateTEE(s)
      PROVE  Ledger!Next
  <2>1. Authorised' = Authorised \ {s}
    BY <1>0, <1>3 DEF DeactivateTEE, Authorised, TypeOK
  <2>2. pairs' = pairs /\ vaultBalance' = vaultBalance
    BY <1>3 DEF DeactivateTEE, routerVars
  <2>3. Ledger!Revoke(s)
    BY <1>1, <2>1, <2>2 DEF Ledger!Revoke, Authorised, Settled, Volume, Capital
  <2> QED
    BY <2>3 DEF Ledger!Next
<1>4. ASSUME NEW p \in Pairs, NEW l \in PairConfigs, pairs' = [pairs EXCEPT ![p] = l],
             UNCHANGED <<tee, vaultBalance>>
      PROVE  Ledger!Next
  <2>1. Ledger!SetLimits(p, l)
    BY <1>1, <1>4 DEF Ledger!SetLimits, Settled, Volume, Capital
  <2> QED
    BY <2>1 DEF Ledger!Next
<1>5. ASSUME NEW p \in Pairs, NEW m \in PairMenu, ConfigurePair(p, m)
      PROVE  Ledger!Next
  BY <1>4, <1>5, MenuPairs DEF ConfigurePair, routerVars
<1>6. ASSUME NEW p \in Pairs, DeactivatePair(p)
      PROVE  Ledger!Next
  <2>1. SetActive(pairs[p], FALSE) \in PairConfigs
    BY <1>0, ActivePairs DEF TypeOK
  <2> QED
    BY <1>4, <1>6, <2>1 DEF DeactivatePair, routerVars
<1>7. ASSUME NEW t \in Tokens, NEW n \in Amounts, Deposit(t, n)
      PROVE  Ledger!Next
  <2>1. Ledger!Fund(t, n)
    BY <1>1, <1>7 DEF Deposit, Ledger!Fund, Settled, Volume, Capital
  <2> QED
    BY <2>1 DEF Ledger!Next
<1>8. ASSUME NEW t \in Tokens, NEW n \in Amounts, NEW to \in Recipients, Withdraw(t, n, to)
      PROVE  Ledger!Next \/ UNCHANGED Ledger!vars
  <2>1. CASE to = "vault"
    <3>1. UNCHANGED <<tee, pairs, vaultBalance>>
      BY <1>8, <2>1 DEF Withdraw
    <3> QED
      BY <1>1, <3>1, LedgerStutter
  <2>2. CASE to # "vault"
    <3>1. Ledger!Draw(t, n)
      BY <1>1, <1>8, <2>2 DEF Withdraw, Ledger!Draw, Settled, Volume, Capital
    <3> QED
      BY <3>1 DEF Ledger!Next
  <2> QED
    BY <2>1, <2>2
<1>9. ASSUME (\E t \in Tokens : WhitelistToken(t)) \/ Tick
      PROVE  UNCHANGED Ledger!vars
  BY <1>1, <1>9, LedgerStutter DEF WhitelistToken, Tick, routerVars
<1> QED
  BY <1>2, <1>3, <1>5, <1>6, <1>7, <1>8, <1>9 DEF OwnerStep

(* A trade that completes is one step of the ledger.                       *)
LEMMA LedgerSettle ==
  ASSUME IInv, CompleteTrade
  PROVE  Ledger!Next
<1>0. /\ trade \in Trades /\ trade # NoTrade /\ trade' = NoTrade
      /\ TypeOK /\ InTradeInv /\ HasPaid /\ swap \in Swaps
      /\ UNCHANGED <<tee, pairs, usedNonces, dailyVolume, vaultBalance>>
  BY CompleteIInv, TradesAreTrades DEF IInv, InTradeInv, CompleteTrade, tokenState, vaultConfig
<1>1. /\ Settled = Saved.usedNonces /\ Settled' = usedNonces
      /\ Volume = Saved.dailyVolume /\ Volume' = dailyVolume
      /\ Capital = Saved.vaultBalance /\ Capital' = vaultBalance
  BY <1>0 DEF Settled, Volume, Capital, AtRest, Idle, Saved
<1> DEFINE s == trade.signer
           n == Paid.nonce
           p == Paid.pair
           a == Paid.amount
<1>2. /\ s \in Signers /\ n \in Nonces /\ p \in Pairs /\ a \in Amounts
      /\ Today \in Days /\ swap.tokenIn \in Tokens /\ swap.amountIn = a
  BY <1>0 DEF Trades, Payload, Paid, TypeOK, Days, Today, Swaps, InTradeInv, Checked
<1>3. PICK t \in Tokens : vaultBalance = [Pulled EXCEPT ![t] = @ + swap.amountOut]
  BY <1>0 DEF HasPaid
<1>4. Ledger!Settle(s, n, p, Today, swap.tokenIn, a, t, swap.amountOut)
  <2>1. /\ s \in Authorised
        /\ n \notin Settled[s]
        /\ pairs[p].active
        /\ swap.tokenIn \in {pairs[p].tokenA, pairs[p].tokenB}
        /\ a <= pairs[p].maxPositionSize
        /\ Volume[p][Today] + a <= pairs[p].maxDailyVolume
    BY <1>0, <1>1, <1>2 DEF InTradeInv, Checked, Authorised
  <2>2. a <= Capital[swap.tokenIn] /\ swap.amountOut > 0
    BY <1>0, <1>1, <1>2 DEF HasPaid
  <2>3. /\ Settled' = [Settled EXCEPT ![s] = @ \cup {n}]
        /\ Volume' = [Volume EXCEPT ![p][Today] = @ + a]
    BY <1>0, <1>1 DEF InTradeInv, Written
  <2>4. Capital' = [[Capital EXCEPT ![swap.tokenIn] = @ - a]
                             EXCEPT ![t] = @ + swap.amountOut]
    BY <1>1, <1>2, <1>3 DEF Pulled
  <2>5. UNCHANGED <<Authorised, pairs>>
    BY <1>0 DEF Authorised
  <2> QED
    BY <2>1, <2>2, <2>3, <2>4, <2>5 DEF Ledger!Settle, Authorised, Settled, Volume, Capital
<1>5. a \in Amounts \cup Outputs /\ swap.amountOut \in Amounts \cup Outputs
  BY <1>0, <1>2 DEF HasPaid
<1> QED
  BY <1>2, <1>4, <1>5 DEF Ledger!Next

LEMMA LedgerNext == IInv /\ [Next]_vars => [Ledger!Next]_(Ledger!vars)
<1> SUFFICES ASSUME IInv, [Next]_vars PROVE [Ledger!Next]_(Ledger!vars)
  OBVIOUS
<1>1. CASE OwnerStep
  BY <1>1, LedgerOwner
<1>2. ASSUME NEW s \in Signers, NEW p \in Payload, ExecuteTrade(s, p)
      PROVE  UNCHANGED Ledger!vars
  <2>1. /\ trade = NoTrade /\ trade' # NoTrade
        /\ trade'.saved.usedNonces = usedNonces
        /\ trade'.saved.dailyVolume = dailyVolume
        /\ trade'.saved.vaultBalance = vaultBalance
        /\ UNCHANGED <<tee, pairs>>
    BY <1>2, ExecuteIInv DEF ExecuteTrade, Idle, vaultConfig
  <2> QED
    BY <2>1, LedgerStutter DEF Settled, Volume, Capital, AtRest, Idle
<1>3. CASE RouterStep
  <2>1. trade # NoTrade
    <3>1. swap.pc \in {"loop", "called"}
      BY <1>3 DEF RouterStep, SwapStep, SkipDEX, PullFromVault, DEXFills, DEXReverts, Looking
    <3> QED
      BY <3>1 DEF IInv, AtRestInv, NoSwap
  <2>2. UNCHANGED <<tee, pairs, trade>>
    BY <1>3 DEF RouterStep, vaultConfig
  <2> QED
    BY <2>1, <2>2, LedgerStutter DEF Settled, Volume, Capital, AtRest, Idle
<1>4. CASE CompleteTrade
  BY <1>4, LedgerSettle
<1>5. CASE RevertTrade
  <2>1. /\ trade # NoTrade /\ trade' = NoTrade
        /\ usedNonces' = trade.saved.usedNonces
        /\ dailyVolume' = trade.saved.dailyVolume
        /\ vaultBalance' = trade.saved.vaultBalance
        /\ UNCHANGED <<tee, pairs>>
    BY <1>5, RevertIInv DEF RevertTrade, vaultConfig
  <2> QED
    BY <2>1, LedgerStutter DEF Settled, Volume, Capital, AtRest, Idle
<1>6. CASE RouterOwnerStep
  <2>1. UNCHANGED <<tee, pairs, trade, usedNonces, dailyVolume, vaultBalance>>
    BY <1>6 DEF RouterOwnerStep, SetVault, AddDEXConfig, DeactivateDEX, vaultConfig, tokenState
  <2> QED
    BY <2>1, LedgerStutter DEF Settled, Volume, Capital, AtRest, Idle
<1>7. CASE UNCHANGED vars
  <2>1. UNCHANGED <<tee, pairs, trade, usedNonces, dailyVolume, vaultBalance>>
    BY <1>7 DEF vars, routerVars, vaultConfig
  <2> QED
    BY <2>1, LedgerStutter DEF Settled, Volume, Capital, AtRest, Idle
<1> QED
  BY <1>1, <1>2, <1>3, <1>4, <1>5, <1>6, <1>7 DEF Next, OwnerStep

(* Every behaviour of the vault and its router, seen at the ends of its    *)
(* transactions, is a behaviour of the ledger.                             *)
THEOREM LedgerImplemented == Spec => ImplementsLedger
<1>1. Init => Ledger!Init
  BY LedgerInit
<1>2. IInv /\ [Next]_vars => [Ledger!Next]_(Ledger!vars)
  BY LedgerNext
<1> QED
  BY <1>1, <1>2, Invariance, PTL DEF Spec, ImplementsLedger, Ledger!Spec

-----------------------------------------------------------------------------
(* Sums over finite sets.  The library's sum takes the terms one by one in *)
(* an order that CHOOSE gives; a sum does not depend on it.  What holds of *)
(* all finite sets is proved from a least counterexample.                  *)

LEMMA LeastNatural ==
  ASSUME NEW T \in SUBSET Nat, T # {}
  PROVE  \E n \in T : \A m \in T : n <= m
<1> DEFINE R == {ss \in Nat \X Nat : ss[1] < ss[2]}
<1>1. IsWellFoundedOn(R, Nat)
  BY NatLessThanWellFounded DEF OpToRel
<1>2. \A m, n \in Nat : <<m, n>> \in R <=> m < n
  OBVIOUS
<1> HIDE DEF R
<1>3. PICK n \in T : \A m \in T : ~(<<m, n>> \in R)
  BY <1>1, WFMin
<1>4. ASSUME NEW m \in T PROVE n <= m
  <2>1. m \in Nat /\ n \in Nat
    OBVIOUS
  <2>2. ~(m < n)
    BY <1>2, <1>3, <2>1
  <2> QED
    BY <2>1, <2>2
<1> QED
  BY <1>4

(* Among finite sets that are not none, one has the fewest elements.       *)
LEMMA SmallestSet ==
  ASSUME NEW C, C # {}, \A S \in C : IsFiniteSet(S)
  PROVE  \E S \in C : \A T \in C : ~(Cardinality(T) < Cardinality(S))
<1> DEFINE sizes == {Cardinality(S) : S \in C}
<1>1. sizes \in SUBSET Nat /\ sizes # {}
  BY FS_CardinalityType
<1> HIDE DEF sizes
<1>2. PICK n \in sizes : \A m \in sizes : n <= m
  BY <1>1, LeastNatural
<1>3. PICK S \in C : Cardinality(S) = n
  BY <1>2 DEF sizes
<1>4. ASSUME NEW T \in C PROVE ~(Cardinality(T) < Cardinality(S))
  <2>1. Cardinality(T) \in sizes
    BY DEF sizes
  <2>2. n \in Nat /\ Cardinality(T) \in Nat /\ n <= Cardinality(T)
    BY <1>1, <1>2, <2>1
  <2> QED
    BY <1>3, <2>2
<1> QED
  BY <1>4

Chosen(T) == CHOOSE x \in T : TRUE

(* g gives the sum of the values of f over each subset of S.               *)
Sums(f, g, S) ==
  g = [T \in SUBSET S |-> IF T = {} THEN 0 ELSE f[Chosen(T)] + g[T \ {Chosen(T)}]]

LEMMA SumIsChosen ==
  ASSUME NEW f, NEW S
  PROVE  SumFunctionOnSet(f, S) = (CHOOSE g : Sums(f, g, S))[S]
BY DEF SumFunctionOnSet, FoldFunctionOnSet, MapThenFoldSet, Chosen, Sums

LEMMA LessOne ==
  ASSUME NEW T, IsFiniteSet(T), NEW x \in T
  PROVE  IsFiniteSet(T \ {x}) /\ Cardinality(T \ {x}) < Cardinality(T)
<1>1. /\ IsFiniteSet(T \ {x}) /\ Cardinality(T \ {x}) = Cardinality(T) - 1
      /\ Cardinality(T) \in Nat
  BY FS_RemoveElement, FS_CardinalityType
<1> QED
  BY <1>1

(* Two such functions agree where both are defined.                        *)
LEMMA SumsAgree ==
  ASSUME NEW f, NEW S, NEW U, NEW g, NEW h, Sums(f, g, S), Sums(f, h, U),
         NEW T, IsFiniteSet(T), T \subseteq S, T \subseteq U
  PROVE  g[T] = h[T]
<1> DEFINE C == {X \in SUBSET T : g[X] # h[X]}
<1> SUFFICES ASSUME C # {} PROVE FALSE
  OBVIOUS
<1>1. \A X \in SUBSET T : IsFiniteSet(X)
  BY FS_Subset
<1>2. PICK X \in C : \A Y \in C : ~(Cardinality(Y) < Cardinality(X))
  BY <1>1, SmallestSet
<1>3. /\ g[X] = IF X = {} THEN 0 ELSE f[Chosen(X)] + g[X \ {Chosen(X)}]
      /\ h[X] = IF X = {} THEN 0 ELSE f[Chosen(X)] + h[X \ {Chosen(X)}]
  BY DEF Sums
<1>4. X # {}
  BY <1>3
<1>5. Chosen(X) \in X
  BY <1>4 DEF Chosen
<1>6. X \ {Chosen(X)} \notin C
  BY <1>1, <1>2, <1>5, LessOne
<1>7. g[X \ {Chosen(X)}] = h[X \ {Chosen(X)}]
  BY <1>6
<1> QED
  BY <1>3, <1>4, <1>7

(* There is such a function for every finite set.                          *)
LEMMA SumsExist ==
  ASSUME NEW f, NEW S, IsFiniteSet(S)
  PROVE  \E g : Sums(f, g, S)
<1> DEFINE C == {X \in SUBSET S : ~\E g : Sums(f, g, X)}
<1> SUFFICES ASSUME C # {} PROVE FALSE
  OBVIOUS
<1>1. \A X \in SUBSET S : IsFiniteSet(X)
  BY FS_Subset
<1>2. PICK X \in C : \A Y \in C : ~(Cardinality(Y) < Cardinality(X))
  BY <1>1, SmallestSet
<1> DEFINE Sum(T) == (CHOOSE g : Sums(f, g, T))[T]
           G == [T \in SUBSET X |-> IF T = {} THEN 0 ELSE f[Chosen(T)] + Sum(T \ {Chosen(T)})]
<1>3. ASSUME NEW T \in SUBSET X, T # X PROVE \E g : Sums(f, g, T)
  <2>1. PICK x \in X : x \notin T
    BY <1>3
  <2>2. /\ IsFiniteSet(X \ {x}) /\ Cardinality(X \ {x}) < Cardinality(X)
        /\ Cardinality(T) <= Cardinality(X \ {x}) /\ IsFiniteSet(T)
    BY <1>1, <2>1, LessOne, FS_Subset
  <2>3. Cardinality(T) < Cardinality(X)
    BY <1>1, <2>2, FS_CardinalityType
  <2>4. T \notin C
    BY <1>2, <2>3
  <2> QED
    BY <2>4
<1>4. ASSUME NEW T \in SUBSET X, T # {}
      PROVE  Sum(T \ {Chosen(T)}) = G[T \ {Chosen(T)}]
  <2> DEFINE c == Chosen(T)
             V == T \ {c}
  <2>1. c \in T /\ V \in SUBSET X /\ V # X /\ IsFiniteSet(V)
    BY <1>1, <1>4 DEF Chosen
  <2>2. PICK g : Sums(f, g, V) /\ Sum(V) = g[V]
    <3>1. \E g : Sums(f, g, V)
      BY <1>3, <2>1
    <3> QED
      BY <3>1
  <2>3. g[V] = IF V = {} THEN 0 ELSE f[Chosen(V)] + g[V \ {Chosen(V)}]
    BY <2>2 DEF Sums
  <2>4. ASSUME V # {} PROVE g[V \ {Chosen(V)}] = Sum(V \ {Chosen(V)})
    <3>1. Chosen(V) \in V
      BY <2>4 DEF Chosen
    <3> DEFINE W == V \ {Chosen(V)}
    <3>2. W \in SUBSET X /\ W # X /\ IsFiniteSet(W) /\ W \subseteq V
      BY <1>1, <2>1, <3>1
    <3>3. PICK h : Sums(f, h, W) /\ Sum(W) = h[W]
      <4>1. \E h : Sums(f, h, W)
        BY <1>3, <3>2
      <4> QED
        BY <4>1
    <3>4. g[W] = h[W]
      BY <2>2, <3>2, <3>3, SumsAgree
    <3> QED
      BY <3>3, <3>4
  <2>5. G[V] = IF V = {} THEN 0 ELSE f[Chosen(V)] + Sum(V \ {Chosen(V)})
    BY <2>1
  <2> QED
    BY <2>2, <2>3, <2>4, <2>5
<1>5. PICK g : g = G
  OBVIOUS
<1>6. ASSUME NEW T \in SUBSET X
      PROVE  g[T] = IF T = {} THEN 0 ELSE f[Chosen(T)] + g[T \ {Chosen(T)}]
  <2>1. g[T] = IF T = {} THEN 0 ELSE f[Chosen(T)] + Sum(T \ {Chosen(T)})
    BY <1>5
  <2> HIDE DEF G, Sum
  <2> QED
    BY <1>4, <1>5, <2>1
<1>7. g = [T \in SUBSET X |-> g[T]]
  BY <1>5
<1> HIDE DEF G
<1>8. Sums(f, g, X)
  BY <1>6, <1>7 DEF Sums
<1> QED
  BY <1>2, <1>8

(* The sum over a set, one term at a time.                                 *)
LEMMA SumSteps ==
  ASSUME NEW f, NEW S, IsFiniteSet(S)
  PROVE  SumFunctionOnSet(f, S) =
           IF S = {} THEN 0 ELSE f[Chosen(S)] + SumFunctionOnSet(f, S \ {Chosen(S)})
<1>1. PICK g : Sums(f, g, S) /\ SumFunctionOnSet(f, S) = g[S]
  BY SumsExist, SumIsChosen
<1>2. g[S] = IF S = {} THEN 0 ELSE f[Chosen(S)] + g[S \ {Chosen(S)}]
  BY <1>1 DEF Sums
<1>3. ASSUME S # {} PROVE g[S \ {Chosen(S)}] = SumFunctionOnSet(f, S \ {Chosen(S)})
  <2> DEFINE U == S \ {Chosen(S)}
  <2>1. IsFiniteSet(U)
    BY FS_Subset
  <2>2. PICK h : Sums(f, h, U) /\ SumFunctionOnSet(f, U) = h[U]
    BY <2>1, SumsExist, SumIsChosen
  <2> QED
    BY <1>1, <2>1, <2>2, SumsAgree
<1> QED
  BY <1>1, <1>2, <1>3

LEMMA SumEmpty ==
  ASSUME NEW f
  PROVE  SumFunctionOnSet(f, {}) = 0
BY SumSteps, FS_EmptySet

(* A sum of integers is one.                                               *)
LEMMA SumInt ==
  ASSUME NEW f, NEW S, IsFiniteSet(S), \A x \in S : f[x] \in Int
  PROVE  SumFunctionOnSet(f, S) \in Int
<1> DEFINE C == {X \in SUBSET S : SumFunctionOnSet(f, X) \notin Int}
<1> SUFFICES ASSUME C # {} PROVE FALSE
  OBVIOUS
<1>1. \A X \in SUBSET S : IsFiniteSet(X)
  BY FS_Subset
<1>2. PICK X \in C : \A Y \in C : ~(Cardinality(Y) < Cardinality(X))
  BY <1>1, SmallestSet
<1>3. X # {}
  BY <1>2, SumEmpty
<1>4. Chosen(X) \in X
  BY <1>3 DEF Chosen
<1>5. X \ {Chosen(X)} \notin C
  BY <1>1, <1>2, <1>4, LessOne
<1>6. SumFunctionOnSet(f, X \ {Chosen(X)}) \in Int /\ f[Chosen(X)] \in Int
  BY <1>4, <1>5
<1>7. SumFunctionOnSet(f, X) = f[Chosen(X)] + SumFunctionOnSet(f, X \ {Chosen(X)})
  BY <1>1, <1>3, SumSteps
<1> QED
  BY <1>6, <1>7

(* Another element adds its value, in whatever order the terms are taken.  *)
LEMMA SumAdd ==
  ASSUME NEW f, NEW S, IsFiniteSet(S), \A y \in S : f[y] \in Int,
         NEW x, x \notin S, f[x] \in Int
  PROVE  SumFunctionOnSet(f, S \cup {x}) = SumFunctionOnSet(f, S) + f[x]
<1> DEFINE Sum(T) == SumFunctionOnSet(f, T)
           C == {X \in SUBSET (S \cup {x}) :
                   \E y \in (S \cup {x}) \ X : Sum(X \cup {y}) # Sum(X) + f[y]}
<1> SUFFICES ASSUME C # {} PROVE FALSE
  OBVIOUS
<1>1. \A X \in SUBSET (S \cup {x}) :
        IsFiniteSet(X) /\ Cardinality(X) \in Nat /\ Sum(X) \in Int
  <2>1. IsFiniteSet(S \cup {x})
    BY FS_AddElement
  <2> QED
    BY <2>1, FS_Subset, FS_CardinalityType, SumInt
<1>2. PICK X \in C : \A Y \in C : ~(Cardinality(Y) < Cardinality(X))
  BY <1>1, SmallestSet
<1>3. PICK y \in (S \cup {x}) \ X : Sum(X \cup {y}) # Sum(X) + f[y]
  OBVIOUS
<1> PICK U, c : U = X \cup {y} /\ c = Chosen(U)
  OBVIOUS
<1>4. U \in SUBSET (S \cup {x}) /\ c \in U /\ U # {}
  BY DEF Chosen
<1>5. Sum(U) = f[c] + Sum(U \ {c})
  BY <1>1, <1>4, SumSteps
<1>6. f[c] \in Int /\ f[y] \in Int
  BY <1>4
<1>7. c # y
  <2> SUFFICES ASSUME c = y PROVE FALSE
    OBVIOUS
  <2>1. U \ {c} = X
    BY <1>3
  <2>2. Sum(X) \in Int /\ Sum(U) # Sum(X) + f[y]
    BY <1>1, <1>3
  <2>3. Sum(U) = f[y] + Sum(X)
    BY <1>5, <2>1
  <2> HIDE DEF Sum
  <2> QED
    BY <1>6, <2>2, <2>3
<1> PICK W : W = X \ {c}
  OBVIOUS
<1>8. c \in X /\ W \in SUBSET (S \cup {x}) /\ U \ {c} = W \cup {y} /\ W \cup {c} = X
  BY <1>3, <1>4, <1>7
<1>9. W \notin C
  <2>1. Cardinality(W) < Cardinality(X)
    BY <1>1, <1>8, LessOne
  <2> QED
    BY <1>2, <2>1
<1>10. Sum(W \cup {y}) = Sum(W) + f[y] /\ Sum(W \cup {c}) = Sum(W) + f[c]
  <2>1. y \in (S \cup {x}) \ W /\ c \in (S \cup {x}) \ W
    BY <1>4
  <2> HIDE DEF Sum
  <2> QED
    BY <1>8, <1>9, <2>1
<1>11. Sum(W) \in Int /\ Sum(U) # Sum(X) + f[y]
  BY <1>1, <1>3, <1>8
<1>12. Sum(U) = f[c] + Sum(W \cup {y}) /\ Sum(W \cup {c}) = Sum(X)
  BY <1>5, <1>8
<1> HIDE DEF Sum, C
<1> QED
  BY <1>6, <1>10, <1>11, <1>12

(* The sum depends on the values over the set only.                        *)
LEMMA SumSame ==
  ASSUME NEW f, NEW h, NEW S, IsFiniteSet(S), \A x \in S : f[x] = h[x]
  PROVE  SumFunctionOnSet(f, S) = SumFunctionOnSet(h, S)
<1> DEFINE C == {X \in SUBSET S : SumFunctionOnSet(f, X) # SumFunctionOnSet(h, X)}
<1> SUFFICES ASSUME C # {} PROVE FALSE
  OBVIOUS
<1>1. \A X \in SUBSET S : IsFiniteSet(X)
  BY FS_Subset
<1>2. PICK X \in C : \A Y \in C : ~(Cardinality(Y) < Cardinality(X))
  BY <1>1, SmallestSet
<1>3. X # {}
  BY <1>2, SumEmpty
<1>4. Chosen(X) \in X
  BY <1>3 DEF Chosen
<1>5. X \ {Chosen(X)} \notin C
  BY <1>1, <1>2, <1>4, LessOne
<1>6. /\ SumFunctionOnSet(f, X) = f[Chosen(X)] + SumFunctionOnSet(f, X \ {Chosen(X)})
      /\ SumFunctionOnSet(h, X) = h[Chosen(X)] + SumFunctionOnSet(h, X \ {Chosen(X)})
  BY <1>1, <1>3, SumSteps
<1> QED
  BY <1>4, <1>5, <1>6

(* Indices of a list: finitely many, and none beyond its end.              *)
LEMMA IndexSets ==
  ASSUME NEW n \in Nat, NEW J \in SUBSET (1..n)
  PROVE  IsFiniteSet(J) /\ n + 1 \notin J
<1>1. IsFiniteSet(1..n)
  BY FS_Interval
<1>2. IsFiniteSet(J)
  BY <1>1, FS_Subset
<1> QED
  BY <1>2

-----------------------------------------------------------------------------
(* The volume and the balances are what the events tell.                   *)

(* The DEX that paid has paid the token the trade names.                   *)
PaidOut ==
  trade # NoTrade /\ swap.pc = "returned" =>
    vaultBalance = [Pulled EXCEPT ![swap.tokenOut] = @ + swap.amountOut]

VolumeInv == \A p \in Pairs, d \in Days : Volume[p][d] = SettledVolume(p, d)

CapitalInv ==
  CurveOutputsWired =>
    /\ \A t \in Tokens :
         Capital[t] = netFunding[t] + sentToVault[t] - Sold(t) + Bought(t)
    /\ PaidOut

LEMMA EventsInit == Init => VolumeInv /\ CapitalInv
<1> SUFFICES ASSUME Init PROVE VolumeInv /\ CapitalInv
  OBVIOUS
<1>1. trade = NoTrade /\ Receipts = {}
  BY DEF Init, Receipts
<1>2. \A p, d : SettledVolume(p, d) = 0
  <2> SUFFICES ASSUME NEW p, NEW d PROVE SettledVolume(p, d) = 0
    OBVIOUS
  <2>1. {i \in Receipts : receipts[i].pair = p /\ receipts[i].day = d} = {}
    BY <1>1
  <2> QED
    BY <2>1, SumEmpty DEF SettledVolume
<1>3. \A t : Sold(t) = 0 /\ Bought(t) = 0
  <2> SUFFICES ASSUME NEW t PROVE Sold(t) = 0 /\ Bought(t) = 0
    OBVIOUS
  <2>1. /\ {i \in Receipts : receipts[i].tokenIn = t} = {}
        /\ {i \in Receipts : receipts[i].tokenOut = t} = {}
    BY <1>1
  <2> QED
    BY <2>1, SumEmpty DEF Sold, Bought
<1>4. VolumeInv
  BY <1>1, <1>2 DEF VolumeInv, Volume, AtRest, Idle, Init
<1>5. \A t \in Tokens : Capital[t] = 0 /\ netFunding[t] = 0 /\ sentToVault[t] = 0
  BY <1>1 DEF Init, RouterInit, Capital, AtRest, Idle
<1>6. PaidOut
  BY <1>1 DEF PaidOut
<1> QED
  BY <1>3, <1>4, <1>5, <1>6 DEF CapitalInv

(* The sums stay as long as no trade completes.                            *)
LEMMA SameSums ==
  ASSUME receipts' = receipts
  PROVE  /\ \A p, d : SettledVolume(p, d)' = SettledVolume(p, d)
         /\ \A t : Sold(t)' = Sold(t) /\ Bought(t)' = Bought(t)
<1>1. Receipts' = Receipts /\ Given' = Given /\ Got' = Got
  BY DEF Receipts, Given, Got
<1> QED
  BY <1>1 DEF SettledVolume, Sold, Bought

LEMMA SumsAreIntegers ==
  ASSUME receipts \in Seq(Receipt), NEW t
  PROVE  Sold(t) \in Int /\ Bought(t) \in Int
<1> PICK n : n = Len(receipts)
  OBVIOUS
<1>1. /\ n \in Nat /\ Receipts = 1..n
      /\ Given \in [1..n -> Int] /\ Got \in [1..n -> Int]
  <2>1. n \in Nat /\ Receipts = 1..n
    BY DEF Receipts
  <2>2. \A i \in 1..n : receipts[i] \in Receipt
    OBVIOUS
  <2>3. \A i \in 1..n : receipts[i].amount \in Int /\ receipts[i].amountOut \in Int
    BY <2>2 DEF Receipt
  <2> QED
    BY <2>1, <2>3 DEF Given, Got
<1>2. IsFiniteSet(1..n)
  BY <1>1, FS_Interval
<1> PICK I : I = {i \in Receipts : receipts[i].tokenIn = t}
  OBVIOUS
<1> PICK J : J = {i \in Receipts : receipts[i].tokenOut = t}
  OBVIOUS
<1>3. I \subseteq 1..n /\ J \subseteq 1..n /\ IsFiniteSet(I) /\ IsFiniteSet(J)
  BY <1>1, <1>2, FS_Subset
<1>4. /\ \A i \in I : Given[i] \in Int
      /\ \A i \in J : Got[i] \in Int
  BY <1>1, <1>3
<1>5. SumFunctionOnSet(Given, I) \in Int /\ SumFunctionOnSet(Got, J) \in Int
  BY <1>3, <1>4, SumInt
<1> QED
  BY <1>5 DEF Sold, Bought

(* Wiring that is right was right before: configurations are only appended *)
(* and paused.                                                             *)
LEMMA WiredBefore ==
  ASSUME IInv, [Next]_vars, CurveOutputsWired'
  PROVE  CurveOutputsWired
<1>1. dexConfigs \in [Tokens \X Tokens -> Seq(DEXConfig)]
  BY DEF IInv, TypeOK, RouterTypeOK
<1>2. CASE dexConfigs' = dexConfigs
  BY <1>2 DEF CurveOutputsWired
<1>3. ASSUME NEW m \in DexMenu, AddDEXConfig(m)
      PROVE  CurveOutputsWired
  <2> SUFFICES ASSUME NEW key \in Tokens \X Tokens, NEW i \in 1..Len(dexConfigs[key])
               PROVE  /\ i \in 1..Len(dexConfigs'[key])
                      /\ dexConfigs'[key][i] = dexConfigs[key][i]
    BY DEF CurveOutputsWired
  <2>1. CASE key = m.key
    <3>1. PICK c : dexConfigs'[key] = Append(dexConfigs[key], c)
      BY <1>1, <1>3, <2>1 DEF AddDEXConfig
    <3>2. dexConfigs[key] \in Seq(DEXConfig)
      BY <1>1
    <3> QED
      BY <3>1, <3>2
  <2>2. CASE key # m.key
    BY <1>1, <1>3, <2>2 DEF AddDEXConfig
  <2> QED
    BY <2>1, <2>2
<1>4. ASSUME NEW k \in Tokens \X Tokens, NEW index \in 1..MaxConfigs,
             DeactivateDEX(k, index)
      PROVE  CurveOutputsWired
  <2> SUFFICES ASSUME NEW key \in Tokens \X Tokens, NEW i \in 1..Len(dexConfigs[key])
               PROVE  /\ i \in 1..Len(dexConfigs'[key])
                      /\ dexConfigs'[key][i].dexType = dexConfigs[key][i].dexType
                      /\ dexConfigs'[key][i].coinOut = dexConfigs[key][i].coinOut
    BY DEF CurveOutputsWired
  <2>1. CASE key = k
    <3> PICK list : list = dexConfigs[key]
      OBVIOUS
    <3>1. list \in Seq(DEXConfig) /\ index \in 1..Len(list) /\ i \in 1..Len(list)
      BY <1>1, <1>4, <2>1 DEF DeactivateDEX
    <3> PICK c : c = [list[index] EXCEPT !.active = FALSE]
      OBVIOUS
    <3>2. /\ c \in DEXConfig
          /\ c.dexType = list[index].dexType /\ c.coinOut = list[index].coinOut
      <4>1. list[index] \in DEXConfig
        BY <3>1
      <4> QED
        BY <4>1 DEF DEXConfig
    <3>3. dexConfigs'[key] = [list EXCEPT ![index] = c]
      BY <1>1, <1>4, <2>1 DEF DeactivateDEX
    <3>4. /\ Len([list EXCEPT ![index] = c]) = Len(list)
          /\ [list EXCEPT ![index] = c][i] = IF i = index THEN c ELSE list[i]
      BY <3>1, <3>2
    <3> QED
      BY <3>1, <3>2, <3>3, <3>4
  <2>2. CASE key # k
    BY <1>1, <1>4, <2>2 DEF DeactivateDEX
  <2> QED
    BY <2>1, <2>2
<1>5. ASSUME ~RouterOwnerStep
      PROVE  dexConfigs' = dexConfigs
  BY <1>5 DEF Next, vars, routerVars, routerConfig, RegisterTEE, DeactivateTEE, ConfigurePair,
     DeactivatePair, WhitelistToken, Deposit, Withdraw, Tick, ExecuteTrade, RouterStep, SwapStep,
     SkipDEX, PullFromVault, DEXFills, DEXReverts, CompleteTrade, RevertTrade
<1> QED
  BY <1>2, <1>3, <1>4, <1>5 DEF RouterOwnerStep, SetVault

(* Steps that move no value between trades and complete none.              *)
LEMMA EventsFrame ==
  ASSUME IInv, VolumeInv, CapitalInv, [Next]_vars,
         UNCHANGED <<Volume, Capital, netFunding, sentToVault, receipts>>,
         CurveOutputsWired => PaidOut'
  PROVE  VolumeInv' /\ CapitalInv'
<1>1. VolumeInv'
  BY SameSums DEF VolumeInv
<1>2. CurveOutputsWired' => CurveOutputsWired
  BY WiredBefore
<1>3. ASSUME CurveOutputsWired
      PROVE  \A t \in Tokens :
               Capital'[t] = netFunding'[t] + sentToVault'[t] - Sold(t)' + Bought(t)'
  BY <1>3, SameSums DEF CapitalInv
<1> QED
  BY <1>1, <1>2, <1>3 DEF CapitalInv

(* The arithmetic of one more deposit or withdrawal.                      *)
LEMMA BalancedFunding ==
  ASSUME NEW c \in Int, NEW f \in Int, NEW g \in Int, NEW s \in Int, NEW b \in Int,
         NEW n \in Int, c = f + g - s + b
  PROVE  /\ c + n = (f + n) + g - s + b
         /\ c - n = (f - n) + g - s + b
         /\ c = (f - n) + (g + n) - s + b
OBVIOUS

(* A deposit or a withdrawal moves the balance and the events alike, a     *)
(* withdrawal to the vault itself none of them.                            *)
LEMMA EventsFund ==
  ASSUME IInv, VolumeInv, CapitalInv, [Next]_vars,
         NEW t \in Tokens, NEW n \in Amounts,
         Deposit(t, n) \/ \E to \in Recipients : Withdraw(t, n, to)
  PROVE  VolumeInv' /\ CapitalInv'
<1>0. /\ trade = NoTrade /\ trade' = NoTrade /\ receipts' = receipts
      /\ dailyVolume' = dailyVolume
  BY DEF Deposit, Withdraw, Idle
<1>1. /\ Volume' = Volume /\ Capital = vaultBalance /\ Capital' = vaultBalance'
  BY <1>0 DEF Volume, Capital, AtRest, Idle
<1>2. VolumeInv'
  BY <1>0, <1>1, SameSums DEF VolumeInv
<1>3. /\ vaultBalance \in [Tokens -> Nat] /\ netFunding \in [Tokens -> Int]
      /\ sentToVault \in [Tokens -> Nat] /\ n \in Nat
  BY RouterAssumption DEF IInv, TypeOK, RouterTypeOK
<1>4. ASSUME CurveOutputsWired, NEW u \in Tokens
      PROVE  Capital'[u] = netFunding'[u] + sentToVault'[u] - Sold(u)' + Bought(u)'
  <2> PICK moved : moved = IF u = t THEN n ELSE 0
    OBVIOUS
  <2>1. /\ netFunding[u] \in Int /\ sentToVault[u] \in Int /\ Capital[u] \in Int
        /\ moved \in Int
    BY <1>1, <1>3
  <2>2. Sold(u) \in Int /\ Bought(u) \in Int
    BY SumsAreIntegers DEF IInv, TypeOK
  <2>3. Capital[u] = netFunding[u] + sentToVault[u] - Sold(u) + Bought(u)
    BY <1>4 DEF CapitalInv
  <2>4. /\ Capital[u] + moved = (netFunding[u] + moved) + sentToVault[u] - Sold(u) + Bought(u)
        /\ Capital[u] - moved = (netFunding[u] - moved) + sentToVault[u] - Sold(u) + Bought(u)
        /\ Capital[u] = (netFunding[u] - moved) + (sentToVault[u] + moved)
                           - Sold(u) + Bought(u)
    BY <2>1, <2>2, <2>3, BalancedFunding
  <2>5. Sold(u)' = Sold(u) /\ Bought(u)' = Bought(u)
    BY <1>0, SameSums
  <2>6. \/ /\ Capital'[u] = Capital[u] + moved
           /\ netFunding'[u] = netFunding[u] + moved
           /\ sentToVault'[u] = sentToVault[u]
        \/ /\ Capital'[u] = Capital[u] - moved
           /\ netFunding'[u] = netFunding[u] - moved
           /\ sentToVault'[u] = sentToVault[u]
        \/ /\ Capital'[u] = Capital[u]
           /\ netFunding'[u] = netFunding[u] - moved
           /\ sentToVault'[u] = sentToVault[u] + moved
    <3>1. CASE Deposit(t, n)
      BY <1>1, <1>3, <3>1 DEF Deposit
    <3>2. ASSUME NEW to \in Recipients, Withdraw(t, n, to)
          PROVE  <2>6
      <4>1. CASE to = "vault"
        BY <1>1, <1>3, <3>2, <4>1 DEF Withdraw
      <4>2. CASE to # "vault"
        BY <1>1, <1>3, <3>2, <4>2 DEF Withdraw
      <4> QED
        BY <4>1, <4>2
    <3> QED
      BY <3>1, <3>2
  <2> QED
    BY <2>4, <2>5, <2>6
<1>5. CurveOutputsWired' => CurveOutputsWired
  BY WiredBefore
<1>6. PaidOut'
  BY <1>0 DEF PaidOut
<1> QED
  BY <1>2, <1>4, <1>5, <1>6 DEF CapitalInv

(* The step of a DEX that pays leaves the vault with the output named.     *)
LEMMA EventsRouter ==
  ASSUME IInv, VolumeInv, CapitalInv, RouterStep
  PROVE  VolumeInv' /\ CapitalInv'
<1>0. /\ trade # NoTrade /\ InTradeInv /\ TypeOK /\ swap \in Swaps
      /\ UNCHANGED <<trade, receipts, netFunding, sentToVault, dexConfigs>>
  <2>1. swap.pc \in {"loop", "called"}
    BY DEF RouterStep, SwapStep, SkipDEX, PullFromVault, DEXFills, DEXReverts, Looking
  <2>2. trade # NoTrade
    BY <2>1 DEF IInv, AtRestInv, NoSwap
  <2> QED
    BY <2>2 DEF IInv, InTradeInv, RouterStep, SwapStep, SkipDEX, PullFromVault, DEXFills,
       DEXReverts, routerConfig, vaultConfig, journal, funding
<1>1. UNCHANGED <<Volume, Capital>>
  BY <1>0 DEF Volume, Capital, AtRest, Idle
<1>2. ASSUME swap'.pc = "returned"
      PROVE  \E out \in Outputs : DEXFills(out) /\ out > 0
  <2>1. ASSUME SkipDEX \/ PullFromVault \/ DEXReverts
        PROVE  swap'.pc # "returned"
    BY <1>0, <2>1 DEF SkipDEX, PullFromVault, DEXReverts, Looking, Swaps
  <2>2. ASSUME NEW out \in Outputs, DEXFills(out), ~(out > 0)
        PROVE  swap'.pc # "returned"
    BY <1>0, <2>2 DEF DEXFills, Swaps
  <2> QED
    BY <1>2, <2>1, <2>2 DEF RouterStep, SwapStep
<1>3. ASSUME CurveOutputsWired, swap'.pc = "returned"
      PROVE  vaultBalance' = [Pulled' EXCEPT ![swap'.tokenOut] = @ + swap'.amountOut]
  <2>1. PICK out \in Outputs : DEXFills(out) /\ out > 0
    BY <1>2, <1>3
  <2>2. out \in Nat
    BY RouterAssumption
  <2>3. /\ InCall
        /\ vaultBalance' = [vaultBalance EXCEPT ![PaidToken(Config)] = @ + out]
        /\ swap' = [swap EXCEPT !.pc = "returned", !.amountOut = out]
    BY <1>0, <2>1 DEF DEXFills, InTradeInv
  <2>4. /\ swap'.tokenOut = swap.tokenOut /\ swap'.tokenIn = swap.tokenIn
        /\ swap'.amountIn = swap.amountIn /\ swap'.amountOut = out
    BY <1>0, <2>2, <2>3, SameCall, NextPoint
  <2>5. Pulled' = Pulled
    BY <1>0, <2>4 DEF Pulled, Saved
  <2>6. PaidToken(Config) = swap.tokenOut
    <3> PICK key : key = <<swap.tokenIn, swap.tokenOut>>
      OBVIOUS
    <3>1. key \in Tokens \X Tokens /\ key[2] = swap.tokenOut
      BY <1>0 DEF Swaps
    <3>2. swap.i \in 1..Len(dexConfigs[key]) /\ Config = dexConfigs[key][swap.i]
      <4>1. swap.i \in Nat \ {0} /\ Configs = dexConfigs[key]
        BY <1>0 DEF Swaps, Configs
      <4>2. Configs \in Seq(DEXConfig)
        BY <1>0, <3>1, <4>1 DEF TypeOK, RouterTypeOK
      <4> QED
        BY <2>3, <4>1, <4>2 DEF InCall, Config
    <3>3. Config.dexType = Curve => Config.coinOut = key[2]
      BY <1>3, <3>1, <3>2 DEF CurveOutputsWired
    <3> QED
      BY <3>1, <3>3 DEF PaidToken
  <2> QED
    BY <2>3, <2>4, <2>5, <2>6 DEF InCall
<1>4. CurveOutputsWired => PaidOut'
  BY <1>3 DEF PaidOut
<1>5. [Next]_vars
  BY DEF Next
<1> QED
  BY <1>0, <1>1, <1>4, <1>5, EventsFrame

(* A trade that completes adds its own terms to the sums.                  *)
LEMMA EventsComplete ==
  ASSUME IInv, VolumeInv, CapitalInv, CompleteTrade
  PROVE  VolumeInv' /\ CapitalInv'
<1>0. /\ trade \in Trades /\ trade # NoTrade /\ trade' = NoTrade
      /\ TypeOK /\ InTradeInv /\ HasPaid /\ swap \in Swaps /\ swap.pc = "returned"
      /\ UNCHANGED <<dailyVolume, vaultBalance, netFunding, sentToVault, dexConfigs>>
  BY CompleteIInv, TradesAreTrades DEF IInv, InTradeInv, CompleteTrade, tokenState, vaultConfig,
     routerConfig, funding
<1>1. /\ Volume = Saved.dailyVolume /\ Volume' = dailyVolume
      /\ Capital = Saved.vaultBalance /\ Capital' = vaultBalance
  BY <1>0 DEF Volume, Capital, AtRest, Idle, Saved
<1>2. /\ Paid.pair \in Pairs /\ Paid.amount \in Nat /\ Today \in Days
      /\ swap.tokenIn \in Tokens /\ swap.tokenOut \in Tokens /\ swap.amountOut \in Nat
      /\ swap.amountIn = Paid.amount
      /\ Saved.dailyVolume \in [Pairs -> [Days -> Nat]]
      /\ Saved.vaultBalance \in [Tokens -> Nat]
  BY <1>0, RouterAssumption DEF Trades, Payload, Snapshot, Saved, Paid, TypeOK, Days, Today,
     Swaps, InTradeInv, Checked
<1> PICK n : n = Len(receipts)
  OBVIOUS
<1> PICK r : r = receipts'[n + 1]
  OBVIOUS
<1>3. /\ receipts \in Seq(Receipt) /\ receipts' \in Seq(Receipt)
      /\ n \in Nat /\ Len(receipts') = n + 1
      /\ \A i \in 1..n : receipts'[i] = receipts[i]
      /\ r.pair = Paid.pair /\ r.day = Today /\ r.amount = Paid.amount
      /\ r.tokenIn = swap.tokenIn /\ r.tokenOut = swap.tokenOut
      /\ r.amountOut = swap.amountOut
  <2> PICK new : new = [signer |-> trade.signer, nonce |-> trade.payload.nonce,
                        pair |-> trade.payload.pair, day |-> Today,
                        action |-> trade.payload.action,
                        amount |-> swap.amountIn, priceLimit |-> swap.priceLimit,
                        tokenIn |-> swap.tokenIn, tokenOut |-> swap.tokenOut,
                        amountOut |-> swap.amountOut]
    OBVIOUS
  <2>1. /\ new.pair = Paid.pair /\ new.day = Today /\ new.amount = Paid.amount
        /\ new.tokenIn = swap.tokenIn /\ new.tokenOut = swap.tokenOut
        /\ new.amountOut = swap.amountOut
    BY <1>2 DEF Paid
  <2>2. receipts' = Append(receipts, new)
    BY DEF CompleteTrade
  <2>3. receipts \in Seq(Receipt) /\ receipts' \in Seq(Receipt)
    BY <1>0, CompleteIInv DEF IInv, TypeOK
  <2> QED
    BY <2>1, <2>2, <2>3
<1>4. /\ Receipts = 1..n /\ Receipts' = 1..(n + 1)
      /\ Given \in [1..n -> Int] /\ Given' \in [1..(n + 1) -> Int]
      /\ Got \in [1..n -> Int] /\ Got' \in [1..(n + 1) -> Int]
      /\ \A i \in 1..n : Given'[i] = Given[i] /\ Got'[i] = Got[i]
      /\ Given'[n + 1] = Paid.amount /\ Got'[n + 1] = swap.amountOut
  <2>1. Receipts = 1..n /\ Receipts' = 1..(n + 1)
    BY <1>3 DEF Receipts
  <2>2. /\ \A i \in 1..n : receipts[i] \in Receipt
        /\ \A i \in 1..(n + 1) : receipts'[i] \in Receipt
    BY <1>3
  <2>3. \A x \in Receipt : x.amount \in Int /\ x.amountOut \in Int
    BY DEF Receipt
  <2>4. /\ Given = [i \in 1..n |-> receipts[i].amount]
        /\ Given' = [i \in 1..(n + 1) |-> receipts'[i].amount]
        /\ Got = [i \in 1..n |-> receipts[i].amountOut]
        /\ Got' = [i \in 1..(n + 1) |-> receipts'[i].amountOut]
    BY <2>1 DEF Given, Got
  <2>5. 1..n \subseteq 1..(n + 1) /\ n + 1 \in 1..(n + 1)
    BY <1>3
  <2> QED
    BY <1>3, <2>1, <2>2, <2>3, <2>4, <2>5
<1>5. ASSUME NEW I \in SUBSET (1..n)
       PROVE  /\ SumFunctionOnSet(Given, I) \in Int
              /\ SumFunctionOnSet(Given', I) = SumFunctionOnSet(Given, I)
              /\ SumFunctionOnSet(Given', I \cup {n + 1})
                   = SumFunctionOnSet(Given, I) + Paid.amount
  <2>1. n \in Nat
    BY <1>3
  <2>2. IsFiniteSet(I) /\ n + 1 \notin I
    BY <2>1, IndexSets
  <2>3. \A i \in I : Given[i] \in Int /\ Given'[i] = Given[i]
    BY <1>4
  <2>4. Given'[n + 1] = Paid.amount /\ Paid.amount \in Int
    BY <1>2, <1>4
  <2>5. Given'[n + 1] \in Int
    BY <2>4
  <2>6. SumFunctionOnSet(Given, I) \in Int
    BY <2>2, <2>3, SumInt
  <2>7. SumFunctionOnSet(Given', I) = SumFunctionOnSet(Given, I)
    BY <2>2, <2>3, SumSame
  <2>8. SumFunctionOnSet(Given', I \cup {n + 1}) = SumFunctionOnSet(Given', I) + Given'[n + 1]
    <3>1. \A i \in I : Given'[i] \in Int
      BY <2>3
    <3> QED
      BY <2>2, <2>5, <3>1, SumAdd
  <2> QED
    BY <2>4, <2>6, <2>7, <2>8
<1>6. ASSUME NEW I \in SUBSET (1..n)
       PROVE  /\ SumFunctionOnSet(Got, I) \in Int
              /\ SumFunctionOnSet(Got', I) = SumFunctionOnSet(Got, I)
              /\ SumFunctionOnSet(Got', I \cup {n + 1})
                   = SumFunctionOnSet(Got, I) + swap.amountOut
  <2>1. n \in Nat
    BY <1>3
  <2>2. IsFiniteSet(I) /\ n + 1 \notin I
    BY <2>1, IndexSets
  <2>3. \A i \in I : Got[i] \in Int /\ Got'[i] = Got[i]
    BY <1>4
  <2>4. Got'[n + 1] = swap.amountOut /\ swap.amountOut \in Int
    BY <1>2, <1>4
  <2>5. Got'[n + 1] \in Int
    BY <2>4
  <2>6. SumFunctionOnSet(Got, I) \in Int
    BY <2>2, <2>3, SumInt
  <2>7. SumFunctionOnSet(Got', I) = SumFunctionOnSet(Got, I)
    BY <2>2, <2>3, SumSame
  <2>8. SumFunctionOnSet(Got', I \cup {n + 1}) = SumFunctionOnSet(Got', I) + Got'[n + 1]
    <3>1. \A i \in I : Got'[i] \in Int
      BY <2>3
    <3> QED
      BY <2>2, <2>5, <3>1, SumAdd
  <2> QED
    BY <2>4, <2>6, <2>7, <2>8
<1>7. ASSUME NEW p \in Pairs, NEW d \in Days
      PROVE  SettledVolume(p, d)' =
               SettledVolume(p, d) + (IF p = Paid.pair /\ d = Today THEN Paid.amount ELSE 0)
  <2> DEFINE before == {i \in 1..n : receipts[i].pair = p /\ receipts[i].day = d}
             after == {i \in 1..(n + 1) : receipts'[i].pair = p /\ receipts'[i].day = d}
  <2>1. after = IF p = Paid.pair /\ d = Today THEN before \cup {n + 1} ELSE before
    BY <1>3
  <2>2. before \in SUBSET (1..n)
    OBVIOUS
  <2>3. /\ SettledVolume(p, d) = SumFunctionOnSet(Given, before)
        /\ SettledVolume(p, d)' = SumFunctionOnSet(Given', after)
    BY <1>4 DEF SettledVolume
  <2> HIDE DEF before, after
  <2>4. /\ SumFunctionOnSet(Given, before) \in Int
        /\ SumFunctionOnSet(Given', before) = SumFunctionOnSet(Given, before)
        /\ SumFunctionOnSet(Given', before \cup {n + 1})
             = SumFunctionOnSet(Given, before) + Paid.amount
    BY <1>5, <2>2
  <2> QED
    BY <2>1, <2>3, <2>4
<1>8. ASSUME NEW t \in Tokens
      PROVE  /\ Sold(t) \in Int
             /\ Sold(t)' = Sold(t) + (IF t = swap.tokenIn THEN Paid.amount ELSE 0)
  <2> DEFINE before == {i \in 1..n : receipts[i].tokenIn = t}
             after == {i \in 1..(n + 1) : receipts'[i].tokenIn = t}
  <2>1. after = IF t = swap.tokenIn THEN before \cup {n + 1} ELSE before
    BY <1>3
  <2>2. before \in SUBSET (1..n)
    OBVIOUS
  <2>3. /\ Sold(t) = SumFunctionOnSet(Given, before)
        /\ Sold(t)' = SumFunctionOnSet(Given', after)
    BY <1>4 DEF Sold
  <2> HIDE DEF before, after
  <2>4. /\ SumFunctionOnSet(Given, before) \in Int
        /\ SumFunctionOnSet(Given', before) = SumFunctionOnSet(Given, before)
        /\ SumFunctionOnSet(Given', before \cup {n + 1})
             = SumFunctionOnSet(Given, before) + Paid.amount
    BY <1>5, <2>2
  <2> QED
    BY <2>1, <2>3, <2>4
<1>9. ASSUME NEW t \in Tokens
      PROVE  /\ Bought(t) \in Int
             /\ Bought(t)' = Bought(t) + (IF t = swap.tokenOut THEN swap.amountOut ELSE 0)
  <2> DEFINE before == {i \in 1..n : receipts[i].tokenOut = t}
             after == {i \in 1..(n + 1) : receipts'[i].tokenOut = t}
  <2>1. after = IF t = swap.tokenOut THEN before \cup {n + 1} ELSE before
    BY <1>3
  <2>2. before \in SUBSET (1..n)
    OBVIOUS
  <2>3. /\ Bought(t) = SumFunctionOnSet(Got, before)
        /\ Bought(t)' = SumFunctionOnSet(Got', after)
    BY <1>4 DEF Bought
  <2> HIDE DEF before, after
  <2>4. /\ SumFunctionOnSet(Got, before) \in Int
        /\ SumFunctionOnSet(Got', before) = SumFunctionOnSet(Got, before)
        /\ SumFunctionOnSet(Got', before \cup {n + 1})
             = SumFunctionOnSet(Got, before) + swap.amountOut
    BY <1>6, <2>2
  <2> QED
    BY <2>1, <2>3, <2>4
<1>10. VolumeInv'
  <2> SUFFICES ASSUME NEW p \in Pairs, NEW d \in Days
               PROVE  dailyVolume[p][d] = SettledVolume(p, d)'
    BY <1>1 DEF VolumeInv
  <2>1. /\ Saved.dailyVolume[p][d] = SettledVolume(p, d)
        /\ Saved.dailyVolume[p][d] \in Nat
    BY <1>1, <1>2 DEF VolumeInv
  <2>2. dailyVolume = [Saved.dailyVolume EXCEPT ![Paid.pair][Today] = @ + Paid.amount]
    BY <1>0 DEF InTradeInv, Written
  <2>3. dailyVolume[p][d] = Saved.dailyVolume[p][d]
                              + (IF p = Paid.pair /\ d = Today THEN Paid.amount ELSE 0)
    BY <1>2, <2>1, <2>2
  <2> QED
    BY <1>7, <2>1, <2>3
<1>11. ASSUME CurveOutputsWired, NEW t \in Tokens
      PROVE  vaultBalance[t] = netFunding[t] + sentToVault[t] - Sold(t)' + Bought(t)'
  <2>1. Saved.vaultBalance[t] = netFunding[t] + sentToVault[t] - Sold(t) + Bought(t)
    BY <1>1, <1>11 DEF CapitalInv
  <2>2. vaultBalance = [Pulled EXCEPT ![swap.tokenOut] = @ + swap.amountOut]
    BY <1>0, <1>11 DEF CapitalInv, PaidOut
  <2>3. vaultBalance[t] = Saved.vaultBalance[t]
                            - (IF t = swap.tokenIn THEN Paid.amount ELSE 0)
                            + (IF t = swap.tokenOut THEN swap.amountOut ELSE 0)
    BY <1>2, <2>2 DEF Pulled
  <2>4. PICK ds, db \in Int : /\ ds = IF t = swap.tokenIn THEN Paid.amount ELSE 0
                              /\ db = IF t = swap.tokenOut THEN swap.amountOut ELSE 0
    BY <1>2
  <2>5. /\ netFunding[t] \in Int /\ sentToVault[t] \in Int
        /\ Saved.vaultBalance[t] \in Int
    BY <1>0, <1>2 DEF TypeOK
  <2>6. /\ Sold(t)' = Sold(t) + ds /\ Sold(t) \in Int
        /\ Bought(t)' = Bought(t) + db /\ Bought(t) \in Int
        /\ vaultBalance[t] = Saved.vaultBalance[t] - ds + db
    BY <1>8, <1>9, <2>3, <2>4
  <2>7. Saved.vaultBalance[t] - ds + db
          = netFunding[t] + sentToVault[t] - (Sold(t) + ds) + (Bought(t) + db)
    <3>1. PICK sold, bought \in Int : sold = Sold(t) /\ bought = Bought(t)
      BY <2>6
    <3>2. PICK f, g \in Int : f = netFunding[t] /\ g = sentToVault[t]
      BY <2>5
    <3>3. PICK c \in Int : c = Saved.vaultBalance[t]
      BY <2>5
    <3>4. c = f + g - sold + bought
      BY <2>1, <3>1, <3>2, <3>3
    <3>5. c - ds + db = f + g - (sold + ds) + (bought + db)
      BY <3>4
    <3> QED
      BY <3>1, <3>2, <3>3, <3>5
  <2> QED
    BY <2>6, <2>7
<1>12. CurveOutputsWired' => CurveOutputsWired
  BY <1>0 DEF CurveOutputsWired
<1>13. PaidOut'
  BY <1>0 DEF PaidOut
<1>14. CapitalInv'
  BY <1>0, <1>1, <1>11, <1>12, <1>13 DEF CapitalInv
<1> QED
  BY <1>10, <1>14

LEMMA EventsNext == IInv /\ VolumeInv /\ CapitalInv /\ [Next]_vars => VolumeInv' /\ CapitalInv'
<1> SUFFICES ASSUME IInv, VolumeInv, CapitalInv, [Next]_vars
             PROVE  VolumeInv' /\ CapitalInv'
  OBVIOUS
<1>1. ASSUME NEW t \in Tokens, NEW n \in Amounts,
             Deposit(t, n) \/ \E to \in Recipients : Withdraw(t, n, to)
      PROVE  VolumeInv' /\ CapitalInv'
  BY <1>1, EventsFund
(* What the other calls between trades leave alone.                        *)
<1>2. ASSUME trade = NoTrade, trade' = NoTrade,
             UNCHANGED <<dailyVolume, vaultBalance, netFunding, sentToVault, receipts>>
      PROVE  VolumeInv' /\ CapitalInv'
  <2>1. UNCHANGED <<Volume, Capital>> /\ PaidOut'
    BY <1>2 DEF Volume, Capital, AtRest, Idle, PaidOut
  <2> QED
    BY <1>2, <2>1, EventsFrame
<1>3. ASSUME \/ \E s \in Signers : RegisterTEE(s) \/ DeactivateTEE(s)
             \/ \E p \in Pairs, m \in PairMenu : ConfigurePair(p, m)
             \/ \E p \in Pairs : DeactivatePair(p)
             \/ \E t \in Tokens : WhitelistToken(t)
             \/ Tick
             \/ RouterOwnerStep
      PROVE  VolumeInv' /\ CapitalInv'
  BY <1>2, <1>3 DEF RegisterTEE, DeactivateTEE, ConfigurePair, DeactivatePair, WhitelistToken,
     Tick, RouterOwnerStep, SetVault, AddDEXConfig, DeactivateDEX, Idle, routerVars, tokenState,
     journal, funding
<1>4. ASSUME NEW s \in Signers, NEW p \in Payload, ExecuteTrade(s, p)
      PROVE  VolumeInv' /\ CapitalInv'
  <2>1. /\ trade = NoTrade /\ trade' # NoTrade /\ swap'.pc = "loop"
        /\ trade'.saved.dailyVolume = dailyVolume
        /\ trade'.saved.vaultBalance = vaultBalance
        /\ UNCHANGED <<netFunding, sentToVault, receipts>>
    BY <1>4, ExecuteIInv DEF ExecuteTrade, SwapCall, Idle, journal, funding
  <2>2. UNCHANGED <<Volume, Capital>> /\ PaidOut'
    BY <2>1 DEF Volume, Capital, AtRest, Idle, PaidOut
  <2> QED
    BY <2>1, <2>2, EventsFrame
<1>5. CASE RouterStep
  BY <1>5, EventsRouter
<1>6. CASE CompleteTrade
  BY <1>6, EventsComplete
<1>7. CASE RevertTrade
  <2>1. /\ trade # NoTrade /\ trade' = NoTrade
        /\ dailyVolume' = trade.saved.dailyVolume
        /\ vaultBalance' = trade.saved.vaultBalance
        /\ UNCHANGED <<netFunding, sentToVault, receipts>>
    BY <1>7, RevertIInv DEF RevertTrade, journal, funding
  <2>2. UNCHANGED <<Volume, Capital>> /\ PaidOut'
    BY <2>1 DEF Volume, Capital, AtRest, Idle, PaidOut
  <2> QED
    BY <2>1, <2>2, EventsFrame
<1>8. CASE UNCHANGED vars
  <2>1. UNCHANGED <<trade, swap, dailyVolume, vaultBalance, netFunding, sentToVault, receipts,
                  dexConfigs>>
    BY <1>8 DEF vars, routerVars, journal, funding
  <2>2. UNCHANGED <<Volume, Capital>> /\ (CurveOutputsWired => PaidOut')
    BY <2>1 DEF Volume, Capital, AtRest, Idle, CapitalInv, PaidOut, Pulled, Saved
  <2> QED
    BY <2>1, <2>2, EventsFrame
<1> QED
  BY <1>1, <1>3, <1>4, <1>5, <1>6, <1>7, <1>8 DEF Next

LEMMA EventsInvariance == Spec => [](VolumeInv /\ CapitalInv)
<1>1. Init => VolumeInv /\ CapitalInv
  BY EventsInit
<1>2. IInv /\ VolumeInv /\ CapitalInv /\ [Next]_vars => VolumeInv' /\ CapitalInv'
  BY EventsNext
<1> QED
  BY <1>1, <1>2, Invariance, PTL DEF Spec

(* The volume that the daily cap is checked against is, whatever reverted  *)
(* in between, the sum of the amounts of the trades that settled.          *)
THEOREM VolumeIsWhatSettled == Spec => []VolumeMatchesTrades
<1>1. VolumeInv => VolumeMatchesTrades
  BY DEF VolumeInv, VolumeMatchesTrades, Volume, AtRest
<1> QED
  BY <1>1, EventsInvariance, PTL

(* As long as no Curve pool is wired to pay another coin, every token unit *)
(* of the vault is accounted for by an event, whatever the router tried.   *)
THEOREM CapitalIsAccountedFor == Spec => []CapitalMatchesEvents
<1>1. CapitalInv => CapitalMatchesEvents
  BY DEF CapitalInv, CapitalMatchesEvents, Capital, AtRest
<1> QED
  BY <1>1, EventsInvariance, PTL
=============================================================================

---------------------------- MODULE DEXRouter ----------------------------
(***************************************************************************)
(* packages/contracts/src/DEXRouter.sol: the contract through which the    *)
(* vault trades, as far as `swap` uses it.  A swap walks the list of DEX   *)
(* configurations kept for <<tokenIn, tokenOut>> and stops at the first    *)
(* DEX that pays something out.                                            *)
(*                                                                         *)
(* One EVM transaction is several steps here, one per external call, so    *)
(* that what a half-finished swap has done to balances and allowances is   *)
(* visible; FlageVault.tla supplies the caller, the rollback of a reverted *)
(* transaction and the rule that transactions do not overlap.              *)
(*                                                                         *)
(* ERC20 tokens and DEXs are external contracts: a transferFrom needs the  *)
(* balance and the allowance and consumes both; a DEX takes all of         *)
(* amountIn and pays at least the minimum it was given, or reverts.        *)
(***************************************************************************)
EXTENDS Integers, Sequences

CONSTANTS Tokens,      \* ERC20 token contracts
          Dexes,       \* addresses of DEX routers and pools
          Amounts,     \* amounts of a token that occur as inputs
          Outputs,     \* amounts a DEX may pay out, 0 among them
          DexMenu,     \* the configurations the router's owner may add
          MaxConfigs   \* bound: configurations per token pair

UniV3 == 0
Curve == 1

DEXConfig == [router : Dexes, dexType : 0..2,
              coinIn : Tokens, coinOut : Tokens, active : BOOLEAN]

ASSUME RouterAssumption ==
  /\ Amounts \subseteq Nat
  /\ Outputs \subseteq Nat
  /\ MaxConfigs \in Nat
  /\ DexMenu \subseteq [key : Tokens \X Tokens, config : DEXConfig]

VARIABLES
  vaultIsSet,     \* `vault` is the address of the FlageVault
  dexConfigs,     \* <<tokenIn, tokenOut>> -> list of configurations
  vaultBalance,   \* token -> balance of the vault
  routerBalance,  \* token -> balance of the router
  allowance,      \* token -> what the vault lets the router take
  dexAllowance,   \* token -> DEX -> what the router lets the DEX take
  swap            \* the call of `swap` in progress

routerConfig == <<vaultIsSet, dexConfigs>>
tokenState == <<vaultBalance, routerBalance, allowance, dexAllowance>>
routerVars == <<vaultIsSet, dexConfigs, vaultBalance, routerBalance,
                allowance, dexAllowance, swap>>

NoSwap == [pc |-> "idle"]

(* "loop": about to look at configuration i; "called": tokens pulled, the  *)
(* DEX is running; "returned": a DEX has paid and swap returns amountOut.   *)
Swaps == [pc : {"loop", "called", "returned"},
          tokenIn : Tokens, tokenOut : Tokens, amountIn : Nat,
          priceLimit : Nat, i : Nat \ {0}, amountOut : Nat]

RouterTypeOK ==
  /\ vaultIsSet \in BOOLEAN
  /\ dexConfigs \in [Tokens \X Tokens -> Seq(DEXConfig)]
  /\ vaultBalance \in [Tokens -> Nat]
  /\ routerBalance \in [Tokens -> Nat]
  /\ allowance \in [Tokens -> Nat]
  /\ dexAllowance \in [Tokens -> [Dexes -> Nat]]
  /\ swap \in Swaps \cup {NoSwap}

RouterInit ==
  /\ vaultIsSet = FALSE
  /\ dexConfigs = [k \in Tokens \X Tokens |-> <<>>]
  /\ vaultBalance = [t \in Tokens |-> 0]
  /\ routerBalance = [t \in Tokens |-> 0]
  /\ allowance = [t \in Tokens |-> 0]
  /\ dexAllowance = [t \in Tokens |-> [d \in Dexes |-> 0]]
  /\ swap = NoSwap

-----------------------------------------------------------------------------
(* Configuration by the router's owner.                                    *)

SetVault(isFlageVault) ==
  /\ vaultIsSet' = isFlageVault
  /\ UNCHANGED <<dexConfigs, tokenState, swap>>

AddDEXConfig(m) ==
  /\ Len(dexConfigs[m.key]) < MaxConfigs
  /\ dexConfigs' = [dexConfigs EXCEPT
                      ![m.key] = Append(@, [m.config EXCEPT !.active = TRUE])]
  /\ UNCHANGED <<vaultIsSet, tokenState, swap>>

DeactivateDEX(key, index) ==
  /\ index \in 1..Len(dexConfigs[key])
  /\ dexConfigs' = [dexConfigs EXCEPT ![key][index].active = FALSE]
  /\ UNCHANGED <<vaultIsSet, tokenState, swap>>

-----------------------------------------------------------------------------
(* swap, step by step.                                                     *)

(* The record of a call as `swap` begins (the caller writes it).           *)
SwapCall(tokenIn, tokenOut, amountIn, priceLimit) ==
  [pc |-> "loop", tokenIn |-> tokenIn, tokenOut |-> tokenOut,
   amountIn |-> amountIn, priceLimit |-> priceLimit, i |-> 1, amountOut |-> 0]

Configs == dexConfigs[<<swap.tokenIn, swap.tokenOut>>]
Config == Configs[swap.i]
IsTried(c) == c.active /\ c.dexType \in {UniV3, Curve}

(* A Curve-style pool names its coins itself, by index.                    *)
PulledToken(c) == IF c.dexType = Curve THEN c.coinIn ELSE swap.tokenIn
PaidToken(c) == IF c.dexType = Curve THEN c.coinOut ELSE swap.tokenOut

Looking == swap.pc = "loop" /\ swap.i <= Len(Configs)
CanPull == /\ allowance[PulledToken(Config)] >= swap.amountIn
           /\ vaultBalance[PulledToken(Config)] >= swap.amountIn

SkipDEX ==
  /\ Looking
  /\ ~IsTried(Config)
  /\ swap' = [swap EXCEPT !.i = @ + 1]
  /\ UNCHANGED <<routerConfig, tokenState>>

(* safeTransferFrom(vault, router) and safeIncreaseAllowance(dex).         *)
PullFromVault ==
  /\ Looking
  /\ IsTried(Config)
  /\ CanPull
  /\ LET t == PulledToken(Config) IN
     /\ allowance' = [allowance EXCEPT ![t] = @ - swap.amountIn]
     /\ vaultBalance' = [vaultBalance EXCEPT ![t] = @ - swap.amountIn]
     /\ routerBalance' = [routerBalance EXCEPT ![t] = @ + swap.amountIn]
     /\ dexAllowance' = [dexAllowance EXCEPT ![t][Config.router] = @ + swap.amountIn]
  /\ swap' = [swap EXCEPT !.pc = "called"]
  /\ UNCHANGED routerConfig

(* Mutant of DEXFills: what a Curve pool pays stays with the router.       *)
DEXFillsKeepingOutput(out) ==
  /\ swap.pc = "called"
  /\ out >= swap.priceLimit
  /\ LET t == PulledToken(Config)
         gain(u) == IF u = PaidToken(Config) THEN out ELSE 0
         curve == Config.dexType = Curve IN
     /\ routerBalance' = [u \in Tokens |-> routerBalance[u]
                            - (IF u = t THEN swap.amountIn ELSE 0)
                            + (IF curve THEN gain(u) ELSE 0)]
     /\ vaultBalance' = [u \in Tokens |-> vaultBalance[u]
                            + (IF curve THEN 0 ELSE gain(u))]
     /\ dexAllowance' = [dexAllowance EXCEPT ![t][Config.router] = @ - swap.amountIn]
  /\ swap' = IF out > 0 THEN [swap EXCEPT !.pc = "returned", !.amountOut = out]
                        ELSE [swap EXCEPT !.pc = "loop", !.i = @ + 1]
  /\ UNCHANGED <<routerConfig, allowance>>

(* The DEX takes the input and pays the vault, a Curve pool by way of the  *)
(* router.  A DEX that pays 0 has taken the input all the same, and the    *)
(* loop goes on.                                                           *)
DEXFills(out) ==
  /\ swap.pc = "called"
  /\ out >= swap.priceLimit
  /\ LET t == PulledToken(Config) IN
     /\ routerBalance' = [routerBalance EXCEPT ![t] = @ - swap.amountIn]
     /\ dexAllowance' = [dexAllowance EXCEPT ![t][Config.router] = @ - swap.amountIn]
  /\ vaultBalance' = [vaultBalance EXCEPT ![PaidToken(Config)] = @ + out]
  /\ swap' = IF out > 0 THEN [swap EXCEPT !.pc = "returned", !.amountOut = out]
                        ELSE [swap EXCEPT !.pc = "loop", !.i = @ + 1]
  /\ UNCHANGED <<routerConfig, allowance>>

(* The catch branch: allowance to the DEX revoked, the input sent back to  *)
(* the vault.  What the vault had allowed the router is not given back.    *)
DEXReverts ==
  /\ swap.pc = "called"
  /\ LET t == PulledToken(Config) IN
     /\ dexAllowance' = [dexAllowance EXCEPT ![t][Config.router] = @ - swap.amountIn]
     /\ routerBalance' = [routerBalance EXCEPT ![t] = @ - swap.amountIn]
     /\ vaultBalance' = [vaultBalance EXCEPT ![t] = @ + swap.amountIn]
  /\ swap' = [swap EXCEPT !.pc = "loop", !.i = @ + 1]
  /\ UNCHANGED <<routerConfig, allowance>>

(* swap reverts: no configuration left, or the transferFrom of the next    *)
(* DEX to try fails outside the try statement.                             *)
SwapReverts ==
  /\ swap.pc = "loop"
  /\ swap.i <= Len(Configs) => IsTried(Config) /\ ~CanPull

SwapStep ==
  \/ SkipDEX
  \/ PullFromVault
  \/ \E out \in Outputs : DEXFills(out)
  \/ DEXReverts
=============================================================================

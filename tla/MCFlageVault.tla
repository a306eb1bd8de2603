--------------------------- MODULE MCFlageVault ---------------------------
(***************************************************************************)
(* Small instances of FlageVault.tla for TLC.                              *)
(*                                                                         *)
(*   MCVaultAccounts.cfg  two signers, two nonces, two days, one DEX that  *)
(*                        buys ETH for USDC                                *)
(*   MCVaultRouting.cfg   one signer; lists of DEXs of every kind, Curve   *)
(*                        pools with wrong coin indices among them; one    *)
(*                        unit withdrawn to the router or the vault itself *)
(*   MCVaultBuyPrice.cfg, MCVaultFallThrough.cfg                           *)
(*                        what the comments say and the code does not keep *)
(***************************************************************************)
EXTENDS FlageVault, TLC

CONSTANTS s1, s2, ETH, USDC, uni, pool, p1

Dex(in, out, dex, type, coinIn, coinOut) ==
  [key |-> <<in, out>>,
   config |-> [router |-> dex, dexType |-> type, coinIn |-> coinIn,
               coinOut |-> coinOut, active |-> TRUE]]

UniFor(in, out) == Dex(in, out, uni, UniV3, in, out)
PoolFor(in, out) == Dex(in, out, pool, Curve, in, out)

AccountsMenu == {UniFor(USDC, ETH)}
RoutingMenu == {UniFor(USDC, ETH), PoolFor(USDC, ETH),
                Dex(USDC, ETH, pool, Curve, ETH, USDC),
                Dex(USDC, ETH, pool, 2, USDC, ETH)}

PairOf(position, daily) ==
  [tokenA |-> ETH, tokenB |-> USDC, maxPositionSize |-> position,
   maxDailyVolume |-> daily, active |-> TRUE]

MC_Pairs == {PairOf(1, 2), PairOf(0, 1)}
MC_Pair == {PairOf(2, 2)}

SignerSymmetry == Permutations({s1, s2})
=============================================================================

--------------------------- MODULE TradeLedger ---------------------------
(***************************************************************************)
(* What the trading contracts promise, without the router, the DEXs or the *)
(* steps of a transaction: a signed trade settles in one step, at most     *)
(* once per signer and nonce, only for a signer that is authorised and a   *)
(* pair that is open, within the pair's limits in force at that moment;    *)
(* and the vault's capital changes only when the owner funds it or draws   *)
(* from it and when a trade settles, which gives exactly the signed amount *)
(* of one of the pair's tokens for a positive amount of a token.           *)
(***************************************************************************)
EXTENDS Integers

CONSTANTS Signers, Nonces, Pairs, Days, Tokens,
          Limits,      \* what an owner may set for a pair
          Quantities   \* amounts of a token, natural numbers

VARIABLES authorised,  \* signers whose trades count
          settled,     \* signer -> nonces already settled
          limits,      \* pair -> tokens, position limit, daily cap, open or not
          volume,      \* pair -> day -> amount traded
          capital      \* token -> amount the vault owns

vars == <<authorised, settled, limits, volume, capital>>

Init ==
  /\ authorised = {}
  /\ settled = [s \in Signers |-> {}]
  /\ limits \in [Pairs -> {l \in Limits : ~l.active}]
  /\ volume = [p \in Pairs |-> [d \in Days |-> 0]]
  /\ capital = [t \in Tokens |-> 0]

Authorise(s) ==
  /\ authorised' = authorised \cup {s}
  /\ UNCHANGED <<settled, limits, volume, capital>>

Revoke(s) ==
  /\ authorised' = authorised \ {s}
  /\ UNCHANGED <<settled, limits, volume, capital>>

(* Limits change at any time and do not touch what was traded before.      *)
SetLimits(p, l) ==
  /\ limits' = [limits EXCEPT ![p] = l]
  /\ UNCHANGED <<authorised, settled, volume, capital>>

Fund(t, n) ==
  /\ capital' = [capital EXCEPT ![t] = @ + n]
  /\ UNCHANGED <<authorised, settled, limits, volume>>

Draw(t, n) ==
  /\ capital[t] >= n
  /\ capital' = [capital EXCEPT ![t] = @ - n]
  /\ UNCHANGED <<authorised, settled, limits, volume>>

Settle(s, n, p, d, tokenIn, amount, tokenOut, out) ==
  /\ s \in authorised
  /\ n \notin settled[s]
  /\ limits[p].active
  /\ tokenIn \in {limits[p].tokenA, limits[p].tokenB}
  /\ amount <= limits[p].maxPositionSize
  /\ volume[p][d] + amount <= limits[p].maxDailyVolume
  /\ amount <= capital[tokenIn]
  /\ out > 0
  /\ settled' = [settled EXCEPT ![s] = @ \cup {n}]
  /\ volume' = [volume EXCEPT ![p][d] = @ + amount]
  /\ capital' = [[capital EXCEPT ![tokenIn] = @ - amount]
                          EXCEPT ![tokenOut] = @ + out]
  /\ UNCHANGED <<authorised, limits>>

Next ==
  \/ \E s \in Signers : Authorise(s) \/ Revoke(s)
  \/ \E p \in Pairs, l \in Limits : SetLimits(p, l)
  \/ \E t \in Tokens, n \in Quantities : Fund(t, n) \/ Draw(t, n)
  \/ \E s \in Signers, n \in Nonces, p \in Pairs, d \in Days,
        tokenIn, tokenOut \in Tokens, amount, out \in Quantities :
          Settle(s, n, p, d, tokenIn, amount, tokenOut, out)

Spec == Init /\ [][Next]_vars
=============================================================================

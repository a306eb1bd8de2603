------------------------- MODULE MCFlageAgentNFT -------------------------
(***************************************************************************)
(* Small instance of FlageAgentNFT.tla for TLC: three accounts, two        *)
(* agents, and five proofs: two with the same nonce, one whose signature   *)
(* is not the enclave's, one of the other oracle type, one malformed.      *)
(***************************************************************************)
EXTENDS FlageAgentNFT, TLC

CONSTANTS d, a, b, k, r, h0, h1, h2, n1, n2

ProofOf(oracle, hash, nonce, signer) ==
  [oracleType |-> oracle, newDataHash |-> hash, nonce |-> nonce,
   enclaveKey |-> k, signer |-> signer, wellFormed |-> TRUE]

FiveProofs ==
  { ProofOf("TEE", h1, n1, k), ProofOf("TEE", h2, n1, k),
    ProofOf("TEE", h2, n2, Zero), ProofOf("ZKP", h1, n2, Zero),
    [ProofOf("TEE", h1, n2, k) EXCEPT !.wellFormed = FALSE] }

TwoEntries == {<<h0, h0>>}

Symmetry == Permutations({a, b})
=============================================================================

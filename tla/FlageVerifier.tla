--------------------------- MODULE FlageVerifier ---------------------------
(***************************************************************************)
(* packages/contracts/src/FlageVerifier.sol: proofs that the data of an    *)
(* agent was encrypted anew for another owner, each good for one use.      *)
(*                                                                         *)
(* A proof keeps what the code decides by: the oracle type, the new hash,  *)
(* the nonce of the ownership proof, the enclave key it names with the     *)
(* signer recovered, and whether its signature has 65 bytes.               *)
(***************************************************************************)
EXTENDS TEEAttestationVerifier, Sequences, FiniteSets

CONSTANTS Hashes,  \* hashes of encrypted data
          Nonces,  \* hashes of the nonces of ownership proofs
          Proofs   \* the proofs that callers have

Proof == [oracleType : {"TEE", "ZKP"}, newDataHash : Hashes, nonce : Nonces,
          enclaveKey : EnclaveKeys, signer : EnclaveKeys \cup {Zero}, wellFormed : BOOLEAN]

ASSUME ProofAssumption == Proofs \subseteq Proof

VARIABLES
  teeAttestationContract,  \* it is set
  usedProofs,              \* the nonces marked
  served                   \* history: nonce -> proofs accepted with it

verifierVars == <<teeAttestationContract, usedProofs, served>>

VerifierInit ==
  /\ teeAttestationContract = TRUE
  /\ usedProofs = {}
  /\ served = [n \in Nonces |-> 0]

setTEEAttestationContract(sender, set) ==
  /\ sender = Deployer
  /\ teeAttestationContract' = set
  /\ UNCHANGED <<usedProofs, served>>

(* Mutant of MarkedBefore: nonces are marked once the batch is through.    *)
MarkedBeforeBatch(batch, i) == usedProofs

(* The nonces marked when the loop reaches the i-th proof.                 *)
MarkedBefore(batch, i) == usedProofs \cup {batch[j].nonce : j \in 1..i - 1}

(* The i-th proof does not revert the transaction.                         *)
Valid(batch, i) ==
  /\ batch[i].nonce \notin MarkedBefore(batch, i)
  /\ batch[i].wellFormed
  /\ batch[i].oracleType = "TEE" /\ teeAttestationContract
       => verifyTEESignature(batch[i].enclaveKey, batch[i].signer)

Uses(batch, n) == Cardinality({i \in DOMAIN batch : batch[i].nonce = n})

(* All proofs of the batch are accepted, or nothing of it remains.         *)
verifyTransferValidity(batch) ==
  /\ \A i \in DOMAIN batch : Valid(batch, i)
  /\ usedProofs' = usedProofs \cup {batch[i].nonce : i \in DOMAIN batch}
  /\ served' = [n \in Nonces |-> served[n] + Uses(batch, n)]
  /\ UNCHANGED teeAttestationContract

(* A proof of ownership serves once, also within a batch and whoever       *)
(* presents it, to transfer, to clone or for nothing; and a nonce is spent *)
(* only by a proof that served (FlageVerifier.sol, usedProofs).            *)
ProofsServeOnce ==
  \A n \in Nonces : served[n] = IF n \in usedProofs THEN 1 ELSE 0
=============================================================================

---------------------- MODULE TEEAttestationVerifier ----------------------
(***************************************************************************)
(* packages/contracts/src/TEEAttestationVerifier.sol: the registry of      *)
(* enclave keys.  A signature is modelled by the address that ecrecover    *)
(* returns for it over the message in question.                            *)
(***************************************************************************)
EXTENDS Naturals

CONSTANTS Accounts,      \* addresses that call
          Deployer,      \* `owner` of the contracts, one account deploys them all
          EnclaveKeys,
          ReportHashes,  \* hashes of attestation reports
          Zero           \* address(0), bytes32(0)

ASSUME RegistryAssumption ==
  /\ Deployer \in Accounts
  /\ Zero \notin Accounts

VARIABLES
  enclaveReportDataHash,  \* enclave key -> hash or Zero
  dcapVerifier            \* optional, read by no code yet

registryVars == <<enclaveReportDataHash, dcapVerifier>>

RegistryInit ==
  /\ enclaveReportDataHash = [k \in EnclaveKeys |-> Zero]
  /\ dcapVerifier = Zero

setDCAPVerifier(sender, v) ==
  /\ sender = Deployer
  /\ dcapVerifier' = v
  /\ UNCHANGED enclaveReportDataHash

registerEnclaveKey(sender, key, hash) ==
  /\ sender = Deployer
  /\ enclaveReportDataHash' = [enclaveReportDataHash EXCEPT ![key] = hash]
  /\ UNCHANGED dcapVerifier

deregisterEnclaveKey(sender, key) ==
  /\ sender = Deployer
  /\ enclaveReportDataHash' = [enclaveReportDataHash EXCEPT ![key] = Zero]
  /\ UNCHANGED dcapVerifier

(* It returns true or reverts.                                             *)
verifyTEESignature(key, signer) ==
  enclaveReportDataHash[key] # Zero /\ signer = key
=============================================================================

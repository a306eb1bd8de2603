--------------------------- MODULE FlageAgentNFT ---------------------------
(***************************************************************************)
(* packages/contracts/src/FlageAgentNFT.sol with the verifier it calls.    *)
(* Each action is a transaction that does not revert; one that reverts     *)
(* leaves no trace.  Sealed keys and events are left out, an entry of      *)
(* metadata is its hash.                                                   *)
(***************************************************************************)
EXTENDS FlageVerifier, SequencesExt

CONSTANTS MaxTokens,  \* bound: agents minted or cloned
          MaxBatch,   \* bound: proofs in a call
          MintData,   \* what agents are minted with
          MaxCalls    \* bound: transactions

ASSUME AgentAssumption ==
  /\ MaxTokens \in Nat /\ MaxBatch \in Nat /\ MaxCalls \in Nat
  /\ MintData \subseteq Seq(Hashes)

VARIABLES
  agents,              \* _agents
  _nextTokenId,
  _operatorApprovals,  \* pairs of an owner and an operator
  _delegates,
  approver,            \* history: token -> its owner when `approved` was set
  calls

nftVars == <<agents, _nextTokenId, _operatorApprovals, _delegates, approver>>
vars == <<registryVars, verifierVars, nftVars, calls>>

Tokens == 0..MaxTokens - 1
Addresses == Accounts \cup {Zero}
Batches == BoundedSeq(Proofs, MaxBatch)

AgentState ==
  [owner : Addresses, metadata : Seq(Hashes), authorizedUsers : Seq(Accounts),
   isAuthorized : SUBSET Accounts, approved : Addresses]

(* Types.                                                                  *)
TypeOK ==
  /\ enclaveReportDataHash \in [EnclaveKeys -> ReportHashes \cup {Zero}]
  /\ dcapVerifier \in Addresses
  /\ teeAttestationContract \in BOOLEAN
  /\ usedProofs \subseteq Nonces
  /\ served \in [Nonces -> Nat]
  /\ agents \in [Tokens -> AgentState]
  /\ _nextTokenId \in 0..MaxTokens
  /\ _operatorApprovals \subseteq Accounts \X Accounts
  /\ _delegates \in [Accounts -> Addresses]
  /\ approver \in [Tokens -> Addresses]
  /\ calls \in 0..MaxCalls

Blank == [owner |-> Zero, metadata |-> <<>>, authorizedUsers |-> <<>>,
          isAuthorized |-> {}, approved |-> Zero]

Init ==
  /\ RegistryInit /\ VerifierInit
  /\ agents = [t \in Tokens |-> Blank]
  /\ _nextTokenId = 0
  /\ _operatorApprovals = {}
  /\ _delegates = [a \in Accounts |-> Zero]
  /\ approver = [t \in Tokens |-> Zero]
  /\ calls = 0

tokenExists(t) == agents[t].owner # Zero

-----------------------------------------------------------------------------
(* Grants *)

Operates(sender, t) == <<agents[t].owner, sender>> \in _operatorApprovals

approve(sender, to, t) ==
  /\ tokenExists(t)
  /\ sender = agents[t].owner \/ Operates(sender, t)
  /\ agents' = [agents EXCEPT ![t].approved = to]
  /\ approver' = [approver EXCEPT ![t] = agents[t].owner]
  /\ UNCHANGED <<_nextTokenId, _operatorApprovals, _delegates>>

setApprovalForAll(sender, operator, approved) ==
  /\ _operatorApprovals' = IF approved THEN _operatorApprovals \cup {<<sender, operator>>}
                           ELSE _operatorApprovals \ {<<sender, operator>>}
  /\ UNCHANGED <<agents, _nextTokenId, _delegates, approver>>

delegateAccess(sender, assistant) ==
  /\ _delegates' = [_delegates EXCEPT ![sender] = assistant]
  /\ UNCHANGED <<agents, _nextTokenId, _operatorApprovals, approver>>

SetUsers(t, users, isAuthorized) ==
  /\ agents' = [agents EXCEPT ![t].authorizedUsers = users, ![t].isAuthorized = isAuthorized]
  /\ UNCHANGED <<_nextTokenId, _operatorApprovals, _delegates, approver>>

authorizeUsage(sender, t, user) ==
  /\ tokenExists(t) /\ sender = agents[t].owner
  /\ IF user \in agents[t].isAuthorized THEN UNCHANGED nftVars
     ELSE SetUsers(t, Append(agents[t].authorizedUsers, user), agents[t].isAuthorized \cup {user})

(* Mutant of PopAt: the last user goes, whoever is revoked.                *)
PopLast(users, i) == [j \in 1..Len(users) - 1 |-> users[j]]

(* The last user takes the place of the i-th one.                          *)
PopAt(users, i) ==
  [j \in 1..Len(users) - 1 |-> IF j = i THEN users[Len(users)] ELSE users[j]]

(* The first place a user is found at, if any, is given up.                *)
Without(users, user) ==
  IF \E i \in DOMAIN users : users[i] = user
  THEN LET first == CHOOSE i \in DOMAIN users :
                      users[i] = user /\ \A j \in 1..i - 1 : users[j] # user
       IN PopAt(users, first)
  ELSE users

revokeAuthorization(sender, t, user) ==
  /\ tokenExists(t) /\ sender = agents[t].owner
  /\ SetUsers(t, Without(agents[t].authorizedUsers, user), agents[t].isAuthorized \ {user})

-----------------------------------------------------------------------------
(* Transfer, clone and mint *)

(* Mutant of Renewed: entries beyond the proofs are cleared.               *)
RenewedOrCleared(metadata, batch) ==
  [i \in DOMAIN metadata |-> IF i \in DOMAIN batch THEN batch[i].newDataHash ELSE Zero]

(* Entries of metadata beyond the proofs keep their hashes.                *)
Renewed(metadata, batch) ==
  [i \in DOMAIN metadata |-> IF i \in DOMAIN batch THEN batch[i].newDataHash ELSE metadata[i]]

(* Mutant of Transferred: the approval stays.                              *)
TransferredApproved(agent, to, batch) ==
  [agent EXCEPT !.metadata = Renewed(agent.metadata, batch), !.owner = to]

Transferred(agent, to, batch) ==
  [agent EXCEPT !.metadata = Renewed(agent.metadata, batch), !.owner = to, !.approved = Zero]

iTransfer(sender, to, t, batch) ==
  /\ tokenExists(t)
  /\ sender \in {agents[t].owner, agents[t].approved} \/ Operates(sender, t)
  /\ to # Zero
  /\ verifyTransferValidity(batch)
  /\ agents' = [agents EXCEPT ![t] = Transferred(@, to, batch)]
  /\ UNCHANGED <<_nextTokenId, _operatorApprovals, _delegates, approver>>

(* The next token, with an owner and data and nobody authorised.           *)
NewAgent(to, metadata) ==
  /\ _nextTokenId < MaxTokens
  /\ _nextTokenId' = _nextTokenId + 1
  /\ agents' = [agents EXCEPT ![_nextTokenId].owner = to, ![_nextTokenId].metadata = metadata]
  /\ UNCHANGED <<_operatorApprovals, _delegates, approver>>

iClone(sender, to, t, batch) ==
  /\ tokenExists(t) /\ sender = agents[t].owner
  /\ to # Zero
  /\ verifyTransferValidity(batch)
  /\ NewAgent(to, Renewed(agents[t].metadata, batch))

mint(sender, to, data) ==
  /\ sender = Deployer
  /\ to # Zero
  /\ NewAgent(to, data)

-----------------------------------------------------------------------------
RegistryCall(sender) ==
  \/ \E v \in {Zero, Deployer} : setDCAPVerifier(sender, v)
  \/ \E k \in EnclaveKeys :
       \/ deregisterEnclaveKey(sender, k)
       \/ \E h \in ReportHashes \cup {Zero} : registerEnclaveKey(sender, k, h)

VerifierCall(sender) ==
  \/ \E set \in BOOLEAN : setTEEAttestationContract(sender, set)
  \/ \E batch \in Batches : verifyTransferValidity(batch)

GrantCall(sender) ==
  \/ \E to \in {Zero, Deployer} : delegateAccess(sender, to)
  \/ \E to \in Accounts, b \in BOOLEAN : setApprovalForAll(sender, to, b)
  \/ \E t \in Tokens :
       \/ \E to \in Addresses : approve(sender, to, t)
       \/ \E user \in Accounts : authorizeUsage(sender, t, user) \/ revokeAuthorization(sender, t, user)

MoveCall(sender) ==
  \E to \in Addresses, t \in Tokens, batch \in Batches :
    iTransfer(sender, to, t, batch) \/ iClone(sender, to, t, batch)

Next ==
  /\ calls < MaxCalls
  /\ calls' = calls + 1
  /\ \E sender \in Accounts :
       \/ RegistryCall(sender) /\ UNCHANGED <<verifierVars, nftVars>>
       \/ VerifierCall(sender) /\ UNCHANGED <<registryVars, nftVars>>
       \/ GrantCall(sender) /\ UNCHANGED <<registryVars, verifierVars>>
       \/ MoveCall(sender) /\ UNCHANGED registryVars
       \/ \E to \in Addresses, data \in MintData :
            mint(sender, to, data) /\ UNCHANGED <<registryVars, verifierVars>>

Spec == Init /\ [][Next]_vars

-----------------------------------------------------------------------------
(* Properties *)

(* The list of authorised users names each of them once and nobody else,   *)
(* over any sequence of grants and revocations, transfers in between       *)
(* included (authorizeUsage, revokeAuthorization).                         *)
UsersListed ==
  \A t \in Tokens :
    LET users == agents[t].authorizedUsers IN
    /\ {users[i] : i \in DOMAIN users} = agents[t].isAuthorized
    /\ \A i, j \in DOMAIN users : users[i] = users[j] => i = j

(* An agent once minted always has an owner, and whoever is approved for   *)
(* it was approved under the present one: approvals of former owners do    *)
(* not outlive a transfer, also one made by an operator (iTransfer).       *)
OwnerInCharge ==
  \A t \in Tokens :
    /\ tokenExists(t) <=> t < _nextTokenId
    /\ agents[t].approved # Zero => approver[t] = agents[t].owner
=============================================================================

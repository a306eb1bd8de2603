------------------------ MODULE FlageAgentNFTProofs ------------------------
(***************************************************************************)
(* Proofs about FlageAgentNFT.tla: its types and its three invariants, for *)
(* any number of accounts, agents, proofs and calls.                       *)
(***************************************************************************)
EXTENDS FlageAgentNFT, FiniteSetTheorems, TLAPS

(* An agent that nobody owns is approved for nobody, so that the next one  *)
(* minted starts without an approval.                                      *)
Unowned == \A t \in Tokens : ~tokenExists(t) => agents[t].approved = Zero

AgentsOK ==
  /\ agents \in [Tokens -> AgentState]
  /\ _nextTokenId \in 0..MaxTokens
  /\ _operatorApprovals \subseteq Accounts \X Accounts
  /\ _delegates \in [Accounts -> Addresses]
  /\ approver \in [Tokens -> Addresses]

VerifierOK ==
  /\ teeAttestationContract \in BOOLEAN
  /\ usedProofs \subseteq Nonces
  /\ served \in [Nonces -> Nat]

RegistryOK ==
  /\ enclaveReportDataHash \in [EnclaveKeys -> ReportHashes \cup {Zero}]
  /\ dcapVerifier \in Addresses

(* The inductive invariant.                                                *)
AgentInv ==
  /\ AgentsOK /\ UsersListed /\ OwnerInCharge /\ Unowned
  /\ VerifierOK /\ ProofsServeOnce
  /\ RegistryOK
  /\ calls \in 0..MaxCalls

USE RegistryAssumption, ProofAssumption, AgentAssumption

-----------------------------------------------------------------------------
(* The operators the contracts are built from.                             *)

(* A batch is a sequence of proofs.                                        *)
LEMMA BatchType ==
  ASSUME NEW batch \in Batches
  PROVE  /\ batch \in Seq(Proofs)
         /\ \A i \in DOMAIN batch : batch[i].nonce \in Nonces /\ batch[i].newDataHash \in Hashes
  <1>1. PICK m \in 0..MaxBatch : batch \in [1..m -> Proofs]
    BY DEF Batches, BoundedSeq, SeqOf
  <1>2. QED
    BY <1>1 DEF Proof

(* The hashes that replace those of an agent's data are hashes.            *)
LEMMA RenewedType ==
  ASSUME NEW batch \in Batches, NEW metadata \in Seq(Hashes)
  PROVE  Renewed(metadata, batch) \in Seq(Hashes)
  <1>1. \A i \in DOMAIN metadata : metadata[i] \in Hashes
    OBVIOUS
  <1>2. Renewed(metadata, batch) \in [1..Len(metadata) -> Hashes]
    BY <1>1, BatchType DEF Renewed
  <1>3. QED
    BY <1>2

(* A batch that passes has each nonce once at most.                        *)
LEMMA UsesOnce ==
  ASSUME NEW batch \in Batches,
         \A i \in DOMAIN batch : Valid(batch, i),
         NEW n \in Nonces
  PROVE  Uses(batch, n) = IF \E i \in DOMAIN batch : batch[i].nonce = n THEN 1 ELSE 0
  <1> DEFINE At == {i \in DOMAIN batch : batch[i].nonce = n}
  <1>1. CASE \E i \in DOMAIN batch : batch[i].nonce = n
    <2>1. PICK i \in DOMAIN batch : batch[i].nonce = n
      BY <1>1
    <2>2. \A j \in DOMAIN batch : batch[j].nonce = n => j = i
      <3>1. \A j, k \in DOMAIN batch : j < k => batch[k].nonce # batch[j].nonce
        BY BatchType DEF Valid, MarkedBefore
      <3>2. QED
        BY <2>1, <3>1, BatchType
    <2>3. At = {i}
      BY <2>1, <2>2
    <2>4. QED
      BY <1>1, <2>3, FS_Singleton DEF Uses
  <1>2. CASE ~\E i \in DOMAIN batch : batch[i].nonce = n
    <2>1. At = {}
      BY <1>2
    <2>2. QED
      BY <1>2, <2>1, FS_EmptySet DEF Uses
  <1>3. QED
    BY <1>1, <1>2

(* A call of the verifier keeps its part of the invariant.                 *)
LEMMA VerifyKeeps ==
  ASSUME VerifierOK, ProofsServeOnce, NEW batch \in Batches, verifyTransferValidity(batch)
  PROVE  VerifierOK' /\ ProofsServeOnce'
  <1>1. \A i \in DOMAIN batch : Valid(batch, i) /\ batch[i].nonce \notin usedProofs
    BY DEF verifyTransferValidity, Valid, MarkedBefore
  <1>2. \A n \in Nonces : Uses(batch, n) = IF \E i \in DOMAIN batch : batch[i].nonce = n THEN 1 ELSE 0
    BY <1>1, UsesOnce
  <1>3. VerifierOK'
    BY <1>2, BatchType DEF VerifierOK, verifyTransferValidity
  <1>4. ASSUME NEW n \in Nonces
        PROVE  served'[n] = IF n \in usedProofs' THEN 1 ELSE 0
    <2>1. served'[n] = served[n] + Uses(batch, n)
      BY DEF verifyTransferValidity
    <2>2. CASE n \in usedProofs
      BY <1>1, <1>2, <2>1, <2>2 DEF ProofsServeOnce, verifyTransferValidity
    <2>3. CASE n \notin usedProofs
      BY <1>2, <2>1, <2>3 DEF ProofsServeOnce, verifyTransferValidity
    <2>4. QED
      BY <2>2, <2>3
  <1>5. QED
    BY <1>3, <1>4 DEF ProofsServeOnce

(* A list that names each of its members once: the invariant of the list   *)
(* of authorised users, apart from the agent it belongs to.                *)
Lists(users, members) ==
  /\ users \in Seq(Accounts)
  /\ {users[i] : i \in DOMAIN users} = members
  /\ \A i, j \in DOMAIN users : users[i] = users[j] => i = j

(* Pushing one more keeps it.                                              *)
LEMMA PushKeepsList ==
  ASSUME NEW users, NEW members, Lists(users, members), NEW user \in Accounts \ members
  PROVE  Lists(Append(users, user), members \cup {user})
  <1> DEFINE more == Append(users, user)
  <1>1. /\ users \in Seq(Accounts) /\ more \in Seq(Accounts)
        /\ Len(more) = Len(users) + 1 /\ DOMAIN more = 1..Len(users) + 1
        /\ \A i \in DOMAIN users : more[i] = users[i]
        /\ more[Len(users) + 1] = user
    BY DEF Lists
  <1>2. \A i \in DOMAIN users : users[i] \in members
    BY DEF Lists
  <1>3. {more[i] : i \in DOMAIN more} = members \cup {user}
    <2>1. \A i \in DOMAIN more : more[i] \in members \cup {user}
      BY <1>1, <1>2
    <2>2. \A m \in members : \E i \in DOMAIN more : more[i] = m
      BY <1>1 DEF Lists
    <2>3. QED
      BY <1>1, <2>1, <2>2
  <1>4. \A i, j \in DOMAIN more : more[i] = more[j] => i = j
    BY <1>1, <1>2 DEF Lists
  <1>5. QED
    BY <1>1, <1>3, <1>4 DEF Lists

(* The swap and pop of a revocation keeps it, whoever is revoked.          *)
LEMMA WithoutKeepsList ==
  ASSUME NEW users, NEW members, Lists(users, members), NEW user
  PROVE  Lists(Without(users, user), members \ {user})
  <1>1. CASE ~\E i \in DOMAIN users : users[i] = user
    BY <1>1 DEF Lists, Without
  <1>2. CASE \E i \in DOMAIN users : users[i] = user
    <2>1. PICK f \in DOMAIN users : users[f] = user
      BY <1>2
    <2>2. \A i \in DOMAIN users : users[i] = user => i = f
      BY <2>1 DEF Lists
    <2>3. Without(users, user) = PopAt(users, f)
      <3>1. \A j \in 1..f - 1 : users[j] # user
        BY <2>1, <2>2 DEF Lists
      <3>2. QED
        BY <1>2, <2>1, <2>2, <3>1 DEF Without
    <2> DEFINE n == Len(users)
               rest == PopAt(users, f)
    <2>4. /\ users \in Seq(Accounts) /\ n \in Nat \ {0} /\ f \in 1..n /\ DOMAIN users = 1..n
          /\ DOMAIN rest = 1..n - 1
          /\ \A j \in 1..n - 1 : rest[j] = IF j = f THEN users[n] ELSE users[j]
      BY <2>1 DEF Lists, PopAt
    <2>5. \A i \in 1..n : users[i] \in Accounts
      BY <2>4
    <2>6. rest \in Seq(Accounts)
      BY <2>4, <2>5 DEF PopAt
    <2>7. \A i, j \in DOMAIN rest : rest[i] = rest[j] => i = j
      BY <2>4 DEF Lists
    <2>8. \A j \in DOMAIN rest : rest[j] \in members /\ rest[j] # user
      BY <2>2, <2>4 DEF Lists
    <2> HIDE DEF n, rest
    <2>9. \A m \in members \ {user} : \E j \in DOMAIN rest : rest[j] = m
      <3>1. SUFFICES ASSUME NEW m \in members \ {user}
                     PROVE  \E j \in DOMAIN rest : rest[j] = m
        OBVIOUS
      <3>2. PICK i \in 1..n : users[i] = m
        BY <2>4 DEF Lists
      <3>3. i # f
        BY <2>1, <3>2
      <3>4. CASE i = n
        BY <2>4, <3>2, <3>3, <3>4
      <3>5. CASE i # n
        BY <2>4, <3>2, <3>3, <3>5
      <3>6. QED
        BY <3>4, <3>5
    <2>10. {rest[j] : j \in DOMAIN rest} = members \ {user}
      BY <2>8, <2>9
    <2>11. QED
      BY <2>3, <2>6, <2>7, <2>10 DEF Lists, rest
  <1>3. QED
    BY <1>1, <1>2
-----------------------------------------------------------------------------
(* The steps *)

(* Initially nothing is registered, minted, granted or spent.              *)
LEMMA AgentInvInit == Init => AgentInv
  <1> SUFFICES ASSUME Init PROVE AgentInv
    OBVIOUS
  <1>1. AgentsOK /\ VerifierOK /\ RegistryOK /\ calls \in 0..MaxCalls
    BY DEF Init, RegistryInit, VerifierInit, AgentsOK, VerifierOK, RegistryOK,
           Blank, AgentState, Addresses
  <1>2. ProofsServeOnce
    BY DEF Init, VerifierInit, ProofsServeOnce
  <1>3. UsersListed
    BY DEF Init, Blank, UsersListed
  <1>4. OwnerInCharge /\ Unowned
    BY DEF Init, Blank, OwnerInCharge, Unowned, tokenExists, Tokens
  <1>5. QED
    BY <1>1, <1>2, <1>3, <1>4 DEF AgentInv

AgentPart == AgentsOK /\ UsersListed /\ OwnerInCharge /\ Unowned

(* A grant keeps the invariant.                                            *)
LEMMA GrantKeeps ==
  ASSUME AgentPart, NEW sender \in Accounts, GrantCall(sender)
  PROVE  AgentPart'
  <1> USE DEF AgentPart, AgentsOK, Tokens
  <1>1. CASE \E to \in {Zero, Deployer} : delegateAccess(sender, to)
    BY <1>1 DEF delegateAccess, UsersListed, OwnerInCharge, Unowned, tokenExists, Addresses
  <1>2. CASE \E to \in Accounts, b \in BOOLEAN : setApprovalForAll(sender, to, b)
    BY <1>2 DEF setApprovalForAll, UsersListed, OwnerInCharge, Unowned, tokenExists
  <1>3. ASSUME NEW t \in Tokens, NEW to \in Addresses, approve(sender, to, t)
        PROVE  AgentPart'
    <2>1. /\ tokenExists(t)
          /\ agents' = [agents EXCEPT ![t] = [agents[t] EXCEPT !.approved = to]]
          /\ approver' = [approver EXCEPT ![t] = agents[t].owner]
          /\ UNCHANGED <<_nextTokenId, _operatorApprovals, _delegates>>
      BY <1>3 DEF approve
    <2>2. [agents[t] EXCEPT !.approved = to] \in AgentState
      BY DEF AgentState
    <2>3. AgentsOK'
      BY <2>1, <2>2 DEF AgentState
    <2>4. UsersListed'
      BY <2>1, <2>2 DEF UsersListed, AgentState
    <2>5. OwnerInCharge' /\ Unowned'
      BY <2>1, <2>2 DEF OwnerInCharge, Unowned, tokenExists, AgentState
    <2>6. QED
      BY <2>3, <2>4, <2>5
  <1>4. ASSUME NEW t \in Tokens, NEW users, NEW members \in SUBSET Accounts,
               Lists(users, members), SetUsers(t, users, members)
        PROVE  AgentPart'
    <2>1. /\ agents' = [agents EXCEPT ![t] = [agents[t] EXCEPT !.authorizedUsers = users,
                                                              !.isAuthorized = members]]
          /\ UNCHANGED <<_nextTokenId, _operatorApprovals, _delegates, approver>>
      BY <1>4 DEF SetUsers
    <2> DEFINE agent == [agents[t] EXCEPT !.authorizedUsers = users, !.isAuthorized = members]
    <2>2. /\ agent \in AgentState
          /\ agent.authorizedUsers = users /\ agent.isAuthorized = members
          /\ agent.owner = agents[t].owner /\ agent.approved = agents[t].approved
      <3>1. agents[t] \in AgentState /\ users \in Seq(Accounts) /\ members \in SUBSET Accounts
        BY <1>4 DEF Lists
      <3>2. QED
        BY <3>1 DEF AgentState
    <2> HIDE DEF agent
    <2>3. AgentsOK'
      BY <2>1, <2>2 DEF agent
    <2>4. agents' = [agents EXCEPT ![t] = agent]
      BY <2>1 DEF agent
    <2>5. UsersListed'
      BY <1>4, <2>2, <2>4 DEF UsersListed, Lists
    <2>6. OwnerInCharge' /\ Unowned'
      BY <2>1, <2>2, <2>4 DEF OwnerInCharge, Unowned, tokenExists
    <2>7. QED
      BY <2>3, <2>5, <2>6
  <1>5. \A t \in Tokens : Lists(agents[t].authorizedUsers, agents[t].isAuthorized)
    BY DEF UsersListed, Lists, AgentState
  <1>6. ASSUME NEW t \in Tokens, NEW user \in Accounts, authorizeUsage(sender, t, user)
        PROVE  AgentPart'
    <2>1. CASE user \in agents[t].isAuthorized
      BY <1>6, <2>1 DEF authorizeUsage, nftVars, UsersListed, OwnerInCharge, Unowned, tokenExists
    <2>2. CASE user \notin agents[t].isAuthorized
      <3>1. Lists(Append(agents[t].authorizedUsers, user), agents[t].isAuthorized \cup {user})
        BY <1>5, <2>2, PushKeepsList
      <3>2. agents[t].isAuthorized \cup {user} \in SUBSET Accounts
        BY DEF AgentState
      <3>3. QED
        BY <1>4, <1>6, <2>2, <3>1, <3>2 DEF authorizeUsage
    <2>3. QED
      BY <2>1, <2>2
  <1>7. ASSUME NEW t \in Tokens, NEW user \in Accounts, revokeAuthorization(sender, t, user)
        PROVE  AgentPart'
    <2>1. Lists(Without(agents[t].authorizedUsers, user), agents[t].isAuthorized \ {user})
      BY <1>5, WithoutKeepsList
    <2>2. agents[t].isAuthorized \ {user} \in SUBSET Accounts
      BY DEF AgentState
    <2>3. QED
      BY <1>4, <1>7, <2>1, <2>2 DEF revokeAuthorization
  <1>8. QED
    BY <1>1, <1>2, <1>3, <1>6, <1>7 DEF GrantCall

(* A new agent takes the next token, which nobody owned.                   *)
LEMMA NewAgentKeeps ==
  ASSUME AgentPart, NEW to \in Accounts, NEW metadata \in Seq(Hashes), NewAgent(to, metadata)
  PROVE  AgentPart'
  <1> USE DEF AgentPart, AgentsOK, Tokens
  <1> DEFINE new == _nextTokenId
             agent == [agents[new] EXCEPT !.owner = to, !.metadata = metadata]
  <1>1. /\ new \in Tokens /\ new \in Nat
        /\ agents' = [agents EXCEPT ![new] = agent]
        /\ _nextTokenId' = new + 1
        /\ UNCHANGED <<_operatorApprovals, _delegates, approver>>
    <2>1. new \in Tokens /\ new \in Nat
      BY DEF NewAgent
    <2>2. agents' = [agents EXCEPT ![new] = agent]
      BY <2>1 DEF NewAgent
    <2>3. _nextTokenId' = new + 1 /\ UNCHANGED <<_operatorApprovals, _delegates, approver>>
      BY DEF NewAgent
    <2>4. QED
      BY <2>1, <2>2, <2>3
  <1>2. /\ agent \in AgentState
        /\ agent.owner = to /\ agent.approved = agents[new].approved
        /\ agent.authorizedUsers = agents[new].authorizedUsers
        /\ agent.isAuthorized = agents[new].isAuthorized
    <2>1. agents[new] \in AgentState
      BY <1>1
    <2>2. to \in Addresses
      BY DEF Addresses
    <2>. HIDE DEF AgentsOK, Tokens
    <2>3. QED
      BY <2>1, <2>2 DEF AgentState
  <1>3. agents[new].approved = Zero /\ to # Zero
    BY <1>1 DEF OwnerInCharge, Unowned
  <1> HIDE DEF agent
  <1>4. AgentsOK'
    BY <1>1, <1>2
  <1>5. UsersListed'
    BY <1>1, <1>2 DEF UsersListed
  <1>6. OwnerInCharge' /\ Unowned'
    BY <1>1, <1>2, <1>3 DEF OwnerInCharge, Unowned, tokenExists
  <1>7. QED
    BY <1>4, <1>5, <1>6

(* A transfer clears the approval along with the owner it was under.       *)
LEMMA TransferKeeps ==
  ASSUME AgentPart, NEW sender \in Accounts, NEW to \in Addresses, NEW t \in Tokens,
         NEW batch \in Batches, iTransfer(sender, to, t, batch)
  PROVE  AgentPart'
  <1> USE DEF AgentPart, AgentsOK, Tokens
  <1> DEFINE agent == Transferred(agents[t], to, batch)
  <1>1. /\ tokenExists(t) /\ to # Zero
        /\ agents' = [agents EXCEPT ![t] = agent]
        /\ UNCHANGED <<_nextTokenId, _operatorApprovals, _delegates, approver>>
    BY DEF iTransfer
  <1>2. Renewed(agents[t].metadata, batch) \in Seq(Hashes)
    BY RenewedType DEF AgentState
  <1>3. /\ agent \in AgentState
        /\ agent.owner = to /\ agent.approved = Zero
        /\ agent.authorizedUsers = agents[t].authorizedUsers
        /\ agent.isAuthorized = agents[t].isAuthorized
    <2>1. agents[t] \in AgentState
      OBVIOUS
    <2>2. agents[t].metadata \in Seq(Hashes) /\ to \in Addresses
      BY <2>1 DEF AgentState
    <2>3. QED
      BY <1>2, <2>1, <2>2 DEF Transferred, AgentState, Addresses
  <1> HIDE DEF agent
  <1>4. AgentsOK'
    BY <1>1, <1>3
  <1>5. UsersListed'
    BY <1>1, <1>3 DEF UsersListed
  <1>6. OwnerInCharge' /\ Unowned'
    BY <1>1, <1>3 DEF OwnerInCharge, Unowned, tokenExists
  <1>7. QED
    BY <1>4, <1>5, <1>6

(* A transfer or a clone consumes its proofs and keeps both parts.         *)
LEMMA MoveKeeps ==
  ASSUME AgentPart, VerifierOK, ProofsServeOnce, NEW sender \in Accounts, MoveCall(sender)
  PROVE  AgentPart' /\ VerifierOK' /\ ProofsServeOnce'
  <1>1. PICK to \in Addresses, t \in Tokens, batch \in Batches :
          iTransfer(sender, to, t, batch) \/ iClone(sender, to, t, batch)
    BY DEF MoveCall
  <1>2. verifyTransferValidity(batch)
    BY <1>1 DEF iTransfer, iClone
  <1>3. VerifierOK' /\ ProofsServeOnce'
    BY <1>2, VerifyKeeps
  <1>4. CASE iTransfer(sender, to, t, batch)
    BY <1>3, <1>4, TransferKeeps
  <1>5. CASE iClone(sender, to, t, batch)
    <2>1. to \in Accounts /\ NewAgent(to, Renewed(agents[t].metadata, batch))
      BY <1>5 DEF iClone, Addresses
    <2>2. Renewed(agents[t].metadata, batch) \in Seq(Hashes)
      BY RenewedType DEF AgentPart, AgentsOK, AgentState
    <2>3. QED
      BY <1>3, <2>1, <2>2, NewAgentKeeps
  <1>6. QED
    BY <1>1, <1>4, <1>5

(* Every transaction keeps the invariant.                                  *)
LEMMA AgentInvStep == AgentInv /\ [Next]_vars => AgentInv'
  <1> SUFFICES ASSUME AgentInv, [Next]_vars PROVE AgentInv'
    OBVIOUS
  <1>1. AgentPart
    BY DEF AgentInv, AgentPart
  <1>2. ASSUME UNCHANGED nftVars PROVE AgentPart'
    BY <1>1, <1>2 DEF nftVars, AgentPart, AgentsOK, UsersListed, OwnerInCharge, Unowned, tokenExists
  <1>3. ASSUME UNCHANGED verifierVars PROVE VerifierOK' /\ ProofsServeOnce'
    BY <1>3 DEF AgentInv, verifierVars, VerifierOK, ProofsServeOnce
  <1>4. ASSUME UNCHANGED registryVars PROVE RegistryOK'
    BY <1>4 DEF AgentInv, registryVars, RegistryOK
  <1>5. CASE UNCHANGED vars
    <2>1. UNCHANGED <<nftVars, verifierVars, registryVars>> /\ UNCHANGED calls
      BY <1>5 DEF vars
    <2>2. QED
      BY <1>2, <1>3, <1>4, <2>1 DEF AgentInv, AgentPart
  <1>6. CASE Next
    <2>1. calls' \in 0..MaxCalls
      BY <1>6 DEF Next, AgentInv
    <2>2. PICK sender \in Accounts :
            \/ RegistryCall(sender) /\ UNCHANGED <<verifierVars, nftVars>>
            \/ VerifierCall(sender) /\ UNCHANGED <<registryVars, nftVars>>
            \/ GrantCall(sender) /\ UNCHANGED <<registryVars, verifierVars>>
            \/ MoveCall(sender) /\ UNCHANGED registryVars
            \/ \E to \in Addresses, data \in MintData :
                 mint(sender, to, data) /\ UNCHANGED <<registryVars, verifierVars>>
      BY <1>6 DEF Next
    <2>3. CASE RegistryCall(sender) /\ UNCHANGED <<verifierVars, nftVars>>
      <3>1. RegistryOK'
        BY <2>3 DEF AgentInv, RegistryOK, RegistryCall, setDCAPVerifier, registerEnclaveKey,
                    deregisterEnclaveKey, Addresses
      <3>2. QED
        BY <1>2, <1>3, <2>1, <2>3, <3>1 DEF AgentInv, AgentPart
    <2>4. CASE VerifierCall(sender) /\ UNCHANGED <<registryVars, nftVars>>
      <3>1. CASE \E set \in BOOLEAN : setTEEAttestationContract(sender, set)
        <4>1. VerifierOK' /\ ProofsServeOnce'
          BY <3>1 DEF setTEEAttestationContract, AgentInv, VerifierOK, ProofsServeOnce
        <4>2. QED
          BY <1>2, <1>4, <2>1, <2>4, <4>1 DEF AgentInv, AgentPart
      <3>2. CASE \E batch \in Batches : verifyTransferValidity(batch)
        <4>1. VerifierOK' /\ ProofsServeOnce'
          BY <3>2, VerifyKeeps DEF AgentInv
        <4>2. QED
          BY <1>2, <1>4, <2>1, <2>4, <4>1 DEF AgentInv, AgentPart
      <3>3. QED
        BY <2>4, <3>1, <3>2 DEF VerifierCall
    <2>5. CASE GrantCall(sender) /\ UNCHANGED <<registryVars, verifierVars>>
      BY <1>1, <1>3, <1>4, <2>1, <2>5, GrantKeeps DEF AgentInv, AgentPart
    <2>6. CASE MoveCall(sender) /\ UNCHANGED registryVars
      BY <1>1, <1>4, <2>1, <2>6, MoveKeeps DEF AgentInv, AgentPart
    <2>7. CASE \E to \in Addresses, data \in MintData :
                 mint(sender, to, data) /\ UNCHANGED <<registryVars, verifierVars>>
      <3>1. PICK to \in Addresses, data \in MintData :
                   mint(sender, to, data) /\ UNCHANGED <<registryVars, verifierVars>>
        BY <2>7
      <3>2. to \in Accounts /\ data \in Seq(Hashes) /\ NewAgent(to, data)
        BY <3>1 DEF mint, Addresses
      <3>3. AgentPart'
        BY <1>1, <3>2, NewAgentKeeps
      <3>4. QED
        BY <1>3, <1>4, <2>1, <3>1, <3>3 DEF AgentInv, AgentPart
    <2>8. QED
      BY <2>2, <2>3, <2>4, <2>5, <2>6, <2>7
  <1>7. QED
    BY <1>5, <1>6

(* The invariant holds in every behaviour.                                 *)
LEMMA AgentInvAlways == Spec => []AgentInv
  BY AgentInvInit, AgentInvStep, PTL DEF Spec

-----------------------------------------------------------------------------
(* Results *)

(* The types of the NFT, the verifier and the registry.                    *)
THEOREM AgentTypes == Spec => []TypeOK
  <1>1. AgentInv => TypeOK
    BY DEF AgentInv, AgentsOK, VerifierOK, RegistryOK, TypeOK
  <1>2. QED
    BY <1>1, AgentInvAlways, PTL

(* The list of authorised users and the mapping agree, without duplicates, *)
(* over any sequence of grants, revocations and transfers.                 *)
THEOREM UsersStayListed == Spec => []UsersListed
  <1>1. AgentInv => UsersListed
    BY DEF AgentInv
  <1>2. QED
    BY <1>1, AgentInvAlways, PTL

(* Every proof serves once, and no nonce is spent without serving.         *)
THEOREM NoProofServesTwice == Spec => []ProofsServeOnce
  <1>1. AgentInv => ProofsServeOnce
    BY DEF AgentInv
  <1>2. QED
    BY <1>1, AgentInvAlways, PTL

(* Agents keep an owner, and only his approvals stand.                     *)
THEOREM OwnersStayInCharge == Spec => []OwnerInCharge
  <1>1. AgentInv => OwnerInCharge
    BY DEF AgentInv
  <1>2. QED
    BY <1>1, AgentInvAlways, PTL
=============================================================================

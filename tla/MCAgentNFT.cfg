SPECIFICATION Spec
CONSTANTS
  d = d  a = a  b = b  k = k  r = r
  h0 = h0  h1 = h1  h2 = h2  n1 = n1  n2 = n2
  Zero = Zero
  Accounts = {d, a, b}
  Deployer = d
  EnclaveKeys = {k}
  ReportHashes = {r}
  Hashes = {h0, h1, h2}
  Nonces = {n1, n2}
  Proofs <- FiveProofs
  MintData <- TwoEntries
  MaxTokens = 2
  MaxBatch = 2
  MaxCalls = 5
INVARIANTS TypeOK UsersListed ProofsServeOnce OwnerInCharge
SYMMETRY Symmetry
CHECK_DEADLOCK FALSE

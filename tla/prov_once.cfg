SPECIFICATION FairSpec
CONSTANTS
  i1 = i1  i2 = i2  v1 = v1  v2 = v2  v3 = v3  r1 = r1  r2 = r2  r3 = r3
  NoVM = NoVM
  None = None
  Identities <- MCIdentities
  VMs <- MCTwoVMs
  Requests <- MCRequests
  VMOf <- RetryVM
  Matching <- TwoTypes
  TTL = 1
  MaxStall = 2
  MaxReleases = 1
  Adopted = {r2}
  MaxTime = 2
INVARIANTS TypeOK Exclusive
PROPERTIES Implements LeasesPromised Answered
CHECK_DEADLOCK FALSE

SPECIFICATION Spec
CONSTANTS
  i1 = i1  i2 = i2  v1 = v1  v2 = v2  v3 = v3  r1 = r1  r2 = r2  r3 = r3
  NoVM = NoVM
  None = None
  Identities <- MCIdentities
  VMs <- MCVMs
  Requests <- MCRequests
  VMOf <- OwnVM
  Matching <- TwoTypes
  TTL = 2
  MaxStall = 2
  MaxReleases = 2
  Adopted = {}
  MaxTime = 3
INVARIANTS TermExclusive PasswordCurrent TermKept
PROPERTY RevokedByOwner
CHECK_DEADLOCK FALSE

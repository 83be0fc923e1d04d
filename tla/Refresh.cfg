CONSTANTS
  a = a
  b = b
  a1 = a1
  a2 = a2
  b1 = b1
  da1 = da1
  da2 = da2
  db1 = db1
  va = va
  vb = vb
  Users = {a, b}
  Tokens = {a1, a2, b1}
  DIDs = {da1, da2, db1}
  Visitors = {va, vb}
  None = None
  Owner <- MCOwner
  Configs <- MCConfigs
  MaxEpoch = 1
SPECIFICATION FairSpec
INVARIANTS IdentityBinding SessionIdentity RunOwnsEpoch OutcomeReported RotationKept ExpiredIdentityErased NoLoginLoop
PROPERTIES TokenModeReadOnly RunEnds Recovers

CONSTANTS
  Users = {u1}
  Tokens = {t1}
  DIDs = {d1}
  Visitors = {v1}
  None = None
  Clients = {c1, c2, c3}
  MaxEpoch = 3
SYMMETRY Symmetry
SPECIFICATION Spec
INVARIANTS NoStaleWrite
PROPERTIES EpochMovesWithErasure

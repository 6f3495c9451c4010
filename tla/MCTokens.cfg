CONSTANTS
  Unissued = Unissued
  NoToken = NoToken
  Email = {e1, e2}
  Jti = {j1, j2, j3, j4}
  Client = {c1, c2}
SPECIFICATION TokensSpec
INVARIANTS TokensTypeOK OneUsablePerFamily ReuseEndsSession
SYMMETRY Symmetry
CHECK_DEADLOCK FALSE

CONSTANTS
  u1 = u1
  u2 = u2
  u3 = u3
  Absent = Absent
  NoConvert = NoConvert
  Host = {1, 2}
  Uuid = {u1, u2}
  WallTime = {1}
  Stamp <- MCStamp
SPECIFICATION ExchangeSpec
INVARIANT Converged
SYMMETRY Symmetry
CHECK_DEADLOCK FALSE

CONSTANTS
  u1 = u1
  u2 = u2
  u3 = u3
  Absent = Absent
  NoConvert = NoConvert
  Host = {1}
  Uuid = {u1, u2, u3}
  WallTime = {1}
  Stamp <- MCStamp
SPECIFICATION Spec
INVARIANTS TypeOK OneActualPerOrder ConvertedIsRecorded
SYMMETRY Symmetry
CHECK_DEADLOCK FALSE

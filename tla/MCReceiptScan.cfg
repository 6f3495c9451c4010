CONSTANTS
  Photo <- MCPhoto
  MinSide = 20
  Drags <- MCDrags
  Task = {t1, t2}
  None = None
  MaxPicks = 2
  MaxBoxes = 2
  MaxEdits = 1
  MaxScans = 2
  MaxActuals = 2
SYMMETRY Tasks
SPECIFICATION Spec
INVARIANTS TypeOK AddedRowsCanBeUndone RecordedOnce
CHECK_DEADLOCK FALSE

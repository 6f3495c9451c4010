CONSTANTS
  b1 = b1
  b2 = b2
  topsheet = topsheet
  tree = tree
  Nothing = Nothing
  BudgetId = {b1, b2}
  Part = {topsheet}
  MaxVersion = 2
  MaxRefresh = 3
SPECIFICATION ClientSpec
INVARIANTS ClientTypeOK LatestHasArrived
PROPERTIES PlaceholderGoes
CHECK_DEADLOCK FALSE

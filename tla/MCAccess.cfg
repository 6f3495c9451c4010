CONSTANTS
  ann = ann
  bob = bob
  cast = cast
  crew = crew
  acc1 = acc1
  acc2 = acc2
  line1 = line1
  line2 = line2
  bill = bill
  fis = fis
  g1 = g1
  g2 = g2
  h1 = h1
  h2 = h2
  r1 = r1
  r2 = r2
  None = None
  User = {ann, bob}
  Category = {cast, crew}
  Account = {acc1, acc2}
  Detail = {line1, line2}
  Actual = {bill}
  Receipt = {fis}
  Tool = {g1, g2, h1, h2}
  CategoryOf <- MCCategoryOf
  AccountOf <- MCAccountOf
  NameOf <- MCNameOf
  SeedOf <- MCSeedOf
  Room = {r1, r2}
  Follower = {bob}
  Founder = {ann}
  Guest = {bob}
  Invited = {"Owner", "DepartmentEditor"}
  MaxChanges = 4
  MaxOps = 4
SPECIFICATION Spec
INVARIANTS TypeOK SnapshotShowsScope FollowerShowsScope NamesUnique
CHECK_DEADLOCK FALSE

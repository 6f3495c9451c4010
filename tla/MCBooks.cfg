CONSTANTS
  g = g
  h = h
  cast = cast
  crew = crew
  acc1 = acc1
  acc2 = acc2
  line1 = line1
  line2 = line2
  line3 = line3
  stopaj = stopaj
  ajans = ajans
  sabit = sabit
  gizli = gizli
  ft1 = ft1
  fis1 = fis1
  fis2 = fis2
  po1 = po1
  po2 = po2
  try = try
  usd = usd
  adet = adet
  hafta = hafta
  ali = ali
  yemek = yemek
  yol = yol
  None = None
  Name = {g, h}
  Sorted <- MCSorted
  Largest = 1000
  Digits = 250
  Places = {1, 2, 4}
  MaxDepth = 2
  Lines <- MCLines
  Categories <- MCCategories
  Level = {"budget", "production", "category", "account", "detail"}
  One = 2
  Kurus = 4
  Group = {"ATL", "BTL", "OTHER"}
  MaxWeeks = 3
  Seeds <- MCSeeds
  Account = {acc1, acc2}
  Fringe = {stopaj, ajans, sabit}
  Currency = {try, usd}
  Vendor = {ali}
  Expense = {yemek, yol}
  Ids <- MCIds
  Bills <- MCBills
  Slips <- MCSlips
  Commitments <- MCCommitments
  Values <- MCValues
  Choices <- MCChoices
  Windows <- MCWindows
  Starts <- MCStarts
  MaxEdits = 2
SPECIFICATION Spec
INVARIANTS TypeOK GlobalsExact TotalsFoot SuppressedLeavesNoTrace SheetAgrees ReportsAgree CashFlowComplete
PROPERTIES ConvertKeepsCosts
CHECK_DEADLOCK FALSE

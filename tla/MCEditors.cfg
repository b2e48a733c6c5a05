SPECIFICATION EditorsSpec
CONSTANTS
  i1 = i1
  p1 = p1
  p2 = p2
  e1 = e1
  e2 = e2
  paid = paid
  bad = bad
  nothing = nothing
  onlyPaid = onlyPaid
  onlyBad = onlyBad
  both = both
  Instances <- OneInstance
  Pipelines <- TwoPipelines
  Bodies <- AllBodies
  Quality <- QualityOfAll
  MaxUpdates = 2
  MaxDisruptions = 1
  Browsers <- TwoBrowsers
  Entries <- TwoEntries
  Offered <- OnePaid
  EntriesOf <- Sets
  Foreign <- Refused
  MaxSaves = 2
SYMMETRY Symmetry
INVARIANTS EditorsTypeOK StoreIsLatest NeverAnOlderOne ConfirmedEditsKept PageIsStored
CHECK_DEADLOCK FALSE

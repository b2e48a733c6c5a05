SPECIFICATION Spec
CONSTANTS
  i1 = i1
  i2 = i2
  p1 = p1
  p2 = p2
  good1 = good1
  good2 = good2
  Instances <- OneInstance
  Pipelines <- TwoPipelines
  Bodies <- GoodBodies
  Quality <- QualityOfGood
  MaxUpdates = 1
  MaxDisruptions = 1
INVARIANT StoredIsInForce
CHECK_DEADLOCK FALSE

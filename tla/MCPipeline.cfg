SPECIFICATION PipelineSpec
CONSTANTS
  i1 = i1
  p1 = p1
  nested = nested
  malformed = malformed
  unbuildable = unbuildable
  list = list
  untyped = untyped
  Instances <- OneInstance
  Pipelines <- OnePipeline
  Bodies <- AllBodies
  Quality <- QualityOfAll
  MaxUpdates = 2
  MaxDisruptions = 1
  Substrings <- OneSubstring
  Patterns <- OnePattern
  Found <- OneFound
  FieldOf <- FieldOfAll
  FiltersOf <- FiltersOfAll
  Schemas <- OrderSchema
  Messages <- AllMessages
  MaxMessages = 2
INVARIANTS PipelineTypeOK EngineWhole ShownIsInForce ForwardedIsValid MissingFieldNeverForwards RuleOrderIrrelevant PathsAgree MetadataNamesType CountersTell
CHECK_DEADLOCK FALSE

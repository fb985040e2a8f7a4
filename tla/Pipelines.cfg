SPECIFICATION PipelinesSpec
CONSTANTS
  Calls = {c1, c2, c3}
  MaxBuilt = 2
  PoolFlows = {"rag", "extract"}
  Validating = {"extract"}
  Streamed = {"rag"}
  Nobody = Nobody
  Flows <- FlowNames13
  NoData = NoData
  Err = Err
  MaxTokens = 2
  Vids = {"v1", "v2"}
  Dims = {1, 2}
  DefaultBatches = 2
  Queries = {"q1", "q2"}
  Cleaners = {"cleaner"}
  MaxTries = 2
  NoIndex = NoIndex
  NumChunks = 2
  LlmGraphs <- MCGraphs
  MaxReviews = 2
  MaxFixes = 1
  MaxWorkers = 2
  ExtractTypes = {"review", "plain", "triples"}
  SchemaHasIds = TRUE
  CanonicalId <- MCCanonicalId
  NoGraph = NoGraph
  Requests = {1, 2}
  NoRequest = 0
CHECK_DEADLOCK FALSE
INVARIANTS
  PipelinesTypeOK
  PipelineServesOneCall
  AnswerIsOwn
  PoolBoundedByPeak
  AnswerUsesAllEvidence
  AnswersComplete
  UpdateIndexesFetched
  PublishedExamplesComplete
  FinalGraphPassed
  FinalEdgesUnambiguous
  ImportedEdgesAsExtracted
  SnapshotVerified
PROPERTIES
  NoLostUpdate
  FetchedIsReleased
  AnswerEnds

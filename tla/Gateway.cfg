SPECIFICATION GatewaySpec
CONSTANTS
  Fragments <- MCFragments
  Openings <- MCOpenings
  MaxFragments = 3
  MaxResultItems = 1
  ResultSizes = {0, 2}
  McpCalls = {c1, c2}
  McpGraphs = {"g1", "g2"}
  Replicas = {"r1", "r2"}
  OldReplicas = {"r2"}
  InitialEnvs <- MCEnvs
  MaxEnvChanges = 2
  MaxReconfigs = 1
  NoConfig = NoConfig
  SchemaCalls = {"s1", "s2", "s3"}
  SchemaRequests <- MCSchemaRequests
  InitialSchema <- MCInitialSchema
  ForeignObjects <- MCForeignObjects
  MaxForeign = 2
  MaxOperations = 3
  VertexLabels <- MCVertexLabels
  EdgeEnds <- MCEdgeEnds
  ColonTail <- MCColonTail
  ImportPayloads <- MCPayloads
  LiveVertices <- MCLiveVertices
  DeletePlans <- MCDeletePlans
  GraphEdges <- MCGraphEdges
  PropertyKeys <- MCPropertyKeys
  Mutations <- MCMutations
  MaxForeignEdges = 3
  ClientThreads = {"t1", "t2"}
  ClientRequests <- MCAllRequests
  ServerVersions <- MCServerVersions
  ConfiguredSpaces = {"", "S"}
  InitialObjects <- MCInitialObjects
  Retries = 1
  NoManager = "none"
  QueryItems <- MCQueryItems
  QueryRequests <- MCQueryRequests
  ItemLimits = {1, 2, 3}
  MaxResultBytes = 3
  MAX_LIMIT = 4
  DEFAULT_LIMIT = 2
  MaxGraphSteps = 2
CHECK_DEADLOCK FALSE
INVARIANTS
  GatewayTypeOK
  ExecutedReadsDoNotWrite
  FrozenServerSendsNoWrite
  RefreshHitsExpectedGraph
  ValidBatchApplies
  SchemaAnswersTruthful
  ImportedEndpointsAsNamed
  DeletionsPreviewedAndReported
  WritesTakeEffectOnce
  DataCallsReachTheirTarget
  ScanIsComplete

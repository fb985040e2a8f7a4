SPECIFICATION FairSpec
CONSTANTS
  NumOps = 2
  KindOf <- DeleteThenCreate
  Registered = {"DELETE_EDGE", "CREATE_SCHEMA", "CREATE_VERTEX"}
  Confirmers = {c1}
  Resumers = {}
  Reconcilers = {r1}
  NoOwner = NoOwner
  LeaseSeconds = 1
  ExpiresAt = 0
  MaxClock = 3
  ForeignStates = {}
PROPERTIES
  ExecutionEnds
  LastingEffectIsReported

SPECIFICATION Spec
CONSTANTS
  NumOps = 2
  KindOf <- AllDeletes
  Registered = {"DELETE_EDGE", "CREATE_SCHEMA"}
  Confirmers = {c1}
  Resumers = {}
  Reconcilers = {r1}
  NoOwner = NoOwner
  LeaseSeconds = 1
  ExpiresAt = 0
  MaxClock = 3
  ForeignStates = {"desired", "other"}
INVARIANT ReplayOnlyNeverDispatched

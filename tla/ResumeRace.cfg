SPECIFICATION SpecReconciled
CONSTANTS
  NumOps = 3
  KindOf <- AllDeletes
  Registered = {"DELETE_EDGE", "CREATE_SCHEMA"}
  Confirmers = {}
  Resumers = {s1, s2}
  Reconcilers = {r1}
  NoOwner = NoOwner
  LeaseSeconds = 1
  ExpiresAt = 0
  MaxClock = 3
  ForeignStates = {}
INVARIANT DispatchedInOrder

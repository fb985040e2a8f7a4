SPECIFICATION Spec
CONSTANTS
  NumOps = 1
  KindOf <- AllSchema
  Registered = {"DELETE_EDGE", "CREATE_SCHEMA"}
  Confirmers = {c1}
  Resumers = {s1, s2}
  Reconcilers = {r1}
  NoOwner = NoOwner
  LeaseSeconds = 1
  ExpiresAt = 1
  MaxClock = 4
  ForeignStates = {"desired", "other"}
SYMMETRY Callers
INVARIANTS
  DispatchedAtMostOnce

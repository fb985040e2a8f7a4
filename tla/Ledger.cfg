SPECIFICATION Spec
CONSTANTS
  Nonces = {n1}
  Payloads = {p1, p2}
  Tools = {"delete_graph_data_tool", "apply_schema_tool"}
  Previews = {d1, d2}
  Confirms = {c1, c2}
  TTL = 1
  MaxClock = 2
SYMMETRY Callers
INVARIANTS
  TypeOK
  ExecutedWhatWasApproved

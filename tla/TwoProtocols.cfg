SPECIFICATION Spec
CONSTANTS
  Nonces = {n1}
  Payloads = {p1}
  Tools = {"delete_graph_data_tool"}
  Previews = {d1}
  Confirms = {c1}
  TTL = 1
  MaxClock = 2
INVARIANTS
  SoleAuthority

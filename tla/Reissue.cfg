SPECIFICATION Spec
CONSTANTS
  Nonces = {n1}
  Payloads = {p1}
  Tools = {"delete_graph_data_tool"}
  Previews = {d1, d2, d3}
  Confirms = {c1, c2}
  TTL = 1
  MaxClock = 2
SYMMETRY Callers
INVARIANTS
  SingleUse
  ExecutedIsOnRecord
PROPERTIES
  OutcomeFinal

---------------------------- MODULE GraphChange ----------------------------
(***************************************************************************)
(* The graph data tool of the MCP server (tools/manage_graph_data): the     *)
(* import path, which validates a payload of vertices and edges, maps it to *)
(* create operations and compiles the endpoints of its edges against the    *)
(* payload and the live graph; the delete path, which compiles targets at   *)
(* dry-run time and executes the stored plan operation by operation; and    *)
(* the property preview (tools/mutate_graph_properties).                    *)
(*                                                                          *)
(* An identifier or primary key is a JSON value: its type, the value that   *)
(* == compares (1 and 1.0 have one, 1 and "1" have two), and the text str() *)
(* gives it (1 and "1" have one).  A vertex has a label, an id, the value   *)
(* of its one primary key, and whether its properties satisfy the schema    *)
(* (tools/property_validation).                                             *)
(***************************************************************************)
EXTENDS WritePlan, Naturals, Sequences, FiniteSets, SequencesExt

CONSTANTS VertexLabels,     \* label -> its id strategy; "PRIMARY_KEY" labels have one primary key
          EdgeEnds,         \* edge label -> the labels of its source and target
          ColonTail,        \* a string that contains ":" -> the part after the first one
          ImportPayloads,   \* the payloads a caller may import
          LiveVertices,     \* the vertices of the graph
          DeletePlans,      \* the plans a caller may send: sequences of delete operations
          GraphEdges,       \* the edges that may exist, [id, source, target]
          PropertyKeys,     \* property of the target's label -> its cardinality
          Mutations,        \* the property mutations a caller may ask for
          MaxForeignEdges   \* bound on the changes of other clients

VARIABLES import_call,      \* the import: its payload, its answer, the compiled endpoints
          mutation_call,    \* the property mutation: its request, its answer, the previewed properties
          graph_edges,      \* the edges of the graph
          delete_call,      \* the delete: its plan, the targets of the dry run, how far it is, and
                            \* what it removed and nobody has created again
          foreign_edges     \* the changes of other clients so far

\* Plans and payloads are lists, an edge is identified by its id, only a label with a
\* primary key gives a vertex a primary key value, and "" has no colon.
ASSUME ChangeAssumption ==
  /\ \A plan \in DeletePlans : plan \in Seq(Range(plan))
  /\ \A e, f \in GraphEdges : e.id = f.id => e = f
  /\ \A p \in ImportPayloads :
       /\ p.vertices \in Seq(Range(p.vertices)) /\ p.edges \in Seq(Range(p.edges))
       /\ \A i \in DOMAIN p.edges :
            {p.edges[i].source.form, p.edges[i].target.form}
              \subseteq {"scalar", "object", "backend", "mixed"}
       /\ \A i \in DOMAIN p.vertices :
            p.vertices[i].pk.value # "" => /\ p.vertices[i].label \in DOMAIN VertexLabels
                                           /\ VertexLabels[p.vertices[i].label] = "PRIMARY_KEY"
  /\ IsFiniteSet(LiveVertices)
  /\ "" \notin DOMAIN ColonTail
  /\ MaxForeignEdges \in Nat

changeVars == <<import_call, mutation_call, graph_edges, delete_call, foreign_edges>>

----------------------------------------------------------------------------
(* The payload.  An endpoint of an edge is a scalar, an object with an id   *)
(* or a primary key, or a backend id (outV, inV).                           *)

Str(s) == [type |-> "str", value |-> s, text |-> s]
Absent == Str("")
Present(v) == v.value # ""
HasPrimaryKey(label) == label \in DOMAIN VertexLabels /\ VertexLabels[label] = "PRIMARY_KEY"
HasColon(v) == v.type = "str" /\ v.value \in DOMAIN ColonTail
Tail_(v) == IF HasColon(v) THEN Str(ColonTail[v.value]) ELSE v

endpoint_identities(label, e) ==
  IF e.form = "object"
  THEN (IF Present(e.id) THEN {<<label, "id", e.id.value>>} ELSE {})
       \union (IF HasPrimaryKey(label) /\ Present(e.pk) THEN {<<label, "pk", e.pk.value>>} ELSE {})
  ELSE {<<label, "id", e.id.value>>}
       \union (IF HasPrimaryKey(label) THEN {<<label, "pk", Tail_(e.id).value>>} ELSE {})

vertex_identities(v) ==
  (IF Present(v.id) THEN {<<v.label, "id", v.id.value>>} ELSE {})
  \union (IF HasPrimaryKey(v.label) /\ Present(v.pk) THEN {<<v.label, "pk", v.pk.value>>} ELSE {})

validate_payload_vertex(v) ==
  /\ v.label \in DOMAIN VertexLabels /\ v.ok
  /\ VertexLabels[v.label] = "CUSTOMIZE_STRING" => Present(v.id) /\ v.id.type = "str"
  /\ VertexLabels[v.label] = "CUSTOMIZE_NUMBER" => Present(v.id) /\ v.id.type = "int"
  /\ HasPrimaryKey(v.label) => Present(v.pk)

DistinctIdentities(vs) ==
  \A i, j \in DOMAIN vs : i # j => vertex_identities(vs[i]) \cap vertex_identities(vs[j]) = {}

\* Mutant: an endpoint may name one vertex by its id and another by its primary key.
validate_payload_endpoint_any(vs, label, e) ==
  /\ label \in DOMAIN VertexLabels /\ e.form # "mixed"
  /\ endpoint_identities(label, e) # {}

\* The endpoint names something, and at most one vertex of the payload.
validate_payload_endpoint(vs, label, e) ==
  /\ label \in DOMAIN VertexLabels /\ e.form # "mixed"
  /\ endpoint_identities(label, e) # {}
  /\ Cardinality({i \in DOMAIN vs : vertex_identities(vs[i]) \cap endpoint_identities(label, e) # {}}) <= 1

validate_graph_payload(p) ==
  /\ \A i \in DOMAIN p.vertices : validate_payload_vertex(p.vertices[i])
  /\ DistinctIdentities(p.vertices)
  /\ \A i \in DOMAIN p.edges :
       LET e == p.edges[i] IN
       /\ e.label \in DOMAIN EdgeEnds /\ e.ok
       /\ e.source_label = EdgeEnds[e.label].source /\ e.target_label = EdgeEnds[e.label].target
       /\ validate_payload_endpoint(p.vertices, e.source_label, e.source)
       /\ validate_payload_endpoint(p.vertices, e.target_label, e.target)

----------------------------------------------------------------------------
(* The change plan.  A match is an id, a primary key value, or both.        *)

Match(i, k) == [id |-> i, pk |-> k]

\* The two dictionaries of the mapping are keyed by text: of the ids, or keys, of a label
\* that are written alike, the last one of the payload stays.
WrittenAs(vs, field, label, text) ==
  {i \in DOMAIN vs : vs[i].label = label /\ Present(vs[i][field]) /\ vs[i][field].text = text}

vertex_ids_by_label(vs, label, text) ==
  LET at == WrittenAs(vs, "id", label, text) IN IF at = {} THEN Absent ELSE vs[Max(at)].id

vertex_primary_key_values(vs, label, text) ==
  LET at == WrittenAs(vs, "pk", label, text)
  IN IF at = {} \/ ~HasPrimaryKey(label) THEN Absent ELSE vs[Max(at)].pk

\* An object stays as it is; an id of the payload wins; a scalar is a primary key
\* value otherwise, as it stands in the payload or after its colon.
edge_endpoint_match(vs, label, e) ==
  LET id == vertex_ids_by_label(vs, label, e.id.text)
      key(v) == vertex_primary_key_values(vs, label, v.text)
  IN IF e.form = "object" THEN Match(e.id, e.pk)
     ELSE IF Present(id) THEN Match(id, Absent)
     ELSE IF e.form = "scalar" /\ HasPrimaryKey(label)
          THEN Match(Absent, IF Present(key(e.id)) THEN key(e.id)
                             ELSE IF Present(key(Tail_(e.id))) THEN key(Tail_(e.id)) ELSE e.id)
     ELSE Match(e.id, Absent)

\* The vertices become create operations in front of the edges', so an edge's planned
\* endpoints are positions in the payload.
graph_data_to_change_plan(p) ==
  [i \in DOMAIN p.edges |->
     [source |-> edge_endpoint_match(p.vertices, p.edges[i].source_label, p.edges[i].source),
      target |-> edge_endpoint_match(p.vertices, p.edges[i].target_label, p.edges[i].target)]]

validate_primary_key_match(label, m) == Present(m.id) \/ (HasPrimaryKey(label) => Present(m.pk))

validate_graph_change_plan(p) ==
  LET plan == graph_data_to_change_plan(p) IN
  /\ DistinctIdentities(p.vertices)
  /\ \A i \in DOMAIN plan :
       /\ validate_primary_key_match(p.edges[i].source_label, plan[i].source)
       /\ validate_primary_key_match(p.edges[i].target_label, plan[i].target)

planned_vertex_matches(v, m) ==
  /\ Present(m.id) => v.id.value = m.id.value
  /\ Present(m.pk) => v.pk.value = m.pk.value
  /\ Present(m.id) \/ Present(m.pk)

planned_endpoint_indexes(vs, label, m) ==
  {i \in DOMAIN vs : vs[i].label = label /\ planned_vertex_matches(vs[i], m)}

\* The endpoint query: the live vertices with the label that satisfy every has() step.
source_vertex_match_query(label, m) ==
  {v \in LiveVertices : v.label = label /\ planned_vertex_matches(v, m)}

\* A create whose id or primary key is in the graph already is refused.
append_create_vertex_identity_counts(v) ==
  \A w \in LiveVertices : vertex_identities(v) \cap vertex_identities(w) = {}

\* Exactly one vertex, planned or live, is selected by an endpoint.
append_edge_endpoint_counts(vs, label, m) ==
  Cardinality(planned_endpoint_indexes(vs, label, m)) + Cardinality(source_vertex_match_query(label, m)) = 1

dry_run_graph_change_plan(p) ==
  LET plan == graph_data_to_change_plan(p) IN
  /\ validate_graph_change_plan(p)
  /\ \A i \in DOMAIN p.vertices : append_create_vertex_identity_counts(p.vertices[i])
  /\ \A i \in DOMAIN plan :
       /\ append_edge_endpoint_counts(p.vertices, p.edges[i].source_label, plan[i].source)
       /\ append_edge_endpoint_counts(p.vertices, p.edges[i].target_label, plan[i].target)

\* What an endpoint is compiled to: a vertex of the payload or one of the graph.
CompiledEndpoint(vs, label, m) ==
  CHOOSE v \in {vs[i] : i \in planned_endpoint_indexes(vs, label, m)}
               \union source_vertex_match_query(label, m) : TRUE

\* compile_graph_write_plan needs a stable identity for every created vertex.
vertex_identity(v) == Present(v.id) \/ (HasPrimaryKey(v.label) /\ Present(v.pk))

compile_operations(p) ==
  LET plan == graph_data_to_change_plan(p) IN
  [i \in DOMAIN plan |->
     [source |-> CompiledEndpoint(p.vertices, p.edges[i].source_label, plan[i].source),
      target |-> CompiledEndpoint(p.vertices, p.edges[i].target_label, plan[i].target)]]

\* manage_graph_data in mode import: a preview, whose confirmation is disabled.
manage_graph_data_import ==
  LET p == import_call.payload
      Answer_(a, c) == import_call' = [import_call EXCEPT !.answer = a, !.compiled = c]
  IN /\ import_call.answer = "none"
     /\ \/ import_call.confirm /\ Answer_("FEATURE_DISABLED", <<>>)
        \/ ~import_call.confirm /\ Answer_("CONNECTION_FAILED", <<>>)
        \/ /\ ~import_call.confirm
           /\ IF ~validate_graph_payload(p) THEN Answer_("SCHEMA_MISMATCH", <<>>)
              ELSE IF ~dry_run_graph_change_plan(p) THEN Answer_("INVALID_GRAPH_DATA", <<>>)
              ELSE IF \E i \in DOMAIN p.vertices : ~vertex_identity(p.vertices[i])
                   THEN Answer_("FEATURE_DISABLED", <<>>)
              ELSE Answer_("PREVIEW", compile_operations(p))
     /\ UNCHANGED <<mutation_call, graph_edges, delete_call, foreign_edges>>

----------------------------------------------------------------------------
(* The property preview (tools/mutate_graph_properties).  A value is a      *)
(* scalar, a list of items for LIST and SET, or Null_; the target maps its  *)
(* properties to their values.                                              *)

Null_ == [kind |-> "null", items |-> <<>>]

\* tools/property_validation: null is always accepted, a collection takes a list.
property_value_error(key, v) ==
  v # Null_ /\ (PropertyKeys[key] \in {"LIST", "SET"}) # (v.kind = "list")

validate_inputs(m) == DOMAIN m.properties # {}

validate_properties_against_schema(m) ==
  /\ DOMAIN m.properties \subseteq DOMAIN PropertyKeys
  /\ m.operation = "append" => \A key \in DOMAIN m.properties : ~property_value_error(key, m.properties[key])

stable_unique(s) == FoldLeft(LAMBDA acc, x : IF Contains(acc, x) THEN acc ELSE Append(acc, x), <<>>, s)

\* Spreading a null into a collection raises.
PreviewRaises(m) ==
  m.operation = "append" /\ \E key \in DOMAIN m.properties :
    PropertyKeys[key] \in {"LIST", "SET"} /\ m.properties[key] = Null_

Existing(m, key) == IF key \in DOMAIN m.target /\ m.target[key] # Null_ THEN m.target[key].items ELSE <<>>

apply_property_preview(m) ==
  IF m.operation = "eliminate"
  THEN [key \in DOMAIN m.target \ DOMAIN m.properties |-> m.target[key]]
  ELSE [key \in DOMAIN m.target \union DOMAIN m.properties |->
          CASE key \notin DOMAIN m.properties -> m.target[key]
            [] PropertyKeys[key] = "LIST" ->
                 [kind |-> "list", items |-> Existing(m, key) \o m.properties[key].items]
            [] PropertyKeys[key] = "SET" ->
                 [kind |-> "list", items |-> stable_unique(Existing(m, key) \o m.properties[key].items)]
            [] OTHER -> m.properties[key]]

\* The preview comes before the guard and the confirmation, which is always refused.
mutate_graph_properties ==
  LET m == mutation_call.request
      Answer_(a, after) == mutation_call' = [mutation_call EXCEPT !.answer = a, !.after = after]
  IN /\ mutation_call.answer = "none"
     /\ IF ~validate_inputs(m) THEN Answer_("VALIDATION_FAILED", <<>>)
        ELSE \/ Answer_("CONNECTION_FAILED", <<>>)
             \/ Answer_("NOT_FOUND", <<>>)
             \/ IF ~validate_properties_against_schema(m) THEN Answer_("SCHEMA_MISMATCH", <<>>)
                ELSE IF PreviewRaises(m) THEN Answer_("raised", <<>>)
                ELSE IF m.dry_run THEN Answer_("PREVIEW", apply_property_preview(m))
                ELSE IF m.readonly THEN Answer_("READONLY_VIOLATION", <<>>)
                ELSE IF ~m.confirm THEN Answer_("CONFIRM_REQUIRED", <<>>)
                ELSE Answer_("FEATURE_DISABLED", <<>>)
     /\ UNCHANGED <<import_call, graph_edges, delete_call, foreign_edges>>

----------------------------------------------------------------------------
(* The delete path.  An operation selects the edges between two vertices    *)
(* (or a vertex); the dry run binds it to the one edge it selects.          *)

edge_match_query(op) == {e \in graph_edges : e.source = op.source /\ e.target = op.target}

IncidentEdges(op) == {e \in graph_edges : op.source \in {e.source, e.target}}

\* Every operation selects exactly one edge; a vertex delete is previewed only, if it has
\* no edges and asks for no cascade.
DeletePlanValid(plan) ==
  \A i \in DOMAIN plan :
    IF plan[i].op = "delete_edge" THEN Cardinality(edge_match_query(plan[i])) = 1
    ELSE ~plan[i].cascade /\ IncidentEdges(plan[i]) = {}

delete_dry_run ==
  LET plan == delete_call.plan
      confirmable == \A i \in DOMAIN plan : plan[i].op = "delete_edge"
  IN /\ delete_call.step = "start"
     /\ \/ delete_call' = [delete_call EXCEPT !.step = "done", !.answer = "CONNECTION_FAILED"]
        \/ /\ ~DeletePlanValid(plan)
           /\ delete_call' = [delete_call EXCEPT !.step = "done", !.answer = "INVALID_GRAPH_DATA"]
        \/ /\ DeletePlanValid(plan) /\ ~confirmable      \* confirming it answers FEATURE_DISABLED
           /\ delete_call' = [delete_call EXCEPT !.step = "done", !.answer = "PREVIEW"]
        \/ /\ DeletePlanValid(plan) /\ confirmable
           /\ delete_call' = [delete_call EXCEPT
                !.step = "issued",
                !.targets = [i \in DOMAIN plan |-> CHOOSE e \in edge_match_query(plan[i]) : TRUE]]
     /\ UNCHANGED <<import_call, mutation_call, graph_edges, foreign_edges>>

\* The confirmation loads the stored plan, reads the schema and consumes the plan; each may fail.
\* A plan without operations is executed at once.
delete_confirm ==
  /\ delete_call.step = "issued"
  /\ \/ delete_call' = [delete_call EXCEPT !.step = IF delete_call.plan = <<>> THEN "record" ELSE "exists"]
     \/ \E a \in {"READONLY_VIOLATION", "CONNECTION_FAILED", "PLAN_HASH_MISMATCH"} :
          delete_call' = [delete_call EXCEPT !.step = "done", !.answer = a]
  /\ UNCHANGED <<import_call, mutation_call, graph_edges, foreign_edges>>

Operation == Len(delete_call.results) + 1

\* The edge an operation is bound to, if it is still in the graph.
delete_target_query(i) == {e \in graph_edges : e.id = delete_call.targets[i].id}

\* An operation has its result: the next one starts, or the plan is complete.
Result(s) ==
  delete_call' = [delete_call EXCEPT
    !.results = Append(@, s),
    !.step = IF Operation = Len(delete_call.plan) THEN "record" ELSE "exists"]

\* The operation failed: the executor stops, and its status counts with the earlier ones.
execution_failure(s) == delete_call' = [delete_call EXCEPT !.failed = s, !.step = "record"]

\* The read before the write: a target that is gone is done already.
execute_exists ==
  /\ delete_call.step = "exists"
  /\ \/ execution_failure("REJECTED")                                   \* the read failed
     \/ delete_target_query(Operation) = {} /\ Result("ALREADY_APPLIED")
     \/ /\ delete_target_query(Operation) # {}
        /\ delete_call' = [delete_call EXCEPT !.step = "write"]
  /\ UNCHANGED <<import_call, mutation_call, graph_edges, foreign_edges>>

\* The delete: done and answered, done with the answer lost, refused, or answered
\* without effect.
execute_write ==
  /\ delete_call.step = "write"
  /\ LET found == delete_target_query(Operation) IN
     \/ /\ graph_edges' = graph_edges \ found
        /\ \E lost \in BOOLEAN :
             delete_call' = [delete_call EXCEPT
               !.removed = @ \union found, !.step = IF lost THEN "record" ELSE "verify",
               !.failed = IF lost THEN "UNKNOWN" ELSE @]
     \/ /\ execution_failure("UNKNOWN") \/ execution_failure("REJECTED")
        /\ UNCHANGED graph_edges
     \/ /\ delete_call' = [delete_call EXCEPT !.step = "verify"]
        /\ UNCHANGED graph_edges
  /\ UNCHANGED <<import_call, mutation_call, foreign_edges>>

\* Mutant: a failed check after the delete counts like one before it.
execute_verify_rejects ==
  /\ delete_call.step = "verify"
  /\ \/ execution_failure("REJECTED")
     \/ IF delete_target_query(Operation) = {} THEN Result("APPLIED") ELSE execution_failure("REJECTED")
  /\ UNCHANGED <<import_call, mutation_call, graph_edges, foreign_edges>>

\* The read after the write: the outcome is unknown when it fails.
execute_verify ==
  /\ delete_call.step = "verify"
  /\ \/ execution_failure("UNKNOWN")
     \/ IF delete_target_query(Operation) = {} THEN Result("APPLIED") ELSE execution_failure("REJECTED")
  /\ UNCHANGED <<import_call, mutation_call, graph_edges, foreign_edges>>

\* The statuses of the operations that ran, the failed one included.
operation_statuses(d) ==
  {d.results[i] : i \in DOMAIN d.results} \union (IF d.failed = "none" THEN {} ELSE {d.failed})

normalize_execute_result(d) ==
  IF operation_statuses(d) = {} THEN "APPLIED" ELSE aggregate_plan_status(operation_statuses(d))

\* The outcome goes to the ledger; a success that cannot be recorded is answered as unknown.
delete_record ==
  LET status == normalize_execute_result(delete_call) IN
  /\ delete_call.step = "record"
  /\ \E saved \in BOOLEAN :
       delete_call' = [delete_call EXCEPT
         !.step = "done", !.recorded = IF saved THEN status ELSE @,
         !.answer = IF status \in Success /\ ~saved THEN "WRITE_OUTCOME_UNKNOWN" ELSE status]
  /\ UNCHANGED <<import_call, mutation_call, graph_edges, foreign_edges>>

\* Another client creates or deletes an edge.  An edge id is made of its ends, label and sort
\* keys, so an edge that was removed can come back under its id.
ForeignEdge ==
  /\ foreign_edges < MaxForeignEdges
  /\ foreign_edges' = foreign_edges + 1
  /\ \E e \in GraphEdges :
       /\ graph_edges' = IF e \in graph_edges THEN graph_edges \ {e} ELSE graph_edges \union {e}
       /\ delete_call' = [delete_call EXCEPT !.removed = @ \ {e}]
  /\ UNCHANGED <<import_call, mutation_call>>

----------------------------------------------------------------------------
NewImport(p, c) == [payload |-> p, confirm |-> c, answer |-> "none", compiled |-> <<>>]
NewMutation(m) == [request |-> m, answer |-> "none", after |-> <<>>]
NewDelete(plan) == [plan |-> plan, targets |-> <<>>, results |-> <<>>, failed |-> "none", removed |-> {},
                    step |-> "start", recorded |-> "none", answer |-> "none"]

ChangeInit ==
  /\ \E p \in ImportPayloads, c \in BOOLEAN : import_call = NewImport(p, c)
  /\ \E m \in Mutations : mutation_call = NewMutation(m)
  /\ \E plan \in DeletePlans : delete_call = NewDelete(plan)
  /\ graph_edges \in SUBSET GraphEdges /\ foreign_edges = 0

ImportNext == manage_graph_data_import

DeleteNext ==
  \/ delete_dry_run \/ delete_confirm \/ execute_exists \/ execute_write \/ execute_verify
  \/ delete_record \/ ForeignEdge

ChangeNext == ImportNext \/ mutate_graph_properties \/ DeleteNext
ChangeSpec == ChangeInit /\ [][ChangeNext]_changeVars

----------------------------------------------------------------------------
\* Type correctness of the delete call.
ChangeTypeOK ==
  /\ delete_call.step \in {"start", "issued", "exists", "write", "verify", "record", "done"}
  /\ delete_call.failed \in {"none"} \union ApplyStatus
  /\ delete_call.recorded \in {"none"} \union PlanStatus
  /\ graph_edges \subseteq GraphEdges

\* Whether an endpoint, as the caller wrote it, names a vertex.
Names(e, label, v) ==
  /\ v.label = label
  /\ CASE e.form = "object" -> /\ Present(e.id) => v.id.value = e.id.value
                               /\ Present(e.pk) => v.pk.value = e.pk.value
       [] e.form = "backend" -> v.id.value = e.id.value
       [] OTHER -> \/ v.id.value = e.id.value
                   \/ Present(v.pk) /\ v.pk.value \in {e.id.value, Tail_(e.id).value}

\* An endpoint names a vertex v, and no other vertex of the payload vs.
NamesOnly(vs, label, e, v) ==
  /\ Names(e, label, v)
  /\ \A j \in DOMAIN vs :
       Names(e, label, vs[j]) =>
         vs[j] = v \/ (e.form = "scalar" /\ HasColon(e.id) /\ e.id.value \in {vs[j].pk.value, v.pk.value})

\* The payload has an id or a key, of the label of an endpoint that is no object, which is
\* written like the endpoint and is another value (1 and "1"), or is its value and is written
\* differently (1 and 1.0).
MistakenByText(vs, label, e) ==
  /\ e.form # "object"
  /\ \E j \in DOMAIN vs : \E x \in {vs[j].id, vs[j].pk}, n \in {e.id, Tail_(e.id)} :
       vs[j].label = label /\ (x.text = n.text) # (x.value = n.value)

\* In an import that is previewed as valid, every edge runs between the vertices its endpoints
\* name, and no other vertex of the payload has either name: an id and a primary key value
\* that coincide never send an edge to the wrong vertex.  There are two exceptions.  A scalar
\* may be, with a colon in it, the primary key value of a vertex: validation reads it as an id
\* or as the value after the colon, and the mapping as the value itself.  And validation
\* compares values where the mapping compares their texts: with a vertex whose key is 1 and
\* one whose id is "1" the endpoint 1 is validated as the first and compiled to the second.
ImportedEndpointsAsNamed ==
  import_call.answer = "PREVIEW" =>
    LET p == import_call.payload IN
    \A i \in DOMAIN p.edges : \A side \in {"source", "target"} :
      LET e == p.edges[i][side]
          label == EdgeEnds[p.edges[i].label][side]
      IN MistakenByText(p.vertices, label, e)
         \/ NamesOnly(p.vertices, label, e, import_call.compiled[i][side])

\* A delete removes only edges that were previewed, whatever other clients did since, and no
\* removal is reported as if nothing had been deleted: an outcome that says so, in the answer
\* or in the ledger, is recorded only when everything this call removed has been created again.
DeletionsPreviewedAndReported ==
  /\ \A e \in delete_call.removed : \E i \in DOMAIN delete_call.targets : delete_call.targets[i] = e
  /\ delete_call.removed # {} =>
       {delete_call.answer, delete_call.recorded} \cap {"REJECTED", "ALREADY_APPLIED", "CONFLICT"} = {}
=============================================================================

----------------------------- MODULE MCGateway -----------------------------
(***************************************************************************)
(* One instance of each module of the MCP server's tools and of the Python  *)
(* client, checked in one run.  The initial state selects a component, and  *)
(* only that one takes steps: the state space is the sum of the             *)
(* components', not their product.                                          *)
(***************************************************************************)
EXTENDS GremlinRead, McpServer, SchemaTool, GraphChange, GraphClient, GraphQuery

VARIABLE component   \* the component that runs

gatewayVars == <<component, readVars, serverVars, schemaVars, changeVars, clientVars, queryVars>>

----------------------------------------------------------------------------
(* Gremlin texts: a read that is opened plainly, in a parenthesis or in a   *)
(* literal, continued by fragments that end, hide or perform a write.       *)

MCRoot == <<"g", ".", "V", "(", ")">>
MCOpenings == {MCRoot, MCRoot \o <<".", "has", "(">>, MCRoot \o <<".", "has", "(", "'">>}
MCFragments ==
  {<<".", "drop", "(", ")">>, <<".", "limit", "(", "1", ")">>, <<")">>, <<"'">>, <<"\"">>, <<"\\">>,
   <<"${">>, <<"//">>, <<"/*">>, <<"*/">>, <<"nl">>, <<",">>, <<".">>, <<"drop">>}

(* Environments: frozen or not, and without AI or administration.           *)

MCEnv(r, a, i) == [graph |-> "g1", readonly |-> r, admin |-> a, allow_ai |-> i]
MCEnvs == {MCEnv(TRUE, TRUE, TRUE), MCEnv(FALSE, TRUE, TRUE), MCEnv(FALSE, TRUE, FALSE), MCEnv(FALSE, FALSE, TRUE)}

(* Schema requests: batches that depend on their order, on each other and   *)
(* on the live schema are validated; one property key is written by every   *)
(* protocol while other clients create it too.                              *)

MCOp(t, a) == [type |-> t, args |-> a]
MCKey(a) == MCOp("create_property_key", a)
MCLabel(a) == MCOp("create_vertex_label", a)
MCName == MCKey([name |-> <<"name">>, data_type |-> <<"INTEGER">>])
MCPerson == MCLabel([name |-> <<"person">>, properties |-> <<"name">>, primary_keys |-> <<"name">>])
MCKnows == MCOp("create_edge_label", [name |-> <<"knows">>, source_label |-> <<"person">>,
                                      target_label |-> <<"person">>, nullable_keys |-> Null])
MCByAge == MCOp("create_index_label", [name |-> <<"byAge">>, base_type |-> <<"VERTEX">>,
                                       base_label |-> <<"tag">>, fields |-> <<"age">>])
MCTag(a) == MCLabel([name |-> <<"tag">>] @@ a)
MCBatches ==
  {<<MCName>>, <<MCName, MCPerson>>, <<MCPerson, MCName>>, <<MCName, MCName>>,
   <<MCName, MCPerson, MCKnows>>, <<MCName, MCKnows, MCPerson>>,
   <<MCTag([properties |-> <<"age">>, id_strategy |-> <<"AUTOMATIC">>])>>,
   <<MCTag([properties |-> <<"age">>]), MCByAge>>,
   <<MCTag([id_strategy |-> <<"AUTOMATIC">>]), MCByAge>>,
   <<MCTag([id_strategy |-> <<"AUTOMATIC">>, primary_keys |-> <<"ghost">>])>>,
   <<MCOp("drop_vertex_label", [name |-> <<"person">>])>>}

\* A property key whose cardinality is given as an empty string.
MCEmptyField == <<MCKey([name |-> <<"name">>, data_type |-> <<"TEXT">>, cardinality |-> <<>>])>>

\* A property key whose cardinality is given as null.
MCNullField == <<MCKey([name |-> <<"name">>, data_type |-> <<"INTEGER">>, cardinality |-> Null])>>

\* An edge label with two nullable keys.
MCVisits == <<MCOp("create_edge_label", [name |-> <<"visits">>, source_label |-> <<"city">>,
                target_label |-> <<"city">>, properties |-> <<"age", "size">>,
                nullable_keys |-> <<"age", "size">>])>>

MCInitialSchema ==
  {apply_one_operation(MCKey([name |-> <<n>>, data_type |-> <<"INT">>])) : n \in {"age", "size"}}
  \union {apply_one_operation(MCLabel([name |-> <<"city">>, id_strategy |-> <<"AUTOMATIC">>]))}
MCForeignObjects ==
  {apply_one_operation(MCName),
   apply_one_operation(MCKey([name |-> <<"name">>, data_type |-> <<"INT">>, cardinality |-> <<"LIST">>]))}

MCRequest(m, b, r) == [mode |-> m, ops |-> b, readonly |-> r]
MCValidations == {MCRequest("validate", b, FALSE) : b \in MCBatches}
MCWrites ==
  {MCRequest(m, <<MCName>>, r) : m \in {"dry_run", "apply", "confirm"}, r \in BOOLEAN}
  \union {MCRequest("design", <<MCName>>, FALSE), MCRequest("inspect", <<MCName>>, FALSE)}
MCNullWrites == {MCRequest(m, MCNullField, FALSE) : m \in {"dry_run", "confirm"}}
MCEdgeWrites == {MCRequest(m, MCVisits, FALSE) : m \in {"dry_run", "apply", "confirm"}}
MCSchemaRequests == MCValidations \union MCWrites \union MCNullWrites \union MCEdgeWrites
MCEmptyFieldRequests == {MCRequest(m, MCEmptyField, FALSE) : m \in {"dry_run", "apply"}}

(* Imports: people with and without an id that may equal another one's key, *)
(* an edge whose source is named in every form; deletes of one and two      *)
(* edges and of a vertex; property changes of every cardinality.            *)

MCVertexLabels == [person |-> "PRIMARY_KEY", doc |-> "CUSTOMIZE_STRING", place |-> "CUSTOMIZE_NUMBER"]
MCEdgeEnds == [wrote |-> [source |-> "person", target |-> "doc"]]
MCColonTail == "1:x" :> "x"
MCVertexOf(l, i, k) == [label |-> l, id |-> i, pk |-> k, ok |-> TRUE]
MCVertex(l, i, k) == MCVertexOf(l, Str(i), Str(k))
MCScalarOf(v) == [form |-> "scalar", id |-> v, pk |-> Absent]
MCScalar(v) == MCScalarOf(Str(v))
MCObject(i, k) == [form |-> "object", id |-> Str(i), pk |-> Str(k)]
MCDoc == MCVertex("doc", "d", "")
MCPeople == {MCVertex("person", i, k) : i \in {"", "x", "1:x"}, k \in {"x", "y"}}
MCVertexLists ==
  {<<MCDoc, v>> : v \in MCPeople} \union {<<MCDoc, v, w>> : v, w \in MCPeople}
  \union {<<>>, <<MCVertex("doc", "", "")>>, <<[MCDoc EXCEPT !.ok = FALSE]>>, <<MCVertex("ghost", "d", "")>>}
MCSources ==
  {MCScalar("x"), MCScalar("1:x"), MCScalar("z"), [MCScalar("x") EXCEPT !.form = "backend"],
   [MCScalar("1:x") EXCEPT !.form = "backend"], [MCScalar("x") EXCEPT !.form = "mixed"],
   MCObject("", "x"), MCObject("x", ""), MCObject("", "")}
MCPayload(vs, s) ==
  [vertices |-> vs, edges |-> <<[label |-> "wrote", ok |-> TRUE, source_label |-> "person",
                                 target_label |-> "doc", source |-> s, target |-> MCScalar("d")]>>]

\* A primary key value with a colon in it, which is the id of another person.
MCColonList == <<MCDoc, MCVertex("person", "1:x", "y"), MCVertex("person", "", "1:x")>>
MCTextPayloads == {MCPayload(vs, s) : vs \in MCVertexLists \union {MCColonList}, s \in MCSources}

\* Numbers: 1 and 1.0 are one value, 1 and "1" are written alike.
MCInt == [type |-> "int", value |-> "#1", text |-> "1"]
MCFloat == [type |-> "float", value |-> "#1", text |-> "1.0"]
MCTwo == [type |-> "int", value |-> "#2", text |-> "2"]
MCNumbers == {Str("1"), MCInt, MCFloat}
MCTyped(l) == {MCVertexOf(l, i, k) : i \in MCNumbers \union {Absent}, k \in {MCInt, MCTwo}}
MCTypedLists ==
  {<<MCDoc, v, w>> : v, w \in MCTyped("person")} \union {<<MCVertexOf("doc", MCInt, Absent)>>}
  \union {<<MCDoc, MCVertexOf("place", i, Absent), MCVertexOf("person", Absent, MCTwo)>> : i \in {Absent, Str("1"), MCInt}}
MCTypedPayloads ==
  {MCPayload(vs, s) : vs \in MCTypedLists,
     s \in {MCScalarOf(v) : v \in MCNumbers \union {MCTwo}} \union {[MCScalarOf(MCInt) EXCEPT !.form = "backend"]}}
MCPayloads == MCTextPayloads \union MCTypedPayloads
MCLiveVertices == {MCVertex("person", "1:z", "z"), MCVertex("person", "x", "w")}

MCEdge(i, s, t) == [id |-> i, source |-> s, target |-> t]
MCGraphEdges == {MCEdge("e1", "a", "b"), MCEdge("e2", "a", "b"), MCEdge("e3", "b", "c")}
MCDelete(s, t) == [op |-> "delete_edge", source |-> s, target |-> t]
MCDeleteVertex(cascade) == [op |-> "delete_vertex", source |-> "a", cascade |-> cascade]
MCDeletePlans ==
  {<<>>, <<MCDelete("a", "b")>>, <<MCDelete("a", "b"), MCDelete("b", "c")>>,
   <<MCDelete("a", "b"), MCDelete("a", "b")>>, <<MCDeleteVertex(FALSE)>>, <<MCDeleteVertex(TRUE)>>}

MCPropertyKeys == [tags |-> "LIST", codes |-> "SET", age |-> "SINGLE"]
MCOne == [kind |-> "scalar", items |-> <<1>>]
MCList(s) == [kind |-> "list", items |-> s]
MCMutation(o, p, d, c, r) ==
  [operation |-> o, properties |-> p, target |-> [codes |-> MCList(<<1>>), age |-> MCOne],
   dry_run |-> d, confirm |-> c, readonly |-> r]
MCNoMutation == MCMutation("append", <<>>, TRUE, FALSE, FALSE)
MCMutations ==
  {MCMutation(o, p, d, c, r) :
     o \in {"append", "eliminate"}, d \in BOOLEAN, c \in BOOLEAN, r \in BOOLEAN,
     p \in {<<>>, [tags |-> MCList(<<1>>)], [codes |-> MCList(<<1, 2>>)], [age |-> MCOne], [tags |-> MCOne],
            [tags |-> Null_], [ghost |-> MCOne]}}

(* Client calls: inserts, reads, updates and deletes of two vertices, two   *)
(* schema objects of which one exists, methods the router formats a path    *)
(* for, and a Vermeer task.                                                 *)

MCClientRequest(o, t) == [op |-> o, target |-> t, space |-> ""]
MCClientRequests ==
  {MCClientRequest("addVertex", "graph"), MCClientRequest("getVertexById", "v1"),
   MCClientRequest("getVertexById", "v2"), MCClientRequest("appendVertex", "v1"),
   MCClientRequest("removeVertexById", "v1"), MCClientRequest("PropertyKey.ifNotExist", "name"),
   MCClientRequest("delete_user", "u1"), MCClientRequest("delete_user", "u2")}
MCOtherRequests ==
  {MCClientRequest("PropertyKey.ifNotExist", "age"), MCClientRequest("list_services", "svc"),
   MCClientRequest("clear_graph_all_data", "graph"), MCClientRequest("vermeer.create_task", "task")}
MCAllRequests == MCClientRequests \union MCOtherRequests
MCInitialObjects == {"graph", "v1", "v2", "age", "u1", "u2", "svc", "task"}
MCServerVersions == {<<1, 3, 0>>, <<1, 7, 0>>, <<3, 0, 0>>}

(* Queries: pages of three sizes of a label whose last item is large, ids   *)
(* of every type, and requests that are refused.                            *)

MCQueryItems == <<1, 1, 1, 2>>
MCQuery(o, l) == [target |-> "vertex", operation |-> o, ids |-> <<>>, label |-> <<"person">>,
                  properties |-> <<>>, limit |-> l, page |-> <<>>, vertex_id |-> <<>>, direction |-> <<>>]
MCId(t, v) == [type |-> t, value |-> v]
MCIds(o, ids) == [MCQuery(o, <<>>) EXCEPT !.ids = ids]
MCQueryRequests ==
  {MCQuery("page", <<n>>) : n \in 0..4}
  \union {MCQuery("page", <<>>), MCQuery("condition", <<1>>), MCQuery("drop", <<1>>),
          [MCQuery("condition", <<2>>) EXCEPT !.properties = <<"age">>],
          [MCQuery("page", <<2>>) EXCEPT !.label = <<>>],
          MCIds("get_by_id", <<>>), MCIds("get_by_id", <<MCId("long", 1)>>), MCIds("get_by_id", <<MCId("str", 1)>>),
          MCIds("get_by_ids", <<MCId("long", 1), MCId("str", 1), MCId("long", 1)>>),
          MCIds("get_by_ids", <<MCId("long", 1), MCId("bool", 1)>>),
          MCIds("get_by_ids", <<MCId("long", 1), MCId("long", 2), MCId("long", 3)>>)}
  \union {[MCQuery("page", <<2>>) EXCEPT !.target = "edge", !.vertex_id = v, !.direction = d, !.page = p] :
            v \in {<<>>, <<"a">>}, d \in {<<>>, <<"OUT">>, <<"UP">>}, p \in {<<>>, <<1>>}}

----------------------------------------------------------------------------
Runs(c) == component = c

ReadInit == IF Runs("read") THEN Init_text ELSE text = MCRoot /\ Init_text

McpInit ==
  /\ ~Runs("server") => mcp_env = MCEnv(TRUE, TRUE, TRUE)
  /\ replica = [r \in Replicas |-> [graph |-> "g1", request |-> NoRequest]]
  /\ ServerInit

\* Batches are validated alone, and an edge label is written alone; the other writing calls
\* meet each other.
SchemaToolInit ==
  /\ \/ /\ Runs("schema")
        /\ \/ schema_call \in [SchemaCalls -> {NewCall(r) : r \in
                                 SchemaRequests \ (MCValidations \union MCEdgeWrites)}]
           \/ schema_call \in [SchemaCalls -> {NewCall(r) : r \in
                                 MCEdgeWrites \intersect SchemaRequests}]
           \/ \E r \in MCValidations \intersect SchemaRequests :
                schema_call = [c \in SchemaCalls |-> NewCall(r)]
     \/ /\ ~Runs("schema")
        /\ schema_call = [c \in SchemaCalls |-> NewCall(CHOOSE r \in SchemaRequests : TRUE)]
  /\ live_schema = InitialSchema
  /\ schema_ledger = <<>> /\ confirmed_plans = {} /\ foreign_steps = 0

GraphChangeInit ==
  /\ import_call \in IF Runs("import") THEN {NewImport(p, c) : p \in ImportPayloads, c \in BOOLEAN}
                     ELSE {NewImport([vertices |-> <<>>, edges |-> <<>>], TRUE)}
  /\ mutation_call \in IF Runs("property") THEN {NewMutation(m) : m \in Mutations} ELSE {NewMutation(MCNoMutation)}
  /\ delete_call \in IF Runs("delete") THEN {NewDelete(plan) : plan \in DeletePlans}
                     ELSE {NewDelete(<<MCDeleteVertex(TRUE)>>)}
  /\ graph_edges \in IF Runs("delete") THEN SUBSET GraphEdges ELSE {{}}
  /\ foreign_edges = 0

\* Two threads make any two calls on a 1.7 server; on the others both make the same call.
GraphClientInit ==
  /\ IF Runs("client") THEN ClientInit
     ELSE /\ server = [version |-> <<1, 7, 0>>, objects |-> InitialObjects]
          /\ client_call = [t \in ClientThreads |-> NewClientCall(MCClientRequest("addVertex", "graph"))]
          /\ client_cfg = [state |-> "unbuilt", graphspace |-> "S", gs_supported |-> FALSE, version |-> <<>>]
          /\ lazy_manager = NoManager /\ stored_request = [t \in ClientThreads |-> <<>>]
  /\ \/ \A s, t \in ClientThreads : client_call[s].request = client_call[t].request
     \/ /\ server.version = <<1, 7, 0>> /\ client_cfg.graphspace = ""
        /\ \A t \in ClientThreads : client_call[t].request \notin MCOtherRequests

GraphQueryInit ==
  IF Runs("query") THEN QueryInit
  ELSE QueryInit /\ max_result_items = 2 /\ query = NewQuery(MCQuery("drop", <<1>>))

GatewayInit ==
  /\ component \in {"read", "server", "schema", "import", "property", "delete", "client", "query"}
  /\ ReadInit /\ McpInit /\ SchemaToolInit /\ GraphChangeInit /\ GraphClientInit /\ GraphQueryInit

GatewayNext ==
  /\ UNCHANGED component
  /\ \/ /\ Runs("read") /\ GremlinReadNext
        /\ UNCHANGED <<serverVars, schemaVars, changeVars, clientVars, queryVars>>
     \/ /\ Runs("server") /\ ServerNext
        /\ UNCHANGED <<readVars, schemaVars, changeVars, clientVars, queryVars>>
     \/ /\ Runs("schema") /\ SchemaNext
        /\ UNCHANGED <<readVars, serverVars, changeVars, clientVars, queryVars>>
     \/ /\ Runs("import") /\ ImportNext
        /\ UNCHANGED <<readVars, serverVars, schemaVars, clientVars, queryVars>>
     \/ /\ Runs("property") /\ mutate_graph_properties
        /\ UNCHANGED <<readVars, serverVars, schemaVars, clientVars, queryVars>>
     \/ /\ Runs("delete") /\ DeleteNext
        /\ UNCHANGED <<readVars, serverVars, schemaVars, clientVars, queryVars>>
     \/ /\ Runs("client") /\ ClientNext
        /\ UNCHANGED <<readVars, serverVars, schemaVars, changeVars, queryVars>>
     \/ /\ Runs("query") /\ QueryNext
        /\ UNCHANGED <<readVars, serverVars, schemaVars, changeVars, clientVars>>

GatewaySpec == GatewayInit /\ [][GatewayNext]_gatewayVars

\* Type correctness of all components.
GatewayTypeOK ==
  GremlinReadTypeOK /\ ServerTypeOK /\ SchemaTypeOK /\ ChangeTypeOK /\ ClientTypeOK /\ QueryTypeOK

\* The schema tool alone.
SchemaOnlySpec ==
  /\ GatewayInit /\ Runs("schema") /\ [][GatewayNext]_gatewayVars
=============================================================================

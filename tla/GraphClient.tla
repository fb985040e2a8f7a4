---------------------------- MODULE GraphClient ----------------------------
(***************************************************************************)
(* The HugeGraph Python client (hugegraph-python-client) and the Vermeer    *)
(* client beside it: configuration by probing the server's version, lazily  *)
(* built managers, the router that keeps the request of a method on the     *)
(* manager, the session with its retries, the validation of responses, and  *)
(* the schema builders.  A client is shared by threads.                     *)
(*                                                                          *)
(* A request body is left out; a path is the scope it is sent under and the *)
(* object it addresses.  The server is external: it serves, refuses or      *)
(* loses a request, and an answer can be lost after the effect.             *)
(***************************************************************************)
EXTENDS Naturals, Sequences, FiniteSets, TLC

CONSTANTS ClientThreads,
          ClientRequests,   \* [op, target, space]: the method called, its object, the graphspace argument
          ServerVersions,   \* the server may run one of these: <<major, minor, patch>>
          ConfiguredSpaces, \* the graphspace given to the client, "" for none
          InitialObjects,   \* the objects that exist on the server
          Retries,          \* Retry(total=3)
          NoManager

VARIABLES server,           \* the server: its version and the objects that exist
          client_cfg,       \* HGraphConfig: graphspace, gs_supported, version, and its state
          lazy_manager,     \* the manager kept on the client; a manager is named by the thread that built it
          stored_request,   \* per manager: method -> the path of the request kept for it
          client_call       \* per thread: where its call is

clientVars == <<server, client_cfg, lazy_manager, stored_request, client_call>>

----------------------------------------------------------------------------
(* The methods of the managers: the HTTP method; whether the path is built  *)
(* in the method ("local"), is a constant of the router ("constant") or is  *)
(* formatted by the router from the arguments ("formatted"); and the scope  *)
(* of the path: the graph's, the graphspace's, auth, or the server's.       *)

Method(m, path, scope) == [method |-> m, path |-> path, scope |-> scope]
Get(path, scope) == Method("GET", path, scope)

GraphManager ==
  [addVertex |-> Method("POST", "constant", "graph"), addVertices |-> Method("POST", "constant", "graph"),
   addEdge |-> Method("POST", "constant", "graph"), addEdges |-> Method("POST", "constant", "graph"),
   appendVertex |-> Method("PUT", "local", "graph"), eliminateVertex |-> Method("PUT", "local", "graph"),
   appendEdge |-> Method("PUT", "local", "graph"), eliminateEdge |-> Method("PUT", "local", "graph"),
   removeVertexById |-> Method("DELETE", "local", "graph"), removeEdgeById |-> Method("DELETE", "local", "graph"),
   getVertexById |-> Get("local", "graph"), getEdgeById |-> Get("local", "graph"),
   getVertexByPage |-> Get("local", "graph"), getVertexByConditionWithPage |-> Get("local", "graph"),
   getEdgeByPage |-> Get("local", "graph"), getVerticesById |-> Get("local", "graph"),
   getEdgesById |-> Get("local", "graph")]

SchemaManager ==
  [getSchema |-> Get("formatted", "graph"), getPropertyKey |-> Get("formatted", "graph"),
   getVertexLabel |-> Get("formatted", "graph"), getEdgeLabel |-> Get("formatted", "graph"),
   getIndexLabel |-> Get("formatted", "graph"), getPropertyKeys |-> Get("constant", "graph"),
   getVertexLabels |-> Get("constant", "graph"), getEdgeLabels |-> Get("constant", "graph"),
   getRelations |-> Get("constant", "graph"), getIndexLabels |-> Get("constant", "graph")]

AuthNames(kind) == {kind \o "_user", kind \o "_accesses", kind \o "_target", kind \o "_belong"}

\* Every auth method names the graphspace; those of groups live on the server.
AuthManager ==
  [op \in {"create_user", "create_target", "create_belong", "grant_accesses"} |-> Method("POST", "formatted", "auth")]
  @@ [op \in {"delete_user", "delete_target", "delete_belong", "revoke_accesses"} |-> Method("DELETE", "formatted", "auth")]
  @@ [op \in {"modify_user", "update_target", "update_belong", "modify_accesses"} |-> Method("PUT", "formatted", "auth")]
  @@ [op \in AuthNames("get") \union {"list_users", "list_targets", "list_belongs", "list_accesses"} |->
        Get("formatted", "auth")]
  @@ [list_groups |-> Get("constant", "server"), create_group |-> Method("POST", "constant", "server"),
      get_group |-> Get("formatted", "server"), modify_group |-> Method("PUT", "formatted", "server"),
      delete_group |-> Method("DELETE", "formatted", "server")]

TraverserManager ==
  [op \in {"k_out", "k_neighbor", "same_neighbors", "jaccard_similarity", "shortest_path", "all_shortest_paths",
           "weighted_shortest_path", "single_source_shortest_path", "paths", "crosspoints", "rings", "rays"} |->
     Get("local", "graph")]
  @@ [op \in {"multi_node_shortest_path", "advanced_paths", "customized_paths", "template_paths",
              "customized_crosspoints", "fusiform_similarity"} |-> Method("POST", "constant", "graph")]
  @@ [op \in {"vertices", "edges"} |-> Get("constant", "graph")]

RankManager == [op \in {"personal_rank", "neighbor_rank"} |-> Method("POST", "constant", "graph")]

RebuildManager ==
  [op \in {"rebuild_indexlabels", "rebuild_vertexlabels", "rebuild_edgelabels"} |-> Method("PUT", "formatted", "graph")]

ServicesManager ==
  [create_services |-> Method("POST", "formatted", "space"), list_services |-> Get("formatted", "space"),
   get_service |-> Get("formatted", "space"), delete_service |-> Method("DELETE", "local", "server")]

VariableManager ==
  [set |-> Method("PUT", "formatted", "graph"), get |-> Get("formatted", "graph"),
   remove |-> Method("DELETE", "formatted", "graph"), all |-> Get("constant", "graph")]

TaskManager ==
  [list_tasks |-> Get("constant", "graph"), get_task |-> Get("formatted", "graph"),
   delete_task |-> Method("DELETE", "formatted", "graph"), cancel_task |-> Method("PUT", "formatted", "graph")]

MetricsManager ==
  [op \in {"get_all_basic_metrics", "get_gauges_metrics", "get_counters_metrics", "get_histograms_metrics",
           "get_meters_metrics", "get_timers_metrics", "get_statistics_metrics", "get_system_metrics",
           "get_backend_metrics"} |-> Get("constant", "server")]

\* Clearing a graph is an update on a server known to be 3.0 or later, a delete otherwise.
GraphsManager ==
  [op \in {"get_all_graphs", "get_version"} |-> Get("constant", "server")]
  @@ [op \in {"get_graph_info", "get_graph_config"} |-> Get("constant", "graph")]
  @@ [clear_graph_all_data |-> Method("PUT or DELETE", "local", "graph")]

GremlinManager == [exec |-> Method("POST", "constant", "server")]

\* The builders: one kind of schema object each.
SchemaBuilder(create, ifNotExist, append, eliminate, delete) ==
  (create :> Method("POST", "local", "graph")) @@ (ifNotExist :> Get("local", "graph"))
  @@ (append :> Method("PUT", "local", "graph")) @@ (eliminate :> Method("PUT", "local", "graph"))
  @@ (delete :> Method("DELETE", "local", "graph"))

PropertyKey == SchemaBuilder("PropertyKey.create", "PropertyKey.ifNotExist", "PropertyKey.append",
                             "PropertyKey.eliminate", "PropertyKey.remove")
VertexLabel == SchemaBuilder("VertexLabel.create", "VertexLabel.ifNotExist", "VertexLabel.append",
                             "VertexLabel.eliminate", "VertexLabel.remove")
EdgeLabel == SchemaBuilder("EdgeLabel.create", "EdgeLabel.ifNotExist", "EdgeLabel.append",
                           "EdgeLabel.eliminate", "EdgeLabel.remove")
IndexLabel == ("IndexLabel.create" :> Method("POST", "local", "graph"))
  @@ ("IndexLabel.ifNotExist" :> Get("local", "graph")) @@ ("IndexLabel.remove" :> Method("DELETE", "local", "graph"))

VermeerModules ==
  ("vermeer.get_tasks" :> Get("local", "vermeer")) @@ ("vermeer.get_task" :> Get("local", "vermeer"))
  @@ ("vermeer.get_graph" :> Get("local", "vermeer")) @@ ("vermeer.get_graphs" :> Get("local", "vermeer"))
  @@ ("vermeer.create_task" :> Method("POST", "local", "vermeer"))

ClientMethods ==
  GraphManager @@ SchemaManager @@ AuthManager @@ TraverserManager @@ RankManager @@ RebuildManager
  @@ ServicesManager @@ VariableManager @@ TaskManager @@ MetricsManager @@ GraphsManager @@ GremlinManager
  @@ PropertyKey @@ VertexLabel @@ EdgeLabel @@ IndexLabel @@ VermeerModules

IfNotExist == {"PropertyKey.ifNotExist", "VertexLabel.ifNotExist", "EdgeLabel.ifNotExist", "IndexLabel.ifNotExist"}
CreateOf == ("PropertyKey.ifNotExist" :> "PropertyKey.create") @@ ("VertexLabel.ifNotExist" :> "VertexLabel.create")
            @@ ("EdgeLabel.ifNotExist" :> "EdgeLabel.create") @@ ("IndexLabel.ifNotExist" :> "IndexLabel.create")
Creates == {CreateOf[op] : op \in IfNotExist}

\* The methods that read or change graph data.
DataMethods == DOMAIN GraphManager \union DOMAIN TraverserManager

\* What the table says of the methods that the properties below are about.
ASSUME MethodTable ==
  /\ \A op \in DataMethods : ClientMethods[op].scope = "graph" /\ ClientMethods[op].path \in {"local", "constant"}
  /\ \A op \in IfNotExist : ClientMethods[op] = Get("local", "graph") /\ CreateOf[op] \in Creates
  /\ \A op \in Creates : ClientMethods[op] = Method("POST", "local", "graph")
  /\ "clear_graph_all_data" \notin IfNotExist \union Creates /\ IfNotExist \intersect Creates = {}

\* Strings; and a path that is a constant of the router addresses one object, whatever the arguments.
ASSUME ClientAssumption ==
  /\ ClientRequests \subseteq [op : DOMAIN ClientMethods, target : STRING, space : STRING]
  /\ \A r, s \in ClientRequests :
       r.op = s.op /\ ClientMethods[r.op].path = "constant" => r.target = s.target
  /\ ConfiguredSpaces \subseteq STRING /\ Retries \in Nat

----------------------------------------------------------------------------
(* Configuration.                                                           *)

AtLeast(v, w) ==
  \/ v[1] > w[1]
  \/ v[1] = w[1] /\ v[2] > w[2]
  \/ v[1] = w[1] /\ v[2] = w[2] /\ v[3] >= w[3]

\* HGraphConfig: a given graphspace is trusted; otherwise the server is asked, and a server
\* that does not answer is taken for one without graphspaces; one that is too old, or whose
\* version cannot be read in the answer, is refused.
post_init ==
  LET built(gs, supported, v) == [state |-> "built", graphspace |-> gs, gs_supported |-> supported, version |-> v]
      given == client_cfg.graphspace
  IN /\ client_cfg.state = "unbuilt"
     /\ client_cfg' \in
          IF given # "" THEN {built(given, TRUE, <<>>)}
          ELSE {built("", FALSE, <<>>),                        \* the probe failed
                [client_cfg EXCEPT !.state = "raised"],        \* the version does not parse
                IF ~AtLeast(server.version, <<1, 5, 0>>)
                THEN [client_cfg EXCEPT !.state = "raised"]
                ELSE IF AtLeast(server.version, <<1, 7, 0>>) THEN built("DEFAULT", TRUE, server.version)
                ELSE built("", FALSE, server.version)}
     /\ UNCHANGED <<server, lazy_manager, stored_request, client_call>>

HttpMethod(op) ==
  IF op # "clear_graph_all_data" THEN ClientMethods[op].method
  ELSE IF client_cfg.gs_supported /\ client_cfg.version # <<>> /\ AtLeast(client_cfg.version, <<3, 0, 0>>)
       THEN "PUT" ELSE "DELETE"

\* HGraphSession.resolve and the router's rule for graphspaces.
Path(r) ==
  LET scope == ClientMethods[r.op].scope
      prefix == IF scope \in {"server", "vermeer"} THEN ""
                ELSE IF scope = "space" THEN (IF r.space # "" THEN r.space ELSE client_cfg.graphspace)
                ELSE IF client_cfg.gs_supported THEN client_cfg.graphspace ELSE ""
  IN [prefix |-> prefix, target |-> r.target]

\* The router has no graphspace to put into the path.
PathRaises(r) ==
  ClientMethods[r.op].scope = "space" /\ r.space = "" /\ ~client_cfg.gs_supported

----------------------------------------------------------------------------
(* A call of a method.                                                      *)

Call(t, step) == [client_call EXCEPT ![t].step = step]

\* manager_builder: hasattr, then build and setattr, then getattr.  One manager stands for all of
\* a client: a stored request is kept under its method's name.
lazy_lookup(t) ==
  /\ client_cfg.state = "built" /\ client_call[t].step = "idle"
  /\ client_call' = Call(t, IF lazy_manager = NoManager THEN "build" ELSE "wrap")
  /\ UNCHANGED <<server, client_cfg, lazy_manager, stored_request>>

lazy_build(t) ==
  /\ client_call[t].step = "build"
  /\ lazy_manager' = t
  /\ client_call' = Call(t, "wrap")
  /\ UNCHANGED <<server, client_cfg, stored_request>>

\* setattr: a manager's stored requests with the one of r.
Stored(requests, r) ==
  [op \in DOMAIN requests \union {r.op} |-> IF op = r.op THEN Path(r) ELSE requests[op]]

\* Mutant: every method stores its request.
http_wrapper_always_stores(t) ==
  LET r == client_call[t].request IN
  /\ client_call[t].step = "wrap"
  /\ stored_request' = [stored_request EXCEPT ![lazy_manager] = Stored(@, r)]
  /\ client_call' = [client_call EXCEPT ![t].step = "invoke", ![t].manager = lazy_manager]
  /\ UNCHANGED <<server, client_cfg, lazy_manager>>

\* The wrapper of router.http stores the request on the manager under the method's name.
\* A method that builds its path, and a builder, sends it directly.
http_wrapper(t) ==
  LET r == client_call[t].request IN
  /\ client_call[t].step = "wrap"
  /\ IF ClientMethods[r.op].path = "local"
     THEN /\ client_call' = [client_call EXCEPT ![t].step = "send", ![t].path = Path(r)]
          /\ UNCHANGED stored_request
     ELSE IF PathRaises(r)
     THEN /\ client_call' = [client_call EXCEPT ![t].step = "done", ![t].answer = "ValueError"]
          /\ UNCHANGED stored_request
     ELSE /\ stored_request' = [stored_request EXCEPT ![lazy_manager] = Stored(@, r)]
          /\ client_call' = [client_call EXCEPT ![t].step = "invoke", ![t].manager = lazy_manager]
  /\ UNCHANGED <<server, client_cfg, lazy_manager>>

\* _invoke_request takes the request that is stored now.
invoke_request(t) ==
  /\ client_call[t].step = "invoke"
  /\ client_call' = [client_call EXCEPT ![t].step = "send",
                       ![t].path = stored_request[client_call[t].manager][client_call[t].request.op]]
  /\ UNCHANGED <<server, client_cfg, lazy_manager, stored_request>>

----------------------------------------------------------------------------
(* The session: an attempt, its outcome and what urllib3 does with it.      *)

\* Mutant: every method is sent again.
is_method_retryable_all(method) == TRUE

\* urllib3's default: the methods that are idempotent by definition.
is_method_retryable(method) == method \in {"GET", "PUT", "DELETE"}

\* What the server does with a request it receives: it answers a status and changes objects.
\* From 1.7 the auth methods are served under a graphspace only.
Served(op, method, path) ==
  LET known == path.target \in server.objects
      gone == ClientMethods[op].scope = "auth" /\ path.prefix = "" /\ AtLeast(server.version, <<1, 7, 0>>)
  IN IF gone THEN [status |-> "404", effect |-> FALSE, objects |-> server.objects]
     ELSE IF op \in Creates /\ known THEN [status |-> "400", effect |-> FALSE, objects |-> server.objects]
     ELSE IF method # "POST" /\ ~known THEN [status |-> "404", effect |-> FALSE, objects |-> server.objects]
     ELSE [status |-> "200", effect |-> method # "GET",
           objects |-> CASE method = "DELETE" -> server.objects \ {path.target}
                         [] op \in Creates -> server.objects \union {path.target}
                         [] OTHER -> server.objects]

\* ResponseValidation: what a caller gets for a status.
response_validation(strict, status) ==
  CASE status = "200" -> "ok"
    [] status = "unparsable" -> "ResponseParseError"
    [] status = "404" -> IF strict THEN "NotFoundError" ELSE "empty"
    [] status = "401" -> "NotAuthorizedError"
    [] OTHER -> "ServerError"

\* The Vermeer client parses whatever is answered and looks at no status.
vermeer_validation(status) == IF status = "unparsable" THEN "JsonDecodeError" ELSE "ok"

Validated(t, status) ==
  LET op == client_call[t].request.op
  IN IF ClientMethods[op].scope = "vermeer" THEN vermeer_validation(status)
     ELSE response_validation(op \notin IfNotExist, status)

\* A builder's ifNotExist goes on to create; an object that was found ends it
\* ("Create failed, already exists").
CallAnswered(t, answer, effects) ==
  LET op == client_call[t].request.op IN
  client_call' = [client_call EXCEPT
    ![t] = IF op \in IfNotExist /\ answer = "empty"
           THEN [@ EXCEPT !.request.op = CreateOf[op], !.attempt = 0, !.step = "wrap"]
           ELSE [@ EXCEPT !.answer = IF op \in IfNotExist /\ answer = "ok" THEN "exists" ELSE answer,
                          !.effects = effects, !.step = "done"]]

\* Mutant: one retry too many.
Retried_once_more(t, retryable, answer, effects) ==
  IF retryable /\ client_call[t].attempt <= Retries
  THEN client_call' = [client_call EXCEPT ![t].attempt = @ + 1, ![t].effects = effects]
  ELSE client_call' = [client_call EXCEPT ![t].answer = answer, ![t].effects = effects, ![t].step = "done"]

\* The same request again, if the method allows it and retries are left.
Retried(t, retryable, answer, effects) ==
  IF retryable /\ client_call[t].attempt < Retries
  THEN client_call' = [client_call EXCEPT ![t].attempt = @ + 1, ![t].effects = effects]
  ELSE client_call' = [client_call EXCEPT ![t].answer = answer, ![t].effects = effects, ![t].step = "done"]

\* One attempt.
session_request(t) ==
  LET c == client_call[t]
      method == HttpMethod(c.request.op)
      served == Served(c.request.op, method, c.path)
      effects == c.effects + (IF served.effect THEN 1 ELSE 0)
      applied == server' = [server EXCEPT !.objects = served.objects]
      untouched == UNCHANGED server
      Forced(n) == IF is_method_retryable(method) THEN Retried(t, TRUE, "RetryError", n)
                   ELSE CallAnswered(t, Validated(t, "500"), n)
  IN /\ c.step = "send"
     /\ \/ untouched /\ Retried(t, TRUE, "ConnectionError", c.effects)                    \* not connected
        \/ applied /\ CallAnswered(t, Validated(t, served.status), effects)                   \* answered
        \/ applied /\ Retried(t, is_method_retryable(method), "ReadError", effects)       \* answer lost
        \/ untouched /\ Retried(t, is_method_retryable(method), "ReadError", c.effects)   \* request lost
        \/ applied /\ Forced(effects)                                                     \* a 500, 502 or 504
        \/ untouched /\ Forced(c.effects)
        \/ served.status = "200" /\ applied /\ CallAnswered(t, Validated(t, "unparsable"), effects)
        \/ untouched /\ CallAnswered(t, Validated(t, "401"), c.effects)
     /\ UNCHANGED <<client_cfg, lazy_manager, stored_request>>

----------------------------------------------------------------------------
NewClientCall(r) == [request |-> r, asked |-> r, step |-> "idle", manager |-> NoManager,
                     path |-> [prefix |-> "", target |-> ""], attempt |-> 0, effects |-> 0, answer |-> "none"]

ClientInit ==
  /\ \E v \in ServerVersions : server = [version |-> v, objects |-> InitialObjects]
  /\ \E gs \in ConfiguredSpaces :
       client_cfg = [state |-> "unbuilt", graphspace |-> gs, gs_supported |-> FALSE, version |-> <<>>]
  /\ lazy_manager = NoManager
  /\ stored_request = [t \in ClientThreads |-> <<>>]
  /\ \E asked \in [ClientThreads -> ClientRequests] :
       client_call = [t \in ClientThreads |-> NewClientCall(asked[t])]

ClientNext ==
  \/ post_init
  \/ \E t \in ClientThreads :
       lazy_lookup(t) \/ lazy_build(t) \/ http_wrapper(t) \/ invoke_request(t) \/ session_request(t)

ClientSpec == ClientInit /\ [][ClientNext]_clientVars

----------------------------------------------------------------------------
\* Type correctness: retries stay within their bound and a stored request is there when it is used.
ClientTypeOK ==
  \A t \in ClientThreads :
    /\ client_call[t].attempt \in 0..Retries /\ client_call[t].effects \in 0..(Retries + 1)
    /\ client_call[t].step \in {"idle", "build", "wrap", "invoke", "send", "done"}
    /\ client_call[t].step = "invoke" =>
         client_call[t].request.op \in DOMAIN stored_request[client_call[t].manager]

\* HGraphSession retries for the caller, so a request can be received several times; a POST (an
\* insert, a Gremlin script, a schema creation, a task) takes effect at most once in a call, however
\* answers and connections are lost, and a write that returns normally took effect.
WritesTakeEffectOnce ==
  \A t \in ClientThreads :
    LET c == client_call[t] IN
    /\ HttpMethod(c.request.op) = "POST" => c.effects <= 1
    /\ c.answer = "ok" /\ HttpMethod(c.request.op) # "GET" /\ ClientMethods[c.request.op].scope # "vermeer" =>
         c.effects >= 1

\* Threads that share a client: a call that reads or changes graph data (GraphManager, the
\* traversers, the builders) is sent to the object it was called with, whatever the other threads
\* store on the same manager in between, and under the graphspace of the client.
DataCallsReachTheirTarget ==
  \A t \in ClientThreads :
    LET c == client_call[t] IN
    c.step \in {"send", "done"} /\ c.answer # "ValueError"
      /\ c.asked.op \in DataMethods \union IfNotExist =>
      c.path.target = c.asked.target
      /\ c.path.prefix = (IF client_cfg.gs_supported THEN client_cfg.graphspace ELSE "")
=============================================================================

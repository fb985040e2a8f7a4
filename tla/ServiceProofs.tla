---------------------------- MODULE ServiceProofs -----------------------------
(***************************************************************************)
(* Proofs about McpServer, for any number of concurrent calls, AI replicas *)
(* and graphs; and about GraphClient, for any number of threads that share *)
(* a client, any requests, server versions and number of retries.  The     *)
(* table of methods is used through MethodTable only.                      *)
(***************************************************************************)
EXTENDS McpServer, GraphClient, TLAPS

----------------------------------------------------------------------------
(* McpServer: the inductive invariant                                      *)

Goals == {"gate", "readonly", "guard", "use", "extract", "inspect", "schema"}
ToolCall == [tool : Tools \cup {"none"}, step : Steps, goal : Goals \cup {"none"},
             snapshot : Envs \cup {NoConfig}, cfg : Envs \cup {NoConfig},
             schema_of : McpGraphs \cup {NoConfig}, frozen : BOOLEAN,
             sent : {"no", "frozen", "allowed"}, answer : Answers]
Request == [call : McpCalls, expected : McpGraphs, checked : BOOLEAN]
Replica == [graph : McpGraphs, request : Request \cup {NoRequest}]

\* What call t has read is there when it is used.
Loads(t) ==
  /\ t.step \in {"read_graph", "read_flags", "parse"} => t.goal \in Goals
  /\ t.step \in {"read_flags", "parse"} => t.snapshot \in Envs
  /\ t.step \in {"discover", "post"} => t.cfg \in Envs

\* A call t that the environment e has frozen reads read-only flags, so that it
\* never gets past the second load of the admin gate.
Stopped(t, e) ==
  /\ t.frozen => /\ e.readonly
                 /\ t.goal \notin {"guard", "use"}
                 /\ t.step \notin {"discover", "post", "waiting"}
                 /\ t.step = "parse" => t.snapshot.readonly
  /\ t.sent # "frozen"

CallOK(t, e) == t \in ToolCall /\ Loads(t) /\ Stopped(t, e)

CallsOK == tool_call \in [McpCalls -> ToolCall] /\ \A c \in McpCalls : CallOK(tool_call[c], mcp_env)

\* What is cached was parsed from the snapshot that is its key.
CacheOK == config_cache # NoConfig =>
             config_cache \in [key : Envs, config : Envs] /\ config_cache.config = config_cache.key

\* A replica that has checked a request keeps the graph the request expects, as
\* the lock is held; what has run has run on that graph.
ReplicasOK ==
  /\ replica \in [Replicas -> Replica]
  /\ \A r \in Replicas : replica[r].request.checked => replica[r].request.expected = replica[r].graph
  /\ RefreshHitsExpectedGraph

ServerInv ==
  /\ mcp_env \in Envs
  /\ changes \in [env : 0 .. MaxEnvChanges, graph : 0 .. MaxReconfigs]
  /\ CallsOK /\ CacheOK /\ ReplicasOK

----------------------------------------------------------------------------
(* Steps of a call                                                         *)

\* One call's record is replaced by another one that is in order.
LEMMA CallReplaced ==
  ASSUME CallsOK, NEW c \in McpCalls, NEW x, CallOK(x, mcp_env),
         tool_call' = [tool_call EXCEPT ![c] = x], mcp_env' = mcp_env
  PROVE  CallsOK'
BY DEF CallsOK, CallOK

\* An answer ends the call.
LEMMA CallEnds ==
  ASSUME CallsOK, NEW c \in McpCalls, NEW a \in Answers, Answer(c, a), mcp_env' = mcp_env
  PROVE  CallsOK'
<1>. DEFINE x == [Idle EXCEPT !.step = "done", !.sent = tool_call[c].sent, !.answer = a]
<1>1. tool_call[c].sent \in {"no", "allowed"}
  BY DEF CallsOK, CallOK, Stopped, ToolCall
<1>2. x \in ToolCall /\ x.step = "done" /\ x.sent = tool_call[c].sent /\ x.frozen = FALSE
  BY <1>1 DEF Idle, ToolCall, Steps
<1>3. CallOK(x, mcp_env)
  <2>. HIDE DEF x
  <2>. QED  BY <1>1, <1>2 DEF CallOK, Loads, Stopped
<1>. QED  BY <1>3, CallReplaced DEF Answer

\* A call begins to load the configuration for some goal.
LEMMA LoadBegins ==
  ASSUME NEW t, NEW e, CallOK(t, e), NEW goal \in Goals,
         t.frozen => goal \notin {"guard", "use"}
  PROVE  LoadFor(goal, t) \in ToolCall /\ CallOK(LoadFor(goal, t), e)
<1>. DEFINE x == LoadFor(goal, t)
<1>1. /\ x \in ToolCall /\ x.step = "read_graph" /\ x.goal = goal
      /\ x.frozen = t.frozen /\ x.sent = t.sent
  BY DEF CallOK, ToolCall, LoadFor, Steps
<1>. HIDE DEF x
<1>2. CallOK(x, e)
  BY <1>1 DEF CallOK, Loads, Stopped
<1>. QED  BY <1>1, <1>2 DEF x

\* from_env returns what the call itself has read, whether it finds it in the cache
\* or parses it, and leaves a cache in order.
LEMMA LoadedIsSnapshot ==
  ASSUME CacheOK, NEW c \in McpCalls, tool_call[c].snapshot \in Envs, config_cache' = Cached(c)
  PROVE  Loaded(c) = tool_call[c].snapshot /\ CacheOK'
<1>1. Loaded(c) = tool_call[c].snapshot
  BY DEF CacheOK, Loaded, parsed
<1>2. CASE config_cache' = config_cache
  BY <1>1, <1>2 DEF CacheOK
<1>3. CASE config_cache' = [key |-> tool_call[c].snapshot, config |-> tool_call[c].snapshot]
  BY <1>1, <1>3 DEF CacheOK
<1>. QED  BY <1>1, <1>2, <1>3 DEF Cached, parsed

\* The seven places a configuration is loaded for: every one of them leaves the
\* call in order.
LEMMA ConfigUsed ==
  ASSUME ServerInv, NEW c \in McpCalls, UseConfig(c)
  PROVE  CallsOK' /\ CacheOK'
<1>. DEFINE t == tool_call[c]
            cfg == t.snapshot
<1>1. /\ CallsOK /\ t \in ToolCall /\ CallOK(t, mcp_env) /\ t.step = "parse"
      /\ t.goal \in Goals /\ cfg \in Envs /\ (t.frozen => cfg.readonly)
      /\ mcp_env' = mcp_env /\ config_cache' = Cached(c)
  BY DEF ServerInv, CallsOK, CallOK, Loads, Stopped, UseConfig, Others
<1>2. Loaded(c) = cfg /\ CacheOK'
  BY <1>1, LoadedIsSnapshot DEF ServerInv
<1>3. ASSUME NEW a \in Answers, Answer(c, a) PROVE CallsOK'
  BY <1>1, <1>3, CallEnds
<1>4. ASSUME NEW goal \in Goals, t.frozen => goal \notin {"guard", "use"},
             tool_call' = [tool_call EXCEPT ![c] = LoadFor(goal, @)]
      PROVE  CallsOK'
  <2>1. CallOK(LoadFor(goal, t), mcp_env)
    BY <1>1, <1>4, LoadBegins
  <2>2. tool_call' = [tool_call EXCEPT ![c] = LoadFor(goal, t)]
    BY <1>4
  <2>. QED  BY <1>1, <2>1, <2>2, CallReplaced
<1>5. ASSUME NEW goal \in Goals, goal \notin {"guard", "use"},
             tool_call' = [tool_call EXCEPT ![c] = [LoadFor(goal, @) EXCEPT !.cfg = cfg]]
      PROVE  CallsOK'
  <2>. DEFINE y == LoadFor(goal, t)
              x == [y EXCEPT !.cfg = cfg]
  <2>1. y \in ToolCall /\ CallOK(y, mcp_env) /\ y.step = "read_graph"
    <3>1. y \in ToolCall /\ CallOK(y, mcp_env)
      BY <1>1, <1>5, LoadBegins
    <3>2. y.step = "read_graph"
      BY <1>1 DEF LoadFor, ToolCall
    <3>. QED  BY <3>1, <3>2
  <2>2. tool_call' = [tool_call EXCEPT ![c] = x]
    BY <1>5
  <2>. HIDE DEF y
  <2>3. /\ x \in ToolCall /\ x.step = y.step /\ x.goal = y.goal /\ x.snapshot = y.snapshot
        /\ x.frozen = y.frozen /\ x.sent = y.sent
    BY <1>1, <2>1 DEF ToolCall
  <2>. HIDE DEF x
  <2>4. CallOK(x, mcp_env)
    BY <2>1, <2>3 DEF CallOK, Loads, Stopped
  <2>. QED  BY <1>1, <2>2, <2>4, CallReplaced
<1>. SUFFICES CallsOK'
  BY <1>2
<1>6. CASE t.goal = "gate"
  <2>1. _is_admin_mode_enabled(c, cfg)
    BY <1>2, <1>6 DEF UseConfig
  <2>. QED  BY <1>3, <1>4, <2>1 DEF _is_admin_mode_enabled, Goals, Answers
<1>7. CASE t.goal = "readonly"
  <2>1. _admin_gate(c, cfg)
    BY <1>2, <1>7 DEF UseConfig
  <2>. QED  BY <1>1, <1>3, <1>4, <2>1 DEF _admin_gate, Goals, Answers
<1>8. t.goal \in {"guard", "use"} => ~t.frozen
  BY <1>1 DEF CallOK, Stopped
<1>9. CASE t.goal = "guard"
  <2>1. guard(c, cfg)
    BY <1>2, <1>9 DEF UseConfig
  <2>. QED  BY <1>3, <1>4, <1>8, <1>9, <2>1 DEF guard, Goals, Answers
<1>10. CASE t.goal = "use"
  <2>1. ai_call(c, cfg, "discover")
    BY <1>2, <1>10 DEF UseConfig
  <2>2. CASE Answer(c, "feature_disabled")
    BY <1>3, <2>2 DEF Answers
  <2>3. CASE ~Answer(c, "feature_disabled")
    <3>. DEFINE x == [t EXCEPT !.step = "discover", !.cfg = cfg, !.snapshot = NoConfig]
    <3>1. tool_call' = [tool_call EXCEPT ![c] = x]
      BY <1>1, <2>1, <2>3 DEF ai_call, CallsOK
    <3>2. /\ x \in ToolCall /\ x.step = "discover" /\ x.cfg = cfg
          /\ x.frozen = t.frozen /\ x.sent = t.sent
      BY <1>1 DEF ToolCall, Steps
    <3>. HIDE DEF x
    <3>3. CallOK(x, mcp_env)
      BY <1>1, <1>8, <1>10, <3>2 DEF CallOK, Loads, Stopped
    <3>. QED  BY <1>1, <3>1, <3>3, CallReplaced
  <2>. QED  BY <2>2, <2>3
<1>11. CASE t.goal = "extract"
  <2>1. extract_graph_data(c, cfg)
    BY <1>2, <1>11 DEF UseConfig
  <2>. QED  BY <1>3, <1>5, <2>1 DEF extract_graph_data, Goals, Answers
<1>12. CASE t.goal = "inspect"
  <2>1. inspect_graph(c, cfg)
    BY <1>2, <1>12 DEF UseConfig
  <2>. QED  BY <1>5, <2>1 DEF inspect_graph, Goals
<1>13. CASE t.goal = "schema"
  <2>1. get_live_schema(c, cfg)
    BY <1>2, <1>13 DEF UseConfig
  <2>2. CASE Answer(c, "ok") \/ Answer(c, "unavailable")
    BY <1>3, <2>2 DEF Answers
  <2>3. CASE ~(Answer(c, "ok") \/ Answer(c, "unavailable"))
    <3>. DEFINE x == [t EXCEPT !.schema_of = cfg.graph, !.step = "schema", !.snapshot = NoConfig]
    <3>1. tool_call' = [tool_call EXCEPT ![c] = x]
      BY <1>1, <2>1, <2>3 DEF get_live_schema, CallsOK
    <3>2. /\ x \in ToolCall /\ x.step = "schema" /\ x.goal = t.goal
          /\ x.frozen = t.frozen /\ x.sent = t.sent
      BY <1>1 DEF ToolCall, Steps, Envs
    <3>. HIDE DEF x
    <3>3. CallOK(x, mcp_env)
      BY <1>1, <3>2 DEF CallOK, Loads, Stopped
    <3>. QED  BY <1>1, <3>1, <3>3, CallReplaced
  <2>. QED  BY <2>2, <2>3
<1>. QED  BY <1>1, <1>6, <1>7, <1>9, <1>10, <1>11, <1>12, <1>13 DEF Goals

\* The other steps of a call: it is made, reads the environment, asks a replica
\* for its version and gives up waiting.
LEMMA ServerCallSteps ==
  ASSUME ServerInv, NEW c \in McpCalls,
         \/ \E t \in Tools : CallTool(c, t)
         \/ environment_snapshot(c) \/ AfterSchema(c) \/ discover(c) \/ Timeout(c)
  PROVE  CallsOK' /\ UNCHANGED <<config_cache, Others>>
<1>. DEFINE t == tool_call[c]
<1>1. /\ CallsOK /\ t \in ToolCall /\ CallOK(t, mcp_env) /\ mcp_env \in Envs
      /\ UNCHANGED <<config_cache, Others>> /\ mcp_env' = mcp_env
  BY DEF ServerInv, CallsOK, CallTool, environment_snapshot, AfterSchema, discover, Timeout, Others
<1>. SUFFICES CallsOK'
  BY <1>1
<1>2. ASSUME NEW a \in Answers, Answer(c, a) PROVE CallsOK'
  BY <1>1, <1>2, CallEnds
<1>3. CASE \E k \in Tools : CallTool(c, k)
  <2>1. PICK k \in Tools : CallTool(c, k)
    BY <1>3
  <2>. DEFINE called == [Idle EXCEPT !.tool = k, !.frozen = mcp_env.readonly]
              refused == [Idle EXCEPT !.step = "done", !.answer = "feature_disabled"]
  <2>2. CallOK(called, mcp_env)
    <3>1. /\ called \in ToolCall /\ called.step = "idle" /\ called.goal = "none"
          /\ called.frozen = mcp_env.readonly /\ called.sent = "no"
      BY <1>1 DEF Idle, ToolCall, Steps, Answers, Envs
    <3>. HIDE DEF called
    <3>. QED  BY <3>1 DEF CallOK, Loads, Stopped
  <2>3. CallOK(refused, mcp_env)
    <3>1. /\ refused \in ToolCall /\ refused.step = "done" /\ ~refused.frozen
          /\ refused.sent = "no"
      BY DEF Idle, ToolCall, Steps, Answers
    <3>. HIDE DEF refused
    <3>. QED  BY <3>1 DEF CallOK, Loads, Stopped
  <2>4. tool_call' = [tool_call EXCEPT ![c] =
          IF k \in DOMAIN FirstLoad THEN LoadFor(FirstLoad[k], called) ELSE refused]
    BY <2>1 DEF CallTool
  <2>. HIDE DEF called, refused
  <2>5. CASE k \in DOMAIN FirstLoad
    <3>1. FirstLoad[k] \in Goals /\ FirstLoad[k] \notin {"guard", "use"}
      BY <2>5 DEF FirstLoad, Goals
    <3>2. CallOK(LoadFor(FirstLoad[k], called), mcp_env)
      BY <2>2, <3>1, LoadBegins
    <3>. QED  BY <1>1, <2>4, <2>5, <3>2, CallReplaced
  <2>6. CASE k \notin DOMAIN FirstLoad
    BY <1>1, <2>3, <2>4, <2>6, CallReplaced
  <2>. QED  BY <2>5, <2>6
<1>4. CASE environment_snapshot(c)
  <2>1. CASE t.step = "read_graph"
    <3>. DEFINE x == [t EXCEPT !.step = "read_flags", !.snapshot = mcp_env]
    <3>1. tool_call' = [tool_call EXCEPT ![c] = x]
      BY <1>1, <1>4, <2>1 DEF environment_snapshot, CallsOK
    <3>2. /\ x \in ToolCall /\ x.step = "read_flags" /\ x.snapshot = mcp_env /\ x.goal = t.goal
          /\ x.frozen = t.frozen /\ x.sent = t.sent
      BY <1>1 DEF ToolCall, Steps
    <3>. HIDE DEF x
    <3>3. CallOK(x, mcp_env)
      BY <1>1, <2>1, <3>2 DEF CallOK, Loads, Stopped
    <3>. QED  BY <1>1, <3>1, <3>3, CallReplaced
  <2>2. CASE t.step = "read_flags"
    <3>. DEFINE s == [mcp_env EXCEPT !.graph = t.snapshot.graph]
                x == [t EXCEPT !.step = "parse", !.snapshot = s]
    <3>1. tool_call' = [tool_call EXCEPT ![c] = x]
      BY <1>1, <1>4, <2>2 DEF environment_snapshot, CallsOK
    <3>2. s \in Envs /\ s.readonly = mcp_env.readonly
      <4>1. t.snapshot \in Envs
        BY <1>1, <2>2 DEF CallOK, Loads
      <4>. QED  BY <1>1, <4>1 DEF Envs
    <3>. HIDE DEF s
    <3>3. /\ x \in ToolCall /\ x.step = "parse" /\ x.snapshot = s /\ x.goal = t.goal
          /\ x.frozen = t.frozen /\ x.sent = t.sent
      BY <1>1, <3>2 DEF ToolCall, Steps
    <3>. HIDE DEF x
    <3>4. CallOK(x, mcp_env)
      BY <1>1, <2>2, <3>2, <3>3 DEF CallOK, Loads, Stopped
    <3>. QED  BY <1>1, <3>1, <3>4, CallReplaced
  <2>. QED  BY <1>4, <2>1, <2>2 DEF environment_snapshot
<1>5. CASE AfterSchema(c) \/ Timeout(c)
  BY <1>2, <1>5 DEF AfterSchema, Timeout, Answers
<1>6. CASE discover(c)
  <2>1. CASE Answer(c, "feature_disabled") \/ Answer(c, "unavailable")
    BY <1>2, <2>1 DEF Answers
  <2>2. CASE tool_call' = [tool_call EXCEPT ![c].step = "post"]
    <3>. DEFINE x == [t EXCEPT !.step = "post"]
    <3>1. tool_call' = [tool_call EXCEPT ![c] = x] /\ t.step = "discover"
      BY <1>1, <1>6, <2>2 DEF CallsOK, discover
    <3>2. /\ x \in ToolCall /\ x.step = "post" /\ x.cfg = t.cfg
          /\ x.frozen = t.frozen /\ x.sent = t.sent
      BY <1>1 DEF ToolCall, Steps
    <3>. HIDE DEF x
    <3>3. CallOK(x, mcp_env)
      BY <1>1, <3>1, <3>2 DEF CallOK, Loads, Stopped
    <3>. QED  BY <1>1, <3>1, <3>3, CallReplaced
  <2>. QED  BY <1>6, <2>1, <2>2 DEF discover
<1>. QED  BY <1>3, <1>4, <1>5, <1>6

\* A change of the environment thaws the calls it makes writable again and freezes
\* none.
LEMMA EnvChanged ==
  ASSUME ServerInv, NEW e \in Envs, SetEnv(e)
  PROVE  CallsOK'
<1>1. \A c \in McpCalls : tool_call[c] \in ToolCall /\ CallOK(tool_call[c], mcp_env)
  BY DEF ServerInv, CallsOK
<1>2. ASSUME NEW c \in McpCalls
      PROVE  tool_call'[c] \in ToolCall /\ CallOK(tool_call'[c], e)
  <2>. DEFINE t == tool_call[c]
              x == [t EXCEPT !.frozen = t.frozen /\ e.readonly]
  <2>1. tool_call'[c] = x
    BY DEF SetEnv
  <2>2. t.frozen \in BOOLEAN /\ e.readonly \in BOOLEAN
    BY <1>1 DEF ToolCall, Envs
  <2>3. (t.frozen /\ e.readonly) \in BOOLEAN
    BY <2>2
  <2>4. /\ x \in ToolCall /\ x.frozen = (t.frozen /\ e.readonly)
        /\ x.step = t.step /\ x.goal = t.goal /\ x.snapshot = t.snapshot /\ x.cfg = t.cfg
        /\ x.sent = t.sent
    BY <1>1, <2>3 DEF ToolCall
  <2>5. x.frozen => t.frozen /\ e.readonly
    BY <2>4
  <2>. HIDE DEF x
  <2>6. CallOK(x, e)
    BY <1>1, <2>4, <2>5 DEF CallOK, Loads, Stopped
  <2>. QED  BY <2>1, <2>4, <2>6
<1>3. tool_call' \in [McpCalls -> ToolCall]
  <2>1. tool_call' = [c \in McpCalls |-> tool_call'[c]]
    BY DEF SetEnv
  <2>. QED  BY <1>2, <2>1
<1>. QED  BY <1>2, <1>3 DEF CallsOK, SetEnv

----------------------------------------------------------------------------
(* Steps of a replica                                                      *)

\* One replica's record is replaced by another one that is in order.
LEMMA ReplicaReplaced ==
  ASSUME ReplicasOK, NEW r \in Replicas, NEW x \in Replica,
         x.request.checked => x.request.expected = x.graph,
         replica' = [replica EXCEPT ![r] = x], RefreshHitsExpectedGraph'
  PROVE  ReplicasOK'
BY DEF ReplicasOK

\* The end of a request frees the replica.
LEMMA RequestEnds ==
  ASSUME ReplicasOK, NEW r \in Replicas,
         replica' = [replica EXCEPT ![r].request = NoRequest], RefreshHitsExpectedGraph'
  PROVE  ReplicasOK'
<1>. DEFINE x == [replica[r] EXCEPT !.request = NoRequest]
<1>1. replica[r] \in Replica
  BY DEF ReplicasOK
<1>2. x \in Replica /\ x.request = NoRequest
  BY <1>1 DEF Replica
<1>3. replica' = [replica EXCEPT ![r] = x]
  BY DEF ReplicasOK
<1>4. ~x.request.checked
  BY <1>2 DEF NoRequest
<1>. HIDE DEF x
<1>. QED  BY <1>2, <1>3, <1>4, ReplicaReplaced

\* A call sends its refresh: it is not frozen, and the request names the graph of
\* the configuration the call has loaded.
LEMMA RefreshPosted ==
  ASSUME ServerInv, NEW c \in McpCalls, post_refresh(c)
  PROVE  CallsOK' /\ ReplicasOK'
<1>. DEFINE t == tool_call[c]
<1>1. /\ CallsOK /\ ReplicasOK /\ t \in ToolCall /\ CallOK(t, mcp_env) /\ t.step = "post"
      /\ t.cfg \in Envs /\ ~t.frozen /\ UNCHANGED <<mcp_env, refreshed>>
      /\ RefreshHitsExpectedGraph'
  BY DEF ServerInv, CallsOK, CallOK, Loads, Stopped, post_refresh, ReplicasOK, RefreshHitsExpectedGraph
<1>2. CASE UNCHANGED replica /\ (Answer(c, "feature_disabled") \/ Answer(c, "unavailable"))
  <2>1. CallsOK'
    BY <1>1, <1>2, CallEnds DEF Answers
  <2>. QED  BY <1>1, <1>2, <2>1 DEF ReplicasOK
<1>3. CASE ~(UNCHANGED replica /\ (Answer(c, "feature_disabled") \/ Answer(c, "unavailable")))
  <2>1. PICK r \in Replicas :
          /\ tool_call' = [tool_call EXCEPT ![c].step = "waiting", ![c].sent = Sent(c)]
          /\ replica' = [replica EXCEPT ![r].request =
               [call |-> c, expected |-> t.cfg.graph, checked |-> FALSE]]
    BY <1>3 DEF post_refresh
  <2>2. CallsOK'
    <3>. DEFINE x == [t EXCEPT !.step = "waiting", !.sent = "allowed"]
    <3>1. tool_call' = [tool_call EXCEPT ![c] = x]
      BY <1>1, <2>1 DEF CallsOK, Sent
    <3>2. x \in ToolCall /\ x.step = "waiting" /\ x.sent = "allowed" /\ x.frozen = t.frozen
      BY <1>1 DEF ToolCall, Steps
    <3>. HIDE DEF x
    <3>3. CallOK(x, mcp_env)
      BY <1>1, <3>2 DEF CallOK, Loads, Stopped
    <3>. QED  BY <1>1, <3>1, <3>3, CallReplaced
  <2>3. ReplicasOK'
    <3>. DEFINE q == [call |-> c, expected |-> t.cfg.graph, checked |-> FALSE]
                x == [replica[r] EXCEPT !.request = q]
    <3>1. q \in Request /\ ~q.checked
      BY <1>1 DEF Request, Envs
    <3>2. replica[r] \in Replica /\ replica' = [replica EXCEPT ![r] = x]
      BY <1>1, <2>1 DEF ReplicasOK
    <3>. HIDE DEF q
    <3>3. x \in Replica /\ x.request = q
      BY <3>1, <3>2 DEF Replica
    <3>. HIDE DEF x
    <3>. QED  BY <1>1, <3>1, <3>2, <3>3, ReplicaReplaced
  <2>. QED  BY <2>2, <2>3
<1>. QED  BY <1>2, <1>3

\* A replica refuses, checks or runs a request, or is reconfigured: the check and
\* the run see one graph.
LEMMA ReplicaSteps ==
  ASSUME ServerInv, NEW r \in Replicas,
         thin_write_disabled(r) \/ validate_target(r) \/ run_flow(r) \/ reconfigure(r)
  PROVE  CallsOK' /\ ReplicasOK'
<1>. DEFINE R == replica[r]
            q == R.request
<1>1. /\ CallsOK /\ ReplicasOK /\ mcp_env' = mcp_env
      /\ R \in Replica /\ (q # NoRequest => q \in Request)
      /\ q.checked => q.expected = R.graph
  BY DEF ServerInv, ReplicasOK, Replica, thin_write_disabled, validate_target, run_flow, reconfigure
<1>2. ASSUME NEW c \in McpCalls, NEW a \in Answers, Reply(c, a) PROVE CallsOK'
  <2>1. CASE Answer(c, a)
    BY <1>1, <2>1, CallEnds
  <2>2. CASE UNCHANGED tool_call
    BY <1>1, <2>2 DEF CallsOK
  <2>. QED  BY <1>2, <2>1, <2>2 DEF Reply
<1>3. UNCHANGED tool_call => CallsOK'
  BY <1>1 DEF CallsOK
<1>4. UNCHANGED refreshed => RefreshHitsExpectedGraph'
  BY <1>1 DEF ReplicasOK, RefreshHitsExpectedGraph
<1>5. q # NoRequest => q.call \in McpCalls
  BY <1>1 DEF Request
<1>6. CASE thin_write_disabled(r)
  <2>1. CallsOK'
    BY <1>2, <1>5, <1>6 DEF thin_write_disabled, Answers
  <2>2. ReplicasOK'
    BY <1>1, <1>4, <1>6, RequestEnds DEF thin_write_disabled
  <2>. QED  BY <2>1, <2>2
<1>7. CASE validate_target(r)
  <2>1. CASE q.expected = R.graph
    <3>. DEFINE p == [q EXCEPT !.checked = TRUE]
                x == [R EXCEPT !.request = p]
    <3>1. /\ replica' = [replica EXCEPT ![r].request.checked = TRUE]
          /\ UNCHANGED <<tool_call, refreshed>> /\ q # NoRequest
      BY <1>7, <2>1 DEF validate_target
    <3>2. p \in Request /\ p.expected = R.graph
      BY <1>1, <2>1, <3>1 DEF Request
    <3>3. replica' = [replica EXCEPT ![r] = x]
      BY <1>1, <3>1 DEF ReplicasOK
    <3>. HIDE DEF p
    <3>4. x \in Replica /\ x.request = p /\ x.graph = R.graph
      BY <1>1, <3>2 DEF Replica
    <3>. HIDE DEF x
    <3>5. ReplicasOK'
      BY <1>1, <1>4, <3>1, <3>2, <3>3, <3>4, ReplicaReplaced
    <3>. QED  BY <1>3, <3>1, <3>5
  <2>2. CASE q.expected # R.graph
    <3>1. CallsOK'
      BY <1>2, <1>5, <1>7, <2>2 DEF validate_target, Answers
    <3>2. ReplicasOK'
      BY <1>1, <1>4, <1>7, <2>2, RequestEnds DEF validate_target
    <3>. QED  BY <3>1, <3>2
  <2>. QED  BY <2>1, <2>2
<1>8. CASE run_flow(r)
  <2>1. CallsOK'
    BY <1>2, <1>5, <1>8 DEF run_flow, Answers
  <2>2. RefreshHitsExpectedGraph'
    <3>1. /\ q.expected = R.graph
          /\ refreshed' = refreshed \union {[call |-> q.call, graph |-> R.graph, expected |-> q.expected]}
      BY <1>1, <1>8 DEF run_flow
    <3>. QED  BY <1>1, <3>1 DEF ReplicasOK, RefreshHitsExpectedGraph
  <2>3. ReplicasOK'
    BY <1>1, <1>8, <2>2, RequestEnds DEF run_flow
  <2>. QED  BY <2>1, <2>3
<1>9. CASE reconfigure(r)
  <2>1. PICK g \in McpGraphs : replica' = [replica EXCEPT ![r].graph = g]
    BY <1>9 DEF reconfigure
  <2>. DEFINE x == [R EXCEPT !.graph = g]
  <2>2. x \in Replica /\ x.request = q /\ ~q.checked
    BY <1>1, <1>9 DEF Replica, reconfigure
  <2>3. replica' = [replica EXCEPT ![r] = x] /\ UNCHANGED <<tool_call, refreshed>>
    BY <1>1, <1>9, <2>1 DEF ReplicasOK, reconfigure
  <2>. HIDE DEF x
  <2>4. ReplicasOK'
    BY <1>1, <1>4, <2>2, <2>3, ReplicaReplaced
  <2>. QED  BY <1>3, <2>3, <2>4
<1>. QED  BY <1>6, <1>7, <1>8, <1>9

----------------------------------------------------------------------------
(* Results                                                                 *)

\* Every step keeps the invariant.
LEMMA ServerSteps ==
  ASSUME ServerInv, [ServerNext]_serverVars
  PROVE  ServerInv'
<1>1. ASSUME NEW e \in Envs, SetEnv(e) PROVE ServerInv'
  <2>1. changes' \in [env : 0 .. MaxEnvChanges, graph : 0 .. MaxReconfigs]
    BY <1>1, ServerAssumption DEF ServerInv, SetEnv
  <2>2. mcp_env' \in Envs /\ CacheOK' /\ ReplicasOK'
    BY <1>1 DEF SetEnv, ServerInv, CacheOK, ReplicasOK, RefreshHitsExpectedGraph
  <2>. QED  BY <1>1, <2>1, <2>2, EnvChanged DEF ServerInv
<1>2. UNCHANGED <<config_cache, replica, refreshed>> => CacheOK' /\ ReplicasOK'
  BY DEF ServerInv, CacheOK, ReplicasOK, RefreshHitsExpectedGraph
<1>3. ASSUME NEW c \in McpCalls,
             \/ \E t \in Tools : CallTool(c, t)
             \/ environment_snapshot(c) \/ AfterSchema(c) \/ discover(c) \/ Timeout(c)
      PROVE  ServerInv'
  BY <1>2, <1>3, ServerCallSteps DEF Others, ServerInv
<1>4. ASSUME NEW c \in McpCalls, UseConfig(c) PROVE ServerInv'
  <2>1. UNCHANGED <<mcp_env, replica, refreshed, changes>>
    BY <1>4 DEF UseConfig, Others
  <2>2. CallsOK' /\ CacheOK'
    BY <1>4, ConfigUsed
  <2>3. ReplicasOK'
    BY <2>1 DEF ServerInv, ReplicasOK, RefreshHitsExpectedGraph
  <2>. QED  BY <2>1, <2>2, <2>3 DEF ServerInv
<1>5. ASSUME NEW c \in McpCalls, post_refresh(c) PROVE ServerInv'
  <2>1. UNCHANGED <<mcp_env, config_cache, changes>>
    BY <1>5 DEF post_refresh
  <2>2. CacheOK'
    BY <2>1 DEF ServerInv, CacheOK
  <2>. QED  BY <1>5, <2>1, <2>2, RefreshPosted DEF ServerInv
<1>6. ASSUME NEW r \in Replicas,
             thin_write_disabled(r) \/ validate_target(r) \/ run_flow(r) \/ reconfigure(r)
      PROVE  ServerInv'
  <2>1. UNCHANGED <<mcp_env, config_cache>>
    BY <1>6 DEF thin_write_disabled, validate_target, run_flow, reconfigure
  <2>2. CacheOK'
    BY <2>1 DEF ServerInv, CacheOK
  <2>3. changes' \in [env : 0 .. MaxEnvChanges, graph : 0 .. MaxReconfigs]
    <3>1. \/ changes' = changes
          \/ changes.graph < MaxReconfigs /\ changes' = [changes EXCEPT !.graph = @ + 1]
      BY <1>6 DEF thin_write_disabled, validate_target, run_flow, reconfigure
    <3>. QED  BY <3>1, ServerAssumption DEF ServerInv
  <2>. QED  BY <1>6, <2>1, <2>2, <2>3, ReplicaSteps DEF ServerInv
<1>7. CASE UNCHANGED serverVars
  BY <1>2, <1>7 DEF serverVars, ServerInv, CallsOK
<1>. QED  BY <1>1, <1>3, <1>4, <1>5, <1>6, <1>7 DEF ServerNext

\* The invariant holds from the start.
LEMMA ServerInvariant == ServerSpec => []ServerInv
<1>1. ServerInit => ServerInv
  <2>. SUFFICES ASSUME ServerInit PROVE ServerInv
    OBVIOUS
  <2>1. Idle \in ToolCall /\ Idle.step = "idle" /\ ~Idle.frozen /\ Idle.sent = "no"
    BY DEF Idle, ToolCall, Steps, Answers
  <2>2. CallsOK
    BY <2>1 DEF ServerInit, CallsOK, CallOK, Loads, Stopped
  <2>3. ReplicasOK
    BY DEF ServerInit, ReplicasOK, Replica, NoRequest, RefreshHitsExpectedGraph
  <2>. QED  BY <2>2, <2>3, ServerAssumption DEF ServerInit, ServerInv, CacheOK
<1>. QED  BY <1>1, ServerSteps, PTL DEF ServerSpec

\* The server's state keeps its types.
THEOREM ServerTypeCorrect == ServerSpec => []ServerTypeOK
<1>1. ServerInv => ServerTypeOK
  BY DEF ServerInv, ServerTypeOK, CacheOK, CallsOK, ToolCall, ReplicasOK, Replica
<1>. QED  BY <1>1, ServerInvariant, PTL

\* Whatever the other calls have loaded and cached under earlier environments, and
\* although a call loads its configuration four times on the way to the AI service,
\* a call made under a read-only environment that stays so sends no write: the
\* admin gate's second load is enough.
THEOREM FrozenSendsNothing == ServerSpec => []FrozenServerSendsNoWrite
<1>1. ServerInv => FrozenServerSendsNoWrite
  BY DEF ServerInv, CallsOK, CallOK, Stopped, FrozenServerSendsNoWrite
<1>. QED  BY <1>1, ServerInvariant, PTL

\* A refresh runs on the graph its request names: the check and the run are in one
\* critical section of runtime_config_lock, and an old replica is never asked.
THEOREM RefreshesHitTheirGraph == ServerSpec => []RefreshHitsExpectedGraph
<1>1. ServerInv => RefreshHitsExpectedGraph
  BY DEF ServerInv, ReplicasOK
<1>. QED  BY <1>1, ServerInvariant, PTL

----------------------------------------------------------------------------
(* GraphClient: the inductive invariant                                    *)

Ops == {r.op : r \in ClientRequests} \union Creates
Targets == {r.target : r \in ClientRequests} \union {""}
Spaces == {r.space : r \in ClientRequests} \union ConfiguredSpaces \union {"", "DEFAULT"}
ClientAnswers == {"none", "ok", "empty", "exists", "ValueError", "ConnectionError", "ReadError", "RetryError",
            "ResponseParseError", "JsonDecodeError", "NotFoundError", "NotAuthorizedError", "ServerError"}

RequestType == [op : Ops, target : Targets, space : Spaces]
PathType == [prefix : Spaces, target : Targets]
CfgType == [state : {"unbuilt", "built", "raised"}, graphspace : Spaces, gs_supported : BOOLEAN,
            version : ServerVersions \union {<<>>}]
CallSteps == {"idle", "build", "wrap", "invoke", "send", "done"}
CallType == [request : RequestType, asked : ClientRequests, step : CallSteps,
             manager : ClientThreads \cup {NoManager}, path : PathType, attempt : 0 .. Retries,
             effects : 0 .. (Retries + 1), answer : ClientAnswers]

\* Whether c's method builds its path itself.
Local(c) == ClientMethods[c.request.op].path = "local"

\* A call's request is the one it was asked for, or the create that follows an
\* ifNotExist.
SameCall(c) ==
  \/ c.request = c.asked
  \/ c.asked.op \in IfNotExist /\ c.request = [c.asked EXCEPT !.op = CreateOf[c.asked.op]]

\* The path of a call is that of its own request, or that of another request of the
\* same method, which its thread or another one has stored.
HasPath(c) ==
  \/ c.path = Path(c.request)
  \/ /\ ~Local(c)
     /\ \E r \in ClientRequests : r.op = c.request.op /\ c.path = Path(r)

\* How often a call that is still under way has changed the server: at most once
\* per attempt, and not yet if its method is not sent again.
Effects(c) ==
  /\ c.step # "done" => /\ c.effects <= c.attempt /\ c.answer = "none"
                        /\ HttpMethod(c.request.op) \in {"GET", "POST"} => c.effects = 0
  /\ c.step \in {"idle", "build", "wrap", "invoke"} => c.attempt = 0
  /\ HttpMethod(c.request.op) = "POST" => c.effects <= 1
  /\ c.answer = "ok" /\ HttpMethod(c.request.op) # "GET" /\ ClientMethods[c.request.op].scope # "vermeer" =>
       c.effects >= 1

InOrder(c) ==
  /\ SameCall(c)
  /\ Effects(c)
  /\ c.step # "idle" => client_cfg.state = "built"
  /\ c.step \notin {"idle", "build"} => lazy_manager \in ClientThreads
  /\ c.step = "invoke" => /\ c.manager \in ClientThreads /\ ~Local(c)
                          /\ c.request.op \in DOMAIN stored_request[c.manager]
  /\ c.step = "send" \/ (c.step = "done" /\ c.answer # "ValueError") => HasPath(c)

\* What is stored under a method's name is the path of a request of that method.
StoredOK ==
  /\ client_cfg.state # "built" => \A m \in ClientThreads : DOMAIN stored_request[m] = {}
  /\ \A m \in ClientThreads : \A op \in DOMAIN stored_request[m] :
       \E r \in ClientRequests : r.op = op /\ stored_request[m][op] = Path(r)

ClientTyped ==
  /\ "version" \in DOMAIN server /\ server.version \in ServerVersions
  /\ client_cfg \in CfgType
  /\ lazy_manager \in ClientThreads \cup {NoManager}
  /\ DOMAIN stored_request = ClientThreads
  /\ client_call \in [ClientThreads -> CallType]

ClientInv == ClientTyped /\ StoredOK /\ \A t \in ClientThreads : InOrder(client_call[t])

----------------------------------------------------------------------------
(* Paths and methods                                                       *)

\* The requests of the callers are requests.
LEMMA AskedTyped == ClientRequests \subseteq RequestType
<1>. SUFFICES ASSUME NEW r \in ClientRequests PROVE r \in RequestType
  OBVIOUS
<1>1. r = [op |-> r.op, target |-> r.target, space |-> r.space]
  BY ClientAssumption
<1>2. r.op \in Ops /\ r.target \in Targets /\ r.space \in Spaces
  BY DEF Ops, Targets, Spaces
<1>. QED  BY <1>1, <1>2 DEF RequestType

\* The path of a request.
LEMMA PathIs ==
  ASSUME client_cfg \in CfgType, NEW r \in RequestType
  PROVE  /\ Path(r) \in PathType
         /\ Path(r).target = r.target
         /\ ClientMethods[r.op].scope = "graph" =>
              Path(r).prefix = IF client_cfg.gs_supported THEN client_cfg.graphspace ELSE ""
<1>1. "" \in Spaces
  BY DEF Spaces
<1>. QED  BY <1>1 DEF Path, PathType, CfgType, RequestType

\* The methods of builders.
LEMMA BuilderMethods ==
  ASSUME NEW op
  PROVE  /\ op \in IfNotExist => HttpMethod(op) = "GET" /\ CreateOf[op] \in Creates
         /\ op \in Creates => HttpMethod(op) = "POST"
BY MethodTable DEF HttpMethod, Get, Method

\* A call that is sent again, is answered, or goes on from ifNotExist to create.
Again(t, n) ==
  /\ client_call[t].attempt < Retries
  /\ HttpMethod(client_call[t].request.op) # "POST" \/ n = client_call[t].effects
  /\ client_call' = [client_call EXCEPT ![t] =
       [client_call[t] EXCEPT !.attempt = client_call[t].attempt + 1, !.effects = n]]

Over(t, a, n) ==
  /\ a \in ClientAnswers \ {"ValueError"}
  /\ a = "ok" /\ HttpMethod(client_call[t].request.op) # "GET"
       /\ ClientMethods[client_call[t].request.op].scope # "vermeer" => n = client_call[t].effects + 1
  /\ client_call' = [client_call EXCEPT ![t] =
       [client_call[t] EXCEPT !.answer = a, !.effects = n, !.step = "done"]]

GoesOn(t) ==
  /\ client_call[t].request.op \in IfNotExist
  /\ client_call' = [client_call EXCEPT ![t] =
       [client_call[t] EXCEPT
          !.request = [client_call[t].request EXCEPT !.op = CreateOf[client_call[t].request.op]],
          !.attempt = 0, !.step = "wrap"]]

Ends(t, n) == GoesOn(t) \/ \E a \in ClientAnswers : Over(t, a, n)

\* A failed attempt is repeated, or its failure is the answer.
LEMMA RetriedOutcome ==
  ASSUME NEW t \in ClientThreads, client_call \in [ClientThreads -> CallType],
         NEW n, NEW a \in {"ConnectionError", "ReadError", "RetryError"}
  PROVE  /\ Retried(t, TRUE, a, n) /\ (HttpMethod(client_call[t].request.op) = "POST" => n = client_call[t].effects)
              => Again(t, n) \/ Ends(t, n)
         /\ Retried(t, is_method_retryable(HttpMethod(client_call[t].request.op)), a, n)
              => Again(t, n) \/ Ends(t, n)
<1>. DEFINE again == client_call' = [client_call EXCEPT ![t].attempt = @ + 1, ![t].effects = n]
            over == client_call' = [client_call EXCEPT ![t].answer = a, ![t].effects = n, ![t].step = "done"]
            method == HttpMethod(client_call[t].request.op)
<1>1. ASSUME again, client_call[t].attempt < Retries, method = "POST" => n = client_call[t].effects
      PROVE  Again(t, n)
  BY <1>1 DEF Again, CallType
<1>2. ASSUME over PROVE Ends(t, n)
  <2>1. Over(t, a, n)
    BY <1>2 DEF Over, CallType, ClientAnswers
  <2>. QED  BY <2>1 DEF Ends, Over
<1>3. Retried(t, TRUE, a, n) => over \/ (again /\ client_call[t].attempt < Retries)
  BY DEF Retried
<1>4. Retried(t, is_method_retryable(method), a, n)
        => over \/ (again /\ client_call[t].attempt < Retries /\ method # "POST")
  BY DEF Retried, is_method_retryable
<1>. HIDE DEF again, over
<1>. QED  BY <1>1, <1>2, <1>3, <1>4

\* An answer ends the call, or leads from ifNotExist to create.
LEMMA AnsweredOutcome ==
  ASSUME NEW t \in ClientThreads, client_call \in [ClientThreads -> CallType],
         NEW n, NEW a \in ClientAnswers \ {"ValueError"}, CallAnswered(t, a, n),
         a = "ok" /\ HttpMethod(client_call[t].request.op) # "GET"
           /\ ClientMethods[client_call[t].request.op].scope # "vermeer" => n = client_call[t].effects + 1
  PROVE  Ends(t, n)
<1>. DEFINE c == client_call[t]
            op == c.request.op
            x == IF op \in IfNotExist /\ a = "ok" THEN "exists" ELSE a
<1>0. c \in CallType
  OBVIOUS
<1>1. CASE op \in IfNotExist /\ a = "empty"
  <2>1. client_call' = [client_call EXCEPT ![t] =
          [c EXCEPT !.request.op = CreateOf[op], !.attempt = 0, !.step = "wrap"]]
    BY <1>1 DEF CallAnswered
  <2>2. [c EXCEPT !.request.op = CreateOf[op], !.attempt = 0, !.step = "wrap"]
          = [c EXCEPT !.request = [c.request EXCEPT !.op = CreateOf[op]], !.attempt = 0, !.step = "wrap"]
    BY <1>0 DEF CallType
  <2>. QED  BY <1>1, <2>1, <2>2 DEF GoesOn, Ends
<1>2. CASE ~(op \in IfNotExist /\ a = "empty")
  <2>1. client_call' = [client_call EXCEPT ![t] = [c EXCEPT !.answer = x, !.effects = n, !.step = "done"]]
    BY <1>2 DEF CallAnswered
  <2>2. x \in ClientAnswers \ {"ValueError"} /\ (x = "ok" => a = "ok")
    BY DEF ClientAnswers
  <2>. HIDE DEF x
  <2>3. Over(t, x, n)
    BY <2>1, <2>2 DEF Over
  <2>. QED  BY <2>2, <2>3 DEF Ends
<1>. QED  BY <1>1, <1>2

\* What a status is turned into.
LEMMA ValidatedIs ==
  ASSUME NEW t, NEW s
  PROVE  /\ Validated(t, s) \in ClientAnswers \ {"ValueError"}
         /\ Validated(t, s) = "ok" /\ ClientMethods[client_call[t].request.op].scope # "vermeer" => s = "200"
BY DEF Validated, vermeer_validation, response_validation, ClientAnswers

\* One attempt has at most one effect, none if it reads; it ends the call, is
\* followed by another one, or by the create of a builder.  A POST that may have
\* had its effect is not sent again.
LEMMA AttemptOutcome ==
  ASSUME client_call \in [ClientThreads -> CallType], NEW t \in ClientThreads, session_request(t)
  PROVE  \E n \in {client_call[t].effects, client_call[t].effects + 1} :
           /\ HttpMethod(client_call[t].request.op) = "GET" => n = client_call[t].effects
           /\ Again(t, n) \/ Ends(t, n)
<1>. DEFINE c == client_call[t]
            op == c.request.op
            method == HttpMethod(op)
            served == Served(op, method, c.path)
            effects == c.effects + (IF served.effect THEN 1 ELSE 0)
<1>0. c \in CallType /\ c.effects \in Nat
  BY ClientAssumption DEF CallType
<1>1. /\ served.effect => method # "GET"
      /\ served.status = "200" /\ method # "GET" => served.effect
  BY DEF Served
<1>2. /\ effects \in {c.effects, c.effects + 1} /\ (method = "GET" => effects = c.effects)
      /\ served.status = "200" /\ method # "GET" => effects = c.effects + 1
  BY <1>0, <1>1
<1>3. \/ Retried(t, TRUE, "ConnectionError", c.effects)
      \/ CallAnswered(t, Validated(t, served.status), effects)
      \/ \E n \in {c.effects, effects} : Retried(t, is_method_retryable(method), "ReadError", n)
      \/ \E n \in {c.effects, effects} : IF is_method_retryable(method) THEN Retried(t, TRUE, "RetryError", n)
                                         ELSE CallAnswered(t, Validated(t, "500"), n)
      \/ served.status = "200" /\ CallAnswered(t, Validated(t, "unparsable"), effects)
      \/ CallAnswered(t, Validated(t, "401"), c.effects)
  BY Zenon DEF session_request
<1>. HIDE DEF effects, served
<1>4. CASE Retried(t, TRUE, "ConnectionError", c.effects)
  BY <1>4, RetriedOutcome
<1>5. CASE CallAnswered(t, Validated(t, served.status), effects)
  <2>. DEFINE a == Validated(t, served.status)
  <2>1. /\ a \in ClientAnswers \ {"ValueError"}
        /\ a = "ok" /\ method # "GET" /\ ClientMethods[op].scope # "vermeer" => effects = c.effects + 1
    BY <1>2, ValidatedIs
  <2>. HIDE DEF a
  <2>2. Ends(t, effects)
    BY <1>5, <2>1, AnsweredOutcome DEF a
  <2>. QED  BY <1>2, <2>2
<1>6. ASSUME NEW n \in {c.effects, effects}, Retried(t, is_method_retryable(method), "ReadError", n)
      PROVE  Again(t, n) \/ Ends(t, n)
  BY <1>6, RetriedOutcome
<1>7. ASSUME NEW n, NEW s, s # "200", CallAnswered(t, Validated(t, s), n)
      PROVE  Ends(t, n)
  <2>. DEFINE a == Validated(t, s)
  <2>1. /\ a \in ClientAnswers \ {"ValueError"}
        /\ a = "ok" /\ method # "GET" /\ ClientMethods[op].scope # "vermeer" => n = c.effects + 1
    BY <1>7, ValidatedIs
  <2>. HIDE DEF a
  <2>. QED  BY <1>7, <2>1, AnsweredOutcome DEF a
<1>8. ASSUME NEW n \in {c.effects, effects},
             IF is_method_retryable(method) THEN Retried(t, TRUE, "RetryError", n)
             ELSE CallAnswered(t, Validated(t, "500"), n)
      PROVE  Again(t, n) \/ Ends(t, n)
  <2>1. CASE is_method_retryable(method)
    <3>1. method # "POST"
      BY <2>1 DEF is_method_retryable
    <3>. QED  BY <1>8, <2>1, <3>1, RetriedOutcome
  <2>2. CASE ~is_method_retryable(method)
    BY <1>7, <1>8, <2>2
  <2>. QED  BY <2>1, <2>2
<1>. QED  BY <1>2, <1>3, <1>4, <1>5, <1>6, <1>7, <1>8

----------------------------------------------------------------------------
(* The invariant holds initially and every step keeps it                   *)

\* What a step of one thread leaves alone for the others: the configuration does
\* not change, a manager stays, and requests stay stored.
Frame ==
  /\ client_cfg' = client_cfg
  /\ lazy_manager \in ClientThreads => lazy_manager' \in ClientThreads
  /\ \A m \in ClientThreads : DOMAIN stored_request[m] \subseteq DOMAIN (stored_request'[m])

\* Paths and methods depend on the configuration only.
LEMMA SameConfiguration ==
  ASSUME client_cfg' = client_cfg
  PROVE  /\ \A r : Path(r)' = Path(r)
         /\ \A op : HttpMethod(op)' = HttpMethod(op)
BY DEF Path, HttpMethod

\* A call that does not move is in order after the step of another thread.
LEMMA OthersInOrder ==
  ASSUME Frame, NEW u \in ClientThreads, client_call'[u] = client_call[u], InOrder(client_call[u])
  PROVE  InOrder(client_call[u])'
<1>. DEFINE c == client_call[u]
<1>0. c' = c
  OBVIOUS
<1>1. /\ \A r : Path(r)' = Path(r)
      /\ \A op : HttpMethod(op)' = HttpMethod(op)
  BY SameConfiguration DEF Frame
<1>2. SameCall(c)'
  BY <1>0 DEF InOrder, SameCall
<1>3. Effects(c)'
  BY <1>0, <1>1 DEF InOrder, Effects
<1>4. HasPath(c) => HasPath(c)'
  BY <1>0, <1>1 DEF HasPath, Local
<1>. QED  BY <1>0, <1>2, <1>3, <1>4 DEF InOrder, Frame, Local

\* The invariant after a step of thread t, from what it says of t's call.
LEMMA StepOfOne ==
  ASSUME ClientInv, ClientAssumption, Frame, NEW t \in ClientThreads,
         DOMAIN server' = DOMAIN server, server.version' = server.version,
         lazy_manager' \in ClientThreads \union {NoManager}, DOMAIN stored_request' = ClientThreads,
         NEW c \in CallType, client_call' = [client_call EXCEPT ![t] = c], InOrder(client_call[t])', StoredOK'
  PROVE  ClientInv'
<1>1. ClientTyped'
  BY DEF ClientInv, ClientTyped, Frame
<1>2. ASSUME NEW u \in ClientThreads PROVE InOrder(client_call[u])'
  <2>1. CASE u = t
    BY <2>1
  <2>2. CASE u # t
    BY <2>2, OthersInOrder DEF ClientInv, ClientTyped
  <2>. QED  BY <2>1, <2>2
<1>. QED  BY <1>1, <1>2 DEF ClientInv

\* The requests that are stored stay those of their methods when none is added.
LEMMA StoredKept ==
  ASSUME StoredOK, client_cfg' = client_cfg, stored_request' = stored_request
  PROVE  StoredOK'
BY SameConfiguration DEF StoredOK

\* Initially.
LEMMA ClientInvInit == ClientInit => ClientInv
<1>. SUFFICES ASSUME ClientInit PROVE ClientInv
  OBVIOUS
<1>1. PICK asked \in [ClientThreads -> ClientRequests] :
        client_call = [t \in ClientThreads |-> NewClientCall(asked[t])]
  BY DEF ClientInit
<1>2. ASSUME NEW t \in ClientThreads
      PROVE  client_call[t] \in CallType /\ InOrder(client_call[t])
  <2>1. client_call[t] = NewClientCall(asked[t]) /\ asked[t] \in ClientRequests /\ asked[t] \in RequestType
    BY <1>1, AskedTyped
  <2>2. [prefix |-> "", target |-> ""] \in PathType
    BY DEF PathType, Spaces, Targets
  <2>3. NewClientCall(asked[t]) \in CallType
    <3>1. 0 \in 0 .. Retries /\ 0 \in 0 .. (Retries + 1)
      BY ClientAssumption
    <3>2. "idle" \in CallSteps /\ "none" \in ClientAnswers
      BY DEF CallSteps, ClientAnswers
    <3>. QED  BY <2>1, <2>2, <3>1, <3>2 DEF NewClientCall, CallType
  <2>4. InOrder(NewClientCall(asked[t]))
    BY DEF NewClientCall, InOrder, SameCall, Effects
  <2>. QED  BY <2>1, <2>3, <2>4
<1>3. ClientTyped
  <2>1. client_call \in [ClientThreads -> CallType]
    BY <1>1, <1>2
  <2>2. "version" \in DOMAIN server /\ server.version \in ServerVersions
    BY DEF ClientInit
  <2>3. PICK gs \in ConfiguredSpaces :
          client_cfg = [state |-> "unbuilt", graphspace |-> gs, gs_supported |-> FALSE, version |-> <<>>]
    BY DEF ClientInit
  <2>4. client_cfg \in CfgType
    <3>1. gs \in Spaces /\ <<>> \in ServerVersions \union {<<>>}
      BY DEF Spaces
    <3>. QED  BY <2>3, <3>1 DEF CfgType
  <2>. QED  BY <2>1, <2>2, <2>4 DEF ClientInit, ClientTyped
<1>4. StoredOK
  BY DEF ClientInit, StoredOK
<1>. QED  BY <1>2, <1>3, <1>4 DEF ClientInv

\* The configuration is built before any call.
LEMMA PostInitStep == ClientInv /\ post_init => ClientInv'
<1>. SUFFICES ASSUME ClientInv, post_init PROVE ClientInv'
  OBVIOUS
<1>1. /\ client_cfg.state = "unbuilt" /\ UNCHANGED <<server, lazy_manager, stored_request, client_call>>
  BY DEF post_init
<1>2. client_cfg' \in CfgType
  <2>1. client_cfg \in CfgType /\ server.version \in ServerVersions /\ {"", "DEFAULT"} \subseteq Spaces
    BY DEF ClientInv, ClientTyped, Spaces
  <2>2. \/ client_cfg' = [client_cfg EXCEPT !.state = "raised"]
        \/ \E gs \in {client_cfg.graphspace, "", "DEFAULT"}, b \in BOOLEAN, v \in {server.version, <<>>} :
             client_cfg' = [state |-> "built", graphspace |-> gs, gs_supported |-> b, version |-> v]
    BY DEF post_init
  <2>3. CASE client_cfg' = [client_cfg EXCEPT !.state = "raised"]
    BY <2>1, <2>3 DEF CfgType
  <2>4. CASE \E gs \in {client_cfg.graphspace, "", "DEFAULT"}, b \in BOOLEAN, v \in {server.version, <<>>} :
               client_cfg' = [state |-> "built", graphspace |-> gs, gs_supported |-> b, version |-> v]
    <3>1. PICK gs \in {client_cfg.graphspace, "", "DEFAULT"}, b \in BOOLEAN, v \in {server.version, <<>>} :
            client_cfg' = [state |-> "built", graphspace |-> gs, gs_supported |-> b, version |-> v]
      BY <2>4
    <3>2. gs \in Spaces /\ v \in ServerVersions \union {<<>>}
      BY <2>1 DEF CfgType
    <3>. QED  BY <3>1, <3>2 DEF CfgType
  <2>. QED  BY <2>2, <2>3, <2>4
<1>3. ClientTyped'
  BY <1>1, <1>2 DEF ClientInv, ClientTyped
<1>4. StoredOK'
  BY <1>1 DEF ClientInv, StoredOK
<1>5. ASSUME NEW t \in ClientThreads PROVE InOrder(client_call[t])'
  <2>. DEFINE c == client_call[t]
  <2>1. /\ c' = c /\ c.step = "idle" /\ SameCall(c) /\ c.answer = "none"
        /\ c.effects = 0 /\ c.attempt = 0
    BY <1>1, ClientAssumption DEF ClientInv, ClientTyped, CallType, InOrder, Effects
  <2>2. SameCall(c)' /\ Effects(c)'
    BY <2>1 DEF SameCall, Effects
  <2>. QED  BY <2>1, <2>2 DEF InOrder
<1>. QED  BY <1>3, <1>4, <1>5 DEF ClientInv

\* Looking for a manager, and building one.
LEMMA LazyStep ==
  ASSUME ClientInv, NEW t \in ClientThreads, lazy_lookup(t) \/ lazy_build(t)
  PROVE  ClientInv'
<1>. DEFINE c == client_call[t]
<1>0. c \in CallType /\ InOrder(c) /\ client_call \in [ClientThreads -> CallType]
  BY DEF ClientInv, ClientTyped
<1>1. PICK s \in {"build", "wrap"} : client_call' = [client_call EXCEPT ![t] = [c EXCEPT !.step = s]]
                                  /\ (s = "wrap" => lazy_manager' \in ClientThreads)
  BY <1>0 DEF lazy_lookup, lazy_build, Call, ClientInv, ClientTyped
<1>2. /\ UNCHANGED <<server, client_cfg, stored_request>> /\ c.step \in {"idle", "build"} /\ client_cfg.state = "built"
      /\ lazy_manager' \in {lazy_manager, t}
  BY <1>0 DEF lazy_lookup, lazy_build, InOrder
<1>3. Frame
  BY <1>2 DEF Frame
<1>4. [c EXCEPT !.step = s] \in CallType
  BY <1>0 DEF CallType, CallSteps
<1>5. InOrder(c)'
  <2>1. c' = [c EXCEPT !.step = s]
    BY <1>0, <1>1
  <2>2. SameCall(c)'
    BY <1>0, <2>1 DEF InOrder, SameCall, CallType
  <2>3. Effects(c)'
    <3>1. Effects(c) /\ c.step # "done"
      BY <1>0, <1>2 DEF InOrder
    <3>2. /\ c'.request = c.request /\ c'.effects = c.effects /\ c'.attempt = c.attempt /\ c'.answer = c.answer
          /\ c'.step = s
      BY <1>0, <2>1 DEF CallType
    <3>. QED  BY <1>2, <3>1, <3>2, SameConfiguration DEF Effects
  <2>. QED  BY <1>0, <1>1, <1>2, <2>1, <2>2, <2>3 DEF InOrder, CallType
<1>6. StoredOK'
  BY <1>2, StoredKept DEF ClientInv
<1>. QED  BY <1>0, <1>1, <1>2, <1>3, <1>4, <1>5, <1>6, StepOfOne, ClientAssumption DEF ClientInv, ClientTyped

\* The request of a method that stores it is one that a caller asked for: the
\* create that follows an ifNotExist builds its path itself.
LEMMA StoredAreAsked ==
  ASSUME NEW c \in CallType, SameCall(c), ~Local(c)
  PROVE  c.request \in ClientRequests
<1>1. CASE c.request = c.asked
  BY <1>1 DEF CallType
<1>2. CASE c.asked.op \in IfNotExist /\ c.request = [c.asked EXCEPT !.op = CreateOf[c.asked.op]]
  <2>1. c.asked = [op |-> c.asked.op, target |-> c.asked.target, space |-> c.asked.space]
    BY ClientAssumption DEF CallType
  <2>2. c.request.op = CreateOf[c.asked.op]
    BY <1>2, <2>1
  <2>3. ClientMethods[c.request.op] = Method("POST", "local", "graph")
    BY <1>2, <2>2, MethodTable
  <2>. QED  BY <2>3 DEF Local, Method
<1>. QED  BY <1>1, <1>2 DEF SameCall

\* The wrapper of a method: the path is built, cannot be built, or is stored.
LEMMA WrapperStep ==
  ASSUME ClientInv, NEW t \in ClientThreads, http_wrapper(t)
  PROVE  ClientInv'
<1>. DEFINE c == client_call[t]
            r == c.request
<1>0. /\ c \in CallType /\ InOrder(c) /\ client_call \in [ClientThreads -> CallType] /\ r \in RequestType
      /\ client_cfg \in CfgType /\ DOMAIN stored_request = ClientThreads
  BY DEF ClientInv, ClientTyped, CallType
<1>1. /\ c.step = "wrap" /\ UNCHANGED <<server, client_cfg, lazy_manager>>
      /\ lazy_manager \in ClientThreads /\ client_cfg.state = "built"
  BY <1>0 DEF http_wrapper, InOrder
<1>2. /\ SameCall(c) /\ Effects(c) /\ c.attempt = 0 /\ c.effects = 0 /\ c.answer = "none"
  BY <1>0, <1>1, ClientAssumption DEF InOrder, Effects, CallType
<1>3. CASE Local(c)
  <2>. DEFINE d == [c EXCEPT !.step = "send", !.path = Path(r)]
  <2>1. client_call' = [client_call EXCEPT ![t] = d] /\ stored_request' = stored_request
    BY <1>0, <1>3 DEF http_wrapper, Local, CallType
  <2>2. d \in CallType
    BY <1>0, PathIs DEF CallType, CallSteps
  <2>3. c' = d
    BY <1>0, <2>1
  <2>4. /\ d.step = "send" /\ d.request = c.request /\ d.asked = c.asked /\ d.path = Path(d.request)
        /\ d.effects = c.effects /\ d.attempt = c.attempt /\ d.answer = c.answer
    BY <1>0 DEF CallType
  <2>. HIDE DEF d
  <2>5. /\ \A x : Path(x)' = Path(x)
        /\ \A op : HttpMethod(op)' = HttpMethod(op)
    BY <1>1, SameConfiguration
  <2>6. SameCall(c)'
    BY <1>2, <2>3, <2>4 DEF SameCall
  <2>7. Effects(c)'
    BY <1>2, <2>3, <2>4, <2>5 DEF Effects
  <2>8. HasPath(c)'
    BY <2>3, <2>4, <2>5 DEF HasPath
  <2>9. InOrder(c)'
    BY <1>1, <2>3, <2>4, <2>6, <2>7, <2>8 DEF InOrder
  <2>10. StoredOK'
    BY <1>1, <2>1, StoredKept DEF ClientInv
  <2>11. Frame
    BY <1>1, <2>1 DEF Frame
  <2>. QED  BY <1>0, <1>1, <2>1, <2>2, <2>9, <2>10, <2>11, StepOfOne, ClientAssumption
<1>4. CASE ~Local(c) /\ PathRaises(r)
  <2>. DEFINE d == [c EXCEPT !.step = "done", !.answer = "ValueError"]
  <2>1. client_call' = [client_call EXCEPT ![t] = d] /\ stored_request' = stored_request
    BY <1>0, <1>4 DEF http_wrapper, Local, CallType
  <2>2. d \in CallType
    BY <1>0 DEF CallType, CallSteps, ClientAnswers
  <2>3. c' = d
    BY <1>0, <2>1
  <2>4. /\ d.step = "done" /\ d.request = c.request /\ d.asked = c.asked /\ d.effects = c.effects
        /\ d.answer = "ValueError"
    BY <1>0 DEF CallType
  <2>. HIDE DEF d
  <2>6. SameCall(c)'
    BY <1>2, <2>3, <2>4 DEF SameCall
  <2>7. Effects(c)'
    BY <1>2, <2>3, <2>4 DEF Effects
  <2>9. InOrder(c)'
    BY <1>1, <2>3, <2>4, <2>6, <2>7 DEF InOrder
  <2>10. StoredOK'
    BY <1>1, <2>1, StoredKept DEF ClientInv
  <2>11. Frame
    BY <1>1, <2>1 DEF Frame
  <2>. QED  BY <1>0, <1>1, <2>1, <2>2, <2>9, <2>10, <2>11, StepOfOne, ClientAssumption
<1>5. CASE ~Local(c) /\ ~PathRaises(r)
  <2>. DEFINE d == [c EXCEPT !.step = "invoke", !.manager = lazy_manager]
              m == lazy_manager
  <2>1. /\ client_call' = [client_call EXCEPT ![t] = d]
        /\ stored_request' = [stored_request EXCEPT ![m] = Stored(stored_request[m], r)]
    BY <1>0, <1>5 DEF http_wrapper, Local, CallType
  <2>2. d \in CallType
    BY <1>0, <1>1 DEF CallType, CallSteps
  <2>3. c' = d
    BY <1>0, <2>1
  <2>4. /\ d.step = "invoke" /\ d.request = c.request /\ d.asked = c.asked /\ d.manager = m
        /\ d.effects = c.effects /\ d.attempt = c.attempt /\ d.answer = c.answer
    BY <1>0 DEF CallType
  <2>. HIDE DEF d
  <2>5. /\ \A x : Path(x)' = Path(x)
        /\ \A op : HttpMethod(op)' = HttpMethod(op)
    BY <1>1, SameConfiguration
  <2>6. SameCall(c)'
    BY <1>2, <2>3, <2>4 DEF SameCall
  <2>7. Effects(c)'
    BY <1>2, <2>3, <2>4, <2>5 DEF Effects
  <2>8. /\ DOMAIN stored_request' = ClientThreads
        /\ \A x \in ClientThreads : x # m => stored_request'[x] = stored_request[x]
        /\ stored_request'[m] = Stored(stored_request[m], r)
    BY <1>0, <1>1, <2>1
  <2>9. /\ DOMAIN (stored_request'[m]) = DOMAIN stored_request[m] \union {r.op}
        /\ stored_request'[m][r.op] = Path(r)
        /\ \A op \in DOMAIN stored_request[m] : op # r.op => stored_request'[m][op] = stored_request[m][op]
    BY <2>8 DEF Stored
  <2>10. InOrder(c)'
    BY <1>1, <1>5, <2>3, <2>4, <2>6, <2>7, <2>9 DEF InOrder, Local
  <2>11. StoredOK'
    <3>1. r \in ClientRequests
      BY <1>0, <1>2, <1>5, StoredAreAsked
    <3>2. ASSUME NEW x \in ClientThreads, NEW op \in DOMAIN (stored_request'[x])
          PROVE  \E y \in ClientRequests : y.op = op /\ stored_request'[x][op] = Path(y)'
      <4>1. CASE x = m /\ op = r.op
        BY <2>5, <2>9, <3>1, <4>1
      <4>2. CASE x # m
        BY <2>5, <2>8, <3>2, <4>2 DEF ClientInv, StoredOK
      <4>3. CASE x = m /\ op # r.op
        <5>1. op \in DOMAIN stored_request[m] /\ stored_request'[m][op] = stored_request[m][op]
          BY <2>9, <3>2, <4>3
        <5>. QED  BY <1>1, <2>5, <4>3, <5>1 DEF ClientInv, StoredOK
      <4>. QED  BY <4>1, <4>2, <4>3
    <3>. QED  BY <1>1, <3>2 DEF StoredOK
  <2>12. Frame
    BY <1>1, <2>8, <2>9 DEF Frame
  <2>. QED  BY <1>0, <1>1, <2>1, <2>2, <2>8, <2>10, <2>11, <2>12, StepOfOne, ClientAssumption
<1>. QED  BY <1>3, <1>4, <1>5

\* The request that is stored when the method asks for it.
LEMMA InvokeStep ==
  ASSUME ClientInv, NEW t \in ClientThreads, invoke_request(t)
  PROVE  ClientInv'
<1>. DEFINE c == client_call[t]
            p == stored_request[c.manager][c.request.op]
            d == [c EXCEPT !.step = "send", !.path = p]
<1>0. /\ c \in CallType /\ InOrder(c) /\ client_call \in [ClientThreads -> CallType]
      /\ client_cfg \in CfgType /\ DOMAIN stored_request = ClientThreads
  BY DEF ClientInv, ClientTyped
<1>1. /\ c.step = "invoke" /\ UNCHANGED <<server, client_cfg, lazy_manager, stored_request>>
      /\ lazy_manager \in ClientThreads /\ client_cfg.state = "built"
      /\ client_call' = [client_call EXCEPT ![t] = d]
  BY <1>0 DEF invoke_request, InOrder, CallType
<1>2. /\ SameCall(c) /\ Effects(c) /\ c.manager \in ClientThreads /\ ~Local(c)
      /\ c.request.op \in DOMAIN stored_request[c.manager]
  BY <1>0, <1>1 DEF InOrder
<1>3. PICK r \in ClientRequests : r.op = c.request.op /\ p = Path(r)
  BY <1>2 DEF ClientInv, StoredOK
<1>4. p \in PathType
  BY <1>0, <1>3, AskedTyped, PathIs
<1>5. d \in CallType
  BY <1>0, <1>4 DEF CallType, CallSteps
<1>6. c' = d
  BY <1>0, <1>1
<1>7. /\ d.step = "send" /\ d.request = c.request /\ d.asked = c.asked /\ d.path = p
      /\ d.effects = c.effects /\ d.attempt = c.attempt /\ d.answer = c.answer
  BY <1>0 DEF CallType
<1>. HIDE DEF d
<1>8. /\ \A x : Path(x)' = Path(x)
      /\ \A op : HttpMethod(op)' = HttpMethod(op)
  BY <1>1, SameConfiguration
<1>9. SameCall(c)'
  BY <1>2, <1>6, <1>7 DEF SameCall
<1>10. Effects(c)'
  BY <1>1, <1>2, <1>6, <1>7, <1>8 DEF Effects
<1>11. HasPath(c)'
  BY <1>2, <1>3, <1>6, <1>7, <1>8 DEF HasPath, Local
<1>12. InOrder(c)'
  BY <1>1, <1>6, <1>7, <1>9, <1>10, <1>11 DEF InOrder
<1>13. StoredOK' /\ Frame
  BY <1>1, StoredKept DEF ClientInv, Frame
<1>. QED  BY <1>0, <1>1, <1>5, <1>12, <1>13, StepOfOne, ClientAssumption

\* An attempt: sent again, gone on to the create of a builder, or over.
LEMMA SessionStep ==
  ASSUME ClientInv, NEW t \in ClientThreads, session_request(t)
  PROVE  ClientInv'
<1>. DEFINE c == client_call[t]
            method == HttpMethod(c.request.op)
<1>0. /\ c \in CallType /\ InOrder(c) /\ client_call \in [ClientThreads -> CallType]
      /\ DOMAIN stored_request = ClientThreads /\ lazy_manager \in ClientThreads \union {NoManager}
      /\ c.effects \in Nat /\ c.attempt \in 0 .. Retries /\ Retries \in Nat
  BY ClientAssumption DEF ClientInv, ClientTyped, CallType
<1>1. /\ c.step = "send" /\ UNCHANGED <<client_cfg, lazy_manager, stored_request>>
  BY DEF session_request
<1>10. DOMAIN server' = DOMAIN server /\ server.version' = server.version
  <2>1. \/ server' = server
        \/ \E o : server' = [server EXCEPT !.objects = o]
    BY Zenon DEF session_request
  <2>. QED  BY <2>1 DEF ClientInv, ClientTyped
<1>2. /\ lazy_manager \in ClientThreads /\ client_cfg.state = "built" /\ SameCall(c) /\ Effects(c) /\ HasPath(c)
      /\ c.effects <= c.attempt /\ c.answer = "none" /\ (method \in {"GET", "POST"} => c.effects = 0)
  BY <1>0, <1>1 DEF InOrder, Effects
<1>3. /\ \A x : Path(x)' = Path(x)
      /\ \A op : HttpMethod(op)' = HttpMethod(op)
  BY <1>1, SameConfiguration
<1>4. StoredOK' /\ Frame
  BY <1>1, StoredKept DEF ClientInv, Frame
<1>5. PICK n \in {c.effects, c.effects + 1} :
        (method = "GET" => n = c.effects) /\ (Again(t, n) \/ Ends(t, n))
  BY <1>0, AttemptOutcome
<1>6. n \in 0 .. (Retries + 1) /\ n <= c.attempt + 1
  BY <1>0, <1>2, <1>5
<1>7. CASE Again(t, n)
  <2>. DEFINE d == [c EXCEPT !.attempt = c.attempt + 1, !.effects = n]
  <2>1. client_call' = [client_call EXCEPT ![t] = d] /\ c.attempt < Retries /\ (method = "POST" => n = c.effects)
    BY <1>7 DEF Again
  <2>2. c.attempt + 1 \in 0 .. Retries
    BY <1>0, <2>1
  <2>3. d \in CallType
    BY <1>0, <1>6, <2>2 DEF CallType
  <2>4. c' = d
    BY <1>0, <2>1
  <2>5. /\ d.step = "send" /\ d.request = c.request /\ d.asked = c.asked /\ d.path = c.path
        /\ d.effects = n /\ d.attempt = c.attempt + 1 /\ d.answer = "none"
    BY <1>0, <1>1, <1>2 DEF CallType
  <2>. HIDE DEF d
  <2>6. SameCall(c)' /\ HasPath(c)'
    BY <1>2, <1>3, <2>4, <2>5 DEF SameCall, HasPath, Local
  <2>7. Effects(c)'
    BY <1>2, <1>3, <1>5, <1>6, <2>1, <2>4, <2>5 DEF Effects
  <2>8. InOrder(c)'
    BY <1>1, <1>2, <2>4, <2>5, <2>6, <2>7 DEF InOrder
  <2>. QED  BY <1>0, <1>1, <1>10, <1>4, <2>1, <2>3, <2>8, StepOfOne, ClientAssumption
<1>8. CASE GoesOn(t)
  <2>. DEFINE op == CreateOf[c.request.op]
              d == [c EXCEPT !.request = [c.request EXCEPT !.op = op], !.attempt = 0, !.step = "wrap"]
  <2>1. client_call' = [client_call EXCEPT ![t] = d] /\ c.request.op \in IfNotExist
    BY <1>8 DEF GoesOn
  <2>2. method = "GET" /\ op \in Creates /\ HttpMethod(op) = "POST"
    BY <2>1, BuilderMethods
  <2>3. [c.request EXCEPT !.op = op] \in RequestType
    BY <1>0, <2>2 DEF CallType, RequestType, Ops
  <2>4. d \in CallType
    <3>1. ASSUME NEW q \in RequestType
          PROVE  [c EXCEPT !.request = q, !.attempt = 0, !.step = "wrap"] \in CallType
      <4>1. 0 \in 0 .. Retries /\ "wrap" \in CallSteps
        BY <1>0 DEF CallSteps
      <4>. QED  BY <1>0, <4>1 DEF CallType
    <3>. QED  BY <2>3, <3>1
  <2>5. c' = d
    BY <1>0, <2>1
  <2>6. /\ d.step = "wrap" /\ d.request = [c.request EXCEPT !.op = op] /\ d.request.op = op /\ d.asked = c.asked
        /\ d.effects = 0 /\ d.attempt = 0 /\ d.answer = "none"
    BY <1>0, <1>2, <2>2, <2>3 DEF CallType, RequestType
  <2>. HIDE DEF d
  <2>7. c.request = c.asked
    <3>1. SUFFICES ASSUME c.asked.op \in IfNotExist, c.request = [c.asked EXCEPT !.op = CreateOf[c.asked.op]]
                   PROVE  FALSE
      BY <1>2 DEF SameCall
    <3>2. c.asked \in RequestType
      BY <1>0, AskedTyped DEF CallType
    <3>3. c.request.op \in Creates
      BY <3>1, <3>2, BuilderMethods DEF RequestType
    <3>. QED  BY <2>1, <3>3, MethodTable
  <2>8. SameCall(c)'
    BY <2>1, <2>5, <2>6, <2>7 DEF SameCall
  <2>9. Effects(c)'
    BY <2>5, <2>6 DEF Effects
  <2>10. InOrder(c)'
    BY <1>1, <1>2, <2>5, <2>6, <2>8, <2>9 DEF InOrder
  <2>. QED  BY <1>0, <1>1, <1>10, <1>4, <2>1, <2>4, <2>10, StepOfOne, ClientAssumption
<1>9. ASSUME NEW a \in ClientAnswers, Over(t, a, n) PROVE ClientInv'
  <2>. DEFINE d == [c EXCEPT !.answer = a, !.effects = n, !.step = "done"]
  <2>1. /\ client_call' = [client_call EXCEPT ![t] = d] /\ a # "ValueError"
        /\ a = "ok" /\ method # "GET" /\ ClientMethods[c.request.op].scope # "vermeer" => n = c.effects + 1
    BY <1>9 DEF Over
  <2>2. d \in CallType
    BY <1>0, <1>6 DEF CallType, CallSteps
  <2>3. c' = d
    BY <1>0, <2>1
  <2>4. /\ d.step = "done" /\ d.request = c.request /\ d.asked = c.asked /\ d.path = c.path
        /\ d.effects = n /\ d.answer = a
    BY <1>0 DEF CallType
  <2>. HIDE DEF d
  <2>5. SameCall(c)' /\ HasPath(c)'
    BY <1>2, <1>3, <2>3, <2>4 DEF SameCall, HasPath, Local
  <2>6. Effects(c)'
    <3>1. method = "POST" => n <= 1
      BY <1>2, <1>5
    <3>2. a = "ok" /\ method # "GET" /\ ClientMethods[c.request.op].scope # "vermeer" => n >= 1
      BY <1>0, <2>1
    <3>. QED  BY <1>3, <2>3, <2>4, <3>1, <3>2 DEF Effects
  <2>7. InOrder(c)'
    BY <1>1, <1>2, <2>3, <2>4, <2>5, <2>6 DEF InOrder
  <2>. QED  BY <1>0, <1>1, <1>10, <1>4, <2>1, <2>2, <2>7, StepOfOne, ClientAssumption
<1>. QED  BY <1>5, <1>7, <1>8, <1>9 DEF Ends

\* Every step keeps the invariant.
LEMMA ClientInvStep == ClientInv /\ [ClientNext]_clientVars => ClientInv'
<1>. SUFFICES ASSUME ClientInv, [ClientNext]_clientVars PROVE ClientInv'
  OBVIOUS
<1>1. CASE UNCHANGED clientVars
  <2>1. Frame /\ ClientTyped' /\ StoredOK'
    BY <1>1, StoredKept DEF clientVars, Frame, ClientInv, ClientTyped
  <2>2. \A u \in ClientThreads : InOrder(client_call[u])'
    BY <1>1, <2>1, OthersInOrder DEF clientVars, ClientInv
  <2>. QED  BY <2>1, <2>2 DEF ClientInv
<1>2. CASE post_init
  BY <1>2, PostInitStep
<1>3. ASSUME NEW t \in ClientThreads,
             lazy_lookup(t) \/ lazy_build(t) \/ http_wrapper(t) \/ invoke_request(t) \/ session_request(t)
      PROVE  ClientInv'
  BY <1>3, LazyStep, WrapperStep, InvokeStep, SessionStep
<1>. QED  BY <1>1, <1>2, <1>3 DEF ClientNext

\* The invariant holds in every state.
LEMMA ClientInvariant == ClientSpec => []ClientInv
BY ClientInvInit, ClientInvStep, PTL DEF ClientSpec

----------------------------------------------------------------------------
(* The theorems                                                            *)

\* Retries stay within HGraphSession's bound and _invoke_request finds the
\* request that the wrapper stored.
THEOREM ClientTypeCorrect == ClientSpec => []ClientTypeOK
<1>1. ClientInv => ClientTypeOK
  <2>. SUFFICES ASSUME ClientInv, NEW t \in ClientThreads
                PROVE  /\ client_call[t].attempt \in 0..Retries /\ client_call[t].effects \in 0..(Retries + 1)
                       /\ client_call[t].step \in {"idle", "build", "wrap", "invoke", "send", "done"}
                       /\ client_call[t].step = "invoke" =>
                            client_call[t].request.op \in DOMAIN stored_request[client_call[t].manager]
    BY DEF ClientTypeOK
  <2>1. client_call[t] \in CallType /\ InOrder(client_call[t])
    BY DEF ClientInv, ClientTyped
  <2>. QED  BY <2>1 DEF CallType, CallSteps, InOrder
<1>. QED  BY <1>1, ClientInvariant, PTL

\* However answers and connections are lost and requests are sent again, a POST
\* takes effect at most once in a call of the client, and a write that returns
\* normally took effect.
THEOREM WritesHappenOnce == ClientSpec => []WritesTakeEffectOnce
<1>1. ClientInv => WritesTakeEffectOnce
  BY DEF ClientInv, InOrder, Effects, WritesTakeEffectOnce
<1>. QED  BY <1>1, ClientInvariant, PTL

\* Threads that share a client overwrite each other's stored requests; a call that
\* reads or changes graph data is nevertheless sent to its own object, under the
\* graphspace of the client.
THEOREM DataCallsAreNotMixedUp == ClientSpec => []DataCallsReachTheirTarget
<1>1. ClientInv => DataCallsReachTheirTarget
  <2>. SUFFICES ASSUME ClientInv, NEW t \in ClientThreads,
                       client_call[t].step \in {"send", "done"}, client_call[t].answer # "ValueError",
                       client_call[t].asked.op \in DataMethods \union IfNotExist
                PROVE  /\ client_call[t].path.target = client_call[t].asked.target
                       /\ client_call[t].path.prefix = (IF client_cfg.gs_supported THEN client_cfg.graphspace ELSE "")
    BY DEF DataCallsReachTheirTarget
  <2>. DEFINE c == client_call[t]
              prefix == IF client_cfg.gs_supported THEN client_cfg.graphspace ELSE ""
  <2>0. /\ c \in CallType /\ client_cfg \in CfgType /\ SameCall(c) /\ HasPath(c)
        /\ c.request \in RequestType /\ c.asked \in RequestType /\ c.asked \in ClientRequests
    BY AskedTyped DEF ClientInv, ClientTyped, InOrder, CallType
  <2>1. ASSUME NEW r \in RequestType, c.path = Path(r), r.target = c.asked.target, ClientMethods[r.op].scope = "graph"
        PROVE  c.path.target = c.asked.target /\ c.path.prefix = prefix
    BY <2>0, <2>1, PathIs
  <2>2. CASE c.asked.op \in IfNotExist
    <3>1. /\ c.request.target = c.asked.target
          /\ c.request.op \in IfNotExist \union Creates
      BY <2>0, <2>2, BuilderMethods DEF SameCall, RequestType
    <3>2. ClientMethods[c.request.op].scope = "graph" /\ Local(c)
      BY <3>1, MethodTable DEF Get, Method, Local
    <3>3. c.path = Path(c.request)
      BY <2>0, <3>2 DEF HasPath
    <3>. QED  BY <2>0, <2>1, <3>1, <3>2, <3>3
  <2>3. CASE c.asked.op \notin IfNotExist
    <3>1. c.request = c.asked /\ c.asked.op \in DataMethods
      BY <2>0, <2>3 DEF SameCall
    <3>2. ClientMethods[c.asked.op].scope = "graph" /\ ClientMethods[c.asked.op].path \in {"local", "constant"}
      BY <3>1, MethodTable
    <3>3. CASE c.path = Path(c.request)
      BY <2>0, <2>1, <3>1, <3>2, <3>3
    <3>4. CASE ~Local(c) /\ \E r \in ClientRequests : r.op = c.request.op /\ c.path = Path(r)
      <4>1. PICK r \in ClientRequests : r.op = c.request.op /\ c.path = Path(r)
        BY <3>4
      <4>2. ClientMethods[c.asked.op].path = "constant"
        BY <3>1, <3>2, <3>4 DEF Local
      <4>3. r.target = c.asked.target /\ r \in RequestType
        BY <2>0, <3>1, <4>1, <4>2, ClientAssumption, AskedTyped
      <4>. QED  BY <2>1, <3>1, <3>2, <4>1, <4>3
    <3>. QED  BY <2>0, <3>3, <3>4 DEF HasPath
  <2>. QED  BY <2>2, <2>3
<1>. QED  BY <1>1, ClientInvariant, PTL
=============================================================================

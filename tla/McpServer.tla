------------------------------ MODULE McpServer ------------------------------
(***************************************************************************)
(* The MCP server in front of HugeGraph and HugeGraph-AI: the process       *)
(* environment and the cached configuration read from it (config.py), the   *)
(* admin, budget and read-only gates (server.py, guard.py), the AI client   *)
(* (hugegraph_ai_client.py) and the tools that use it, with the refresh     *)
(* endpoint of the AI replicas (api/thin_api.py) on the other side.         *)
(*                                                                         *)
(* Calls run concurrently; the environment may be changed between any two   *)
(* reads of it; replicas may be of the version that has no validated        *)
(* refresh route, and their graph may be reconfigured at any time their     *)
(* runtime_config_lock is free.  A lost answer is a timeout.                *)
(***************************************************************************)
EXTENDS Integers, FiniteSets

CONSTANTS McpCalls,      \* concurrent tool calls
          McpGraphs,     \* graphs an environment or a replica may name
          Replicas,      \* replicas of the AI service behind one address
          OldReplicas,   \* those without the validated refresh route
          InitialEnvs,   \* environments the process may start in
          MaxEnvChanges, \* bound on changes of the environment
          MaxReconfigs,  \* bound on reconfigurations of replicas
          NoConfig       \* an empty cache

VARIABLES mcp_env,       \* the environment: graph, readonly, admin, allow_ai
          config_cache,  \* _CONFIG_CACHE: one key with its configuration
          tool_call,     \* per call: its tool, its step and what it has read
          replica,       \* per replica: version, configured graph, request
          refreshed,     \* refreshes run: the call, the graph, the one expected
          changes        \* environment and replica changes so far

serverVars == <<mcp_env, config_cache, tool_call, replica, refreshed, changes>>

Tools == {"refresh", "raw_write", "generate_execute", "extract", "inspect"}
Answers == {"none", "feature_disabled", "readonly_violation", "validation_error",
            "unavailable", "ok"}
Steps == {"idle", "read_graph", "read_flags", "parse", "discover", "post",
          "waiting", "schema", "done"}

Envs == [graph : McpGraphs, readonly : BOOLEAN, admin : BOOLEAN, allow_ai : BOOLEAN]

ASSUME ServerAssumption == /\ InitialEnvs \subseteq Envs
                           /\ MaxEnvChanges \in Nat /\ MaxReconfigs \in Nat

NoRequest == [call |-> NoConfig, expected |-> NoConfig, checked |-> FALSE]

Idle == [tool |-> "none", step |-> "idle", goal |-> "none", snapshot |-> NoConfig,
         cfg |-> NoConfig, schema_of |-> NoConfig, frozen |-> FALSE,
         sent |-> "no", answer |-> "none"]

ServerInit ==
  /\ mcp_env \in InitialEnvs
  /\ config_cache = NoConfig
  /\ tool_call = [c \in McpCalls |-> Idle]
  /\ replica \in [Replicas -> [graph : McpGraphs, request : {NoRequest}]]
  /\ refreshed = {}
  /\ changes = [env |-> 0, graph |-> 0]

(***************************************************************************)
(* The environment is changed, one variable at a time.                      *)
(***************************************************************************)
SetEnv(e) ==
  /\ changes.env < MaxEnvChanges
  /\ e # mcp_env
  /\ e.graph = mcp_env.graph \/ e.readonly = mcp_env.readonly
  /\ e.admin = mcp_env.admin /\ e.allow_ai = mcp_env.allow_ai
  /\ mcp_env' = e
  /\ changes' = [changes EXCEPT !.env = @ + 1]
  /\ tool_call' = [c \in McpCalls |->
       [tool_call[c] EXCEPT !.frozen = @ /\ e.readonly]]
  /\ UNCHANGED <<config_cache, replica, refreshed>>

Others == <<mcp_env, replica, refreshed, changes>>

Answer(c, a) ==
  tool_call' = [tool_call EXCEPT ![c] =
    [Idle EXCEPT !.step = "done", !.sent = tool_call[c].sent, !.answer = a]]

(***************************************************************************)
(* MCPConfig.from_env: every setting is read once into a snapshot; a cached  *)
(* configuration is used when its key equals the snapshot, otherwise the     *)
(* snapshot is parsed and cached with itself as the key.  goal names the     *)
(* place the configuration is loaded for.                                   *)
(***************************************************************************)
LoadFor(goal, t) == [t EXCEPT !.step = "read_graph", !.goal = goal,
                              !.snapshot = NoConfig]

environment_snapshot(c) ==
  \/ /\ tool_call[c].step = "read_graph"
     /\ tool_call' = [tool_call EXCEPT ![c].step = "read_flags",
                                       ![c].snapshot = mcp_env]
     /\ UNCHANGED <<config_cache, Others>>
  \/ /\ tool_call[c].step = "read_flags"
     /\ tool_call' = [tool_call EXCEPT ![c].step = "parse",
          ![c].snapshot = [mcp_env EXCEPT !.graph = tool_call[c].snapshot.graph]]
     /\ UNCHANGED <<config_cache, Others>>

\* The second read the code's comment warns of.
parsed_from_environment(c) == mcp_env

\* The configuration parsed for call c's snapshot.
parsed(c) == tool_call[c].snapshot

\* The configuration from_env returns, and the cache it leaves.
Loaded(c) == IF config_cache # NoConfig /\ config_cache.key = tool_call[c].snapshot
             THEN config_cache.config ELSE parsed(c)

Cached(c) == IF config_cache # NoConfig /\ config_cache.key = tool_call[c].snapshot
             THEN config_cache
             ELSE [key |-> tool_call[c].snapshot, config |-> parsed(c)]

\* guard(capability): the configurations modelled have a safe write store.
guard_refuses(cfg) == cfg.readonly

(***************************************************************************)
(* What a call does with the configuration it has just loaded: the gates    *)
(* first, then the work.                                                    *)
(***************************************************************************)
_is_admin_mode_enabled(c, cfg) ==
  IF ~cfg.admin THEN Answer(c, "feature_disabled")
  ELSE tool_call' = [tool_call EXCEPT ![c] = LoadFor("readonly", @)]

\* The rest of the gate loads the configuration again.
_admin_gate(c, cfg) ==
  IF cfg.readonly THEN Answer(c, "readonly_violation")
  ELSE tool_call' = [tool_call EXCEPT ![c] = LoadFor("guard", @)]

guard(c, cfg) ==
  IF guard_refuses(cfg) THEN Answer(c, "readonly_violation")
  ELSE \/ Answer(c, "validation_error")               \* confirm is not set
       \/ tool_call' = [tool_call EXCEPT ![c] = LoadFor("use", @)]

\* request(): AI calls are refused before anything is sent.
ai_call(c, cfg, next) ==
  IF ~cfg.allow_ai THEN Answer(c, "feature_disabled")
  ELSE tool_call' = [tool_call EXCEPT ![c].step = next, ![c].cfg = cfg,
                                      ![c].snapshot = NoConfig]

extract_graph_data(c, cfg) ==
  IF ~cfg.allow_ai THEN Answer(c, "feature_disabled")
  ELSE tool_call' = [tool_call EXCEPT ![c] = [LoadFor("schema", @) EXCEPT !.cfg = cfg]]

\* get_live_schema: reads the configuration again, then the server.
get_live_schema(c, cfg) ==
  \/ tool_call' = [tool_call EXCEPT ![c].schema_of = cfg.graph, ![c].step = "schema",
                                    ![c].snapshot = NoConfig]
  \/ /\ tool_call[c].tool = "inspect"                 \* reported as a warning
     /\ Answer(c, "ok")
  \/ /\ tool_call[c].tool = "extract"
     /\ Answer(c, "unavailable")

inspect_graph(c, cfg) ==
  tool_call' = [tool_call EXCEPT ![c] = [LoadFor("schema", @) EXCEPT !.cfg = cfg]]

UseConfig(c) ==
  /\ tool_call[c].step = "parse"
  /\ config_cache' = Cached(c)
  /\ LET cfg == Loaded(c)
     IN  CASE tool_call[c].goal = "gate"    -> _is_admin_mode_enabled(c, cfg)
           [] tool_call[c].goal = "readonly" -> _admin_gate(c, cfg)
           [] tool_call[c].goal = "guard"   -> guard(c, cfg)
           [] tool_call[c].goal = "use"     -> ai_call(c, cfg, "discover")
           [] tool_call[c].goal = "extract" -> extract_graph_data(c, cfg)
           [] tool_call[c].goal = "inspect" -> inspect_graph(c, cfg)
           [] tool_call[c].goal = "schema"  -> get_live_schema(c, cfg)
  /\ UNCHANGED Others

(***************************************************************************)
(* A tool is called.  Raw Gremlin execution is refused by the budget gate    *)
(* before any configuration is read.                                        *)
(***************************************************************************)
FirstLoad == [refresh |-> "gate", extract |-> "extract", inspect |-> "inspect"]

CallTool(c, tool) ==
  /\ tool_call[c].step = "idle"
  /\ LET called == [Idle EXCEPT !.tool = tool, !.frozen = mcp_env.readonly]
     IN  tool_call' = [tool_call EXCEPT ![c] =
           IF tool \in DOMAIN FirstLoad THEN LoadFor(FirstLoad[tool], called)
           ELSE [Idle EXCEPT !.step = "done", !.answer = "feature_disabled"]]
  /\ UNCHANGED <<config_cache, Others>>

\* The rest of extract and inspect: the AI service answers or does not.
AfterSchema(c) ==
  /\ tool_call[c].step = "schema"
  /\ \/ Answer(c, "ok")
     \/ tool_call[c].tool = "extract" /\ Answer(c, "unavailable")
  /\ UNCHANGED <<config_cache, Others>>

(***************************************************************************)
(* refresh_vid_embeddings, discovery: one replica says whether it knows the  *)
(* validated protocol.                                                      *)
(***************************************************************************)
discover(c) ==
  /\ tool_call[c].step = "discover"
  /\ \/ \E r \in Replicas :
          IF r \notin OldReplicas
          THEN tool_call' = [tool_call EXCEPT ![c].step = "post"]
          ELSE Answer(c, "feature_disabled")
     \/ Answer(c, "unavailable")
  /\ UNCHANGED <<config_cache, Others>>

\* What is remembered of a request sent: whether the environment was read-only
\* from the call to the send.
Sent(c) == IF tool_call[c].frozen THEN "frozen" ELSE "allowed"

(***************************************************************************)
(* refresh_vid_embeddings, execution: the versioned route, which an old      *)
(* replica answers with 404; no fallback to the legacy route.                *)
(***************************************************************************)
post_refresh(c) ==
  /\ tool_call[c].step = "post"
  /\ \/ \E r \in Replicas :
          /\ replica[r].request = NoRequest
          /\ IF r \notin OldReplicas
             THEN /\ tool_call' = [tool_call EXCEPT ![c].step = "waiting",
                                                    ![c].sent = Sent(c)]
                  /\ replica' = [replica EXCEPT ![r].request =
                       [call |-> c, expected |-> tool_call[c].cfg.graph,
                        checked |-> FALSE]]
             ELSE Answer(c, "feature_disabled") /\ UNCHANGED replica
     \/ Answer(c, "unavailable") /\ UNCHANGED replica
  /\ UNCHANGED <<mcp_env, config_cache, refreshed, changes>>

\* The answer never arrives in time.
Timeout(c) ==
  /\ tool_call[c].step = "waiting"
  /\ Answer(c, "unavailable")
  /\ UNCHANGED <<config_cache, Others>>

Reply(c, a) == IF tool_call[c].step = "waiting" THEN Answer(c, a)
               ELSE UNCHANGED tool_call

(***************************************************************************)
(* _refresh_vid_embeddings on a replica: under runtime_config_lock, the      *)
(* target is compared with the settings; then the flow runs on the settings. *)
(***************************************************************************)
validate_target(r) ==
  LET req == replica[r].request
  IN  /\ req # NoRequest /\ ~req.checked
      /\ IF req.expected = replica[r].graph
         THEN /\ replica' = [replica EXCEPT ![r].request.checked = TRUE]
              /\ UNCHANGED tool_call
         ELSE /\ replica' = [replica EXCEPT ![r].request = NoRequest]
              /\ Reply(req.call, "validation_error")
      /\ UNCHANGED <<mcp_env, config_cache, refreshed, changes>>

\* A replica whose legacy writes are disabled answers before it takes the lock.
thin_write_disabled(r) ==
  LET req == replica[r].request
  IN  /\ req # NoRequest /\ ~req.checked
      /\ replica' = [replica EXCEPT ![r].request = NoRequest]
      /\ Reply(req.call, "feature_disabled")
      /\ UNCHANGED <<mcp_env, config_cache, refreshed, changes>>

run_flow(r) ==
  LET req == replica[r].request
  IN  /\ req # NoRequest /\ req.checked
      /\ refreshed' = refreshed \union
           {[call |-> req.call, graph |-> replica[r].graph, expected |-> req.expected]}
      /\ replica' = [replica EXCEPT ![r].request = NoRequest]
      /\ Reply(req.call, "ok")
      /\ UNCHANGED <<mcp_env, config_cache, changes>>

\* A reconfiguration that does not wait for the lock.
reconfigure_unlocked(r) ==
  /\ changes.graph < MaxReconfigs
  /\ \E g \in McpGraphs \ {replica[r].graph} : replica' = [replica EXCEPT ![r].graph = g]
  /\ changes' = [changes EXCEPT !.graph = @ + 1]
  /\ UNCHANGED <<mcp_env, config_cache, tool_call, refreshed>>

(***************************************************************************)
(* A graph configuration update takes runtime_config_lock, which a checked   *)
(* refresh holds until its flow has run.                                    *)
(***************************************************************************)
reconfigure(r) ==
  /\ changes.graph < MaxReconfigs
  /\ ~replica[r].request.checked
  /\ \E g \in McpGraphs \ {replica[r].graph} : replica' = [replica EXCEPT ![r].graph = g]
  /\ changes' = [changes EXCEPT !.graph = @ + 1]
  /\ UNCHANGED <<mcp_env, config_cache, tool_call, refreshed>>

ServerNext ==
  \/ \E e \in Envs : SetEnv(e)
  \/ \E c \in McpCalls :
       \/ \E t \in Tools : CallTool(c, t)
       \/ environment_snapshot(c)
       \/ UseConfig(c)
       \/ AfterSchema(c)
       \/ discover(c)
       \/ post_refresh(c)
       \/ Timeout(c)
  \/ \E r \in Replicas :
       thin_write_disabled(r) \/ validate_target(r) \/ run_flow(r) \/ reconfigure(r)

ServerSpec == ServerInit /\ [][ServerNext]_serverVars

ServerTypeOK ==
  /\ mcp_env \in Envs
  /\ config_cache = NoConfig \/ config_cache \in [key : Envs, config : Envs]
  /\ \A c \in McpCalls : /\ tool_call[c].step \in Steps
                         /\ tool_call[c].tool \in Tools \union {"none"}
                         /\ tool_call[c].answer \in Answers
  /\ \A r \in Replicas : replica[r].graph \in McpGraphs
  /\ changes.env \in 0 .. MaxEnvChanges /\ changes.graph \in 0 .. MaxReconfigs

(***************************************************************************)
(* A call made while the environment is read-only, and read-only until it    *)
(* sends, sends no write, whatever configurations concurrent calls have      *)
(* loaded and cached under earlier environments (config.py from_env,         *)
(* guard.py).                                                               *)
(***************************************************************************)
FrozenServerSendsNoWrite ==
  \A c \in McpCalls : tool_call[c].sent # "frozen"

(***************************************************************************)
(* An embedding refresh that a call causes runs on the graph the call's      *)
(* configuration names: not on an old replica's own graph, and not on a      *)
(* graph configured between the check and the run (refresh_vid_embeddings,   *)
(* thin_api._refresh_vid_embeddings).                                       *)
(***************************************************************************)
RefreshHitsExpectedGraph ==
  \A e \in refreshed : e.graph = e.expected
==============================================================================

----------------------------- MODULE LlmConfig ------------------------------
(***************************************************************************)
(* The process-wide settings of hugegraph-llm (llm_settings, huge_settings) *)
(* and their copy in .env.  The /config endpoints and the demo's buttons     *)
(* change them in place under runtime_config_lock, test the connection,      *)
(* then persist or roll back; a reviewed extraction copies them under the   *)
(* same lock.                                                               *)
(*                                                                          *)
(* A group of settings is one role of the chat model, the embedding, the    *)
(* reranker or the graph; what it holds for a provider is abstracted to the  *)
(* request that wrote it (0: the start).                                    *)
(***************************************************************************)
EXTENDS Naturals, FiniteSets

CONSTANTS
  Requests,    \* requests to change the configuration
  NoRequest    \* the lock is free

ASSUME ConfigAssumption == Requests \subseteq Nat \ {0} /\ NoRequest \notin Requests

Roles == {"chat", "extract"}
Groups == Roles \cup {"graph"}
Providers == {"openai", "ollama"}

\* http_llm: /config/llm for all roles (/config/embedding and /config/rerank do the
\* same for a group of their own); http_graph: /config/graph; ui_chat: one role by
\* the demo's button.
ConfigKinds == {"http_llm", "http_graph", "ui_chat"}

groups_of(kind) == CASE kind = "http_llm"   -> Roles
                     [] kind = "http_graph" -> {"graph"}
                     [] kind = "ui_chat"    -> {"chat"}

VARIABLES
  llm_settings,          \* per group: the selected type and the providers' fields
  env,                   \* the same fields in the .env file
  runtime_config_lock,
  config_request,        \* per request: its kind, its provider, where it is, its snapshots
  verified,              \* history: the requests whose connection test succeeded
  seen                   \* the copies reviewed extractions worked with

configVars == <<llm_settings, env, runtime_config_lock, config_request, verified, seen>>

Settings == [Groups -> [type : Providers, field : [Providers -> Requests \cup {0}]]]
at_start == [g \in Groups |-> [type |-> "openai", field |-> [p \in Providers |-> 0]]]

ConfigInit ==
  /\ llm_settings = at_start
  /\ env = [g \in Groups |-> at_start[g].field]
  /\ runtime_config_lock = NoRequest
  /\ config_request \in [Requests -> {[kind |-> k, provider |-> p, pc |-> "new", outer |-> at_start,
                                   inner |-> at_start, todo |-> {}] : k \in ConfigKinds, p \in Providers}]
  /\ \A r \in Requests :      \* only /config/llm chooses a provider
       config_request[r].kind # "http_llm" => config_request[r].provider = "openai"
  /\ verified = {0}
  /\ seen = at_start

ConfigTypeOK ==
  /\ llm_settings \in Settings /\ seen \in Settings
  /\ runtime_config_lock \in Requests \cup {NoRequest}
  /\ \A r \in Requests : config_request[r].pc \in {"new", "typed", "setting", "set", "tested", "failed", "done"}
  /\ verified \subseteq Requests \cup {0}

ConfigStep(r, from, to, change) ==
  /\ config_request[r].pc = from
  /\ config_request' = [config_request EXCEPT ![r] = [change EXCEPT !.pc = to]]

\* The request's local variables are gone when it returns.
forgotten(r) == [config_request[r] EXCEPT !.outer = at_start, !.inner = at_start, !.todo = {}]

Holds(r) == runtime_config_lock = r

\* llm_config_api and embedding_config_api: lock, remember, select the provider.
\* graph_config_api and the demo's buttons go straight to the transaction.
llm_config_api(r) ==
  LET gs == groups_of(config_request[r].kind)
      typed == config_request[r].kind = "http_llm"
  IN  /\ runtime_config_lock = NoRequest /\ runtime_config_lock' = r
      /\ ConfigStep(r, "new", "typed", [config_request[r] EXCEPT !.outer = llm_settings])
      /\ llm_settings' = IF typed
           THEN [g \in Groups |-> IF g \in gs
                   THEN [llm_settings[g] EXCEPT !.type = config_request[r].provider] ELSE llm_settings[g]]
           ELSE llm_settings
      /\ UNCHANGED <<env, verified, seen>>

\* _transactional_config_update: what a failure goes back to.
transactional_config_update(r) ==
  /\ Holds(r)
  /\ ConfigStep(r, "typed", "setting", [config_request[r] EXCEPT !.inner = llm_settings,
                                    !.todo = groups_of(config_request[r].kind)])
  /\ UNCHANGED <<llm_settings, env, runtime_config_lock, verified, seen>>

\* apply_llm_config, apply_embedding_config, apply_graph_config: the fields of the
\* selected provider, one group after the other.
apply_config(r, g) ==
  /\ Holds(r) /\ g \in config_request[r].todo
  /\ LET left == config_request[r].todo \ {g}
     IN  ConfigStep(r, "setting", IF left = {} THEN "set" ELSE "setting",
              [config_request[r] EXCEPT !.todo = left])
  /\ llm_settings' = [llm_settings EXCEPT ![g].field[llm_settings[g].type] = r]
  /\ UNCHANGED <<env, runtime_config_lock, verified, seen>>

\* test_api_connection, test_litellm_chat, test_litellm_embedding: 2xx, or another
\* status or an exception.
test_api_connection(r) ==
  /\ Holds(r)
  /\ \/ /\ ConfigStep(r, "set", "tested", [config_request[r] EXCEPT !.todo = groups_of(config_request[r].kind)])
        /\ verified' = verified \cup {r}
     \/ /\ ConfigStep(r, "set", "failed", config_request[r])
        /\ UNCHANGED verified
  /\ UNCHANGED <<llm_settings, env, runtime_config_lock, seen>>

\* update_env: one set_key after the other; one of them may raise.
update_env(r, g) ==
  /\ Holds(r) /\ g \in config_request[r].todo
  /\ \/ /\ env' = [env EXCEPT ![g] = llm_settings[g].field]
        /\ ConfigStep(r, "tested", "tested", [config_request[r] EXCEPT !.todo = @ \ {g}])
     \/ /\ ConfigStep(r, "tested", "failed", config_request[r])
        /\ UNCHANGED env
  /\ UNCHANGED <<llm_settings, runtime_config_lock, verified, seen>>

\* Mutant: a failed update is answered without going back.
restore_config_never(r) ==
  /\ Holds(r)
  /\ ConfigStep(r, "failed", "done", forgotten(r))
  /\ runtime_config_lock' = NoRequest
  /\ UNCHANGED <<llm_settings, env, verified, seen>>

\* _restore_config by the transaction, then _restore_settings by the endpoint; the
\* .env file keeps what was written.
restore_config(r) ==
  /\ Holds(r)
  /\ ConfigStep(r, "failed", "done", forgotten(r))
  /\ llm_settings' = [g \in Groups |->
       IF config_request[r].kind = "http_llm"
          /\ g \in groups_of(config_request[r].kind)
       THEN config_request[r].outer[g] ELSE config_request[r].inner[g]]
  /\ runtime_config_lock' = NoRequest
  /\ UNCHANGED <<env, verified, seen>>

config_done(r) ==
  /\ Holds(r) /\ config_request[r].todo = {}
  /\ ConfigStep(r, "tested", "done", forgotten(r))
  /\ runtime_config_lock' = NoRequest
  /\ UNCHANGED <<llm_settings, env, verified, seen>>

\* The demo's dropdown selects a provider as soon as it is rendered; nothing is saved.
chat_llm_settings(g, p) ==
  /\ runtime_config_lock = NoRequest /\ llm_settings[g].type # p
  /\ llm_settings' = [llm_settings EXCEPT ![g].type = p]
  /\ UNCHANGED <<env, runtime_config_lock, config_request, verified, seen>>

\* Mutant: the copy is taken without the lock.
snapshot_llm_settings_unlocked ==
  /\ seen # llm_settings
  /\ seen' = llm_settings
  /\ UNCHANGED <<llm_settings, env, runtime_config_lock, config_request, verified>>

snapshot_llm_settings ==
  /\ runtime_config_lock = NoRequest /\ seen # llm_settings
  /\ seen' = llm_settings
  /\ UNCHANGED <<llm_settings, env, runtime_config_lock, config_request, verified>>

ConfigNext ==
  \/ \E r \in Requests :
       \/ llm_config_api(r) \/ transactional_config_update(r) \/ test_api_connection(r)
       \/ restore_config(r) \/ config_done(r)
       \/ \E g \in Groups : apply_config(r, g) \/ update_env(r, g)
  \/ \E g \in Roles, p \in Providers : chat_llm_settings(g, p)
  \/ snapshot_llm_settings

ConfigSpec == ConfigInit /\ [][ConfigNext]_configVars

----------------------------------------------------------------------------
\* A reviewed extraction works with settings whose connection the request that wrote
\* them has tested: never with those of an update under way or rolled back
\* (snapshot_llm_settings, _transactional_config_update).
SnapshotVerified ==
  \A g \in Groups : \A p \in Providers : seen[g].field[p] \in verified
=============================================================================

# TLA+ models of incubator-hugegraph-ai

`incubator-hugegraph-ai` is a set of Python packages around the HugeGraph
database. `hugegraph-mcp` is an MCP server whose tools let a language model
read a graph, preview a change of it or of its schema, and then confirm it; a
confirmed write goes through a durable SQLite plan store, leases, per-attempt
tokens, reconciliation after a crash and, for one release, an older
confirmation protocol beside it. `hugegraph-llm` runs retrieval, extraction and
index flows as pooled pipelines of nodes in parallel threads.
`hugegraph-python-client` is the client both use. The modules here model these
parts, TLC checks them on small instances and TLAPS proves the main results of
the write path, the graph data and schema tools, the server, the client, the
scheduler, the answers, the indices, the extraction and the configuration for
every instance.

## Inventory

Paths are relative to the package in the first column.

| Package | Component | State | Operations | Talks to | What is hard | What makes it correct |
|---|---|---|---|---|---|---|
| hugegraph-mcp | `write_plan.py` | statuses, transition table | aggregate, can_transition | everyone | partial results | the aggregate claims no more than the operations prove |
| | `plan_store.py` | tables `write_plans`, `write_operations`, the lease | save, expire, claim plan, claim operation, receipt, begin reconcile, reconciliation receipt, migration | executor, reconciler, tools | several processes, stale readers, lease expiry | final outcomes never change; a fenced executor cannot write |
| | `write_executor.py` | one call's locals | confirm, resume, status | store, adapters | crash at any line; a lease shorter than the work | each operation is sent at most once and in order |
| | `reconciler.py` | one call's locals | reconcile | store, readers | one old snapshot for the whole loop | only never-sent operations are replayed |
| | `tools/*_write_adapter.py` | none | read, write, reply, verify | the HugeGraph server | ambiguous replies, commits after a timeout | success only on evidence; rejection only without effect |
| | `confirmation_store.py`, `confirmable_workflow.py`, `plan_hash.py` | tables issued, consumed, operations | issue, load, consume, cleanup, record outcome | legacy tools | clock read before the lock; cleanup; nonces used again | a nonce authorises one attempt of exactly what was approved |
| | `tools/manage_schema.py`, `schema_contract.py` | none | validate, dry-run, apply, inspect | both stores, the server | batches that depend on their order; other clients between the reads | a valid batch applies; an answer says what happened |
| | `tools/manage_graph_data.py`, `ingest_graph_data.py`, `graph_data_*.py`, `mutate_graph_properties.py` | none | preview an import, a deletion or a mutation; execute a deletion | both stores, the server | identities in several forms; a graph that changes after the preview | edges join the vertices that were named; only previewed edges are deleted |
| | `gremlin_policy.py`, `gremlin_tools.py`, `generate_gremlin.py` | none | classify, bound, execute, guard | the Gremlin server | comments, strings and escapes hide code | nothing that writes is executed as a read |
| | `query_graph_data.py` | none | get by id, page, condition | the server | limits read twice, other clients while paging | a scan misses nothing that stayed |
| | `config.py`, `guard.py`, `server.py`, `hugegraph_ai_client.py`, `refresh_vid_embeddings.py` | environment, configuration cache | load, gate, call the AI service | tools, AI replicas | a cache shared by calls; replicas of two versions | no write while frozen; the refresh runs on the graph that was meant |
| hugegraph-llm | `flows/scheduler.py` | pipeline pools, a singleton | schedule_flow, schedule_stream_flow | PyCGraph | reuse, streaming, failures | a pipeline serves one call at a time, carries nothing over and is returned |
| | `flows/*`, `nodes/*`, `operators/*`, `state/ai_state.py` | the shared workflow state | the nodes of thirteen flows | each other, LLMs, stores | parallel nodes that store whole snapshots back | no result is lost, answers use all evidence |
| | `operators/llm_op/answer_synthesize.py`, `rag_block.py` | token tasks | choose a flow, generate, stream | LLM clients | several generators in one loop | every answer is complete, and the stream ends |
| | `indices/*`, `operators/index_op/*` | persisted indices | load, remove, add, save, build defaults | Faiss, Milvus, Qdrant | engines and dimensions change; batches fail | an update indexes what was fetched; published examples are complete |
| | `extraction_runtime/*`, `property_graph_extract.py`, `commit_to_hugegraph.py` | chunks under review | extract, validate, review, repair, merge, commit | LLMs, the server | budgets, ambiguous ids, ids replaced by the server | a final graph passed its checks; edges join what was extracted |
| | `config/*`, `configs_block.py`, `rag_api.py`, `thin_api.py` | runtime settings, `.env` | update, test, roll back, snapshot, refresh | UI, REST, flows | multi-field updates | a snapshot is of one tested configuration |
| hugegraph-python-client | `client.py`, `utils/*`, `api/*` | lazy managers, the stored request, a session | every REST call | the server | threads that share a client; retries | a call reaches its own object; a POST takes effect once |
| vermeer-python-client | `api/*`, `utils/*` | a session | REST calls | Vermeer | | as above |
| hugegraph-ml | models, trainers | tensors | training | DGL, PyTorch | numerics | not modelled |

## Modules

| Module | Models |
|---|---|
| `WritePlan` | statuses, `ALLOWED_PLAN_TRANSITIONS`, both aggregation functions |
| `WriteAdapters` | the decisions of the adapters and of the reconciler as functions of what they observe |
| `WriteExecution` | one plan: its rows, confirm, resume and reconcile calls, the backend and other clients; composes the two above |
| `PlanOutcome`, `WriteRefinement` | the abstract promise of a confirmed plan, and the mapping under which `WriteExecution` implements it |
| `ConfirmationStore` | the legacy ledger, dry-runs, legacy confirmations, the canonical plan of the same dry-run, the migration |
| `SchemaTool` | the schema tool: contract, validation, dry-run, apply with its reads, the create adapter, inspection |
| `GraphChange` | import preview, property preview, deletion from preview to record |
| `GremlinRead` | the Gremlin read policy, limit policies and generated Gremlin, with a reference machine for Groovy |
| `GraphQuery` | the structured query tool and a caller that pages with it |
| `McpServer` | environment, configuration cache, gates, AI calls, the refresh protocol and the AI replicas |
| `GraphClient` | the Python client and the Vermeer client |
| `FlowScheduler` | the pipeline pools and the calls that use them |
| `WorkflowRun` | one run of one of the thirteen flows: nodes in threads over a shared state |
| `RagAnswers` | the choice of a RAG flow, plain and streamed answers |
| `VectorIndex` | the index of vertex ids and the index of Gremlin examples, three engines |
| `Extraction` | reviewed, plain and triples extraction, and the import of the result |
| `LlmConfig` | configuration updates, roll-back and snapshots |
| `MCWriteExecution`, `MCConfirmationStore`, `MCPipelines`, `MCGateway` | instances for TLC |
| `WriteExecutionProofs`, `WriteRefinementProofs`, `ConfirmationStoreProofs`, `FlowSchedulerProofs`, `LlmProofs` (answers, indices, configuration), `ExtractionProofs`, `ServiceProofs` (server, client), `ToolProofs` (graph data, schema) | theorems |

### WriteExecution

`plan` is the row of `write_plans` (status, lease owner, lease expiry), `ops`
the rows of `write_operations` (status, attempt, token, reconciled). `exec` and
`recon` hold the locals of the calls; their `pc` names the next statement that
touches shared state. A SQLite transaction (`BEGIN IMMEDIATE`) is one action;
reads outside a transaction, requests, replies and ticks of the clock are
actions of their own. `inflight` and `landed` are the requests the backend has
and has committed; `dispatched` and `reached` are history.

Data is abstracted: the object of an operation is `expected` (what was
approved), `desired` (what the operation produces) or `other`; a reply is ok,
ambiguous or refused. A lease that is NULL is 0, which is never live. Owner and
attempt tokens are the identity of the call that made them: `uuid4` values are
taken to be unique. All operations of a plan are ordered, which is what the
executor's loop does; dependencies add nothing to that. Cross-plan effects are
other clients (`ForeignWrite`). Confirm and resume calls are made once each:
two calls by one client are two members of the set. Crash and exception are one
action, because the code keeps no other state. `ReconcilerCrash` also covers a
missing reader.

`before_write`, `after_write` and `reconcile_verdict` cover three kinds:
`DELETE_EDGE` and `CREATE_SCHEMA`, which the server registers, and
`CREATE_VERTEX`, whose adapter the tests register.

### ConfirmationStore

A plan hash is the record of what was hashed (tool, payload, nonce, expiry):
SHA-256 is taken as injective, and the server's configuration and the live
schema, which are hashed too, are constant. The tables are partial functions.
`issue` and `consume` consist of two transactions (cleanup, then their own) and
use one reading of the clock for both, so the reading is any instant between
the previous step and the cleanup. A confirmation goes through the replay
check, the load of the stored payload (graph tool only), the verification of
the hash, cleanup, consume, execution and the record of the outcome; it may end
anywhere. Locators are those that dry-runs returned, with any tool and, for the
schema tool, any resubmitted payload. The three reads of the migration are one
step: each row moves from issued to consumed and operations, so a torn read
gives the same rows as a read a moment earlier or later. `ConfirmPlan` is the
canonical confirmation as one step; `WriteExecution` refines what happens in it.

### PlanOutcome and the refinement

`PlanOutcome` knows operations that have taken effect, evidence per operation
(open, done, refused) and a verdict (open, success, failure). An effect may
happen at any time; evidence is recorded only while the verdict is open, `done`
only for what happened, never revised; a plan succeeds when everything is done
and fails when nothing is. `WriteRefinement` maps a row's final status to its
evidence, the plan's status to the verdict and `reached` to what happened.
`RETRYABLE_NOT_APPLIED` and `UNKNOWN` are open: they promise nothing.

### SchemaTool, GraphChange, GraphQuery

A schema operation is the dictionary the caller sent, as a function from the
fields that are present to sequences; absent, null, empty and ill-typed values
differ, because the three boundaries of the tool treat them differently. Field
names are generic: the contract is the table `SUPPORTED_FIELD_SPECS`. A call
is split at each of its reads and writes, so that other clients act between
them. `GraphChange` has three parts that share constants and no state: the
import preview (a function of a payload and a graph, as its confirmation is
disabled), the property preview, and the deletion, with one action per query.
An id or a key in a payload is a record of its type, its value, which validation
compares, and its text, the `str()` by which the mapping looks it up; 1, 1.0 and
"1" are three such records, of which the first two have one value and the first
and the last one text. Of a string the part after a colon (`ColonTail`), which
the code splits off, is kept. The server creates an object whose references
exist and whose name is free; its other rules (nullable primary keys, sort keys
against frequency) are left out. The client's builder passes the nullable keys
of an edge label through a set (`builder_create`). A query's items are numbers in scan
order, so a cursor is a number; the caller follows cursors, asks again after an
error and asks for less after a refusal.

### GremlinRead

A text is a sequence of lexical units (names, quotes, escape, comment marks,
newline, interpolation). `lex_gremlin_query` and `analyze_tokens` are the
scanner and the analysis of `gremlin_policy.py` over these units; `Executes` is
written independently, as a machine that reads a text the way Groovy does. The
texts are all concatenations of an opening and up to three of fourteen
fragments. Unicode escapes, which Groovy replaces before it reads a text, are not
among the units.

### McpServer

One step reads one setting; a load consists of two reads, the use of the cache
and the decision that follows. Every place that calls `MCPConfig.from_env()`
is a load of its own. A replica holds `runtime_config_lock` from the check of
the target to the end of the flow.

### GraphClient

The methods of all managers are a table: HTTP method, scope of the path, and
whether the path is local to the call, constant, or formatted and stored on the
manager. Retries belong to urllib3 and are external; which methods are retried
is the code's choice. TLS errors, which urllib3 repeats for a POST too, are not
modelled.

### FlowScheduler, WorkflowRun, RagAnswers

The scheduler's calls step at every access of a pool or a pipeline. An input is
two fields, one that `prepare` writes and the stream flag; each holds the call
that wrote it. In `WorkflowRun` a value is the set of nodes whose results are
in it and whether it is truthy; the thirteen flows are dependency graphs, and a
node has three steps: take a snapshot, work, store it back. `RagAnswers` counts
tokens.

### VectorIndex, Extraction, LlmConfig

An index is its dimension and how often it holds each vertex id, or each batch
of examples (batch 0 is a user's own). Faiss keeps changes in memory until they
are saved, which takes two steps, one per file; Milvus and Qdrant change the
collection at once. Reading the two files is one step. The vectors of the vertex
ids are abstracted to whether they go with the properties: `by` is the save that
wrote a file, `paired` whether the two lists in its copy went together. Updates,
cleanings and queries overlap freely. The graph, the engine and the embedding
are not state: a call finds any graph when it fetches, and any engine and
dimension when it opens its index, which includes every change of the settings;
an embedding has the dimension its model declares. `alone` is history of a call
(no other update and no cleaning since it began), `calm` of the index (no two
updates ever overlapped, no save was cut short). The index of examples is
modelled for Faiss; Milvus and Qdrant create the collection before the batches,
so a build that fails leaves an empty collection, which later queries find.

A graph extracted from a chunk has a label with a primary key, one with ids
chosen by the client and one with ids that HugeGraph generates; `CanonicalId` is
the id HugeGraph makes of a primary key value, and a generated id is the place
of the item it was made for.
A list of vertices or edges is a function of places, and a filter leaves the
places of what it drops empty, so an item of a returned list is a chunk and a
place in the chunk's graph; the import loads these pairs in their order, and an
edge it stores remembers its own. The model's answers are any set of graphs, in
the run eight with the defects the code handles. Settings are groups of fields with the request that wrote them.

## Runs

| Run | Instance | States | Shows |
|---|---|---|---|
| `confirm` | 2 deletes, 2 confirms, 1 reconciler, clock 0..3 | 1.1 M | the outcome is supported by evidence, agrees with the rows, operations are sent in order, and the protocol implements `PlanOutcome` |
| `resume` | 1 schema create, 1 confirm, 2 resumes, 1 reconciler, clock 0..4 | 1.2 M | one request per operation |
| `live` | delete then create, 1 confirm, 1 reconciler | 5.5 k | an abandoned execution ends, a lasting effect is reported |
| `ledger` | 2 tools, 2 payloads, 1 nonce, 2 dry-runs, 2 confirmations, clock 0..2 | 1.1 M | what is executed is what was approved |
| `reissue` | 1 tool, 1 payload, 1 nonce, 3 dry-runs, 2 confirmations, clock 0..2 | 0.7 M | one attempt per nonce, on record, with a final outcome |
| `pipelines` | `MCPipelines` | 0.6 M | the properties of the `hugegraph-llm` modules |
| `gateway` | `MCGateway` | 1.9 M | the properties of the tools, the server and the client |
| `replay_race`, `resume_race`, `late_commit`, `two_protocols`, `schema_boundaries` | smallest instance that shows the case | | the code departs from its documentation, see below |

`MCPipelines` and `MCGateway` explore several components in one run: the
initial state selects one, and only its actions are enabled, while the others
rest in an initial state. The state space is the sum, not the product, of the
components. This is not a composition: the components meet through the calls
described in the inventory, and each module contains the part of its
neighbours that it depends on (the backend in `WriteExecution`, the replicas in
`McpServer`, the server in `GraphClient`).

What `pipelines` checks: `PipelineServesOneCall`, `AnswerIsOwn`,
`PoolBoundedByPeak`, `FetchedIsReleased` (scheduler); `NoLostUpdate`,
`AnswerUsesAllEvidence` (every flow, in every order of its threads);
`AnswersComplete`, `AnswerEnds` (answers); `UpdateIndexesFetched`,
`PublishedExamplesComplete` (indices); `FinalGraphPassed`,
`FinalEdgesUnambiguous`, `ImportedEdgesAsExtracted` (extraction and import);
`SnapshotVerified` (configuration).

What `gateway` checks: `ExecutedReadsDoNotWrite` (Gremlin policy);
`FrozenServerSendsNoWrite`, `RefreshHitsExpectedGraph` (server, replicas);
`ValidBatchApplies`, `SchemaAnswersTruthful` (schema tool);
`ImportedEndpointsAsNamed`, `DeletionsPreviewedAndReported` (graph data);
`ScanIsComplete` (queries); `WritesTakeEffectOnce`,
`DataCallsReachTheirTarget` (client).

Bounds of the write path. Two operations are enough for a first one that
succeeds and a second one that does not; the lost-order cases need a third
(`resume_race`). Two competing calls suffice because the store admits one
owner. With a lease of one second, a clock of 3 lets a lease be taken, renewed,
expire and be replaced; `WithinHorizon` stops claims whose lease could not
expire any more. In the ledger a TTL of 1 and a clock of 2 let a row be issued,
consumed, expire and be issued again; a third dry-run in `reissue` lets
somebody else clean up while a confirmation holds an old reading. One nonce is
the hard case, as rows of different nonces never meet. Symmetry permutes calls
and payloads only.

Bounds of the others. Three calls and two pipelines let two calls overlap and a
third reuse what either left behind. Two tokens let one answer go on after
another has stopped. Two updates and a cleaning over two dimensions, three
engines and two vertices overlap in every way and cover a change of each between
updates; a first update that fails or is cut short leaves the state a second one
starts from. Two calls on the examples, each a query or a user, and a cleaning
with two batches let one publish what the other finds. Two chunks can be in review at
once and can reuse each other's ids; two reviews and one fix reach every exit of
the loop. Two configuration requests can interleave with a snapshot. Three
fragments can open, close and follow a comment or a literal. Two tool calls and
two changes of the environment let a call load a configuration that another one
cached under an earlier environment. Three schema calls are a dry-run and two
applies, with two steps of another client. One retry shows a repeated request.
Four items, limits up to four and two foreign changes let a scan be refused,
shrunk and continued while items come and go. The payloads have 1, 1.0 and "1" as ids, keys
and endpoints, and the batches a label that gives primary keys without using
them.

`CHECK_DEADLOCK` is on in the runs of the write path: time or a reader can
always take a step. It is off in the runs of `MCPipelines` and
`MCGateway`, where calls end.

Fairness. `FairSpec` (run `live`): time passes; the client that is told
"reconciliation required" calls reconcile again and again (weak fairness of the
start of a call), and such calls are not cut short for ever (strong fairness of
their later steps). Nothing is assumed of executors, which may die at any
point, nor of requests, which may hang. `PipelinesSpec`: a call that has begun
is a running thread and goes on (`SchedulerFairness`), the consumer of a stream
reads on or closes it, an event loop runs tasks that are ready, and a model
client answers or raises, as its requests have a timeout
(`RagAnswersFairness`).

## Where code and documentation disagree

* `replay_race`: reconcile authorises the replay of an operation that was
  claimed and sent after the reconciler had read its rows
  (`reconciler.py:107`, `plan_store.py:531`); `docs/architecture.md:89` says a
  durable record proves it was never claimed. The run `resume` shows that a
  plan of one operation is safe.
* `resume_race`: a second resume takes a PARTIAL plan over from a dead one and
  skips its unresolved operation (`plan_store.py:284`), against
  `write_executor.py:136`.
* `late_commit`: a delete that timed out and is still in flight is recorded as
  CONFLICT (`tools/graph_write_adapter.py:167`), against
  `docs/architecture.md:83-91`.
* `two_protocols`: one dry-run can be executed by `plan_id` and again by its
  legacy locator (`tools/manage_graph_data.py:320`), against `README.md:180`.
* `schema_boundaries`: a property key given with `cardinality: ""` is accepted,
  created as SINGLE and then reported as CONFLICT by the call that created it
  (`tools/manage_schema.py:1610`), against `tools/schema_contract.py:18`.

Known divergences without a run: a valid receipt is rolled back because PARTIAL
to ALREADY_APPLIED is not a listed transition (`plan_store.py:459`); a
confirmation copied to the plan store while it was issued stays ISSUED there
after it was consumed (`plan_store.py:749`, against `docs/architecture.md:29`).
More were met when proofs failed or definitions were made exact; the instances
`MCGateway` and `MCPipelines` have their inputs, and the properties except
exactly them:

* A confirmed create with `cardinality: null` would forward SINGLE, but the
  comparison takes null for "anything" and reports ALREADY_APPLIED for a
  property key that another client has created as LIST
  (`tools/manage_schema.py:1610`), against the comment at
  `tools/manage_schema.py:1710` ("Keep checking the effective value").
  `SchemaAnswersTruthful` is therefore about the fields an operation fixes:
  those it gives a value, and those it leaves out that have a default.
* A payload in which "1:x" is the id of one vertex and the primary key value of
  another is accepted, and the scalar endpoint "1:x" names both
  (`tools/ingest_graph_data.py:142`), against the comment at
  `tools/ingest_graph_data.py:554` and the test
  `test_validate_graph_payload_rejects_ambiguous_scalar_endpoint`, whose values
  have no colon. `ImportedEndpointsAsNamed` excepts such scalars.
* Validation compares the values of ids and keys
  (`tools/ingest_graph_data.py:137-143`), the mapping looks them up by `str()`
  (`tools/graph_data_mapping.py:103`, `:143`, `:173`). With a vertex whose key is
  1 and another whose id is "1", the endpoint 1 is validated as the first and
  compiled to the second. `ImportedEndpointsAsNamed` excepts payloads with an id
  or a key that has the endpoint's text and another value, or its value and
  another text (`MistakenByText`).
* A vertex label may give `primary_keys` with another id strategy than
  PRIMARY_KEY: validation returns before it looks at them
  (`tools/manage_schema.py:608`), and apply forwards them (`:1458`), also when no
  such property key exists. `ValidBatchApplies` excepts batches with such a label
  (`UncheckedKeys`).
* The import has one mapping from the model's ids to HugeGraph's for all chunks
  (`commit_to_hugegraph.py:168`). A vertex of a label with AUTOMATIC ids is
  created anew for every chunk, and when two chunks call one by the same id, both
  chunks' edges end at the one created last. `ImportedEdgesAsExtracted` excepts
  the ends of such a label.

Met while modelling, without a property:

* write path: reconciliation moves a plan from UNKNOWN to PARTIAL, which the
  transition table does not list; `create_vertex_adapter` reports "rejected
  without side effect" after a successful write whose effect somebody else
  removed; `confirm` does not check the expiry again when it claims the plan;
* tools: `_apply_property_preview` fails on an append of null to a list
  (`mutate_graph_properties.py:434`), modelled as `PreviewRaises`; a query of a
  vertex's edges that exceeds the limit returns a cursor that the tool refuses
  together with the vertex (`query_graph_data.py:227`); an edge that another
  client creates again after its deletion is reported as a failed deletion
  (`graph_data_execute.py:731`); an edge label with several nullable keys may be
  reported as CONFLICT by the call that created it, as the client's builder sends
  them in the order of a set (`edge_label.py:78`) and the comparison is of lists
  (`tools/manage_schema.py:1599`);
* `hugegraph-llm`: a pipeline that fails in its first `post_deal` is dropped
  (`scheduler.py:126`); an index update that only removes is not saved
  (`build_semantic_index.py:69`); updates that overlap may add an id twice to a
  collection, or leave the index file of one and the properties of the other, as
  does a save that is cut short (`faiss_vector_store.py:43`); an index of examples
  that has another dimension is opened empty and not built again
  (`gremlin_example_index_query.py:44`), and one that holds only a user's examples
  is used without the default ones; the streaming loop spins while one answer has stopped and another
  is slow (`answer_synthesize.py:248`); an import stops halfway when a
  vertex cannot be created, and goes on when an edge cannot
  (`commit_to_hugegraph.py:164`); with a schema that has no ids of labels,
  edges of one chunk may be imported between vertices of another
  (`commit_to_hugegraph.py:169`); readers other than the reviewed extraction
  read settings without the lock;
* client: methods whose path the router formats may address the object of
  another thread (`huge_router.py:166`), so `DataCallsReachTheirTarget` is
  about the data calls, which build their paths themselves; a retried PUT that
  appends to a list appends twice; a retried DELETE answers not found although
  it deleted; `get_histograms_metrics` reads the gauges (`metric.py:35`);
  Vermeer's session ignores the HTTP status (`vermeer_requests.py:99`).

## Proofs

Each module of proofs has an inductive invariant, a lemma per action (or group
of actions) that it is kept, and the theorems that follow from it. Nothing
bounds the number of operations, calls, nonces, pipelines, replicas, threads,
retries, edges, payloads, schema objects or chunks; the clock and the counters that end a run are bounded by constants
that may be any natural number. The assumptions on the constants are in the
modules that declare them (`ConstantsAssumption`, `LedgerAssumption`,
`SchedulerAssumption`, `ConfigAssumption`, `ServerAssumption`,
`ClientAssumption`, `RagAnswersAssumption`, `VectorIndexAssumption`,
`ChangeAssumption`, `SchemaAssumption`, `ExtractionAssumption`,
`GraphAssumption`), and TLC evaluates them in the runs: types, disjoint names,
positive lease and TTL, and what the server guarantees of its data (an edge is
identified by its id, only a label with a primary key has primary key values,
data types have their canonical spelling).

### The write path

* `TypeCorrect`, `LedgerTypeCorrect`: the type invariants.
* `SuccessIsProven` (`AppliedWasReached`): an operation that is recorded as
  applied had its desired state in the graph. The property is not inductive: a
  receipt or a verdict is decided in one step and written several steps later.
  `Evidence` adds that every pending success receipt of an executor and every
  pending success verdict of a reconciler is about an operation in `reached`,
  which only grows.
* `ReportIsTruthful` (`ReportedAgreesWithOperations`). The
  reported status is the stored one or, once the lease of an executor has
  lapsed, UNKNOWN. `Agreement` is about the stored one and adds that a plan with an
  owner is EXECUTING or PARTIAL; every transaction that writes a row also writes
  the aggregate of the rows it reads in the same transaction.
* `SentAtMostOnce`, `SentInOrder`, `RejectedIsUntouched` and
  `ConfirmKeepsPromise` (`DispatchedAtMostOnce`, `DispatchedInOrder`,
  `RejectedMeansUntouched`, `ImplementsPlanOutcome`) are about plans that are
  confirmed and reconciled and not resumed: `Resumers = {}`. No tool of the
  server calls `WriteExecutor.resume`; only tests do. With resumes the
  properties hold for a plan of one operation (run `resume`) and fail for
  longer ones (`replay_race`, `resume_race`). `RejectedIsUntouched` also
  assumes that `CREATE_VERTEX` is not registered, which is so
  (`graph_write_adapter.py:187` and `schema_write_adapter.py:156` register
  `DELETE_EDGE` and `CREATE_SCHEMA`): its adapter reports a rejection after a
  write whose effect somebody removed.
  The invariant is `Exclusive`. `SoleExecutor`: `claim_plan` takes an ISSUED
  plan and no other, so one call works on it, and what was sent was sent by that
  call. `ClaimedInOrder`: a row is claimed only after the rows before it
  succeeded. `LeaseGuardsRows`: while the owner holds its lease its rows are as
  it left them; this is what fails to be said by the other two and is needed
  because the executor's list of things to do is older than its claims.
  `ReconcilersLate`: a reconciler past its first read works on a plan that was
  claimed, so its verdicts are about rows that were claimed too, or authorise
  the replay of rows that nobody can claim any more. `RefusedUnsent` adds that a
  request refused before the write was not sent.
  `ConfirmKeepsPromise` is the refinement: initial states map to initial states
  and every step to a step of `PlanOutcome` or to a stutter, by the kinds of
  changes a step makes to rows and plan.
* `NonceIsSingleUse` (`SingleUse`) and `AttemptStaysOnRecord`
  (`ExecutedIsOnRecord`): at most one attempt per nonce. `OneHolder` adds that
  a call about to execute has its hash in the ledger's operations, that two
  such calls with one nonce are the same call, and that none of them has the
  nonce of an execution on record. Consumption is the only step that creates a
  holder, and it requires that no operation has the nonce; rows of operations
  are never deleted. All other steps are quiet (`QuietStep`). Neither the table
  of consumed nonces nor the clock occurs in the argument: the UNIQUE column of
  `write_operations` alone makes a confirmation single-use.
* `WritesAreApproved` (`ExecutedWhatWasApproved`). `Approved` adds that
  an issued row holds the payload that was hashed, and that a call past
  `verify_plan_hash` does. Before that a call may hold another payload: the
  nonce may have been issued again.
* `OutcomesAreFinal` (`OutcomeFinal`, an action property). `Pending` says that a
  call that executes or is about to record an outcome has a row that is still
  EXECUTING, and that no other such call has the same row.

### hugegraph-llm

* `SchedulerTypeCorrect`, `PipelinesAreExclusive` (`PipelineServesOneCall`): `Pooled`
  adds that a pipeline is free for one flow only, that whether a call's pipeline
  is new follows from where the call is, and that a busy pipeline is in the
  hands of a call that fetched it.
* `AnswersAreOwn` (`AnswerIsOwn`). `Owned` adds whose input a pipeline
  holds at each point of a call, and that a free pipeline carries no stream
  flag.
* `ReuseBoundsThePools` (`PoolBoundedByPeak`). The bound is kept by `Bounded`:
  the pipelines held *and those being built* are at most `peak`. A call builds
  only when no pipeline is free, and every busy pipeline belongs to a call
  under way. Sets of calls are finite (`SchedulerAssumption`): a process has
  finitely many.
* `ConfigTypeCorrect`, `SnapshotsAreVerified` (`SnapshotVerified`).
  `Transactional` says, per request and program counter, what the settings and
  the two nested backups may hold: what a failed request rolls back to is
  verified, and outside the lock everything is.
* `AnswersAreWhole` (`AnswersComplete`). `Streams` says that while answers are
  streamed the dictionary lacks exactly the tokens whose tasks are done and not
  yet taken, and that the caller has seen the dictionary. The loop ends when as
  many generators have stopped as were asked; that these are all of them is a
  fact about finite sets.
* `UpdatesAreComplete` (`UpdateIndexesFetched`). The code saves the index only
  if it added something. `VidInv` says why that is enough. `CallInv`: what the
  copy of a Faiss call holds (`FaissCall`), or what a call has read from its
  collection (`ServerCall`), is persisted with the dimension of the call for as
  long as the call is alone, and a call that is not alone promises nothing.
  `Solitude`: while a call is alone no other update and no cleaning runs, so no
  step of another call can disturb it. `CalmStore`: as long as no updates
  overlapped and no save was cut short, no collection holds an id twice and, when
  no save is under way, the two files are of one save.
* `ExamplesAreComplete` (`PublishedExamplesComplete`). `ExamplesInv`: both files
  and every index in memory hold all batches of the default examples equally
  often. The files may be of different saves, and each satisfies it by itself,
  so no assumption on the two writes is needed.
* `ExtractionTyped` (the type invariant with the budgets of a request).
  `ShapeInv` says what is left of the budgets at each stage (`AtStage`: a chunk
  in review has a review left, one in repair a fix) and that every call of the
  model is the first, a review or a repair (`InBudget`).
* `FinalGraphsPass` (`FinalGraphPassed`) and `FinalEdgesMeanOneVertex`
  (`FinalEdgesUnambiguous`), for every set of graphs the model may answer with.
  `ReviewInv`: a graph under review or final is `Passed`, that is, the normal
  form of an answer and without issues. The lemmas are about `normalize`: a
  graph without issues comes from an unambiguous answer, normalising it again
  changes nothing (every alias of the normal form stands for itself), and an
  endpoint that is valid in the normal form is meant by a vertex of the answer,
  whose target is the only one because the answer is unambiguous.
* `ImportedEdgesMeant` (`ImportedEdgesAsExtracted`), for schemas that carry the
  ids of their labels, as those read from the server do. `ImportInv`: both paths
  return graphs that `Loads` relates to the answer (vertices have their
  server's id already or are of a label with AUTOMATIC ids, edges name an id that
  a meant vertex has). `MappingOK`: whatever the other chunks called their
  vertices, `vid_mapping` takes an id to itself as a text, or to the id generated
  for a note that had it (`Remembered`). `StoredOK`: the generated ids in HugeGraph
  are those of the notes. So an edge from a person to a document is never stored
  at a note, and every stored edge is as meant, with the one exception
  (`EdgesAsMeant`). The assumption is needed: in a schema without ids no canonical id can be computed,
  the ids that the model made up for two chunks share one mapping, and an edge
  of the first chunk may lead to a vertex of the second. The run `pipelines` has
  `SchemaHasIds = TRUE`; with FALSE TLC finds this in ten steps.

### Graph data and schema tools

* `DeletesAreReported` (`DeletionsPreviewedAndReported`). `DeleteInv`: `Bound`
  says that after the dry run every operation is bound to one edge, and
  `Accounted` that each edge this call removed, and nobody created again, is the
  target of an operation that was recorded as applied, is being verified, or
  failed with an unknown outcome. The aggregate of statuses with such a one
  among them never claims that nothing was deleted.
* `ImportsAreAsNamed` (`ImportedEndpointsAsNamed`). The preview is one step, so
  the proof is about its functions: the checks of a payload make identities
  distinct and endpoints name one vertex (`validate_graph_payload`), the mapping
  keeps what is named (`edge_endpoint_match`), and the dry run finds the planned
  vertex. The mapping takes the last vertex whose id or key has the endpoint's
  text: `LastPosition` says that there is one (the natural numbers are well
  founded), `LookedUp` what is found, and `SameValue` that outside the exception
  it has the endpoint's value. The case split is over the forms of an endpoint.
* `ValidBatchesApply` (`ValidBatchApplies`). `ValidInv`: a call that reports
  its batch as valid validated that batch against the schema it read. That each
  operation finds what it refers to follows from the prefix of the batch, a set
  of created objects; no induction is needed, because validation and the server
  both look at all earlier operations. The order in which the builder sends
  nullable keys does not matter to the server's checks, which are about sets.
* `SchemaReportsTrue` (`SchemaAnswersTruthful`). `TruthInv` has, per program
  counter, what a call has read and written (`CallTruth`), that a legacy call
  that writes has its plan EXECUTING in the ledger and shares it with no other
  (`Claimed`, `OnePlanEach`), that plans in the ledger were validated
  (`LedgerTruth`), and that data types on the server have their canonical
  spelling, which makes the comparison of aliases exact.

### Server and client

* `ServerTypeCorrect`, `FrozenSendsNothing` (`FrozenServerSendsNoWrite`). A call
  is `Stopped` if, once the environment froze it, the environment stays
  read-only and it is before the second load of the admin gate; the cache is
  keyed by the snapshot it was parsed from (`CacheOK`), so a configuration of
  an earlier environment is never the answer to a load of this one.
* `RefreshesHitTheirGraph` (`RefreshHitsExpectedGraph`): a replica that has
  checked a request keeps its graph until the request has run, as it holds
  `runtime_config_lock`; a replica of the old version is never asked.
* `ClientTypeCorrect`, `WritesHappenOnce` (`WritesTakeEffectOnce`). `Effects`
  counts: a call that is still under way has had at most one effect per earlier
  attempt, and none if its method is POST, because a POST is sent again only if
  no connection was made.
* `DataCallsAreNotMixedUp` (`DataCallsReachTheirTarget`). `HasPath`: a call's
  path is that of its own request or that of a request for the same method,
  which another thread stored in between. For the data calls both address the
  same object: they build their path themselves, or it is a constant of the
  router (`ClientAssumption`: such a path names one object whatever the
  arguments). What the proof uses of the table of methods is `MethodTable`, a
  statement without constants that TLC evaluates: the provers have no theory of
  the operators `:>` and `@@` that build the table.

### Only model-checked

* Liveness (`live`, `FetchedIsReleased`, `AnswerEnds`): liveness under fairness
  is outside the prover's reach.
* `ExecutedReadsDoNotWrite`: the scanner is a recursive function over a text,
  and what it computes for every text needs induction over data.
* `ScanIsComplete`: a page is a sorted sequence built by the community modules'
  operators; that paging visits all of it is again an induction.
* `NoLostUpdate` and `AnswerUsesAllEvidence` of the workflows. The only
  constant of `WorkflowRun` that matters is the set of flows; all thirteen, and
  all orders of their threads, are in the run `pipelines`, so TLC already covers
  every case of the model.
* Plans with resumes, see above.
* `PipelinesTypeOK` and `GatewayTypeOK`, which put the type invariants of all
  components of a run together; the theorems prove those of the scheduler, the
  configuration, the extraction, the server and the client.

## Plan

1. Done: `WritePlan`, `WriteAdapters`, `WriteExecution`, `ConfirmationStore`
   and their first theorems.
2. Done: `PlanOutcome` and the refinement; the scheduler, workflows, answers,
   indices, extraction and configuration of `hugegraph-llm`; the Gremlin
   policy, queries, schema tool, graph data tool, server and refresh protocol of
   `hugegraph-mcp`; the Python client.
3. Done: theorems about the write path without resumes, the refinement, the
   ledger, the scheduler, the answers, the indices, the configuration, the
   server and the client.
4. Done: theorems about the graph data tool, the schema tool, the extraction
   and the import. What is left is outside the prover's reach, see above.

## Not modelled

* `hugegraph-ml` (about a quarter of the code): models and trainers over DGL and
  PyTorch, and conversions of graphs to tensors. Numeric kernels have no
  protocol, no shared state and no small exact instance.
* The user interface, logging, admin pages, prompt texts and example resources
  of `hugegraph-llm`; LLM, embedding and reranker clients other than the OpenAI
  one, which have the same interface.
* The import through the AI service in `ingest_graph_data.py`
  (`ingest_graph_data_via_ai`), which no tool calls; the create_edge adapter,
  which the default registry does not have; file permissions and schema versions
  of the SQLite databases.
* Wording and layout of envelopes, and the parsing of model output into JSON.

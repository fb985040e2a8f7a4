---------------------------- MODULE WorkflowRun ----------------------------
(***************************************************************************)
(* One run of one pipeline of hugegraph-llm: the nodes of a flow's graph    *)
(* run in PyCGraph's threads over a shared WkFlowState.  A node takes a     *)
(* snapshot of the state under its lock, works on the copy, and stores the  *)
(* whole copy back under the lock, so two nodes that overlap can undo each  *)
(* other's results.                                                         *)
(*                                                                          *)
(* A value of the state is abstracted to the nodes whose results flowed     *)
(* into it and to whether it is truthy.  A dictionary, and the state, is a   *)
(* function on the keys it has: members that are None are left out, as      *)
(* to_json leaves them out.                                                 *)
(***************************************************************************)
EXTENDS Naturals, FiniteSets, TLC

CONSTANTS
  Flows,       \* the flows whose runs are explored
  NoData,      \* data_json is None
  Err          \* an operator raised

FlowNodes == {"vector", "keyword", "semantic", "schema", "graph", "merge", "answer",
              "chunk", "extract", "commit", "examples", "text2gremlin", "execute",
              "fetch", "semantic_index", "vector_index", "example_index",
              "prompt_generate", "schema_build"}

\* Members of WkFlowState that some node reads or writes.  "answers" stands for the
\* four answers, "graph_result" for its degrees and its head too, "summary" for the
\* counts and the note of the graph.
Keys == {"query", "schema", "simple_schema", "chunks", "vertices", "edges", "triples",
         "call_count", "chunk_results", "extraction_status", "keywords", "vector_result",
         "graph_result", "graph_result_flag", "graph_ratio", "match_vids",
         "match_result", "result", "raw_result", "exec_res", "answers",
         "stream_generator", "generated_extract_prompt", "embed_dim", "summary",
         "vid_vector_num", "prompt_inputs", "schema_inputs"}

Value == [by : SUBSET (FlowNodes \cup {"input"}), some : BOOLEAN]
Input == [by |-> {"input"}, some |-> TRUE]

\* What every RAG flow's prepare leaves in data_json (query, vector_search,
\* graph_search, max_graph_items, is_graph_rag_recall), and the imported data.
rag_data == [query |-> Input]
import_data == [vertices |-> Input, edges |-> Input, schema |-> Input]

ASSUME WorkflowAssumption == NoData # Err

----------------------------------------------------------------------------
(* The graphs of the flows: each node with the nodes it depends on          *)

BuildVectorIndexFlow == "chunk" :> {} @@ "vector_index" :> {"chunk"}
GraphExtractFlow == "schema" :> {} @@ "chunk" :> {} @@ "extract" :> {"schema", "chunk"}
ImportGraphDataFlow == "schema" :> {} @@ "commit" :> {"schema"}
UpdateVidEmbeddingsFlow == "fetch" :> {} @@ "semantic_index" :> {"fetch"}
GetGraphIndexInfoFlow == "fetch" :> {}
BuildSchemaFlow == "schema_build" :> {}
PromptGenerateFlow == "prompt_generate" :> {}
BuildExamplesIndexFlow == "example_index" :> {}
Text2GremlinFlow == "schema" :> {} @@ "examples" :> {}
                    @@ "text2gremlin" :> {"schema", "examples"}
                    @@ "execute" :> {"text2gremlin"}
RAGRawFlow == "answer" :> {}
RAGVectorOnlyFlow == "vector" :> {} @@ "merge" :> {"vector"} @@ "answer" :> {"merge"}
RAGGraphOnlyFlow == "keyword" :> {} @@ "semantic" :> {"keyword"} @@ "schema" :> {}
                    @@ "graph" :> {"schema", "semantic"} @@ "merge" :> {"graph"}
                    @@ "answer" :> {"merge"}

\* Mutant: merge is registered without its dependency on the vector query.
RAGGraphVectorFlow_merge_early ==
  "vector" :> {} @@ "keyword" :> {} @@ "semantic" :> {"keyword"} @@ "schema" :> {}
  @@ "graph" :> {"schema", "semantic"} @@ "merge" :> {"graph"} @@ "answer" :> {"merge"}

\* Mutant: the answer is registered next to merge, not after it.
RAGGraphVectorFlow_answer_early ==
  "vector" :> {} @@ "keyword" :> {} @@ "semantic" :> {"keyword"} @@ "schema" :> {}
  @@ "graph" :> {"schema", "semantic"} @@ "merge" :> {"graph", "vector"} @@ "answer" :> {"graph"}

RAGGraphVectorFlow == "vector" :> {} @@ "keyword" :> {} @@ "semantic" :> {"keyword"}
                      @@ "schema" :> {} @@ "graph" :> {"schema", "semantic"}
                      @@ "merge" :> {"graph", "vector"} @@ "answer" :> {"merge"}

RAGFlows == {"rag_raw", "rag_vector_only", "rag_graph_only", "rag_graph_vector"}

\* Scheduler.__init__ registers these thirteen.
Graph(f) ==
  CASE f = "build_vector_index"    -> BuildVectorIndexFlow
    [] f = "graph_extract"         -> GraphExtractFlow
    [] f = "import_graph_data"     -> ImportGraphDataFlow
    [] f = "update_vid_embeddings" -> UpdateVidEmbeddingsFlow
    [] f = "get_graph_index_info"  -> GetGraphIndexInfoFlow
    [] f = "build_schema"          -> BuildSchemaFlow
    [] f = "prompt_generate"       -> PromptGenerateFlow
    [] f = "build_examples_index"  -> BuildExamplesIndexFlow
    [] f = "text2gremlin"          -> Text2GremlinFlow
    [] f = "rag_raw"               -> RAGRawFlow
    [] f = "rag_vector_only"       -> RAGVectorOnlyFlow
    [] f = "rag_graph_only"        -> RAGGraphOnlyFlow
    [] f = "rag_graph_vector"      -> RAGGraphVectorFlow

FlowNames13 == {"build_vector_index", "graph_extract", "import_graph_data",
  "update_vid_embeddings", "get_graph_index_info", "build_schema", "prompt_generate",
  "build_examples_index", "text2gremlin"} \cup RAGFlows

----------------------------------------------------------------------------
VARIABLES
  flow,       \* the flow that runs
  wk_input,   \* the parts of WkFlowInput that steer the nodes
  data_json,  \* wk_input.data_json: the values to seed the state with, or NoData
  context,    \* WkFlowState
  node,       \* how far each node is
  snapshot,   \* what each node works on
  found       \* history: the nodes that found evidence for an answer

workflowVars == <<flow, wk_input, data_json, context, node, snapshot, found>>

Nodes == DOMAIN Graph(flow)
NodePCs == {"waiting", "check", "assign", "init", "working", "done", "skipped", "error"}
Dict(d) == DOMAIN d \subseteq Keys /\ \A k \in DOMAIN d : d[k] \in Value

WorkflowTypeOK ==
  /\ flow \in Flows /\ Flows \subseteq FlowNames13
  /\ wk_input \in [stream : BOOLEAN, recall : BOOLEAN, vector_only : BOOLEAN,
                   user_schema : BOOLEAN, review : BOOLEAN, tmpl : BOOLEAN]
  /\ data_json = NoData \/ Dict(data_json)
  /\ Dict(context)
  /\ node \in [Nodes -> NodePCs]
  /\ DOMAIN snapshot = Nodes /\ \A n \in Nodes : Dict(snapshot[n])
  /\ found \subseteq Nodes

\* The flow's prepare; text2gremlin and the index flows seed nothing.
prepare_data(f) == CASE f \in RAGFlows          -> rag_data
                     [] f = "import_graph_data" -> import_data
                     [] OTHER                   -> NoData

\* Only rag_graph_only has the recall modes, only the RAG flows stream.  A user
\* schema is JSON, the other kind is a graph's name; tmpl is gremlin_tmpl_num >= 0.
WorkflowInit ==
  /\ flow \in Flows
  /\ wk_input \in [stream : BOOLEAN, recall : BOOLEAN, vector_only : BOOLEAN,
                   user_schema : BOOLEAN, review : BOOLEAN, tmpl : BOOLEAN]
  /\ wk_input.stream => flow \in RAGFlows
  /\ wk_input.recall \/ wk_input.vector_only => flow = "rag_graph_only"
  /\ wk_input.user_schema => flow \in {"graph_extract", "import_graph_data", "text2gremlin"}
  /\ wk_input.review => flow = "graph_extract"
  /\ wk_input.tmpl => flow \in RAGFlows
  /\ data_json = prepare_data(flow)
  /\ context = <<>>
  /\ node = [n \in Nodes |-> "waiting"]
  /\ snapshot = [n \in Nodes |-> <<>>]
  /\ found = {}

----------------------------------------------------------------------------
(* What the operators return for a snapshot s: a set of dictionaries, and   *)
(* Err for an exception                                                     *)

Truthy(s, k) == k \in DOMAIN s /\ s[k].some
With(s, new) == new @@ s

\* A value made by node n from the values of s at ks.
Made(n, s, ks, some) ==
  [by |-> {n} \cup UNION {s[k].by : k \in ks \cap DOMAIN s}, some |-> some]

\* SchemaManager.run reads the graph's schema, CheckSchema.run the user's.
SchemaManager_run(s) ==
  {With(s, [schema |-> Made("schema", s, {}, TRUE),
            simple_schema |-> Made("schema", s, {}, TRUE)]), Err}
CheckSchema_run(s) == {With(s, [schema |-> Made("schema", s, {}, TRUE)]), Err}
SchemaNode(s) == IF wk_input.user_schema THEN CheckSchema_run(s) ELSE SchemaManager_run(s)

ChunkSplit_run(s) == {With(s, [chunks |-> Made("chunk", s, {}, some)]) : some \in BOOLEAN}

\* run_chunks and the summary of its results: a dictionary of its own.
extract_reviewed(s) ==
  IF Truthy(s, "chunks") /\ "schema" \in DOMAIN s
  THEN {[k \in {"vertices", "edges", "chunk_results", "extraction_status", "call_count"} |->
              Made("extract", s, {"chunks", "schema"}, some)] : some \in BOOLEAN}
  ELSE {Err}
\* PropertyGraphExtract.run or InfoExtract.run, by extract_type.
Extract_run(s) ==
  {With(s, [vertices |-> Made("extract", s, {"chunks", "schema"}, some),
            edges |-> Made("extract", s, {"chunks", "schema"}, some),
            call_count |-> Made("extract", s, {"call_count"}, TRUE)]) : some \in BOOLEAN}
  \cup {With(s, [triples |-> Made("extract", s, {"chunks", "schema"}, TRUE),
                 call_count |-> Made("extract", s, {"call_count"}, TRUE)]), Err}
ExtractNode(s) == IF wk_input.review THEN extract_reviewed(s) ELSE Extract_run(s)

\* KeywordExtract.run on the question of the request, by a model, by TextRank or both.
KeywordExtract_run(s) ==
  {With(s, [query |-> Input, keywords |-> Made("keyword", s, {"query"}, some),
            call_count |-> Made("keyword", s, {"call_count"}, TRUE)]) : some \in BOOLEAN}
  \cup {Err}
\* A ValueError leaves no keywords; another exception fails the node.
KeywordExtractNode(s) ==
  KeywordExtract_run(s) \cup {With(s, [query |-> Input, keywords |-> Made("keyword", s, {}, FALSE)])}

\* Ids that equal a keyword, and ids whose embeddings are near one.
SemanticIdQuery_run(s) ==
  IF Truthy(s, "keywords")
  THEN {With(s, [match_vids |-> Made("semantic", s, {"keywords"}, some)]) : some \in BOOLEAN}
       \cup {Err}
  ELSE {With(s, [match_vids |-> Made("semantic", s, {}, FALSE)])}
SemanticIdQueryNode(s) ==
  IF Truthy(s, "query") \/ Truthy(s, "keywords") THEN SemanticIdQuery_run(s) ELSE {s}

VectorIndexQuery_run(s) ==
  {[vector_result |-> Made("vector", s, {"query"}, some)] : some \in BOOLEAN} \cup {Err}
\* An exception of the query is logged and the snapshot is returned as it is.
VectorQueryNode(s) ==
  IF Truthy(s, "query")
  THEN {IF r = Err THEN s ELSE With(s, r) : r \in VectorIndexQuery_run(s)}
  ELSE {s}

\* The paths of a query as text: a vertex already on the path, or an empty result, adds
\* nothing.
format_graph_query_result(s, from, some) ==
  With(s, [graph_result |-> Made("graph", s, from, some),
           graph_result_flag |-> Made("graph", s, {}, some)])
\* The Gremlin that a model writes for the question; an empty or failed query falls
\* back on the neighbourhood of the matched vertices.
gremlin_generate_query(s) ==
  {format_graph_query_result(s, {"query", "simple_schema", "match_vids"}, TRUE)}
subgraph_query(s) ==
  IF Truthy(s, "match_vids")
  THEN {format_graph_query_result(s, {"match_vids"}, some) : some \in BOOLEAN}
  ELSE {s}
\* Every exception is swallowed: the snapshot with the flag, perhaps with the empty
\* result of the first query, is returned.
GraphQueryNode(s) ==
  IF Truthy(s, "query")
  THEN LET flagged == With(s, [graph_result_flag |-> Made("graph", s, {}, FALSE)])
           nothing == With(flagged, [graph_result |-> Made("graph", s, {}, FALSE)])
       IN  {flagged} \cup subgraph_query(flagged)
           \cup (IF wk_input.tmpl
                 THEN {nothing} \cup gremlin_generate_query(flagged) \cup subgraph_query(nothing)
                 ELSE {})
  ELSE {s}

\* Both results are deduplicated, ranked and cut to their share of the places; a
\* missing one becomes the empty list.  A ValueError returns the dictionary as it
\* is by then.
MergeDedupRerank_run(s) ==
  {With(s, [graph_ratio |-> Made("merge", s, {}, TRUE),
            vector_result |-> Made("merge", s, {"vector_result"}, Truthy(s, "vector_result")),
            graph_result |-> Made("merge", s, {"graph_result"}, Truthy(s, "graph_result"))])}
MergeRerankNode(s) ==
  MergeDedupRerank_run(s) \cup {With(s, [graph_ratio |-> Made("merge", s, {}, TRUE)]), Err}

\* One prompt per answer asked for, from the vector and the graph results.
AnswerSynthesize_run(s) ==
  {With(s, [answers |-> Made("answer", s, {"query", "vector_result", "graph_result"}, TRUE),
            call_count |-> Made("answer", s, {"call_count"}, TRUE)]), Err}
\* The generator keeps the snapshot: its answers are made from it as it is now.
run_streaming(s) ==
  {With(s, [stream_generator |->
              Made("answer", s, {"query", "vector_result", "graph_result"}, TRUE)])}
AnswerSynthesizeNode(s) ==
  IF wk_input.stream THEN run_streaming(s)
  ELSE IF Truthy(s, "query") THEN AnswerSynthesize_run(s) ELSE {Err}

\* The examples nearest to the query of the snapshot, which must be there.
GremlinExampleIndexQuery_run(s) ==
  IF Truthy(s, "query")
  THEN {With(s, [match_result |-> Made("examples", s, {"query"}, TRUE)])}
  ELSE {Err}
\* ValueError becomes a "status", which is no member of WkFlowState.
GremlinExampleIndexQueryNode(s) ==
  {IF r = Err THEN <<>> ELSE r : r \in GremlinExampleIndexQuery_run(s)}

\* Two prompts: one with a fixed example, one with the matched ones.
GremlinGenerateSynthesize_run(s) ==
  {With(s, [query |-> Input,
            raw_result |-> Made("text2gremlin", s, {"schema", "simple_schema"}, TRUE),
            result |-> Made("text2gremlin", s, {"schema", "simple_schema", "match_result"}, TRUE),
            call_count |-> Made("text2gremlin", s, {"call_count"}, TRUE)]), Err}
\* The schema of the snapshot, as it is or simplified, and the question of the request.
Text2GremlinNode(s) == GremlinGenerateSynthesize_run(With(s, [query |-> Input]))
\* Both queries are run with a limit; one that fails leaves its message.
GremlinExecuteNode(s) ==
  {With(s, [exec_res |-> Made("execute", s, {"result", "raw_result"}, some)]) : some \in BOOLEAN}

FetchGraphData_run(s) ==
  {With(s, [summary |-> Made("fetch", s, {}, TRUE), vertices |-> Made("fetch", s, {}, some),
            edges |-> Made("fetch", s, {}, some)]) : some \in BOOLEAN} \cup {s, Err}
BuildSemanticIndex_run(s) ==
  IF "vertices" \notin DOMAIN s THEN {Err}
  ELSE {With(s, [vid_vector_num |-> Made("semantic_index", s, {"vertices"}, TRUE)]), Err}
\* Nothing of the state changes: the chunks go to the index on disk.
BuildVectorIndex_run(s) == IF "chunks" \notin DOMAIN s THEN {Err} ELSE {s, Err}
BuildGremlinExampleIndex_run(s) ==
  {With(s, [embed_dim |-> Made("example_index", s, {}, TRUE)]), Err}
PromptGenerate_run(s) ==
  {With(s, [generated_extract_prompt |-> Made("prompt_generate", s, {"prompt_inputs"}, TRUE)]), Err}
SchemaBuilder_run(s) == {[schema |-> Made("schema_build", s, {"schema_inputs"}, TRUE)], Err}
\* Commit2Graph.run writes to HugeGraph and returns the data it was given.
Commit2GraphNode(s) == {s, Err}

operator_schedule(n, s) ==
  CASE n = "schema"          -> SchemaNode(s)
    [] n = "chunk"           -> ChunkSplit_run(s)
    [] n = "extract"         -> ExtractNode(s)
    [] n = "keyword"         -> KeywordExtractNode(s)
    [] n = "semantic"        -> SemanticIdQueryNode(s)
    [] n = "vector"          -> VectorQueryNode(s)
    [] n = "graph"           -> GraphQueryNode(s)
    [] n = "merge"           -> MergeRerankNode(s)
    [] n = "answer"          -> AnswerSynthesizeNode(s)
    [] n = "examples"        -> GremlinExampleIndexQueryNode(s)
    [] n = "text2gremlin"    -> Text2GremlinNode(s)
    [] n = "execute"         -> GremlinExecuteNode(s)
    [] n = "fetch"           -> FetchGraphData_run(s)
    [] n = "semantic_index"  -> BuildSemanticIndex_run(s)
    [] n = "vector_index"    -> BuildVectorIndex_run(s)
    [] n = "example_index"   -> BuildGremlinExampleIndex_run(s)
    [] n = "prompt_generate" -> PromptGenerate_run(s)
    [] n = "schema_build"    -> SchemaBuilder_run(s)
    [] n = "commit"          -> Commit2GraphNode(s)

----------------------------------------------------------------------------
(* The steps of a node                                                     *)

Failed == \E n \in Nodes : node[n] = "error"
Advance(n, pc) == node' = [node EXCEPT ![n] = pc]

\* VectorOnlyCondition and GraphRecallCondition choose the empty region.
choose(n) == \/ wk_input.vector_only /\ n \in {"schema", "graph", "merge"}
             \/ wk_input.recall /\ n = "answer"

\* PyCGraph starts a node when its dependencies are over and no node has failed.
start_node(n) ==
  /\ node[n] = "waiting"
  /\ ~Failed
  /\ \A m \in Graph(flow)[n] : node[m] \in {"done", "skipped"}
  /\ Advance(n, IF flow = "rag_graph_only" /\ choose(n) THEN "skipped" ELSE "check")
  /\ UNCHANGED <<flow, wk_input, data_json, context, snapshot, found>>

\* Nodes whose node_init may return an error: an input is missing or unusable, or
\* the operator cannot be built.
FallibleInit == {"chunk", "extract", "schema", "prompt_generate", "schema_build",
                 "example_index", "semantic", "vector", "merge", "answer"}

\* Values that a node's own node_init puts into the state before the base class's.
node_inputs(n) ==
  CASE n = "prompt_generate" -> [prompt_inputs |-> Input]
    [] n = "schema_build"    -> [schema_inputs |-> Input]
    [] n = "commit" /\ data_json # NoData -> data_json
    [] OTHER                 -> <<>>

\* WkFlowState.assign_from_json: the keys of the dictionary overwrite the members.
assign_from_json(state, d) == d @@ state

\* node_init, up to the test of data_json.  GremlinExecuteNode has no such test.
node_init(n) ==
  /\ node[n] = "check"
  /\ \/ /\ Advance(n, IF data_json = NoData \/ n = "execute" THEN "init" ELSE "assign")
        /\ context' = assign_from_json(context, node_inputs(n))
     \/ /\ n \in FallibleInit
        /\ Advance(n, "error")
        /\ UNCHANGED context
  /\ UNCHANGED <<flow, wk_input, data_json, snapshot, found>>

\* data_json is read again and assigned, then cleared.  No lock is held: when another
\* node has cleared it since the test, None has no items and the node raises.
assign_data_json(n) ==
  /\ node[n] = "assign"
  /\ IF data_json = NoData
     THEN Advance(n, "error") /\ UNCHANGED <<context, data_json>>
     ELSE /\ context' = assign_from_json(context, data_json)
          /\ data_json' = NoData
          /\ Advance(n, "init")
  /\ UNCHANGED <<flow, wk_input, snapshot, found>>

\* to_json under the lock.
to_json(n) ==
  /\ node[n] = "init"
  /\ snapshot' = [snapshot EXCEPT ![n] = context]
  /\ Advance(n, "working")
  /\ UNCHANGED <<flow, wk_input, data_json, context, found>>

\* The operator ends: its dictionary is assigned under the lock, or the node fails.
finish_node(n) ==
  /\ node[n] = "working"
  /\ \E r \in operator_schedule(n, snapshot[n]) :
       IF r = Err
       THEN Advance(n, "error") /\ UNCHANGED <<context, found>>
       ELSE /\ context' = assign_from_json(context, r)
            /\ Advance(n, "done")
            /\ found' = IF \/ n = "vector" /\ Truthy(r, "vector_result")
                           \/ n = "graph" /\ Truthy(r, "graph_result")
                        THEN found \cup {n} ELSE found
  /\ snapshot' = [snapshot EXCEPT ![n] = <<>>]
  /\ UNCHANGED <<flow, wk_input, data_json>>

WorkflowNext ==
  \E n \in Nodes : start_node(n) \/ node_init(n) \/ assign_data_json(n) \/ to_json(n) \/ finish_node(n)

WorkflowSpec == WorkflowInit /\ [][WorkflowNext]_workflowVars

----------------------------------------------------------------------------
(* Properties                                                              *)

Succeeded == \A n \in Nodes : node[n] \in {"done", "skipped"}

\* What a node stores over a value of the state, the node itself has made: storing
\* a whole snapshot back never undoes what another node has stored since.
\* (BaseNode.run takes the lock twice, not once.)
NoLostUpdate ==
  [][\A n \in Nodes : node[n] = "working" /\ node'[n] = "done" =>
       \A k \in DOMAIN context :
         context'[k] # context[k] => n \in context'[k].by]_workflowVars

\* When a RAG run ends well, its answers, or the generator that streams them, were
\* made from everything that the vector and the graph query found.
AnswerUsesAllEvidence ==
  flow \in RAGFlows /\ Succeeded /\ ~wk_input.recall =>
    LET out == IF wk_input.stream THEN "stream_generator" ELSE "answers"
    IN  out \in DOMAIN context /\ found \subseteq context[out].by
=============================================================================

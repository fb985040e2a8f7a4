----------------------------- MODULE Extraction -----------------------------
(***************************************************************************)
(* Graph extraction and import of hugegraph-llm.  The model's output for    *)
(* one text chunk is a graph; the reviewed path validates, reviews and      *)
(* repairs it within budgets, in a pool of workers; the plain path filters  *)
(* and normalises it; the triples path parses it.  What comes out is then   *)
(* committed to HugeGraph.                                                  *)
(*                                                                          *)
(* The schema has a vertex label "person" with one primary key, a label     *)
(* "doc" whose ids the client chooses, a label "note" whose ids HugeGraph   *)
(* makes (AUTOMATIC), and edge labels from a person to each of the others.  *)
(* A vertex is its label, the id the model gave it ("" for none), its       *)
(* primary key's value ("" for none) and whether its properties have their  *)
(* declared types; an endpoint is an id and a label, or, in the older       *)
(* format, a label and a primary key.  A list is a function of its places;  *)
(* a filter that drops an item leaves its place empty.                      *)
(***************************************************************************)
EXTENDS Naturals, Sequences, FiniteSets, SequencesExt

CONSTANTS
  NumChunks,      \* how many chunks the text was split into
  LlmGraphs,      \* the graphs the model may answer with
  MaxReviews, MaxFixes, MaxWorkers,   \* bounds of ExtractionOptions
  ExtractTypes,   \* the paths explored: "review", "plain", "triples"
  SchemaHasIds,   \* whether the schema's vertex labels carry their ids
  CanonicalId,    \* HugeGraph's id of a person, by the value of its primary key
  NoGraph

ASSUME ExtractionAssumption ==
  /\ NumChunks \in Nat \ {0} /\ MaxWorkers \in Nat \ {0}
  /\ MaxReviews \in Nat /\ MaxFixes \in Nat
  /\ SchemaHasIds \in BOOLEAN
  /\ ExtractTypes \subseteq {"review", "plain", "triples"}

Chunks == 1 .. NumChunks
VertexLabels == {"person", "doc", "note"}

\* source_label and target_label of the edge labels.
SourceLabel == "person"
TargetLabel == [wrote |-> "doc", noted |-> "note"]
EdgeLabels == DOMAIN TargetLabel

PkValues == DOMAIN CanonicalId
Vertex == [label : STRING, id : STRING, pk : PkValues \cup {""}, ok : BOOLEAN]
Endpoint == [id : STRING, label : STRING, pk : PkValues \cup {""}]
Edge == [label : STRING, out : Endpoint, in : Endpoint]

\* A label's id and a key's value make an id that is not empty; the model's answer,
\* whatever it says, has been parsed into lists of vertices and edges.
ASSUME GraphAssumption ==
  /\ "" \notin PkValues /\ \A k \in PkValues : CanonicalId[k] \in STRING \ {""}
  /\ LlmGraphs \subseteq [vertices : Seq(Vertex), edges : Seq(Edge)]

----------------------------------------------------------------------------
(* Identities                                                               *)

\* Mutant: the canonical id is never computed.
primary_key_id_never(label, pk) == ""

\* PropertyGraphExtract._primary_key_id: "" for None.
primary_key_id(label, pk) ==
  IF SchemaHasIds /\ label = "person" /\ pk # "" THEN CanonicalId[pk] ELSE ""

target(v) == LET canonical == primary_key_id(v.label, v.pk)
             IN  IF canonical # "" THEN canonical ELSE v.id

\* What each label and id of the graph's vertices may stand for.
aliases(g) ==
  {a \in UNION {{<<v.label, target(v), target(v)>>, <<v.label, v.id, target(v)>>} :
                  v \in {u \in ToSet(g.vertices) : u.label \in VertexLabels}} :
     a[2] # "" /\ a[3] # ""}

ambiguous(g) == \E a, b \in aliases(g) : a[1] = b[1] /\ a[2] = b[2] /\ a[3] # b[3]

\* An endpoint by its id, or by the primary key of the older format.
named_id(p) == IF p.id # "" THEN p.id ELSE primary_key_id(p.label, p.pk)

\* _normalize on an unambiguous graph; matches has one element then.
normalize_endpoint(g, p) ==
  LET matches == {a[3] : a \in {b \in aliases(g) : b[1] = p.label /\ b[2] = named_id(p)}}
  IN  IF matches = {} THEN p ELSE [p EXCEPT !.id = CHOOSE t \in matches : TRUE]

normalized(g) ==
  [vertices |-> [i \in DOMAIN g.vertices |->
                   LET v == g.vertices[i]
                   IN  IF v.label \in VertexLabels /\ target(v) # ""
                       THEN [v EXCEPT !.id = target(v)] ELSE v],
   edges |-> [i \in DOMAIN g.edges |->
                [label |-> g.edges[i].label,
                 out   |-> normalize_endpoint(g, g.edges[i].out),
                 in    |-> normalize_endpoint(g, g.edges[i].in)]]]

\* Mutant: an ambiguous alias is resolved to one of its targets.
normalize_any(g) == normalized(g)

\* _normalize: an ambiguous graph is kept as it is.
normalize(g) == IF ambiguous(g) THEN g ELSE normalized(g)

\* The first vertex with the endpoint's id has the endpoint's label.
endpoint_valid(g, p) ==
  \E i \in DOMAIN g.vertices :
    /\ p.id # "" /\ g.vertices[i].id = p.id
    /\ \A j \in 1 .. i - 1 : g.vertices[j].id # p.id
    /\ g.vertices[i].label = p.label

\* The ends of an edge of a label of the schema have the labels it asks for.
schema_ends(e) == e.label \in EdgeLabels =>
                    e.out.label = SourceLabel /\ e.in.label = TargetLabel[e.label]

validate_properties(v) == v.ok /\ (v.label = "person" => v.pk # "")

\* The issues validate reports on a graph that is already normalised.
issues_of(g) ==
  LET V == g.vertices
  IN  {kind \in {"alias", "label", "properties", "primary key", "id", "endpoint"} :
         \/ kind = "alias" /\ ambiguous(g)
         \/ kind = "label"
            /\ \/ \E i \in DOMAIN V : V[i].label \notin VertexLabels
               \/ \E i \in DOMAIN g.edges : g.edges[i].label \notin EdgeLabels
         \/ kind = "properties"
            /\ \E i \in DOMAIN V : V[i].label \in VertexLabels /\ ~validate_properties(V[i])
         \/ kind = "primary key"
            /\ \E i, j \in DOMAIN V : /\ i < j /\ V[i].pk = V[j].pk /\ V[i].pk # ""
                                      /\ V[i].label = "person" /\ V[j].label = "person"
         \/ kind = "id"
            /\ \E i \in DOMAIN V : V[i].id = "" \/ \E j \in 1 .. i - 1 : V[j].id = V[i].id
         \/ kind = "endpoint"
            /\ \E i \in DOMAIN g.edges : ~(/\ endpoint_valid(g, g.edges[i].out)
                                           /\ endpoint_valid(g, g.edges[i].in)
                                           /\ schema_ends(g.edges[i]))}

validate(g) == [graph |-> normalize(g), issues |-> issues_of(normalize(g))]

----------------------------------------------------------------------------
(* The plain path                                                           *)

\* vertex_id_map: a later vertex overwrites an earlier one's alias.
resolve_endpoint(vertices, p) ==
  LET named == {i \in DOMAIN vertices :
                  /\ vertices[i].label = p.label /\ named_id(p) # ""
                  /\ named_id(p) \in {vertices[i].id, target(vertices[i])}}
      last == {i \in named : \A j \in named : j <= i}
  IN  IF last = {} THEN "" ELSE target(vertices[CHOOSE i \in last : TRUE])

normalize_vertices(vertices) ==
  [i \in DOMAIN vertices |-> [vertices[i] EXCEPT !.id = target(vertices[i])]]

\* process_items and _normalize_edges: an edge of an unknown label, or whose ends are not
\* found or have other labels than the schema's, is dropped.
normalize_edges(edges, vertices) ==
  LET resolves(e) == /\ e.label \in EdgeLabels /\ schema_ends(e)
                     /\ resolve_endpoint(vertices, e.out) # ""
                     /\ resolve_endpoint(vertices, e.in) # ""
  IN  [i \in {j \in DOMAIN edges : resolves(edges[j])} |->
         [label |-> edges[i].label,
          out |-> [edges[i].out EXCEPT !.id = resolve_endpoint(vertices, edges[i].out)],
          in  |-> [edges[i].in EXCEPT !.id = resolve_endpoint(vertices, edges[i].in)]]]

\* The vertices of the schema's labels.
labelled(g) == [i \in {j \in DOMAIN g.vertices : g.vertices[j].label \in VertexLabels} |->
                  g.vertices[i]]

extract_and_filter_label(g) ==
  [vertices |-> normalize_vertices(labelled(g)),
   edges    |-> normalize_edges(g.edges, labelled(g))]

----------------------------------------------------------------------------
VARIABLES
  extract_type,  \* the path this request takes
  options,       \* max_reviews and max_fixes of this request
  chunk,         \* where each chunk is, its graph, its counters and its status
  extracted,     \* what the flow returned: a status, and the chunks whose graphs it joined
  import,        \* Commit2Graph: where it is, what is left to load, its vid_mapping
  graph_db       \* the vertices (an id and a label) and edges HugeGraph stores

extractionVars == <<extract_type, options, chunk, extracted, import, graph_db>>

Stages == {"queued", "extract", "validate", "review", "repair", "done"}
Statuses == {"", "final", "candidate", "blocked", "failed"}
Decisions == {"pass", "fix", "block"}

fresh_chunk == [stage |-> "queued", graph |-> NoGraph, raw |-> NoGraph,
                reviewed |-> NoGraph, issues |-> {}, reviews_used |-> 0,
                fixes_used |-> 0, llm_calls |-> 0, status |-> ""]

ExtractionInit ==
  /\ extract_type \in ExtractTypes
  /\ options \in IF extract_type = "review"
                 THEN [max_reviews : 0 .. MaxReviews, max_fixes : 0 .. MaxFixes]
                 ELSE {[max_reviews |-> 0, max_fixes |-> 0]}
  /\ chunk = [c \in Chunks |-> fresh_chunk]
  /\ extracted = [status |-> "", chunks |-> {}]
  /\ import = [pc |-> "idle", pending |-> {}, vid_mapping |-> <<>>]
  /\ graph_db = [vertices |-> {}, edges |-> {}]

ExtractionTypeOK ==
  /\ extract_type \in ExtractTypes
  /\ options.max_reviews \in 0 .. MaxReviews /\ options.max_fixes \in 0 .. MaxFixes
  /\ \A c \in Chunks :
       /\ chunk[c].stage \in Stages /\ chunk[c].status \in Statuses
       /\ chunk[c].reviews_used \in 0 .. options.max_reviews
       /\ chunk[c].fixes_used \in 0 .. options.max_fixes
       /\ chunk[c].llm_calls \in 0 .. 1 + options.max_reviews + options.max_fixes
  /\ extracted.status \in {"", "succeeded", "partial", "failed", "plain", "error"}
  /\ import.pc \in {"idle", "vertices", "edges", "done", "failed"}

finish(c, k, status) == chunk' = [chunk EXCEPT ![c] = [k EXCEPT !.stage = "done", !.status = status]]

Active == {c \in Chunks : chunk[c].stage \notin {"queued", "done"}}

----------------------------------------------------------------------------
(* run_chunks and run_chunk                                                 *)

\* executor.map starts chunks in order as workers are free; prepare may raise.
run_prepared_chunk(c) ==
  /\ extract_type = "review" /\ chunk[c].stage = "queued"
  /\ Cardinality(Active) < MaxWorkers
  /\ \A d \in 1 .. c - 1 : chunk[d].stage # "queued"
  /\ \/ chunk' = [chunk EXCEPT ![c].stage = "extract"]
     \/ finish(c, chunk[c], "failed")
  /\ UNCHANGED <<extract_type, options, extracted, import, graph_db>>

\* A call of the model by extract or repair; an error ends the chunk where it is.
new_graph(c, k) ==
  \/ \E g \in LlmGraphs :
       chunk' = [chunk EXCEPT ![c] = [k EXCEPT !.stage = "validate", !.graph = g, !.raw = g,
                                               !.issues = {}]]
  \/ finish(c, k, "failed")

extract_chunk(c) ==
  /\ extract_type = "review" /\ chunk[c].stage = "extract"
  /\ new_graph(c, [chunk[c] EXCEPT !.llm_calls = @ + 1])
  /\ UNCHANGED <<extract_type, options, extracted, import, graph_db>>

\* Mutant: a valid graph is final when no review is left.
validate_chunk_final(c) ==
  /\ extract_type = "review" /\ chunk[c].stage = "validate"
  /\ LET v == validate(chunk[c].graph)
         k == [chunk[c] EXCEPT !.graph = v.graph, !.issues = v.issues]
     IN  IF v.issues # {}
         THEN IF k.fixes_used >= options.max_fixes
              THEN finish(c, k, "blocked")
              ELSE chunk' = [chunk EXCEPT ![c] = [k EXCEPT !.stage = "repair"]]
         ELSE IF k.reviews_used >= options.max_reviews
              THEN finish(c, k, "final")
              ELSE chunk' = [chunk EXCEPT ![c] = [k EXCEPT !.stage = "review"]]
  /\ UNCHANGED <<extract_type, options, extracted, import, graph_db>>

\* validate normalises the graph in place.
validate_chunk(c) ==
  /\ extract_type = "review" /\ chunk[c].stage = "validate"
  /\ LET v == validate(chunk[c].graph)
         k == [chunk[c] EXCEPT !.graph = v.graph, !.issues = v.issues]
     IN  \/ /\ v.issues # {} /\ k.fixes_used >= options.max_fixes
            /\ finish(c, k, "blocked")
         \/ /\ v.issues # {} /\ k.fixes_used < options.max_fixes
            /\ chunk' = [chunk EXCEPT ![c] = [k EXCEPT !.stage = "repair"]]
         \/ /\ v.issues = {} /\ k.reviews_used >= options.max_reviews
            /\ finish(c, k, "candidate")
         \/ /\ v.issues = {} /\ k.reviews_used < options.max_reviews
            /\ chunk' = [chunk EXCEPT ![c] = [k EXCEPT !.stage = "review"]]
  /\ UNCHANGED <<extract_type, options, extracted, import, graph_db>>

\* The model's verdict; reviewed records the graph it was given.
review_chunk(c) ==
  /\ extract_type = "review" /\ chunk[c].stage = "review"
  /\ LET k == [chunk[c] EXCEPT !.reviews_used = @ + 1, !.llm_calls = @ + 1]
     IN  \/ finish(c, k, "failed")
         \/ finish(c, [k EXCEPT !.reviewed = k.graph], "final")
         \/ finish(c, [k EXCEPT !.issues = {"review"}], "blocked")
         \/ LET f == [k EXCEPT !.issues = {"review"}]
            IN  IF k.fixes_used >= options.max_fixes
                THEN finish(c, f, "candidate")
                ELSE chunk' = [chunk EXCEPT ![c] = [f EXCEPT !.stage = "repair"]]
  /\ UNCHANGED <<extract_type, options, extracted, import, graph_db>>

\* Mutant: a repair does not use up the budget, so a graph that stays invalid is
\* repaired for ever.
repair_chunk_uncounted(c) ==
  /\ extract_type = "review" /\ chunk[c].stage = "repair"
  /\ new_graph(c, [chunk[c] EXCEPT !.llm_calls = @ + 1])
  /\ UNCHANGED <<extract_type, options, extracted, import, graph_db>>

repair_chunk(c) ==
  /\ extract_type = "review" /\ chunk[c].stage = "repair"
  /\ new_graph(c, [chunk[c] EXCEPT !.fixes_used = @ + 1, !.llm_calls = @ + 1])
  /\ UNCHANGED <<extract_type, options, extracted, import, graph_db>>

Final == {c \in Chunks : chunk[c].status = "final"}

\* ExtractNode._extract_with_review once every worker is done.
extract_with_review ==
  /\ extract_type = "review" /\ extracted.status = ""
  /\ \A c \in Chunks : chunk[c].stage = "done"
  /\ extracted' = [status |-> IF Final = Chunks THEN "succeeded"
                              ELSE IF Final # {} THEN "partial" ELSE "failed",
                   chunks |-> Final]
  /\ UNCHANGED <<extract_type, options, chunk, import, graph_db>>

----------------------------------------------------------------------------
(* The other paths: one chunk after the other, and an error ends the run    *)

Turn(c) == /\ extracted.status = "" /\ chunk[c].stage = "queued"
           /\ \A d \in 1 .. c - 1 : chunk[d].stage = "done"

raises == /\ extracted' = [extracted EXCEPT !.status = "error"]
          /\ UNCHANGED chunk

PropertyGraphExtract_run(c) ==
  /\ extract_type = "plain" /\ Turn(c)
  /\ \/ \E g \in LlmGraphs :
          chunk' = [chunk EXCEPT ![c] = [@ EXCEPT !.stage = "done", !.llm_calls = 1, !.raw = g,
                                                  !.graph = extract_and_filter_label(g)]]
        /\ UNCHANGED extracted
     \/ raises
  /\ UNCHANGED <<extract_type, options, import, graph_db>>

\* The parser reads schema["vertices"], which a prepared schema does not have: any
\* triple in the answer raises KeyError.
InfoExtract_run(c) ==
  /\ extract_type = "triples" /\ Turn(c)
  /\ \/ /\ chunk' = [chunk EXCEPT ![c] = [@ EXCEPT !.stage = "done", !.llm_calls = 1,
                                       !.graph = [vertices |-> <<>>, edges |-> <<>>]]]
        /\ UNCHANGED extracted
     \/ raises
  /\ UNCHANGED <<extract_type, options, import, graph_db>>

post_deal_plain ==
  /\ extract_type # "review" /\ extracted.status = ""
  /\ \A c \in Chunks : chunk[c].stage = "done"
  /\ extracted' = [status |-> "plain", chunks |-> Chunks]
  /\ UNCHANGED <<extract_type, options, chunk, import, graph_db>>

----------------------------------------------------------------------------
(* Commit2Graph                                                             *)

\* The returned lists are the chunks' graphs one after the other: a chunk and a place
\* in its graph name an item of them.
Places(list) == UNION {{c} \X DOMAIN chunk[c].graph[list] : c \in extracted.chunks}
before(p, q) == p[1] < q[1] \/ (p[1] = q[1] /\ p[2] < q[2])

\* p is the next item to load.
IsNext(p) == /\ p \in import.pending
              /\ \A q \in import.pending \ {p} : before(p, q)

\* HugeGraph's ids: a text, or a number made for the vertex that was created from the
\* item at place p.
NoPlace == <<0, 0>>
StringId(text) == [text |-> text, made_for |-> NoPlace]
AutomaticId(p) == [text |-> "", made_for |-> p]

\* A person's id comes from its primary key, a document's from the client.
text_id(v) == IF v.label = "person" /\ v.pk # "" THEN CanonicalId[v.pk] ELSE v.id

\* HugeGraph answers the addVertex of the item at p with the vertex's id.
server_id(p, v) == IF v.label = "note" THEN AutomaticId(p) ELSE StringId(text_id(v))

\* A label whose ids the client chooses needs one.
creatable(v) == v.label = "doc" => v.id # ""

\* load_into_graph skips such a vertex.
skipped(v) == v.label \notin VertexLabels \/ (v.label = "person" /\ v.pk = "") \/ ~v.ok

mapping_id(v) == IF v.id = "" /\ v.label = "person" THEN v.label \o ":" \o v.pk ELSE v.id

\* vid_mapping[mapping_id] = vid, for a vertex that has a mapping_id; one mapping serves
\* the vertices of all chunks.
remember(mapping, id, vid) ==
  IF id = "" THEN mapping
  ELSE [i \in DOMAIN mapping \cup {id} |-> IF i = id THEN vid ELSE mapping[i]]

\* Both empty: ValueError.
Commit2Graph_run ==
  /\ extracted.status \notin {"", "error"} /\ import.pc = "idle"
  /\ import' = IF Places("vertices") = {} /\ Places("edges") = {}
               THEN [import EXCEPT !.pc = "failed"]
               ELSE [import EXCEPT !.pc = "vertices", !.pending = Places("vertices")]
  /\ UNCHANGED <<extract_type, options, chunk, extracted, graph_db>>

\* One addVertex; a CreateError becomes a ValueError that ends the import half way.
load_vertex(p) ==
  /\ import.pc = "vertices" /\ IsNext(p)
  /\ LET v == chunk[p[1]].graph.vertices[p[2]]
     IN  \/ /\ skipped(v)
            /\ import' = [import EXCEPT !.pending = @ \ {p}]
            /\ UNCHANGED graph_db
         \/ /\ ~skipped(v) /\ creatable(v)
            /\ graph_db' = [graph_db EXCEPT !.vertices = @ \cup {<<server_id(p, v), v.label>>}]
            /\ import' = [import EXCEPT !.pending = @ \ {p},
                              !.vid_mapping = remember(@, mapping_id(v), server_id(p, v))]
         \/ /\ ~skipped(v)
            /\ import' = [import EXCEPT !.pc = "failed"]
            /\ UNCHANGED graph_db
  /\ UNCHANGED <<extract_type, options, chunk, extracted>>

vertices_loaded ==
  /\ import.pc = "vertices" /\ import.pending = {}
  /\ import' = [import EXCEPT !.pc = "edges", !.pending = Places("edges")]
  /\ UNCHANGED <<extract_type, options, chunk, extracted, graph_db>>

mapped(id) == IF id \in DOMAIN import.vid_mapping THEN import.vid_mapping[id] ELSE StringId(id)

\* One addEdge, unless the schema does not have the label; HugeGraph refuses ends that it
\* does not have or that have other labels, and the error is only logged.
load_edge(p) ==
  /\ import.pc = "edges" /\ IsNext(p)
  /\ LET e == chunk[p[1]].graph.edges[p[2]]
         start == mapped(e.out.id)
         end == mapped(e.in.id)
     IN  \/ /\ e.label \in EdgeLabels
            /\ <<start, SourceLabel>> \in graph_db.vertices
            /\ <<end, TargetLabel[e.label]>> \in graph_db.vertices
            /\ graph_db' = [graph_db EXCEPT !.edges =
                              @ \cup {[start |-> start, end |-> end, by |-> p]}]
         \/ UNCHANGED graph_db
  /\ import' = [import EXCEPT !.pending = @ \ {p}]
  /\ UNCHANGED <<extract_type, options, chunk, extracted>>

edges_loaded ==
  /\ import.pc = "edges" /\ import.pending = {}
  /\ import' = [import EXCEPT !.pc = "done"]
  /\ UNCHANGED <<extract_type, options, chunk, extracted, graph_db>>

load_into_graph ==
  \/ vertices_loaded \/ edges_loaded
  \/ \E p \in import.pending : load_vertex(p) \/ load_edge(p)

ChunkNext == \E c \in Chunks :
  \/ run_prepared_chunk(c) \/ extract_chunk(c) \/ validate_chunk(c)
  \/ review_chunk(c) \/ repair_chunk(c) \/ PropertyGraphExtract_run(c) \/ InfoExtract_run(c)

ExtractionNext ==
  \/ ChunkNext \/ extract_with_review \/ post_deal_plain
  \/ Commit2Graph_run \/ load_into_graph

ExtractionSpec == ExtractionInit /\ [][ExtractionNext]_extractionVars

----------------------------------------------------------------------------
(* Properties                                                               *)

\* A chunk is final only when the very graph it returns was valid as it stands and was
\* what the reviewer passed: no normalisation, repair or exhausted budget puts another
\* graph in its place (run_chunk).
FinalGraphPassed ==
  \A c \in Final : /\ chunk[c].reviewed = chunk[c].graph
                   /\ validate(chunk[c].graph) = [graph |-> chunk[c].graph, issues |-> {}]

\* The vertices of the answer g that one of its edges calls by the endpoint p.
meant(g, p) == {v \in ToSet(g.vertices) :
                  v.label = p.label /\ named_id(p) \in {v.id, target(v)} \ {""}}

\* An edge of a final chunk has exactly one vertex at each end that the model can have
\* meant: an alias that two vertices share is never settled by order (_normalize).
FinalEdgesUnambiguous ==
  \A c \in Final : \A i \in DOMAIN chunk[c].raw.edges : \A end \in {"out", "in"} :
    Cardinality({target(v) : v \in meant(chunk[c].raw, chunk[c].raw.edges[i][end])}) = 1

\* HugeGraph's ids of the vertices of chunk c's answer that the endpoint p means.
own_ids(c, p) ==
  LET g == chunk[c].raw
  IN  {server_id(<<c, i>>, g.vertices[i]) :
         i \in {j \in DOMAIN g.vertices : g.vertices[j] \in meant(g, p)}}

\* The ids made for the notes of other chunks that have the id of the endpoint p.
other_notes(c, p) ==
  {AutomaticId(q) : q \in {r \in Places("vertices") :
     LET v == chunk[r[1]].graph.vertices[r[2]]
     IN  r[1] # c /\ v.label = "note" /\ v.id = named_id(p)}}

\* In a schema that carries its ids, an edge in HugeGraph starts at a vertex that its own
\* chunk meant by that very edge's start and ends at one that it meant by its end, although
\* one vid_mapping serves all chunks (load_into_graph).  The one exception is an end whose
\* label has AUTOMATIC ids: when another chunk gave a vertex of that label the same id, the
\* mapping leads to the vertex it remembered last, and the edge may end at that chunk's.
ImportedEdgesAsExtracted ==
  \A e \in graph_db.edges :
    LET source == chunk[e.by[1]].raw.edges[e.by[2]]
    IN  /\ e.start \in own_ids(e.by[1], source.out)
        /\ e.end \in own_ids(e.by[1], source.in)
                     \cup IF source.in.label = "note" THEN other_notes(e.by[1], source.in) ELSE {}
=============================================================================

-------------------------- MODULE ExtractionProofs --------------------------
(***************************************************************************)
(* Theorems about Extraction: the budgets of a request, what a final        *)
(* chunk's graph has passed, and where the imported edges lead.             *)
(***************************************************************************)
EXTENDS Extraction, FiniteSetTheorems, TLAPS

----------------------------------------------------------------------------
(* Identities and normalisation                                             *)

\* The parts of an answer of the model.
LEMMA AnswerParts ==
  ASSUME NEW g \in LlmGraphs
  PROVE  /\ g = [vertices |-> g.vertices, edges |-> g.edges]
         /\ \A i \in DOMAIN g.vertices : g.vertices[i] \in Vertex
         /\ \A i \in DOMAIN g.edges : /\ g.edges[i] \in Edge
                                      /\ g.edges[i].out \in Endpoint
                                      /\ g.edges[i].in \in Endpoint
         /\ DOMAIN g.vertices \subseteq Nat /\ DOMAIN g.edges \subseteq Nat
<1>1. g \in [vertices : Seq(Vertex), edges : Seq(Edge)]
  BY GraphAssumption
<1>2. g.vertices \in Seq(Vertex) /\ g.edges \in Seq(Edge)
  BY <1>1
<1>3. \A e \in Edge : e.out \in Endpoint /\ e.in \in Endpoint
  BY DEF Edge
<1> QED
  BY <1>1, <1>2, <1>3

\* What an id stands for: never empty where the vertex has an id, HugeGraph's own id
\* where the schema carries its ids, and itself once it was replaced.
LEMMA TargetFacts ==
  ASSUME NEW v \in Vertex
  PROVE  /\ target(v) \in STRING
         /\ target(v) = "" => v.id = ""
         /\ SchemaHasIds => target(v) = text_id(v)
         /\ v.label = "note" => target(v) = v.id
         /\ \A w \in Vertex : (w.label = v.label /\ w.pk = v.pk /\ w.id = target(v))
                                 => target(w) = w.id
<1>1. /\ v.label \in STRING /\ v.id \in STRING /\ v.pk \in PkValues \cup {""}
  BY DEF Vertex
<1> QED
  BY <1>1, GraphAssumption DEF target, primary_key_id, text_id

LEMMA VertexNormal ==
  ASSUME NEW g \in LlmGraphs, NEW i \in DOMAIN g.vertices
  PROVE  LET v == g.vertices[i]
             w == normalized(g).vertices[i]
         IN  /\ w \in Vertex
             /\ w.label = v.label /\ w.pk = v.pk /\ w.ok = v.ok
             /\ v.label \in VertexLabels => w.id = target(v) /\ target(w) = w.id
<1> DEFINE v == g.vertices[i]
           w == normalized(g).vertices[i]
<1>1. v \in Vertex
  BY AnswerParts
<1>2. w = IF v.label \in VertexLabels /\ target(v) # ""
          THEN [v EXCEPT !.id = target(v)] ELSE v
  BY DEF normalized
<1>3. target(v) \in STRING /\ (target(v) = "" => v.id = "")
  BY <1>1, TargetFacts
<1>4. /\ w \in Vertex /\ w.label = v.label /\ w.pk = v.pk /\ w.ok = v.ok
      /\ v.label \in VertexLabels => w.id = target(v)
  <2> HIDE DEF v, w
  <2> QED
    BY <1>1, <1>2, <1>3 DEF Vertex
<1>5. v.label \in VertexLabels => target(w) = w.id
  BY <1>1, <1>4, TargetFacts
<1> QED
  BY <1>4, <1>5

\* An alias of a graph is a label with an id or a target of one of its vertices.
LEMMA AliasOf ==
  ASSUME NEW g
  PROVE  /\ \A a \in aliases(g) :
              \E v \in ToSet(g.vertices) :
                /\ v.label \in VertexLabels /\ a[1] = v.label
                /\ a[2] \in {v.id, target(v)} \ {""} /\ a[3] = target(v) /\ a[3] # ""
         /\ \A v \in ToSet(g.vertices) : \A x \in {v.id, target(v)} \ {""} :
              v.label \in VertexLabels /\ target(v) # ""
                => <<v.label, x, target(v)>> \in aliases(g)
<1> DEFINE Pair(v) == {<<v.label, target(v), target(v)>>, <<v.label, v.id, target(v)>>}
           Labelled == {u \in ToSet(g.vertices) : u.label \in VertexLabels}
<1>1. aliases(g) = {a \in UNION {Pair(v) : v \in Labelled} : a[2] # "" /\ a[3] # ""}
  BY DEF aliases
<1>2. ASSUME NEW a \in aliases(g)
      PROVE  \E v \in ToSet(g.vertices) :
                /\ v.label \in VertexLabels /\ a[1] = v.label
                /\ a[2] \in {v.id, target(v)} \ {""} /\ a[3] = target(v) /\ a[3] # ""
  <2>1. PICK v \in Labelled : a \in Pair(v)
    BY <1>1
  <2>2. a[1] = v.label /\ a[2] \in {v.id, target(v)} /\ a[3] = target(v)
    BY <2>1
  <2>3. a[2] # "" /\ a[3] # ""
    BY <1>1
  <2> QED
    BY <2>2, <2>3
<1>3. ASSUME NEW v \in ToSet(g.vertices), NEW x \in {v.id, target(v)} \ {""},
             v.label \in VertexLabels, target(v) # ""
      PROVE  <<v.label, x, target(v)>> \in aliases(g)
  <2>1. v \in Labelled /\ <<v.label, x, target(v)>> \in Pair(v)
    BY <1>3
  <2>2. <<v.label, x, target(v)>>[2] # "" /\ <<v.label, x, target(v)>>[3] # ""
    BY <1>3
  <2> HIDE DEF Pair, Labelled
  <2> QED
    BY <1>1, <2>1, <2>2
<1> QED
  BY <1>2, <1>3

LEMMA EndpointNormal ==
  ASSUME NEW g \in LlmGraphs, NEW p \in Endpoint
  PROVE  LET q == normalize_endpoint(g, p)
         IN  /\ q \in Endpoint /\ q.label = p.label
             /\ \/ /\ q = p
                   /\ ~\E a \in aliases(g) : a[1] = p.label /\ a[2] = named_id(p)
                \/ \E a \in aliases(g) : /\ a[1] = p.label /\ a[2] = named_id(p)
                                         /\ q.id = a[3]
<1> DEFINE matches == {a[3] : a \in {b \in aliases(g) : b[1] = p.label /\ b[2] = named_id(p)}}
<1>1. CASE matches = {}
  BY <1>1 DEF normalize_endpoint
<1>2. CASE matches # {}
  <2> DEFINE t == CHOOSE x \in matches : TRUE
  <2>1. t \in matches
    BY <1>2
  <2>2. PICK a \in aliases(g) : a[1] = p.label /\ a[2] = named_id(p) /\ t = a[3]
    BY <2>1
  <2>3. PICK v \in ToSet(g.vertices) : a[3] = target(v)
    BY AliasOf
  <2>4. v \in Vertex
    BY AnswerParts DEF ToSet
  <2>5. t \in STRING
    BY <2>2, <2>3, <2>4, TargetFacts
  <2>6. normalize_endpoint(g, p) = [p EXCEPT !.id = t]
    BY <1>2 DEF normalize_endpoint
  <2> HIDE DEF t
  <2>7. /\ [p EXCEPT !.id = t] \in Endpoint
        /\ [p EXCEPT !.id = t].label = p.label /\ [p EXCEPT !.id = t].id = t
    BY <2>5 DEF Endpoint
  <2> QED
    BY <2>2, <2>6, <2>7
<1> QED
  BY <1>1, <1>2

----------------------------------------------------------------------------
(* A graph that has passed                                                  *)

\* h is what validate made of the answer g, and it found nothing to complain of.
Passed(g, h) == g \in LlmGraphs /\ h = normalize(g) /\ issues_of(h) = {}

\* What an empty list of issues says.
LEMMA NoIssues ==
  ASSUME NEW h, issues_of(h) = {}
  PROVE  /\ ~ambiguous(h)
         /\ \A i \in DOMAIN h.vertices : h.vertices[i].label \in VertexLabels
         /\ \A i \in DOMAIN h.edges : /\ h.edges[i].label \in EdgeLabels
                                      /\ endpoint_valid(h, h.edges[i].out)
                                      /\ endpoint_valid(h, h.edges[i].in)
                                      /\ schema_ends(h.edges[i])
<1> HIDE DEF ambiguous, endpoint_valid, VertexLabels, EdgeLabels, schema_ends
<1>1. "alias" \notin issues_of(h) /\ "label" \notin issues_of(h) /\ "endpoint" \notin issues_of(h)
  OBVIOUS
<1> QED
  BY <1>1 DEF issues_of

\* Such a graph is the normal form of an unambiguous answer.
LEMMA PassedIsNormal ==
  ASSUME NEW g, NEW h, Passed(g, h)
  PROVE  g \in LlmGraphs /\ ~ambiguous(g) /\ h = normalized(g)
BY NoIssues DEF Passed, normalize

\* Every alias of it stands for itself.
LEMMA PassedAliases ==
  ASSUME NEW g, NEW h, Passed(g, h), NEW a \in aliases(h)
  PROVE  a[2] = a[3]
<1>1. g \in LlmGraphs /\ h = normalized(g)
  BY PassedIsNormal
<1>2. PICK v \in ToSet(h.vertices) : /\ v.label \in VertexLabels
                                     /\ a[2] \in {v.id, target(v)} /\ a[3] = target(v)
  BY AliasOf
<1>3. PICK i \in DOMAIN h.vertices : v = h.vertices[i]
  BY DEF ToSet
<1>4. DOMAIN h.vertices = DOMAIN g.vertices
  BY <1>1 DEF normalized
<1>5. target(v) = v.id
  BY <1>1, <1>2, <1>3, <1>4, VertexNormal
<1> QED
  BY <1>2, <1>5

\* An endpoint of it names one of its vertices, so normalising it again changes nothing.
LEMMA PassedEndpoint ==
  ASSUME NEW g, NEW h, Passed(g, h), NEW q \in Endpoint, q.id # ""
  PROVE  normalize_endpoint(h, q) = q
<1> DEFINE matches == {a[3] : a \in {b \in aliases(h) : b[1] = q.label /\ b[2] = named_id(q)}}
<1>1. named_id(q) = q.id
  BY DEF named_id
<1>2. matches \subseteq {q.id}
  BY <1>1, PassedAliases
<1>3. CASE matches = {}
  BY <1>3 DEF normalize_endpoint
<1>4. CASE matches # {}
  <2>1. (CHOOSE t \in matches : TRUE) = q.id
    BY <1>2, <1>4
  <2>2. normalize_endpoint(h, q) = [q EXCEPT !.id = q.id]
    BY <1>4, <2>1 DEF normalize_endpoint
  <2> QED
    BY <2>2 DEF Endpoint
<1> QED
  BY <1>3, <1>4

LEMMA PassedEdge ==
  ASSUME NEW g, NEW h, Passed(g, h), NEW i \in DOMAIN h.edges
  PROVE  /\ i \in DOMAIN g.edges
         /\ h.edges[i] = [label |-> g.edges[i].label,
                          out |-> normalize_endpoint(g, g.edges[i].out),
                          in  |-> normalize_endpoint(g, g.edges[i].in)]
         /\ g.edges[i].out \in Endpoint /\ g.edges[i].in \in Endpoint
         /\ h.edges[i].out \in Endpoint /\ h.edges[i].in \in Endpoint
<1>1. g \in LlmGraphs /\ h = normalized(g)
  BY PassedIsNormal
<1>2. /\ i \in DOMAIN g.edges
      /\ h.edges[i] = [label |-> g.edges[i].label,
                       out |-> normalize_endpoint(g, g.edges[i].out),
                       in  |-> normalize_endpoint(g, g.edges[i].in)]
  BY <1>1 DEF normalized
<1>3. g.edges[i].out \in Endpoint /\ g.edges[i].in \in Endpoint
  BY <1>1, <1>2, AnswerParts
<1>4. /\ normalize_endpoint(g, g.edges[i].out) \in Endpoint
      /\ normalize_endpoint(g, g.edges[i].in) \in Endpoint
  BY <1>1, <1>3, EndpointNormal
<1> QED
  BY <1>2, <1>3, <1>4

\* Validating it again returns it as it is.
LEMMA PassedIsFixed ==
  ASSUME NEW g, NEW h, Passed(g, h)
  PROVE  validate(h) = [graph |-> h, issues |-> {}]
<1>1. g \in LlmGraphs /\ h = normalized(g)
  BY PassedIsNormal
<1>2. issues_of(h) = {}
  BY DEF Passed
<1>3. ASSUME NEW i \in DOMAIN h.vertices
      PROVE  normalized(h).vertices[i] = h.vertices[i]
  <2> DEFINE w == h.vertices[i]
  <2>1. i \in DOMAIN g.vertices
    BY <1>1 DEF normalized
  <2>2. w.label \in VertexLabels
    BY <1>2, NoIssues
  <2>3. w \in Vertex /\ target(w) = w.id
    BY <1>1, <2>1, <2>2, VertexNormal
  <2>4. normalized(h).vertices[i] = IF w.label \in VertexLabels /\ target(w) # ""
                                    THEN [w EXCEPT !.id = target(w)] ELSE w
    BY DEF normalized
  <2> HIDE DEF w
  <2>5. [w EXCEPT !.id = w.id] = w
    BY <2>3 DEF Vertex
  <2> QED
    BY <2>3, <2>4, <2>5 DEF w
<1>4. ASSUME NEW i \in DOMAIN h.edges
      PROVE  normalized(h).edges[i] = h.edges[i]
  <2>1. endpoint_valid(h, h.edges[i].out) /\ endpoint_valid(h, h.edges[i].in)
    BY <1>2, NoIssues
  <2>2. h.edges[i].out.id # "" /\ h.edges[i].in.id # ""
    BY <2>1 DEF endpoint_valid
  <2>3. /\ h.edges[i].out \in Endpoint /\ h.edges[i].in \in Endpoint
        /\ h.edges[i] = [label |-> h.edges[i].label, out |-> h.edges[i].out, in |-> h.edges[i].in]
    <3>1. h.edges[i] = [label |-> g.edges[i].label,
                        out |-> normalize_endpoint(g, g.edges[i].out),
                        in  |-> normalize_endpoint(g, g.edges[i].in)]
      BY PassedEdge
    <3>2. h.edges[i] = [label |-> h.edges[i].label, out |-> h.edges[i].out, in |-> h.edges[i].in]
      BY <3>1
    <3> QED
      BY <3>2, PassedEdge
  <2>4. /\ normalize_endpoint(h, h.edges[i].out) = h.edges[i].out
        /\ normalize_endpoint(h, h.edges[i].in) = h.edges[i].in
    BY <2>2, <2>3, PassedEndpoint
  <2>5. normalized(h).edges[i] = [label |-> h.edges[i].label,
                                  out |-> normalize_endpoint(h, h.edges[i].out),
                                  in  |-> normalize_endpoint(h, h.edges[i].in)]
    BY DEF normalized
  <2> QED
    BY <2>3, <2>4, <2>5
<1>5. /\ normalized(h).vertices = h.vertices
  <2>1. h.vertices = [i \in DOMAIN h.vertices |-> h.vertices[i]]
    BY <1>1 DEF normalized
  <2>2. normalized(h).vertices = [i \in DOMAIN h.vertices |-> normalized(h).vertices[i]]
    BY DEF normalized
  <2> QED
    BY <1>3, <2>1, <2>2
<1>6. normalized(h).edges = h.edges
  <2>1. h.edges = [i \in DOMAIN h.edges |-> h.edges[i]]
    BY <1>1 DEF normalized
  <2>2. normalized(h).edges = [i \in DOMAIN h.edges |-> normalized(h).edges[i]]
    BY DEF normalized
  <2> QED
    BY <1>4, <2>1, <2>2
<1>7. normalized(h) = h
  <2>1. /\ h = [vertices |-> h.vertices, edges |-> h.edges]
        /\ normalized(h) = [vertices |-> normalized(h).vertices, edges |-> normalized(h).edges]
    BY <1>1 DEF normalized
  <2> QED
    BY <1>5, <1>6, <2>1
<1> QED
  BY <1>2, <1>7, NoIssues DEF validate, normalize

\* An endpoint of an edge of it means one vertex of the answer, up to its target, and
\* leads there.
LEMMA PassedMeant ==
  ASSUME NEW g, NEW h, Passed(g, h), NEW p \in Endpoint,
         endpoint_valid(h, normalize_endpoint(g, p))
  PROVE  {target(v) : v \in meant(g, p)} = {normalize_endpoint(g, p).id}
<1> DEFINE q == normalize_endpoint(g, p)
<1>1. g \in LlmGraphs /\ ~ambiguous(g) /\ h = normalized(g)
  BY PassedIsNormal
<1>0. \A i \in DOMAIN h.vertices : h.vertices[i].label \in VertexLabels
  BY NoIssues DEF Passed
<1>2. PICK j \in DOMAIN h.vertices : /\ q.id # "" /\ h.vertices[j].id = q.id
                                     /\ h.vertices[j].label = q.label
                                     /\ q.label \in VertexLabels
  BY <1>0 DEF endpoint_valid
<1>3. j \in DOMAIN g.vertices /\ g.vertices[j] \in ToSet(g.vertices)
  BY <1>1, <1>2 DEF normalized, ToSet
<1>4. q.label = p.label
  BY <1>1, EndpointNormal
<1>5. g.vertices[j].label = p.label /\ target(g.vertices[j]) = q.id
  BY <1>1, <1>2, <1>3, <1>4, VertexNormal
<1>6. PICK a \in aliases(g) : a[1] = p.label /\ a[2] = named_id(p) /\ q.id = a[3]
  <2>1. CASE /\ q = p
             /\ ~\E a \in aliases(g) : a[1] = p.label /\ a[2] = named_id(p)
    <3>1. named_id(p) = p.id
      BY <1>2, <2>1 DEF named_id
    <3>2. q.id \in {g.vertices[j].id, target(g.vertices[j])} \ {""}
      BY <1>2, <1>5
    <3>3. <<g.vertices[j].label, q.id, target(g.vertices[j])>> \in aliases(g)
      BY <1>2, <1>3, <1>4, <1>5, <3>2, AliasOf
    <3> QED
      BY <1>5, <2>1, <3>1, <3>3
  <2> QED
    BY <1>1, <2>1, EndpointNormal
<1>7. PICK u \in ToSet(g.vertices) : /\ a[1] = u.label /\ a[3] = target(u)
                                     /\ a[2] \in {u.id, target(u)} \ {""}
  BY <1>6, AliasOf
<1>8. u \in meant(g, p) /\ target(u) = q.id
  BY <1>6, <1>7 DEF meant
<1>9. ASSUME NEW v \in meant(g, p)
      PROVE  target(v) = q.id
  <2>1. /\ v \in ToSet(g.vertices) /\ v.label = p.label
        /\ named_id(p) \in {v.id, target(v)} \ {""}
    BY DEF meant
  <2>2. v \in Vertex
    BY <1>1, <2>1, AnswerParts DEF ToSet
  <2>3. target(v) # ""
    BY <2>1, <2>2, TargetFacts
  <2>4. <<v.label, named_id(p), target(v)>> \in aliases(g)
    BY <1>2, <1>4, <2>1, <2>3, AliasOf
  <2> QED
    BY <1>1, <1>6, <2>1, <2>4 DEF ambiguous
<1> QED
  BY <1>8, <1>9

LEMMA PassedEnds ==
  ASSUME NEW g, NEW h, Passed(g, h), NEW i \in DOMAIN g.edges
  PROVE  /\ i \in DOMAIN h.edges
         /\ {target(v) : v \in meant(g, g.edges[i].out)} = {h.edges[i].out.id}
         /\ {target(v) : v \in meant(g, g.edges[i].in)} = {h.edges[i].in.id}
<1>1. h = normalized(g)
  BY PassedIsNormal
<1>2. DOMAIN h.edges = DOMAIN g.edges
  BY <1>1 DEF normalized
<1>3. h.edges[i] = [label |-> g.edges[i].label,
                    out |-> normalize_endpoint(g, g.edges[i].out),
                    in  |-> normalize_endpoint(g, g.edges[i].in)]
  BY <1>2, PassedEdge
<1>4. /\ h.edges[i].out = normalize_endpoint(g, g.edges[i].out)
      /\ h.edges[i].in = normalize_endpoint(g, g.edges[i].in)
  BY <1>3
<1>5. g.edges[i].out \in Endpoint /\ g.edges[i].in \in Endpoint
  BY <1>2, PassedEdge
<1>6. endpoint_valid(h, h.edges[i].out) /\ endpoint_valid(h, h.edges[i].in)
  BY <1>2, NoIssues DEF Passed
<1>8. {target(v) : v \in meant(g, g.edges[i].out)} = {h.edges[i].out.id}
  BY <1>4, <1>5, <1>6, PassedMeant
<1>9. {target(v) : v \in meant(g, g.edges[i].in)} = {h.edges[i].in.id}
  BY <1>4, <1>5, <1>6, PassedMeant
<1> QED
  BY <1>2, <1>8, <1>9

----------------------------------------------------------------------------
(* The type invariant: the shape of the state, and the budgets with how far
   each stage has used them                                                  *)

EmptyGraph == [vertices |-> <<>>, edges |-> <<>>]

\* The graphs a chunk may hold.
SomeGraphs == LlmGraphs \cup {normalize(g) : g \in LlmGraphs} \cup {NoGraph, EmptyGraph}
                \cup {extract_and_filter_label(g) : g \in LlmGraphs}

IssueKinds == {"alias", "label", "properties", "primary key", "id", "endpoint", "review"}

ChunkRecord == [stage : Stages, graph : SomeGraphs, raw : LlmGraphs \cup {NoGraph},
                reviewed : SomeGraphs, issues : SUBSET IssueKinds, reviews_used : Nat,
                fixes_used : Nat, llm_calls : Nat, status : Statuses]

Options == [max_reviews : 0 .. MaxReviews, max_fixes : 0 .. MaxFixes]

\* A chunk uses one call of the model, and one for each review and fix.
InBudget(k) ==
  /\ k.reviews_used <= options.max_reviews /\ k.fixes_used <= options.max_fixes
  /\ k.llm_calls <= 1 + k.reviews_used + k.fixes_used

\* Where a chunk is: what is left of its budgets at each stage, and that the graph it is
\* about to validate is the model's answer.
AtStage(k) ==
  /\ InBudget(k)
  /\ k.stage \in {"queued", "extract"} => k.llm_calls = 0
  /\ k.stage = "review" => k.reviews_used < options.max_reviews
  /\ k.stage = "repair" => k.fixes_used < options.max_fixes
  /\ k.stage # "done" => k.status = ""
  /\ k.stage = "validate" => k.graph \in LlmGraphs /\ k.raw = k.graph

ChunkTyped ==
  /\ options \in Options
  /\ chunk \in [Chunks -> ChunkRecord]
  /\ \A c \in Chunks : AtStage(chunk[c])

RestTyped ==
  /\ extract_type \in ExtractTypes
  /\ extracted.status \in {"", "succeeded", "partial", "failed", "plain", "error"}
  /\ extracted = [status |-> extracted.status, chunks |-> extracted.chunks]
  /\ import.pc \in {"idle", "vertices", "edges", "done", "failed"}
  /\ import = [pc |-> import.pc, pending |-> import.pending,
               vid_mapping |-> import.vid_mapping]
  /\ graph_db = [vertices |-> graph_db.vertices, edges |-> graph_db.edges]

ShapeInv == ChunkTyped /\ RestTyped

LEMMA IssuesTyped ==
  ASSUME NEW g
  PROVE  issues_of(g) \in SUBSET IssueKinds
BY DEF issues_of, IssueKinds

LEMMA OptionsNat ==
  ASSUME options \in Options
  PROVE  options.max_reviews \in Nat /\ options.max_fixes \in Nat
<1>1. options.max_reviews \in 0 .. MaxReviews /\ options.max_fixes \in 0 .. MaxFixes
  BY DEF Options
<1> QED
  BY <1>1, ExtractionAssumption

LEMMA ShapeInit ==
  ASSUME ExtractionInit
  PROVE  ShapeInv
<1>1. options \in Options /\ options.max_reviews \in Nat /\ options.max_fixes \in Nat
  <2>1. CASE extract_type = "review"
    <3>1. options \in Options
      BY <2>1 DEF ExtractionInit, Options
    <3> QED
      BY <3>1, OptionsNat
  <2>2. CASE extract_type # "review"
    <3>1. options = [max_reviews |-> 0, max_fixes |-> 0]
      BY <2>2 DEF ExtractionInit
    <3> QED
      BY <3>1, ExtractionAssumption DEF Options
  <2> QED
    BY <2>1, <2>2
<1>2. fresh_chunk \in ChunkRecord
  BY DEF fresh_chunk, ChunkRecord, Stages, Statuses, SomeGraphs
<1>3. chunk \in [Chunks -> ChunkRecord]
  BY <1>2 DEF ExtractionInit
<1>4. ASSUME NEW c \in Chunks
      PROVE  AtStage(chunk[c])
  <2>1. chunk[c] = fresh_chunk
    BY DEF ExtractionInit
  <2>2. /\ fresh_chunk.reviews_used = 0 /\ fresh_chunk.fixes_used = 0
        /\ fresh_chunk.llm_calls = 0
    BY DEF fresh_chunk
  <2>3. InBudget(fresh_chunk)
    BY <1>1, <2>2 DEF InBudget
  <2>4. fresh_chunk.stage = "queued" /\ fresh_chunk.status = ""
    BY DEF fresh_chunk
  <2> QED
    BY <2>1, <2>2, <2>3, <2>4 DEF AtStage
<1>5. RestTyped
  BY DEF ExtractionInit, RestTyped
<1> QED
  BY <1>1, <1>3, <1>4, <1>5 DEF ShapeInv, ChunkTyped

\* Replacing one chunk's record by one within the budgets keeps the shape.
LEMMA ShapeUpdate ==
  ASSUME ChunkTyped, NEW c \in Chunks, NEW k \in ChunkRecord, AtStage(k),
         chunk' = [chunk EXCEPT ![c] = k], UNCHANGED options
  PROVE  ChunkTyped'
<1>1. chunk' \in [Chunks -> ChunkRecord]
  BY DEF ChunkTyped
<1>2. ASSUME NEW d \in Chunks
      PROVE  AtStage(chunk'[d])
  BY DEF ChunkTyped
<1>3. ASSUME NEW d \in Chunks
      PROVE  AtStage(chunk[d])'
  BY <1>2 DEF AtStage, InBudget
<1> QED
  BY <1>1, <1>3 DEF ChunkTyped

LEMMA ShapeSame ==
  ASSUME ChunkTyped, UNCHANGED chunk, UNCHANGED options
  PROVE  ChunkTyped'
<1>1. ASSUME NEW d \in Chunks
      PROVE  AtStage(chunk[d])'
  <2>1. AtStage(chunk[d])
    BY DEF ChunkTyped
  <2> QED
    BY <2>1 DEF AtStage, InBudget
<1> QED
  BY <1>1 DEF ChunkTyped

LEMMA ShapeFinish ==
  ASSUME ChunkTyped, NEW c \in Chunks, NEW k \in ChunkRecord, NEW status \in Statuses,
         InBudget(k), finish(c, k, status), UNCHANGED options
  PROVE  ChunkTyped'
<1> DEFINE d == [k EXCEPT !.stage = "done", !.status = status]
<1>0. /\ d \in ChunkRecord /\ d.stage = "done" /\ d.reviews_used = k.reviews_used
      /\ d.fixes_used = k.fixes_used /\ d.llm_calls = k.llm_calls
  BY DEF ChunkRecord, Stages
<1>1. d \in ChunkRecord /\ AtStage(d)
  <2> HIDE DEF d
  <2>1. InBudget(d)
    BY <1>0 DEF InBudget
  <2> QED
    BY <1>0, <2>1 DEF AtStage
<1> QED
  BY <1>1, ShapeUpdate DEF finish

LEMMA ShapeNewGraph ==
  ASSUME ChunkTyped, NEW c \in Chunks, NEW k \in ChunkRecord,
         InBudget(k), k.status = "", new_graph(c, k), UNCHANGED options
  PROVE  ChunkTyped'
<1>1. CASE finish(c, k, "failed")
  BY <1>1, ShapeFinish DEF Statuses
<1>2. ASSUME NEW g \in LlmGraphs,
             chunk' = [chunk EXCEPT ![c] = [k EXCEPT !.stage = "validate", !.graph = g,
                                                     !.raw = g, !.issues = {}]]
      PROVE  ChunkTyped'
  <2> DEFINE d == [k EXCEPT !.stage = "validate", !.graph = g, !.raw = g, !.issues = {}]
  <2>1. d \in ChunkRecord
    BY DEF ChunkRecord, Stages, SomeGraphs
  <2>2. AtStage(d)
    <3>1. /\ d.stage = "validate" /\ d.status = "" /\ d.graph = g /\ d.raw = g
          /\ d.reviews_used = k.reviews_used /\ d.fixes_used = k.fixes_used
          /\ d.llm_calls = k.llm_calls
      BY DEF ChunkRecord
    <3> HIDE DEF d
    <3>2. InBudget(d)
      BY <3>1 DEF InBudget
    <3> QED
      BY <3>1, <3>2 DEF AtStage
  <2> QED
    BY <1>2, <2>1, <2>2, ShapeUpdate
<1> QED
  BY <1>1, <1>2 DEF new_graph

LEMMA ShapeStep ==
  ASSUME ShapeInv, [ExtractionNext]_extractionVars
  PROVE  ShapeInv'
<1> USE DEF ShapeInv
<1>0. ASSUME NEW c \in Chunks
      PROVE  /\ chunk[c] \in ChunkRecord /\ AtStage(chunk[c])
             /\ options.max_reviews \in Nat /\ options.max_fixes \in Nat
  BY OptionsNat DEF ChunkTyped
<1>1. ASSUME NEW c \in Chunks, run_prepared_chunk(c)
      PROVE  ChunkTyped'
  <2>0. /\ chunk[c] \in ChunkRecord /\ AtStage(chunk[c])
        /\ options.max_reviews \in Nat /\ options.max_fixes \in Nat
    BY <1>0
  <2>1. UNCHANGED options /\ chunk[c].stage = "queued"
    BY <1>1 DEF run_prepared_chunk
  <2>2. CASE chunk' = [chunk EXCEPT ![c].stage = "extract"]
    <3> DEFINE d == [chunk[c] EXCEPT !.stage = "extract"]
    <3>1. d \in ChunkRecord /\ AtStage(d)
      <4>1. /\ d \in ChunkRecord /\ d.stage = "extract" /\ d.status = chunk[c].status
            /\ d.reviews_used = chunk[c].reviews_used /\ d.fixes_used = chunk[c].fixes_used
            /\ d.llm_calls = chunk[c].llm_calls
        BY <2>0 DEF ChunkRecord, Stages
      <4> HIDE DEF d
      <4>2. InBudget(chunk[c]) /\ chunk[c].llm_calls = 0 /\ chunk[c].status = ""
        BY <2>0, <2>1 DEF AtStage
      <4>3. InBudget(d)
        BY <4>1, <4>2 DEF InBudget
      <4> QED
        BY <4>1, <4>2, <4>3 DEF AtStage
    <3>2. chunk' = [chunk EXCEPT ![c] = d]
      BY <2>2
    <3> QED
      BY <2>1, <3>1, <3>2, ShapeUpdate
  <2>3. CASE finish(c, chunk[c], "failed")
    BY <2>0, <2>1, <2>3, ShapeFinish DEF AtStage, Statuses
  <2> QED
    BY <1>1, <2>2, <2>3 DEF run_prepared_chunk
<1>2. ASSUME NEW c \in Chunks, extract_chunk(c)
      PROVE  ChunkTyped'
  <2> DEFINE k == [chunk[c] EXCEPT !.llm_calls = @ + 1]
  <2>0. /\ chunk[c] \in ChunkRecord /\ AtStage(chunk[c])
        /\ options.max_reviews \in Nat /\ options.max_fixes \in Nat
    BY <1>0
  <2>1. chunk[c].stage = "extract" /\ new_graph(c, k) /\ UNCHANGED options
    BY <1>2 DEF extract_chunk
  <2>2. /\ k \in ChunkRecord /\ k.status = ""
        /\ InBudget(k)
    <3>1. /\ chunk[c].reviews_used \in Nat /\ chunk[c].fixes_used \in Nat
          /\ chunk[c].llm_calls \in Nat
      BY <2>0 DEF ChunkRecord
    <3>2. /\ k.reviews_used = chunk[c].reviews_used /\ k.fixes_used = chunk[c].fixes_used
          /\ k.llm_calls = chunk[c].llm_calls + 1
      BY <2>0 DEF ChunkRecord
    <3>3. k \in ChunkRecord /\ k.stage = chunk[c].stage /\ k.status = chunk[c].status
      <4>1. /\ chunk[c].reviews_used \in Nat /\ chunk[c].fixes_used \in Nat
            /\ chunk[c].llm_calls + 1 \in Nat
        BY <3>1
      <4> QED
        BY <2>0, <4>1 DEF ChunkRecord
    <3> HIDE DEF k
    <3>4. InBudget(chunk[c]) /\ chunk[c].llm_calls = 0
      BY <2>0, <2>1 DEF AtStage
    <3>5. InBudget(k)
      BY <2>0, <3>1, <3>2, <3>4 DEF InBudget
    <3>6. chunk[c].status = ""
      BY <2>0, <2>1 DEF AtStage
    <3> QED
      BY <2>1, <3>3, <3>5, <3>6
  <2> HIDE DEF k
  <2> QED
    BY <2>1, <2>2, ShapeNewGraph
<1>3. ASSUME NEW c \in Chunks, validate_chunk(c)
      PROVE  ChunkTyped'
  <2> DEFINE v == validate(chunk[c].graph)
             k == [chunk[c] EXCEPT !.graph = v.graph, !.issues = v.issues]
  <2>0. /\ chunk[c] \in ChunkRecord /\ AtStage(chunk[c])
        /\ options.max_reviews \in Nat /\ options.max_fixes \in Nat
    BY <1>0
  <2>1. chunk[c].stage = "validate" /\ UNCHANGED options
    BY <1>3 DEF validate_chunk
  <2>2. v.graph \in SomeGraphs /\ v.issues \in SUBSET IssueKinds
    BY <2>0, <2>1, IssuesTyped DEF validate, SomeGraphs, AtStage
  <2>3. /\ k \in ChunkRecord /\ k.stage = "validate" /\ k.status = ""
        /\ InBudget(k)
        /\ k.reviews_used \in Nat /\ k.fixes_used \in Nat
    <3> HIDE DEF v
    <3>1. /\ k \in ChunkRecord /\ k.stage = chunk[c].stage /\ k.status = chunk[c].status
          /\ k.reviews_used = chunk[c].reviews_used /\ k.fixes_used = chunk[c].fixes_used
          /\ k.llm_calls = chunk[c].llm_calls
          /\ k.reviews_used \in Nat /\ k.fixes_used \in Nat
      BY <2>0, <2>2 DEF ChunkRecord
    <3> HIDE DEF k
    <3>2. InBudget(chunk[c]) /\ chunk[c].status = ""
      BY <2>0, <2>1 DEF AtStage
    <3>3. InBudget(k)
      BY <3>1, <3>2 DEF InBudget
    <3> QED
      BY <2>1, <3>1, <3>2, <3>3
  <2>4. \/ finish(c, k, "blocked") \/ finish(c, k, "candidate")
        \/ /\ k.fixes_used < options.max_fixes
           /\ chunk' = [chunk EXCEPT ![c] = [k EXCEPT !.stage = "repair"]]
        \/ /\ k.reviews_used < options.max_reviews
           /\ chunk' = [chunk EXCEPT ![c] = [k EXCEPT !.stage = "review"]]
    BY <1>3 DEF validate_chunk
  <2> HIDE DEF k
  <2>5. CASE finish(c, k, "blocked") \/ finish(c, k, "candidate")
    BY <2>1, <2>3, <2>5, ShapeFinish DEF Statuses
  <2>6. CASE /\ k.fixes_used < options.max_fixes
             /\ chunk' = [chunk EXCEPT ![c] = [k EXCEPT !.stage = "repair"]]
    <3> DEFINE d == [k EXCEPT !.stage = "repair"]
    <3>1. d \in ChunkRecord /\ AtStage(d)
      <4>1. /\ d \in ChunkRecord /\ d.stage = "repair" /\ d.status = k.status
            /\ d.reviews_used = k.reviews_used /\ d.fixes_used = k.fixes_used
            /\ d.llm_calls = k.llm_calls
        BY <2>3 DEF ChunkRecord, Stages
      <4> HIDE DEF d
      <4>2. InBudget(d)
        BY <2>3, <4>1 DEF InBudget
      <4> QED
        BY <2>0, <2>3, <2>6, <4>1, <4>2 DEF AtStage
    <3> QED
      BY <2>1, <2>6, <3>1, ShapeUpdate
  <2>7. CASE /\ k.reviews_used < options.max_reviews
             /\ chunk' = [chunk EXCEPT ![c] = [k EXCEPT !.stage = "review"]]
    <3> DEFINE d == [k EXCEPT !.stage = "review"]
    <3>1. d \in ChunkRecord /\ AtStage(d)
      <4>1. /\ d \in ChunkRecord /\ d.stage = "review" /\ d.status = k.status
            /\ d.reviews_used = k.reviews_used /\ d.fixes_used = k.fixes_used
            /\ d.llm_calls = k.llm_calls
        BY <2>3 DEF ChunkRecord, Stages
      <4> HIDE DEF d
      <4>2. InBudget(d)
        BY <2>3, <4>1 DEF InBudget
      <4> QED
        BY <2>0, <2>3, <2>7, <4>1, <4>2 DEF AtStage
    <3> QED
      BY <2>1, <2>7, <3>1, ShapeUpdate
  <2> QED
    BY <2>4, <2>5, <2>6, <2>7
<1>4. ASSUME NEW c \in Chunks, review_chunk(c)
      PROVE  ChunkTyped'
  <2> DEFINE k == [chunk[c] EXCEPT !.reviews_used = @ + 1, !.llm_calls = @ + 1]
             f == [k EXCEPT !.issues = {"review"}]
             r == [k EXCEPT !.reviewed = k.graph]
  <2>0. /\ chunk[c] \in ChunkRecord /\ AtStage(chunk[c])
        /\ options.max_reviews \in Nat /\ options.max_fixes \in Nat
    BY <1>0
  <2>1. chunk[c].stage = "review" /\ UNCHANGED options
    BY <1>4 DEF review_chunk
  <2>2. /\ k \in ChunkRecord /\ k.stage = "review" /\ k.status = ""
        /\ InBudget(k)
    <3>1. /\ chunk[c].reviews_used \in Nat /\ chunk[c].fixes_used \in Nat
          /\ chunk[c].llm_calls \in Nat
      BY <2>0 DEF ChunkRecord
    <3>2. /\ k.reviews_used = chunk[c].reviews_used + 1 /\ k.fixes_used = chunk[c].fixes_used
          /\ k.llm_calls = chunk[c].llm_calls + 1
      BY <2>0 DEF ChunkRecord
    <3>3. k \in ChunkRecord /\ k.stage = chunk[c].stage /\ k.status = chunk[c].status
      <4>1. /\ chunk[c].reviews_used + 1 \in Nat /\ chunk[c].fixes_used \in Nat
            /\ chunk[c].llm_calls + 1 \in Nat
        BY <3>1
      <4> QED
        BY <2>0, <4>1 DEF ChunkRecord
    <3> HIDE DEF k
    <3>4. InBudget(chunk[c]) /\ chunk[c].reviews_used < options.max_reviews
      BY <2>0, <2>1 DEF AtStage
    <3>5. InBudget(k)
      BY <2>0, <3>1, <3>2, <3>4 DEF InBudget
    <3>6. chunk[c].status = ""
      BY <2>0, <2>1 DEF AtStage
    <3> QED
      BY <2>1, <3>3, <3>5, <3>6
  <2>3. \/ finish(c, k, "failed") \/ finish(c, r, "final") \/ finish(c, f, "blocked")
        \/ IF k.fixes_used >= options.max_fixes
           THEN finish(c, f, "candidate")
           ELSE chunk' = [chunk EXCEPT ![c] = [f EXCEPT !.stage = "repair"]]
    BY <1>4 DEF review_chunk
  <2> HIDE DEF k
  <2>4. /\ f \in ChunkRecord /\ f.stage = "review" /\ f.status = ""
        /\ f.reviews_used = k.reviews_used /\ f.fixes_used = k.fixes_used
        /\ f.llm_calls = k.llm_calls
        /\ r \in ChunkRecord /\ r.reviews_used = k.reviews_used
        /\ r.fixes_used = k.fixes_used /\ r.llm_calls = k.llm_calls
    BY <2>2 DEF ChunkRecord, IssueKinds
  <2>5. k.fixes_used \in Nat /\ k.reviews_used \in Nat /\ k.llm_calls \in Nat
    BY <2>2 DEF ChunkRecord
  <2> HIDE DEF f, r
  <2>8. InBudget(f) /\ InBudget(r)
    BY <2>2, <2>4 DEF InBudget
  <2>6. CASE \/ finish(c, k, "failed") \/ finish(c, r, "final")
             \/ finish(c, f, "blocked") \/ finish(c, f, "candidate")
    BY <2>1, <2>2, <2>4, <2>6, <2>8, ShapeFinish DEF Statuses
  <2>7. CASE /\ k.fixes_used < options.max_fixes
             /\ chunk' = [chunk EXCEPT ![c] = [f EXCEPT !.stage = "repair"]]
    <3> DEFINE d == [f EXCEPT !.stage = "repair"]
    <3>1. d \in ChunkRecord /\ AtStage(d)
      <4>1. /\ d \in ChunkRecord /\ d.stage = "repair" /\ d.status = f.status
            /\ d.reviews_used = f.reviews_used /\ d.fixes_used = f.fixes_used
            /\ d.llm_calls = f.llm_calls
        BY <2>4 DEF ChunkRecord, Stages
      <4> HIDE DEF d
      <4>2. InBudget(d)
        BY <2>2, <2>4, <4>1 DEF InBudget
      <4> QED
        BY <2>0, <2>2, <2>4, <2>5, <2>7, <4>1, <4>2 DEF AtStage
    <3> QED
      BY <2>1, <2>7, <3>1, ShapeUpdate
  <2> QED
    BY <2>0, <2>3, <2>5, <2>6, <2>7
<1>5. ASSUME NEW c \in Chunks, repair_chunk(c)
      PROVE  ChunkTyped'
  <2> DEFINE k == [chunk[c] EXCEPT !.fixes_used = @ + 1, !.llm_calls = @ + 1]
  <2>0. /\ chunk[c] \in ChunkRecord /\ AtStage(chunk[c])
        /\ options.max_reviews \in Nat /\ options.max_fixes \in Nat
    BY <1>0
  <2>1. chunk[c].stage = "repair" /\ new_graph(c, k) /\ UNCHANGED options
    BY <1>5 DEF repair_chunk
  <2>2. /\ k \in ChunkRecord /\ k.status = ""
        /\ InBudget(k)
    <3>1. /\ chunk[c].reviews_used \in Nat /\ chunk[c].fixes_used \in Nat
          /\ chunk[c].llm_calls \in Nat
      BY <2>0 DEF ChunkRecord
    <3>2. /\ k.reviews_used = chunk[c].reviews_used /\ k.fixes_used = chunk[c].fixes_used + 1
          /\ k.llm_calls = chunk[c].llm_calls + 1
      BY <2>0 DEF ChunkRecord
    <3>3. k \in ChunkRecord /\ k.stage = chunk[c].stage /\ k.status = chunk[c].status
      <4>1. /\ chunk[c].reviews_used \in Nat /\ chunk[c].fixes_used + 1 \in Nat
            /\ chunk[c].llm_calls + 1 \in Nat
        BY <3>1
      <4> QED
        BY <2>0, <4>1 DEF ChunkRecord
    <3> HIDE DEF k
    <3>4. InBudget(chunk[c]) /\ chunk[c].fixes_used < options.max_fixes
      BY <2>0, <2>1 DEF AtStage
    <3>5. InBudget(k)
      BY <2>0, <3>1, <3>2, <3>4 DEF InBudget
    <3>6. chunk[c].status = ""
      BY <2>0, <2>1 DEF AtStage
    <3> QED
      BY <2>1, <3>3, <3>5, <3>6
  <2> HIDE DEF k
  <2> QED
    BY <2>1, <2>2, ShapeNewGraph
<1>6. ASSUME NEW c \in Chunks, PropertyGraphExtract_run(c)
      PROVE  ChunkTyped'
  <2>0. /\ chunk[c] \in ChunkRecord /\ AtStage(chunk[c])
        /\ options.max_reviews \in Nat /\ options.max_fixes \in Nat
    BY <1>0
  <2>1. chunk[c].stage = "queued" /\ UNCHANGED options
    BY <1>6 DEF PropertyGraphExtract_run, Turn
  <2>2. ASSUME NEW g \in LlmGraphs,
               chunk' = [chunk EXCEPT ![c] = [@ EXCEPT !.stage = "done", !.llm_calls = 1,
                                          !.raw = g, !.graph = extract_and_filter_label(g)]]
        PROVE  ChunkTyped'
    <3> DEFINE d == [chunk[c] EXCEPT !.stage = "done", !.llm_calls = 1,
                                     !.raw = g, !.graph = extract_and_filter_label(g)]
    <3>1. extract_and_filter_label(g) \in SomeGraphs
      BY DEF SomeGraphs
    <3>2 d \in ChunkRecord /\ AtStage(d)
      <4>1. /\ d \in ChunkRecord /\ d.stage = "done" /\ d.llm_calls = 1
            /\ d.reviews_used = chunk[c].reviews_used /\ d.fixes_used = chunk[c].fixes_used
            /\ chunk[c].reviews_used \in Nat /\ chunk[c].fixes_used \in Nat
        BY <2>0, <3>1 DEF ChunkRecord, Stages
      <4> HIDE DEF d
      <4>2. InBudget(chunk[c])
        BY <2>0 DEF AtStage
      <4>3. InBudget(d)
        BY <2>0, <4>1, <4>2 DEF InBudget
      <4> QED
        BY <4>1, <4>3 DEF AtStage
    <3>3. chunk' = [chunk EXCEPT ![c] = d]
      BY <2>2
    <3> QED
      BY <2>1, <3>2, <3>3, ShapeUpdate
  <2>3. CASE UNCHANGED chunk
    BY <2>1, <2>3, ShapeSame
  <2> QED
    BY <1>6, <2>2, <2>3 DEF PropertyGraphExtract_run, raises
<1>7. ASSUME NEW c \in Chunks, InfoExtract_run(c)
      PROVE  ChunkTyped'
  <2>0. /\ chunk[c] \in ChunkRecord /\ AtStage(chunk[c])
        /\ options.max_reviews \in Nat /\ options.max_fixes \in Nat
    BY <1>0
  <2>1. chunk[c].stage = "queued" /\ UNCHANGED options
    BY <1>7 DEF InfoExtract_run, Turn
  <2> DEFINE d == [chunk[c] EXCEPT !.stage = "done", !.llm_calls = 1, !.graph = EmptyGraph]
  <2>2. CASE chunk' = [chunk EXCEPT ![c] = d]
    <3>1 d \in ChunkRecord /\ AtStage(d)
      <4>1. /\ d \in ChunkRecord /\ d.stage = "done" /\ d.llm_calls = 1
            /\ d.reviews_used = chunk[c].reviews_used /\ d.fixes_used = chunk[c].fixes_used
            /\ chunk[c].reviews_used \in Nat /\ chunk[c].fixes_used \in Nat
        BY <2>0 DEF ChunkRecord, Stages, SomeGraphs
      <4> HIDE DEF d
      <4>2. InBudget(chunk[c])
        BY <2>0 DEF AtStage
      <4>3. InBudget(d)
        BY <2>0, <4>1, <4>2 DEF InBudget
      <4> QED
        BY <4>1, <4>3 DEF AtStage
    <3> QED
      BY <2>1, <2>2, <3>1, ShapeUpdate
  <2>3. CASE UNCHANGED chunk
    BY <2>1, <2>3, ShapeSame
  <2> QED
    BY <1>7, <2>2, <2>3 DEF InfoExtract_run, raises, EmptyGraph
<1>8. ASSUME UNCHANGED <<chunk, options>>
      PROVE  ChunkTyped'
  <2>1. ChunkTyped /\ UNCHANGED chunk /\ UNCHANGED options
    BY <1>8
  <2> QED
    BY <2>1, ShapeSame
<1>9. ChunkTyped'
  BY <1>1, <1>2, <1>3, <1>4, <1>5, <1>6, <1>7, <1>8
     DEF ExtractionNext, ChunkNext, extract_with_review, post_deal_plain, Commit2Graph_run,
         load_into_graph, load_vertex, load_edge, vertices_loaded, edges_loaded, extractionVars
<1>10. RestTyped'
  <2>0. /\ extracted = [status |-> extracted.status, chunks |-> extracted.chunks]
        /\ import = [pc |-> import.pc, pending |-> import.pending,
                     vid_mapping |-> import.vid_mapping]
        /\ graph_db = [vertices |-> graph_db.vertices, edges |-> graph_db.edges]
    BY DEF RestTyped
  <2>1. CASE UNCHANGED <<extract_type, extracted, import, graph_db>>
    BY <2>1 DEF RestTyped
  <2>2. CASE \/ raises /\ UNCHANGED <<extract_type, import, graph_db>>
             \/ extract_with_review \/ post_deal_plain
    <3>1. PICK x, y : /\ extracted' = [status |-> x, chunks |-> y]
                      /\ x \in {"succeeded", "partial", "failed", "plain", "error"}
      <4>1. CASE raises
        <5>1. [extracted EXCEPT !.status = "error"] = [status |-> "error", chunks |-> extracted.chunks]
          BY <2>0
        <5> QED
          BY <4>1, <5>1 DEF raises
      <4>2. CASE extract_with_review
        BY <4>2 DEF extract_with_review
      <4>3. CASE post_deal_plain
        BY <4>3 DEF post_deal_plain
      <4> QED
        BY <2>2, <4>1, <4>2, <4>3
    <3>2. UNCHANGED <<extract_type, import, graph_db>>
      BY <2>2 DEF extract_with_review, post_deal_plain
    <3>3. extracted'.status = x /\ extracted'.chunks = y
      BY <3>1
    <3> QED
      BY <3>1, <3>2, <3>3 DEF RestTyped
  <2>3. CASE Commit2Graph_run \/ vertices_loaded \/ edges_loaded
    <3>1. CASE Commit2Graph_run
      <4>1. \/ import' = [import EXCEPT !.pc = "failed"]
            \/ import' = [import EXCEPT !.pc = "vertices", !.pending = Places("vertices")]
        BY <3>1 DEF Commit2Graph_run
      <4>2. UNCHANGED <<extract_type, extracted, graph_db>>
        BY <3>1 DEF Commit2Graph_run
      <4> QED
        BY <2>0, <4>1, <4>2 DEF RestTyped
    <3>2. CASE vertices_loaded
      BY <2>0, <3>2 DEF RestTyped, vertices_loaded
    <3>3. CASE edges_loaded
      BY <2>0, <3>3 DEF RestTyped, edges_loaded
    <3> QED
      BY <2>3, <3>1, <3>2, <3>3
  <2>4. ASSUME NEW p \in import.pending, load_vertex(p)
        PROVE  RestTyped'
    BY <2>0, <2>4 DEF RestTyped, load_vertex
  <2>5. ASSUME NEW p \in import.pending, load_edge(p)
        PROVE  RestTyped'
    BY <2>0, <2>5 DEF RestTyped, load_edge
  <2>6. CASE \E c \in Chunks : \/ run_prepared_chunk(c) \/ extract_chunk(c) \/ validate_chunk(c)
                               \/ review_chunk(c) \/ repair_chunk(c)
    BY <2>1, <2>6 DEF run_prepared_chunk, extract_chunk, validate_chunk, review_chunk, repair_chunk
  <2>7. CASE \E c \in Chunks : PropertyGraphExtract_run(c) \/ InfoExtract_run(c)
    BY <2>1, <2>2, <2>7 DEF PropertyGraphExtract_run, InfoExtract_run
  <2> QED
    BY <2>1, <2>2, <2>3, <2>4, <2>5, <2>6, <2>7
       DEF ExtractionNext, ChunkNext, load_into_graph, extractionVars
<1> QED
  BY <1>9, <1>10

\* Chunks stay within the budgets of the request: a chunk that cannot be made valid is
\* repaired and reviewed no more often than the request allows (run_chunk).
THEOREM ExtractionTyped == ExtractionSpec => []ExtractionTypeOK
<1>1. ExtractionInit => ShapeInv
  BY ShapeInit
<1>2. ShapeInv /\ [ExtractionNext]_extractionVars => ShapeInv'
  BY ShapeStep
<1>3. ShapeInv => ExtractionTypeOK
  <2> SUFFICES ASSUME ShapeInv PROVE ExtractionTypeOK
    OBVIOUS
  <2>1. options.max_reviews \in 0 .. MaxReviews /\ options.max_fixes \in 0 .. MaxFixes
    BY DEF ShapeInv, ChunkTyped, Options
  <2>2. options.max_reviews \in Nat /\ options.max_fixes \in Nat
    BY OptionsNat DEF ShapeInv, ChunkTyped
  <2>3. ASSUME NEW c \in Chunks
        PROVE  /\ chunk[c].stage \in Stages /\ chunk[c].status \in Statuses
               /\ chunk[c].reviews_used \in 0 .. options.max_reviews
               /\ chunk[c].fixes_used \in 0 .. options.max_fixes
               /\ chunk[c].llm_calls \in 0 .. 1 + options.max_reviews + options.max_fixes
    <3>1. chunk[c] \in ChunkRecord /\ InBudget(chunk[c])
      BY DEF ShapeInv, ChunkTyped, AtStage
    <3>2. /\ chunk[c].reviews_used \in Nat /\ chunk[c].fixes_used \in Nat
          /\ chunk[c].llm_calls \in Nat
      BY <3>1 DEF ChunkRecord
    <3>3. chunk[c].stage \in Stages /\ chunk[c].status \in Statuses
      BY <3>1 DEF ChunkRecord
    <3>4. /\ chunk[c].reviews_used \in 0 .. options.max_reviews
          /\ chunk[c].fixes_used \in 0 .. options.max_fixes
          /\ chunk[c].llm_calls \in 0 .. 1 + options.max_reviews + options.max_fixes
      BY <2>2, <3>1, <3>2 DEF InBudget
    <3> QED
      BY <3>3, <3>4
  <2> QED
    BY <2>1, <2>3 DEF ShapeInv, RestTyped, ExtractionTypeOK
<1> QED
  BY <1>1, <1>2, <1>3, PTL DEF ExtractionSpec

----------------------------------------------------------------------------
(* The reviewed path                                                        *)

\* A graph under review has passed validation and stays as it is until its chunk ends.
ReviewOK(k) ==
  /\ (k.stage = "review" \/ k.status = "final") => Passed(k.raw, k.graph)
  /\ k.status = "final" => k.reviewed = k.graph

ReviewInv == \A c \in Chunks : ReviewOK(chunk[c])

LEMMA ReviewUpdate ==
  ASSUME ChunkTyped, ReviewInv, NEW c \in Chunks, NEW k, ReviewOK(k),
         chunk' = [chunk EXCEPT ![c] = k]
  PROVE  ReviewInv'
<1>1. ASSUME NEW d \in Chunks
      PROVE  ReviewOK(chunk'[d])
  BY DEF ChunkTyped, ReviewInv
<1>2. ASSUME NEW d \in Chunks
      PROVE  ReviewOK(chunk[d])'
  BY <1>1 DEF ReviewOK, Passed
<1> QED
  BY <1>2 DEF ReviewInv

\* A chunk that ends otherwise than as final.
LEMMA ReviewFinish ==
  ASSUME ChunkTyped, ReviewInv, NEW c \in Chunks, NEW k \in ChunkRecord,
         NEW status \in Statuses \ {"final"}, finish(c, k, status)
  PROVE  ReviewInv'
<1> DEFINE d == [k EXCEPT !.stage = "done", !.status = status]
<1>1. d.stage = "done" /\ d.status = status
  BY DEF ChunkRecord
<1>2. ReviewOK(d)
  BY <1>1 DEF ReviewOK
<1> QED
  BY <1>2, ReviewUpdate DEF finish

LEMMA ReviewNewGraph ==
  ASSUME ChunkTyped, ReviewInv, NEW c \in Chunks, NEW k \in ChunkRecord, k.status = "",
         new_graph(c, k)
  PROVE  ReviewInv'
<1>1. CASE finish(c, k, "failed")
  BY <1>1, ReviewFinish DEF Statuses
<1>2. ASSUME NEW g \in LlmGraphs,
             chunk' = [chunk EXCEPT ![c] = [k EXCEPT !.stage = "validate", !.graph = g,
                                                     !.raw = g, !.issues = {}]]
      PROVE  ReviewInv'
  <2> DEFINE d == [k EXCEPT !.stage = "validate", !.graph = g, !.raw = g, !.issues = {}]
  <2>1. d.stage = "validate" /\ d.status = ""
    BY DEF ChunkRecord
  <2>2. ReviewOK(d)
    BY <2>1 DEF ReviewOK
  <2> QED
    BY <1>2, <2>2, ReviewUpdate
<1> QED
  BY <1>1, <1>2 DEF new_graph

\* A queued or running chunk's record with other counters.
LEMMA Counted ==
  ASSUME ChunkTyped, NEW c \in Chunks, chunk[c].stage # "done"
  PROVE  /\ [chunk[c] EXCEPT !.llm_calls = @ + 1] \in ChunkRecord
         /\ [chunk[c] EXCEPT !.reviews_used = @ + 1, !.llm_calls = @ + 1] \in ChunkRecord
         /\ [chunk[c] EXCEPT !.fixes_used = @ + 1, !.llm_calls = @ + 1] \in ChunkRecord
         /\ chunk[c].status = ""
<1>1. chunk[c] \in ChunkRecord /\ AtStage(chunk[c])
  BY DEF ChunkTyped
<1>2. /\ chunk[c].llm_calls + 1 \in Nat /\ chunk[c].reviews_used + 1 \in Nat
      /\ chunk[c].fixes_used + 1 \in Nat
  BY <1>1 DEF ChunkRecord
<1>3. /\ [chunk[c] EXCEPT !.llm_calls = @ + 1] \in ChunkRecord
      /\ [chunk[c] EXCEPT !.reviews_used = @ + 1, !.llm_calls = @ + 1] \in ChunkRecord
      /\ [chunk[c] EXCEPT !.fixes_used = @ + 1, !.llm_calls = @ + 1] \in ChunkRecord
  BY <1>1, <1>2 DEF ChunkRecord
<1> QED
  BY <1>1, <1>3 DEF AtStage

LEMMA ReviewStep ==
  ASSUME ShapeInv, ReviewInv, [ExtractionNext]_extractionVars
  PROVE  ReviewInv'
<1>0. ChunkTyped /\ \A c \in Chunks : /\ chunk[c] \in ChunkRecord /\ AtStage(chunk[c])
                                      /\ ReviewOK(chunk[c])
  BY DEF ShapeInv, ChunkTyped, ReviewInv
<1>1. ASSUME NEW c \in Chunks, run_prepared_chunk(c)
      PROVE  ReviewInv'
  <2>0. chunk[c] \in ChunkRecord /\ chunk[c].stage = "queued" /\ chunk[c].status = ""
    BY <1>0, <1>1 DEF run_prepared_chunk, AtStage
  <2>1. CASE chunk' = [chunk EXCEPT ![c].stage = "extract"]
    <3> DEFINE d == [chunk[c] EXCEPT !.stage = "extract"]
    <3>1. d.stage = "extract" /\ d.status = ""
      BY <2>0 DEF ChunkRecord
    <3>2. ReviewOK(d)
      BY <3>1 DEF ReviewOK
    <3>3. chunk' = [chunk EXCEPT ![c] = d]
      BY <2>1
    <3> QED
      BY <1>0, <3>2, <3>3, ReviewUpdate
  <2>2. CASE finish(c, chunk[c], "failed")
    BY <1>0, <2>0, <2>2, ReviewFinish DEF Statuses
  <2> QED
    BY <1>1, <2>1, <2>2 DEF run_prepared_chunk
<1>2. ASSUME NEW c \in Chunks, extract_chunk(c)
      PROVE  ReviewInv'
  <2> DEFINE k == [chunk[c] EXCEPT !.llm_calls = @ + 1]
  <2>1. chunk[c].stage = "extract" /\ new_graph(c, k)
    BY <1>2 DEF extract_chunk
  <2>2. k \in ChunkRecord /\ chunk[c].status = ""
    BY <1>0, <2>1, Counted
  <2>3. k.status = ""
    BY <1>0, <2>2 DEF ChunkRecord
  <2> HIDE DEF k
  <2> QED
    BY <1>0, <2>1, <2>2, <2>3, ReviewNewGraph
<1>3. ASSUME NEW c \in Chunks, validate_chunk(c)
      PROVE  ReviewInv'
  <2> DEFINE v == validate(chunk[c].graph)
             k == [chunk[c] EXCEPT !.graph = v.graph, !.issues = v.issues]
  <2>0. /\ chunk[c] \in ChunkRecord /\ chunk[c].stage = "validate" /\ chunk[c].status = ""
        /\ chunk[c].graph \in LlmGraphs /\ chunk[c].raw = chunk[c].graph
    BY <1>0, <1>3 DEF validate_chunk, AtStage
  <2>1. /\ v.graph = normalize(chunk[c].graph) /\ v.issues = issues_of(v.graph)
        /\ v.graph \in SomeGraphs /\ v.issues \in SUBSET IssueKinds
    BY <2>0, IssuesTyped DEF validate, SomeGraphs
  <2>2. /\ k \in ChunkRecord /\ k.status = "" /\ k.raw = chunk[c].raw
        /\ k.graph = v.graph /\ k.issues = v.issues
    <3> HIDE DEF v
    <3> QED
      BY <2>0, <2>1 DEF ChunkRecord
  <2>3. \/ finish(c, k, "blocked") \/ finish(c, k, "candidate")
        \/ chunk' = [chunk EXCEPT ![c] = [k EXCEPT !.stage = "repair"]]
        \/ /\ v.issues = {}
           /\ chunk' = [chunk EXCEPT ![c] = [k EXCEPT !.stage = "review"]]
    BY <1>3 DEF validate_chunk
  <2>4. v.issues = {} => Passed(k.raw, k.graph)
    BY <2>0, <2>1, <2>2 DEF Passed
  <2> HIDE DEF k, v
  <2>5. CASE finish(c, k, "blocked") \/ finish(c, k, "candidate")
    BY <1>0, <2>2, <2>5, ReviewFinish DEF Statuses
  <2>6. CASE chunk' = [chunk EXCEPT ![c] = [k EXCEPT !.stage = "repair"]]
    <3> DEFINE d == [k EXCEPT !.stage = "repair"]
    <3>1. d.stage = "repair" /\ d.status = ""
      BY <2>2 DEF ChunkRecord
    <3>2. ReviewOK(d)
      BY <3>1 DEF ReviewOK
    <3> QED
      BY <1>0, <2>6, <3>2, ReviewUpdate
  <2>7. CASE /\ v.issues = {}
             /\ chunk' = [chunk EXCEPT ![c] = [k EXCEPT !.stage = "review"]]
    <3> DEFINE d == [k EXCEPT !.stage = "review"]
    <3>1. d.raw = k.raw /\ d.graph = k.graph /\ d.status = ""
      BY <2>2 DEF ChunkRecord
    <3>2. ReviewOK(d)
      BY <2>4, <2>7, <3>1 DEF ReviewOK
    <3> QED
      BY <1>0, <2>7, <3>2, ReviewUpdate
  <2> QED
    BY <2>3, <2>5, <2>6, <2>7
<1>4. ASSUME NEW c \in Chunks, review_chunk(c)
      PROVE  ReviewInv'
  <2> DEFINE k == [chunk[c] EXCEPT !.reviews_used = @ + 1, !.llm_calls = @ + 1]
             f == [k EXCEPT !.issues = {"review"}]
             r == [k EXCEPT !.reviewed = k.graph]
  <2>1. chunk[c].stage = "review"
    BY <1>4 DEF review_chunk
  <2>2. k \in ChunkRecord /\ chunk[c].status = "" /\ Passed(chunk[c].raw, chunk[c].graph)
    BY <1>0, <2>1, Counted DEF ReviewOK
  <2>3. k.status = "" /\ k.raw = chunk[c].raw /\ k.graph = chunk[c].graph
    BY <1>0, <2>2 DEF ChunkRecord
  <2>4. \/ finish(c, k, "failed") \/ finish(c, r, "final") \/ finish(c, f, "blocked")
        \/ finish(c, f, "candidate")
        \/ chunk' = [chunk EXCEPT ![c] = [f EXCEPT !.stage = "repair"]]
    BY <1>4 DEF review_chunk
  <2> HIDE DEF k
  <2>5. f \in ChunkRecord /\ f.status = ""
    BY <2>2, <2>3 DEF ChunkRecord, IssueKinds
  <2>6. CASE finish(c, k, "failed") \/ finish(c, f, "blocked") \/ finish(c, f, "candidate")
    <3> HIDE DEF f
    <3> QED
      BY <1>0, <2>2, <2>5, <2>6, ReviewFinish DEF Statuses
  <2>7. CASE finish(c, r, "final")
    <3> DEFINE d == [r EXCEPT !.stage = "done", !.status = "final"]
    <3>1. d.raw = k.raw /\ d.graph = k.graph /\ d.reviewed = k.graph
      BY <2>2 DEF ChunkRecord
    <3>2. ReviewOK(d)
      <4> HIDE DEF d
      <4> QED
        BY <2>2, <2>3, <3>1 DEF ReviewOK
    <3>3. chunk' = [chunk EXCEPT ![c] = d]
      BY <2>7 DEF finish
    <3> HIDE DEF d
    <3> QED
      BY <1>0, <3>2, <3>3, ReviewUpdate
  <2>8. CASE chunk' = [chunk EXCEPT ![c] = [f EXCEPT !.stage = "repair"]]
    <3> DEFINE d == [f EXCEPT !.stage = "repair"]
    <3> HIDE DEF f
    <3>1. d.stage = "repair" /\ d.status = ""
      BY <2>5 DEF ChunkRecord
    <3>2. ReviewOK(d)
      BY <3>1 DEF ReviewOK
    <3> QED
      BY <1>0, <2>8, <3>2, ReviewUpdate
  <2> QED
    BY <2>4, <2>6, <2>7, <2>8
<1>5. ASSUME NEW c \in Chunks, repair_chunk(c)
      PROVE  ReviewInv'
  <2> DEFINE k == [chunk[c] EXCEPT !.fixes_used = @ + 1, !.llm_calls = @ + 1]
  <2>1. chunk[c].stage = "repair" /\ new_graph(c, k)
    BY <1>5 DEF repair_chunk
  <2>2. k \in ChunkRecord /\ chunk[c].status = ""
    BY <1>0, <2>1, Counted
  <2>3. k.status = ""
    BY <1>0, <2>2 DEF ChunkRecord
  <2> HIDE DEF k
  <2> QED
    BY <1>0, <2>1, <2>2, <2>3, ReviewNewGraph
<1>6. ASSUME NEW c \in Chunks, PropertyGraphExtract_run(c) \/ InfoExtract_run(c)
      PROVE  ReviewInv'
  <2>0. chunk[c] \in ChunkRecord /\ chunk[c].status = ""
    BY <1>0, <1>6 DEF PropertyGraphExtract_run, InfoExtract_run, Turn, AtStage
  <2>1. CASE UNCHANGED chunk
    BY <2>1 DEF ReviewInv, ReviewOK, Passed
  <2>2. ASSUME NEW x, NEW y,
               chunk' = [chunk EXCEPT ![c] = [@ EXCEPT !.stage = "done", !.llm_calls = 1,
                                                       !.raw = x, !.graph = y]]
        PROVE  ReviewInv'
    <3> DEFINE d == [chunk[c] EXCEPT !.stage = "done", !.llm_calls = 1, !.raw = x, !.graph = y]
    <3>1. d.stage = "done" /\ d.status = ""
      BY <2>0 DEF ChunkRecord
    <3>2. ReviewOK(d)
      BY <3>1 DEF ReviewOK
    <3> QED
      BY <1>0, <2>2, <3>2, ReviewUpdate
  <2>3. ASSUME chunk' = [chunk EXCEPT ![c] = [@ EXCEPT !.stage = "done", !.llm_calls = 1,
                                                       !.graph = EmptyGraph]]
        PROVE  ReviewInv'
    <3> DEFINE d == [chunk[c] EXCEPT !.stage = "done", !.llm_calls = 1, !.graph = EmptyGraph]
    <3>1. d.stage = "done" /\ d.status = ""
      BY <2>0 DEF ChunkRecord
    <3>2. ReviewOK(d)
      BY <3>1 DEF ReviewOK
    <3> QED
      BY <1>0, <2>3, <3>2, ReviewUpdate
  <2> QED
    BY <1>6, <2>1, <2>2, <2>3 DEF PropertyGraphExtract_run, InfoExtract_run, raises, EmptyGraph
<1>7. ASSUME UNCHANGED chunk
      PROVE  ReviewInv'
  BY <1>7 DEF ReviewInv, ReviewOK, Passed
<1> QED
  BY <1>1, <1>2, <1>3, <1>4, <1>5, <1>6, <1>7
     DEF ExtractionNext, ChunkNext, extract_with_review, post_deal_plain, Commit2Graph_run,
         load_into_graph, load_vertex, load_edge, vertices_loaded, edges_loaded, extractionVars

LEMMA ReviewInit ==
  ASSUME ExtractionInit
  PROVE  ReviewInv
<1>1. fresh_chunk.stage = "queued" /\ fresh_chunk.status = ""
  BY DEF fresh_chunk
<1>2. ReviewOK(fresh_chunk)
  BY <1>1 DEF ReviewOK
<1> QED
  BY <1>2 DEF ExtractionInit, ReviewInv

\* The graph of a final chunk is the one the reviewer passed, and it is valid as it
\* stands, whatever the model answered and however often it was repaired (run_chunk).
THEOREM FinalGraphsPass == ExtractionSpec => []FinalGraphPassed
<1>1. ExtractionInit => ShapeInv /\ ReviewInv
  BY ShapeInit, ReviewInit
<1>2. ShapeInv /\ ReviewInv /\ [ExtractionNext]_extractionVars => (ShapeInv /\ ReviewInv)'
  BY ShapeStep, ReviewStep
<1>3. ReviewInv => FinalGraphPassed
  BY PassedIsFixed DEF ReviewInv, ReviewOK, FinalGraphPassed, Final
<1> QED
  BY <1>1, <1>2, <1>3, PTL DEF ExtractionSpec

\* Each end of an edge of a final chunk means one vertex of the model's answer: an alias
\* that two vertices share is never settled by their order (_normalize).
THEOREM FinalEdgesMeanOneVertex == ExtractionSpec => []FinalEdgesUnambiguous
<1>1. ExtractionInit => ShapeInv /\ ReviewInv
  BY ShapeInit, ReviewInit
<1>2. ShapeInv /\ ReviewInv /\ [ExtractionNext]_extractionVars => (ShapeInv /\ ReviewInv)'
  BY ShapeStep, ReviewStep
<1>3. ReviewInv => FinalEdgesUnambiguous
  <2> SUFFICES ASSUME ReviewInv, NEW c \in Final, NEW i \in DOMAIN chunk[c].raw.edges,
                      NEW end \in {"out", "in"}
               PROVE  Cardinality({target(v) : v \in meant(chunk[c].raw,
                                                 chunk[c].raw.edges[i][end])}) = 1
    BY DEF FinalEdgesUnambiguous
  <2>1. Passed(chunk[c].raw, chunk[c].graph)
    BY DEF ReviewInv, ReviewOK, Final
  <2>2. \E x : {target(v) : v \in meant(chunk[c].raw, chunk[c].raw.edges[i][end])} = {x}
    <3>1. CASE end = "out"
      <4>1. {target(v) : v \in meant(chunk[c].raw, chunk[c].raw.edges[i].out)}
              = {chunk[c].graph.edges[i].out.id}
        BY <2>1, PassedEnds
      <4> QED
        BY <3>1, <4>1
    <3>2. CASE end = "in"
      <4>1. {target(v) : v \in meant(chunk[c].raw, chunk[c].raw.edges[i].in)}
              = {chunk[c].graph.edges[i].in.id}
        BY <2>1, PassedEnds
      <4> QED
        BY <3>2, <4>1
    <3> QED
      BY <3>1, <3>2
  <2> QED
    BY <2>2, FS_Singleton
<1> QED
  BY <1>1, <1>2, <1>3, PTL DEF ExtractionSpec

----------------------------------------------------------------------------
(* The import                                                               *)

\* A place of h is one of the answer g.  The vertices of h carry the ids that HugeGraph
\* derives from them, and a note the one of the answer; the edges of h have the schema's
\* labels and carry the ids of vertices that g meant by their ends.
LoadsVertex(g, h, i) ==
  /\ i \in DOMAIN g.vertices /\ h.vertices[i] \in Vertex
  /\ h.vertices[i].label = g.vertices[i].label
  /\ h.vertices[i].id = text_id(h.vertices[i])
  /\ h.vertices[i].label = "note" => h.vertices[i].id = g.vertices[i].id

LoadsEdge(g, h, i) ==
  /\ g.edges[i].out.label = SourceLabel /\ g.edges[i].in.label = TargetLabel[h.edges[i].label]
  /\ \E v \in meant(g, g.edges[i].out) : text_id(v) = h.edges[i].out.id
  /\ \E v \in meant(g, g.edges[i].in) : text_id(v) = h.edges[i].in.id

Loads(g, h) == /\ \A i \in DOMAIN h.vertices : LoadsVertex(g, h, i)
               /\ \A i \in DOMAIN h.edges : LoadsEdge(g, h, i)

LEMMA MeantTyped ==
  ASSUME NEW g \in LlmGraphs, NEW p, NEW v \in meant(g, p)
  PROVE  v \in Vertex
BY AnswerParts DEF meant, ToSet

LEMMA PassedLoads ==
  ASSUME SchemaHasIds, NEW g, NEW h, Passed(g, h)
  PROVE  Loads(g, h)
<1>1. g \in LlmGraphs /\ h = normalized(g)
  BY PassedIsNormal
<1>2. /\ DOMAIN h.vertices = DOMAIN g.vertices /\ DOMAIN h.edges = DOMAIN g.edges
  BY <1>1 DEF normalized
<1>3. ASSUME NEW i \in DOMAIN h.vertices
      PROVE  LoadsVertex(g, h, i)
  <2>1. h.vertices[i].label \in VertexLabels
    BY NoIssues DEF Passed
  <2>2. /\ h.vertices[i] \in Vertex /\ target(h.vertices[i]) = h.vertices[i].id
        /\ h.vertices[i].label = g.vertices[i].label
        /\ h.vertices[i].id = target(g.vertices[i])
    BY <1>1, <1>2, <2>1, VertexNormal
  <2>3. g.vertices[i] \in Vertex
    BY <1>1, <1>2, AnswerParts
  <2>4. /\ target(h.vertices[i]) = text_id(h.vertices[i])
        /\ h.vertices[i].label = "note" => target(g.vertices[i]) = g.vertices[i].id
    BY <2>2, <2>3, TargetFacts
  <2> QED
    BY <1>2, <2>2, <2>4 DEF LoadsVertex
<1>4. ASSUME NEW i \in DOMAIN h.edges
      PROVE  LoadsEdge(g, h, i)
  <2>1. /\ {target(v) : v \in meant(g, g.edges[i].out)} = {h.edges[i].out.id}
        /\ {target(v) : v \in meant(g, g.edges[i].in)} = {h.edges[i].in.id}
    BY <1>2, PassedEnds
  <2>2. PICK v \in meant(g, g.edges[i].out) : target(v) = h.edges[i].out.id
    BY <2>1
  <2>3. PICK w \in meant(g, g.edges[i].in) : target(w) = h.edges[i].in.id
    BY <2>1
  <2>4. text_id(v) = target(v) /\ text_id(w) = target(w)
    BY <1>1, MeantTyped, TargetFacts
  <2>5. h.edges[i].label \in EdgeLabels /\ schema_ends(h.edges[i])
    BY NoIssues DEF Passed
  <2>6. h.edges[i].out.label = SourceLabel /\ h.edges[i].in.label = TargetLabel[h.edges[i].label]
    BY <2>5 DEF schema_ends
  <2>7. /\ h.edges[i].out = normalize_endpoint(g, g.edges[i].out)
        /\ h.edges[i].in = normalize_endpoint(g, g.edges[i].in)
        /\ g.edges[i].out \in Endpoint /\ g.edges[i].in \in Endpoint
    <3>1. h.edges[i] = [label |-> g.edges[i].label,
                        out |-> normalize_endpoint(g, g.edges[i].out),
                        in  |-> normalize_endpoint(g, g.edges[i].in)]
      BY PassedEdge
    <3> QED
      BY <3>1, PassedEdge
  <2>8. /\ h.edges[i].out.label = g.edges[i].out.label
        /\ h.edges[i].in.label = g.edges[i].in.label
    BY <1>1, <2>7, EndpointNormal
  <2> QED
    BY <2>2, <2>3, <2>4, <2>6, <2>8 DEF LoadsEdge
<1> QED
  BY <1>3, <1>4 DEF Loads

\* vertex_id_map leads to a vertex that the endpoint means.
LEMMA Resolved ==
  ASSUME SchemaHasIds, NEW g \in LlmGraphs, NEW p, resolve_endpoint(labelled(g), p) # ""
  PROVE  \E v \in meant(g, p) : text_id(v) = resolve_endpoint(labelled(g), p)
<1> DEFINE V == labelled(g)
           named == {i \in DOMAIN V : /\ V[i].label = p.label /\ named_id(p) # ""
                                      /\ named_id(p) \in {V[i].id, target(V[i])}}
           last == {i \in named : \A j \in named : j <= i}
           k == CHOOSE i \in last : TRUE
<1>1. resolve_endpoint(V, p) = IF last = {} THEN "" ELSE target(V[k])
  BY DEF resolve_endpoint
<1>2. last # {} /\ resolve_endpoint(V, p) = target(V[k])
  BY <1>1
<1>3. k \in named
  BY <1>2
<1>4. /\ k \in DOMAIN V /\ V[k].label = p.label /\ named_id(p) # ""
      /\ named_id(p) \in {V[k].id, target(V[k])}
  BY <1>3
<1> HIDE DEF k, named, last
<1>5. k \in DOMAIN g.vertices /\ V[k] = g.vertices[k]
  BY <1>4 DEF labelled
<1>6. V[k] \in meant(g, p)
  BY <1>4, <1>5 DEF meant, ToSet
<1>7. V[k] \in Vertex
  BY <1>6, MeantTyped
<1>8. text_id(V[k]) = target(V[k])
  BY <1>7, TargetFacts
<1> QED
  BY <1>2, <1>6, <1>8

LEMMA FilteredLoads ==
  ASSUME SchemaHasIds, NEW g \in LlmGraphs
  PROVE  Loads(g, extract_and_filter_label(g))
<1> DEFINE V == labelled(g)
           h == extract_and_filter_label(g)
<1>1. h.vertices = normalize_vertices(V) /\ h.edges = normalize_edges(g.edges, V)
  BY DEF extract_and_filter_label
<1> HIDE DEF h
<1>2. ASSUME NEW i \in DOMAIN h.vertices
      PROVE  LoadsVertex(g, h, i)
  <2> DEFINE v == g.vertices[i]
             w == h.vertices[i]
  <2>1. i \in DOMAIN g.vertices /\ w = [v EXCEPT !.id = target(v)]
    BY <1>1 DEF normalize_vertices, labelled
  <2>2. v \in Vertex /\ target(v) \in STRING
    BY <2>1, AnswerParts, TargetFacts
  <2> HIDE DEF v, w
  <2>3. w \in Vertex /\ w.label = v.label /\ w.pk = v.pk /\ w.id = target(v)
    BY <2>1, <2>2 DEF Vertex
  <2>4. /\ target(w) = w.id /\ target(w) = text_id(w)
        /\ v.label = "note" => target(v) = v.id
    BY <2>2, <2>3, TargetFacts
  <2> QED
    BY <2>1, <2>3, <2>4 DEF LoadsVertex, v, w
<1>3. ASSUME NEW i \in DOMAIN h.edges
      PROVE  LoadsEdge(g, h, i)
  <2> DEFINE out == g.edges[i].out
             in == g.edges[i].in
  <2>1. /\ i \in DOMAIN g.edges
        /\ g.edges[i].label \in EdgeLabels /\ schema_ends(g.edges[i])
        /\ resolve_endpoint(V, out) # "" /\ resolve_endpoint(V, in) # ""
        /\ h.edges[i] = [label |-> g.edges[i].label,
                         out |-> [out EXCEPT !.id = resolve_endpoint(V, out)],
                         in  |-> [in EXCEPT !.id = resolve_endpoint(V, in)]]
    <3> DEFINE kept == {j \in DOMAIN g.edges :
                           /\ g.edges[j].label \in EdgeLabels /\ schema_ends(g.edges[j])
                           /\ resolve_endpoint(V, g.edges[j].out) # ""
                           /\ resolve_endpoint(V, g.edges[j].in) # ""}
    <3>1. h.edges = [j \in kept |->
            [label |-> g.edges[j].label,
             out |-> [g.edges[j].out EXCEPT !.id = resolve_endpoint(V, g.edges[j].out)],
             in  |-> [g.edges[j].in EXCEPT !.id = resolve_endpoint(V, g.edges[j].in)]]]
      BY <1>1 DEF normalize_edges
    <3>2. i \in kept
      BY <3>1
    <3> HIDE DEF V
    <3>3. h.edges[i] = [label |-> g.edges[i].label,
                        out |-> [out EXCEPT !.id = resolve_endpoint(V, out)],
                        in  |-> [in EXCEPT !.id = resolve_endpoint(V, in)]]
      BY <3>1, <3>2
    <3> QED
      BY <3>2, <3>3
  <2>2. out \in Endpoint /\ in \in Endpoint
    BY <2>1, AnswerParts
  <2>3. /\ h.edges[i].label = g.edges[i].label
        /\ h.edges[i].out = [out EXCEPT !.id = resolve_endpoint(V, out)]
        /\ h.edges[i].in = [in EXCEPT !.id = resolve_endpoint(V, in)]
    <3> DEFINE a == [out EXCEPT !.id = resolve_endpoint(V, out)]
               b == [in EXCEPT !.id = resolve_endpoint(V, in)]
    <3>1. h.edges[i] = [label |-> g.edges[i].label, out |-> a, in |-> b]
      BY <2>1
    <3> HIDE DEF a, b
    <3>2. h.edges[i].label = g.edges[i].label /\ h.edges[i].out = a /\ h.edges[i].in = b
      BY <3>1
    <3> QED
      BY <3>2 DEF a, b
  <2> HIDE DEF out, in
  <2>4. /\ h.edges[i].out.id = resolve_endpoint(V, out)
        /\ h.edges[i].in.id = resolve_endpoint(V, in)
    BY <2>2, <2>3 DEF Endpoint
  <2>5. /\ \E v \in meant(g, out) : text_id(v) = resolve_endpoint(V, out)
        /\ \E v \in meant(g, in) : text_id(v) = resolve_endpoint(V, in)
    BY <2>1, Resolved
  <2>6. /\ g.edges[i].out.label = SourceLabel
        /\ g.edges[i].in.label = TargetLabel[h.edges[i].label]
    BY <2>1, <2>3 DEF schema_ends
  <2> QED
    BY <2>4, <2>5, <2>6 DEF out, in, LoadsEdge
<1> QED
  BY <1>2, <1>3 DEF Loads, h

LEMMA EmptyLoads ==
  ASSUME NEW g
  PROVE  Loads(g, EmptyGraph)
<1>1. DOMAIN EmptyGraph.vertices = {} /\ DOMAIN EmptyGraph.edges = {}
  BY DEF EmptyGraph
<1> QED
  BY <1>1 DEF Loads

\* The items of the returned lists that the graph of their chunk can load.
PlainLoads ==
  \A c \in Chunks : extract_type # "review" /\ chunk[c].stage = "done"
                      => Loads(chunk[c].raw, chunk[c].graph)

ExtractedLoads ==
  \A c \in extracted.chunks : /\ c \in Chunks /\ chunk[c].stage = "done"
                              /\ Loads(chunk[c].raw, chunk[c].graph)

\* Nothing is imported before the extraction has ended.
NothingYet ==
  extracted.status = "" => /\ extracted.chunks = {} /\ import.pc = "idle"
                           /\ DOMAIN import.vid_mapping = {} /\ graph_db.edges = {}

PendingOK ==
  /\ import.pc = "vertices" => import.pending \subseteq Places("vertices")
  /\ import.pc = "edges" => import.pending \subseteq Places("edges")

\* What vid_mapping may hold for an id: the id itself, or the id made for a note that has
\* this id in the graph of a returned chunk.
Remembered(id, vid) ==
  \/ vid = StringId(id)
  \/ \E q \in Places("vertices") :
       /\ vid = AutomaticId(q)
       /\ chunk[q[1]].graph.vertices[q[2]].label = "note"
       /\ chunk[q[1]].graph.vertices[q[2]].id = id

MappingOK == \A id \in DOMAIN import.vid_mapping : Remembered(id, import.vid_mapping[id])

\* HugeGraph made the ids of the notes, and no other.
StoredOK == \A x \in graph_db.vertices : x[2] = "note" <=> x[1].made_for # NoPlace

EdgeAsMeant(e) ==
  /\ e.by[1] \in extracted.chunks
  /\ LET source == chunk[e.by[1]].raw.edges[e.by[2]]
     IN  /\ e.start \in own_ids(e.by[1], source.out)
         /\ e.end \in own_ids(e.by[1], source.in)
                      \cup IF source.in.label = "note" THEN other_notes(e.by[1], source.in) ELSE {}

EdgesAsMeant == \A e \in graph_db.edges : EdgeAsMeant(e)

ImportInv == /\ PlainLoads /\ ExtractedLoads /\ NothingYet /\ PendingOK /\ MappingOK
             /\ StoredOK /\ EdgesAsMeant

LEMMA ImportInit ==
  ASSUME ExtractionInit
  PROVE  ImportInv
<1>1. \A c \in Chunks : chunk[c].stage = "queued"
  BY DEF ExtractionInit, fresh_chunk
<1>2. PlainLoads
  BY <1>1 DEF PlainLoads
<1>3. /\ extracted.chunks = {} /\ import.pc = "idle" /\ graph_db.edges = {}
      /\ import.vid_mapping = <<>> /\ graph_db.vertices = {}
  BY DEF ExtractionInit
<1>4. DOMAIN import.vid_mapping = {}
  BY <1>3
<1> QED
  BY <1>2, <1>3, <1>4
     DEF ImportInv, ExtractedLoads, NothingYet, PendingOK, MappingOK, StoredOK, EdgesAsMeant

\* A chunk that is done stays as it is.
LEMMA DoneStays ==
  ASSUME ShapeInv, [ExtractionNext]_extractionVars, NEW d \in Chunks, chunk[d].stage = "done"
  PROVE  chunk'[d] = chunk[d]
<1>0. chunk \in [Chunks -> ChunkRecord]
  BY DEF ShapeInv, ChunkTyped
<1>1. ASSUME NEW c \in Chunks, chunk[c].stage # "done", NEW k, chunk' = [chunk EXCEPT ![c] = k]
      PROVE  chunk'[d] = chunk[d]
  BY <1>0, <1>1
<1>2. ASSUME NEW c \in Chunks, NEW k, NEW status, chunk[c].stage # "done", finish(c, k, status)
      PROVE  chunk'[d] = chunk[d]
  BY <1>1, <1>2 DEF finish
<1>3. ASSUME NEW c \in Chunks, NEW k, chunk[c].stage # "done", new_graph(c, k)
      PROVE  chunk'[d] = chunk[d]
  BY <1>1, <1>2, <1>3 DEF new_graph
<1>4. ASSUME NEW c \in Chunks, run_prepared_chunk(c)
      PROVE  chunk'[d] = chunk[d]
  <2>1. CASE chunk' = [chunk EXCEPT ![c].stage = "extract"]
    BY <1>0, <1>4, <2>1 DEF run_prepared_chunk
  <2> QED
    BY <1>2, <1>4, <2>1 DEF run_prepared_chunk
<1>5. ASSUME NEW c \in Chunks, extract_chunk(c) \/ repair_chunk(c)
      PROVE  chunk'[d] = chunk[d]
  BY <1>3, <1>5 DEF extract_chunk, repair_chunk
<1>6. ASSUME NEW c \in Chunks, validate_chunk(c)
      PROVE  chunk'[d] = chunk[d]
  BY <1>1, <1>2, <1>6 DEF validate_chunk
<1>7. ASSUME NEW c \in Chunks, review_chunk(c)
      PROVE  chunk'[d] = chunk[d]
  BY <1>1, <1>2, <1>7 DEF review_chunk
<1>8. ASSUME NEW c \in Chunks, PropertyGraphExtract_run(c) \/ InfoExtract_run(c)
      PROVE  chunk'[d] = chunk[d]
  BY <1>1, <1>8 DEF PropertyGraphExtract_run, InfoExtract_run, Turn, raises
<1> QED
  BY <1>4, <1>5, <1>6, <1>7, <1>8
     DEF ExtractionNext, ChunkNext, extract_with_review, post_deal_plain, Commit2Graph_run,
         load_into_graph, load_vertex, load_edge, vertices_loaded, edges_loaded, extractionVars

\* So the returned lists and what the imported edges meant stay as they are.
LEMMA ReturnedStays ==
  ASSUME ShapeInv, ImportInv, [ExtractionNext]_extractionVars, extracted' = extracted
  PROVE  /\ ExtractedLoads'
         /\ Places("vertices")' = Places("vertices") /\ Places("edges")' = Places("edges")
         /\ \A e : EdgeAsMeant(e) => EdgeAsMeant(e)'
         /\ \A id, vid : Remembered(id, vid) => Remembered(id, vid)'
<1>1. ASSUME NEW c \in extracted.chunks
      PROVE  /\ c \in Chunks /\ chunk[c].stage = "done" /\ chunk'[c] = chunk[c]
             /\ Loads(chunk[c].raw, chunk[c].graph)
  BY DoneStays DEF ImportInv, ExtractedLoads
<1>2. ExtractedLoads'
  BY <1>1 DEF ExtractedLoads, Loads, LoadsVertex, LoadsEdge
<1>3. Places("vertices")' = Places("vertices")
  BY <1>1 DEF Places
<1>4. Places("edges")' = Places("edges")
  BY <1>1 DEF Places
<1>5. ASSUME NEW e, EdgeAsMeant(e)
      PROVE  EdgeAsMeant(e)'
  <2>1. e.by[1] \in extracted.chunks /\ chunk'[e.by[1]] = chunk[e.by[1]]
    BY <1>1, <1>5 DEF EdgeAsMeant
  <2>2. \A q : own_ids(e.by[1], q)' = own_ids(e.by[1], q)
    BY <2>1 DEF own_ids
  <2>3. \A q : other_notes(e.by[1], q)' = other_notes(e.by[1], q)
    <3>1. \A r \in Places("vertices") : chunk'[r[1]] = chunk[r[1]]
      BY <1>1 DEF Places
    <3> QED
      BY <1>3, <3>1 DEF other_notes
  <2> QED
    BY <1>5, <2>1, <2>2, <2>3 DEF EdgeAsMeant
<1>6. ASSUME NEW id, NEW vid, Remembered(id, vid)
      PROVE  Remembered(id, vid)'
  <2>1. \A r \in Places("vertices") : chunk'[r[1]] = chunk[r[1]]
    BY <1>1 DEF Places
  <2> QED
    BY <1>3, <1>6, <2>1 DEF Remembered
<1> QED
  BY <1>2, <1>3, <1>4, <1>5, <1>6

\* Only what the chunks are tells what they load.
LEMMA LoadsSame ==
  ASSUME NEW c, Loads(chunk'[c].raw, chunk'[c].graph)
  PROVE  Loads(chunk[c].raw, chunk[c].graph)'
BY DEF Loads, LoadsVertex, LoadsEdge

LEMMA PlainSame ==
  ASSUME PlainLoads, UNCHANGED chunk, UNCHANGED extract_type
  PROVE  PlainLoads'
<1>1. ASSUME NEW c \in Chunks, extract_type' # "review", chunk'[c].stage = "done"
      PROVE  Loads(chunk[c].raw, chunk[c].graph)'
  BY <1>1, LoadsSame DEF PlainLoads
<1> QED
  BY <1>1 DEF PlainLoads

\* A step that leaves the import and the returned lists alone.
LEMMA ImportRests ==
  ASSUME ShapeInv, ImportInv, [ExtractionNext]_extractionVars,
         UNCHANGED <<extracted, import, graph_db>>, PlainLoads'
  PROVE  ImportInv'
<1>1. UNCHANGED extracted /\ UNCHANGED import /\ UNCHANGED graph_db
  OBVIOUS
<1>2. /\ ExtractedLoads'
      /\ Places("vertices")' = Places("vertices") /\ Places("edges")' = Places("edges")
      /\ \A e : EdgeAsMeant(e) => EdgeAsMeant(e)'
      /\ \A id, vid : Remembered(id, vid) => Remembered(id, vid)'
  BY <1>1, ReturnedStays
<1>3. NothingYet'
  BY <1>1 DEF ImportInv, NothingYet
<1>4. PendingOK'
  BY <1>1, <1>2 DEF ImportInv, PendingOK
<1>5. MappingOK' /\ StoredOK'
  BY <1>1, <1>2 DEF ImportInv, MappingOK, StoredOK
<1>6. EdgesAsMeant'
  BY <1>1, <1>2 DEF ImportInv, EdgesAsMeant
<1> QED
  BY <1>2, <1>3, <1>4, <1>5, <1>6 DEF ImportInv

\* The extraction ends: cs are the chunks it returns.
LEMMA ImportBegins ==
  ASSUME ShapeInv, ImportInv, NEW cs \in SUBSET Chunks, extracted.status = "",
         \A c \in cs : chunk[c].stage = "done" /\ Loads(chunk[c].raw, chunk[c].graph),
         extracted'.chunks = cs, extracted'.status # "",
         UNCHANGED <<extract_type, chunk, import, graph_db>>
  PROVE  ImportInv'
<1>0. /\ extract_type' = extract_type /\ chunk' = chunk /\ import' = import
      /\ graph_db' = graph_db
  OBVIOUS
<1>1. import.pc = "idle" /\ graph_db.edges = {} /\ DOMAIN import.vid_mapping = {}
  BY DEF ImportInv, NothingYet
<1>2. PlainLoads'
  BY <1>0, PlainSame DEF ImportInv
<1>3. ExtractedLoads'
  <2>1. ASSUME NEW c \in cs
        PROVE  Loads(chunk[c].raw, chunk[c].graph)'
    BY <1>0, LoadsSame
  <2> QED
    BY <1>0, <2>1 DEF ExtractedLoads
<1>4. NothingYet' /\ PendingOK' /\ EdgesAsMeant'
  BY <1>0, <1>1 DEF NothingYet, PendingOK, EdgesAsMeant
<1>5. MappingOK' /\ StoredOK'
  BY <1>0, <1>1 DEF ImportInv, MappingOK, StoredOK
<1> QED
  BY <1>2, <1>3, <1>4, <1>5 DEF ImportInv

\* A step of Commit2Graph.
LEMMA ImportMoves ==
  ASSUME ShapeInv, ImportInv, [ExtractionNext]_extractionVars, extracted.status # "",
         UNCHANGED <<extract_type, chunk, extracted>>, MappingOK', StoredOK', PendingOK',
         \A e \in graph_db'.edges \ graph_db.edges : EdgeAsMeant(e)
  PROVE  ImportInv'
<1>0. extract_type' = extract_type /\ chunk' = chunk /\ extracted' = extracted
  OBVIOUS
<1>1. ExtractedLoads' /\ \A e : EdgeAsMeant(e) => EdgeAsMeant(e)'
  BY <1>0, ReturnedStays
<1>2. PlainLoads'
  BY <1>0, PlainSame DEF ImportInv
<1>3. NothingYet'
  BY <1>0 DEF NothingYet
<1>4. \A e \in graph_db'.edges : EdgeAsMeant(e)
  BY DEF ImportInv, EdgesAsMeant
<1>5. EdgesAsMeant'
  BY <1>1, <1>4 DEF EdgesAsMeant
<1> QED
  BY <1>1, <1>2, <1>3, <1>5 DEF ImportInv

\* No item is at the place of a text.
LEMMA PlaceTaken ==
  ASSUME NEW p, p[1] \in Chunks
  PROVE  p # NoPlace
BY ExtractionAssumption DEF Chunks, NoPlace

\* The ends of an edge that HugeGraph accepts: a text is the id of a vertex that the
\* chunk meant, and a number was made for a note that has the edge's id.
LEMMA EndsAsMeant ==
  ASSUME ShapeInv, ReviewInv, ImportInv, NEW p \in Places("edges"),
         LET e == chunk[p[1]].graph.edges[p[2]]
         IN  /\ e.label \in EdgeLabels
             /\ <<mapped(e.out.id), SourceLabel>> \in graph_db.vertices
             /\ <<mapped(e.in.id), TargetLabel[e.label]>> \in graph_db.vertices
  PROVE  LET e == chunk[p[1]].graph.edges[p[2]]
         IN  EdgeAsMeant([start |-> mapped(e.out.id), end |-> mapped(e.in.id), by |-> p])
<1> DEFINE c == p[1]
           e == chunk[c].graph.edges[p[2]]
           g == chunk[c].raw
           source == g.edges[p[2]]
<1>1. c \in extracted.chunks /\ p[2] \in DOMAIN chunk[c].graph.edges
  BY DEF Places
<1>2. Loads(g, chunk[c].graph) /\ c \in Chunks
  BY <1>1 DEF ImportInv, ExtractedLoads
<1>3. LoadsEdge(g, chunk[c].graph, p[2])
  BY <1>1, <1>2 DEF Loads
<1>4. source.out.label = SourceLabel /\ source.in.label = TargetLabel[e.label]
  BY <1>3 DEF LoadsEdge
<1>5. ASSUME NEW q, NEW v \in meant(g, q), q.label # "note"
      PROVE  StringId(text_id(v)) \in own_ids(c, q)
  <2>1. PICK i \in DOMAIN g.vertices : v = g.vertices[i]
    BY DEF meant, ToSet
  <2>2. server_id(<<c, i>>, g.vertices[i]) = StringId(text_id(v))
    BY <1>5, <2>1 DEF server_id, meant
  <2>3. server_id(<<c, i>>, g.vertices[i]) \in own_ids(c, q)
    BY <2>1 DEF own_ids
  <2> QED
    BY <2>2, <2>3
<1>6. ASSUME NEW id, NEW label, <<mapped(id), label>> \in graph_db.vertices
      PROVE  /\ label # "note" => mapped(id) = StringId(id)
             /\ label = "note" => \E q \in Places("vertices") :
                   /\ mapped(id) = AutomaticId(q)
                   /\ chunk[q[1]].graph.vertices[q[2]].label = "note"
                   /\ chunk[q[1]].graph.vertices[q[2]].id = id
  <2>1. Remembered(id, mapped(id))
    BY DEF ImportInv, MappingOK, mapped, Remembered
  <2>2. label = "note" <=> mapped(id).made_for # NoPlace
    BY <1>6 DEF ImportInv, StoredOK
  <2>3. StringId(id).made_for = NoPlace /\ \A q : AutomaticId(q).made_for = q
    BY DEF StringId, AutomaticId
  <2>4. \A q \in Places("vertices") : q # NoPlace
    BY PlaceTaken DEF Places, ImportInv, ExtractedLoads
  <2> QED
    BY <2>1, <2>2, <2>3, <2>4 DEF Remembered
<1>7. mapped(e.out.id) \in own_ids(c, source.out)
  <2>1. SourceLabel # "note"
    BY DEF SourceLabel
  <2>2. mapped(e.out.id) = StringId(e.out.id)
    BY <1>6, <2>1
  <2>3. PICK v \in meant(g, source.out) : text_id(v) = e.out.id
    BY <1>3 DEF LoadsEdge
  <2> QED
    BY <1>4, <1>5, <2>1, <2>2, <2>3
<1>8. PICK w \in meant(g, source.in) : text_id(w) = e.in.id
  BY <1>3 DEF LoadsEdge
<1>9. CASE TargetLabel[e.label] # "note"
  <2>1. mapped(e.in.id) = StringId(e.in.id)
    BY <1>6, <1>9
  <2>2. mapped(e.in.id) \in own_ids(c, source.in)
    BY <1>4, <1>5, <1>8, <1>9, <2>1
  <2> QED
    BY <1>1, <1>7, <2>2 DEF EdgeAsMeant
<1>10. CASE TargetLabel[e.label] = "note"
  <2>1. PICK q \in Places("vertices") : /\ mapped(e.in.id) = AutomaticId(q)
                                        /\ chunk[q[1]].graph.vertices[q[2]].label = "note"
                                        /\ chunk[q[1]].graph.vertices[q[2]].id = e.in.id
    BY <1>6, <1>10
  <2>2. w.label = "note" /\ named_id(source.in) \in {w.id, target(w)} \ {""}
    BY <1>4, <1>8, <1>10 DEF meant
  <2>3. target(w) = w.id /\ text_id(w) = w.id
    BY <2>2 DEF target, primary_key_id, text_id
  <2>4. named_id(source.in) = e.in.id /\ e.in.id # ""
    BY <1>8, <2>2, <2>3
  <2>5. CASE q[1] # c
    <3>1. AutomaticId(q) \in other_notes(c, source.in)
      BY <2>1, <2>4, <2>5 DEF other_notes
    <3> QED
      BY <1>1, <1>4, <1>7, <1>10, <2>1, <3>1 DEF EdgeAsMeant
  <2>6. CASE q[1] = c
    <3>1. q[2] \in DOMAIN chunk[c].graph.vertices /\ q = <<c, q[2]>>
      BY <2>6 DEF Places
    <3>2. LoadsVertex(g, chunk[c].graph, q[2])
      BY <1>2, <3>1 DEF Loads
    <3>3. /\ q[2] \in DOMAIN g.vertices /\ g.vertices[q[2]].label = "note"
          /\ g.vertices[q[2]].id = e.in.id
      BY <2>1, <2>6, <3>2 DEF LoadsVertex
    <3>4. g.vertices[q[2]] \in meant(g, source.in)
      BY <1>4, <1>10, <2>4, <3>3 DEF meant, ToSet
    <3>5. server_id(<<c, q[2]>>, g.vertices[q[2]]) \in own_ids(c, source.in)
      BY <3>3, <3>4 DEF own_ids
    <3>6. AutomaticId(q) \in own_ids(c, source.in)
      BY <3>1, <3>3, <3>5 DEF server_id
    <3> QED
      BY <1>1, <1>7, <2>1, <3>6 DEF EdgeAsMeant
  <2> QED
    BY <2>5, <2>6
<1> QED
  BY <1>9, <1>10

LEMMA ImportStep ==
  ASSUME SchemaHasIds, ShapeInv, ReviewInv, ImportInv, [ExtractionNext]_extractionVars
  PROVE  ImportInv'
<1>0. /\ PlainLoads /\ ExtractedLoads /\ NothingYet /\ PendingOK /\ MappingOK
      /\ StoredOK /\ EdgesAsMeant
      /\ chunk \in [Chunks -> ChunkRecord]
      /\ import = [pc |-> import.pc, pending |-> import.pending,
                   vid_mapping |-> import.vid_mapping]
      /\ graph_db = [vertices |-> graph_db.vertices, edges |-> graph_db.edges]
      /\ extracted = [status |-> extracted.status, chunks |-> extracted.chunks]
  BY DEF ImportInv, ShapeInv, ChunkTyped, RestTyped
<1>r. ASSUME extracted' = extracted, import'.vid_mapping = import.vid_mapping
      PROVE  MappingOK'
  <2>1. \A id, vid : Remembered(id, vid) => Remembered(id, vid)'
    BY <1>r, ReturnedStays
  <2> QED
    BY <1>0, <1>r, <2>1 DEF MappingOK
<1>s. ASSUME graph_db'.vertices = graph_db.vertices
      PROVE  StoredOK'
  BY <1>0, <1>s DEF StoredOK
<1>1. CASE \E c \in Chunks : \/ run_prepared_chunk(c) \/ extract_chunk(c) \/ validate_chunk(c)
                             \/ review_chunk(c) \/ repair_chunk(c)
  <2>1. UNCHANGED <<extract_type, extracted, import, graph_db>> /\ extract_type = "review"
    BY <1>1 DEF run_prepared_chunk, extract_chunk, validate_chunk, review_chunk, repair_chunk
  <2>2. PlainLoads'
    BY <2>1 DEF PlainLoads
  <2> QED
    BY <2>1, <2>2, ImportRests
<1>2. ASSUME NEW c \in Chunks, PropertyGraphExtract_run(c)
      PROVE  ImportInv'
  <2>1. /\ extracted.status = "" /\ UNCHANGED <<extract_type, import, graph_db>>
    BY <1>2 DEF PropertyGraphExtract_run, Turn
  <2>2. ASSUME NEW g \in LlmGraphs, UNCHANGED extracted,
               chunk' = [chunk EXCEPT ![c] = [@ EXCEPT !.stage = "done", !.llm_calls = 1,
                                          !.raw = g, !.graph = extract_and_filter_label(g)]]
        PROVE  ImportInv'
    <3>1. /\ chunk'[c].raw = g /\ chunk'[c].graph = extract_and_filter_label(g)
          /\ \A d \in Chunks \ {c} : chunk'[d] = chunk[d]
      BY <1>0, <2>2 DEF ChunkRecord
    <3>2. Loads(chunk'[c].raw, chunk'[c].graph)
      BY <3>1, FilteredLoads
    <3>3. PlainLoads'
      <4>1. ASSUME NEW d \in Chunks, extract_type' # "review", chunk'[d].stage = "done"
            PROVE  Loads(chunk'[d].raw, chunk'[d].graph)
        BY <1>0, <2>1, <3>1, <3>2, <4>1 DEF PlainLoads
      <4> QED
        BY <4>1, LoadsSame DEF PlainLoads
    <3> QED
      BY <2>1, <2>2, <3>3, ImportRests
  <2>3. CASE raises
    <3>1. extracted'.status = "error" /\ extracted'.chunks = {} /\ UNCHANGED chunk
      BY <1>0, <2>1, <2>3 DEF raises, NothingYet
    <3> QED
      BY <2>1, <3>1, ImportBegins
  <2> QED
    BY <1>2, <2>2, <2>3 DEF PropertyGraphExtract_run
<1>3. ASSUME NEW c \in Chunks, InfoExtract_run(c)
      PROVE  ImportInv'
  <2>1. extracted.status = "" /\ UNCHANGED <<extract_type, import, graph_db>>
    BY <1>3 DEF InfoExtract_run, Turn
  <2>2. ASSUME UNCHANGED extracted,
               chunk' = [chunk EXCEPT ![c] = [@ EXCEPT !.stage = "done", !.llm_calls = 1,
                                                       !.graph = EmptyGraph]]
        PROVE  ImportInv'
    <3>1. chunk'[c].graph = EmptyGraph /\ \A d \in Chunks \ {c} : chunk'[d] = chunk[d]
      BY <1>0, <2>2 DEF ChunkRecord
    <3>2. Loads(chunk'[c].raw, chunk'[c].graph)
      BY <3>1, EmptyLoads
    <3>3. PlainLoads'
      <4>1. ASSUME NEW d \in Chunks, extract_type' # "review", chunk'[d].stage = "done"
            PROVE  Loads(chunk'[d].raw, chunk'[d].graph)
        BY <1>0, <2>1, <3>1, <3>2, <4>1 DEF PlainLoads
      <4> QED
        BY <4>1, LoadsSame DEF PlainLoads
    <3> QED
      BY <2>1, <2>2, <3>3, ImportRests
  <2>3. CASE raises
    <3>1. extracted'.status = "error" /\ extracted'.chunks = {} /\ UNCHANGED chunk
      BY <1>0, <2>1, <2>3 DEF raises, NothingYet
    <3> QED
      BY <2>1, <3>1, ImportBegins
  <2> QED
    BY <1>3, <2>2, <2>3 DEF InfoExtract_run, EmptyGraph
<1>4. CASE extract_with_review
  <2>1. /\ extracted.status = "" /\ extracted'.chunks = Final /\ extracted'.status # ""
        /\ UNCHANGED <<extract_type, chunk, import, graph_db>>
        /\ \A c \in Chunks : chunk[c].stage = "done"
    BY <1>4 DEF extract_with_review
  <2>2. Final \subseteq Chunks /\ \A c \in Final : Loads(chunk[c].raw, chunk[c].graph)
    BY PassedLoads DEF ReviewInv, ReviewOK, Final
  <2> QED
    BY <2>1, <2>2, ImportBegins
<1>5. CASE post_deal_plain
  <2>1. /\ extracted.status = "" /\ extracted'.chunks = Chunks /\ extracted'.status # ""
        /\ UNCHANGED <<extract_type, chunk, import, graph_db>> /\ extract_type # "review"
        /\ \A c \in Chunks : chunk[c].stage = "done"
    BY <1>5 DEF post_deal_plain
  <2>2. \A c \in Chunks : Loads(chunk[c].raw, chunk[c].graph)
    BY <1>0, <2>1 DEF PlainLoads
  <2> QED
    BY <2>1, <2>2, ImportBegins
<1>6. CASE Commit2Graph_run
  <2>1. /\ extracted.status # "" /\ UNCHANGED <<extract_type, chunk, extracted>>
        /\ UNCHANGED graph_db
    BY <1>6 DEF Commit2Graph_run
  <2>2. \/ import' = [import EXCEPT !.pc = "failed"]
        \/ import' = [import EXCEPT !.pc = "vertices", !.pending = Places("vertices")]
    BY <1>6 DEF Commit2Graph_run
  <2>3. /\ import'.vid_mapping = import.vid_mapping
        /\ \/ import'.pc = "failed"
           \/ import'.pc = "vertices" /\ import'.pending = Places("vertices")
    BY <1>0, <2>2
  <2>4. Places("vertices")' = Places("vertices")
    BY <2>1, ReturnedStays
  <2>5. MappingOK' /\ StoredOK' /\ PendingOK'
    BY <1>0, <1>r, <1>s, <2>1, <2>3, <2>4 DEF PendingOK
  <2> QED
    BY <2>1, <2>5, ImportMoves
<1>7. ASSUME NEW p \in import.pending, load_vertex(p)
      PROVE  ImportInv'
  <2> DEFINE v == chunk[p[1]].graph.vertices[p[2]]
  <2>1. /\ import.pc = "vertices" /\ UNCHANGED <<extract_type, chunk, extracted>>
    BY <1>7 DEF load_vertex
  <2>2. extracted.status # ""
    BY <1>0, <2>1 DEF NothingYet
  <2>3. /\ Places("vertices")' = Places("vertices") /\ Places("edges")' = Places("edges")
    BY <2>1, ReturnedStays
  <2>4. /\ p[1] \in extracted.chunks /\ p[2] \in DOMAIN chunk[p[1]].graph.vertices
    BY <1>0, <2>1 DEF PendingOK, Places
  <2>5. v \in Vertex /\ v.id = text_id(v) /\ p[1] \in Chunks /\ p \in Places("vertices")
    BY <1>0, <2>1, <2>4 DEF ExtractedLoads, Loads, LoadsVertex, PendingOK
  <2> HIDE DEF v
  <2>6. CASE /\ import' = [import EXCEPT !.pending = @ \ {p}]
             /\ UNCHANGED graph_db
    <3>1. /\ import'.pc = "vertices" /\ import'.pending = import.pending \ {p}
          /\ import'.vid_mapping = import.vid_mapping
      BY <1>0, <2>1, <2>6
    <3>2. MappingOK' /\ StoredOK' /\ PendingOK'
      BY <1>0, <1>r, <1>s, <2>1, <2>3, <2>6, <3>1 DEF PendingOK
    <3> QED
      BY <2>1, <2>2, <2>6, <3>2, ImportMoves
  <2>7. CASE /\ ~skipped(v) /\ creatable(v)
             /\ graph_db' = [graph_db EXCEPT !.vertices = @ \cup {<<server_id(p, v), v.label>>}]
             /\ import' = [import EXCEPT !.pending = @ \ {p},
                              !.vid_mapping = remember(@, mapping_id(v), server_id(p, v))]
    <3> DEFINE m == remember(import.vid_mapping, mapping_id(v), server_id(p, v))
    <3>1. mapping_id(v) = v.id
      BY <2>5, <2>7, GraphAssumption DEF mapping_id, text_id, skipped, Vertex
    <3>2. Remembered(v.id, server_id(p, v))
      BY <2>5 DEF Remembered, server_id, v
    <3>3. \A i \in DOMAIN m : Remembered(i, m[i])
      BY <1>0, <3>1, <3>2 DEF MappingOK, remember
    <3>4. import' = [import EXCEPT !.pending = @ \ {p}, !.vid_mapping = m]
      BY <2>7
    <3> HIDE DEF m
    <3>5. /\ import'.pc = "vertices" /\ import'.pending = import.pending \ {p}
          /\ import'.vid_mapping = m
      BY <1>0, <2>1, <3>4
    <3>6. /\ graph_db'.edges = graph_db.edges
          /\ graph_db'.vertices = graph_db.vertices \cup {<<server_id(p, v), v.label>>}
      BY <1>0, <2>7
    <3>7. MappingOK'
      <4>1. \A id, vid : Remembered(id, vid) => Remembered(id, vid)'
        BY <2>1, ReturnedStays
      <4> QED
        BY <3>3, <3>5, <4>1 DEF MappingOK
    <3>8. StoredOK'
      <4>1. p # NoPlace
        BY <2>5, PlaceTaken
      <4>2. v.label = "note" <=> server_id(p, v).made_for # NoPlace
        BY <4>1 DEF server_id, AutomaticId, StringId
      <4> QED
        BY <1>0, <3>6, <4>2 DEF StoredOK
    <3>9. PendingOK'
      BY <1>0, <2>1, <2>3, <3>5 DEF PendingOK
    <3> QED
      BY <2>1, <2>2, <3>6, <3>7, <3>8, <3>9, ImportMoves
  <2>8. CASE /\ import' = [import EXCEPT !.pc = "failed"]
             /\ UNCHANGED graph_db
    <3>1. import'.pc = "failed" /\ import'.vid_mapping = import.vid_mapping
      BY <1>0, <2>8
    <3>2. MappingOK' /\ StoredOK' /\ PendingOK'
      BY <1>0, <1>r, <1>s, <2>1, <2>8, <3>1 DEF PendingOK
    <3> QED
      BY <2>1, <2>2, <2>8, <3>2, ImportMoves
  <2> QED
    BY <1>7, <2>6, <2>7, <2>8 DEF load_vertex, v
<1>8. CASE vertices_loaded \/ edges_loaded
  <2>1. /\ import.pc # "idle" /\ UNCHANGED <<extract_type, chunk, extracted>>
        /\ UNCHANGED graph_db
    BY <1>8 DEF vertices_loaded, edges_loaded
  <2>2. extracted.status # ""
    BY <1>0, <2>1 DEF NothingYet
  <2>3. \/ import' = [import EXCEPT !.pc = "done"]
        \/ import' = [import EXCEPT !.pc = "edges", !.pending = Places("edges")]
    BY <1>8 DEF vertices_loaded, edges_loaded
  <2>4. /\ import'.vid_mapping = import.vid_mapping
        /\ \/ import'.pc = "done"
           \/ import'.pc = "edges" /\ import'.pending = Places("edges")
    BY <1>0, <2>3
  <2>5. Places("edges")' = Places("edges")
    BY <2>1, ReturnedStays
  <2>6. MappingOK' /\ StoredOK' /\ PendingOK'
    BY <1>0, <1>r, <1>s, <2>1, <2>4, <2>5 DEF PendingOK
  <2> QED
    BY <2>1, <2>2, <2>6, ImportMoves
<1>9. ASSUME NEW p \in import.pending, load_edge(p)
      PROVE  ImportInv'
  <2> DEFINE e == chunk[p[1]].graph.edges[p[2]]
             new == [start |-> mapped(e.out.id), end |-> mapped(e.in.id), by |-> p]
  <2>1. /\ import.pc = "edges" /\ UNCHANGED <<extract_type, chunk, extracted>>
        /\ import' = [import EXCEPT !.pending = @ \ {p}]
    BY <1>9 DEF load_edge
  <2>2. extracted.status # ""
    BY <1>0, <2>1 DEF NothingYet
  <2>3. /\ import'.pc = "edges" /\ import'.pending = import.pending \ {p}
        /\ import'.vid_mapping = import.vid_mapping
    BY <1>0, <2>1
  <2>4. Places("edges")' = Places("edges")
    BY <2>1, ReturnedStays
  <2>5. MappingOK' /\ PendingOK'
    BY <1>0, <1>r, <2>1, <2>3, <2>4 DEF PendingOK
  <2>6. p \in Places("edges")
    BY <1>0, <2>1 DEF PendingOK
  <2>7. CASE /\ e.label \in EdgeLabels
             /\ <<mapped(e.out.id), SourceLabel>> \in graph_db.vertices
             /\ <<mapped(e.in.id), TargetLabel[e.label]>> \in graph_db.vertices
             /\ graph_db' = [graph_db EXCEPT !.edges = @ \cup {new}]
    <3>1. EdgeAsMeant(new)
      BY <2>6, <2>7, EndsAsMeant
    <3> HIDE DEF new
    <3>2. /\ graph_db'.edges \ graph_db.edges \subseteq {new}
          /\ graph_db'.vertices = graph_db.vertices
      BY <1>0, <2>7
    <3> QED
      BY <1>s, <2>1, <2>2, <2>5, <3>1, <3>2, ImportMoves
  <2>8. CASE UNCHANGED graph_db
    BY <1>s, <2>1, <2>2, <2>5, <2>8, ImportMoves
  <2> QED
    BY <1>9, <2>7, <2>8 DEF load_edge
<1>10. CASE UNCHANGED extractionVars
  <2>1. UNCHANGED <<extracted, import, graph_db>> /\ extract_type' = extract_type /\ chunk' = chunk
    BY <1>10 DEF extractionVars
  <2>2. PlainLoads'
    BY <1>0, <2>1 DEF PlainLoads, Loads
  <2> QED
    BY <2>1, <2>2, ImportRests
<1> QED
  BY <1>1, <1>2, <1>3, <1>4, <1>5, <1>6, <1>7, <1>8, <1>9, <1>10
     DEF ExtractionNext, ChunkNext, load_into_graph

\* When the schema carries the ids of its labels, an edge in HugeGraph joins vertices that
\* its own chunk meant: an id the model used in two chunks for two vertices does not lead
\* an edge to the other chunk's vertex (load_into_graph's vid_mapping), except where both
\* vertices have a label whose ids are AUTOMATIC.
THEOREM ImportedEdgesMeant ==
  ASSUME SchemaHasIds
  PROVE  ExtractionSpec => []ImportedEdgesAsExtracted
<1>1. ExtractionInit => ShapeInv /\ ReviewInv /\ ImportInv
  BY ShapeInit, ReviewInit, ImportInit
<1>2. ShapeInv /\ ReviewInv /\ ImportInv /\ [ExtractionNext]_extractionVars
        => (ShapeInv /\ ReviewInv /\ ImportInv)'
  BY ShapeStep, ReviewStep, ImportStep
<1>3. ImportInv => ImportedEdgesAsExtracted
  BY DEF ImportInv, EdgesAsMeant, EdgeAsMeant, ImportedEdgesAsExtracted
<1> QED
  BY <1>1, <1>2, <1>3, PTL DEF ExtractionSpec
=============================================================================

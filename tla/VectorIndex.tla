---------------------------- MODULE VectorIndex ----------------------------
(***************************************************************************)
(* The vector indexes of hugegraph-llm: the index of vertex ids, which      *)
(* update_vid_embeddings brings up to date with the graph, and the index of *)
(* Gremlin examples, which a query builds when it is missing.  Three        *)
(* engines: Faiss works on a copy in memory that save writes to two files,  *)
(* one after the other; Milvus and Qdrant change a collection on the server *)
(* at once.  Updates and cleanings overlap, and the graph, the engine and   *)
(* the embedding model may change at any moment: a call finds any of them.  *)
(*                                                                          *)
(* An index is abstracted to its dimension and to how often it holds each   *)
(* id or batch of examples; an embedding is identified with its item.       *)
(* Faiss finds the item of its i-th vector at position i of the properties: *)
(* "paired" says that the two lists go together.  Reading the two files is  *)
(* one step.  The index of examples is modelled for Faiss.                  *)
(***************************************************************************)
EXTENDS Naturals, Sequences

CONSTANTS
  Vids,         \* vertex ids
  Dims,         \* dimensions of the embedding models
  DefaultBatches, \* number of batches of the default examples
  Queries,      \* concurrent calls that need or extend the index of examples
  Cleaners,     \* concurrent calls of clean_all_graph_index
  MaxTries,     \* bound: updates of the vertex index
  NoIndex       \* no file, no collection

ASSUME VectorIndexAssumption ==
  /\ Dims # {} /\ Dims \subseteq Nat
  /\ DefaultBatches \in Nat \ {0} /\ MaxTries \in Nat
  /\ NoIndex \notin [dim : Dims, items : [Vids -> Nat]]
  /\ NoIndex \notin [dim : Dims, by : 1 .. MaxTries, paired : BOOLEAN]
  /\ NoIndex \notin [items : [Vids -> Nat], by : 1 .. MaxTries]
  /\ NoIndex \notin [dim : Dims, items : [0 .. DefaultBatches -> Nat]]
  /\ NoIndex \notin [0 .. DefaultBatches -> Nat]

Servers == {"Milvus", "Qdrant"}
Engines == {"Faiss"} \union Servers
Updates == 1 .. MaxTries
Batches == 1 .. DefaultBatches
UserBatch == 0                     \* the examples a user adds
Files == {"vid_index", "vid_properties", "example_index", "example_properties"}

VARIABLES
  vid_files,  \* Faiss: index.faiss and properties.pkl of the vertex ids
  collection, \* Milvus, Qdrant: the collection of the vertex ids
  update,     \* the calls of update_vid_embeddings
  cleaning,   \* per call of clean_all_graph_index: what it has still to remove
  calm,       \* history: no two updates overlapped and no save was cut short
  examples,   \* Faiss: index.faiss and properties.pkl of the examples
  lookup      \* the calls that need or extend the index of examples

vidVars == <<vid_files, collection, update, calm>>
exampleVars == <<examples, lookup>>
vectorVars == <<vidVars, cleaning, exampleVars>>

AnyDim == CHOOSE d \in Dims : TRUE
NoItems == [v \in Vids |-> 0]
NoExamples == [b \in 0 .. DefaultBatches |-> 0]
Indexed(items) == {v \in Vids : items[v] > 0}
Whole(items) == \A b, c \in Batches : items[b] = items[c]   \* all of the default examples equally often
Index(d, items) == [dim |-> d, items |-> items]
NoFiles == [index |-> NoIndex, properties |-> NoIndex]
Exist(files) == files.index # NoIndex /\ files.properties # NoIndex

\* alone: no other update ran, and nothing was cleaned, since this one began.
NotStarted == [pc |-> "idle", fetched |-> {}, engine |-> "Faiss", dim |-> AnyDim, past |-> {},
               work |-> NoItems, paired |-> TRUE, alone |-> FALSE]
\* A call that is over has no copy of the index any more, and a failed one nothing.
UpdateDone(call) == [call EXCEPT !.pc = "done", !.past = {}, !.work = NoItems, !.paired = TRUE]
UpdateFailed == [NotStarted EXCEPT !.pc = "failed"]
Running(u) == update[u].pc \in {"fetched", "loaded", "read", "removed", "half_saved"}
SomeRunning == \E u \in Updates : Running(u)
Cleaning == \E c \in Cleaners : cleaning[c] # <<>>

VectorIndexTypeOK ==
  /\ calm \in BOOLEAN
  /\ vid_files.index # NoIndex => vid_files.index.dim \in Dims /\ vid_files.index.by \in Updates
  /\ vid_files.properties # NoIndex => vid_files.properties.items \in [Vids -> Nat]
  /\ \A e \in Servers : collection[e] # NoIndex =>
       collection[e].dim \in Dims /\ collection[e].items \in [Vids -> Nat]
  /\ \A u \in Updates :
       /\ update[u].pc \in {"idle", "fetched", "loaded", "read", "removed", "half_saved", "done", "failed"}
       /\ update[u].fetched \subseteq Vids /\ update[u].past \subseteq Vids
  /\ \A c \in Cleaners : cleaning[c] \in Seq(Files \union Servers)
  /\ \A q \in Queries : lookup[q].pc \in
       {"start", "found", "missing", "building", "saving", "half_saved", "ready", "failed"}

VectorIndexInit ==
  /\ vid_files = NoFiles
  /\ collection = [e \in Servers |-> NoIndex]
  /\ update = [u \in Updates |-> NotStarted]
  /\ cleaning = [c \in Cleaners |-> <<>>]
  /\ calm = TRUE
  /\ examples = NoFiles
  /\ lookup = [q \in Queries |-> [pc |-> "start", dim |-> AnyDim, next |-> 1, built |-> FALSE,
                                  vectors |-> NoExamples, properties |-> NoExamples]]

----------------------------------------------------------------------------
(* The stores                                                              *)

\* Mutant: the properties of an index of another dimension are kept.
faiss_from_name_keeps_items(files, d) == Exist(files)

\* FaissVectorIndex.from_name: the files are used if both are there and the index has
\* dimension d; otherwise the index is empty.
faiss_from_name(files, d) == Exist(files) /\ files.index.dim = d

\* QdrantVectorIndex: a collection of another dimension is deleted and created again.
qdrant_from_name(index, d) ==
  IF index # NoIndex /\ index.dim = d THEN index ELSE Index(d, NoItems)

\* MilvusVectorIndex: a missing collection is created; one of another dimension is
\* dropped and not created again, so opening it raises.
milvus_from_name(index, d) ==
  IF index = NoIndex THEN Index(d, NoItems) ELSE IF index.dim = d THEN index ELSE NoIndex

\* remove(props) and add(vectors, props).
removeProps(items, gone) == [v \in Vids |-> IF v \in gone THEN 0 ELSE items[v]]
addProps(items, new) == [v \in Vids |-> items[v] + (IF v \in new THEN 1 ELSE 0)]

----------------------------------------------------------------------------
(* update_vid_embeddings                                                   *)

\* FetchGraphData.run.  Nothing keeps a second update from starting.
fetch_graph_data(u) ==
  /\ update[u].pc = "idle"
  /\ \A w \in Updates : w < u => update[w].pc # "idle"
  /\ \E vertices \in SUBSET Vids :
       update' = [w \in Updates |->
         IF w = u THEN [NotStarted EXCEPT !.pc = "fetched", !.fetched = vertices,
                                          !.alone = ~SomeRunning /\ ~Cleaning]
                  ELSE [update[w] EXCEPT !.alone = FALSE]]
  /\ calm' = (calm /\ ~SomeRunning)
  /\ UNCHANGED <<vid_files, collection, cleaning, exampleVars>>

\* BuildSemanticIndex.__init__, with the engine and the embedding of this moment.
BuildSemanticIndex_init(u) ==
  /\ update[u].pc = "fetched"
  /\ \E engine \in Engines, dim \in Dims :
       LET call == [update[u] EXCEPT !.pc = "loaded", !.engine = engine, !.dim = dim]
           used == faiss_from_name(vid_files, dim)
           opened == IF engine = "Qdrant" THEN qdrant_from_name(collection[engine], dim)
                                          ELSE milvus_from_name(collection[engine], dim)
       IN  \/ /\ engine = "Faiss"
              /\ update' = [update EXCEPT ![u] = [call EXCEPT
                   !.work = IF used THEN vid_files.properties.items ELSE NoItems,
                   !.paired = used => vid_files.index.by = vid_files.properties.by /\ vid_files.index.paired]]
              /\ UNCHANGED collection
           \/ /\ engine \in Servers
              /\ collection' = [collection EXCEPT ![engine] = opened]
              /\ update' = [update EXCEPT ![u] = IF opened = NoIndex THEN UpdateFailed ELSE call]
  /\ UNCHANGED <<vid_files, cleaning, calm, exampleVars>>

\* BuildSemanticIndex.run: past_vids is what the copy, or the collection, holds.
get_all_properties(u) ==
  /\ update[u].pc = "loaded"
  /\ LET e == update[u].engine
     IN  \/ /\ e = "Faiss"
            /\ update' = [update EXCEPT ![u].pc = "read", ![u].past = Indexed(update[u].work)]
         \/ /\ e \in Servers /\ collection[e] # NoIndex
            /\ update' = [update EXCEPT ![u].pc = "read", ![u].past = Indexed(collection[e].items)]
  /\ UNCHANGED <<vid_files, collection, cleaning, calm, exampleVars>>

\* Ids that are gone are removed, from a collection one after the other: the call may
\* raise when only a part is gone.
remove_vids(u) ==
  /\ update[u].pc = "read"
  /\ LET e == update[u].engine
         gone == update[u].past \ update[u].fetched
     IN  \/ /\ e = "Faiss"
            /\ update' = [update EXCEPT ![u].pc = "removed", ![u].work = removeProps(@, gone)]
            /\ UNCHANGED collection
         \/ /\ e \in Servers /\ collection[e] # NoIndex
            /\ \E part \in SUBSET gone :
                 /\ collection' = [collection EXCEPT ![e].items = removeProps(@, part)]
                 /\ \/ part = gone /\ update' = [update EXCEPT ![u].pc = "removed"]
                    \/ update' = [update EXCEPT ![u] = UpdateFailed]
  /\ UNCHANGED <<vid_files, cleaning, calm, exampleVars>>

\* The rest of BuildSemanticIndex.run: new ids are embedded, added and saved; without
\* new ids nothing is saved.  A collection takes vectors of its own dimension only;
\* Faiss writes its index file first.
add_vids(u) ==
  /\ update[u].pc = "removed"
  /\ LET e == update[u].engine
         added == update[u].fetched \ update[u].past
         full == addProps(update[u].work, added)
     IN  \/ /\ added = {}
            /\ update' = [update EXCEPT ![u] = UpdateDone(@)]
            /\ UNCHANGED <<vid_files, collection>>
         \/ /\ added # {} /\ e = "Faiss"
            /\ vid_files' = [vid_files EXCEPT !.index =
                 [dim |-> update[u].dim, by |-> u, paired |-> update[u].paired]]
            /\ update' = [update EXCEPT ![u].pc = "half_saved", ![u].work = full]
            /\ UNCHANGED collection
         \/ /\ added # {} /\ e \in Servers
            /\ collection[e] # NoIndex /\ collection[e].dim = update[u].dim
            /\ collection' = [collection EXCEPT ![e].items = addProps(@, added)]
            /\ update' = [update EXCEPT ![u] = UpdateDone(@)]
            /\ UNCHANGED vid_files
  /\ UNCHANGED <<cleaning, calm, exampleVars>>

\* save_index_by_name of Faiss, second half: the properties.
save_index_by_name(u) ==
  /\ update[u].pc = "half_saved"
  /\ vid_files' = [vid_files EXCEPT !.properties = [items |-> update[u].work, by |-> u]]
  /\ update' = [update EXCEPT ![u] = UpdateDone(@)]
  /\ UNCHANGED <<collection, cleaning, calm, exampleVars>>

\* A call raises (the embedding service, the server, a collection that is gone, a full
\* disk) or the process dies.
update_fails(u) ==
  /\ Running(u)
  /\ update' = [update EXCEPT ![u] = UpdateFailed]
  /\ calm' = (calm /\ update[u].pc # "half_saved")
  /\ UNCHANGED <<vid_files, collection, cleaning, exampleVars>>

\* clean_all_graph_index: both indexes of the current engine are removed, file by file.
clean_all_graph_index(c) ==
  /\ cleaning[c] = <<>>
  /\ \E engine \in Engines :
       cleaning' = [cleaning EXCEPT ![c] =
         IF engine = "Faiss"
         THEN <<"vid_index", "vid_properties", "example_index", "example_properties">>
         ELSE <<engine>>]
  /\ update' = [u \in Updates |-> [update[u] EXCEPT !.alone = FALSE]]
  /\ UNCHANGED <<vid_files, collection, calm, exampleVars>>

\* FaissVectorIndex.clean: one file after the other; or a collection is dropped.
clean(c) ==
  /\ cleaning[c] # <<>>
  /\ LET f == Head(cleaning[c])
     IN  /\ vid_files' = CASE f = "vid_index" -> [vid_files EXCEPT !.index = NoIndex]
                           [] f = "vid_properties" -> [vid_files EXCEPT !.properties = NoIndex]
                           [] OTHER -> vid_files
         /\ examples' = CASE f = "example_index" -> [examples EXCEPT !.index = NoIndex]
                          [] f = "example_properties" -> [examples EXCEPT !.properties = NoIndex]
                          [] OTHER -> examples
         /\ collection' = [e \in Servers |-> IF e = f THEN NoIndex ELSE collection[e]]
  /\ cleaning' = [cleaning EXCEPT ![c] = Tail(@)]
  /\ UNCHANGED <<update, calm, lookup>>

\* A removal raises, or the process dies.
clean_fails(c) ==
  /\ cleaning[c] # <<>>
  /\ cleaning' = [cleaning EXCEPT ![c] = <<>>]
  /\ UNCHANGED <<vidVars, exampleVars>>

----------------------------------------------------------------------------
(* GremlinExampleIndexQuery and BuildGremlinExampleIndex, for Faiss        *)

\* What from_name makes of the files of the examples.
opened_examples(d) ==
  IF faiss_from_name(examples, d)
  THEN [vectors |-> examples.index.items, properties |-> examples.properties]
  ELSE [vectors |-> NoExamples, properties |-> NoExamples]

\* __init__: an index that exists is not built, also when it is opened empty because
\* it has another dimension.
example_exist(q) ==
  /\ lookup[q].pc = "start"
  /\ \E dim \in Dims :
       lookup' = [lookup EXCEPT ![q].pc = IF Exist(examples) THEN "found" ELSE "missing", ![q].dim = dim]
  /\ UNCHANGED <<vidVars, cleaning, examples>>

\* from_name: what others have saved, or cleaned, meanwhile counts.
example_from_name(q) ==
  /\ lookup[q].pc \in {"found", "missing"}
  /\ LET opened == opened_examples(lookup[q].dim)
     IN  lookup' = [lookup EXCEPT ![q] = [@ EXCEPT
           !.pc = IF lookup[q].pc = "found" THEN "ready" ELSE "building",
           !.vectors = opened.vectors, !.properties = opened.properties]]
  /\ UNCHANGED <<vidVars, cleaning, examples>>

\* Mutant: the index is saved after every batch.
build_default_saves_batches(q) ==
  /\ lookup[q].pc = "building"
  /\ lookup' = [lookup EXCEPT ![q] = [@ EXCEPT
       !.pc = IF lookup[q].next = DefaultBatches THEN "ready" ELSE "building",
       !.next = @ + 1, !.built = TRUE,
       !.vectors = [@ EXCEPT ![lookup[q].next] = @ + 1],
       !.properties = [@ EXCEPT ![lookup[q].next] = @ + 1]]]
  /\ examples' = [index |-> Index(lookup[q].dim, lookup'[q].vectors), properties |-> lookup'[q].properties]
  /\ UNCHANGED <<vidVars, cleaning>>

AddBatches(items, new) == [b \in 0 .. DefaultBatches |-> items[b] + (IF b \in new THEN 1 ELSE 0)]

\* _build_default_example_index: batch after batch is embedded; when the last one is
\* there all are added, and the index is saved.
build_default_example_index(q) ==
  /\ lookup[q].pc = "building"
  /\ \/ /\ lookup[q].next < DefaultBatches
        /\ lookup' = [lookup EXCEPT ![q].next = @ + 1]
     \/ /\ lookup[q].next = DefaultBatches
        /\ lookup' = [lookup EXCEPT ![q] = [@ EXCEPT
             !.pc = "saving", !.built = TRUE,
             !.vectors = AddBatches(lookup[q].vectors, Batches),
             !.properties = AddBatches(lookup[q].properties, Batches)]]
  /\ UNCHANGED <<vidVars, cleaning, examples>>

\* BuildGremlinExampleIndex.run: the user's examples are embedded and added to what
\* the files hold.
build_user_examples(q) ==
  /\ lookup[q].pc = "start"
  /\ \E dim \in Dims :
       LET opened == opened_examples(dim)
       IN  lookup' = [lookup EXCEPT ![q] = [@ EXCEPT
             !.pc = "saving", !.dim = dim,
             !.vectors = AddBatches(opened.vectors, {UserBatch}),
             !.properties = AddBatches(opened.properties, {UserBatch})]]
  /\ UNCHANGED <<vidVars, cleaning, examples>>

\* save_index_by_name: the index file, then the properties.
save_examples(q) ==
  /\ \/ /\ lookup[q].pc = "saving"
        /\ examples' = [examples EXCEPT !.index = Index(lookup[q].dim, lookup[q].vectors)]
        /\ lookup' = [lookup EXCEPT ![q].pc = "half_saved"]
     \/ /\ lookup[q].pc = "half_saved"
        /\ examples' = [examples EXCEPT !.properties = lookup[q].properties]
        /\ lookup' = [lookup EXCEPT ![q].pc = "ready"]
  /\ UNCHANGED <<vidVars, cleaning>>

\* The embedding service or a file operation raises, or the process dies.
lookup_fails(q) ==
  /\ lookup[q].pc \notin {"start", "ready", "failed"}
  /\ lookup' = [lookup EXCEPT ![q].pc = "failed"]
  /\ UNCHANGED <<vidVars, cleaning, examples>>

CleanNext == \E c \in Cleaners : clean_all_graph_index(c) \/ clean(c) \/ clean_fails(c)

VidIndexNext ==
  \/ \E u \in Updates : \/ fetch_graph_data(u) \/ BuildSemanticIndex_init(u) \/ get_all_properties(u)
                        \/ remove_vids(u) \/ add_vids(u) \/ save_index_by_name(u) \/ update_fails(u)
  \/ CleanNext

ExampleIndexNext ==
  \/ \E q \in Queries : \/ example_exist(q) \/ example_from_name(q) \/ build_default_example_index(q)
                        \/ build_user_examples(q) \/ save_examples(q) \/ lookup_fails(q)
  \/ CleanNext

VectorIndexNext == VidIndexNext \/ ExampleIndexNext

VectorIndexSpec == VectorIndexInit /\ [][VectorIndexNext]_vectorVars

----------------------------------------------------------------------------
(* Properties                                                              *)

\* What the engine of update u has persisted.
PersistedDim(u) == IF update[u].engine = "Faiss" THEN vid_files.index.dim ELSE collection[update[u].engine].dim
PersistedItems(u) == IF update[u].engine = "Faiss" THEN vid_files.properties.items
                                                   ELSE collection[update[u].engine].items
IsPersisted(u) == IF update[u].engine = "Faiss" THEN Exist(vid_files) ELSE collection[update[u].engine] # NoIndex

IndexesFetched(u) ==
  /\ IsPersisted(u) /\ PersistedDim(u) = update[u].dim
  /\ \A v \in update[u].fetched : PersistedItems(u)[v] > 0
  /\ calm => /\ \A v \in update[u].fetched : PersistedItems(u)[v] = 1
             /\ update[u].engine = "Faiss" =>
                  vid_files.index.paired /\ vid_files.index.by = vid_files.properties.by

\* After an update that reported success, and that neither another update nor a
\* cleaning disturbed, the persisted index of its engine has the dimension of its
\* embedding and holds every fetched vertex, whatever engines, dimensions, cleanings,
\* failed or overlapping updates and half-written files came before.  It holds each of
\* them exactly once, and the vectors of Faiss go with its properties, if no two
\* updates ever overlapped and no save was cut short between its two files.
UpdateIndexesFetched ==
  \A u \in Updates : update[u].pc = "done" /\ update[u].alone /\ update[u].fetched # {} => IndexesFetched(u)

\* The default examples are published only when every batch was embedded: each file
\* holds all of them or none (a user's own examples may be alone), and so does the index
\* a query works with; a query that built the index itself works with all of them.
\* Two queries, users, cleanings, new dimensions and saves cut short between the two
\* files interleave.  A query that finds an index of another dimension, or one with
\* only a user's examples, works without the default ones.
PublishedExamplesComplete ==
  /\ examples.index # NoIndex => Whole(examples.index.items)
  /\ examples.properties # NoIndex => Whole(examples.properties)
  /\ \A q \in Queries : lookup[q].pc = "ready" =>
       /\ Whole(lookup[q].vectors) /\ Whole(lookup[q].properties)
       /\ lookup[q].built => \A b \in Batches : lookup[q].vectors[b] > 0 /\ lookup[q].properties[b] > 0
=============================================================================

------------------------------ MODULE LlmProofs -------------------------------
(***************************************************************************)
(* Proofs about RagAnswers, for answers of any length; VectorIndex, for any*)
(* graph, any dimensions, any number of updates and of concurrent queries; *)
(* and LlmConfig, for any number of concurrent requests to change the      *)
(* configuration.                                                          *)
(***************************************************************************)
EXTENDS RagAnswers, VectorIndex, LlmConfig, FiniteSetTheorems, TLAPS

----------------------------------------------------------------------------
(* Answers: what was generated reaches the caller                          *)

\* While a streamed request is under way the dictionary lacks the tokens whose tasks
\* are done and not yet taken, and nothing else, and the caller has seen the
\* dictionary; the flow was chosen for what was asked.
Streams ==
  /\ RagAnswersTypeOK
  /\ stage = "new" => \A k \in Kinds : generated[k] = 0 /\ stored[k] = 0 /\ shown[k] = 0 /\ task[k] = "none"
  /\ stage = "waiting" =>
       /\ rag_flow = select_flow(asked)
       /\ \A k \in Kinds : task[k] = "none" <=> k \notin asked
  /\ stage = "waiting" /\ streaming =>
       \A k \in Kinds : /\ generated[k] = IF task[k] = "token" THEN stored[k] + 1 ELSE stored[k]
                        /\ shown[k] = stored[k]
  /\ AnswersComplete

\* The flow that is chosen retrieves the context of every answer asked for.
LEMMA FlowRetrieves ==
  ASSUME NEW A \in SUBSET Kinds, NEW k \in A
  PROVE  Context(k) \subseteq Retrieves(select_flow(A))
BY DEF Kinds, Context, Retrieves, select_flow

\* The flow that is chosen is one of the four.
LEMMA FlowChosen ==
  ASSUME NEW A
  PROVE  select_flow(A) \in {"rag_raw", "rag_vector_only", "rag_graph_only", "rag_graph_vector"}
BY DEF select_flow

\* All generators have stopped when as many have as were asked.
LEMMA AllStopped ==
  ASSUME NEW A \in SUBSET Kinds, NEW S \in SUBSET A, Cardinality(S) = Cardinality(A)
  PROVE  S = A
<1>1. IsFiniteSet(Kinds)
  <2>1. IsFiniteSet({"raw"}) /\ IsFiniteSet({"vector_only"}) /\ IsFiniteSet({"graph_only"})
        /\ IsFiniteSet({"graph_vector"})
    BY FS_Singleton
  <2>2. IsFiniteSet({"raw"} \union {"vector_only"}) /\ IsFiniteSet({"graph_only"} \union {"graph_vector"})
    BY <2>1, FS_Union
  <2>3. IsFiniteSet(({"raw"} \union {"vector_only"}) \union ({"graph_only"} \union {"graph_vector"}))
    BY <2>2, FS_Union
  <2>4. Kinds = ({"raw"} \union {"vector_only"}) \union ({"graph_only"} \union {"graph_vector"})
    BY DEF Kinds
  <2>. QED  BY <2>3, <2>4
<1>2. IsFiniteSet(A)
  BY <1>1, FS_Subset
<1>. QED  BY <1>2, FS_Subset

\* Initially nothing has been generated.
LEMMA StreamsInit == RagAnswersInit => Streams
BY RagAnswersAssumption DEF RagAnswersInit, Streams, RagAnswersTypeOK, TaskStates, AnswersComplete

\* The request is accepted: a task per answer, or none at all.
LEMMA RagAnswerStep == Streams /\ rag_answer => Streams'
<1>. SUFFICES ASSUME Streams, rag_answer PROVE Streams'
  OBVIOUS
<1>1. CASE asked = {}
  BY <1>1 DEF Streams, rag_answer, RagAnswersTypeOK, AnswersComplete
<1>2. CASE asked # {}
  <2>1. RagAnswersTypeOK'
    BY <1>2, FlowChosen DEF Streams, rag_answer, RagAnswersTypeOK, TaskStates
  <2>2. \A k \in Kinds : task'[k] = "none" <=> k \notin asked
    BY <1>2 DEF rag_answer
  <2>3. \A k \in Kinds : generated[k] = 0 /\ stored[k] = 0 /\ shown[k] = 0 /\ task'[k] # "token"
    BY <1>2 DEF Streams, rag_answer
  <2>. QED  BY <1>2, <2>1, <2>2, <2>3 DEF Streams, rag_answer, AnswersComplete
<1>. QED  BY <1>1, <1>2

\* A model answers.
LEMMA GenerateStep ==
  ASSUME Streams, NEW k \in Kinds, agenerate(k) \/ agenerate_streaming(k)
  PROVE  Streams'
<1>0. /\ stage = "waiting" /\ task[k] = "pending"
      /\ UNCHANGED <<asked, streaming, rag_flow, stage, stored, shown>>
  BY DEF agenerate, agenerate_streaming
<1>1. PICK t \in {"token", "stopped", "raised"} : task' = [task EXCEPT ![k] = t]
  BY DEF agenerate, agenerate_streaming
<1>2. /\ generated' \in [Kinds -> 0 .. MaxTokens]
      /\ streaming => generated' = [generated EXCEPT ![k] = IF t = "token" THEN generated[k] + 1 ELSE generated[k]]
  <2>1. task \in [Kinds -> TaskStates] /\ generated \in [Kinds -> 0 .. MaxTokens] /\ MaxTokens \in Nat \ {0}
    BY RagAnswersAssumption DEF Streams, RagAnswersTypeOK
  <2>2. task'[k] = t
    BY <1>1, <2>1
  <2>3. CASE agenerate(k)
    BY <2>1, <2>3 DEF agenerate
  <2>4. CASE agenerate_streaming(k)
    <3>1. CASE generated[k] < MaxTokens /\ generated' = [generated EXCEPT ![k] = @ + 1]
               /\ task' = [task EXCEPT ![k] = "token"]
      <4>1. t = "token"
        BY <2>1, <2>2, <3>1
      <4>2. generated[k] + 1 \in 0 .. MaxTokens
        BY <2>1, <3>1
      <4>. QED  BY <2>1, <3>1, <4>1, <4>2
    <3>2. CASE UNCHANGED generated /\ t \in {"stopped", "raised"}
      BY <2>1, <3>2
    <3>. QED  BY <2>1, <2>2, <2>4, <3>1, <3>2 DEF agenerate_streaming
  <2>. QED  BY <2>3, <2>4
<1>3. task \in [Kinds -> TaskStates] /\ generated \in [Kinds -> 0 .. MaxTokens]
  BY DEF Streams, RagAnswersTypeOK
<1>4. RagAnswersTypeOK'
  BY <1>0, <1>1, <1>2, <1>3 DEF Streams, RagAnswersTypeOK, TaskStates
<1>5. \A j \in Kinds : task'[j] = "none" <=> j \notin asked
  BY <1>0, <1>1, <1>3 DEF Streams
<1>6. ASSUME streaming, NEW j \in Kinds
      PROVE  /\ generated'[j] = IF task'[j] = "token" THEN stored[j] + 1 ELSE stored[j]
             /\ shown[j] = stored[j]
  <2>1. CASE j = k
    BY <1>0, <1>1, <1>2, <1>3, <1>6, <2>1 DEF Streams
  <2>2. CASE j # k
    BY <1>0, <1>1, <1>2, <1>3, <1>6, <2>2 DEF Streams
  <2>. QED  BY <2>1, <2>2
<1>. QED  BY <1>0, <1>4, <1>5, <1>6 DEF Streams, AnswersComplete

\* All answers are returned together, or one task has raised.
LEMMA AsyncGenerateStep == Streams /\ async_generate => Streams'
<1>. SUFFICES ASSUME Streams, async_generate PROVE Streams'
  OBVIOUS
<1>0. /\ stage = "waiting" /\ ~streaming /\ rag_flow = select_flow(asked) /\ asked \in SUBSET Kinds
      /\ UNCHANGED <<asked, streaming, rag_flow, task, generated>>
  BY DEF Streams, async_generate, RagAnswersTypeOK
<1>1. CASE /\ \A k \in asked : task[k] = "token"
           /\ stored' = [k \in Kinds |-> generated[k]]
           /\ shown' = stored' /\ stage' = "ended"
  <2>1. RagAnswersTypeOK'
    BY <1>0, <1>1 DEF Streams, RagAnswersTypeOK
  <2>2. AnswersComplete'
    BY <1>0, <1>1, FlowRetrieves DEF AnswersComplete
  <2>. QED  BY <1>1, <2>1, <2>2 DEF Streams
<1>2. CASE stage' = "failed" /\ UNCHANGED <<stored, shown>>
  BY <1>0, <1>2 DEF Streams, RagAnswersTypeOK, AnswersComplete
<1>. QED  BY <1>1, <1>2 DEF async_generate

\* One turn of the streaming loop.
LEMMA StreamingStep == Streams /\ streaming_step => Streams'
<1>. SUFFICES ASSUME Streams, streaming_step PROVE Streams'
  OBVIOUS
<1>. DEFINE tokens == {k \in Done : task[k] = "token"}
            stops == {k \in Done : task[k] = "stopped"}
<1>0. /\ stage = "waiting" /\ streaming /\ rag_flow = select_flow(asked) /\ asked \in SUBSET Kinds
      /\ UNCHANGED <<asked, streaming, rag_flow, generated>>
      /\ stored \in [Kinds -> 0 .. MaxTokens] /\ generated \in [Kinds -> 0 .. MaxTokens]
      /\ task \in [Kinds -> TaskStates] /\ MaxTokens \in Nat
  BY RagAnswersAssumption DEF Streams, streaming_step, RagAnswersTypeOK
<1>1. \A k \in Kinds : k \in tokens <=> task[k] = "token"
  BY <1>0 DEF Streams, Done
<1>2. CASE stage' = "failed" /\ UNCHANGED <<stored, task, shown>>
  BY <1>0, <1>2 DEF Streams, RagAnswersTypeOK, AnswersComplete
<1>3. CASE /\ stored' = [k \in Kinds |-> IF k \in tokens THEN stored[k] + 1 ELSE stored[k]]
           /\ task' = [k \in Kinds |-> IF k \in tokens THEN "pending" ELSE task[k]]
           /\ IF Cardinality(stops) = Cardinality(asked)
              THEN stage' = "ended" /\ UNCHANGED shown
              ELSE shown' = stored' /\ UNCHANGED stage
  <2>. HIDE DEF tokens, stops
  <2>1. \A k \in Kinds : /\ stored'[k] = generated[k] /\ task'[k] # "token"
                         /\ task'[k] = "none" <=> k \notin asked
    BY <1>0, <1>1, <1>3 DEF Streams
  <2>2. /\ stored' \in [Kinds -> 0 .. MaxTokens]
        /\ task' \in [Kinds -> TaskStates]
    <3>1. \A k \in Kinds : stored'[k] \in 0 .. MaxTokens
      BY <1>0, <2>1
    <3>. QED  BY <1>0, <1>3, <3>1 DEF TaskStates
  <2>3. CASE Cardinality(stops) = Cardinality(asked)
    <3>1. stops = asked
      BY <1>0, <2>3, AllStopped DEF stops, Done
    <3>2. \A k \in asked : task[k] = "stopped" /\ k \notin tokens
      BY <1>0, <1>1, <3>1 DEF stops
    <3>3. \A k \in asked : shown'[k] = generated'[k] /\ task'[k] = "stopped"
      BY <1>0, <1>3, <2>3, <3>2 DEF Streams
    <3>4. AnswersComplete'
      BY <1>0, <3>3, FlowRetrieves DEF AnswersComplete
    <3>. QED  BY <1>0, <1>3, <2>2, <2>3, <3>4 DEF Streams, RagAnswersTypeOK
  <2>4. CASE Cardinality(stops) # Cardinality(asked)
    BY <1>0, <1>3, <2>1, <2>2, <2>4 DEF Streams, RagAnswersTypeOK, AnswersComplete
  <2>. QED  BY <2>3, <2>4
<1>. QED  BY <1>2, <1>3 DEF streaming_step

\* Whatever was asked for and in whatever order the models' tokens come, a request
\* that ends well has shown every token of every answer, each answer had ended, and
\* the flow had retrieved what the prompts are made with (async_streaming_generate).
THEOREM AnswersAreWhole == RagAnswersSpec => []AnswersComplete
<1>1. Streams /\ [RagAnswersNext]_answerVars => Streams'
  <2>. SUFFICES ASSUME Streams, [RagAnswersNext]_answerVars PROVE Streams'
    OBVIOUS
  <2>1. CASE UNCHANGED answerVars
    BY <2>1 DEF answerVars, Streams, RagAnswersTypeOK, AnswersComplete
  <2>2. CASE RagAnswersNext
    BY <2>2, RagAnswerStep, GenerateStep, AsyncGenerateStep, StreamingStep DEF RagAnswersNext
  <2>. QED  BY <2>1, <2>2
<1>2. Streams => AnswersComplete
  BY DEF Streams
<1>. QED  BY <1>1, <1>2, StreamsInit, PTL DEF RagAnswersSpec

----------------------------------------------------------------------------
(* The index of vertex ids                                                 *)

ItemSets == [Vids -> {0, 1}]
IndexFile == [dim : Dims, by : Updates, paired : BOOLEAN]
PropertiesFile == [items : ItemSets, by : Updates]
VidCollection == [dim : Dims, items : [Vids -> Nat]]
UpdatePCs == {"idle", "fetched", "loaded", "read", "removed", "half_saved", "done", "failed"}
CallType == [pc : UpdatePCs, fetched : SUBSET Vids, engine : Engines, dim : Dims, past : SUBSET Vids,
             work : ItemSets, paired : BOOLEAN, alone : BOOLEAN]

VidTypes ==
  /\ vid_files \in [index : IndexFile \union {NoIndex}, properties : PropertiesFile \union {NoIndex}]
  /\ collection \in [Servers -> VidCollection \union {NoIndex}]
  /\ update \in [Updates -> CallType]
  /\ calm \in BOOLEAN

\* A call of Faiss.  What its copy holds is on disk, with its dimension, as long as it
\* is alone: when there is nothing to add, nothing has to be saved.
FaissCall(u) ==
  LET c == update[u]
      OnDisk(ids) == \A v \in ids : /\ Exist(vid_files) /\ vid_files.index.dim = c.dim
                                    /\ vid_files.properties.items[v] = 1
  IN  /\ c.pc = "loaded" /\ c.alone => OnDisk(Indexed(c.work))
      /\ c.pc \in {"read", "removed"} /\ c.alone => OnDisk(c.past)
      /\ c.pc = "read" => Indexed(c.work) = c.past
      /\ c.pc = "removed" => Indexed(c.work) = c.past \intersect c.fetched
      /\ c.pc = "half_saved" => \A v \in c.fetched : c.work[v] = 1
      /\ c.pc = "half_saved" /\ c.alone => vid_files.index # NoIndex /\ vid_files.index.dim = c.dim
      /\ c.pc = "half_saved" /\ (c.alone \/ calm) => vid_files.index = NoIndex \/ vid_files.index.by = u
      /\ c.pc \in {"loaded", "read", "removed", "half_saved"} /\ calm => c.paired

\* A call of Milvus or Qdrant knows what the collection holds.
ServerCall(u) ==
  LET c == update[u]
      held == collection[c.engine]
  IN  /\ c.pc # "half_saved"
      /\ c.pc \in {"loaded", "read", "removed"} /\ c.alone => held # NoIndex /\ held.dim = c.dim
      /\ c.pc = "read" /\ c.alone => \A v \in c.past : held.items[v] > 0
      /\ c.pc = "removed" /\ c.alone => \A v \in c.past \intersect c.fetched : held.items[v] > 0
      /\ c.pc \in {"read", "removed"} /\ calm /\ held # NoIndex =>
           \A v \in Vids \ c.past : held.items[v] = 0

CallInv(u) ==
  /\ update[u].engine = "Faiss" => FaissCall(u)
  /\ update[u].engine \in Servers => ServerCall(u)
  /\ update[u].pc = "done" /\ update[u].alone /\ update[u].fetched # {} => IndexesFetched(u)

\* An update is alone, and all are if it is calm.
Solitude ==
  /\ \A u \in Updates : update[u].alone => ~Cleaning /\ \A w \in Updates \ {u} : ~Running(w)
  /\ calm => \A u, w \in Updates : Running(u) /\ Running(w) => u = w

\* As long as it is calm no collection holds an id twice, and the two files belong
\* together unless one of them is just being replaced.
CalmStore ==
  calm =>
    /\ \A e \in Servers : collection[e] # NoIndex => \A v \in Vids : collection[e].items[v] \in {0, 1}
    /\ vid_files.index # NoIndex => vid_files.index.paired
    /\ Exist(vid_files) => \/ vid_files.index.by = vid_files.properties.by
                           \/ \E u \in Updates : update[u].pc = "half_saved"

VidInv == VidTypes /\ Solitude /\ CalmStore /\ \A u \in Updates : CallInv(u)

\* A file or a collection is not the absence of one.
LEMMA NoIndexIsNone ==
  NoIndex \notin IndexFile /\ NoIndex \notin PropertiesFile /\ NoIndex \notin VidCollection
<1>1. \A x \in PropertiesFile : x \in [items : [Vids -> Nat], by : Updates]
  BY DEF PropertiesFile, ItemSets
<1>. QED  BY <1>1, VectorIndexAssumption DEF IndexFile, VidCollection, Updates

LEMMA SomeDim == AnyDim \in Dims
BY VectorIndexAssumption DEF AnyDim

\* A call that has not started, or is over.
LEMMA CallOver ==
  /\ NotStarted \in CallType /\ NotStarted.pc = "idle" /\ ~NotStarted.alone
  /\ UpdateFailed \in CallType /\ UpdateFailed.pc = "failed" /\ ~UpdateFailed.alone
  /\ \A c \in CallType :
       /\ UpdateDone(c) \in CallType /\ UpdateDone(c).pc = "done" /\ UpdateDone(c).alone = c.alone
       /\ UpdateDone(c).engine = c.engine /\ UpdateDone(c).dim = c.dim /\ UpdateDone(c).fetched = c.fetched
BY SomeDim DEF NotStarted, UpdateDone, UpdateFailed, CallType, UpdatePCs, ItemSets, NoItems, Engines

\* Initially there is no index and no update.
LEMMA VidInvInit == VectorIndexInit => VidInv
<1>. SUFFICES ASSUME VectorIndexInit PROVE VidInv
  OBVIOUS
<1>1. VidTypes
  BY CallOver DEF VectorIndexInit, VidTypes, NoFiles
<1>2. \A u \in Updates : update[u].pc = "idle" /\ ~update[u].alone
  BY CallOver DEF VectorIndexInit
<1>3. Solitude
  BY <1>2 DEF Solitude, Running
<1>4. CalmStore
  BY DEF CalmStore, VectorIndexInit, NoFiles, Exist
<1>5. \A u \in Updates : CallInv(u)
  BY <1>2 DEF CallInv, FaissCall, ServerCall
<1>. QED  BY <1>1, <1>3, <1>4, <1>5 DEF VidInv

\* A step of a running update w leaves the others as they are: they are not running,
\* or neither they are alone nor is it calm.
LEMMA OtherCalls ==
  ASSUME VidInv, NEW w \in Updates, Running(w), NEW c, update' = [update EXCEPT ![w] = c],
         c.alone => update[w].alone, calm' \in BOOLEAN, calm' => calm, cleaning' = cleaning
  PROVE  /\ Solitude'
         /\ \A u \in Updates \ {w} : CallInv(u)'
<1>1. update'[w] = c /\ \A u \in Updates \ {w} : update'[u] = update[u]
  BY DEF VidInv, VidTypes
<1>2. \A u \in Updates : Running(u)' => Running(u)
  BY <1>1 DEF Running
<1>3. Solitude'
  <2>1. ASSUME NEW u \in Updates, update'[u].alone
        PROVE  ~Cleaning' /\ \A x \in Updates \ {u} : ~Running(x)'
    <3>1. update[u].alone
      BY <1>1, <2>1
    <3>. QED  BY <1>2, <3>1 DEF VidInv, Solitude, Cleaning
  <2>2. ASSUME calm', NEW u \in Updates, NEW x \in Updates, Running(u)', Running(x)'
        PROVE  u = x
    BY <1>2, <2>2 DEF VidInv, Solitude
  <2>. QED  BY <2>1, <2>2 DEF Solitude
<1>4. ASSUME NEW u \in Updates \ {w}
      PROVE  CallInv(u)'
  <2>1. update'[u] = update[u] /\ ~update[u].alone /\ (Running(u) => ~calm')
    BY <1>1 DEF VidInv, Solitude
  <2>2. CallInv(u)
    BY DEF VidInv
  <2>3. update[u].engine = "Faiss" => FaissCall(u)'
    BY <2>1, <2>2 DEF CallInv, FaissCall, Running
  <2>4. update[u].engine \in Servers => ServerCall(u)'
    BY <2>1, <2>2 DEF CallInv, ServerCall, Running
  <2>. QED  BY <2>1, <2>3, <2>4 DEF CallInv
<1>. QED  BY <1>3, <1>4

\* An update starts.
LEMMA FetchStep ==
  ASSUME VidInv, NEW u \in Updates, fetch_graph_data(u)
  PROVE  VidInv'
<1>. PICK vertices \in SUBSET Vids :
       update' = [w \in Updates |->
         IF w = u THEN [NotStarted EXCEPT !.pc = "fetched", !.fetched = vertices,
                                          !.alone = ~SomeRunning /\ ~Cleaning]
                  ELSE [update[w] EXCEPT !.alone = FALSE]]
  BY DEF fetch_graph_data
<1>0. /\ calm' = (calm /\ ~SomeRunning) /\ UNCHANGED <<vid_files, collection, cleaning>>
      /\ update[u].pc = "idle"
  BY DEF fetch_graph_data
<1>. DEFINE quiet == ~SomeRunning /\ ~Cleaning
            c == [NotStarted EXCEPT !.pc = "fetched", !.fetched = vertices, !.alone = quiet]
<1>2. update'[u] = c
  OBVIOUS
<1>1. c \in CallType /\ c.pc = "fetched" /\ c.alone = quiet
  <2>1. quiet \in BOOLEAN
    OBVIOUS
  <2>. HIDE DEF quiet
  <2>. QED  BY <2>1, CallOver DEF CallType, UpdatePCs
<1>. HIDE DEF c
<1>3. \A w \in Updates \ {u} : /\ update'[w] = [update[w] EXCEPT !.alone = FALSE]
                              /\ update'[w] \in CallType /\ ~update'[w].alone
                              /\ update'[w].pc = update[w].pc /\ update'[w].engine = update[w].engine
                              /\ update'[w].work = update[w].work /\ update'[w].past = update[w].past
                              /\ update'[w].fetched = update[w].fetched
  BY DEF VidInv, VidTypes, CallType
<1>4. update' \in [Updates -> CallType]
  BY <1>1, <1>2, <1>3
<1>5. VidTypes'
  BY <1>0, <1>4 DEF VidInv, VidTypes
<1>6. \A w \in Updates \ {u} : Running(w)' <=> Running(w)
  BY <1>3 DEF Running
<1>7. Solitude'
  BY <1>0, <1>1, <1>2, <1>3, <1>6 DEF Solitude, SomeRunning, Cleaning
<1>8. CalmStore'
  BY <1>0, <1>2, <1>3 DEF VidInv, CalmStore, SomeRunning, Running
<1>9. ASSUME NEW w \in Updates
      PROVE  CallInv(w)'
  <2>1. CASE w = u
    BY <1>1, <1>2, <2>1 DEF CallInv, FaissCall, ServerCall
  <2>2. CASE w # u
    <3>1. CallInv(w) /\ (Running(w) => ~calm')
      BY <1>0 DEF VidInv, SomeRunning
    <3>2. update[w].engine = "Faiss" => FaissCall(w)'
      BY <1>3, <2>2, <3>1 DEF CallInv, FaissCall, Running
    <3>3. update[w].engine \in Servers => ServerCall(w)'
      BY <1>3, <2>2, <3>1 DEF CallInv, ServerCall, Running
    <3>. QED  BY <1>3, <2>2, <3>2, <3>3 DEF CallInv
  <2>. QED  BY <2>1, <2>2
<1>. QED  BY <1>5, <1>7, <1>8, <1>9 DEF VidInv

\* The index is opened: Faiss reads the files or starts empty, a server opens, creates
\* or drops the collection.
LEMMA OpenStep ==
  ASSUME VidInv, NEW u \in Updates, BuildSemanticIndex_init(u)
  PROVE  VidInv'
<1>0. /\ update[u].pc = "fetched" /\ update[u] \in CallType /\ Running(u)
      /\ UNCHANGED <<vid_files, cleaning, calm>>
  BY DEF BuildSemanticIndex_init, VidInv, VidTypes, Running
<1>. PICK engine \in Engines, dim \in Dims :
       LET call == [update[u] EXCEPT !.pc = "loaded", !.engine = engine, !.dim = dim]
           used == faiss_from_name(vid_files, dim)
           opened == IF engine = "Qdrant" THEN qdrant_from_name(collection[engine], dim)
                                          ELSE milvus_from_name(collection[engine], dim)
       IN  \/ /\ engine = "Faiss"
              /\ update' = [update EXCEPT ![u] = [call EXCEPT
                   !.work = IF used THEN vid_files.properties.items ELSE NoItems,
                   !.paired = used => vid_files.index.by = vid_files.properties.by /\ vid_files.index.paired]]
              /\ UNCHANGED collection
           \/ /\ engine \in Servers
              /\ collection' = [collection EXCEPT ![engine] = opened]
              /\ update' = [update EXCEPT ![u] = IF opened = NoIndex THEN UpdateFailed ELSE call]
  BY DEF BuildSemanticIndex_init
<1>. DEFINE call == [update[u] EXCEPT !.pc = "loaded", !.engine = engine, !.dim = dim]
<1>1. /\ call \in CallType /\ call.pc = "loaded" /\ call.engine = engine /\ call.dim = dim
      /\ call.alone = update[u].alone
  BY <1>0 DEF CallType, UpdatePCs
<1>2. CASE engine = "Faiss"
  <2>. DEFINE used == faiss_from_name(vid_files, dim)
              c == [call EXCEPT
                   !.work = IF used THEN vid_files.properties.items ELSE NoItems,
                   !.paired = used => vid_files.index.by = vid_files.properties.by /\ vid_files.index.paired]
  <2>1. update' = [update EXCEPT ![u] = c] /\ UNCHANGED collection
    BY <1>2 DEF Servers
  <2>2. used => /\ vid_files.index \in IndexFile /\ vid_files.properties \in PropertiesFile
                /\ Exist(vid_files) /\ vid_files.index.dim = dim
    BY DEF faiss_from_name, Exist, VidInv, VidTypes
  <2>3. /\ c.pc = "loaded" /\ c.engine = "Faiss" /\ c.dim = dim /\ c.alone = update[u].alone
        /\ c.work = (IF used THEN vid_files.properties.items ELSE NoItems)
        /\ c.paired = (used => vid_files.index.by = vid_files.properties.by /\ vid_files.index.paired)
    BY <1>1, <1>2 DEF CallType
  <2>4. c.work \in ItemSets /\ c.paired \in BOOLEAN
    BY <2>2, <2>3 DEF PropertiesFile, NoItems, ItemSets
  <2>5. c \in CallType
    BY <1>1, <2>4 DEF CallType
  <2>. HIDE DEF c, call
  <2>6. update'[u] = c /\ VidTypes'
    BY <1>0, <2>1, <2>5 DEF VidInv, VidTypes
  <2>7. Solitude' /\ \A w \in Updates \ {u} : CallInv(w)'
    BY <1>0, <2>1, <2>3, OtherCalls DEF VidInv, VidTypes
  <2>8. calm => \A w \in Updates : update[w].pc # "half_saved"
    BY <1>0 DEF VidInv, Solitude, Running
  <2>9. CalmStore'
    BY <1>0, <2>1, <2>8 DEF VidInv, CalmStore
  <2>10. calm => c.paired
    BY <2>2, <2>3, <2>8 DEF VidInv, CalmStore, Exist
  <2>11. \A v \in Indexed(c.work) : /\ Exist(vid_files) /\ vid_files.index.dim = dim
                                   /\ vid_files.properties.items[v] = 1
    <3>1. \A v \in Indexed(c.work) : used
      BY <2>3 DEF Indexed, NoItems
    <3>. QED  BY <2>2, <2>3, <3>1 DEF Indexed, PropertiesFile, ItemSets
  <2>12. CallInv(u)'
    BY <1>0, <2>1, <2>3, <2>6, <2>10, <2>11 DEF CallInv, FaissCall, Servers
  <2>. QED  BY <2>6, <2>7, <2>9, <2>12 DEF VidInv
<1>3. CASE engine \in Servers
  <2>. DEFINE held == collection[engine]
              opened == IF engine = "Qdrant" THEN qdrant_from_name(held, dim) ELSE milvus_from_name(held, dim)
              c == IF opened = NoIndex THEN UpdateFailed ELSE call
  <2>1. collection' = [collection EXCEPT ![engine] = opened] /\ update' = [update EXCEPT ![u] = c]
    BY <1>3 DEF Servers
  <2>2. /\ held \in VidCollection \union {NoIndex} /\ collection \in [Servers -> VidCollection \union {NoIndex}]
    BY <1>3 DEF VidInv, VidTypes
  <2>3. /\ Index(dim, NoItems) \in VidCollection /\ Index(dim, NoItems).dim = dim
        /\ \A v \in Vids : Index(dim, NoItems).items[v] = 0
    BY DEF Index, NoItems, VidCollection
  <2>4. \/ opened = held /\ held # NoIndex /\ held.dim = dim
        \/ opened = Index(dim, NoItems)
        \/ opened = NoIndex
    BY DEF qdrant_from_name, milvus_from_name
  <2>5. /\ c \in CallType /\ (c.alone => update[u].alone)
        /\ c.pc = (IF opened = NoIndex THEN "failed" ELSE "loaded")
        /\ c.pc = "loaded" => c.engine = engine /\ c.dim = dim
    BY <1>1, CallOver
  <2>. HIDE DEF c, call, opened
  <2>6. /\ update'[u] = c /\ collection'[engine] = opened
        /\ \A e \in Servers \ {engine} : collection'[e] = collection[e]
    BY <1>3, <2>1, <2>2 DEF VidInv, VidTypes
  <2>7. VidTypes'
    BY <1>0, <2>1, <2>2, <2>3, <2>4, <2>5 DEF VidInv, VidTypes
  <2>8. Solitude' /\ \A w \in Updates \ {u} : CallInv(w)'
    BY <1>0, <2>1, <2>5, OtherCalls DEF VidInv, VidTypes
  <2>9. CalmStore'
    <3>1. calm => \A w \in Updates : update[w].pc # "half_saved"
      BY <1>0 DEF VidInv, Solitude, Running
    <3>2. calm => \A e \in Servers : collection'[e] # NoIndex => \A v \in Vids : collection'[e].items[v] \in {0, 1}
      BY <2>3, <2>4, <2>6 DEF VidInv, CalmStore
    <3>. QED  BY <1>0, <3>1, <3>2 DEF VidInv, CalmStore
  <2>10. opened # NoIndex => opened.dim = dim
    BY <2>3, <2>4
  <2>11. CallInv(u)'
    <3>1. CASE c.pc = "failed"
      BY <2>6, <3>1 DEF CallInv, ServerCall, FaissCall
    <3>2. CASE c.pc = "loaded"
      BY <1>3, <2>5, <2>6, <2>10, <3>2 DEF CallInv, ServerCall, Servers
    <3>. QED  BY <2>5, <3>1, <3>2
  <2>. QED  BY <2>7, <2>8, <2>9, <2>11 DEF VidInv
<1>. QED  BY <1>2, <1>3 DEF Engines

\* The ids that the index holds are read.
LEMMA ReadStep ==
  ASSUME VidInv, NEW u \in Updates, get_all_properties(u)
  PROVE  VidInv'
<1>. DEFINE e == update[u].engine
            past == IF e = "Faiss" THEN Indexed(update[u].work) ELSE Indexed(collection[e].items)
            c == [update[u] EXCEPT !.pc = "read", !.past = past]
<1>0. /\ update[u].pc = "loaded" /\ update[u] \in CallType /\ e \in Engines /\ Running(u) /\ CallInv(u)
      /\ UNCHANGED <<vid_files, collection, cleaning, calm>>
      /\ update \in [Updates -> CallType]
  BY DEF get_all_properties, VidInv, VidTypes, Running, CallType
<1>1. update' = [update EXCEPT ![u] = c] /\ (e \in Servers => collection[e] # NoIndex)
  BY <1>0 DEF get_all_properties, Servers
<1>2. past \in SUBSET Vids
  BY DEF Indexed
<1>. HIDE DEF past
<1>3. /\ c \in CallType /\ c.pc = "read" /\ c.past = past /\ c.alone = update[u].alone /\ c.engine = e
      /\ c.dim = update[u].dim /\ c.work = update[u].work /\ c.paired = update[u].paired
  BY <1>0, <1>2 DEF CallType, UpdatePCs
<1>. HIDE DEF c
<1>4. update'[u] = c /\ VidTypes'
  BY <1>0, <1>1, <1>3 DEF VidInv, VidTypes
<1>5. Solitude' /\ \A w \in Updates \ {u} : CallInv(w)'
  BY <1>0, <1>1, <1>3, OtherCalls DEF VidInv, VidTypes
<1>6. CalmStore'
  <2>1. calm => \A w \in Updates : update[w].pc # "half_saved"
    BY <1>0 DEF VidInv, Solitude, Running
  <2>. QED  BY <1>0, <2>1 DEF VidInv, CalmStore
<1>7. CallInv(u)'
  <2>1. CASE e = "Faiss"
    <3>1. past = Indexed(update[u].work)
      BY <2>1 DEF past
    <3>. QED  BY <1>0, <1>3, <1>4, <2>1, <3>1 DEF CallInv, FaissCall, Servers, Indexed
  <2>2. CASE e \in Servers
    <3>1. past = Indexed(collection[e].items) /\ collection[e] \in VidCollection
      BY <1>0, <1>1, <2>2 DEF past, Servers, VidInv, VidTypes
    <3>2. \A v \in Vids : (v \in past <=> collection[e].items[v] > 0) /\ collection[e].items[v] \in Nat
      BY <3>1 DEF Indexed, VidCollection
    <3>. QED  BY <1>0, <1>2, <1>3, <1>4, <2>2, <3>2 DEF CallInv, ServerCall, Servers
  <2>. QED  BY <1>0, <2>1, <2>2 DEF Engines
<1>. QED  BY <1>4, <1>5, <1>6, <1>7 DEF VidInv

\* Ids that are gone are removed from the copy, or from the collection.
LEMMA RemoveStep ==
  ASSUME VidInv, NEW u \in Updates, remove_vids(u)
  PROVE  VidInv'
<1>. DEFINE e == update[u].engine
            gone == update[u].past \ update[u].fetched
<1>0. /\ update[u].pc = "read" /\ update[u] \in CallType /\ e \in Engines /\ Running(u) /\ CallInv(u)
      /\ UNCHANGED <<vid_files, cleaning, calm>>
      /\ update \in [Updates -> CallType]
  BY DEF remove_vids, VidInv, VidTypes, Running, CallType
<1>1. calm => \A w \in Updates : update[w].pc # "half_saved"
  BY <1>0 DEF VidInv, Solitude, Running
<1>2. CASE e = "Faiss"
  <2>. DEFINE c == [update[u] EXCEPT !.pc = "removed", !.work = removeProps(update[u].work, gone)]
  <2>1. update' = [update EXCEPT ![u] = c] /\ UNCHANGED collection
    BY <1>0, <1>2 DEF remove_vids, Servers
  <2>2. /\ removeProps(update[u].work, gone) \in ItemSets
        /\ Indexed(removeProps(update[u].work, gone)) = Indexed(update[u].work) \ gone
    BY <1>0 DEF removeProps, ItemSets, Indexed, CallType
  <2>3. /\ c \in CallType /\ c.pc = "removed" /\ c.past = update[u].past /\ c.alone = update[u].alone
        /\ c.engine = e /\ c.dim = update[u].dim /\ c.paired = update[u].paired /\ c.fetched = update[u].fetched
        /\ c.work = removeProps(update[u].work, gone)
    BY <1>0, <2>2 DEF CallType, UpdatePCs
  <2>. HIDE DEF c
  <2>4. update'[u] = c /\ VidTypes'
    BY <1>0, <2>1, <2>3 DEF VidInv, VidTypes
  <2>5. Solitude' /\ \A w \in Updates \ {u} : CallInv(w)'
    BY <1>0, <2>1, <2>3, OtherCalls DEF VidInv, VidTypes
  <2>6. CalmStore'
    BY <1>0, <1>1, <2>1 DEF VidInv, CalmStore
  <2>7. Indexed(c.work) = c.past \intersect c.fetched
    BY <1>0, <1>2, <2>2, <2>3 DEF CallInv, FaissCall
  <2>8. CallInv(u)'
    BY <1>0, <1>2, <2>3, <2>4, <2>7 DEF CallInv, FaissCall, Servers
  <2>. QED  BY <2>4, <2>5, <2>6, <2>8 DEF VidInv
<1>3. CASE e \in Servers
  <2>. PICK part \in SUBSET gone :
         /\ collection[e] # NoIndex
         /\ collection' = [collection EXCEPT ![e].items = removeProps(collection[e].items, part)]
         /\ \/ part = gone /\ update' = [update EXCEPT ![u] = [update[u] EXCEPT !.pc = "removed"]]
            \/ update' = [update EXCEPT ![u] = UpdateFailed]
    BY <1>0, <1>3 DEF remove_vids, Servers
  <2>. DEFINE held == collection[e]
              less == [held EXCEPT !.items = removeProps(held.items, part)]
  <2>1. held \in VidCollection /\ collection \in [Servers -> VidCollection \union {NoIndex}]
    BY <1>3 DEF VidInv, VidTypes
  <2>2. /\ less \in VidCollection /\ less.dim = held.dim
        /\ \A v \in Vids : less.items[v] = IF v \in part THEN 0 ELSE held.items[v]
    BY <2>1 DEF VidCollection, removeProps
  <2>3. collection' = [collection EXCEPT ![e] = less]
    BY <1>3, <2>1
  <2>. HIDE DEF less
  <2>4. /\ collection'[e] = less /\ less # NoIndex /\ collection' \in [Servers -> VidCollection \union {NoIndex}]
        /\ \A x \in Servers \ {e} : collection'[x] = collection[x]
    BY <1>3, <2>1, <2>2, <2>3, NoIndexIsNone
  <2>5. CalmStore'
    <3>1. calm => \A v \in Vids : held.items[v] \in {0, 1}
      BY <1>3, <2>1, NoIndexIsNone DEF VidInv, CalmStore
    <3>2. calm => \A v \in Vids : less.items[v] \in {0, 1}
      BY <2>2, <3>1
    <3>3. calm => \A x \in Servers : collection'[x] # NoIndex => \A v \in Vids : collection'[x].items[v] \in {0, 1}
      BY <2>4, <3>2 DEF VidInv, CalmStore
    <3>. QED  BY <1>0, <1>1, <3>3 DEF VidInv, CalmStore
  <2>6. CASE part = gone /\ update' = [update EXCEPT ![u] = [update[u] EXCEPT !.pc = "removed"]]
    <3>. DEFINE c == [update[u] EXCEPT !.pc = "removed"]
    <3>1. /\ c \in CallType /\ c.pc = "removed" /\ c.past = update[u].past /\ c.alone = update[u].alone
          /\ c.engine = e /\ c.dim = update[u].dim /\ c.fetched = update[u].fetched
      BY <1>0 DEF CallType, UpdatePCs
    <3>2. update' = [update EXCEPT ![u] = c]
      BY <2>6
    <3>. HIDE DEF c
    <3>3. update'[u] = c /\ VidTypes'
      BY <1>0, <2>4, <3>1, <3>2 DEF VidInv, VidTypes
    <3>4. Solitude' /\ \A w \in Updates \ {u} : CallInv(w)'
      BY <1>0, <3>1, <3>2, OtherCalls DEF VidInv, VidTypes
    <3>5. ServerCall(u)
      BY <1>0, <1>3 DEF CallInv
    <3>6. update[u].past \subseteq Vids
      BY <1>0 DEF CallType
    <3>7. c.alone => /\ less.dim = c.dim
                     /\ \A v \in c.past \intersect c.fetched : less.items[v] > 0
      BY <1>0, <2>2, <2>6, <3>1, <3>5, <3>6 DEF ServerCall
    <3>8. calm => \A v \in Vids \ c.past : less.items[v] = 0
      BY <1>0, <2>2, <2>6, <3>1, <3>5 DEF ServerCall
    <3>9. CallInv(u)'
      BY <1>0, <1>3, <2>4, <3>1, <3>3, <3>7, <3>8 DEF CallInv, ServerCall, Servers
    <3>. QED  BY <2>5, <3>3, <3>4, <3>9 DEF VidInv
  <2>7. CASE update' = [update EXCEPT ![u] = UpdateFailed]
    <3>1. UpdateFailed \in CallType /\ UpdateFailed.pc = "failed" /\ ~UpdateFailed.alone
      BY CallOver
    <3>2. update'[u].pc = "failed" /\ VidTypes'
      BY <1>0, <2>4, <2>7, <3>1 DEF VidInv, VidTypes
    <3>3. Solitude' /\ \A w \in Updates \ {u} : CallInv(w)'
      BY <1>0, <2>7, <3>1, OtherCalls DEF VidInv, VidTypes
    <3>4. CallInv(u)'
      BY <3>2 DEF CallInv, FaissCall, ServerCall
    <3>. QED  BY <2>5, <3>2, <3>3, <3>4 DEF VidInv
  <2>. QED  BY <2>6, <2>7
<1>. QED  BY <1>0, <1>2, <1>3 DEF Engines

\* New ids are added: Faiss writes its index file, a collection holds them at once.
LEMMA AddStep ==
  ASSUME VidInv, NEW u \in Updates, add_vids(u)
  PROVE  VidInv'
<1>. DEFINE e == update[u].engine
            added == update[u].fetched \ update[u].past
            full == addProps(update[u].work, added)
            over == UpdateDone(update[u])
<1>0. /\ update[u].pc = "removed" /\ update[u] \in CallType /\ e \in Engines /\ Running(u) /\ CallInv(u)
      /\ UNCHANGED <<cleaning, calm>> /\ update \in [Updates -> CallType]
      /\ update[u].fetched \subseteq Vids /\ update[u].past \subseteq Vids
      /\ calm \in BOOLEAN
  BY DEF add_vids, VidInv, VidTypes, Running, CallType
<1>1. calm => \A w \in Updates : update[w].pc # "half_saved"
  BY <1>0 DEF VidInv, Solitude, Running
<1>2. /\ over \in CallType /\ over.pc = "done" /\ over.alone = update[u].alone /\ over.engine = e
      /\ over.dim = update[u].dim /\ over.fetched = update[u].fetched
  BY <1>0, CallOver
<1>. HIDE DEF over
<1>3. CASE added = {} /\ update' = [update EXCEPT ![u] = over] /\ UNCHANGED <<vid_files, collection>>
  <2>1. update'[u] = over /\ VidTypes'
    BY <1>0, <1>2, <1>3 DEF VidInv, VidTypes
  <2>2. Solitude' /\ \A w \in Updates \ {u} : CallInv(w)'
    BY <1>0, <1>2, <1>3, OtherCalls
  <2>3. CalmStore'
    BY <1>0, <1>1, <1>3 DEF VidInv, CalmStore
  <2>4. update[u].fetched \subseteq update[u].past
    BY <1>3
  <2>5. CASE e = "Faiss"
    <3>1. FaissCall(u)
      BY <1>0, <2>5 DEF CallInv
    <3>2. over.alone /\ over.fetched # {} =>
            /\ Exist(vid_files) /\ vid_files.index.dim = over.dim
            /\ \A v \in over.fetched : vid_files.properties.items[v] = 1
            /\ calm => vid_files.index.paired /\ vid_files.index.by = vid_files.properties.by
      BY <1>0, <1>1, <1>2, <2>4, <3>1 DEF FaissCall, VidInv, CalmStore, Exist
    <3>3. over.alone /\ over.fetched # {} => IndexesFetched(u)'
      BY <1>0, <1>2, <1>3, <2>1, <2>5, <3>2 DEF IndexesFetched, IsPersisted, PersistedDim, PersistedItems, Exist
    <3>4. CallInv(u)'
      BY <1>2, <2>1, <2>5, <3>3 DEF CallInv, FaissCall, Servers
    <3>. QED  BY <2>1, <2>2, <2>3, <3>4 DEF VidInv
  <2>6. CASE e \in Servers
    <3>1. ServerCall(u) /\ collection[e] \in VidCollection \union {NoIndex} /\ e # "Faiss"
      BY <1>0, <2>6 DEF CallInv, VidInv, VidTypes, Servers
    <3>2. over.alone =>
            /\ collection[e] # NoIndex /\ collection[e].dim = over.dim
            /\ \A v \in over.fetched : collection[e].items[v] > 0
            /\ calm => \A v \in over.fetched : collection[e].items[v] \in {0, 1}
      BY <1>0, <1>2, <2>4, <2>6, <3>1 DEF ServerCall, VidInv, CalmStore
    <3>3. over.alone => IndexesFetched(u)'
      BY <1>0, <1>2, <1>3, <2>1, <3>1, <3>2 DEF IndexesFetched, IsPersisted, PersistedDim, PersistedItems
    <3>4. CallInv(u)'
      BY <1>2, <2>1, <3>1, <3>3 DEF CallInv, ServerCall
    <3>. QED  BY <2>1, <2>2, <2>3, <3>4 DEF VidInv
  <2>. QED  BY <1>0, <2>5, <2>6 DEF Engines
<1>4. CASE /\ e = "Faiss" /\ UNCHANGED collection
           /\ vid_files' = [vid_files EXCEPT !.index =
                [dim |-> update[u].dim, by |-> u, paired |-> update[u].paired]]
           /\ update' = [update EXCEPT ![u] = [update[u] EXCEPT !.pc = "half_saved", !.work = full]]
  <2>. DEFINE c == [update[u] EXCEPT !.pc = "half_saved", !.work = full]
              f == [dim |-> update[u].dim, by |-> u, paired |-> update[u].paired]
  <2>1. FaissCall(u)
    BY <1>0, <1>4 DEF CallInv
  <2>2. full \in ItemSets /\ \A v \in update[u].fetched : full[v] = 1
    <3>1. \A v \in Vids : update[u].work[v] \in {0, 1} /\ (update[u].work[v] = 1 <=> v \in update[u].past \intersect update[u].fetched)
      BY <1>0, <2>1 DEF FaissCall, Indexed, CallType, ItemSets
    <3>2. \A v \in Vids : full[v] = update[u].work[v] + (IF v \in added THEN 1 ELSE 0)
      BY DEF addProps
    <3>3. \A v \in Vids : full[v] \in {0, 1} /\ (v \in update[u].fetched => full[v] = 1)
      BY <3>1, <3>2
    <3>4. full = [v \in Vids |-> full[v]]
      BY DEF addProps
    <3>. HIDE DEF full
    <3>. QED  BY <1>0, <3>3, <3>4 DEF ItemSets
  <2>. HIDE DEF full
  <2>3. /\ c \in CallType /\ c.pc = "half_saved" /\ c.work = full /\ c.alone = update[u].alone /\ c.engine = e
        /\ c.dim = update[u].dim /\ c.fetched = update[u].fetched /\ c.paired = update[u].paired
    BY <1>0, <2>2 DEF CallType, UpdatePCs
  <2>4. f \in IndexFile /\ f.dim = update[u].dim /\ f.by = u /\ f.paired = update[u].paired
    BY <1>0 DEF IndexFile, CallType
  <2>5. update' = [update EXCEPT ![u] = c] /\ vid_files' = [vid_files EXCEPT !.index = f]
    BY <1>4
  <2>. HIDE DEF c, f
  <2>6. update'[u] = c /\ vid_files'.index = f /\ vid_files'.properties = vid_files.properties /\ VidTypes'
    BY <1>0, <1>4, <2>3, <2>4, <2>5 DEF VidInv, VidTypes
  <2>7. Solitude' /\ \A w \in Updates \ {u} : CallInv(w)'
    BY <1>0, <2>3, <2>5, OtherCalls
  <2>8. calm => f.paired
    BY <1>0, <2>1, <2>4 DEF FaissCall
  <2>9. CalmStore'
    BY <1>0, <1>4, <2>3, <2>6, <2>8 DEF VidInv, CalmStore
  <2>10. CallInv(u)'
    BY <1>0, <1>4, <2>2, <2>3, <2>4, <2>6, <2>8, NoIndexIsNone DEF CallInv, FaissCall, Servers
  <2>. QED  BY <2>6, <2>7, <2>9, <2>10 DEF VidInv
<1>5. CASE /\ e \in Servers /\ collection[e] # NoIndex /\ collection[e].dim = update[u].dim
           /\ collection' = [collection EXCEPT ![e].items = addProps(collection[e].items, added)]
           /\ update' = [update EXCEPT ![u] = over] /\ UNCHANGED vid_files
  <2>. DEFINE held == collection[e]
              more == [held EXCEPT !.items = addProps(held.items, added)]
  <2>1. held \in VidCollection /\ collection \in [Servers -> VidCollection \union {NoIndex}] /\ e # "Faiss"
    BY <1>5 DEF VidInv, VidTypes, Servers
  <2>2. /\ more \in VidCollection /\ more.dim = held.dim
        /\ \A v \in Vids : held.items[v] \in Nat /\ more.items[v] = held.items[v] + (IF v \in added THEN 1 ELSE 0)
    BY <2>1 DEF VidCollection, addProps
  <2>3. collection' = [collection EXCEPT ![e] = more]
    BY <1>5, <2>1
  <2>. HIDE DEF more
  <2>4. /\ collection'[e] = more /\ more # NoIndex /\ collection' \in [Servers -> VidCollection \union {NoIndex}]
        /\ \A x \in Servers \ {e} : collection'[x] = collection[x]
    BY <1>5, <2>1, <2>2, <2>3, NoIndexIsNone
  <2>5. update'[u] = over /\ VidTypes'
    BY <1>0, <1>2, <1>5, <2>4 DEF VidInv, VidTypes
  <2>6. Solitude' /\ \A w \in Updates \ {u} : CallInv(w)'
    BY <1>0, <1>2, <1>5, OtherCalls
  <2>7. ServerCall(u)
    BY <1>0, <1>5 DEF CallInv
  <2>8. calm => \A v \in Vids : more.items[v] \in {0, 1}
    <3>1. calm => \A v \in Vids : held.items[v] \in {0, 1} /\ (v \in added => held.items[v] = 0)
      BY <1>0, <1>5, <2>7 DEF ServerCall, VidInv, CalmStore
    <3>. HIDE DEF added
    <3>. QED  BY <2>2, <3>1
  <2>9. update[u].alone => \A v \in update[u].fetched : more.items[v] > 0
    BY <1>0, <2>2, <2>7 DEF ServerCall
  <2>10. CalmStore'
    <3>1. calm => \A x \in Servers : collection'[x] # NoIndex => \A v \in Vids : collection'[x].items[v] \in {0, 1}
      BY <1>5, <2>4, <2>8 DEF VidInv, CalmStore
    <3>. QED  BY <1>0, <1>1, <1>5, <3>1 DEF VidInv, CalmStore
  <2>11. over.alone => IndexesFetched(u)'
    <3>1. update[u].alone /\ calm => \A v \in update[u].fetched : more.items[v] = 1
      BY <1>0, <2>8, <2>9
    <3>. QED  BY <1>0, <1>2, <1>5, <2>1, <2>2, <2>4, <2>5, <2>9, <3>1
              DEF IndexesFetched, IsPersisted, PersistedDim, PersistedItems
  <2>12. CallInv(u)'
    BY <1>2, <2>1, <2>5, <2>11 DEF CallInv, ServerCall
  <2>. QED  BY <2>5, <2>6, <2>10, <2>12 DEF VidInv
<1>. QED  BY <1>3, <1>4, <1>5 DEF add_vids, over

\* Faiss writes its properties file.
LEMMA SaveStep ==
  ASSUME VidInv, NEW u \in Updates, save_index_by_name(u)
  PROVE  VidInv'
<1>. DEFINE c == update[u]
            over == UpdateDone(update[u])
            f == [items |-> update[u].work, by |-> u]
<1>0. /\ c.pc = "half_saved" /\ c \in CallType /\ Running(u) /\ CallInv(u)
      /\ UNCHANGED <<collection, cleaning, calm>> /\ update \in [Updates -> CallType]
      /\ vid_files' = [vid_files EXCEPT !.properties = f] /\ update' = [update EXCEPT ![u] = over]
      /\ calm \in BOOLEAN
  BY DEF save_index_by_name, VidInv, VidTypes, Running
<1>1. /\ over \in CallType /\ over.pc = "done" /\ over.alone = c.alone /\ over.engine = c.engine
      /\ over.dim = c.dim /\ over.fetched = c.fetched
  BY <1>0, CallOver
<1>2. f \in PropertiesFile /\ f.items = c.work /\ f.by = u
  BY <1>0 DEF PropertiesFile, CallType
<1>. HIDE DEF over, f
<1>3. update'[u] = over /\ vid_files'.index = vid_files.index /\ vid_files'.properties = f /\ VidTypes'
  BY <1>0, <1>1, <1>2 DEF VidInv, VidTypes
<1>4. Solitude' /\ \A w \in Updates \ {u} : CallInv(w)'
  BY <1>0, <1>1, OtherCalls
<1>5. c.engine = "Faiss" /\ FaissCall(u)
  BY <1>0 DEF CallInv, ServerCall, CallType, Engines
<1>6. CalmStore'
  BY <1>0, <1>2, <1>3, <1>5 DEF VidInv, CalmStore, FaissCall, Exist
<1>7. over.alone => IndexesFetched(u)'
  <2>1. over.alone => /\ Exist(vid_files)' /\ vid_files'.index.dim = over.dim
                      /\ \A v \in over.fetched : vid_files'.properties.items[v] = 1
                      /\ calm => vid_files'.index.paired /\ vid_files'.index.by = vid_files'.properties.by
    BY <1>0, <1>1, <1>2, <1>3, <1>5, NoIndexIsNone DEF FaissCall, Exist, VidInv, CalmStore
  <2>. QED  BY <1>0, <1>1, <1>3, <1>5, <2>1 DEF IndexesFetched, IsPersisted, PersistedDim, PersistedItems
<1>8. CallInv(u)'
  BY <1>1, <1>3, <1>5, <1>7 DEF CallInv, FaissCall, Servers
<1>. QED  BY <1>3, <1>4, <1>6, <1>8 DEF VidInv

\* An update ends with an error, perhaps between its two files.
LEMMA FailStep ==
  ASSUME VidInv, NEW u \in Updates, update_fails(u)
  PROVE  VidInv'
<1>. DEFINE over == UpdateFailed
<1>0. /\ Running(u) /\ update[u] \in CallType /\ calm' = (calm /\ update[u].pc # "half_saved")
      /\ update' = [update EXCEPT ![u] = over] /\ UNCHANGED <<vid_files, collection, cleaning>>
      /\ update \in [Updates -> CallType] /\ calm \in BOOLEAN
  BY DEF update_fails, VidInv, VidTypes
<1>1. over \in CallType /\ over.pc = "failed" /\ ~over.alone
  BY CallOver
<1>. HIDE DEF over
<1>2. update'[u] = over /\ VidTypes' /\ \A w \in Updates \ {u} : update'[w] = update[w]
  BY <1>0, <1>1 DEF VidInv, VidTypes
<1>3. Solitude' /\ \A w \in Updates \ {u} : CallInv(w)'
  BY <1>0, <1>1, OtherCalls
<1>4. CalmStore'
  BY <1>0, <1>2 DEF VidInv, CalmStore
<1>5. CallInv(u)'
  BY <1>1, <1>2 DEF CallInv, FaissCall, ServerCall
<1>. QED  BY <1>2, <1>3, <1>4, <1>5 DEF VidInv

\* A cleaning starts: no update is alone any more.
LEMMA CleanStarts ==
  ASSUME VidInv, NEW x \in Cleaners, clean_all_graph_index(x)
  PROVE  VidInv'
<1>0. /\ UNCHANGED <<vid_files, collection, calm>>
      /\ update' = [u \in Updates |-> [update[u] EXCEPT !.alone = FALSE]]
  BY DEF clean_all_graph_index
<1>1. \A u \in Updates : /\ update'[u] \in CallType /\ ~update'[u].alone
                         /\ update'[u].pc = update[u].pc /\ update'[u].engine = update[u].engine
                         /\ update'[u].work = update[u].work /\ update'[u].past = update[u].past
                         /\ update'[u].fetched = update[u].fetched /\ update'[u].paired = update[u].paired
  BY <1>0 DEF VidInv, VidTypes, CallType
<1>2. VidTypes'
  BY <1>0, <1>1 DEF VidInv, VidTypes
<1>3. Solitude'
  BY <1>0, <1>1 DEF VidInv, Solitude, Running
<1>4. CalmStore'
  BY <1>0, <1>1 DEF VidInv, CalmStore
<1>5. ASSUME NEW u \in Updates PROVE CallInv(u)'
  <2>1. CallInv(u)
    BY DEF VidInv
  <2>. QED  BY <1>0, <1>1, <2>1 DEF CallInv, FaissCall, ServerCall
<1>. QED  BY <1>2, <1>3, <1>4, <1>5 DEF VidInv

\* A cleaning removes a file or a collection, or ends early.
LEMMA CleanStep ==
  ASSUME VidInv, NEW x \in Cleaners, clean(x) \/ clean_fails(x)
  PROVE  VidInv'
<1>0. /\ UNCHANGED <<update, calm>>
      /\ vid_files' \in {vid_files, [vid_files EXCEPT !.index = NoIndex], [vid_files EXCEPT !.properties = NoIndex]}
      /\ collection' = collection \/ \E f : collection' = [e \in Servers |-> IF e = f THEN NoIndex ELSE collection[e]]
  BY DEF clean, clean_fails, vidVars
<1>1. \A u \in Updates : ~update[u].alone
  BY DEF clean, clean_fails, VidInv, Solitude, Cleaning
<1>2. /\ \A e \in Servers : collection'[e] \in {collection[e], NoIndex}
      /\ collection' \in [Servers -> VidCollection \union {NoIndex}]
  BY <1>0 DEF VidInv, VidTypes
<1>3. /\ vid_files'.index \in {vid_files.index, NoIndex} /\ vid_files'.properties \in {vid_files.properties, NoIndex}
      /\ VidTypes'
  BY <1>0, <1>2 DEF VidInv, VidTypes
<1>4. Solitude'
  BY <1>0, <1>1 DEF VidInv, Solitude, Running
<1>5. CalmStore'
  BY <1>0, <1>2, <1>3 DEF VidInv, CalmStore, Exist
<1>6. ASSUME NEW u \in Updates PROVE CallInv(u)'
  <2>1. CallInv(u) /\ update'[u] = update[u] /\ ~update[u].alone /\ update[u].engine \in Engines
    BY <1>0, <1>1 DEF VidInv, VidTypes, CallType
  <2>2. update[u].engine = "Faiss" => FaissCall(u)'
    BY <1>0, <1>3, <2>1 DEF CallInv, FaissCall
  <2>3. update[u].engine \in Servers => ServerCall(u)'
    BY <1>0, <1>2, <2>1 DEF CallInv, ServerCall
  <2>. QED  BY <2>1, <2>2, <2>3 DEF CallInv
<1>. QED  BY <1>3, <1>4, <1>5, <1>6 DEF VidInv

\* After an update that reported success and was alone, the persisted index of its
\* engine holds every fetched vertex, with the dimension of its embedding, and, if no
\* updates ever overlapped and no save was cut short, exactly once and with vectors and
\* properties that belong together (BuildSemanticIndex, the three vector stores).
THEOREM UpdatesAreComplete == VectorIndexSpec => []UpdateIndexesFetched
<1>1. VidInv /\ [VectorIndexNext]_vectorVars => VidInv'
  <2>. SUFFICES ASSUME VidInv, [VectorIndexNext]_vectorVars PROVE VidInv'
    OBVIOUS
  <2>1. CASE UNCHANGED <<vidVars, cleaning>>
    BY <2>1 DEF vidVars, VidInv, VidTypes, Solitude, Running, Cleaning, CalmStore, CallInv, FaissCall, ServerCall,
                IndexesFetched, IsPersisted, PersistedDim, PersistedItems, Exist
  <2>2. CASE \E q \in Queries : \/ example_exist(q) \/ example_from_name(q) \/ build_default_example_index(q)
                                \/ build_user_examples(q) \/ save_examples(q) \/ lookup_fails(q)
    BY <2>1, <2>2 DEF example_exist, example_from_name, build_default_example_index, build_user_examples,
                      save_examples, lookup_fails
  <2>3. CASE CleanNext
    BY <2>3, CleanStarts, CleanStep DEF CleanNext
  <2>4. CASE \E u \in Updates :
               \/ fetch_graph_data(u) \/ BuildSemanticIndex_init(u) \/ get_all_properties(u)
               \/ remove_vids(u) \/ add_vids(u) \/ save_index_by_name(u) \/ update_fails(u)
    BY <2>4, FetchStep, OpenStep, ReadStep, RemoveStep, AddStep, SaveStep, FailStep
  <2>. QED  BY <2>1, <2>2, <2>3, <2>4 DEF VectorIndexNext, VidIndexNext, ExampleIndexNext, vectorVars
<1>2. VidInv => UpdateIndexesFetched
  BY DEF VidInv, CallInv, UpdateIndexesFetched
<1>. QED  BY <1>1, <1>2, VidInvInit, PTL DEF VectorIndexSpec

----------------------------------------------------------------------------
(* The index of examples                                                   *)

ExampleItems == [0 .. DefaultBatches -> Nat]
WholeItems == {i \in ExampleItems : Whole(i)}
LookupPCs == {"start", "found", "missing", "building", "saving", "half_saved", "ready", "failed"}
LookupType == [pc : LookupPCs, dim : Dims, next : Nat, built : BOOLEAN,
               vectors : WholeItems, properties : WholeItems]

BuiltAll(l) == /\ l.pc \in {"saving", "half_saved", "ready", "failed"}
               /\ \A b \in Batches : l.vectors[b] > 0 /\ l.properties[b] > 0

\* The files and every index in memory hold all of the default examples equally often.
ExamplesInv ==
  /\ lookup \in [Queries -> LookupType]
  /\ examples \in [index : [dim : Dims, items : WholeItems] \union {NoIndex},
                   properties : WholeItems \union {NoIndex}]
  /\ \A q \in Queries : lookup[q].built => BuiltAll(lookup[q])

\* Adding all default batches, or examples of a user, to a whole index.
LEMMA WholeStays ==
  /\ NoExamples \in WholeItems
  /\ \A i \in WholeItems : /\ AddBatches(i, Batches) \in WholeItems
                           /\ AddBatches(i, {UserBatch}) \in WholeItems
                           /\ \A b \in Batches : AddBatches(i, Batches)[b] > 0
<1>1. Batches \subseteq 0 .. DefaultBatches /\ 0 \notin Batches
  BY VectorIndexAssumption DEF Batches
<1>2. NoExamples \in WholeItems
  BY <1>1 DEF NoExamples, WholeItems, ExampleItems, Whole
<1>3. ASSUME NEW i \in WholeItems
      PROVE  /\ AddBatches(i, Batches) \in WholeItems /\ AddBatches(i, {UserBatch}) \in WholeItems
             /\ \A b \in Batches : AddBatches(i, Batches)[b] > 0
  <2>1. \A b \in 0 .. DefaultBatches : i[b] \in Nat
    BY DEF WholeItems, ExampleItems
  <2>2. \A b, c \in Batches : i[b] = i[c]
    BY DEF WholeItems, Whole
  <2>3. /\ \A b \in Batches : AddBatches(i, Batches)[b] = i[b] + 1
        /\ \A b \in Batches : AddBatches(i, {UserBatch})[b] = i[b]
    <3>1. \A b \in Batches : b # UserBatch
      BY <1>1 DEF UserBatch
    <3>. QED  BY <1>1, <2>1, <3>1 DEF AddBatches
  <2>4. AddBatches(i, Batches) \in ExampleItems /\ AddBatches(i, {UserBatch}) \in ExampleItems
    BY <2>1 DEF AddBatches, ExampleItems
  <2>. QED  BY <1>1, <2>1, <2>2, <2>3, <2>4 DEF WholeItems, Whole
<1>. QED  BY <1>2, <1>3

\* A step of one lookup.
LEMMA LookupStep ==
  ASSUME ExamplesInv, NEW q \in Queries, NEW l \in LookupType, lookup' = [lookup EXCEPT ![q] = l],
         l.built => BuiltAll(l)
  PROVE  /\ lookup' \in [Queries -> LookupType]
         /\ \A x \in Queries : lookup'[x].built => BuiltAll(lookup'[x])
<1>1. lookup \in [Queries -> LookupType]
  BY DEF ExamplesInv
<1>2. lookup'[q] = l /\ \A x \in Queries \ {q} : lookup'[x] = lookup[x]
  BY <1>1
<1>. QED  BY <1>1, <1>2 DEF ExamplesInv

\* Opening the files gives a whole index.
LEMMA OpenedIsWhole ==
  ASSUME ExamplesInv, NEW d \in Dims
  PROVE  opened_examples(d).vectors \in WholeItems /\ opened_examples(d).properties \in WholeItems
<1>1. faiss_from_name(examples, d) =>
        examples.index \in [dim : Dims, items : WholeItems] /\ examples.properties \in WholeItems
  BY DEF ExamplesInv, faiss_from_name, Exist
<1>. QED  BY <1>1, WholeStays DEF opened_examples

\* The files hold all of the default examples or none, and so does the index a query
\* works with, whatever queries, users, cleanings, dimensions and saves cut short
\* interleave; a query that built the index works with all of them
\* (GremlinExampleIndexQuery).
THEOREM ExamplesAreComplete == VectorIndexSpec => []PublishedExamplesComplete
<1>1. VectorIndexInit => ExamplesInv
  BY WholeStays, SomeDim DEF VectorIndexInit, ExamplesInv, LookupType, LookupPCs, NoFiles
<1>2. ExamplesInv /\ [VectorIndexNext]_vectorVars => ExamplesInv'
  <2>. SUFFICES ASSUME ExamplesInv, [VectorIndexNext]_vectorVars PROVE ExamplesInv'
    OBVIOUS
  <2>1. CASE /\ UNCHANGED lookup
             /\ examples' \in {examples, [examples EXCEPT !.index = NoIndex], [examples EXCEPT !.properties = NoIndex]}
    BY <2>1 DEF ExamplesInv
  <2>2. CASE \/ \E u \in Updates :
                  \/ fetch_graph_data(u) \/ BuildSemanticIndex_init(u) \/ get_all_properties(u)
                  \/ remove_vids(u) \/ add_vids(u) \/ save_index_by_name(u) \/ update_fails(u)
             \/ CleanNext \/ UNCHANGED vectorVars
    BY <2>1, <2>2 DEF fetch_graph_data, BuildSemanticIndex_init, get_all_properties, remove_vids, add_vids,
                      save_index_by_name, update_fails, CleanNext, clean_all_graph_index, clean, clean_fails,
                      vectorVars, exampleVars
  <2>3. ASSUME NEW q \in Queries,
               \/ example_exist(q) \/ example_from_name(q) \/ build_default_example_index(q)
               \/ build_user_examples(q) \/ save_examples(q) \/ lookup_fails(q)
        PROVE  ExamplesInv'
    <3>0. /\ lookup[q] \in LookupType /\ lookup \in [Queries -> LookupType]
          /\ lookup[q].built => BuiltAll(lookup[q])
      BY DEF ExamplesInv
    <3>1. CASE example_exist(q)
      <4>. PICK d \in Dims : lookup' = [lookup EXCEPT ![q].pc = IF Exist(examples) THEN "found" ELSE "missing", ![q].dim = d]
        BY <3>1 DEF example_exist
      <4>. DEFINE l == [lookup[q] EXCEPT !.pc = IF Exist(examples) THEN "found" ELSE "missing", !.dim = d]
      <4>1. l \in LookupType /\ l.built = lookup[q].built /\ l.vectors = lookup[q].vectors /\ l.properties = lookup[q].properties
        BY <3>0 DEF LookupType, LookupPCs
      <4>2. lookup' = [lookup EXCEPT ![q] = l] /\ UNCHANGED examples
        BY <3>0, <3>1 DEF example_exist
      <4>3. ~lookup[q].built
        BY <3>0, <3>1 DEF example_exist, BuiltAll
      <4>. HIDE DEF l
      <4>. QED  BY <4>1, <4>2, <4>3, LookupStep DEF ExamplesInv
    <3>2. CASE example_from_name(q)
      <4>. DEFINE o == opened_examples(lookup[q].dim)
                  l == [lookup[q] EXCEPT !.pc = IF lookup[q].pc = "found" THEN "ready" ELSE "building",
                                         !.vectors = o.vectors, !.properties = o.properties]
      <4>0. o.vectors \in WholeItems /\ o.properties \in WholeItems
        BY <3>0, OpenedIsWhole DEF LookupType
      <4>. HIDE DEF o
      <4>1. l \in LookupType /\ l.built = lookup[q].built
        BY <3>0, <4>0 DEF LookupType, LookupPCs
      <4>2. lookup' = [lookup EXCEPT ![q] = l] /\ UNCHANGED examples
        BY <3>2 DEF example_from_name, o
      <4>3. ~lookup[q].built
        BY <3>0, <3>2 DEF example_from_name, BuiltAll
      <4>. HIDE DEF l
      <4>. QED  BY <3>0, <4>1, <4>2, <4>3, LookupStep DEF ExamplesInv
    <3>3. CASE build_default_example_index(q)
      <4>1. CASE lookup' = [lookup EXCEPT ![q].next = @ + 1]
        <5>. DEFINE l == [lookup[q] EXCEPT !.next = lookup[q].next + 1]
        <5>1. l \in LookupType /\ l.built = lookup[q].built /\ l.vectors = lookup[q].vectors /\ l.properties = lookup[q].properties
          BY <3>0 DEF LookupType
        <5>2. lookup' = [lookup EXCEPT ![q] = l] /\ UNCHANGED examples
          BY <3>3, <4>1 DEF build_default_example_index
        <5>3. ~lookup[q].built
          BY <3>0, <3>3 DEF build_default_example_index, BuiltAll
        <5>. HIDE DEF l
        <5>. QED  BY <5>1, <5>2, <5>3, LookupStep DEF ExamplesInv
      <4>2. CASE lookup' = [lookup EXCEPT ![q] = [lookup[q] EXCEPT
                   !.pc = "saving", !.built = TRUE,
                   !.vectors = AddBatches(lookup[q].vectors, Batches),
                   !.properties = AddBatches(lookup[q].properties, Batches)]]
        <5>. DEFINE v == AddBatches(lookup[q].vectors, Batches)
                    p == AddBatches(lookup[q].properties, Batches)
                    l == [lookup[q] EXCEPT !.pc = "saving", !.built = TRUE, !.vectors = v, !.properties = p]
        <5>0. v \in WholeItems /\ p \in WholeItems /\ \A b \in Batches : v[b] > 0 /\ p[b] > 0
          BY <3>0, WholeStays DEF LookupType
        <5>2. lookup' = [lookup EXCEPT ![q] = l] /\ UNCHANGED examples
          BY <3>3, <4>2 DEF build_default_example_index
        <5>. HIDE DEF v, p
        <5>1. l \in LookupType /\ l.vectors = v /\ l.properties = p /\ l.pc = "saving"
          BY <3>0, <5>0 DEF LookupType, LookupPCs
        <5>. HIDE DEF l
        <5>3. BuiltAll(l)
          BY <5>0, <5>1 DEF BuiltAll
        <5>. QED  BY <5>1, <5>2, <5>3, LookupStep DEF ExamplesInv
      <4>. QED  BY <3>3, <4>1, <4>2 DEF build_default_example_index
    <3>4. CASE build_user_examples(q)
      <4>. PICK d \in Dims :
             LET opened == opened_examples(d)
             IN  lookup' = [lookup EXCEPT ![q] = [lookup[q] EXCEPT
                   !.pc = "saving", !.dim = d,
                   !.vectors = AddBatches(opened.vectors, {UserBatch}),
                   !.properties = AddBatches(opened.properties, {UserBatch})]]
        BY <3>4 DEF build_user_examples
      <4>. DEFINE v == AddBatches(opened_examples(d).vectors, {UserBatch})
                  p == AddBatches(opened_examples(d).properties, {UserBatch})
                  l == [lookup[q] EXCEPT !.pc = "saving", !.dim = d, !.vectors = v, !.properties = p]
      <4>0. v \in WholeItems /\ p \in WholeItems
        BY WholeStays, OpenedIsWhole
      <4>2. lookup' = [lookup EXCEPT ![q] = l] /\ UNCHANGED examples
        BY <3>4 DEF build_user_examples
      <4>. HIDE DEF v, p
      <4>1. l \in LookupType /\ l.built = lookup[q].built
        BY <3>0, <4>0 DEF LookupType, LookupPCs
      <4>3. ~lookup[q].built
        BY <3>0, <3>4 DEF build_user_examples, BuiltAll
      <4>. HIDE DEF l
      <4>. QED  BY <4>1, <4>2, <4>3, LookupStep DEF ExamplesInv
    <3>5. CASE save_examples(q) \/ lookup_fails(q)
      <4>1. PICK p \in {"half_saved", "ready", "failed"} : lookup' = [lookup EXCEPT ![q] = [lookup[q] EXCEPT !.pc = p]]
        BY <3>5 DEF save_examples, lookup_fails
      <4>. DEFINE l == [lookup[q] EXCEPT !.pc = p]
      <4>2. /\ l \in LookupType /\ l.built = lookup[q].built /\ l.pc = p
            /\ l.vectors = lookup[q].vectors /\ l.properties = lookup[q].properties
        BY <3>0 DEF LookupType, LookupPCs
      <4>3. examples' \in {examples, [examples EXCEPT !.index = Index(lookup[q].dim, lookup[q].vectors)],
                           [examples EXCEPT !.properties = lookup[q].properties]}
        BY <3>5 DEF save_examples, lookup_fails
      <4>4. examples' \in [index : [dim : Dims, items : WholeItems] \union {NoIndex},
                           properties : WholeItems \union {NoIndex}]
        BY <3>0, <4>3 DEF ExamplesInv, Index, LookupType
      <4>. HIDE DEF l
      <4>5. lookup' = [lookup EXCEPT ![q] = l]
        BY <4>1 DEF l
      <4>6. l.built => BuiltAll(l)
        BY <3>0, <4>2 DEF BuiltAll
      <4>. QED  BY <4>2, <4>4, <4>5, <4>6, LookupStep DEF ExamplesInv
    <3>. QED  BY <2>3, <3>1, <3>2, <3>3, <3>4, <3>5
  <2>. QED  BY <2>2, <2>3 DEF VectorIndexNext, VidIndexNext, ExampleIndexNext
<1>3. ExamplesInv => PublishedExamplesComplete
  <2>. SUFFICES ASSUME ExamplesInv PROVE PublishedExamplesComplete
    OBVIOUS
  <2>1. examples.index # NoIndex => Whole(examples.index.items)
    BY DEF ExamplesInv, WholeItems
  <2>2. examples.properties # NoIndex => Whole(examples.properties)
    BY DEF ExamplesInv, WholeItems
  <2>3. \A q \in Queries : Whole(lookup[q].vectors) /\ Whole(lookup[q].properties)
    BY DEF ExamplesInv, LookupType, WholeItems
  <2>. QED  BY <2>1, <2>2, <2>3 DEF PublishedExamplesComplete, ExamplesInv, BuiltAll
<1>. QED  BY <1>1, <1>2, <1>3, PTL DEF VectorIndexSpec

----------------------------------------------------------------------------
(* LlmConfig: the inductive invariant                                      *)

ConfigPCs == {"new", "typed", "setting", "set", "tested", "failed", "done"}
RequestType == [kind : ConfigKinds, provider : Providers, pc : ConfigPCs, outer : Settings,
                inner : Settings, todo : SUBSET Groups]

ConfigTyped ==
  /\ llm_settings \in Settings /\ seen \in Settings
  /\ runtime_config_lock \in Requests \cup {NoRequest}
  /\ config_request \in [Requests -> RequestType]
  /\ verified \subseteq Requests \cup {0} /\ 0 \in verified

\* Every field of s was written by a request of V.
Within(s, V) == \A g \in Groups : \A p \in Providers : s[g].field[p] \in V

\* Where request r is tells what the settings and its two snapshots hold: while it
\* is changing them its own unverified values may be among them, but what it goes
\* back to is verified.
UpdateOf(r) ==
  LET q == config_request[r]
  IN  /\ q.pc \in {"new", "done"} <=> runtime_config_lock # r
      /\ q.pc \notin {"new", "done"} => Within(q.outer, verified)
      /\ q.pc = "typed" => Within(llm_settings, verified)
      /\ q.pc \in {"setting", "set", "failed", "tested"} =>
           Within(q.inner, verified) /\ Within(llm_settings, verified \cup {r})
      /\ q.pc = "tested" => r \in verified

Transactional ==
  /\ \A r \in Requests : UpdateOf(r)
  /\ runtime_config_lock = NoRequest => Within(llm_settings, verified)
  /\ Within(seen, verified)

----------------------------------------------------------------------------
(* The settings                                                            *)

\* Selecting a provider for some groups changes no field.
LEMMA SelectKeepsFields ==
  ASSUME NEW s \in Settings, NEW t \in Settings,
         \A g \in Groups : t[g].field = s[g].field, NEW V, Within(s, V)
  PROVE  Within(t, V)
BY DEF Within

\* Writing the selected provider's fields of a group puts nothing but the request
\* into the settings.
LEMMA ApplyWrites ==
  ASSUME ConfigTyped, NEW r \in Requests, NEW g \in Groups, apply_config(r, g)
  PROVE  /\ llm_settings' \in Settings
         /\ \A h \in Groups : \A p \in Providers :
              llm_settings'[h].field[p] \in {llm_settings[h].field[p], r}
<1>. DEFINE x == llm_settings[g]
            f == [x.field EXCEPT ![x.type] = r]
            T == [type : Providers, field : [Providers -> Requests \cup {0}]]
<1>1. x \in T /\ llm_settings \in [Groups -> T]
  BY DEF ConfigTyped, Settings
<1>2. f \in [Providers -> Requests \cup {0}] /\ \A p \in Providers : f[p] \in {x.field[p], r}
  BY <1>1
<1>3. llm_settings' = [llm_settings EXCEPT ![g] = [x EXCEPT !.field = f]]
  BY <1>1 DEF apply_config
<1>4. [x EXCEPT !.field = f] \in T /\ [x EXCEPT !.field = f].field = f
  <2>. HIDE DEF f, x
  <2>. QED  BY <1>1, <1>2
<1>5. /\ llm_settings' \in Settings /\ llm_settings'[g].field = f
      /\ \A h \in Groups : h # g => llm_settings'[h] = llm_settings[h]
  <2>. HIDE DEF f, x
  <2>. QED  BY <1>1, <1>3, <1>4 DEF Settings
<1>. QED  BY <1>2, <1>5

\* What is verified stays so when more is.
LEMMA WithinMore ==
  ASSUME NEW s, NEW V, NEW W, V \subseteq W, Within(s, V)
  PROVE  Within(s, W)
BY DEF Within

\* A step of one request leaves the others where they are.
LEMMA StepOfOne ==
  ASSUME ConfigTyped, NEW r \in Requests, NEW to \in ConfigPCs, NEW change \in RequestType,
         config_request' = [config_request EXCEPT ![r] = [change EXCEPT !.pc = to]]
  PROVE  /\ config_request' \in [Requests -> RequestType]
         /\ config_request'[r].pc = to
         /\ config_request'[r].outer = change.outer /\ config_request'[r].inner = change.inner
         /\ \A q \in Requests : q # r => config_request'[q] = config_request[q]
<1>1. [change EXCEPT !.pc = to] \in RequestType
  BY DEF RequestType
<1>2. config_request'[r] = [change EXCEPT !.pc = to]
  BY DEF ConfigTyped
<1>. QED  BY <1>1, <1>2 DEF ConfigTyped, RequestType

----------------------------------------------------------------------------
(* Every step keeps the invariant                                          *)

\* Only the request that holds the lock has the settings in its hands, so what the
\* invariant says of the others does not depend on them.
LEMMA OthersIdle ==
  ASSUME ConfigTyped, Transactional, NEW r \in Requests, NEW q \in Requests, q # r,
         runtime_config_lock \in {r, NoRequest}, runtime_config_lock' \in {r, NoRequest},
         config_request'[q] = config_request[q]
  PROVE  UpdateOf(q)'
<1>1. config_request[q].pc \in {"new", "done"}
  BY ConfigAssumption DEF Transactional, UpdateOf
<1>2. runtime_config_lock' # q
  BY ConfigAssumption
<1>. QED  BY <1>1, <1>2 DEF UpdateOf

\* Every step of an update, of the demo's dropdown and of a reviewed extraction
\* keeps the types and the transaction.
LEMMA ConfigSteps ==
  ASSUME ConfigTyped, Transactional, ConfigNext
  PROVE  ConfigTyped' /\ Transactional'
<1>0. /\ NoRequest \notin Requests
      /\ llm_settings \in Settings /\ config_request \in [Requests -> RequestType]
  BY ConfigAssumption DEF ConfigTyped
<1>1. ASSUME NEW r \in Requests, llm_config_api(r) PROVE ConfigTyped' /\ Transactional'
  <2>. DEFINE q == config_request[r]
              x == [q EXCEPT !.outer = llm_settings]
  <2>0. /\ q \in RequestType /\ runtime_config_lock = NoRequest /\ runtime_config_lock' = r
        /\ Within(llm_settings, verified) /\ UNCHANGED <<verified, seen>>
    BY <1>0, <1>1 DEF llm_config_api, Transactional
  <2>1. x \in RequestType /\ x.outer = llm_settings
    BY <1>0, <2>0 DEF RequestType
  <2>2. /\ config_request' \in [Requests -> RequestType]
        /\ config_request'[r].pc = "typed" /\ config_request'[r].outer = llm_settings
        /\ \A d \in Requests : d # r => config_request'[d] = config_request[d]
    <3>1. config_request' = [config_request EXCEPT ![r] = [x EXCEPT !.pc = "typed"]]
      BY <1>1 DEF llm_config_api, ConfigStep
    <3>. HIDE DEF x
    <3>. QED  BY <2>1, <3>1, StepOfOne DEF ConfigPCs
  <2>3. llm_settings' \in Settings /\ \A g \in Groups : llm_settings'[g].field = llm_settings[g].field
    <3>1. q.provider \in Providers
      BY <2>0 DEF RequestType
    <3>2. \A g \in Groups : /\ llm_settings[g] \in [type : Providers, field : [Providers -> Requests \cup {0}]]
                            /\ [llm_settings[g] EXCEPT !.type = q.provider]
                                 \in [type : Providers, field : [Providers -> Requests \cup {0}]]
                            /\ [llm_settings[g] EXCEPT !.type = q.provider].field = llm_settings[g].field
      BY <1>0, <3>1 DEF Settings
    <3>. QED  BY <1>0, <1>1, <3>2 DEF llm_config_api, Settings
  <2>4. Within(llm_settings', verified)
    BY <1>0, <2>0, <2>3, SelectKeepsFields
  <2>5. UpdateOf(r)'
    BY <2>0, <2>2, <2>4 DEF UpdateOf
  <2>6. \A d \in Requests : d # r => UpdateOf(d)'
    BY <2>0, <2>2, OthersIdle
  <2>. QED  BY <1>0, <2>0, <2>2, <2>3, <2>5, <2>6 DEF ConfigTyped, Transactional
<1>2. ASSUME NEW r \in Requests, transactional_config_update(r) PROVE ConfigTyped' /\ Transactional'
  <2>. DEFINE q == config_request[r]
              x == [q EXCEPT !.inner = llm_settings, !.todo = groups_of(q.kind)]
  <2>0. /\ q \in RequestType /\ q.pc = "typed" /\ runtime_config_lock = r
        /\ Within(llm_settings, verified) /\ Within(q.outer, verified)
        /\ UNCHANGED <<llm_settings, runtime_config_lock, verified, seen>>
    BY <1>0, <1>2 DEF transactional_config_update, ConfigStep, Holds, Transactional, UpdateOf
  <2>1. x \in RequestType /\ x.inner = llm_settings /\ x.outer = q.outer
    <3>1. groups_of(q.kind) \subseteq Groups
      BY <2>0 DEF RequestType, ConfigKinds, groups_of, Groups, Roles
    <3>. QED  BY <1>0, <2>0, <3>1 DEF RequestType
  <2>2. /\ config_request' \in [Requests -> RequestType]
        /\ config_request'[r].pc = "setting"
        /\ config_request'[r].outer = q.outer /\ config_request'[r].inner = llm_settings
        /\ \A d \in Requests : d # r => config_request'[d] = config_request[d]
    <3>1. config_request' = [config_request EXCEPT ![r] = [x EXCEPT !.pc = "setting"]]
      BY <1>2 DEF transactional_config_update, ConfigStep
    <3>. HIDE DEF x
    <3>. QED  BY <2>1, <3>1, StepOfOne DEF ConfigPCs
  <2>3. UpdateOf(r)'
    <3>1. Within(llm_settings, verified \cup {r})
      BY <2>0, WithinMore
    <3>. QED  BY <2>0, <2>2, <3>1 DEF UpdateOf
  <2>4. \A d \in Requests : d # r => UpdateOf(d)'
    BY <2>0, <2>2, OthersIdle
  <2>. QED  BY <1>0, <2>0, <2>2, <2>3, <2>4 DEF ConfigTyped, Transactional
<1>3. ASSUME NEW r \in Requests, NEW g \in Groups, apply_config(r, g)
      PROVE  ConfigTyped' /\ Transactional'
  <2>. DEFINE q == config_request[r]
              x == [q EXCEPT !.todo = q.todo \ {g}]
  <2>0. /\ q \in RequestType /\ q.pc = "setting" /\ runtime_config_lock = r
        /\ Within(llm_settings, verified \cup {r}) /\ Within(q.outer, verified)
        /\ Within(q.inner, verified)
        /\ UNCHANGED <<runtime_config_lock, verified, seen>>
    BY <1>0, <1>3 DEF apply_config, ConfigStep, Holds, Transactional, UpdateOf
  <2>1. x \in RequestType /\ x.inner = q.inner /\ x.outer = q.outer
    BY <2>0 DEF RequestType
  <2>2. /\ config_request' \in [Requests -> RequestType]
        /\ config_request'[r].pc \in {"set", "setting"}
        /\ config_request'[r].outer = q.outer /\ config_request'[r].inner = q.inner
        /\ \A d \in Requests : d # r => config_request'[d] = config_request[d]
    <3>1. PICK to \in {"set", "setting"} :
            config_request' = [config_request EXCEPT ![r] = [x EXCEPT !.pc = to]]
      BY <1>3 DEF apply_config, ConfigStep
    <3>. HIDE DEF x
    <3>. QED  BY <2>1, <3>1, StepOfOne DEF ConfigPCs
  <2>3. llm_settings' \in Settings /\ Within(llm_settings', verified \cup {r})
    BY <1>3, <2>0, ApplyWrites DEF Within
  <2>4. UpdateOf(r)'
    BY <2>0, <2>2, <2>3 DEF UpdateOf
  <2>5. \A d \in Requests : d # r => UpdateOf(d)'
    BY <2>0, <2>2, OthersIdle
  <2>. QED  BY <1>0, <2>0, <2>2, <2>3, <2>4, <2>5 DEF ConfigTyped, Transactional
<1>4. ASSUME NEW r \in Requests, test_api_connection(r) PROVE ConfigTyped' /\ Transactional'
  <2>. DEFINE q == config_request[r]
              x == [q EXCEPT !.todo = groups_of(q.kind)]
  <2>0. /\ q \in RequestType /\ q.pc = "set" /\ runtime_config_lock = r
        /\ Within(llm_settings, verified \cup {r}) /\ Within(q.outer, verified)
        /\ Within(q.inner, verified)
        /\ UNCHANGED <<llm_settings, runtime_config_lock, seen>>
    BY <1>0, <1>4 DEF test_api_connection, ConfigStep, Holds, Transactional, UpdateOf
  <2>1. x \in RequestType /\ x.inner = q.inner /\ x.outer = q.outer
    <3>1. groups_of(q.kind) \subseteq Groups
      BY <2>0 DEF RequestType, ConfigKinds, groups_of, Groups, Roles
    <3>. QED  BY <2>0, <3>1 DEF RequestType
  <2>2. /\ config_request' \in [Requests -> RequestType]
        /\ \/ config_request'[r].pc = "tested" /\ verified' = verified \cup {r}
           \/ config_request'[r].pc = "failed" /\ verified' = verified
        /\ config_request'[r].outer = q.outer /\ config_request'[r].inner = q.inner
        /\ \A d \in Requests : d # r => config_request'[d] = config_request[d]
    <3>. DEFINE tested == [x EXCEPT !.pc = "tested"]
                failed == [q EXCEPT !.pc = "failed"]
    <3>1. \/ config_request' = [config_request EXCEPT ![r] = tested] /\ verified' = verified \cup {r}
          \/ config_request' = [config_request EXCEPT ![r] = failed] /\ verified' = verified
      BY <1>4 DEF test_api_connection, ConfigStep
    <3>. HIDE DEF x, q
    <3>2. CASE config_request' = [config_request EXCEPT ![r] = tested] /\ verified' = verified \cup {r}
      BY <2>1, <3>2, StepOfOne DEF ConfigPCs
    <3>3. CASE config_request' = [config_request EXCEPT ![r] = failed] /\ verified' = verified
      BY <2>0, <3>3, StepOfOne DEF ConfigPCs
    <3>. QED  BY <3>1, <3>2, <3>3
  <2>3. /\ Within(llm_settings, verified' \cup {r}) /\ Within(q.outer, verified')
        /\ Within(q.inner, verified') /\ Within(seen, verified')
    <3>1. verified \subseteq verified' /\ verified \cup {r} \subseteq verified' \cup {r}
      BY <2>2
    <3>2. Within(seen, verified)
      BY DEF Transactional
    <3>. QED  BY <2>0, <3>1, <3>2, WithinMore
  <2>4. UpdateOf(r)'
    BY <2>0, <2>2, <2>3 DEF UpdateOf
  <2>5. \A d \in Requests : d # r => UpdateOf(d)'
    BY <2>0, <2>2, OthersIdle
  <2>. QED  BY <1>0, <2>0, <2>2, <2>3, <2>4, <2>5 DEF ConfigTyped, Transactional
<1>5. ASSUME NEW r \in Requests, NEW g \in Groups, update_env(r, g)
      PROVE  ConfigTyped' /\ Transactional'
  <2>. DEFINE q == config_request[r]
              x == [q EXCEPT !.todo = q.todo \ {g}]
  <2>0. /\ q \in RequestType /\ q.pc = "tested" /\ runtime_config_lock = r /\ r \in verified
        /\ Within(llm_settings, verified \cup {r}) /\ Within(q.outer, verified)
        /\ Within(q.inner, verified)
        /\ UNCHANGED <<llm_settings, runtime_config_lock, verified, seen>>
    BY <1>0, <1>5 DEF update_env, ConfigStep, Holds, Transactional, UpdateOf
  <2>1. x \in RequestType /\ x.inner = q.inner /\ x.outer = q.outer
    BY <2>0 DEF RequestType
  <2>2. /\ config_request' \in [Requests -> RequestType]
        /\ config_request'[r].pc \in {"tested", "failed"}
        /\ config_request'[r].outer = q.outer /\ config_request'[r].inner = q.inner
        /\ \A d \in Requests : d # r => config_request'[d] = config_request[d]
    <3>1. \/ config_request' = [config_request EXCEPT ![r] = [x EXCEPT !.pc = "tested"]]
          \/ config_request' = [config_request EXCEPT ![r] = [q EXCEPT !.pc = "failed"]]
      BY <1>5 DEF update_env, ConfigStep
    <3>. HIDE DEF x, q
    <3>2. CASE config_request' = [config_request EXCEPT ![r] = [x EXCEPT !.pc = "tested"]]
      BY <2>1, <3>2, StepOfOne DEF ConfigPCs
    <3>3. CASE config_request' = [config_request EXCEPT ![r] = [q EXCEPT !.pc = "failed"]]
      BY <2>0, <3>3, StepOfOne DEF ConfigPCs
    <3>. QED  BY <3>1, <3>2, <3>3
  <2>3. UpdateOf(r)'
    BY <2>0, <2>2 DEF UpdateOf
  <2>4. \A d \in Requests : d # r => UpdateOf(d)'
    BY <2>0, <2>2, OthersIdle
  <2>. QED  BY <1>0, <2>0, <2>2, <2>3, <2>4 DEF ConfigTyped, Transactional
<1>6. at_start \in Settings
  BY DEF at_start, Settings, Groups, Roles, Providers
<1>7. ASSUME NEW r \in Requests PROVE forgotten(r) \in RequestType
  BY <1>0, <1>6 DEF forgotten, RequestType
<1>8. ASSUME NEW r \in Requests, restore_config(r) PROVE ConfigTyped' /\ Transactional'
  <2>. DEFINE q == config_request[r]
  <2>0. /\ q \in RequestType /\ q.pc = "failed" /\ runtime_config_lock = r
        /\ runtime_config_lock' = NoRequest /\ UNCHANGED <<verified, seen>>
        /\ Within(q.outer, verified) /\ Within(q.inner, verified)
    BY <1>0, <1>8 DEF restore_config, ConfigStep, Holds, Transactional, UpdateOf
  <2>1. /\ config_request' \in [Requests -> RequestType] /\ config_request'[r].pc = "done"
        /\ \A d \in Requests : d # r => config_request'[d] = config_request[d]
    BY <1>7, <1>8, StepOfOne DEF restore_config, ConfigStep, ConfigPCs
  <2>2. llm_settings' \in Settings
        /\ \A g \in Groups : llm_settings'[g] \in {q.outer[g], q.inner[g]}
    <3>1. q.outer \in Settings /\ q.inner \in Settings
      BY <2>0 DEF RequestType
    <3>2. llm_settings' = [g \in Groups |->
             IF q.kind = "http_llm" /\ g \in groups_of(q.kind) THEN q.outer[g] ELSE q.inner[g]]
      BY <1>8 DEF restore_config
    <3>. QED  BY <3>1, <3>2 DEF Settings
  <2>3. Within(llm_settings', verified)
    BY <2>0, <2>2 DEF Within
  <2>4. UpdateOf(r)'
    BY <1>0, <2>0, <2>1 DEF UpdateOf
  <2>5. \A d \in Requests : d # r => UpdateOf(d)'
    BY <2>0, <2>1, OthersIdle
  <2>. QED  BY <1>0, <2>0, <2>1, <2>2, <2>3, <2>4, <2>5 DEF ConfigTyped, Transactional
<1>9. ASSUME NEW r \in Requests, config_done(r) PROVE ConfigTyped' /\ Transactional'
  <2>0. /\ config_request[r].pc = "tested" /\ runtime_config_lock = r /\ r \in verified
        /\ runtime_config_lock' = NoRequest /\ UNCHANGED <<llm_settings, verified, seen>>
        /\ Within(llm_settings, verified \cup {r})
    BY <1>9 DEF config_done, ConfigStep, Holds, Transactional, UpdateOf
  <2>1. /\ config_request' \in [Requests -> RequestType] /\ config_request'[r].pc = "done"
        /\ \A d \in Requests : d # r => config_request'[d] = config_request[d]
    BY <1>7, <1>9, StepOfOne DEF config_done, ConfigStep, ConfigPCs
  <2>2. Within(llm_settings, verified)
    BY <2>0 DEF Within
  <2>3. UpdateOf(r)'
    BY <1>0, <2>0, <2>1 DEF UpdateOf
  <2>4. \A d \in Requests : d # r => UpdateOf(d)'
    BY <2>0, <2>1, OthersIdle
  <2>. QED  BY <1>0, <2>0, <2>1, <2>2, <2>3, <2>4 DEF ConfigTyped, Transactional
<1>10. ASSUME NEW g \in Roles, NEW p \in Providers, chat_llm_settings(g, p)
       PROVE  ConfigTyped' /\ Transactional'
  <2>0. /\ runtime_config_lock = NoRequest /\ Within(llm_settings, verified)
        /\ UNCHANGED <<runtime_config_lock, config_request, verified, seen>>
        /\ llm_settings' = [llm_settings EXCEPT ![g].type = p] /\ g \in Groups
    BY <1>10 DEF chat_llm_settings, Transactional, Groups
  <2>1. llm_settings' \in Settings /\ \A h \in Groups : llm_settings'[h].field = llm_settings[h].field
    <3>1. llm_settings[g] \in [type : Providers, field : [Providers -> Requests \cup {0}]]
      BY <1>0, <2>0 DEF Settings
    <3>2. /\ [llm_settings[g] EXCEPT !.type = p] \in [type : Providers, field : [Providers -> Requests \cup {0}]]
          /\ [llm_settings[g] EXCEPT !.type = p].field = llm_settings[g].field
      BY <3>1
    <3>3. llm_settings' = [llm_settings EXCEPT ![g] = [llm_settings[g] EXCEPT !.type = p]]
      BY <2>0
    <3>. QED  BY <1>0, <2>0, <3>2, <3>3 DEF Settings
  <2>2. Within(llm_settings', verified)
    BY <1>0, <2>0, <2>1, SelectKeepsFields
  <2>3. \A r \in Requests : config_request[r].pc \in {"new", "done"}
    BY <1>0, <2>0 DEF Transactional, UpdateOf
  <2>4. \A r \in Requests : UpdateOf(r)'
    BY <1>0, <2>0, <2>3 DEF UpdateOf
  <2>. QED  BY <1>0, <2>0, <2>1, <2>2, <2>4 DEF ConfigTyped, Transactional
<1>11. ASSUME snapshot_llm_settings PROVE ConfigTyped' /\ Transactional'
  <2>0. /\ runtime_config_lock = NoRequest /\ Within(llm_settings, verified) /\ seen' = llm_settings
        /\ UNCHANGED <<llm_settings, runtime_config_lock, config_request, verified>>
    BY <1>11 DEF snapshot_llm_settings, Transactional
  <2>1. \A r \in Requests : UpdateOf(r)'
    BY <2>0 DEF Transactional, UpdateOf, Within
  <2>. QED  BY <1>0, <2>0, <2>1 DEF ConfigTyped, Transactional
<1>. QED  BY <1>1, <1>2, <1>3, <1>4, <1>5, <1>8, <1>9, <1>10, <1>11 DEF ConfigNext

----------------------------------------------------------------------------
(* Results                                                                 *)

\* Types and transaction together are invariant.
LEMMA ConfigInvariant == ConfigSpec => [](ConfigTyped /\ Transactional)
<1>1. ConfigInit => ConfigTyped /\ Transactional
  <2>. SUFFICES ASSUME ConfigInit PROVE ConfigTyped /\ Transactional
    OBVIOUS
  <2>1. at_start \in Settings /\ Within(at_start, {0})
    BY DEF at_start, Settings, Groups, Roles, Providers, Within
  <2>2. config_request \in [Requests -> RequestType] /\ \A r \in Requests : config_request[r].pc = "new"
    <3>1. \A k \in ConfigKinds, p \in Providers :
            [kind |-> k, provider |-> p, pc |-> "new", outer |-> at_start, inner |-> at_start, todo |-> {}]
              \in RequestType
      BY <2>1 DEF RequestType, ConfigPCs
    <3>. QED  BY <3>1 DEF ConfigInit
  <2>3. ConfigTyped
    BY <2>1, <2>2 DEF ConfigInit, ConfigTyped
  <2>4. \A r \in Requests : UpdateOf(r)
    BY <2>2, ConfigAssumption DEF ConfigInit, UpdateOf
  <2>. QED  BY <2>1, <2>3, <2>4 DEF ConfigInit, Transactional
<1>2. ConfigTyped /\ Transactional /\ [ConfigNext]_configVars => (ConfigTyped /\ Transactional)'
  <2>. SUFFICES ASSUME ConfigTyped, Transactional, UNCHANGED configVars
                PROVE  (ConfigTyped /\ Transactional)'
    BY ConfigSteps
  <2>. QED  BY DEF configVars, ConfigTyped, Transactional, UpdateOf, Within
<1>. QED  BY <1>1, <1>2, PTL DEF ConfigSpec

\* The settings, the lock and the requests keep their types.
THEOREM ConfigTypeCorrect == ConfigSpec => []ConfigTypeOK
<1>1. ConfigTyped => ConfigTypeOK
  BY DEF ConfigTyped, ConfigTypeOK, RequestType, ConfigPCs
<1>. QED  BY <1>1, ConfigInvariant, PTL

\* A reviewed extraction never works with settings of an update that is under way,
\* was rolled back or was not tested, however updates, the demo's dropdown, failing
\* tests and failing writes of .env interleave: between two transactions every field
\* is one that a successful test has covered.
THEOREM SnapshotsAreVerified == ConfigSpec => []SnapshotVerified
<1>1. Transactional => SnapshotVerified
  BY DEF Transactional, Within, SnapshotVerified
<1>. QED  BY <1>1, ConfigInvariant, PTL
=============================================================================

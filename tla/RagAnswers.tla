----------------------------- MODULE RagAnswers -----------------------------
(***************************************************************************)
(* One RAG question after retrieval: the demo and the REST API choose a     *)
(* flow from the kinds of answer asked for, and AnswerSynthesize asks the   *)
(* model for all of them at once.  Without streaming it awaits one task per *)
(* kind; with streaming one event loop multiplexes one token generator per  *)
(* kind and yields the same growing dictionary after every batch of tokens. *)
(*                                                                          *)
(* An answer is abstracted to its number of tokens.                         *)
(***************************************************************************)
EXTENDS Naturals, FiniteSets

CONSTANT MaxTokens   \* bound: tokens of one answer

ASSUME RagAnswersAssumption == MaxTokens \in Nat \ {0}

Kinds == {"raw", "vector_only", "graph_only", "graph_vector"}

\* rag_answer and rag_answer_streaming choose a flow by the first match.
select_flow(asked) ==
  CASE "graph_vector" \in asked \/ {"graph_only", "vector_only"} \subseteq asked -> "rag_graph_vector"
    [] "graph_vector" \notin asked /\ "graph_only" \notin asked /\ "vector_only" \in asked -> "rag_vector_only"
    [] "graph_vector" \notin asked /\ "vector_only" \notin asked /\ "graph_only" \in asked -> "rag_graph_only"
    [] OTHER -> "rag_raw"

\* The retrieval nodes of each RAG flow's build_flow.
Retrieves(f) == CASE f = "rag_graph_vector" -> {"vector", "graph"}
                  [] f = "rag_vector_only"  -> {"vector"}
                  [] f = "rag_graph_only"   -> {"graph"}
                  [] OTHER                  -> {}

\* The contexts that the prompt of an answer is formatted with.
Context(kind) == CASE kind = "raw"          -> {}
                   [] kind = "vector_only"  -> {"vector"}
                   [] kind = "graph_only"   -> {"graph"}
                   [] kind = "graph_vector" -> {"vector", "graph"}

VARIABLES
  asked,      \* the kinds of answer asked for
  streaming,  \* rag_answer_streaming, not rag_answer
  rag_flow,   \* the flow chosen, or "none"
  stage,      \* the request: "new", "waiting", "ended", "failed"
  task,       \* per kind: the task that awaits the model's next token, or the answer
  generated,  \* per kind: tokens that the model has produced
  stored,     \* per kind: tokens that the dictionary holds
  shown       \* per kind: tokens that the caller has seen

answerVars == <<asked, streaming, rag_flow, stage, task, generated, stored, shown>>

TaskStates == {"none", "pending", "token", "stopped", "raised"}

RagAnswersTypeOK ==
  /\ asked \subseteq Kinds /\ streaming \in BOOLEAN
  /\ rag_flow \in {"none", "rag_raw", "rag_vector_only", "rag_graph_only", "rag_graph_vector"}
  /\ stage \in {"new", "waiting", "ended", "failed"}
  /\ task \in [Kinds -> TaskStates]
  /\ generated \in [Kinds -> 0 .. MaxTokens]
  /\ stored \in [Kinds -> 0 .. MaxTokens]
  /\ shown \in [Kinds -> 0 .. MaxTokens]

RagAnswersInit ==
  /\ asked \in SUBSET Kinds
  /\ streaming \in BOOLEAN
  /\ rag_flow = "none"
  /\ stage = "new"
  /\ task = [k \in Kinds |-> "none"]
  /\ generated = [k \in Kinds |-> 0]
  /\ stored = [k \in Kinds |-> 0]
  /\ shown = [k \in Kinds |-> 0]

\* No kind asked for: empty answers.  Otherwise the flow runs and one task is
\* created per kind (async_generate, async_streaming_generate).
rag_answer ==
  /\ stage = "new"
  /\ IF asked = {}
     THEN stage' = "ended" /\ UNCHANGED <<rag_flow, task>>
     ELSE /\ rag_flow' = select_flow(asked)
          /\ stage' = "waiting"
          /\ task' = [k \in Kinds |-> IF k \in asked THEN "pending" ELSE "none"]
  /\ UNCHANGED <<asked, streaming, generated, stored, shown>>

\* OpenAIClient.agenerate: the whole answer as one token; the text of a refused request
\* is an answer too.  Other errors are raised, after the retries.
agenerate(k) ==
  /\ stage = "waiting" /\ ~streaming
  /\ task[k] = "pending"
  /\ \/ /\ generated' = [generated EXCEPT ![k] = 1]
        /\ task' = [task EXCEPT ![k] = "token"]
     \/ /\ task' = [task EXCEPT ![k] = "raised"]
        /\ UNCHANGED generated
  /\ UNCHANGED <<asked, streaming, rag_flow, stage, stored, shown>>

\* OpenAIClient.agenerate_streaming: the next token, the end of the answer, or an error,
\* which may come after some tokens.
agenerate_streaming(k) ==
  /\ stage = "waiting" /\ streaming
  /\ task[k] = "pending"
  /\ \/ /\ generated[k] < MaxTokens
        /\ generated' = [generated EXCEPT ![k] = @ + 1]
        /\ task' = [task EXCEPT ![k] = "token"]
     \/ \E end \in {"stopped", "raised"} :
          task' = [task EXCEPT ![k] = end] /\ UNCHANGED generated
  /\ UNCHANGED <<asked, streaming, rag_flow, stage, stored, shown>>

\* async_generate awaits the tasks in order and raises what a task raised; the
\* answers are returned together.
async_generate ==
  /\ stage = "waiting" /\ ~streaming
  /\ \/ /\ \A k \in asked : task[k] = "token"
        /\ stored' = [k \in Kinds |-> generated[k]]
        /\ shown' = stored'
        /\ stage' = "ended"
     \/ /\ \E k \in asked : task[k] = "raised"
        /\ stage' = "failed"
        /\ UNCHANGED <<stored, shown>>
  /\ UNCHANGED <<asked, streaming, rag_flow, task, generated>>

Done == {k \in asked : task[k] \in {"token", "stopped", "raised"}}

\* Mutant: the loop ends as soon as every task that is done has stopped.
streaming_step_stops_with_done ==
  /\ stage = "waiting" /\ streaming
  /\ Done # {}
  /\ LET tokens == {k \in Done : task[k] = "token"}
         stops == {k \in Done : task[k] = "stopped"}
     IN  /\ stored' = [k \in Kinds |-> IF k \in tokens THEN stored[k] + 1 ELSE stored[k]]
         /\ task' = [k \in Kinds |-> IF k \in tokens THEN "pending" ELSE task[k]]
         /\ stage' = IF stops = Done THEN "ended" ELSE "waiting"
         /\ shown' = IF stops = Done THEN shown ELSE stored'
  /\ UNCHANGED <<asked, streaming, rag_flow, generated>>

\* Mutant: a generator that has stopped is counted only when its task is new.
streaming_step_counts_new_stops ==
  /\ stage = "waiting" /\ streaming
  /\ Done # {}
  /\ LET tokens == {k \in Done : task[k] = "token"}
         stops == {k \in Done : task[k] = "stopped"}
     IN  /\ stored' = [k \in Kinds |-> IF k \in tokens THEN stored[k] + 1 ELSE stored[k]]
         /\ task' = [k \in Kinds |-> IF k \in tokens THEN "pending"
                                     ELSE IF k \in stops THEN "none" ELSE task[k]]
         /\ stage' = IF Cardinality(stops) = Cardinality(asked) THEN "ended" ELSE "waiting"
         /\ shown' = stored'
  /\ UNCHANGED <<asked, streaming, rag_flow, generated>>

\* One turn of async_streaming_generate's loop: asyncio.wait returns every task that
\* is done, the ones that stopped in earlier turns included; tokens are appended and
\* their generators asked again; all stopped ends the loop, otherwise the dictionary
\* is yielded.  What a model raised ends the stream.
streaming_step ==
  /\ stage = "waiting" /\ streaming
  /\ Done # {}
  /\ LET tokens == {k \in Done : task[k] = "token"}
         stops == {k \in Done : task[k] = "stopped"}
     IN  IF tokens \cup stops = Done
         THEN /\ stored' = [k \in Kinds |-> IF k \in tokens THEN stored[k] + 1 ELSE stored[k]]
              /\ task' = [k \in Kinds |-> IF k \in tokens THEN "pending" ELSE task[k]]
              /\ IF Cardinality(stops) = Cardinality(asked)
                 THEN stage' = "ended" /\ UNCHANGED shown
                 ELSE shown' = stored' /\ UNCHANGED stage
         ELSE /\ stage' = "failed"
              /\ UNCHANGED <<stored, task, shown>>
  /\ UNCHANGED <<asked, streaming, rag_flow, generated>>

RagAnswersNext ==
  \/ rag_answer
  \/ \E k \in Kinds : agenerate(k) \/ agenerate_streaming(k)
  \/ async_generate
  \/ streaming_step

RagAnswersSpec == RagAnswersInit /\ [][RagAnswersNext]_answerVars

\* The event loop goes on with tasks that are done; a model answers or times out.
RagAnswersFairness ==
  /\ WF_answerVars(rag_answer) /\ WF_answerVars(async_generate) /\ WF_answerVars(streaming_step)
  /\ \A k \in Kinds : WF_answerVars(agenerate(k) \/ agenerate_streaming(k))

----------------------------------------------------------------------------
(* Properties                                                              *)

\* A request that ended well has shown every token of every answer asked for, the
\* model had ended every one of them, and the flow had retrieved what their prompts
\* are made with.
AnswersComplete ==
  stage = "ended" => \A k \in asked : /\ Context(k) \subseteq Retrieves(rag_flow)
                                      /\ shown[k] = generated[k]
                                      /\ task[k] = IF streaming THEN "stopped" ELSE "token"

\* A request ends: the loop over the generators does not wait for ones that have
\* stopped, and stops when all have.
AnswerEnds == stage = "waiting" ~> stage \in {"ended", "failed"}
=============================================================================

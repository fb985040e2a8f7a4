---------------------------- MODULE MCPipelines ----------------------------
(***************************************************************************)
(* One instance of each module of hugegraph-llm, checked in one run.  The   *)
(* initial state selects a component, and only that one takes steps: the    *)
(* state space is the sum of the components', not their product.            *)
(***************************************************************************)
EXTENDS FlowScheduler, WorkflowRun, RagAnswers, VectorIndex, Extraction, LlmConfig

VARIABLE component   \* the component that runs

Components == {"scheduler", "workflow", "answers", "vids", "examples", "extraction", "config"}

pipelineVars == <<component, schedulerVars, workflowVars, answerVars, vectorVars,
                  extractionVars, configVars>>

----------------------------------------------------------------------------
(* The graphs the model answers a chunk with: a usable one, another one that
   gives its person the same id, one that gives two persons one id, one
   without a primary key, one that names a person twice, one with an edge in
   the older format, one whose note, of a label with AUTOMATIC ids, has the
   id of the others' document, and a broken one with an unknown label.       *)

Person(i, k) == [label |-> "person", id |-> i, pk |-> k, ok |-> TRUE]
Doc == [label |-> "doc", id |-> "d", pk |-> "x", ok |-> TRUE]
End(i, l, k) == [id |-> i, label |-> l, pk |-> k]
Wrote(i) == [label |-> "wrote", out |-> End(i, "person", ""), in |-> End("d", "doc", "")]
Note == [label |-> "note", id |-> "d", pk |-> "", ok |-> TRUE]
Noted == [label |-> "noted", out |-> End("a", "person", ""), in |-> End("d", "note", "")]
LlmGraph(vs, es) == [vertices |-> vs, edges |-> es]

MCGraphs ==
  {LlmGraph(<<Person("a", "x"), Doc>>, <<Wrote("a")>>),
   LlmGraph(<<Person("a", "y"), Doc>>, <<Wrote("a")>>),
   LlmGraph(<<Person("a", "x"), Person("a", "y"), Doc>>, <<Wrote("a")>>),
   LlmGraph(<<Person("a", ""), Doc>>, <<Wrote("a")>>),
   LlmGraph(<<Person("b", "x"), Person("a", "x"), Doc>>, <<Wrote("b")>>),
   LlmGraph(<<Person("a", "x"), Doc>>,
            <<[Wrote("") EXCEPT !.out = End("", "person", "x")]>>),
   LlmGraph(<<Person("a", "x"), Note>>, <<Noted>>),
   LlmGraph(<<[Doc EXCEPT !.ok = FALSE], [Doc EXCEPT !.label = "ghost"]>>,
            <<[Wrote("a") EXCEPT !.label = "ghost"]>>)}

MCCanonicalId == [x |-> "1:x", y |-> "1:y"]

----------------------------------------------------------------------------
Runs(c) == component = c

\* A request that asked for nothing and is over (rag_answer).
NothingAsked ==
  /\ asked = {} /\ streaming = FALSE /\ rag_flow = "none" /\ stage = "ended"
  /\ task = [k \in Kinds |-> "none"]
  /\ generated = [k \in Kinds |-> 0]
  /\ stored = [k \in Kinds |-> 0]
  /\ shown = [k \in Kinds |-> 0]

\* A component that is not selected rests in a state it can be in.
PipelinesInit ==
  /\ component \in Components
  /\ SchedulerInit
  /\ ~Runs("scheduler") => \A c \in Calls : call[c].flow = Unsupported /\ ~call[c].streaming
  /\ WorkflowInit
  /\ ~Runs("workflow") => flow = "rag_raw" /\ ~wk_input.stream /\ ~wk_input.tmpl
  /\ IF Runs("answers") THEN RagAnswersInit ELSE NothingAsked
  /\ VectorIndexInit
  /\ ExtractionInit
  /\ ~Runs("extraction") => extract_type = "plain"
  /\ ConfigInit
  /\ ~Runs("config") => \A r \in Requests : config_request[r].kind = "ui_chat"
                                            /\ config_request[r].provider = "openai"

PipelinesNext ==
  /\ UNCHANGED component
  /\ \/ /\ Runs("scheduler") /\ SchedulerNext
        /\ UNCHANGED <<workflowVars, answerVars, vectorVars, extractionVars, configVars>>
     \/ /\ Runs("workflow") /\ WorkflowNext
        /\ UNCHANGED <<schedulerVars, answerVars, vectorVars, extractionVars, configVars>>
     \/ /\ Runs("answers") /\ RagAnswersNext
        /\ UNCHANGED <<schedulerVars, workflowVars, vectorVars, extractionVars, configVars>>
     \/ /\ Runs("vids") /\ VidIndexNext
        /\ UNCHANGED <<schedulerVars, workflowVars, answerVars, extractionVars, configVars>>
     \/ /\ Runs("examples") /\ ExampleIndexNext
        /\ UNCHANGED <<schedulerVars, workflowVars, answerVars, extractionVars, configVars>>
     \/ /\ Runs("extraction") /\ ExtractionNext
        /\ UNCHANGED <<schedulerVars, workflowVars, answerVars, vectorVars, configVars>>
     \/ /\ Runs("config") /\ ConfigNext
        /\ UNCHANGED <<schedulerVars, workflowVars, answerVars, vectorVars, extractionVars>>

\* No fair action of a component that rests is enabled, so the fairness of one does
\* not exclude the behaviours of another.
PipelinesSpec ==
  /\ PipelinesInit /\ [][PipelinesNext]_pipelineVars
  /\ SchedulerFairness /\ RagAnswersFairness

\* Type correctness of all components; the extraction's counters stay within the
\* budgets of the request.
PipelinesTypeOK ==
  /\ SchedulerTypeOK /\ WorkflowTypeOK /\ RagAnswersTypeOK
  /\ VectorIndexTypeOK /\ ExtractionTypeOK /\ ConfigTypeOK
=============================================================================

---------------------------- MODULE FlowScheduler ----------------------------
(***************************************************************************)
(* The workflow scheduler of hugegraph-llm: one process-wide Scheduler with *)
(* a pool of pipelines per flow.  Requests run in different threads, so the *)
(* calls interleave between any two steps that touch a pool or a pipeline.  *)
(* Pipelines and their managers belong to PyCGraph: fetch hands out a free  *)
(* pipeline or none, release and add make it free, a run calls setup on the *)
(* state and reset on the input, whatever its status.                       *)
(*                                                                          *)
(* The fields of WkFlowInput are abstracted to two: "args" stands for what  *)
(* prepare writes, "stream" for the flag that only the streaming entry      *)
(* writes.  A field holds the call that wrote it last, or Nobody.           *)
(***************************************************************************)
EXTENDS Naturals, FiniteSets

CONSTANTS
  Calls,       \* calls of schedule_flow or schedule_stream_flow, made once each
  MaxBuilt,    \* bound: pipelines that can ever be built
  PoolFlows,   \* flows that have an entry in pipeline_pool
  Validating,  \* flows whose prepare checks its arguments and may raise:
               \* graph_extract and import_graph_data
  Streamed,    \* flows that rag_answer_streaming selects: the RAG flows
  Nobody       \* None

ASSUME SchedulerAssumption ==
  /\ IsFiniteSet(Calls)
  /\ Nobody \notin Calls \cup (1 .. MaxBuilt)
  /\ MaxBuilt \in Nat
  /\ Validating \cup Streamed \subseteq PoolFlows
  /\ Validating \cap Streamed = {}

VARIABLES
  call,      \* local state of each call
  pool,      \* per flow: the free and the busy pipelines of its manager
  gparam,    \* per pipeline: the two parameters wkflow_input and wkflow_state
  built,     \* number of pipelines built so far: they are 1..built
  runs,      \* history: how often a call ran a pipeline
  answer,    \* history: whose results a call returned
  peak       \* history: most calls of a flow that were under way at once

Pipelines == 1 .. MaxBuilt

schedulerVars == <<call, pool, gparam, built, runs, answer, peak>>

CallPCs == {"idle", "build", "init", "prepare", "run", "running", "post",
            "stream", "returned", "failed"}

\* An unsupported flow name is any value outside PoolFlows.
Unsupported == "unsupported"
FlowNames == PoolFlows \cup {Unsupported}

FreshParams == [args |-> Nobody, stream |-> Nobody, state |-> Nobody]

SchedulerTypeOK ==
  /\ call \in [Calls -> [pc : CallPCs, flow : FlowNames, streaming : BOOLEAN,
                         pipe : Pipelines \cup {Nobody}, fresh : BOOLEAN]]
  /\ pool \in [PoolFlows -> [free : SUBSET Pipelines, busy : SUBSET Pipelines]]
  /\ gparam \in [Pipelines -> [args : Calls \cup {Nobody},
                               stream : Calls \cup {Nobody},
                               state : Calls \cup {Nobody}]]
  /\ built \in 0 .. MaxBuilt
  /\ runs \in [Calls -> Nat]
  /\ answer \in [Calls -> Calls \cup {Nobody}]
  /\ peak \in [PoolFlows -> Nat]

\* The singleton is built under its lock before the first call gets it, with an
\* empty manager for every flow.
SchedulerInit ==
  /\ call \in [Calls -> [pc : {"idle"}, flow : FlowNames, streaming : BOOLEAN,
                         pipe : {Nobody}, fresh : {FALSE}]]
  /\ \A c \in Calls : call[c].streaming => call[c].flow \in Streamed
  /\ pool = [f \in PoolFlows |-> [free |-> {}, busy |-> {}]]
  /\ gparam = [p \in Pipelines |-> FreshParams]
  /\ built = 0
  /\ runs = [c \in Calls |-> 0]
  /\ answer = [c \in Calls |-> Nobody]
  /\ peak = [f \in PoolFlows |-> 0]

UnderWay(c) == call[c].pc \notin {"idle", "returned", "failed"}
ActiveOn(f) == {c \in Calls : UnderWay(c) /\ call[c].flow = f}
Goto(c, pc) == call' = [call EXCEPT ![c].pc = pc]

\* GPipelineManager.add, release: the pipeline can be fetched again.
add(f, p) == pool' = [pool EXCEPT ![f].free = @ \cup {p}]
release(f, p) == pool' = [pool EXCEPT ![f] = [free |-> @.free \cup {p},
                                              busy |-> @.busy \ {p}]]

\* GPipelineManager.fetch: some free pipeline, which becomes busy, or none.
fetch(c) ==
  LET f == call[c].flow
  IN  \/ /\ pool[f].free = {}
         /\ call' = [call EXCEPT ![c] = [@ EXCEPT !.pc = "build", !.fresh = TRUE]]
         /\ UNCHANGED pool
      \/ \E p \in pool[f].free :
           /\ pool' = [pool EXCEPT ![f] = [free |-> @.free \ {p},
                                           busy |-> @.busy \cup {p}]]
           /\ call' = [call EXCEPT ![c] = [@ EXCEPT !.pc = "prepare", !.pipe = p]]

Start(c) ==
  /\ call[c].pc = "idle"
  /\ IF call[c].flow \in PoolFlows
     THEN /\ fetch(c)
          /\ LET now == Cardinality(ActiveOn(call[c].flow)) + 1
             IN  peak' = [peak EXCEPT ![call[c].flow] = IF now > @ THEN now ELSE @]
     ELSE Goto(c, "failed") /\ UNCHANGED <<pool, peak>>
  /\ UNCHANGED <<gparam, built, runs, answer>>

\* flow.build_flow: prepare on a new input, then the nodes.  prepare may raise.
build_flow(c) ==
  /\ call[c].pc = "build"
  /\ \/ /\ built < MaxBuilt
        /\ built' = built + 1
        /\ gparam' = [gparam EXCEPT ![built'] =
             [args |-> c, state |-> Nobody,
              stream |-> IF call[c].streaming THEN c ELSE Nobody]]
        /\ call' = [call EXCEPT ![c] = [@ EXCEPT !.pc = "init", !.pipe = built']]
     \/ /\ call[c].flow \in Validating
        /\ Goto(c, "failed")
        /\ UNCHANGED <<built, gparam>>
  /\ UNCHANGED <<pool, runs, answer, peak>>

\* pipeline.init(): an error raises and the pipeline is dropped.
pipeline_init(c) ==
  /\ call[c].pc = "init"
  /\ \E ok \in BOOLEAN : Goto(c, IF ok THEN "run" ELSE "failed")
  /\ UNCHANGED <<pool, gparam, built, runs, answer, peak>>

\* The reuse path: stream flag, then flow.prepare, which overwrites its fields
\* or raises after some of them; the finally clause releases the pipeline.
prepare(c) ==
  /\ call[c].pc = "prepare"
  /\ LET p == call[c].pipe
         marked == IF call[c].streaming THEN [gparam[p] EXCEPT !.stream = c]
                                        ELSE gparam[p]
     IN  \/ /\ gparam' = [gparam EXCEPT ![p] = [marked EXCEPT !.args = c]]
            /\ Goto(c, "run")
            /\ UNCHANGED pool
         \/ /\ call[c].flow \in Validating
            /\ \E written \in {marked.args, c} :
                 gparam' = [gparam EXCEPT ![p] = [marked EXCEPT !.args = written]]
            /\ Goto(c, "failed")
            /\ release(call[c].flow, p)
  /\ UNCHANGED <<built, runs, answer, peak>>

\* pipeline.run() begins: WkFlowState.setup clears every field of the state.
setup(c) ==
  /\ call[c].pc = "run"
  /\ gparam' = [gparam EXCEPT ![call[c].pipe].state = Nobody]
  /\ runs' = [runs EXCEPT ![c] = @ + 1]
  /\ Goto(c, "running")
  /\ UNCHANGED <<pool, built, answer, peak>>

\* WkFlowInput.reset
reset(input) == [input EXCEPT !.args = Nobody, !.stream = Nobody]

\* Mutant: a new pipeline is offered to the pool before its results are read.
run_ends_add_first(c) ==
  /\ call[c].pc = "running"
  /\ LET p == call[c].pipe
         f == call[c].flow
     IN  \/ /\ gparam' = [gparam EXCEPT ![p] = [reset(@) EXCEPT !.state = gparam[p].args]]
            /\ Goto(c, IF call[c].streaming THEN "stream" ELSE "post")
            /\ IF call[c].fresh THEN add(f, p) ELSE UNCHANGED pool
         \/ /\ gparam' = [gparam EXCEPT ![p] = reset(@)]
            /\ Goto(c, "failed")
            /\ IF call[c].fresh THEN add(f, p) ELSE release(f, p)
  /\ UNCHANGED <<built, runs, answer, peak>>

\* pipeline.run() ends.  The nodes have put the results of this input into the
\* state; the input is reset.  On error a new pipeline is added to the pool and
\* a fetched one is released, then the call raises.
run_ends(c) ==
  /\ call[c].pc = "running"
  /\ LET p == call[c].pipe
         f == call[c].flow
     IN  \/ /\ gparam' = [gparam EXCEPT ![p] = [reset(@) EXCEPT !.state = gparam[p].args]]
            /\ Goto(c, IF call[c].streaming THEN "stream" ELSE "post")
            /\ UNCHANGED pool
         \/ /\ gparam' = [gparam EXCEPT ![p] = reset(@)]
            /\ Goto(c, "failed")
            /\ IF call[c].fresh THEN add(f, p) ELSE release(f, p)
  /\ UNCHANGED <<built, runs, answer, peak>>

\* Mutant: the finally clause is missing, so only a good result releases.
post_deal_no_finally(c) ==
  /\ call[c].pc = "post"
  /\ LET p == call[c].pipe
         f == call[c].flow
     IN  \/ /\ answer' = [answer EXCEPT ![c] = gparam[p].state]
            /\ Goto(c, "returned")
            /\ IF call[c].fresh THEN add(f, p) ELSE release(f, p)
         \/ /\ Goto(c, "failed")
            /\ UNCHANGED <<answer, pool>>
  /\ UNCHANGED <<gparam, built, runs, peak>>

\* flow.post_deal: reads the state, or raises.  Only the reuse path has a finally
\* clause: a new pipeline whose post_deal raises goes nowhere.
post_deal(c) ==
  /\ call[c].pc = "post"
  /\ LET p == call[c].pipe
         f == call[c].flow
     IN  \/ /\ answer' = [answer EXCEPT ![c] = gparam[p].state]
            /\ Goto(c, "returned")
            /\ IF call[c].fresh THEN add(f, p) ELSE release(f, p)
         \/ /\ Goto(c, "failed")
            /\ IF call[c].fresh THEN UNCHANGED pool ELSE release(f, p)
            /\ UNCHANGED answer
  /\ UNCHANGED <<gparam, built, runs, peak>>

\* Mutant: issue #360, the streaming path for a new pipeline does not return and
\* falls through to the reuse path.
post_deal_stream_falls_through(c) ==
  /\ call[c].pc = "stream"
  /\ LET p == call[c].pipe
         f == call[c].flow
     IN  /\ answer' = [answer EXCEPT ![c] = gparam[p].state]
         /\ IF call[c].fresh
            THEN /\ add(f, p)
                 /\ call' = [call EXCEPT ![c] = [@ EXCEPT !.pc = "prepare", !.fresh = FALSE]]
            ELSE /\ release(f, p)
                 /\ Goto(c, "returned")
  /\ UNCHANGED <<gparam, built, runs, peak>>

\* flow.post_deal_stream: the consumer reads to the end, or the generator fails
\* or is closed before that; the state gives its stream_generator to the call.
post_deal_stream(c) ==
  /\ call[c].pc = "stream"
  /\ LET p == call[c].pipe
         f == call[c].flow
     IN  \/ /\ answer' = [answer EXCEPT ![c] = gparam[p].state]
            /\ Goto(c, "returned")
            /\ IF call[c].fresh THEN add(f, p) ELSE release(f, p)
         \/ /\ Goto(c, "failed")
            /\ IF call[c].fresh THEN UNCHANGED pool ELSE release(f, p)
            /\ UNCHANGED answer
  /\ UNCHANGED <<gparam, built, runs, peak>>

CallStep(c) ==
  \/ build_flow(c)
  \/ pipeline_init(c)
  \/ prepare(c)
  \/ setup(c)
  \/ run_ends(c)
  \/ post_deal(c)
  \/ post_deal_stream(c)

SchedulerNext == \E c \in Calls : Start(c) \/ CallStep(c)

SchedulerSpec == SchedulerInit /\ [][SchedulerNext]_schedulerVars

\* A call that has begun is a running thread: it goes on.  That the consumer of a
\* stream reads on or closes it is the web server's job at the end of a request.
SchedulerFairness == \A c \in Calls : WF_schedulerVars(CallStep(c))

----------------------------------------------------------------------------
(* Properties                                                              *)

\* A pipeline that a call is using is neither free nor used by another call.
\* (Scheduler hands a pipeline out by fetch and gives it back exactly once.)
PipelineServesOneCall ==
  \A c \in Calls : UnderWay(c) /\ call[c].pipe # Nobody =>
    /\ \A f \in PoolFlows : call[c].pipe \notin pool[f].free
    /\ \A d \in Calls \ {c} : UnderWay(d) => call[d].pipe # call[c].pipe

\* When the nodes run, the input is this call's own: nothing an earlier or a failed
\* call left in a pooled pipeline is read, the stream flag included.  A call runs its
\* pipeline once and returns the results of that run (issue #360 was a second run of
\* the same pipeline).
AnswerIsOwn ==
  \A c \in Calls :
    /\ call[c].pc \in {"run", "running"} =>
         /\ gparam[call[c].pipe].args = c
         /\ gparam[call[c].pipe].stream = IF call[c].streaming THEN c ELSE Nobody
    /\ runs[c] <= 1 /\ (call[c].pc = "returned" => answer[c] = c)

\* max_pipeline is not consulted; what bounds the pools is reuse: a pool and
\* the calls of a flow never hold more pipelines than calls ran at its peak.
PoolBoundedByPeak ==
  \A f \in PoolFlows :
    Cardinality(pool[f].free \cup pool[f].busy \cup
                {call[c].pipe : c \in {d \in ActiveOn(f) : call[d].pipe # Nobody}}) <= peak[f]

\* A pipeline that was fetched becomes free again (the finally clauses).
FetchedIsReleased ==
  \A f \in PoolFlows : \A p \in Pipelines : p \in pool[f].busy ~> p \in pool[f].free
=============================================================================

------------------------ MODULE FlowSchedulerProofs ------------------------
(***************************************************************************)
(* Proofs about FlowScheduler, for any number of concurrent calls, flows   *)
(* and pipelines.                                                          *)
(***************************************************************************)
EXTENDS FlowScheduler, FiniteSetTheorems, TLAPS

----------------------------------------------------------------------------
(* Type correctness                                                        *)

CallType == [pc : CallPCs, flow : FlowNames, streaming : BOOLEAN,
             pipe : Pipelines \cup {Nobody}, fresh : BOOLEAN]
ParamType == [args : Calls \cup {Nobody}, stream : Calls \cup {Nobody},
              state : Calls \cup {Nobody}]
PoolType == [free : SUBSET Pipelines, busy : SUBSET Pipelines]

\* A pipeline in use is one that was built, for a flow that has a pool; only the
\* flows of rag_answer_streaming are streamed; pooled pipelines were built.
Typed ==
  /\ SchedulerTypeOK
  /\ \A c \in Calls :
       /\ call[c].pc \in {"idle", "build"} => call[c].pipe = Nobody
       /\ UnderWay(c) /\ call[c].pc # "build" => call[c].pipe \in 1 .. built
       /\ UnderWay(c) => call[c].flow \in PoolFlows
       /\ call[c].streaming => call[c].flow \in Streamed
  /\ \A f \in PoolFlows : pool[f].free \cup pool[f].busy \subseteq 1 .. built

\* What a step of call c does to the calls: the others stay, and c keeps its flow
\* and its kind.
Moves(c) ==
  /\ call' \in [Calls -> CallType]
  /\ \A d \in Calls : d # c => call'[d] = call[d]
  /\ call'[c].flow = call[c].flow
  /\ call'[c].streaming = call[c].streaming

\* Moving the program counter is such a step.
LEMMA GotoMoves ==
  ASSUME SchedulerTypeOK, NEW c \in Calls, NEW pc \in CallPCs, Goto(c, pc)
  PROVE  /\ Moves(c)
         /\ call'[c].pc = pc /\ call'[c].pipe = call[c].pipe /\ call'[c].fresh = call[c].fresh
<1>1. call \in [Calls -> CallType] /\ call[c] \in CallType
  BY DEF SchedulerTypeOK, CallType
<1>2. call' = [call EXCEPT ![c] = [call[c] EXCEPT !.pc = pc]]
  BY <1>1 DEF Goto
<1>3. [call[c] EXCEPT !.pc = pc] \in CallType
  BY <1>1 DEF CallType
<1>. QED  BY <1>1, <1>2, <1>3 DEF Moves, CallType

\* The step of fetch hands out a free pipeline of the flow or begins to build one.
LEMMA FetchMoves ==
  ASSUME SchedulerTypeOK, NEW c \in Calls, call[c].flow \in PoolFlows, fetch(c)
  PROVE  /\ Moves(c)
         /\ \/ /\ pool[call[c].flow].free = {} /\ pool' = pool
               /\ call'[c].pc = "build" /\ call'[c].pipe = call[c].pipe /\ call'[c].fresh
            \/ \E p \in pool[call[c].flow].free :
                 /\ pool' = [pool EXCEPT ![call[c].flow] =
                               [free |-> @.free \ {p}, busy |-> @.busy \cup {p}]]
                 /\ call'[c].pc = "prepare" /\ call'[c].pipe = p
                 /\ call'[c].fresh = call[c].fresh
<1>1. call \in [Calls -> CallType] /\ call[c] \in CallType
  BY DEF SchedulerTypeOK, CallType
<1>2. CASE /\ pool[call[c].flow].free = {} /\ pool' = pool
           /\ call' = [call EXCEPT ![c] = [@ EXCEPT !.pc = "build", !.fresh = TRUE]]
  <2>1. [call[c] EXCEPT !.pc = "build", !.fresh = TRUE] \in CallType
    BY <1>1 DEF CallType, CallPCs
  <2>. QED  BY <1>1, <1>2, <2>1 DEF Moves, CallType
<1>3. ASSUME NEW p \in pool[call[c].flow].free,
             pool' = [pool EXCEPT ![call[c].flow] = [free |-> @.free \ {p},
                                                     busy |-> @.busy \cup {p}]],
             call' = [call EXCEPT ![c] = [@ EXCEPT !.pc = "prepare", !.pipe = p]]
      PROVE  Moves(c) /\ call'[c].pc = "prepare" /\ call'[c].pipe = p
             /\ call'[c].fresh = call[c].fresh
  <2>1. p \in Pipelines
    BY DEF SchedulerTypeOK
  <2>2. [call[c] EXCEPT !.pc = "prepare", !.pipe = p] \in CallType
    BY <1>1, <2>1 DEF CallType, CallPCs
  <2>. QED  BY <1>1, <1>3, <2>2 DEF Moves, CallType
<1>. QED  BY <1>2, <1>3 DEF fetch
----------------------------------------------------------------------------
(* What a step does with pipelines                                         *)

\* The call ends without a pipeline, or without giving a new one to the pool, ...
Ends(c) ==
  /\ call'[c].pc = "failed" /\ call'[c].pipe = call[c].pipe
  /\ call[c].pc \in {"idle", "build", "init"} \/ (UnderWay(c) /\ call[c].fresh)
  /\ UNCHANGED <<pool, built, peak>>

\* ... finds no pipeline, ...
FindsNone(c) ==
  /\ call[c].pc = "idle" /\ call'[c].pc = "build"
  /\ call[c].flow \in PoolFlows /\ pool[call[c].flow].free = {}
  /\ call'[c].pipe = call[c].pipe /\ call'[c].fresh
  /\ UNCHANGED <<pool, built>>

\* ... fetches one, ...
Fetches(c, p) ==
  /\ call[c].pc = "idle" /\ call'[c].pc = "prepare"
  /\ call[c].flow \in PoolFlows /\ p \in pool[call[c].flow].free
  /\ call'[c].pipe = p /\ call'[c].fresh = call[c].fresh
  /\ pool' = [pool EXCEPT ![call[c].flow] = [free |-> @.free \ {p}, busy |-> @.busy \cup {p}]]
  /\ UNCHANGED built

\* ... builds one, ...
Builds(c) ==
  /\ call[c].pc = "build" /\ call'[c].pc = "init"
  /\ built < MaxBuilt /\ built' = built + 1
  /\ call'[c].pipe = built' /\ call'[c].fresh = call[c].fresh
  /\ UNCHANGED <<pool, peak>>

\* ... works on with its own, ...
Stays(c) ==
  /\ UnderWay(c) /\ UnderWay(c)' /\ call[c].pc # "build" /\ call'[c].pc \notin {"build", "init"}
  /\ call'[c].pipe = call[c].pipe /\ call'[c].fresh = call[c].fresh
  /\ UNCHANGED <<pool, built, peak>>

\* ... or gives it to the pool and ends.
Gives(c) ==
  /\ UnderWay(c) /\ call[c].pc # "build" /\ call'[c].pc \in {"returned", "failed"}
  /\ call'[c].pipe = call[c].pipe
  /\ IF call[c].fresh THEN add(call[c].flow, call[c].pipe)
                      ELSE release(call[c].flow, call[c].pipe)
  /\ UNCHANGED <<built, peak>>

\* Every step of a call is one of these; the first one records the peak.
LEMMA CallSteps ==
  ASSUME Typed, NEW c \in Calls, Start(c) \/ CallStep(c),
         call[c].pc = "prepare" => ~call[c].fresh
  PROVE  /\ Moves(c)
         /\ \/ Ends(c) \/ FindsNone(c) \/ (\E p \in Pipelines : Fetches(c, p))
            \/ Builds(c) \/ Stays(c) \/ Gives(c)
<1>0. /\ SchedulerTypeOK
      /\ call \in [Calls -> CallType] /\ call[c] \in CallType
  BY DEF Typed, SchedulerTypeOK, CallType
<1>1. ASSUME NEW pc \in CallPCs, Goto(c, pc)
      PROVE  /\ Moves(c) /\ call'[c].pc = pc
             /\ call'[c].pipe = call[c].pipe /\ call'[c].fresh = call[c].fresh
  BY <1>0, <1>1, GotoMoves
<1>2. CASE Start(c)
  <2>1. CASE call[c].flow \in PoolFlows
    <3>1. \A p : p \in pool[call[c].flow].free => p \in Pipelines
      BY <1>0, <2>1 DEF SchedulerTypeOK
    <3>. QED  BY <1>0, <1>2, <2>1, <3>1, FetchMoves DEF Start, FindsNone, Fetches
  <2>2. CASE call[c].flow \notin PoolFlows
    BY <1>1, <1>2, <2>2 DEF Start, Ends, CallPCs
  <2>. QED  BY <2>1, <2>2
<1>3. CASE build_flow(c)
  <2>1. CASE Goto(c, "failed") /\ UNCHANGED <<built, gparam>>
    BY <1>1, <1>3, <2>1 DEF build_flow, Ends, CallPCs
  <2>2. CASE ~(Goto(c, "failed") /\ UNCHANGED <<built, gparam>>)
    <3>1. /\ built < MaxBuilt /\ built' = built + 1
          /\ call' = [call EXCEPT ![c] = [@ EXCEPT !.pc = "init", !.pipe = built']]
      BY <1>3, <2>2 DEF build_flow
    <3>2. built' \in Pipelines
      BY <1>0, <3>1, SchedulerAssumption DEF SchedulerTypeOK, Pipelines
    <3>3. [call[c] EXCEPT !.pc = "init", !.pipe = built'] \in CallType
      BY <1>0, <3>2 DEF CallType, CallPCs
    <3>4. Moves(c) /\ call'[c] = [call[c] EXCEPT !.pc = "init", !.pipe = built']
      BY <1>0, <3>1, <3>3 DEF Moves, CallType
    <3>. QED  BY <1>0, <1>3, <3>1, <3>4 DEF build_flow, Builds, CallType
  <2>. QED  BY <2>1, <2>2
<1>4. CASE pipeline_init(c)
  <2>1. PICK pc \in {"run", "failed"} : Goto(c, pc)
    BY <1>4 DEF pipeline_init
  <2>. QED  BY <1>1, <1>4, <2>1 DEF pipeline_init, Ends, Stays, UnderWay, CallPCs
<1>5. CASE prepare(c)
  <2>1. CASE Goto(c, "run") /\ UNCHANGED pool
    BY <1>1, <1>5, <2>1 DEF prepare, Stays, UnderWay, CallPCs
  <2>2. CASE Goto(c, "failed") /\ release(call[c].flow, call[c].pipe)
    BY <1>1, <1>5, <2>2 DEF prepare, Gives, UnderWay, CallPCs
  <2>. QED  BY <1>5, <2>1, <2>2 DEF prepare
<1>6. CASE setup(c)
  BY <1>1, <1>6 DEF setup, Stays, UnderWay, CallPCs
<1>7. CASE run_ends(c)
  <2>1. CASE Goto(c, IF call[c].streaming THEN "stream" ELSE "post") /\ UNCHANGED pool
    BY <1>1, <1>7, <2>1 DEF run_ends, Stays, UnderWay, CallPCs
  <2>2. CASE /\ Goto(c, "failed")
             /\ IF call[c].fresh THEN add(call[c].flow, call[c].pipe)
                                 ELSE release(call[c].flow, call[c].pipe)
    BY <1>1, <1>7, <2>2 DEF run_ends, Gives, UnderWay, CallPCs
  <2>. QED  BY <1>7, <2>1, <2>2 DEF run_ends
<1>8. CASE post_deal(c) \/ post_deal_stream(c)
  <2>1. UnderWay(c) /\ call[c].pc # "build" /\ UNCHANGED <<built, peak>>
    BY <1>8 DEF post_deal, post_deal_stream, UnderWay
  <2>2. CASE /\ Goto(c, "returned") \/ Goto(c, "failed")
             /\ IF call[c].fresh THEN add(call[c].flow, call[c].pipe)
                                 ELSE release(call[c].flow, call[c].pipe)
    BY <1>1, <2>1, <2>2 DEF Gives, CallPCs
  <2>3. CASE Goto(c, "failed") /\ call[c].fresh /\ UNCHANGED pool
    BY <1>1, <2>1, <2>3 DEF Ends, CallPCs
  <2>. QED  BY <1>8, <2>2, <2>3 DEF post_deal, post_deal_stream
<1>. QED  BY <1>2, <1>3, <1>4, <1>5, <1>6, <1>7, <1>8 DEF CallStep
----------------------------------------------------------------------------
(* A pipeline serves one call                                              *)

\* A free pipeline is free for one flow; whether a call's pipeline is new is
\* known from where the call is; a busy one is in the hands of a call that
\* fetched it and will release it.
Pooled ==
  /\ PipelineServesOneCall
  /\ \A f, g \in PoolFlows : f # g => pool[f].free \cap pool[g].free = {}
  /\ \A c \in Calls : /\ call[c].pc \in {"idle", "prepare"} => ~call[c].fresh
                      /\ call[c].pc \in {"build", "init"} => call[c].fresh
  /\ \A f \in PoolFlows : \A p \in pool[f].busy :
       \E c \in ActiveOn(f) : call[c].pipe = p /\ ~call[c].fresh

\* What giving a pipeline to a pool does to the pools.
LEMMA GivenPool ==
  ASSUME SchedulerTypeOK, NEW f \in PoolFlows, NEW p \in Pipelines,
         add(f, p) \/ release(f, p)
  PROVE  /\ pool' \in [PoolFlows -> PoolType]
         /\ pool'[f].free = pool[f].free \cup {p}
         /\ add(f, p) => pool'[f].busy = pool[f].busy
         /\ release(f, p) => pool'[f].busy = pool[f].busy \ {p}
         /\ \A g \in PoolFlows : g # f => pool'[g] = pool[g]
<1>1. pool \in [PoolFlows -> PoolType] /\ pool[f] \in PoolType
  BY DEF SchedulerTypeOK, PoolType
<1>2. CASE add(f, p)
  <2>1. pool' = [pool EXCEPT ![f] = [pool[f] EXCEPT !.free = pool[f].free \cup {p}]]
    BY <1>1, <1>2 DEF add
  <2>2. [pool[f] EXCEPT !.free = pool[f].free \cup {p}] \in PoolType
    BY <1>1 DEF PoolType
  <2>3. pool'[f] = [pool[f] EXCEPT !.free = pool[f].free \cup {p}]
    BY <1>1, <2>1
  <2>4. /\ pool' \in [PoolFlows -> PoolType]
        /\ pool'[f].free = pool[f].free \cup {p} /\ pool'[f].busy = pool[f].busy
        /\ \A g \in PoolFlows : g # f => pool'[g] = pool[g]
    BY <1>1, <2>1, <2>2, <2>3 DEF PoolType
  <2>5. release(f, p) => pool'[f].busy = pool[f].busy \ {p}
    BY <1>1 DEF release
  <2>. QED  BY <2>4, <2>5
<1>3. CASE release(f, p)
  <2>1. [free |-> pool[f].free \cup {p}, busy |-> pool[f].busy \ {p}] \in PoolType
    BY <1>1 DEF PoolType
  <2>2. /\ pool' \in [PoolFlows -> PoolType]
        /\ pool'[f].free = pool[f].free \cup {p} /\ pool'[f].busy = pool[f].busy \ {p}
        /\ \A g \in PoolFlows : g # f => pool'[g] = pool[g]
    BY <1>1, <1>3, <2>1 DEF release
  <2>3. add(f, p) => pool'[f].busy = pool[f].busy
    BY <1>1 DEF add, PoolType
  <2>. QED  BY <2>2, <2>3
<1>. QED  BY <1>2, <1>3

\* What fetching a pipeline does to the pools.
LEMMA FetchedPool ==
  ASSUME SchedulerTypeOK, NEW f \in PoolFlows, NEW p \in pool[f].free,
         pool' = [pool EXCEPT ![f] = [free |-> @.free \ {p}, busy |-> @.busy \cup {p}]]
  PROVE  /\ pool' \in [PoolFlows -> PoolType]
         /\ pool'[f].free = pool[f].free \ {p}
         /\ pool'[f].busy = pool[f].busy \cup {p}
         /\ \A g \in PoolFlows : g # f => pool'[g] = pool[g]
<1>1. pool \in [PoolFlows -> PoolType] /\ pool[f] \in PoolType /\ p \in Pipelines
  BY DEF SchedulerTypeOK, PoolType
<1>2. [free |-> pool[f].free \ {p}, busy |-> pool[f].busy \cup {p}] \in PoolType
  BY <1>1 DEF PoolType
<1>. QED  BY <1>1, <1>2

\* Every step keeps the types.
LEMMA TypedStep ==
  ASSUME Typed, Pooled, NEW c \in Calls, Start(c) \/ CallStep(c)
  PROVE  Typed'
<1>0. SchedulerTypeOK
  BY DEF Typed
<1>1. /\ Moves(c)
      /\ \/ Ends(c) \/ FindsNone(c) \/ (\E p \in Pipelines : Fetches(c, p))
         \/ Builds(c) \/ Stays(c) \/ Gives(c)
  BY CallSteps DEF Pooled
<1>2. built \in Nat /\ built' \in 0 .. MaxBuilt /\ 1 .. built \subseteq 1 .. built'
  <2>1. built' = built \/ (built' = built + 1 /\ built < MaxBuilt)
    BY <1>1 DEF Ends, FindsNone, Fetches, Builds, Stays, Gives
  <2>2. built \in 0 .. MaxBuilt /\ MaxBuilt \in Nat
    BY <1>0, SchedulerAssumption DEF SchedulerTypeOK
  <2>. QED  BY <2>1, <2>2
<1>3. /\ pool' \in [PoolFlows -> PoolType]
      /\ \A f \in PoolFlows : pool'[f].free \cup pool'[f].busy \subseteq 1 .. built'
  <2>1. CASE pool' = pool
    BY <1>0, <1>2, <2>1 DEF SchedulerTypeOK, PoolType, Typed
  <2>2. CASE \E p \in Pipelines : Fetches(c, p)
    <3>1. PICK p \in Pipelines : Fetches(c, p)
      BY <2>2
    <3>. DEFINE f == call[c].flow
    <3>2. /\ f \in PoolFlows /\ p \in pool[f].free
          /\ pool' = [pool EXCEPT ![f] = [free |-> @.free \ {p}, busy |-> @.busy \cup {p}]]
      BY <3>1 DEF Fetches
    <3>. HIDE DEF f
    <3>3. /\ pool' \in [PoolFlows -> PoolType]
          /\ pool'[f].free = pool[f].free \ {p}
          /\ pool'[f].busy = pool[f].busy \cup {p}
          /\ \A g \in PoolFlows : g # f => pool'[g] = pool[g]
      BY <1>0, <3>2, FetchedPool
    <3>. QED  BY <1>2, <3>2, <3>3 DEF Typed
  <2>3. CASE Gives(c)
    <3>1. call[c].flow \in PoolFlows /\ call[c].pipe \in 1 .. built
      BY <2>3 DEF Gives, Typed
    <3>2. call[c].pipe \in Pipelines
      BY <1>0, <3>1, SchedulerAssumption DEF SchedulerTypeOK, Pipelines
    <3>3. add(call[c].flow, call[c].pipe) \/ release(call[c].flow, call[c].pipe)
      BY <2>3 DEF Gives
    <3>. QED  BY <1>0, <1>2, <3>1, <3>2, <3>3, GivenPool DEF Typed
  <2>. QED  BY <1>1, <2>1, <2>2, <2>3 DEF Ends, FindsNone, Builds, Stays
<1>4. gparam' \in [Pipelines -> ParamType]
  <2>0. gparam \in [Pipelines -> ParamType]
    BY <1>0 DEF SchedulerTypeOK, ParamType
  <2>1. ASSUME NEW p, NEW x \in ParamType, gparam' = [gparam EXCEPT ![p] = x]
        PROVE  gparam' \in [Pipelines -> ParamType]
    BY <2>0, <2>1
  <2>2. call[c].pc \in {"prepare", "run", "running"} =>
          gparam[call[c].pipe] \in ParamType /\ call[c].pipe \in Pipelines
    <3>1. 1 .. built \subseteq Pipelines
      BY <1>0, SchedulerAssumption DEF SchedulerTypeOK, Pipelines
    <3>. QED  BY <2>0, <3>1 DEF Typed, UnderWay
  <2>3. CASE build_flow(c)
    BY <2>1, <2>0, <2>3 DEF build_flow, ParamType
  <2>4. CASE prepare(c)
    <3>. DEFINE p == call[c].pipe
                marked == IF call[c].streaming THEN [gparam[p] EXCEPT !.stream = c] ELSE gparam[p]
    <3>1. marked \in ParamType /\ call[c].pc = "prepare"
      BY <2>2, <2>4 DEF prepare, ParamType
    <3>2. PICK w \in Calls \cup {Nobody} : gparam' = [gparam EXCEPT ![p] = [marked EXCEPT !.args = w]]
      BY <2>4, <3>1 DEF prepare, ParamType
    <3>3. [marked EXCEPT !.args = w] \in ParamType
      BY <3>1 DEF ParamType
    <3>. QED  BY <2>1, <3>2, <3>3
  <2>5. CASE setup(c)
    <3>1. gparam' = [gparam EXCEPT ![call[c].pipe] = [gparam[call[c].pipe] EXCEPT !.state = Nobody]]
      BY <2>0, <2>2, <2>5 DEF setup
    <3>2. [gparam[call[c].pipe] EXCEPT !.state = Nobody] \in ParamType
      BY <2>2, <2>5 DEF setup, ParamType
    <3>. QED  BY <2>1, <3>1, <3>2
  <2>6. CASE run_ends(c)
    <3>. DEFINE p == call[c].pipe
    <3>1. gparam[p] \in ParamType /\ p \in Pipelines
      BY <2>2, <2>6 DEF run_ends
    <3>2. reset(gparam[p]) \in ParamType
          /\ [reset(gparam[p]) EXCEPT !.state = gparam[p].args] \in ParamType
      BY <3>1 DEF reset, ParamType
    <3>3. \/ gparam' = [gparam EXCEPT ![p] = [reset(gparam[p]) EXCEPT !.state = gparam[p].args]]
          \/ gparam' = [gparam EXCEPT ![p] = reset(gparam[p])]
      BY <2>0, <2>6, <3>1 DEF run_ends
    <3>. QED  BY <2>1, <3>2, <3>3
  <2>7. CASE UNCHANGED gparam
    BY <2>0, <2>7
  <2>. QED  BY <2>3, <2>4, <2>5, <2>6, <2>7
       DEF CallStep, Start, pipeline_init, post_deal, post_deal_stream
<1>5. runs' \in [Calls -> Nat] /\ answer' \in [Calls -> Calls \cup {Nobody}]
  <2>1. UNCHANGED runs \/ runs' = [runs EXCEPT ![c] = @ + 1]
    BY DEF CallStep, Start, build_flow, pipeline_init, prepare, setup, run_ends, post_deal,
           post_deal_stream
  <2>2. UNCHANGED answer \/ (call[c].pc \in {"post", "stream"}
                             /\ answer' = [answer EXCEPT ![c] = gparam[call[c].pipe].state])
    BY DEF CallStep, Start, build_flow, pipeline_init, prepare, setup, run_ends, post_deal,
           post_deal_stream
  <2>3. call[c].pc \in {"post", "stream"} => gparam[call[c].pipe].state \in Calls \cup {Nobody}
    <3>1. call[c].pc \in {"post", "stream"} => call[c].pipe \in 1 .. built
      BY DEF Typed, UnderWay
    <3>2. 1 .. built \subseteq Pipelines
      BY <1>0, SchedulerAssumption DEF SchedulerTypeOK, Pipelines
    <3>. QED  BY <1>0, <3>1, <3>2 DEF SchedulerTypeOK
  <2>. QED  BY <1>0, <2>1, <2>2, <2>3 DEF SchedulerTypeOK
<1>6. peak' \in [PoolFlows -> Nat]
  <2>1. CASE UNCHANGED peak
    BY <1>0, <2>1 DEF SchedulerTypeOK
  <2>2. CASE ~UNCHANGED peak
    <3>. DEFINE now == Cardinality(ActiveOn(call[c].flow)) + 1
    <3>1. /\ call[c].flow \in PoolFlows
          /\ peak' = [peak EXCEPT ![call[c].flow] = IF now > @ THEN now ELSE @]
      BY <2>2 DEF CallStep, Start, build_flow, pipeline_init, prepare, setup, run_ends,
                  post_deal, post_deal_stream
    <3>2. now \in Nat
      <4>1. ActiveOn(call[c].flow) \subseteq Calls
        BY DEF ActiveOn
      <4>. QED  BY <4>1, FS_Subset, FS_CardinalityType, SchedulerAssumption
    <3>. QED  BY <1>0, <3>1, <3>2 DEF SchedulerTypeOK
  <2>. QED  BY <2>1, <2>2
<1>7. SchedulerTypeOK'
  BY <1>1, <1>2, <1>3, <1>4, <1>5, <1>6
  DEF SchedulerTypeOK, Moves, CallType, PoolType, ParamType
<1>8. ASSUME NEW d \in Calls
      PROVE  /\ call'[d].pc \in {"idle", "build"} => call'[d].pipe = Nobody
             /\ UnderWay(d)' /\ call'[d].pc # "build" => call'[d].pipe \in 1 .. built'
             /\ UnderWay(d)' => call'[d].flow \in PoolFlows
             /\ call'[d].streaming => call'[d].flow \in Streamed
  <2>1. CASE d # c
    BY <1>1, <1>2, <2>1 DEF Moves, Typed, UnderWay
  <2>2. /\ call'[c].streaming => call'[c].flow \in Streamed
        /\ call'[c].pc # "idle"
    BY <1>1 DEF Moves, Typed, Ends, FindsNone, Fetches, Builds, Stays, Gives, UnderWay
  <2>3. CASE Ends(c) \/ Gives(c)
    BY <2>1, <2>2, <2>3 DEF Ends, Gives, UnderWay
  <2>4. CASE FindsNone(c)
    BY <1>1, <2>2, <2>4 DEF Moves, FindsNone, UnderWay, Typed
  <2>5. ASSUME NEW p \in Pipelines, Fetches(c, p) PROVE call'[c].pipe \in 1 .. built'
    BY <1>2, <2>5 DEF Fetches, Typed
  <2>6. CASE \E p \in Pipelines : Fetches(c, p)
    BY <1>1, <2>1, <2>2, <2>5, <2>6 DEF Moves, Fetches, Typed
  <2>7. CASE Builds(c)
    <3>1. built' \in 1 .. built'
      BY <1>2, <2>7 DEF Builds
    <3>2. call[c].flow \in PoolFlows
      BY <2>7 DEF Builds, Typed, UnderWay
    <3>. QED  BY <1>1, <2>1, <2>2, <2>7, <3>1, <3>2 DEF Moves, Builds
  <2>8. CASE Stays(c)
    BY <1>1, <1>2, <2>1, <2>2, <2>8 DEF Moves, Stays, Typed
  <2>. QED  BY <1>1, <2>1, <2>2, <2>3, <2>4, <2>6, <2>7, <2>8
<1>. QED  BY <1>3, <1>7, <1>8 DEF Typed
\* Every step hands pipelines over whole: what a call takes it takes from one
\* pool, what it gives back nobody else uses.
LEMMA PooledStep ==
  ASSUME Typed, Typed', Pooled, NEW c \in Calls, Start(c) \/ CallStep(c)
  PROVE  Pooled'
<1>0. SchedulerTypeOK /\ Nobody \notin Pipelines /\ 1 .. built \subseteq Pipelines
      /\ built \in Nat
  BY SchedulerAssumption DEF Typed, SchedulerTypeOK, Pipelines
<1>1. /\ Moves(c)
      /\ \/ Ends(c) \/ FindsNone(c) \/ (\E p \in Pipelines : Fetches(c, p))
         \/ Builds(c) \/ Stays(c) \/ Gives(c)
  BY CallSteps DEF Pooled
<1>. DEFINE f == call[c].flow
            p == call[c].pipe
<1>2. \A d \in Calls : d # c => call'[d] = call[d] /\ (UnderWay(d)' <=> UnderWay(d))
  BY <1>1 DEF Moves, UnderWay
<1>3. \A d \in Calls : /\ call'[d].pc \in {"idle", "prepare"} => ~call'[d].fresh
                       /\ call'[d].pc \in {"build", "init"} => call'[d].fresh
  <2>1. /\ call'[c].pc \in {"idle", "prepare"} => ~call'[c].fresh
        /\ call'[c].pc \in {"build", "init"} => call'[c].fresh
    <3>1. CASE prepare(c) \/ setup(c) \/ run_ends(c) \/ pipeline_init(c)
      <4>1. PICK pc \in {"run", "running", "post", "stream", "failed"} : Goto(c, pc)
        BY <3>1 DEF prepare, setup, run_ends, pipeline_init
      <4>. QED  BY <1>0, <4>1, GotoMoves DEF CallPCs
    <3>2. CASE post_deal(c) \/ post_deal_stream(c)
      <4>1. PICK pc \in {"returned", "failed"} : Goto(c, pc)
        BY <3>2 DEF post_deal, post_deal_stream
      <4>. QED  BY <1>0, <4>1, GotoMoves DEF CallPCs
    <3>3. CASE ~Stays(c)
      BY <1>1, <3>3 DEF Ends, FindsNone, Fetches, Builds, Gives, Pooled
    <3>4. Stays(c) => call[c].pc \notin {"idle", "build"}
      BY DEF Stays, UnderWay
    <3>. QED  BY <3>1, <3>2, <3>3, <3>4 DEF CallStep, Start, build_flow
  <2>. QED  BY <1>2, <2>1 DEF Pooled
<1>4. CASE Ends(c)
  <2>1. ~UnderWay(c)' /\ pool' = pool
    BY <1>4 DEF Ends, UnderWay
  <2>2. PipelineServesOneCall'
    BY <1>2, <2>1 DEF Pooled, PipelineServesOneCall
  <2>3. \A g \in PoolFlows : \A q \in pool'[g].busy :
          \E d \in ActiveOn(g)' : call'[d].pipe = q /\ ~call'[d].fresh
    <3>1. SUFFICES ASSUME NEW g \in PoolFlows, NEW q \in pool[g].busy
                   PROVE  \E d \in ActiveOn(g)' : call'[d].pipe = q /\ ~call'[d].fresh
      BY <2>1
    <3>2. PICK d \in ActiveOn(g) : call[d].pipe = q /\ ~call[d].fresh
      BY DEF Pooled
    <3>3. d # c
      BY <1>4, <3>2 DEF Ends, Pooled, ActiveOn, UnderWay
    <3>. QED  BY <1>2, <3>2, <3>3 DEF ActiveOn
  <2>. QED  BY <1>3, <2>1, <2>2, <2>3 DEF Pooled
<1>5. CASE FindsNone(c) \/ Builds(c) \/ Stays(c)
  <2>1. pool' = pool
    BY <1>5 DEF FindsNone, Builds, Stays
  <2>3. /\ \A g \in PoolFlows : built + 1 \notin pool[g].free
        /\ \A d \in Calls : UnderWay(d) => call[d].pipe # built + 1 \/ call[d].pipe = Nobody
    BY <1>0 DEF Typed
  <2>4. PipelineServesOneCall'
    <3>1. CASE Builds(c)
      <4>1. built + 1 \in Pipelines /\ call'[c].pipe = built + 1
        BY <1>0, <3>1, SchedulerAssumption DEF Builds, Pipelines
      <4>2. built + 1 # Nobody
        BY <1>0, <4>1
      <4>. QED  BY <1>2, <2>1, <2>3, <4>1, <4>2 DEF Pooled, PipelineServesOneCall
    <3>2. CASE FindsNone(c) \/ Stays(c)
      <4>1. \/ call'[c].pipe = call[c].pipe /\ UnderWay(c)
            \/ call'[c].pipe = Nobody
        BY <3>2 DEF FindsNone, Stays, Typed
      <4>. QED  BY <1>2, <2>1, <4>1 DEF Pooled, PipelineServesOneCall
    <3>. QED  BY <1>5, <3>1, <3>2
  <2>6. \A g \in PoolFlows : \A q \in pool'[g].busy :
          \E d \in ActiveOn(g)' : call'[d].pipe = q /\ ~call'[d].fresh
    <3>1. SUFFICES ASSUME NEW g \in PoolFlows, NEW q \in pool[g].busy
                   PROVE  \E d \in ActiveOn(g)' : call'[d].pipe = q /\ ~call'[d].fresh
      BY <2>1
    <3>2. PICK d \in ActiveOn(g) : call[d].pipe = q /\ ~call[d].fresh
      BY DEF Pooled
    <3>3. d = c => Stays(c)
      BY <1>5, <3>2 DEF FindsNone, Builds, Pooled, ActiveOn, UnderWay
    <3>4. call'[d].pipe = q /\ ~call'[d].fresh /\ UnderWay(d)' /\ call'[d].flow = call[d].flow
      BY <1>1, <1>2, <3>2, <3>3 DEF Stays, Moves, ActiveOn
    <3>. QED  BY <3>2, <3>4 DEF ActiveOn
  <2>. QED  BY <1>3, <2>1, <2>4, <2>6 DEF Pooled
<1>6. CASE \E q \in Pipelines : Fetches(c, q)
  <2>1. PICK q \in Pipelines : Fetches(c, q)
    BY <1>6
  <2>2. /\ f \in PoolFlows /\ q \in pool[f].free /\ q # Nobody
        /\ pool' = [pool EXCEPT ![f] = [free |-> @.free \ {q}, busy |-> @.busy \cup {q}]]
        /\ call'[c].pipe = q /\ ~call'[c].fresh /\ UnderWay(c)' /\ call'[c].flow = f
        /\ ~UnderWay(c)
    BY <1>0, <1>1, <1>3, <2>1 DEF Fetches, Moves, UnderWay
  <2>. HIDE DEF f
  <2>3. /\ pool'[f].free = pool[f].free \ {q}
        /\ pool'[f].busy = pool[f].busy \cup {q}
        /\ \A g \in PoolFlows : g # f => pool'[g] = pool[g]
    BY <1>0, <2>2, FetchedPool
  <2>4. \A g \in PoolFlows : q \notin pool'[g].free
    BY <2>2, <2>3 DEF Pooled
  <2>5. \A g \in PoolFlows : pool'[g].free \subseteq pool[g].free
    BY <2>3
  <2>6. \A d \in Calls : UnderWay(d) => call[d].pipe # q
    BY <2>2 DEF Pooled, PipelineServesOneCall
  <2>7. PipelineServesOneCall'
    BY <1>2, <2>2, <2>4, <2>5, <2>6 DEF Pooled, PipelineServesOneCall
  <2>8. \A g \in PoolFlows : \A r \in pool'[g].busy :
          \E d \in ActiveOn(g)' : call'[d].pipe = r /\ ~call'[d].fresh
    <3>1. \A g \in PoolFlows : \A r \in pool[g].busy :
            \E d \in ActiveOn(g)' : call'[d].pipe = r /\ ~call'[d].fresh
      BY <1>2, <2>2 DEF Pooled, ActiveOn
    <3>2. \A g \in PoolFlows : g = f => c \in ActiveOn(g)'
      BY <2>2 DEF ActiveOn
    <3>. QED  BY <2>2, <2>3, <3>1, <3>2
  <2>. QED  BY <1>3, <2>5, <2>7, <2>8 DEF Pooled
<1>7. CASE Gives(c)
  <2>1. /\ f \in PoolFlows /\ p \in Pipelines /\ p # Nobody /\ UnderWay(c) /\ ~UnderWay(c)'
        /\ IF call[c].fresh THEN add(f, p) ELSE release(f, p)
    BY <1>0, <1>7 DEF Gives, Typed, UnderWay
  <2>2. /\ \A g \in PoolFlows : p \notin pool[g].free
        /\ \A d \in Calls \ {c} : UnderWay(d) => call[d].pipe # p
    BY <2>1 DEF Pooled, PipelineServesOneCall
  <2>. HIDE DEF f, p
  <2>3. /\ pool'[f].free = pool[f].free \cup {p}
        /\ call[c].fresh => pool'[f].busy = pool[f].busy
        /\ ~call[c].fresh => pool'[f].busy = pool[f].busy \ {p}
        /\ \A g \in PoolFlows : g # f => pool'[g] = pool[g]
    BY <1>0, <2>1, GivenPool
  <2>4. PipelineServesOneCall'
    BY <1>2, <2>1, <2>2, <2>3 DEF Pooled, PipelineServesOneCall
  <2>5. \A g, h \in PoolFlows : g # h => pool'[g].free \cap pool'[h].free = {}
    BY <2>2, <2>3 DEF Pooled
  <2>6. \A g \in PoolFlows : \A r \in pool'[g].busy :
          \E d \in ActiveOn(g)' : call'[d].pipe = r /\ ~call'[d].fresh
    <3>. SUFFICES ASSUME NEW g \in PoolFlows, NEW r \in pool'[g].busy
                  PROVE  \E d \in ActiveOn(g)' : call'[d].pipe = r /\ ~call'[d].fresh
      OBVIOUS
    <3>1. r \in pool[g].busy /\ (g = f /\ ~call[c].fresh => r # p)
      BY <2>3
    <3>2. PICK d \in ActiveOn(g) : call[d].pipe = r /\ ~call[d].fresh
      BY <3>1 DEF Pooled
    <3>3. d # c
      BY <3>1, <3>2 DEF ActiveOn, f, p
    <3>. QED  BY <1>2, <3>2, <3>3 DEF ActiveOn
  <2>. QED  BY <1>3, <2>4, <2>5, <2>6 DEF Pooled
<1>. QED  BY <1>1, <1>4, <1>5, <1>6, <1>7

\* Types and pools together are invariant.
LEMMA PoolInvariant == SchedulerSpec => [](Typed /\ Pooled)
<1>1. SchedulerInit => Typed /\ Pooled
  <2>. SUFFICES ASSUME SchedulerInit PROVE Typed /\ Pooled
    OBVIOUS
  <2>1. \A c \in Calls : /\ call[c].pc = "idle" /\ call[c].pipe = Nobody /\ ~call[c].fresh
                         /\ ~UnderWay(c)
                         /\ call[c].streaming => call[c].flow \in Streamed
    BY DEF SchedulerInit, UnderWay
  <2>2. SchedulerTypeOK
    <3>1. call \in [Calls -> CallType]
      BY DEF SchedulerInit, CallType, CallPCs
    <3>. QED  BY <3>1, SchedulerAssumption DEF SchedulerInit, SchedulerTypeOK, CallType, FreshParams
  <2>3. \A f \in PoolFlows : pool[f].free = {} /\ pool[f].busy = {}
    BY DEF SchedulerInit
  <2>. QED  BY <2>1, <2>2, <2>3 DEF Typed, Pooled, PipelineServesOneCall
<1>2. Typed /\ Pooled /\ [SchedulerNext]_schedulerVars => (Typed /\ Pooled)'
  <2>. SUFFICES ASSUME Typed, Pooled, [SchedulerNext]_schedulerVars PROVE (Typed /\ Pooled)'
    OBVIOUS
  <2>1. CASE SchedulerNext
    BY <2>1, TypedStep, PooledStep DEF SchedulerNext
  <2>2. CASE UNCHANGED schedulerVars
    <3>1. Typed'
      BY <2>2 DEF schedulerVars, Typed, SchedulerTypeOK, UnderWay
    <3>2. Pooled'
      BY <2>2 DEF schedulerVars, Pooled, PipelineServesOneCall, ActiveOn, UnderWay
    <3>. QED  BY <3>1, <3>2
  <2>. QED  BY <2>1, <2>2
<1>. QED  BY <1>1, <1>2, PTL DEF SchedulerSpec

\* The scheduler's tables and the locals of its calls keep their types.
THEOREM SchedulerTypeCorrect == SchedulerSpec => []SchedulerTypeOK
<1>1. Typed /\ Pooled => SchedulerTypeOK
  BY DEF Typed
<1>. QED  BY <1>1, PoolInvariant, PTL

\* No pipeline is handed to a call while another call uses it, or offered to
\* the next one before the call that uses it is done with it: neither a failed
\* prepare, run or post_deal nor a new pipeline that is added breaks that.
THEOREM PipelinesAreExclusive == SchedulerSpec => []PipelineServesOneCall
<1>1. Typed /\ Pooled => PipelineServesOneCall
  BY DEF Pooled
<1>. QED  BY <1>1, PoolInvariant, PTL

----------------------------------------------------------------------------
(* A call returns the results of its own run                               *)

\* What the parameters of call c's pipeline hold, by where the call is, and what
\* the call has done so far.
Own(c) ==
  LET g == gparam[call[c].pipe]
  IN  /\ call[c].pc = "prepare" => g.stream = Nobody
      /\ call[c].pc \in {"init", "run", "running"} =>
           g.args = c /\ g.stream = IF call[c].streaming THEN c ELSE Nobody
      /\ call[c].pc \in {"post", "stream"} => g.state = c /\ g.stream = Nobody
      /\ call[c].pc \in {"idle", "build", "init", "prepare", "run"} => runs[c] = 0
      /\ runs[c] <= 1
      /\ call[c].pc = "returned" => answer[c] = c

\* A pipeline that is offered to the next call carries no stream flag.
Owned ==
  /\ \A c \in Calls : Own(c)
  /\ \A f \in PoolFlows : \A p \in pool[f].free : gparam[p].stream = Nobody

\* A step of c writes no other pipeline's parameters and no other call's
\* history, leaves its own as they should be, and clears the stream flag before
\* its pipeline is given back.
LEMMA OwnStep ==
  ASSUME Typed, Pooled, Owned, NEW c \in Calls, Start(c) \/ CallStep(c)
  PROVE  /\ Own(c)'
         /\ \A q \in Pipelines : q # call'[c].pipe => gparam'[q] = gparam[q]
         /\ \A d \in Calls : d # c => runs'[d] = runs[d] /\ answer'[d] = answer[d]
         /\ UNCHANGED pool \/ call[c].pc = "idle" \/ gparam'[call[c].pipe].stream = Nobody
         /\ call[c].pc = "idle" => UNCHANGED gparam
<1>0. /\ SchedulerTypeOK /\ Nobody \notin Pipelines
      /\ gparam \in [Pipelines -> ParamType]
      /\ runs \in [Calls -> Nat] /\ answer \in [Calls -> Calls \cup {Nobody}]
  BY SchedulerAssumption DEF Typed, SchedulerTypeOK, ParamType, Pipelines
<1>1. ASSUME NEW pc \in CallPCs, Goto(c, pc)
      PROVE  /\ call'[c].pc = pc /\ call'[c].pipe = call[c].pipe
             /\ call'[c].streaming = call[c].streaming
  BY <1>0, <1>1, GotoMoves DEF Moves
<1>2. UnderWay(c) /\ call[c].pc # "build" =>
        call[c].pipe \in Pipelines /\ gparam[call[c].pipe] \in ParamType
  <2>1. 1 .. built \subseteq Pipelines
    BY <1>0, SchedulerAssumption DEF SchedulerTypeOK, Pipelines
  <2>. QED  BY <1>0, <2>1 DEF Typed
<1>3. Own(c)
  BY DEF Owned
<1>4. CASE Start(c)
  <2>1. UNCHANGED <<gparam, runs, answer>> /\ call[c].pc = "idle" /\ runs[c] = 0
    BY <1>3, <1>4 DEF Start, Own
  <2>2. CASE call'[c].pc \in {"build", "failed"}
    BY <2>1, <2>2 DEF Own
  <2>3. CASE call'[c].pc \notin {"build", "failed"}
    <3>1. call[c].flow \in PoolFlows /\ fetch(c)
      BY <1>1, <1>4, <2>3 DEF Start, CallPCs
    <3>2. PICK p \in pool[call[c].flow].free : call'[c].pc = "prepare" /\ call'[c].pipe = p
      BY <1>0, <2>3, <3>1, FetchMoves
    <3>3. gparam'[p].stream = Nobody
      BY <2>1, <3>1 DEF Owned
    <3>. QED  BY <2>1, <3>2, <3>3 DEF Own
  <2>. QED  BY <2>1, <2>2, <2>3
<1>5. CASE build_flow(c)
  <2>0. call[c].pc = "build" /\ runs[c] = 0 /\ UNCHANGED <<pool, runs, answer>>
    BY <1>3, <1>5 DEF build_flow, Own
  <2>1. CASE Goto(c, "failed") /\ UNCHANGED <<built, gparam>>
    BY <1>1, <2>0, <2>1 DEF Own, CallPCs
  <2>2. CASE ~(Goto(c, "failed") /\ UNCHANGED <<built, gparam>>)
    <3>. DEFINE x == [args |-> c, state |-> Nobody,
                      stream |-> IF call[c].streaming THEN c ELSE Nobody]
    <3>1. /\ built < MaxBuilt /\ built' = built + 1
          /\ gparam' = [gparam EXCEPT ![built'] = x]
          /\ call' = [call EXCEPT ![c] = [@ EXCEPT !.pc = "init", !.pipe = built']]
      BY <1>5, <2>2 DEF build_flow
    <3>2. built' \in Pipelines
      BY <1>0, <3>1, SchedulerAssumption DEF SchedulerTypeOK, Pipelines
    <3>3. /\ call'[c].pc = "init" /\ call'[c].pipe = built'
          /\ call'[c].streaming = call[c].streaming
      BY <1>0, <3>1 DEF SchedulerTypeOK
    <3>4. gparam'[built'] = x /\ \A q \in Pipelines : q # built' => gparam'[q] = gparam[q]
      BY <1>0, <3>1, <3>2
    <3>. QED  BY <2>0, <3>3, <3>4 DEF Own
  <2>. QED  BY <2>1, <2>2
<1>6. CASE pipeline_init(c)
  <2>1. PICK pc \in {"run", "failed"} : Goto(c, pc)
    BY <1>6 DEF pipeline_init
  <2>. QED  BY <1>1, <1>3, <1>6, <2>1 DEF pipeline_init, Own, CallPCs
<1>7. CASE prepare(c)
  <2>. DEFINE p == call[c].pipe
              marked == IF call[c].streaming THEN [gparam[p] EXCEPT !.stream = c] ELSE gparam[p]
  <2>0. /\ call[c].pc = "prepare" /\ runs[c] = 0 /\ UNCHANGED <<runs, answer>>
        /\ p \in Pipelines /\ gparam[p] \in ParamType /\ gparam[p].stream = Nobody
    BY <1>2, <1>3, <1>7 DEF prepare, Own, UnderWay
  <2>1. /\ marked \in ParamType
        /\ marked.stream = IF call[c].streaming THEN c ELSE Nobody
    BY <2>0 DEF ParamType
  <2>2. CASE gparam' = [gparam EXCEPT ![p] = [marked EXCEPT !.args = c]]
             /\ Goto(c, "run") /\ UNCHANGED pool
    <3>1. /\ gparam'[p].args = c /\ gparam'[p].stream = marked.stream
          /\ \A q \in Pipelines : q # p => gparam'[q] = gparam[q]
      BY <1>0, <2>0, <2>1, <2>2 DEF ParamType
    <3>2. /\ call'[c].pc = "run" /\ call'[c].pipe = p
          /\ call'[c].streaming = call[c].streaming
      BY <1>1, <2>2 DEF CallPCs
    <3>. QED  BY <2>0, <2>1, <2>2, <3>1, <3>2 DEF Own
  <2>3. CASE ~(gparam' = [gparam EXCEPT ![p] = [marked EXCEPT !.args = c]]
               /\ Goto(c, "run") /\ UNCHANGED pool)
    <3>1. call[c].flow \in Validating /\ Goto(c, "failed")
          /\ \E w \in {marked.args, c} : gparam' = [gparam EXCEPT ![p] = [marked EXCEPT !.args = w]]
      BY <1>7, <2>3 DEF prepare
    <3>2. ~call[c].streaming
      BY <3>1, SchedulerAssumption DEF Typed
    <3>3. /\ gparam'[p].stream = Nobody
          /\ \A q \in Pipelines : q # p => gparam'[q] = gparam[q]
      BY <1>0, <2>0, <2>1, <3>1, <3>2 DEF ParamType
    <3>4. call'[c].pc = "failed" /\ call'[c].pipe = p
      BY <1>1, <3>1 DEF CallPCs
    <3>. QED  BY <2>0, <3>3, <3>4 DEF Own
  <2>. QED  BY <2>2, <2>3
<1>8. CASE setup(c)
  <2>. DEFINE p == call[c].pipe
  <2>0. /\ call[c].pc = "run" /\ runs[c] = 0 /\ p \in Pipelines /\ gparam[p] \in ParamType
        /\ gparam[p].args = c /\ gparam[p].stream = IF call[c].streaming THEN c ELSE Nobody
    BY <1>2, <1>3, <1>8 DEF setup, Own, UnderWay
  <2>1. /\ gparam'[p].args = gparam[p].args /\ gparam'[p].stream = gparam[p].stream
        /\ \A q \in Pipelines : q # p => gparam'[q] = gparam[q]
    BY <1>0, <1>8, <2>0 DEF setup, ParamType
  <2>2. runs'[c] = 1 /\ \A d \in Calls : d # c => runs'[d] = runs[d]
    BY <1>0, <1>8, <2>0 DEF setup
  <2>3. /\ call'[c].pc = "running" /\ call'[c].pipe = p
        /\ call'[c].streaming = call[c].streaming
    BY <1>1, <1>8 DEF setup, CallPCs
  <2>. QED  BY <1>8, <2>0, <2>1, <2>2, <2>3 DEF setup, Own
<1>9. CASE run_ends(c)
  <2>. DEFINE p == call[c].pipe
  <2>0. /\ call[c].pc = "running" /\ p \in Pipelines /\ gparam[p] \in ParamType
        /\ gparam[p].args = c /\ runs[c] <= 1 /\ UNCHANGED <<runs, answer>>
    BY <1>2, <1>3, <1>9 DEF run_ends, Own, UnderWay
  <2>1. /\ gparam'[p].stream = Nobody
        /\ \A q \in Pipelines : q # p => gparam'[q] = gparam[q]
    BY <1>0, <1>9, <2>0 DEF run_ends, reset, ParamType
  <2>2. CASE Goto(c, "failed")
    BY <1>1, <2>0, <2>1, <2>2 DEF Own, CallPCs
  <2>3. CASE ~Goto(c, "failed")
    <3>1. PICK pc \in {"stream", "post"} : Goto(c, pc)
      BY <1>9, <2>3 DEF run_ends
    <3>2. gparam'[p].state = c
      BY <1>0, <1>9, <2>0, <2>3 DEF run_ends, reset, ParamType
    <3>3. call'[c].pc = pc /\ call'[c].pipe = p
      BY <1>1, <3>1 DEF CallPCs
    <3>. QED  BY <2>0, <2>1, <3>1, <3>2, <3>3 DEF Own
  <2>. QED  BY <2>2, <2>3
<1>10. CASE post_deal(c) \/ post_deal_stream(c)
  <2>0. /\ call[c].pc \in {"post", "stream"} /\ UNCHANGED <<gparam, runs>> /\ runs[c] <= 1
        /\ gparam[call[c].pipe].state = c /\ gparam[call[c].pipe].stream = Nobody
    BY <1>3, <1>10 DEF post_deal, post_deal_stream, Own
  <2>1. CASE Goto(c, "failed") /\ UNCHANGED answer
    BY <1>1, <2>0, <2>1 DEF Own, CallPCs
  <2>2. CASE Goto(c, "returned") /\ answer' = [answer EXCEPT ![c] = gparam[call[c].pipe].state]
    <3>1. answer'[c] = c /\ \A d \in Calls : d # c => answer'[d] = answer[d]
      BY <1>0, <2>0, <2>2
    <3>2. call'[c].pc = "returned"
      BY <1>1, <2>2 DEF CallPCs
    <3>. QED  BY <2>0, <3>1, <3>2 DEF Own
  <2>. QED  BY <1>10, <2>1, <2>2 DEF post_deal, post_deal_stream
<1>. QED  BY <1>4, <1>5, <1>6, <1>7, <1>8, <1>9, <1>10 DEF CallStep

\* Because no two calls use one pipeline, a step of c leaves the parameters of
\* the others and of the free pipelines alone.
LEMMA OwnedStep ==
  ASSUME Typed, Pooled, Pooled', Owned, NEW c \in Calls, Start(c) \/ CallStep(c)
  PROVE  Owned'
<1>0. SchedulerTypeOK /\ Nobody \notin Pipelines /\ 1 .. built \subseteq Pipelines
  BY SchedulerAssumption DEF Typed, SchedulerTypeOK, Pipelines
<1>1. /\ Moves(c)
      /\ \/ Ends(c) \/ FindsNone(c) \/ (\E p \in Pipelines : Fetches(c, p))
         \/ Builds(c) \/ Stays(c) \/ Gives(c)
  BY CallSteps DEF Pooled
<1>2. /\ Own(c)'
      /\ \A q \in Pipelines : q # call'[c].pipe => gparam'[q] = gparam[q]
      /\ \A d \in Calls : d # c => runs'[d] = runs[d] /\ answer'[d] = answer[d]
      /\ UNCHANGED pool \/ call[c].pc = "idle" \/ gparam'[call[c].pipe].stream = Nobody
      /\ call[c].pc = "idle" => UNCHANGED gparam
  BY OwnStep
<1>3. ASSUME NEW d \in Calls, d # c PROVE Own(d)'
  <2>1. call'[d] = call[d] /\ Own(d)
    BY <1>1, <1>3 DEF Moves, Owned
  <2>2. CASE UnderWay(d) /\ call[d].pc # "build"
    <3>1. call[d].pipe \in Pipelines
      BY <1>0, <2>2 DEF Typed
    <3>2. gparam'[call[d].pipe] = gparam[call[d].pipe]
      <4>1. CASE UnderWay(c)'
        <5>1. call'[c].pipe # call'[d].pipe
          BY <1>0, <1>3, <2>1, <2>2, <3>1, <4>1 DEF Pooled, PipelineServesOneCall, UnderWay
        <5>. QED  BY <1>2, <2>1, <3>1, <5>1
      <4>2. CASE ~UnderWay(c)' /\ UnderWay(c)
        <5>1. call'[c].pipe = call[c].pipe
          BY <1>1, <4>2 DEF Ends, FindsNone, Fetches, Builds, Stays, Gives, UnderWay
        <5>2. call[c].pipe # call[d].pipe
          BY <1>0, <1>3, <2>2, <3>1, <4>2 DEF Pooled, PipelineServesOneCall
        <5>. QED  BY <1>2, <3>1, <5>1, <5>2
      <4>3. CASE ~UnderWay(c)' /\ ~UnderWay(c)
        <5>1. call[c].pc = "idle"
          BY <4>3 DEF UnderWay, Start, CallStep, build_flow, pipeline_init, prepare, setup,
                      run_ends, post_deal, post_deal_stream
        <5>. QED  BY <1>2, <5>1
      <4>. QED  BY <4>1, <4>2, <4>3
    <3>. QED  BY <1>2, <1>3, <2>1, <3>2 DEF Own
  <2>3. CASE ~(UnderWay(d) /\ call[d].pc # "build")
    BY <1>2, <1>3, <2>1, <2>3 DEF Own, UnderWay
  <2>. QED  BY <2>2, <2>3
<1>4. ASSUME NEW f \in PoolFlows, NEW p \in pool'[f].free PROVE gparam'[p].stream = Nobody
  <2>1. CASE p \in pool[f].free
    <3>1. gparam[p].stream = Nobody /\ p \in Pipelines
      BY <1>0, <2>1 DEF Owned, SchedulerTypeOK
    <3>2. CASE UnderWay(c)' /\ call'[c].pipe # Nobody
      <4>1. p # call'[c].pipe
        BY <1>4, <3>2 DEF Pooled, PipelineServesOneCall
      <4>. QED  BY <1>2, <3>1, <4>1
    <3>3. CASE UnderWay(c)' /\ call'[c].pipe = Nobody
      BY <1>0, <1>2, <3>1, <3>3
    <3>4. CASE ~UnderWay(c)' /\ call[c].pc # "idle"
      <4>1. UnderWay(c)
        BY <3>4 DEF UnderWay, Start, CallStep, build_flow, pipeline_init, prepare, setup,
                    run_ends, post_deal, post_deal_stream
      <4>2. call'[c].pipe = call[c].pipe
        BY <1>1, <3>4 DEF Ends, FindsNone, Fetches, Builds, Stays, Gives, UnderWay
      <4>3. p # call[c].pipe
        BY <1>0, <2>1, <3>1, <4>1 DEF Pooled, PipelineServesOneCall
      <4>. QED  BY <1>2, <3>1, <4>2, <4>3
    <3>5. CASE call[c].pc = "idle"
      BY <1>2, <3>1, <3>5
    <3>. QED  BY <3>2, <3>3, <3>4, <3>5
  <2>2. CASE p \notin pool[f].free
    <3>1. pool' # pool
      BY <1>4, <2>2
    <3>2. Gives(c)
      <4>1. ASSUME NEW q \in Pipelines, Fetches(c, q) PROVE p \in pool[f].free
        <5>. DEFINE h == call[c].flow
        <5>1. /\ h \in PoolFlows /\ q \in pool[h].free
              /\ pool' = [pool EXCEPT ![h] = [free |-> @.free \ {q}, busy |-> @.busy \cup {q}]]
          BY <4>1 DEF Fetches
        <5>. HIDE DEF h
        <5>. QED  BY <1>0, <1>4, <5>1, FetchedPool
      <4>. QED  BY <1>1, <2>2, <3>1, <4>1 DEF Ends, FindsNone, Builds, Stays
    <3>3. p = call[c].pipe
      <4>1. call[c].flow \in PoolFlows /\ call[c].pipe \in Pipelines
        BY <1>0, <3>2 DEF Gives, Typed
      <4>2. add(call[c].flow, call[c].pipe) \/ release(call[c].flow, call[c].pipe)
        BY <3>2 DEF Gives
      <4>. QED  BY <1>0, <1>4, <2>2, <4>1, <4>2, GivenPool
    <3>. QED  BY <1>2, <3>1, <3>2, <3>3 DEF Gives, UnderWay
  <2>. QED  BY <2>1, <2>2
<1>. QED  BY <1>2, <1>3, <1>4 DEF Owned

\* A call's nodes read its own input and nothing that an earlier or a failed
\* call left in the pipeline; it runs the pipeline once and returns what that
\* run computed.
THEOREM AnswersAreOwn == SchedulerSpec => []AnswerIsOwn
<1>1. SchedulerInit => Owned
  <2>. SUFFICES ASSUME SchedulerInit PROVE Owned
    OBVIOUS
  <2>1. \A c \in Calls : call[c].pc = "idle" /\ runs[c] = 0
    BY DEF SchedulerInit
  <2>2. \A f \in PoolFlows : pool[f].free = {}
    BY DEF SchedulerInit
  <2>. QED  BY <2>1, <2>2 DEF Owned, Own
<1>2. Typed /\ Pooled /\ Pooled' /\ Owned /\ [SchedulerNext]_schedulerVars => Owned'
  <2>. SUFFICES ASSUME Typed, Pooled, Pooled', Owned, [SchedulerNext]_schedulerVars PROVE Owned'
    OBVIOUS
  <2>1. CASE SchedulerNext
    BY <2>1, OwnedStep DEF SchedulerNext
  <2>2. CASE UNCHANGED schedulerVars
    BY <2>2 DEF schedulerVars, Owned, Own
  <2>. QED  BY <2>1, <2>2
<1>3. Owned => AnswerIsOwn
  BY DEF Owned, Own, AnswerIsOwn
<1>. QED  BY <1>1, <1>2, <1>3, PoolInvariant, PTL DEF SchedulerSpec

----------------------------------------------------------------------------
(* Reuse bounds the pools                                                  *)

\* The calls of flow f that use a pipeline, and those that are building one.
Using(f) == {d \in ActiveOn(f) : call[d].pipe # Nobody}
Building(f) == {d \in ActiveOn(f) : call[d].pipe = Nobody}

\* The pipelines that the pool or the calls of flow f hold.
Held(f) == pool[f].free \cup pool[f].busy \cup {call[c].pipe : c \in Using(f)}

\* A call that is building is as good as a pipeline: it will bring one.
Bounded == \A f \in PoolFlows : Cardinality(Held(f)) + Cardinality(Building(f)) <= peak[f]

\* One more element is at most one more in number.
LEMMA AtMostOneMore ==
  ASSUME NEW S, IsFiniteSet(S), NEW x, NEW T, T \subseteq S \cup {x}
  PROVE  Cardinality(T) \in Nat /\ Cardinality(T) <= Cardinality(S) + 1
<1>1. IsFiniteSet(S \cup {x}) /\ Cardinality(S) \in Nat
  BY FS_AddElement, FS_CardinalityType
<1>2. Cardinality(S \cup {x}) = IF x \in S THEN Cardinality(S) ELSE Cardinality(S) + 1
  BY FS_AddElement
<1>3. Cardinality(T) <= Cardinality(S \cup {x}) /\ Cardinality(T) \in Nat
  BY <1>1, FS_Subset, FS_CardinalityType
<1>. QED  BY <1>1, <1>2, <1>3

\* The sets that are counted are finite; at most one pipeline per call is in use.
LEMMA HeldFinite ==
  ASSUME Typed, NEW f \in PoolFlows
  PROVE  /\ Held(f) \subseteq Pipelines /\ IsFiniteSet(Held(f)) /\ Cardinality(Held(f)) \in Nat
         /\ IsFiniteSet(Building(f)) /\ Cardinality(Building(f)) \in Nat
         /\ IsFiniteSet(Using(f)) /\ Cardinality(Using(f)) \in Nat
         /\ Cardinality({call[c].pipe : c \in Using(f)}) <= Cardinality(Using(f))
         /\ Cardinality(ActiveOn(f)) = Cardinality(Using(f)) + Cardinality(Building(f))
<1>0. /\ SchedulerTypeOK /\ 1 .. built \subseteq Pipelines
      /\ IsFiniteSet(Calls) /\ MaxBuilt \in Nat
  BY SchedulerAssumption DEF Typed, SchedulerTypeOK, Pipelines
<1>1. Using(f) \subseteq Calls /\ Building(f) \subseteq Calls
  BY DEF Using, Building, ActiveOn
<1>2. /\ IsFiniteSet(Building(f)) /\ Cardinality(Building(f)) \in Nat
      /\ IsFiniteSet(Using(f)) /\ Cardinality(Using(f)) \in Nat
  BY <1>0, <1>1, FS_Subset, FS_CardinalityType
<1>3. Held(f) \subseteq Pipelines
  <2>1. \A d \in Using(f) : call[d].pipe \in Pipelines
    BY <1>0, <1>1 DEF Using, SchedulerTypeOK
  <2>2. pool[f].free \cup pool[f].busy \subseteq Pipelines
    BY <1>0 DEF Typed
  <2>. QED  BY <2>1, <2>2 DEF Held
<1>4. IsFiniteSet(Pipelines)
  BY <1>0, FS_Interval DEF Pipelines
<1>5. IsFiniteSet(Held(f)) /\ Cardinality(Held(f)) \in Nat
  BY <1>3, <1>4, FS_Subset, FS_CardinalityType
<1>6. Cardinality({call[c].pipe : c \in Using(f)}) <= Cardinality(Using(f))
  <2>. DEFINE U == Using(f)
              P == {call[c].pipe : c \in U}
              m == [c \in U |-> call[c].pipe]
  <2>1. m \in Surjection(U, P)
    BY DEF Surjection
  <2>. HIDE DEF m
  <2>. QED  BY <1>2, <2>1, FS_Surjection
<1>7. Cardinality(ActiveOn(f)) = Cardinality(Using(f)) + Cardinality(Building(f))
  <2>1. ActiveOn(f) = Using(f) \cup Building(f) /\ Using(f) \cap Building(f) = {}
    BY DEF Using, Building
  <2>2. Cardinality(Using(f) \cup Building(f)) =
          Cardinality(Using(f)) + Cardinality(Building(f)) - Cardinality(Using(f) \cap Building(f))
    BY <1>2, FS_Union
  <2>3. Cardinality(Using(f) \cap Building(f)) = 0
    BY <2>1, FS_EmptySet
  <2>4. Cardinality(ActiveOn(f)) = Cardinality(Using(f) \cup Building(f))
    BY <2>1
  <2>. QED  BY <1>2, <2>2, <2>3, <2>4
<1>. QED  BY <1>2, <1>3, <1>5, <1>6, <1>7

\* A flow that neither holds more pipelines nor builds more keeps its bound.
LEMMA NoMoreHeld ==
  ASSUME Typed, NEW f \in PoolFlows, peak[f] \in Nat, peak'[f] \in Nat,
         Cardinality(Held(f)) + Cardinality(Building(f)) <= peak[f],
         Held(f)' \subseteq Held(f), Building(f)' \subseteq Building(f), peak[f] <= peak'[f]
  PROVE  Cardinality(Held(f)') + Cardinality(Building(f)') <= peak'[f]
<1>1. /\ IsFiniteSet(Held(f)) /\ Cardinality(Held(f)) \in Nat
      /\ IsFiniteSet(Building(f)) /\ Cardinality(Building(f)) \in Nat
  BY HeldFinite
<1>2. /\ Cardinality(Held(f)') <= Cardinality(Held(f)) /\ Cardinality(Held(f)') \in Nat
  BY <1>1, FS_Subset, FS_CardinalityType
<1>3. /\ Cardinality(Building(f)') <= Cardinality(Building(f)) /\ Cardinality(Building(f)') \in Nat
  BY <1>1, FS_Subset, FS_CardinalityType
<1>. QED  BY <1>1, <1>2, <1>3

\* Every step keeps the bound: a pipeline is built only when none was free, so
\* that every pipeline of the flow was then in the hands of a call.
LEMMA BoundedStep ==
  ASSUME Typed, Typed', Pooled, Bounded, NEW c \in Calls, Start(c) \/ CallStep(c)
  PROVE  Bounded'
<1>0. /\ SchedulerTypeOK /\ Nobody \notin Pipelines /\ 1 .. built \subseteq Pipelines
      /\ built \in Nat /\ peak \in [PoolFlows -> Nat] /\ peak' \in [PoolFlows -> Nat]
  BY SchedulerAssumption DEF Typed, SchedulerTypeOK, Pipelines
<1>1. /\ Moves(c)
      /\ \/ Ends(c) \/ FindsNone(c) \/ (\E p \in Pipelines : Fetches(c, p))
         \/ Builds(c) \/ Stays(c) \/ Gives(c)
  BY CallSteps DEF Pooled
<1>2. \A d \in Calls : d # c => call'[d] = call[d] /\ (UnderWay(d)' <=> UnderWay(d))
  BY <1>1 DEF Moves, UnderWay
<1>3. /\ \A g \in PoolFlows : peak[g] <= peak'[g]
      /\ call[c].pc = "idle" /\ call[c].flow \in PoolFlows =>
           Cardinality(ActiveOn(call[c].flow)) + 1 <= peak'[call[c].flow]
  <2>1. CASE call[c].pc = "idle" /\ call[c].flow \in PoolFlows
    <3>. DEFINE now == Cardinality(ActiveOn(call[c].flow)) + 1
    <3>1. peak' = [peak EXCEPT ![call[c].flow] = IF now > @ THEN now ELSE @]
      BY <2>1 DEF Start, CallStep, build_flow, pipeline_init, prepare, setup, run_ends,
                  post_deal, post_deal_stream
    <3>2. now \in Nat
      <4>1. ActiveOn(call[c].flow) \subseteq Calls
        BY DEF ActiveOn
      <4>. QED  BY <4>1, FS_Subset, FS_CardinalityType, SchedulerAssumption
    <3>. HIDE DEF now
    <3>3. now <= peak'[call[c].flow] /\ \A g \in PoolFlows : peak[g] <= peak'[g]
      BY <1>0, <2>1, <3>1, <3>2
    <3>. QED  BY <3>3 DEF now
  <2>2. CASE ~(call[c].pc = "idle" /\ call[c].flow \in PoolFlows)
    <3>1. peak' = peak
      BY <2>2 DEF Start, CallStep, build_flow, pipeline_init, prepare, setup, run_ends,
                  post_deal, post_deal_stream
    <3>. QED  BY <1>0, <2>2, <3>1
  <2>. QED  BY <2>1, <2>2
<1>. SUFFICES ASSUME NEW g \in PoolFlows
              PROVE  Cardinality(Held(g)') + Cardinality(Building(g)') <= peak'[g]
  BY DEF Bounded
<1>4. /\ Cardinality(Held(g)) + Cardinality(Building(g)) <= peak[g]
      /\ peak[g] \in Nat /\ peak'[g] \in Nat /\ peak[g] <= peak'[g]
  BY <1>0, <1>3 DEF Bounded
<1>5. SUFFICES \/ Held(g)' \subseteq Held(g) /\ Building(g)' \subseteq Building(g)
               \/ Cardinality(Held(g)') + Cardinality(Building(g)') <= peak'[g]
  BY <1>4, NoMoreHeld
<1>6. CASE call[c].flow # g
  <2>1. pool'[g] = pool[g]
    <3>1. ASSUME NEW q \in Pipelines, Fetches(c, q) PROVE pool'[g] = pool[g]
      <4>. DEFINE h == call[c].flow
      <4>1. /\ h \in PoolFlows /\ q \in pool[h].free /\ h # g
            /\ pool' = [pool EXCEPT ![h] = [free |-> @.free \ {q}, busy |-> @.busy \cup {q}]]
        BY <1>6, <3>1 DEF Fetches
      <4>. HIDE DEF h
      <4>. QED  BY <1>0, <4>1, FetchedPool
    <3>2. ASSUME Gives(c) PROVE pool'[g] = pool[g]
      <4>1. call[c].flow \in PoolFlows /\ call[c].pipe \in Pipelines
        BY <1>0, <3>2 DEF Gives, Typed
      <4>2. add(call[c].flow, call[c].pipe) \/ release(call[c].flow, call[c].pipe)
        BY <3>2 DEF Gives
      <4>. QED  BY <1>0, <1>6, <4>1, <4>2, GivenPool
    <3>. QED  BY <1>1, <3>1, <3>2 DEF Ends, FindsNone, Builds, Stays
  <2>2. call'[c].flow # g
    BY <1>1, <1>6 DEF Moves
  <2>3. \A d \in Calls : d \in ActiveOn(g)' => d \in ActiveOn(g) /\ call'[d] = call[d]
    BY <1>2, <2>2 DEF ActiveOn
  <2>. QED  BY <2>1, <2>3 DEF Held, Building, Using, ActiveOn
<1>7. CASE call[c].flow = g
  <2>0. call'[c].flow = g
    BY <1>1, <1>7 DEF Moves
  <2>1. CASE Ends(c)
    <3>1. ~UnderWay(c)' /\ pool' = pool
      BY <2>1 DEF Ends, UnderWay
    <3>2. \A d \in Calls : d \in ActiveOn(g)' => d \in ActiveOn(g) /\ call'[d] = call[d]
      BY <1>2, <3>1 DEF ActiveOn
    <3>. QED  BY <3>1, <3>2 DEF Held, Building, Using, ActiveOn
  <2>2. CASE Stays(c)
    <3>1. pool' = pool
      BY <2>2 DEF Stays
    <3>2. \A d \in Calls : d \in ActiveOn(g)' => d \in ActiveOn(g) /\ call'[d].pipe = call[d].pipe
      BY <1>2, <1>7, <2>2 DEF ActiveOn, Stays
    <3>. QED  BY <3>1, <3>2 DEF Held, Building, Using, ActiveOn
  <2>3. CASE \E q \in Pipelines : Fetches(c, q)
    <3>1. PICK q \in Pipelines : Fetches(c, q)
      BY <2>3
    <3>2. /\ q \in pool[g].free /\ q # Nobody /\ call'[c].pipe = q
          /\ pool' = [pool EXCEPT ![g] = [free |-> @.free \ {q}, busy |-> @.busy \cup {q}]]
      BY <1>0, <1>7, <3>1 DEF Fetches
    <3>3. pool'[g].free = pool[g].free \ {q} /\ pool'[g].busy = pool[g].busy \cup {q}
      BY <1>0, <3>2, FetchedPool
    <3>4. \A d \in Calls : d \in ActiveOn(g)' /\ d # c => d \in ActiveOn(g) /\ call'[d] = call[d]
      BY <1>2 DEF ActiveOn
    <3>5. Building(g)' \subseteq Building(g)
      BY <3>2, <3>4 DEF Building, ActiveOn
    <3>6. Held(g)' \subseteq Held(g)
      BY <3>2, <3>3, <3>4 DEF Held, Using, ActiveOn
    <3>. QED  BY <3>5, <3>6
  <2>4. CASE Gives(c)
    <3>1. /\ call[c].pipe \in Pipelines /\ call[c].pipe # Nobody /\ c \in ActiveOn(g)
          /\ ~UnderWay(c)'
      BY <1>0, <1>7, <2>4 DEF Gives, Typed, ActiveOn, UnderWay
    <3>2. add(g, call[c].pipe) \/ release(g, call[c].pipe)
      BY <1>7, <2>4 DEF Gives
    <3>3. /\ pool'[g].free = pool[g].free \cup {call[c].pipe}
          /\ pool'[g].busy \subseteq pool[g].busy
      BY <1>0, <3>1, <3>2, GivenPool
    <3>4. \A d \in Calls : d \in ActiveOn(g)' => d \in ActiveOn(g) /\ call'[d] = call[d]
      BY <1>2, <3>1 DEF ActiveOn
    <3>5. call[c].pipe \in Held(g)
      BY <3>1 DEF Held, Using
    <3>6. Held(g)' \subseteq Held(g)
      BY <3>3, <3>4, <3>5 DEF Held, Using, ActiveOn
    <3>. QED  BY <3>4, <3>6 DEF Building, ActiveOn
  <2>5. CASE Builds(c)
    <3>1. /\ pool' = pool /\ peak' = peak /\ c \in ActiveOn(g) /\ call[c].pipe = Nobody
          /\ call'[c].pipe = built + 1 /\ built + 1 \in Pipelines
      BY <1>0, <1>7, <2>5, SchedulerAssumption DEF Builds, Typed, ActiveOn, UnderWay, Pipelines
    <3>2. \A d \in Calls : d \in ActiveOn(g)' /\ d # c => d \in ActiveOn(g) /\ call'[d] = call[d]
      BY <1>2 DEF ActiveOn
    <3>3. Held(g)' \subseteq Held(g) \cup {built + 1}
      BY <3>1, <3>2 DEF Held, Using, ActiveOn
    <3>4. Building(g)' \subseteq Building(g) \ {c} /\ c \in Building(g)
      BY <1>0, <3>1, <3>2 DEF Building, ActiveOn
    <3>5. /\ IsFiniteSet(Held(g)) /\ Cardinality(Held(g)) \in Nat
          /\ IsFiniteSet(Building(g)) /\ Cardinality(Building(g)) \in Nat
      BY HeldFinite
    <3>6. Cardinality(Held(g)') <= Cardinality(Held(g)) + 1 /\ Cardinality(Held(g)') \in Nat
      BY <3>3, <3>5, AtMostOneMore
    <3>7. Cardinality(Building(g)') <= Cardinality(Building(g)) - 1
          /\ Cardinality(Building(g)') \in Nat
      <4>1. /\ IsFiniteSet(Building(g) \ {c})
            /\ Cardinality(Building(g) \ {c}) = Cardinality(Building(g)) - 1
        BY <3>4, <3>5, FS_RemoveElement
      <4>2. /\ Cardinality(Building(g)') <= Cardinality(Building(g) \ {c})
            /\ Cardinality(Building(g)') \in Nat
        BY <3>4, <4>1, FS_Subset, FS_CardinalityType
      <4>. QED  BY <4>1, <4>2
    <3>. QED  BY <1>4, <3>5, <3>6, <3>7
  <2>6. CASE FindsNone(c)
    <3>1. /\ pool' = pool /\ pool[g].free = {} /\ call[c].pc = "idle"
          /\ call'[c].pipe = Nobody /\ UnderWay(c)' /\ ~UnderWay(c)
      BY <1>7, <2>6 DEF FindsNone, Typed, UnderWay
    <3>2. \A d \in Calls : d # c => (d \in ActiveOn(g)' <=> d \in ActiveOn(g)) /\ call'[d] = call[d]
      BY <1>2 DEF ActiveOn
    <3>3. Held(g)' \subseteq {call[d].pipe : d \in Using(g)}
      <4>1. pool[g].busy \subseteq {call[d].pipe : d \in Using(g)}
        <5>. SUFFICES ASSUME NEW q \in pool[g].busy
                      PROVE  \E d \in Using(g) : q = call[d].pipe
          OBVIOUS
        <5>1. PICK d \in ActiveOn(g) : call[d].pipe = q
          BY DEF Pooled
        <5>2. q # Nobody
          BY <1>0 DEF Typed
        <5>. QED  BY <5>1, <5>2 DEF Using
      <4>2. \A d \in Calls : d \in Using(g)' => d \in Using(g) /\ call'[d].pipe = call[d].pipe
        BY <3>1, <3>2 DEF Using, ActiveOn
      <4>3. Using(g)' \subseteq Calls
        BY DEF Using, ActiveOn
      <4>4. {call'[d].pipe : d \in Using(g)'} \subseteq {call[d].pipe : d \in Using(g)}
        BY <4>2, <4>3
      <4>. QED  BY <3>1, <4>1, <4>4 DEF Held
    <3>4. Building(g)' \subseteq Building(g) \cup {c}
      BY <3>2 DEF Building, ActiveOn
    <3>5. /\ IsFiniteSet(Building(g)) /\ Cardinality(Building(g)) \in Nat
          /\ IsFiniteSet(Using(g)) /\ Cardinality(Using(g)) \in Nat
          /\ Cardinality({call[d].pipe : d \in Using(g)}) <= Cardinality(Using(g))
          /\ Cardinality(ActiveOn(g)) = Cardinality(Using(g)) + Cardinality(Building(g))
      BY HeldFinite
    <3>6. Cardinality(Held(g)') <= Cardinality(Using(g)) /\ Cardinality(Held(g)') \in Nat
      <4>. DEFINE P == {call[d].pipe : d \in Using(g)}
      <4>1. P \subseteq Held(g) /\ IsFiniteSet(Held(g))
        BY HeldFinite DEF Held
      <4>2. IsFiniteSet(P) /\ Cardinality(P) \in Nat /\ Cardinality(P) <= Cardinality(Using(g))
        BY <3>5, <4>1, FS_Subset, FS_CardinalityType
      <4>3. Held(g)' \subseteq P
        BY <3>3
      <4>. HIDE DEF P
      <4>4. Cardinality(Held(g)') <= Cardinality(P) /\ Cardinality(Held(g)') \in Nat
        BY <4>2, <4>3, FS_Subset, FS_CardinalityType
      <4>. QED  BY <3>5, <4>2, <4>4
    <3>7. Cardinality(Building(g)') <= Cardinality(Building(g)) + 1
          /\ Cardinality(Building(g)') \in Nat
      BY <3>4, <3>5, AtMostOneMore
    <3>8. Cardinality(ActiveOn(g)) + 1 <= peak'[g]
      BY <1>3, <1>7, <3>1
    <3>. QED  BY <1>4, <3>5, <3>6, <3>7, <3>8
  <2>. QED  BY <1>1, <2>1, <2>2, <2>3, <2>4, <2>5, <2>6
<1>. QED  BY <1>6, <1>7

\* However many calls come and go and however they fail, a flow never owns more
\* pipelines than calls of it ran at once: reuse, not max_pipeline, bounds the
\* pools.
THEOREM ReuseBoundsThePools == SchedulerSpec => []PoolBoundedByPeak
<1>1. SchedulerInit /\ Typed => Bounded
  <2>. SUFFICES ASSUME SchedulerInit, Typed, NEW f \in PoolFlows
                PROVE  Cardinality(Held(f)) + Cardinality(Building(f)) <= peak[f]
    BY DEF Bounded
  <2>1. ActiveOn(f) = {}
    BY DEF SchedulerInit, ActiveOn, UnderWay
  <2>2. Held(f) = {} /\ Building(f) = {} /\ peak[f] = 0
    BY <2>1 DEF SchedulerInit, Held, Building, Using
  <2>. QED  BY <2>2, FS_EmptySet
<1>2. Typed /\ Typed' /\ Pooled /\ Bounded /\ [SchedulerNext]_schedulerVars => Bounded'
  <2>. SUFFICES ASSUME Typed, Typed', Pooled, Bounded, [SchedulerNext]_schedulerVars
                PROVE  Bounded'
    OBVIOUS
  <2>1. CASE SchedulerNext
    BY <2>1, BoundedStep DEF SchedulerNext
  <2>2. CASE UNCHANGED schedulerVars
    BY <2>2 DEF schedulerVars, Bounded, Held, Building, Using, ActiveOn, UnderWay
  <2>. QED  BY <2>1, <2>2
<1>3. Typed /\ Bounded => PoolBoundedByPeak
  <2>. SUFFICES ASSUME Typed, Bounded, NEW f \in PoolFlows
                PROVE  Cardinality(Held(f)) <= peak[f]
    BY DEF PoolBoundedByPeak, Held, Using
  <2>1. Cardinality(Held(f)) \in Nat /\ Cardinality(Building(f)) \in Nat
    BY HeldFinite
  <2>2. peak[f] \in Nat
    BY DEF Typed, SchedulerTypeOK
  <2>. QED  BY <2>1, <2>2 DEF Bounded
<1>. QED  BY <1>1, <1>2, <1>3, PoolInvariant, PTL DEF SchedulerSpec
=============================================================================

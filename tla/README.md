# Causal5G: a TLA+ verification project

Causal5G watches the network functions (NFs) of a 5G core, looks for the root
cause of a fault in a causal graph, remediates it and feeds the outcomes of the
remediation back into the graph. This directory holds TLA+ models of that
system, TLC runs that check them on small instances, and TLAPS proofs of
theorems that hold for every instance. Paths below are relative to `src/` of
the repository; `frg.py` is `api/frg.py`, `rae.py` is `api/rae.py`, `rcsm.py` is
`causal/engine/rcsm.py`, `dcgm.py` is `causal/graph/dcgm.py`, `pc_algorithm.py`
is `causal/engine/pc_algorithm.py`, `executor.py`, `policy_store.py` and
`verifier.py` are in `causal5g/remediation/`.

Check a model with `tlc -config X.cfg M`, a proof module with `tlapm M.tla`.

## 1. Inventory

One process. The FastAPI application of `frg.py` serves requests on an asyncio
event loop; `pipeline_loop` runs in a daemon thread next to it. The two share
module-level objects and **nothing locks**.

| component | state it keeps | operations | speaks to |
|---|---|---|---|
| Remediation Action Engine, `rae.py` | `history`, `feedback_buffer`, three counters | `trigger_remediation` (gate, policy table, call, outcome), list endpoints | Kubernetes stubs (await), the pipeline by `get_feedback_buffer` |
| Analysis pipeline and service, `frg.py` | `PipelineState`: cycle, report and history, candidates, feedback index, clients | `pipeline_loop`, fault inject and recover, `docker restart`, recalibration reset, report lookup | all of the components below |
| Root cause scoring, `rcsm.py` | `_exited_nfs`, counters, `last_scores` | `score`, `generate_report` | docker (inspect), telemetry buffer, graph |
| Causal graph, `dcgm.py` | `networkx` graph with edge weights, snapshots | prior seeding, Granger update, `apply_recalibration` | pipeline |
| Recalibrator, `causal/engine/recalibrator.py` | `edge_weights`, per-scenario history, counters | `recalibrate` (decay, process, adjust), `reset`, getters | pipeline; `reset` from the event loop |
| Telemetry and Granger engine, `telemetry/collector/nf_scraper.py`, `causal/engine/granger.py` | `TelemetryBuffer`: a bounded series per NF and metric | scrape, ingest, readiness, pairwise tests | NFs over HTTP, pipeline |
| Fault injector, `faults/injector.py` | `active_faults`, log | inject, recover | docker CLI |
| PC algorithm and fusion, `pc_algorithm.py` | none between calls | skeleton, v-structures, Meek rules, CPDAG, `fuse` | its router |
| PC router, `api/pc_causal.py` | the last result and the last fusion | fit, fuse, compare | PC algorithm |
| Slice topology, attribution and router, `causal5g/slice_topology.py`, `causal5g/causal/slice_ensemble.py`, `api/slice_router.py` | a registry of slices | register, remove, graph of a slice, prune, leakage, attribute | pipeline and event loop |
| Live feed, `frg.py` | the list of WebSocket clients | connect, greet, broadcast | both threads |
| Metrics, `causal5g/observability/metrics.py` | registry, handles, availability | `ensure`, the recording helpers, rendering | both threads |
| Control panel, `api/control.py` | the page's containers and buttons | list, start, stop, compose up and down | docker, the browser |
| Remediation executor, `executor.py` | the cached Kubernetes clients; otherwise the calls under way | `execute`: seven actions under one timeout each | Kubernetes API through the thread pool; not wired into the service |
| Policy store, `policy_store.py` | policies, version, audit log | create, change, switch, delete, choice for a scenario | not wired into the service |
| Verifier, `verifier.py` | verdicts, three counters | `verify` | not wired into the service |
| Report store, `causal5g/rca/report.py` | reports | generate, list, PATCH | not mounted in the service |
| DAG builders, offline attribution, SBI, PFCP and KPI collectors, scripts | see section 6 | | |

What is hard, component by component, and what would make it right:

- *RAE*: calls overlap on one event loop while others are skipped; history,
  feedback and counters are updated at different places and trimmed apart.
  Right means: the counters account for every request, the history and the
  feedback tell one story, every triggered call is reported.
- *Feedback loop*: an index into a list that another thread appends to and cuts
  from the front, and a reset from a third place. Right means: outcomes are
  learned from in order, at most once, and evidence never lands on another NF.
- *Recalibrator and graph*: decay, adjustment, clamping and repeated
  multiplication in an order that only some edges go through, and a reset that
  replaces the state between any two edges. Right means: bounded, moved only by
  evidence, sibling edges consistent, with no more excepted than the reset cut.
- *Detection*: container states, a telemetry series and remembered crashes of
  different ages disagree for a while. Right means: a live crash is ranked
  first, a remembered one expires, an outage ends the all-clear.
- *Telemetry*: series are bounded one by one, aligned by their ends, and an NF
  that is down leaves gaps in some of them. Right means: what is set side by
  side is of the same cycles.
- *PC, fusion and router*: the sets a link is tested with depend on what was
  removed before; noisy data make colliders contradict each other; the rules
  change what earlier visits of the same pass have judged; two caches are of
  different ages. Right means: what the data support is kept, no arrow is wrong
  on data that tell the truth, the loop converges to a closed result, fusion
  contradicts no truth, and a comparison fits together.
- *Executor*: a timeout races a late answer; a call that a thread has begun
  cannot be taken back; a drain is many calls, some of which fail, on a cluster
  that reschedules pods meanwhile; abandoned calls hold the threads. Right
  means: success is done, nothing is done twice, at most one step follows a
  timeout, a clean drain leaves nothing on its node that is not on its way out,
  and every call returns.
- *Live feed, history, metrics, slices*: a `for` loop over a list, or a walk
  over a registry, while the other thread changes it. Right means: nobody is
  told twice, nobody is told nothing, what is there is found, a sample is
  counted, and a result is of the slice it names.
- *Control panel*: answers to refreshes come in any order. Right means: the
  page comes to show what docker says.
- *Policy store, verifier, reports*: long sequences of legal calls, a log that
  is cut, thresholds on differences of doubles. Right means: the log tells
  what the store holds, a choice has a reason, and signals are monotone in the scores.

`PROJECT.json` lists all hazards with their lines and the properties that
cover them, or why none does.

## 2. Modules

| module | models | EXTENDS / INSTANCE |
|---|---|---|
| `RAE` | `rae.py`, `trigger_remediation` and everything it calls | |
| `OutcomeLog` | abstract: outcomes reported, ingested in order and once | |
| `FeedbackLoop` | the feedback buffer, the pipeline's index and `recalibrate`, at the grain of the two threads | `OutcomeLog` (refinement) |
| `Recalibrator` | the numbers of `recalibrate`, `update_from_granger`, `apply_recalibration` | |
| `FaultDetection` | faults, containers, scraping, `score`, `generate_report` | |
| `RemediationContract` | abstract: what an execution promises its caller | |
| `Executor` | `executor.py`: event loop, thread pool, API server and scheduler | `RemediationContract` (refinement) |
| `CausalGraphs` | reference: acyclic graphs, equivalence, d-separation | |
| `PCAlgorithm` | `PCAlgorithm.fit` phase by phase, `GrangerPCFusion.fuse` | `CausalGraphs` |
| `PCRouter` | the two caches of `api/pc_causal.py` and the comparison made from them | |
| `Telemetry` | the series of the telemetry buffer and what the Granger engine tests | |
| `PolicyStore` | policies, version, audit log, the choice for a scenario | |
| `Verifier` | verdicts and signals | |
| `ReportStore` | the RCA reports and PATCH | |
| `LiveFeed` | clients, their handlers, broadcasts of both threads | |
| `ReportHistory` | the publication of a report and a lookup meanwhile | |
| `Metrics` | `ensure` and the helpers, read by read | |
| `SliceTopology` | the graphs of slices and their pruning | |
| `SliceAttribution` | the slice registry and an attribution under it | `SliceTopology` |
| `ControlPanel` | the page, its refreshes and commands, and docker behind them | |
| `MCStores` | composes `PolicyStore`, `Verifier`, `ReportStore`, `Telemetry`, `PCRouter` | these |
| `MCServing` | composes `LiveFeed`, `ReportHistory`, `Metrics`, `SliceAttribution`, `ControlPanel` | these |
| other `MC*` | constants for TLC | the module they name |
| `*Proofs` | the theorems of a module; `StoresProofs` and `ServingProofs` those of the parts of `MCStores` and `MCServing` | these, `TLAPS` |

Definitions below a `mutant` comment are plausible bugs; each differs in one
detail from the definition it stands next to and none is used by a
specification. For each property one of them breaks it.

### RAE

`Skip`, `Trigger` and `Settle` are the three stretches of `trigger_remediation`
between which the event loop may run another request: below the gate, up to the
`await`, and from its answer to the return. `record` holds the mutable record
objects, `history` the references to them. The Kubernetes call is external.
The stubs in the repository always return success; the models also let the call
return without success and raise, since the code handles both (`rae.py:308`,
`rae.py:205`). A call that returns without success counts as succeeded with
outcome 0: that is the code.

### FeedbackLoop and OutcomeLog

A step is what one thread does between two accesses to state the other may
change: `_push_feedback` is an append and a trim, `reset_recalibration` a new
state object and an index, `recalibrate` a read and a write for every key, and
for every entry an append to its history, the slice of one that is too long
(`CutHistory`) and the place it is stored in (`ReplaceHistory`): each reads
`self.state` anew, and a reset may fall between any two. Outcomes are numbers in
report order, and a weight is the set of outcomes behind it; `Recalibrator` has
the numbers and all edges of an NF, of which one stands for the others here.
`cycle_count` and timestamps are left out, and each NF has one fault scenario in
the per-scenario history. `DecayRead` of a key that a reset has taken away is
the `KeyError` that `frg.py:173` catches: the tick ends with the index not
moved. `ingested`, `learned`, `passedOver` and `carried` are history variables:
what was in a batch since the last rewind and ever, what was in a batch below
the minimum, and the slice that the last reset found between the two reads.

`OutcomeLog` is what the loop promises: whole batches, in order, nothing twice
until a rewind. `FeedbackLoop!Abstract` maps the reported outcomes and the
history variable `ingested` to it.

### Recalibrator

Weights are integers in ten-thousandths, the precision `dcgm.py:171` rounds to.
The multipliers of the code are doubles; `Fade` rounds the tenth it removes so
that the rest of the distance is rounded toward neutral, and the graph's
`round(x, 4)` is `Round` (half up, where Python goes to the even neighbour of
an exact tie). `LearningRate` is even so that a self edge's half is exact.
A pass goes edge by edge: `Begin` lists the keys, `DecayRead` and `DecayWrite`,
then `AdjustRead` and `AdjustWrite` take one edge each, `CountCycle` and
`CountEntries` follow, and `ApplyRecalibration` scales the graph by a copy of the
weights. `Reset` may fall between any two of these, and the pass then goes on
with the new state. Three things follow from that and are said in the
properties, not modelled away: the weight at hand is written into the new state
(`carried`), the edges of an NF that is half visited part (`torn`), and a decay
whose keys are gone ends the pass. `credited` and `blamed` are the NFs that
outcomes written since the last reset are about. All four are history variables.

### FaultDetection

The docker commands are external: one does what it says or fails, and its exit
code is ignored as in `injector.py:64`. A scrape fails for every NF that is
down and for any set of others in its cascade. `nf_reachability` receives 0.0
on a failure and nothing on a success (`nf_scraper.py:126-150`), so `misses`,
the length of the series, is all there is to it. Granger links, Bayesian and
centrality scores are inputs. Score and publication are separate steps, so that
the event loop acts between them; here publication is one step, `ReportHistory`
has its parts. `answers`, `lastDown` and `seen` are history variables.

### Telemetry

A sample is the number of the cycle it was taken in, for what a test compares is
which cycles it sets against each other. `Ingest` is one scrape of all NFs and
its entry into the bounded series, `Analyze` the pairwise tests once enough
cycles are there. Every NF yields latency when it answers, perhaps one metric of
its own, and reachability when it does not. The statistics are external: whether
a series is differenced, and whether a pair shows a link, is a choice. A value
that is tested is a pair of cycles: a sample is of one, a difference of the two
samples it is taken of, which an outage may lie between. `answering` is a history
variable.

### PCAlgorithm, CausalGraphs and PCRouter

`fit` has no await, so its steps interleave with nothing: `Test` is one link of
a level, `EndLevel` applies the removals, `OrientVStructures` the second phase,
`Visit` one link of a pass of the rule loop, `EndPass` the loop's decision.
Links are taken in the order of the columns, as networkx yields them. Orienting
an edge only removes its reverse, so the second phase is one step whatever its
order. Data are either faithful to a graph of `Laws`, where the test of a link
is d-separation, or arbitrary, where each test says what it likes, which
includes data too short to test (`pc_algorithm.py:206`) and singular ones. The
statistics are left out, and so are the weights of fused edges, which their
method determines. `Fused` is an operator on the result: `fuse` keeps no state.
`CausalGraphs` holds textbook definitions, none of them translated from the
code: they are what the algorithm is measured against.

`PCRouter` has the two caches: `Fit` replaces the result and leaves the fusion,
`Fuse` replaces the fusion, and `Comparison` puts both side by side; `fusedFrom`
and `posted`, what the last fusion was made of, are history variables. The results
are any patterns over `MetricLinks`, contradictory ones included.

### Executor and RemediationContract

`Execute` is `execute` up to its first Kubernetes call, `Resume` the handler
from an answer to its next call or its end, `Timeout` the timer of `wait_for`.
A call is `queued` for the pool, `running` on a worker, then `done` or
`raised`. A cancelled handler takes a queued call out of the pool; a running
one goes on, and its answer reaches nobody. `call`, `todo` and `refused` are
what a suspended coroutine holds; `applied` and `late` are history variables.
External are the pool (it may serve waiting calls in any order), the API server
(it may serve a call, serve it and lose the answer, refuse it, or never answer),
the kubelet and the scheduler (it places a lost pod on any node that is not
cordoned). A deletion or an eviction that is served either takes the pod off its
node at once or begins a grace period (`terminating`), which `Stopped` ends at any
time or never; the code posts 30 seconds for a drain (`executor.py:327`) and goes
on without waiting.
Retries, parameters and the wording of results are left out: `execute` has no
retry. Calls of an execution never overlap, so one record per execution is all
the state there is.

`RemediationContract` knows results and changes only. `Executor!Contract` maps
the state to it; what success vouches for is the one call of an action, or the
cordon of a drain, whose evictions may be refused.

### PolicyStore, Verifier and ReportStore

No handler of the three awaits anything, so each operation is one action. A
policy is named by its place in the order of creation; `Change` is PATCH and, with
`Switch`, enable and disable; `Audit` is part of each and logs a `Snapshot`, which
has all fields of a policy but its description. `Selected` and
`OrderedActions` are `get_ordered_actions`. In `Verifier` scores are in
hundredths; where a difference is exactly the minimal improvement the rounding
of doubles decides, and both outcomes are possible. `Generate` of `ReportStore`
derives severity, chain and advice once, `UpdateStatus` is PATCH.

### LiveFeed and ReportHistory

`LiveFeed` has one step for each thing a broadcast does to the list that others
may change: `Send` reads at its own index, `EndSending` is the end of the `for`
loop, `Remove` takes one dead client out or raises because another has. Tasks of
the event loop give way only at an await (`held`); the pipeline thread may come
between any two steps. A send to a client that has gone raises; so may any send
of the pipeline, whose `asyncio.run` is another loop than the socket's.
`Connect`, `Greet` and `Leave` are `websocket_live` and its client.

`ReportHistory` has the assignments of a publication one by one, and a lookup
index by index. Ids are used in turn, more of them than the history holds.

### Metrics

Each read and write of the shared object is a step: the test of the registry,
the import, the twelve handles, `available`. A registry is named by the thread
that built it, a handle by the registry it reports to, so that a handle of one
registry and the rendering of another are told apart. `installed` is whether
`prometheus_client` can be imported.

### SliceTopology and SliceAttribution

A configuration is the set of a slice's own NFs. `Prune` is `prune_for_fault`
with the search by rounds; `LeakageClass` and the weights are there. `Attribute`
takes the list of slices, `PruneSlice` looks the registry up again for each, and
registrations and removals come between. The confidence of an attribution is a
formula on its numbers and left out.

### ControlPanel

`Ask`, `List` and `Show` are a refresh: the request, docker's answer, the
rendering. Several are under way at once. `Command` to `CommandEnds` is compose
up or down, `Click` and `Toggle` the button of one container. `Otherwise` is
what others do to docker.

### Composition

The parts of `MCStores` share no variable with each other, and neither do those
of `MCServing`: in the code they are different objects that no call connects.
An interleaving of two such parts is a product of their behaviours, and a
property of one sees its own part only. `focus`, chosen once, says which part
moves; so each run covers the behaviours of all parts without their product.
`FeedSkips.cfg` runs `LiveFeed` by itself.

## 3. Runs

| run | shows | bounds | states |
|---|---|---|---|
| `rae` | counters, history, feedback and reports agree in every interleaving | 4 requests, history limit 2: both lists overflow with a request in flight and with skips between | 259 thousand |
| `feedback` | order, single ingestion, attribution, history and weights, progress, under a full buffer and a reset | 4 outcomes, buffer of 3, minimum 2, 2 NFs, 1 reset, history of 3: one outcome is cut off, a short batch and a full one occur, a history is trimmed, and the reset meets every step of a pass | 274 thousand |
| `feedback_stuck` | **violation**: once the buffer is full, new outcomes slip below the index | buffer of 2 | |
| `recalibrator` | bounds, sibling agreement, direction, weakening, each against a reset between any two accesses | 2 passes of 2 entries with a rate of 0.5, so that floor, ceiling and the neutral point are all met by one batch and the second pass has weights to decay; an NF with two siblings and a self edge and one with one; 1 link, 1 reset | 3.6 million |
| `detection` | crash first, boost fresh, outage reported | 2 NFs, one crash and one pause, windows of 2 cycles, base scores below and above the floor | 238 thousand |
| `detection_stale` | **violation**: a recovered NF stays unreachable | windows of 3 | |
| `pc` | the skeleton, sound arrows, convergence and closure of the rules, fusion | 4 variables, all 543 acyclic graphs over them and arbitrary data, sets of at most 2: colliders, chains, contradicting colliders and both rules occur | 39 thousand |
| `pc_column_order` | **violation**: the result depends on the order of the columns | same | |
| `executor` | the contract, what a clean drain leaves, no call for ever | a drain of one of two nodes with two pods, a restart of a pod that the drain also evicts, a rollback and an unknown action, on one worker: calls wait for an abandoned one, evictions meet a pod that has gone, has moved or is terminating | 145 thousand |
| `serving` | broadcasts, lookups, metrics, attributions and the panel, each against what the other thread or the browser does meanwhile | 2 clients, the pipeline and one handler that broadcast; history of 2 and 5 ids; 2 threads and 2 handles; 2 slices; 2 containers, 2 refreshes at a time, 3 changes: a broadcast removes under another, a cut overtakes a lookup, both threads build metrics, a slice is replaced and removed under an attribution, answers overtake each other | 226 thousand |
| `feed_skips` | **violation**: a connected client is stepped over | 2 clients, 2 broadcasters | |
| `stores` | audit log and choice, signals, kept reports, aligned series, comparison | 3 policies, 3 changes, a log of 2: it is cut while a policy's older entry is in it, and descriptions change; scores at and beside each threshold; 2 reports, 2 PATCHes; a window of 4 in 5 cycles: an outage lies within a window and within a difference; 3 metrics in a chain, fitted and fused in any order | 972 thousand |

The windows and limits of the code (200 entries, 60 samples, 3 or more cycles)
are constants here, as are the four conditioning variables of `max_cond_set`;
every comparison with them is modelled, so small values reach the same
branches. Bounds of the models and not of the code are `MaxOutcomes`,
`MaxResets`, `MaxBatch`, `MaxCycles`, `MaxLinks`, `TrackedAnswers`, and in the
newer modules everything that ends in `Cap`, `IdCount` and `InFlight`. No
symmetry is used: the NFs are distinguished by order or topology, and the runs
with clients, requests and refreshes check liveness.

Deadlock is checked in the runs of `FeedbackLoop` and `FaultDetection`, whose
pipelines never end, in `serving` and in `feed_skips`. `RAE` ends when each of
its requests has returned, `Executor` when every execution has, `PCAlgorithm`
when `fit` has, `Recalibrator` and the parts of `MCStores` when their bounds are
used up: there it is not checked.

### Fairness

- `RAE`: every call in flight settles. The stubs await `asyncio.sleep`, and the
  event loop runs every timer that is due.
- `FeedbackLoop`: the pipeline thread goes on (`WF(Pipeline)`): every exception
  of a pass is caught in `pipeline_loop`. A handler that has begun goes on to
  its end, for it awaits nothing between its steps. Nothing forces a report or
  a reset.
- `FaultDetection`: the pipeline goes on. Nothing forces docker to answer, a
  fault to be injected or a recovery.
- `Executor`: the timer of each call fires. The event loop fires every timer
  that is due; no answer, worker or placement is promised, so
  `EveryExecutionReturns` rests on the timeout alone.
- `LiveFeed`: the pipeline goes on, and broadcasts again and again, each to its
  end. Fault handlers promise nothing.
- `ControlPanel`: the page's interval recurs, requests that were sent are
  answered or fail, docker commands end. `PanelCatchesUp` is asked for only
  where docker answers in the end.
- All other modules: none, they have safety properties only.

## 4. Findings

Four runs show where the code and what the repository says of it part; the
quotes are in `PROJECT.json`.

1. `feedback_stuck`: `frg.py:161` sets the index to the length of a list that
   stops growing at 200. From then on the slice is empty for good and the loop
   learns nothing more (`FullBufferEndsLearning` proves it for every limit).
   `LearnedOrTooFew` is the part that does hold.
2. `detection_stale`: the reachability series only receives zeros, so that an NF
   that has failed three scrapes ever counts as unreachable from then on
   (`OutageIsCriticalForGood`).
3. `pc_column_order`: conditioning sets come from the neighbours of a link's
   first endpoint only (`pc_algorithm.py:415`), and which one is first is the
   order of the columns. `SkeletonFromFirstSide` is the part that does hold, and
   `CausesInLaterColumns` says for which orders it is enough.
4. `feed_skips`: a removal shifts the list under another broadcast's `for` loop
   (`frg.py:97`), which steps over a client. `EachClientOnce` says when it does
   not.

Met on the way, visible in the code without a run of their own:

- `recalibrator.py:142`: a batch below the minimum is passed over and the index
  moves on (`frg.py:161`), so that an outcome that comes alone is never learned
  from, where `frg.py:152` says that any new entries are consumed.
  `LearnedOrTooFew` says that no others are lost before the buffer overflows.
- `recalibrator.py:239`, `165`: a reset in the middle of a pass does not reset
  all state, as `recalibrator.py:225` and `frg.py:344` say: the edge at hand
  brings its old weight along, later edges are adjusted in the new state and
  earlier siblings are not. `DirectionNeedsEvidence`, `WeakenedOnlyByFailure` and
  `SiblingsMoveAsOne` except exactly these, and are false without the exceptions.
- `recalibrator.py:161`: in the same way a trim may store a slice of the old
  history in the new state. `HistoryIsInWeights` excepts that one list.
- `executor.py:353`: a drain posts evictions with a grace period and reports
  success without waiting for it to end, where the docstring at line 321 says
  "equivalent to kubectl drain", which waits. `CleanDrainEvictsAll` says what
  success means: what is still on the node is on its way out.
- `policy_store.py:195`: a snapshot has no description, which PATCH changes (line
  148): the log does not tell that one field. `AuditTellsStore` is about the rest.
- `api/pc_causal.py:286`: after a second fit a comparison shows the fused edges of
  the first result beside the second. `ComparisonFitsFusedResult` says that the
  classes are those of the result that was fused.
- `granger.py:219`: nothing but their ends aligns two series. After an outage of
  one NF samples of different cycles are compared, and a difference may span the
  outage (line 183). `LinksCompareSameCycles` says where that cannot be.

- `rae.py:279`: skipped calls append to the history and do not trim it, where
  `rae.py:52` names a maximum. `OverflowIsSkipped` says what the excess is.
- `frg.py:348`: the reset rewinds the index and keeps the buffer, so that the
  outcomes it clears are learned again, where its docstring says that all state
  is reset.
- `executor.py:388`: a rollback annotates the current template. The pods
  restart; the earlier spec, which the docstring says is restored, is not.
- `slice_topology.py:236`: edges that are passed replace the topology's, where
  the docstring says that they are intersected with them.
- `pc_algorithm.py:501`: of Meek's rules R1 to R4, which the docstring lists, two
  are applied. `pc_algorithm.py:734`: of two edges in conflict one is flagged and
  the other is listed as PC's own, where the class's docstring (line 653) says
  that both are flagged; and only directed edges are added as PC's own, where it
  says that they may be undirected (line 651).
- `causal5g/observability/metrics.py:109`: the import is paid once per process,
  unless two threads build at the same time; then handles may report to a
  registry that nobody renders. `NoLossOnceSettled` says when that is over.
- `verifier.py:48`: the improvement is "post - pre", line 120 computes the
  opposite; `TIMEOUT` is an outcome that nothing yields.
- `causal5g/rca/report.py`: severity and advice are those of the generation, a
  PATCH of the outcome does not refresh them. `ReportsAreKept` says so.
- `api/control.py:562`: the page posts faults to a path that no router has;
  `api/control.py:537`: after a call that throws the buttons stay disabled.
- `rcsm.py:445`: a crash is scored 1.01, where the engine's request model
  (`rae.py:331`) admits at most 1.0.
- `causal5g/graph/bilevel_dag.py:92`: registering a slice again replaces its
  subgraph and leaves the marks that the old one has put on shared NFs.

## 5. Proofs

All hold for every value of the constants under the ASSUME of the module.

| theorem | argument |
|---|---|
| `RAEProofs!TypeCorrect`, `OverflowAlwaysSkipped` | inductive with the type invariant; a settling call trims the overflow away, a skip adds a skipped record |
| `RAEProofs!CountersAlwaysAgree` | cardinalities of the status classes; a request enters or leaves one class at a time (`Enters`, `Stays`) |
| `RAEProofs!HistoryAlwaysAgrees` | `Story`, see below |
| `FeedbackLoopProofs!BufferIsLatestAlways`, `LoopIngestsInOrderOnce` | `IndexInv`, see below |
| `FeedbackLoopProofs!EvidenceStaysAttributed`, `HistoryAlwaysInWeights`, `LearnedUntilOverflow` | `FiledInv`, `HistoryInv`, `PassedInv` on top of it |
| `FeedbackLoopProofs!FullBufferEndsLearning` | `PassInv`: no list of a pass is longer than the buffer may be, so at most one entry is ever beyond an index at the bound |
| `FeedbackLoopProofs!PassesAreBounded` | `PassLeft` counts what the loops of a pass have still to visit |
| `RecalibratorProofs!MultipliersStayBounded`, `SiblingsAlwaysMoveAsOne`, `DirectionAlwaysEvidenced` | `MultiplierInv`, see below; what `Fade`, `Clamp` and `Delta` do are lemmas |
| `RecalibratorProofs!GraphStaysBounded`, `OnlyFailureWeakens` | `GraphInv` and `ScaledProperties`: a multiplier of at least one weakens nothing inside the safe range |
| `FaultDetectionProofs!BoostAlwaysFresh` | `AgeInv`: a remembered age is never below the true distance from the last time down |
| `FaultDetectionProofs!CrashAlwaysFirst` | of nodes with a score that no other reaches, the one first in order exists (`LeastIndex`, by well-ordering) and is a winner (`FirstIsBest`) |
| `FaultDetectionProofs!OutageIsCriticalForGood` | the series of misses never shrinks; the highest score is at least the floor of a NF counted as unreachable (`FirstIsHighest`) |
| `PCAlgorithmProofs!TypeCorrect`, `SkeletonIsTested`, `MeekAlwaysConverges`, `NothingLeftToOrient`, `OnlyContradictionErases` | one invariant for the types and phases, one for each phase's promise, see below |
| `PCAlgorithmProofs!OrientationAlwaysSound`, `CollidersAlwaysFound`, `TruthAlwaysAgrees` | `SoundInv`, see below |
| `PCAlgorithmProofs!CausesInLaterColumns`, `FitIsRightWhenCausesComeLater` | the causes of a variable separate it from what stands in later columns (`LaterCausesSeparate`), and are among its neighbours to the end |
| `ExecutorProofs!TypeCorrect`, `CleanDrainLeavesNone`, `ExecutorKeepsContract` | `ExecInv`, see below |
| `ExecutorProofs!ExecutionsAreBounded` | `StepsAhead`: four steps to each call an execution may still make |
| `StoresProofs!PolicyTypeCorrect`, `AuditAlwaysTells`, `EveryChoiceIsAudited` | every operation replaces one policy and logs it (`StepsReplace`); `LatestKeepsTheEnd` for the cut; policies that are not yet born are not there |
| `StoresProofs!SignalsAlwaysFollow` | each verdict is one that its scores may be given, and those are monotone |
| `StoresProofs!ComparisonFits` | the cached fusion is the one its history variables describe; case by case over the methods |
| `StoresProofs!LinksAlwaysCompareSameCycles` | `SamplesAreRecent`: the last samples of an NF, as many as it has answered in a row, are of the last cycles; `AlignedIsTheEnd` for differenced and plain series alike, position by position |
| `StoresProofs!ReportsAlwaysKept` | type of the reports; generation appends, PATCH touches two fields |
| `ServingProofs!FoundUnlessHistoryIsCut`, `LatestIsListed` | `HistoryInv`: what a lookup is after is not behind it as long as nothing was cut |
| `ServingProofs!SamplesAreKept`, `SettledForGood` | `MetricsInv`: where each thread is in `ensure` bounds what has been built |
| `ServingProofs!EachClientIsReached` | `FeedInv`, see below |
| `ServingProofs!SearchIsComplete`, `ResultsAlwaysOfTheSlice` | a round of the search that finds nothing new is the last one, and there are no more sources than edges; `SliceInv`, see below |

`IngestsInOrderOnce` is not inductive: that a batch is new depends on where the
index stands relative to a snapshot taken earlier from a buffer cut since.
`IndexInv` says, for each place the pass may be, that the snapshot is a window
of the log that ends no later than the buffer does, that the entries at and
below the index in any list of the loop include all ingested ones, and that the
batch of a pass under way is the part of the log right behind them, unless a
reset has rewound the loop since. The proof has one lemma per action
that can disturb it; all other steps of the pass are `InsideKeeps`.

`FiledInv` adds that the weight a step of `recalibrate` holds in its hand is
about the NF it will be written back to, so that a write after a reset files
nothing elsewhere. `HistoryInv` follows an entry of the history from the loop
that counts it to the write of its weight: it is in the weights, in the weight
held, or in the part of the batch still to come, or it was in the one slice that
a reset found on its way from one state to the next (`carried`). `PassedInv`
holds the index to what was learned or passed over as long as the buffer has not
been cut.

`MultiplierInv` is about the edges while the loops visit them. `Final` is what
the loop under way leaves of an edge, visited or not, and `SiblingInv` says that
it is the same for siblings: a step of a loop keeps it, which is why agreement
between the passes survives the disagreement within them. That a write makes
`Final` true rests on `HeldInv`: the weight at hand is the one in the state,
unless a reset has torn its NF. `DecayInv` says that the decay finds its keys or
a reset has taken them all, so that a pass that `KeyError` ends leaves nothing
but torn edges. `DirectionInv` is `DirectionNeedsEvidence` with the weight at hand
and the adjustments still to come.

`ExecInv` follows one execution at a time. `Matches` says that its call is one
its action makes, `Fresh0`, `Once` and `Evictions` what it has applied given
the call it is at (the contract's "at most once" is not inductive without the
pods it has yet to try), `Over` that only a timeout leaves a call behind, and
`Drained` that the pods still on a node under a drain are among those to try or
are terminating;
the cordon, which nothing lifts, keeps the scheduler away.

In the rule loop each orientation takes one arc away and each pass but the last
takes one at least. `PassesPaid` counts that: the passes begun and the links
that are still open are at most one more than the links. `Erased` says that
a link without direction was pointed at from both sides before the loop began,
`LookedAt` that a link already visited in a pass without a change is closed
under the rules now. `SkeletonInv` holds the separating sets to what d-separates
and each link that stays to the tests of all levels so far: the neighbours only
shrink, so sets of the final ones were all tried.

`FeedInv` says of each broadcast (`CastOK`) that nobody from its index on has
been sent to and, unless another removed a client, that everybody it began with
has been or is still ahead. A removal moves what is behind it one place forward
(`WithoutShifts`): nobody moves from behind an index to before it, which is why
a broadcast may miss a client and never meets one twice.

`Story` follows the two lists of the RAE. `Settle` appends to both, a skip to the
history only, and each is cut to its own last entries, the history at its
overflow by skips as well. `Agree` says that what the history lists as executed
(`Lined`) is the end of the feedback buffer; `AgreeAppend` and `AgreeTrim` are
what an append and a cut do to it. What is cut off the history may be skips, so
the proof counts the executed ones by induction over the length (`Counts`).

`SoundInv` has what each phase of `fit` promises the next. `Noted`: what is
remembered of a removed link separates its ends. `Found`: the v-structures are
the unshielded triples the rule takes for colliders. `RuledOut`: on a right
skeleton, the reverse of each orientation that has been taken away is in every
graph equivalent to the law. A set that separates the ends of an unshielded
triple holds its middle exactly if that is no collider: `EffectSeparatesNothing`
and `BetweenIsEffect` prove the two halves from the definition of d-separation,
by exhibiting the path that a separating set would have to cut. The first
rule needs the law's colliders for that, the second that it has no cycle. The
theorem about later columns is the other side of finding 3: the result depends
on the columns only where a cause stands before its effect.

`SliceInv` says that an attribution's result for a slice that nobody has touched
is that of `prune_for_fault` on the slice it lists. That the pruning finds all
causes is `SearchIsComplete`. The search is a recursive function over rounds
(`Rounds`, by `SetInduction`): a round finds another source of an edge or nothing
comes after it, and there are no more sources than edges (`SourcesFinite`).

`FullBufferEndsLearning` is finding 1 for runs of any length: with a minimal
batch of two, the service's (`recalibrator.py:41`), an index at the bound leaves
at most one entry beyond it, the batch is passed over, and the index is at the
bound again. Only the rewind of a reset leads out. `OutageIsCriticalForGood`
has both sides of finding 2: no outage that telemetry has noticed is reported as
all clear, and none that it has ever noticed is over.

`PassesAreBounded` and `ExecutionsAreBounded` are what liveness rests on apart
from fairness: a measure in the naturals that each step of the pass or of the
execution lowers and that no other step raises. The theorems say nothing of when
the steps are taken.

Assumptions that the proofs need beside the ranges of the limits: the sets of
NFs, pods, executions, variables, requests and live edges are finite, as they are
in any run of the program; the laws are acyclic, which is the premise of the PC
algorithm (`CausalGraphs` measures it against acyclic graphs).

Only model-checked: the liveness properties (`EveryTriggerReported`,
`IndexCatchesUp`, `OutageIsReported`, `EveryExecutionReturns`,
`GoneIsForgotten`, `PanelCatchesUp`), which the prover does not treat, and that
each run reaches the cases its bounds are chosen for. Every invariant and action
property of the runs is proved. The library's induction theorems take an
operator as a parameter, which none of the provers can instantiate; the
inductions here go over sets of numbers instead (`SetInduction`), and the models
use recursive functions where the proofs have to look into them.

## 6. Not modelled

- Statistics: Granger tests, stationarity, partial correlations, PCMCI,
  Bayesian and centrality scores. They are numerical libraries; the models take
  every result they may give as an input.
- `causal5g/graph` (bi-level and hierarchical DAGs, the topology prior, the
  cross-domain placeholder): library code that the service does not call; it is
  built once and queried.
- Offline attribution (`causal5g/causal`, apart from the slice ensemble): numeric
  scoring of a graph it is given, without state.
- SBI, PFCP and slice KPI collectors: adapters that parse and hand over what
  nobody in the service consumes.
- Parameters, wording and formatting: parameters of policies and of executor
  actions, evidence and summaries of reports, labels of metrics, the look of the
  panel. That handlers of the executor read other parameter names than the
  policies write is listed as a hazard.
- Iterating a Python dict while another thread adds keys to it
  (`recalibrator.py:209`, `frg.py:583`): the readers change no state, and what
  they answer with is an error page.
- The anomaly scores and the snapshot history of the causal graph, the fault
  log, the endpoints that only display: no state that anything reads back.
- Demo, evidence and experiment scripts, and the patent and deployment files.

## 7. What would come next

No component of the service is left out, and no safety property of a run is
without a proof. What could be deepened: bounds like those of a pass and of an
execution for a broadcast and for the panel's refreshes; what the two Meek rules
that are applied leave open of what all four would orient; and the effect of
parameters, once the executor and the policy store are wired into the service.

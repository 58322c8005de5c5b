------------------------------- MODULE Executor -------------------------------
(***************************************************************************)
(* RemediationExecutor, src/causal5g/remediation/executor.py.              *)
(*                                                                         *)
(* An execute call is a coroutine on the event loop.  Its handler makes    *)
(* Kubernetes calls one after the other with asyncio.to_thread: a call     *)
(* waits in the queue of the thread pool, is made by a worker, and its     *)
(* answer resumes the handler.  asyncio.wait_for cancels the handler when  *)
(* the timer fires first.  That takes a call out of the queue, but a       *)
(* worker that has begun a call finishes it, for nobody.                   *)
(*                                                                         *)
(* The API server, the scheduler of the cluster, the kubelets that stop    *)
(* the pods and the pool are external.                                     *)
(***************************************************************************)
EXTENDS Integers, FiniteSets

CONSTANTS
  Plan,      \* the execute calls made: execution -> [action, target]
  Nodes,     \* nodes of the cluster
  Placement, \* where the pods are at first: pod -> node
  Workers    \* threads of the pool

Executions == DOMAIN Plan
Pods       == DOMAIN Placement
Nowhere    == "nowhere"

ASSUME ExecutorAssumption ==
  /\ IsFiniteSet(Executions) /\ IsFiniteSet(Pods)
  /\ Workers \in Nat \ {0}
  /\ Placement \in [Pods -> Nodes]
  /\ Nowhere \notin Nodes /\ \A e \in Executions : Plan[e].target # Nowhere

VARIABLES
  mode,      \* "dry_run", "simulated" (no client factory) or "real"
  clients,   \* _k8s_clients is cached
  result,    \* ExecutionResult.status of an execution, "none" before
  call,      \* the Kubernetes call of an execution: its state, verb and object
  todo,      \* drain_node: the listed pods not yet tried
  refused,   \* drain_node: some eviction raised
  location,  \* external: the node of a pod, or Nowhere
  terminating, \* external: the pods in their grace period
  cordoned,  \* external: the unschedulable nodes
  applied,   \* history variable: the calls that changed the cluster
  late       \* history variable: executions with a change after their return

loop    == <<mode, clients, todo, refused>>
cluster == <<location, terminating, cordoned>>
history == <<applied, late>>
vars    == <<loop, result, call, cluster, history>>

NoCall  == [state |-> "none", verb |-> "none", object |-> "none"]

(* The handlers, by the verb of their one call. *)
SingleCall == [restart_pod      |-> "delete",   scale_deployment |-> "scale",
               rollback_config  |-> "annotate", reroute_traffic  |-> "redirect"]
Supported == DOMAIN SingleCall \cup {"drain_node", "notify_operator", "no_op"}

(* Mutant: a drain that forgets to cordon. *)
ListsFirst(action) == IF action = "drain_node" THEN "list" ELSE SingleCall[action]
FirstVerb(action)  == IF action = "drain_node" THEN "cordon" ELSE SingleCall[action]

Init ==
  /\ mode \in {"dry_run", "simulated", "real"}
  /\ clients = FALSE
  /\ result = [e \in Executions |-> "none"]
  /\ call = [e \in Executions |-> NoCall]
  /\ todo = [e \in Executions |-> {}]
  /\ refused = [e \in Executions |-> FALSE]
  /\ location = Placement
  /\ terminating = {} /\ cordoned = {}
  /\ applied = {} /\ late = {}
-----------------------------------------------------------------------------
(* The event loop. *)

Returns(e, status) == result' = [result EXCEPT ![e] = status]

Submit(e, verb, object) ==
  call' = [call EXCEPT ![e] = [state |-> "queued", verb |-> verb, object |-> object]]

Fresh(e) == result[e] = "none" /\ call[e].state = "none"

(* execute without a Kubernetes call: no handler, a dry run, no client      *)
(* factory, or an action that needs none.  A success of the last two is     *)
(* "simulated" here.                                                        *)
ExecuteIdle(e) ==
  /\ Fresh(e)
  /\ LET action == Plan[e].action
     IN \/ action \notin Supported /\ Returns(e, "unknown")
        \/ action \in Supported /\ mode = "dry_run" /\ Returns(e, "dry_run")
        \/ /\ action \in Supported /\ mode # "dry_run"
           /\ mode = "simulated" \/ action \in {"notify_operator", "no_op"}
           /\ Returns(e, "simulated")
  /\ UNCHANGED <<loop, call, cluster, history>>

(* execute up to the first call.  The factory is asked once; an exception   *)
(* of it fails the execution and leaves the cache empty.                    *)
Execute(e) ==
  /\ Fresh(e)
  /\ mode = "real"
  /\ Plan[e].action \in DOMAIN SingleCall \cup {"drain_node"}
  /\ \/ /\ clients' = TRUE
        /\ Submit(e, FirstVerb(Plan[e].action), Plan[e].target)
        /\ UNCHANGED result
     \/ /\ ~clients
        /\ Returns(e, "failed")
        /\ UNCHANGED <<clients, call>>
  /\ UNCHANGED <<mode, todo, refused, cluster, history>>

Answered(e) == call[e].state \in {"done", "raised"} /\ result[e] = "none"

(* The next pod of the loop over the listed pods, or the end of the drain. *)
EvictNext(e, pods) ==
  \/ \E p \in pods :
       /\ Submit(e, "evict", p)
       /\ todo' = [todo EXCEPT ![e] = pods \ {p}]
       /\ UNCHANGED result
  \/ /\ pods = {}
     /\ Returns(e, "success")
     /\ call' = [call EXCEPT ![e] = NoCall]
     /\ UNCHANGED todo

Raised(e) == call[e].state = "raised"

(* Mutant: the try also covers the cordon. *)
FailsBehindCordon(e) == Raised(e) /\ call[e].verb \notin {"cordon", "evict"}
(* Only the exception of an eviction is caught by the handler. *)
Fails(e) == Raised(e) /\ call[e].verb # "evict"

(* The answer resumes the handler. *)
Resume(e) ==
  /\ Answered(e)
  /\ \/ /\ Fails(e) \/ call[e].verb \notin {"cordon", "list", "evict"}
        /\ Returns(e, IF Fails(e) THEN "failed" ELSE "success")
        /\ call' = [call EXCEPT ![e] = NoCall]
        /\ UNCHANGED todo
     \/ /\ ~Fails(e) /\ call[e].verb = "cordon"
        /\ Submit(e, "list", Plan[e].target)
        /\ UNCHANGED <<result, todo>>
     \/ /\ ~Fails(e) /\ call[e].verb \in {"list", "evict"}
        /\ EvictNext(e, todo[e])
  /\ refused' = [refused EXCEPT ![e] = @ \/ (call[e].verb = "evict" /\ Raised(e))]
  /\ UNCHANGED <<mode, clients, cluster, history>>

Pending(e) == call[e].state # "none" /\ result[e] = "none"

(* Mutant: the timer covers only calls that have begun. *)
TimeoutOfRunning(e) ==
  /\ Pending(e) /\ call[e].state # "queued"
  /\ Returns(e, "timeout")
  /\ call' = [call EXCEPT ![e] = IF @.state = "running" THEN @ ELSE NoCall]
  /\ UNCHANGED <<loop, cluster, history>>

(* Cancelling the handler: only a call that has begun goes on. *)
Abandoned(e) ==
  call' = [call EXCEPT ![e] = IF @.state = "running" THEN @ ELSE NoCall]

(* The timer of wait_for, also when an answer is in and not yet read. *)
Timeout(e) ==
  /\ Pending(e)
  /\ Returns(e, "timeout")
  /\ Abandoned(e)
  /\ UNCHANGED <<loop, cluster, history>>
-----------------------------------------------------------------------------
(* The thread pool and the cluster. *)

Busy == {e \in Executions : call[e].state = "running"}

(* A free worker begins a call that waits.  The pool serves them in the     *)
(* order they came; here any may be first.                                  *)
Start(e) ==
  /\ call[e].state = "queued"
  /\ Cardinality(Busy) < Workers
  /\ call' = [call EXCEPT ![e].state = "running"]
  /\ UNCHANGED <<loop, result, cluster, history>>

(* A deletion the API server accepts.  A pod that is given a grace period   *)
(* stays on its node meanwhile; one that is given none is gone.             *)
Remove(p) ==
  /\ p \in Pods /\ location[p] # Nowhere
  /\ \/ terminating' = terminating \cup {p} /\ UNCHANGED location
     \/ /\ terminating' = terminating \ {p}
        /\ location' = [location EXCEPT ![p] = Nowhere]

(* What the API server does for a call, to pods and nodes.  Pods go by      *)
(* their names.  Nobody waits for a grace period to end.                    *)
Serve(verb, object) ==
  CASE verb \in {"delete", "evict"} -> Remove(object) /\ UNCHANGED cordoned
    [] verb = "cordon" ->
         cordoned' = cordoned \cup {object} /\ UNCHANGED <<location, terminating>>
    [] OTHER -> UNCHANGED cluster

Answer(e, state) ==
  call' = [call EXCEPT ![e] = IF result[e] = "none" THEN [@ EXCEPT !.state = state]
                              ELSE NoCall]

(* A call is served, and its answer may be lost; or it is refused.  A call  *)
(* may also never answer.                                                   *)
Served(e) ==
  /\ e \in Busy
  /\ Serve(call[e].verb, call[e].object)
  /\ \E state \in {"done", "raised"} : Answer(e, state)
  /\ todo' = IF call[e].verb = "list" /\ result[e] = "none"
             THEN [todo EXCEPT ![e] = {p \in Pods : location[p] = call[e].object}]
             ELSE todo
  /\ IF call[e].verb = "list" THEN UNCHANGED history
     ELSE /\ applied' = applied \cup {<<e, <<call[e].verb, call[e].object>>>>}
          /\ late' = IF result[e] = "none" THEN late ELSE late \cup {e}
  /\ UNCHANGED <<mode, clients, refused, result>>

Refused(e) ==
  /\ e \in Busy
  /\ Answer(e, "raised")
  /\ UNCHANGED <<loop, result, cluster, history>>

(* The kubelet has stopped a pod. *)
Stopped(p) ==
  /\ p \in terminating
  /\ terminating' = terminating \ {p}
  /\ location' = [location EXCEPT ![p] = Nowhere]
  /\ UNCHANGED <<loop, result, call, cordoned, history>>

(* The scheduler finds a node for a pod. *)
Schedule(p, n) ==
  /\ location[p] = Nowhere
  /\ n \notin cordoned
  /\ location' = [location EXCEPT ![p] = n]
  /\ UNCHANGED <<loop, result, call, terminating, cordoned, history>>

Next ==
  \/ \E e \in Executions :
       \/ ExecuteIdle(e) \/ Execute(e) \/ Resume(e) \/ Timeout(e)
       \/ Start(e) \/ Served(e) \/ Refused(e)
  \/ \E p \in Pods : Stopped(p)
  \/ \E p \in Pods, n \in Nodes : Schedule(p, n)

(* The event loop fires every timer that is due.  Nothing else is promised: *)
(* neither that a call answers nor that a worker is ever free.              *)
Fairness == \A e \in Executions : WF_vars(Timeout(e))

Spec == Init /\ [][Next]_vars /\ Fairness
-----------------------------------------------------------------------------
States  == {"queued", "running", "done", "raised"}
Objects == Pods \cup {Plan[e].target : e \in Executions}
Verbs   == {"delete", "scale", "annotate", "redirect", "cordon", "list", "evict"}
Steps   == Verbs \X Objects

(* Every variable stays in its type, and an execution that has returned has *)
(* at most a call that a worker had begun.                                  *)
TypeOK ==
  /\ mode \in {"dry_run", "simulated", "real"} /\ clients \in BOOLEAN
  /\ result \in [Executions -> {"none", "success", "failed", "timeout",
                               "dry_run", "unknown", "simulated"}]
  /\ call \in [Executions ->
                 [state : States, verb : Verbs, object : Objects] \cup {NoCall}]
  /\ \A e \in Executions :
       result[e] # "none" => call[e].state \in {"none", "running"}
  /\ todo \in [Executions -> SUBSET Pods] /\ refused \in [Executions -> BOOLEAN]
  /\ location \in [Pods -> Nodes \cup {Nowhere}] /\ terminating \subseteq Pods
  /\ applied \subseteq Executions \X Steps
  /\ late \subseteq Executions

(* executor.py:337-361: a drain that succeeded with no eviction refused has *)
(* left no pod on the node but such as are terminating, and none comes to   *)
(* it any more, although pods are scheduled, deleted and evicted by others  *)
(* all the time.  That the node is empty is more than the code does:        *)
(* "equivalent to kubectl drain" (line 321) would be to wait for the pods.  *)
CleanDrainEvictsAll ==
  \A e \in Executions :
    Plan[e].action = "drain_node" /\ result[e] = "success" /\ ~refused[e] =>
      \A p \in Pods : location[p] = Plan[e].target => p \in terminating

(* What success of an execution vouches for: its call, or the cordon. *)
Vouched(e) ==
  IF Plan[e].action \in DOMAIN SingleCall \cup {"drain_node"}
  THEN {<<FirstVerb(Plan[e].action), Plan[e].target>>} ELSE {}

(* The executor implements the contract (executor.py:13-25): success means  *)
(* done, every step is done once at most, and only an execution that timed  *)
(* out is followed by a change, by one.                                     *)
Contract == INSTANCE RemediationContract WITH Promised <- Vouched
KeepsContract == Contract!Spec

(* executor.py:222: execute returns though the API may never answer and     *)
(* abandoned calls may hold every worker of the pool.                       *)
EveryExecutionReturns ==
  \A e \in Executions : Pending(e) ~> (result[e] # "none")
=============================================================================

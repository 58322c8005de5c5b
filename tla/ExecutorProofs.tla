---------------------------- MODULE ExecutorProofs ----------------------------
(***************************************************************************)
(* For every plan of executions, cluster and pool: the executor keeps its  *)
(* contract, and a clean drain leaves none but terminating pods on its     *)
(* node for good.                                                          *)
(*                                                                         *)
(* The argument follows one execution.  What it has applied is known from  *)
(* the call it is at, and the others can neither apply for it nor undo the *)
(* cordon of its node.                                                     *)
(***************************************************************************)
EXTENDS Executor, FiniteSetTheorems, TLAPS

(* The call of an execution is one its action makes. *)
Matches(e) ==
  call[e].state # "none" =>
    \/ /\ Plan[e].action \in DOMAIN SingleCall
       /\ call[e].verb = SingleCall[Plan[e].action]
       /\ call[e].object = Plan[e].target
    \/ /\ Plan[e].action = "drain_node"
       /\ \/ call[e].verb \in {"cordon", "list"} /\ call[e].object = Plan[e].target
          \/ call[e].verb = "evict" /\ call[e].object \in Pods

(* What an execution has applied, by the call it is at. *)
Fresh0(e) ==
  result[e] = "none" /\ call[e].state = "none" => \A s \in Steps : <<e, s>> \notin applied

Once(e) ==
  /\ \A o \in Objects : <<e, <<"list", o>>>> \notin applied
  /\ call[e].state \in {"queued", "running"} =>
       <<e, <<call[e].verb, call[e].object>>>> \notin applied
  /\ call[e].state = "done" /\ call[e].verb # "list" =>
       <<e, <<call[e].verb, call[e].object>>>> \in applied

Evictions(e) ==
  call[e].state # "none" =>
    /\ call[e].verb \in {"cordon", "list"} =>
         \A p \in Pods : <<e, <<"evict", p>>>> \notin applied
    /\ \A p \in todo[e] : <<e, <<"evict", p>>>> \notin applied
    /\ call[e].verb = "evict" => call[e].object \notin todo[e]
    /\ call[e].verb \in {"list", "evict"} =>
         <<e, <<"cordon", Plan[e].target>>>> \in applied
    /\ \/ call[e].verb \in {"list", "evict"}
       \/ call[e].verb = "cordon" /\ call[e].state = "done"
       => Plan[e].target \in cordoned

Over(e) ==
  /\ result[e] # "none" /\ call[e].state # "none" =>
       result[e] = "timeout" /\ e \notin late
  /\ e \in late => result[e] # "none"

(* The pods on a node under a drain are terminating or still to be tried.   *)
Drained(e) ==
  Plan[e].action = "drain_node" /\ ~refused[e] =>
    /\ /\ result[e] = "none"
       /\ call[e].verb = "evict" \/ (call[e].verb = "list" /\ call[e].state = "done")
       => \A p \in Pods : location[p] = Plan[e].target =>
            \/ p \in todo[e] \cup terminating
            \/ call[e].verb = "evict" /\ call[e].object = p /\ call[e].state # "done"
    /\ result[e] = "success" =>
         /\ Plan[e].target \in cordoned
         /\ \A p \in Pods : location[p] = Plan[e].target => p \in terminating

Own(e) == Matches(e) /\ Fresh0(e) /\ Once(e) /\ Evictions(e) /\ Over(e) /\ Drained(e)

ExecInv == TypeOK /\ \A e \in Executions : Own(e)
-----------------------------------------------------------------------------
USE DEF States, Objects, Verbs, Steps, NoCall

LEMMA TargetsAreObjects == \A e \in Executions : Plan[e].target \in Objects
  OBVIOUS

LEMMA FirstVerbs ==
  \A action \in DOMAIN SingleCall \cup {"drain_node"} :
    /\ FirstVerb(action) \in Verbs
    /\ FirstVerb(action) # "list" /\ FirstVerb(action) # "evict"
    /\ action = "drain_node" => FirstVerb(action) = "cordon"
    /\ action # "drain_node" => FirstVerb(action) = SingleCall[action]
  BY DEF FirstVerb, SingleCall

LEMMA InitInv == Init => ExecInv
<1> SUFFICES ASSUME Init PROVE ExecInv
  OBVIOUS
<1>1. TypeOK
  BY ExecutorAssumption DEF Init, TypeOK
<1>2. ASSUME NEW e \in Executions PROVE Own(e)
  BY DEF Init, Own, Matches, Fresh0, Once, Evictions, Over, Drained
<1>3. QED
  BY <1>1, <1>2 DEF ExecInv

(* A call that is submitted is one of the types. *)
LEMMA SubmitTypes ==
  ASSUME TypeOK, NEW e \in Executions, NEW verb \in Verbs, NEW object \in Objects,
         Submit(e, verb, object)
  PROVE  /\ call' \in [Executions ->
                    [state : States, verb : Verbs, object : Objects] \cup {NoCall}]
         /\ call'[e] = [state |-> "queued", verb |-> verb, object |-> object]
         /\ \A f \in Executions : f # e => call'[f] = call[f]
  BY DEF Submit, TypeOK

LEMMA NextTypes == TypeOK /\ [Next]_vars => TypeOK'
<1> SUFFICES ASSUME TypeOK, [Next]_vars PROVE TypeOK'
  OBVIOUS
<1> DEFINE Calls == [state : States, verb : Verbs, object : Objects] \cup {NoCall}
<1>1. ASSUME NEW e \in Executions, ExecuteIdle(e) PROVE TypeOK'
  BY <1>1 DEF TypeOK, ExecuteIdle, Fresh, Returns, loop, cluster, history
<1>2. ASSUME NEW e \in Executions, Execute(e) PROVE TypeOK'
  <2>1. CASE ~clients /\ Returns(e, "failed") /\ UNCHANGED <<clients, call>>
    BY <1>2, <2>1 DEF TypeOK, Execute, Fresh, Returns, cluster, history
  <2>2. CASE /\ clients' = TRUE
             /\ Submit(e, FirstVerb(Plan[e].action), Plan[e].target)
             /\ UNCHANGED result
    <3>1. FirstVerb(Plan[e].action) \in Verbs
      BY <1>2, FirstVerbs DEF Execute
    <3>2. /\ call' \in [Executions -> Calls]
          /\ \A f \in Executions : f # e => call'[f] = call[f]
      BY <2>2, <3>1, SubmitTypes, TargetsAreObjects
    <3>3. result[e] = "none"
      BY <1>2 DEF Execute, Fresh
    <3>4. \A f \in Executions :
            result'[f] # "none" => call'[f].state \in {"none", "running"}
      BY <2>2, <3>2, <3>3 DEF TypeOK
    <3>5. QED
      BY <1>2, <2>2, <3>2, <3>4 DEF TypeOK, Execute, cluster, history
  <2>3. QED
    BY <1>2, <2>1, <2>2 DEF Execute
<1>3. ASSUME NEW e \in Executions, Resume(e) PROVE TypeOK'
  <2>1. /\ result[e] = "none" /\ call[e] \in Calls /\ call[e] # NoCall
        /\ todo[e] \in SUBSET Pods
    BY <1>3 DEF Resume, Answered, TypeOK
  <2>2. /\ refused' \in [Executions -> BOOLEAN]
        /\ UNCHANGED <<mode, clients, location, terminating, cordoned, applied, late>>
    BY <1>3 DEF Resume, TypeOK, Raised, cluster, history
  <2>3. ASSUME NEW status \in {"failed", "success"},
               Returns(e, status), call' = [call EXCEPT ![e] = NoCall], UNCHANGED todo
        PROVE TypeOK'
    BY <2>2, <2>3 DEF TypeOK, Returns
  <2>4. ASSUME NEW verb \in Verbs, NEW object \in Objects, Submit(e, verb, object),
               UNCHANGED result, todo' \in [Executions -> SUBSET Pods]
        PROVE TypeOK'
    <3>1. /\ call' \in [Executions -> Calls]
          /\ \A f \in Executions : f # e => call'[f] = call[f]
      BY <2>4, SubmitTypes
    <3>2. \A f \in Executions :
            result'[f] # "none" => call'[f].state \in {"none", "running"}
      BY <2>1, <2>4, <3>1 DEF TypeOK
    <3>3. QED
      BY <2>2, <2>4, <3>1, <3>2 DEF TypeOK
  <2>5. CASE /\ Returns(e, IF Fails(e) THEN "failed" ELSE "success")
             /\ call' = [call EXCEPT ![e] = NoCall] /\ UNCHANGED todo
    BY <2>3, <2>5
  <2>6. CASE Submit(e, "list", Plan[e].target) /\ UNCHANGED <<result, todo>>
    BY <2>4, <2>6 DEF TypeOK
  <2>7. CASE EvictNext(e, todo[e])
    <3>1. CASE \E p \in todo[e] : /\ Submit(e, "evict", p)
                                 /\ todo' = [todo EXCEPT ![e] = todo[e] \ {p}]
                                 /\ UNCHANGED result
      <4>1. PICK p \in todo[e] : /\ Submit(e, "evict", p)
                                 /\ todo' = [todo EXCEPT ![e] = todo[e] \ {p}]
                                 /\ UNCHANGED result
        BY <3>1
      <4>2. p \in Objects /\ todo' \in [Executions -> SUBSET Pods]
        BY <2>1, <4>1 DEF TypeOK
      <4>3. QED
        BY <2>4, <4>1, <4>2
    <3>2. CASE /\ Returns(e, "success") /\ call' = [call EXCEPT ![e] = NoCall]
               /\ UNCHANGED todo
      BY <2>3, <3>2
    <3>3. QED
      BY <2>7, <3>1, <3>2 DEF EvictNext
  <2>8. QED
    BY <1>3, <2>5, <2>6, <2>7 DEF Resume
<1>4. ASSUME NEW e \in Executions, Timeout(e) PROVE TypeOK'
  BY <1>4 DEF TypeOK, Timeout, Pending, Returns, Abandoned, loop, cluster, history
<1>5. ASSUME NEW e \in Executions, Start(e) PROVE TypeOK'
  BY <1>5 DEF TypeOK, Start, loop, cluster, history
<1>6. ASSUME NEW e \in Executions, Served(e) PROVE TypeOK'
  <2>1. call[e] \in [state : States, verb : Verbs, object : Objects]
    BY <1>6 DEF Served, Busy, TypeOK
  <2>2. /\ call' \in [Executions -> Calls]
        /\ \A f \in Executions :
             result'[f] # "none" => call'[f].state \in {"none", "running"}
        /\ UNCHANGED <<mode, clients, refused, result>>
    BY <1>6, <2>1 DEF Served, Answer, TypeOK
  <2>3. location' \in [Pods -> Nodes \cup {Nowhere}] /\ terminating' \subseteq Pods
    BY <1>6 DEF Served, Serve, Remove, TypeOK, cluster
  <2>4. todo' \in [Executions -> SUBSET Pods]
    BY <1>6 DEF Served, TypeOK
  <2>5. applied' \subseteq Executions \X Steps /\ late' \subseteq Executions
    BY <1>6, <2>1 DEF Served, TypeOK, history
  <2>6. QED
    BY <2>2, <2>3, <2>4, <2>5 DEF TypeOK
<1>7. ASSUME NEW e \in Executions, Refused(e) PROVE TypeOK'
  BY <1>7 DEF TypeOK, Refused, Busy, Answer, loop, cluster, history
<1>8. ASSUME NEW p \in Pods, NEW n \in Nodes, Schedule(p, n) PROVE TypeOK'
  BY <1>8 DEF TypeOK, Schedule, loop, history
<1>9. ASSUME NEW p \in Pods, Stopped(p) PROVE TypeOK'
  BY <1>9 DEF TypeOK, Stopped, loop, history
<1>10. CASE UNCHANGED vars
  BY <1>10 DEF TypeOK, vars, loop, cluster, history
<1>11. QED
  BY <1>1, <1>2, <1>3, <1>4, <1>5, <1>6, <1>7, <1>8, <1>9, <1>10 DEF Next

(* Every variable stays in its type, whatever the API answers and whenever. *)
THEOREM TypeCorrect == Spec => []TypeOK
<1>1. Init => TypeOK
  BY ExecutorAssumption DEF Init, TypeOK
<1>2. QED
  BY <1>1, NextTypes, PTL DEF Spec
-----------------------------------------------------------------------------
(* What a step may do that is not a step of the execution. *)
Aside(e) ==
  /\ call'[e] = call[e] /\ result'[e] = result[e]
  /\ todo'[e] = todo[e] /\ refused'[e] = refused[e]
  /\ \A s \in Steps : <<e, s>> \in applied' <=> <<e, s>> \in applied
  /\ e \in late' <=> e \in late
  /\ cordoned \subseteq cordoned'
  /\ \A p \in Pods : \/ /\ location'[p] = location[p]
                        /\ p \in terminating => p \in terminating'
                     \/ location'[p] = Nowhere
                     \/ location'[p] \notin cordoned

LEMMA AsideKeeps ==
  ASSUME ExecInv, NEW e \in Executions, Aside(e)
  PROVE  Own(e)'
<1>1. Own(e) /\ call[e] \in [state : States, verb : Verbs, object : Objects] \cup {NoCall}
      /\ todo[e] \subseteq Pods
  BY DEF ExecInv, TypeOK
<1>2. Matches(e)' /\ Fresh0(e)' /\ Over(e)'
  BY <1>1 DEF Aside, Own, Matches, Fresh0, Over
<1>3. Once(e)'
  BY <1>1 DEF Aside, Own, Once
<1>4. Evictions(e)'
  BY <1>1, TargetsAreObjects DEF Aside, Own, Evictions
<1>5. Drained(e)'
  <2>1. Plan[e].target # Nowhere
    BY ExecutorAssumption
  <2>2. \A p \in Pods : Plan[e].target \in cordoned /\ location'[p] = Plan[e].target
          => location[p] = Plan[e].target /\ (p \in terminating => p \in terminating')
    BY <2>1 DEF Aside
  <2>3. call[e].verb = "evict" \/ call[e].verb = "list" => Plan[e].target \in cordoned
    BY <1>1 DEF Own, Evictions
  <2>4. QED
    BY <1>1, <2>2, <2>3 DEF Own, Drained, Aside
<1>6. QED
  BY <1>2, <1>3, <1>4, <1>5 DEF Own

(* An execution that has returned without a call under way. *)
LEMMA ReturnKeeps ==
  ASSUME ExecInv, NEW e \in Executions,
         result'[e] # "none", call'[e] = NoCall,
         UNCHANGED <<applied, late, cordoned, location, terminating>>,
         result'[e] = "success" /\ Plan[e].action = "drain_node" /\ ~refused'[e] =>
           /\ Plan[e].target \in cordoned
           /\ \A p \in Pods : location[p] = Plan[e].target => p \in terminating
  PROVE  Own(e)'
<1>1. call'[e].state = "none" /\ call'[e].verb = "none"
  OBVIOUS
<1>2. Once(e)
  BY DEF ExecInv, Own
<1>3. Matches(e)' /\ Fresh0(e)' /\ Evictions(e)' /\ Over(e)'
  BY <1>1 DEF Matches, Fresh0, Evictions, Over
<1>4. Once(e)'
  BY <1>1, <1>2 DEF Once
<1>5. Drained(e)'
  BY <1>1 DEF Drained
<1>6. QED
  BY <1>3, <1>4, <1>5 DEF Own

(* An execution that submits its next call. *)
LEMMA SubmitKeeps ==
  ASSUME ExecInv, NEW e \in Executions, NEW verb \in Verbs, NEW object \in Objects,
         Submit(e, verb, object), result'[e] = "none",
         UNCHANGED <<applied, late, cordoned, location, terminating>>,
         result[e] = "none",
         Matches(e)', Evictions(e)', Drained(e)',
         <<e, <<verb, object>>>> \notin applied
  PROVE  Own(e)'
<1>1. call'[e] = [state |-> "queued", verb |-> verb, object |-> object]
  BY SubmitTypes DEF ExecInv
<1>2. Once(e) /\ Over(e)
  BY DEF ExecInv, Own
<1>3. Fresh0(e)' /\ Over(e)'
  BY <1>1, <1>2 DEF Fresh0, Over
<1>4. Once(e)'
  BY <1>1, <1>2 DEF Once
<1>5. QED
  BY <1>3, <1>4 DEF Own
-----------------------------------------------------------------------------
LEMMA ExecuteIdleKeeps ==
  ASSUME ExecInv, NEW e \in Executions, ExecuteIdle(e), NEW f \in Executions
  PROVE  Own(f)'
<1>1. CASE f # e
  BY <1>1, AsideKeeps DEF ExecuteIdle, Aside, Returns, loop, cluster, history, ExecInv, TypeOK
<1>2. CASE f = e
  <2>1. call[e] = NoCall
    BY DEF ExecInv, TypeOK, ExecuteIdle, Fresh
  <2>2. /\ result'[e] \in {"unknown", "dry_run", "simulated"}
        /\ UNCHANGED <<call, applied, late, cordoned, location, terminating>>
    BY DEF ExecuteIdle, Returns, ExecInv, TypeOK, cluster, history
  <2>3. QED
    BY <1>2, <2>1, <2>2, ReturnKeeps
<1>3. QED
  BY <1>1, <1>2

LEMMA ExecuteKeeps ==
  ASSUME ExecInv, NEW e \in Executions, Execute(e), NEW f \in Executions
  PROVE  Own(f)'
<1> DEFINE action == Plan[e].action
           Submits == /\ clients' = TRUE
                      /\ Submit(e, FirstVerb(action), Plan[e].target)
                      /\ UNCHANGED result
           Fails0  == ~clients /\ Returns(e, "failed") /\ UNCHANGED <<clients, call>>
<1>1. /\ UNCHANGED <<todo, refused, applied, late, cordoned, location, terminating>>
      /\ call[e] = NoCall /\ result[e] = "none"
      /\ action \in DOMAIN SingleCall \cup {"drain_node"}
  BY DEF Execute, Fresh, ExecInv, TypeOK, cluster, history
<1>2. Submits \/ Fails0
  BY DEF Execute
<1>3. FirstVerb(action) \in Verbs /\ FirstVerb(action) # "list" /\ FirstVerb(action) # "evict"
  BY <1>1, FirstVerbs
<1>4. CASE f # e
  <2>1. call'[f] = call[f] /\ result'[f] = result[f]
    <3>1. CASE Submits
      <4>1. TypeOK /\ Plan[e].target \in Objects
        BY TargetsAreObjects DEF ExecInv
      <4>2. \A g \in Executions : g # e => call'[g] = call[g]
        BY <1>3, <3>1, <4>1, SubmitTypes
      <4>3. QED
        BY <1>4, <3>1, <4>2
    <3>2. CASE Fails0
      BY <1>4, <3>2 DEF Returns, ExecInv, TypeOK
    <3>3. QED
      BY <1>2, <3>1, <3>2
  <2>2. QED
    BY <1>1, <2>1, AsideKeeps DEF Aside
<1>5. CASE f = e /\ Fails0
  BY <1>1, <1>5, ReturnKeeps DEF Returns, ExecInv, TypeOK
<1>6. CASE f = e /\ Submits
  <2>1. call'[e] = [state |-> "queued", verb |-> FirstVerb(action), object |-> Plan[e].target]
    BY <1>3, <1>6, SubmitTypes, TargetsAreObjects DEF ExecInv
  <2>2. Fresh0(e) /\ todo[e] \subseteq Pods
    BY DEF ExecInv, Own, TypeOK
  <2>3. \A s \in Steps : <<e, s>> \notin applied
    BY <1>1, <2>2 DEF Fresh0
  <2>4. Matches(e)'
    BY <1>1, <2>1, FirstVerbs DEF Matches
  <2>5. Evictions(e)'
    BY <1>1, <1>3, <2>1, <2>2, <2>3 DEF Evictions
  <2>6. Drained(e)'
    BY <1>1, <1>3, <1>6, <2>1 DEF Drained
  <2>7. <<e, <<FirstVerb(action), Plan[e].target>>>> \notin applied
    BY <1>3, <2>3, TargetsAreObjects
  <2>8. QED
    BY <1>1, <1>3, <1>6, <2>4, <2>5, <2>6, <2>7, SubmitKeeps, TargetsAreObjects
<1>7. QED
  BY <1>2, <1>4, <1>5, <1>6

LEMMA TimeoutKeeps ==
  ASSUME ExecInv, NEW e \in Executions, Timeout(e), NEW f \in Executions
  PROVE  Own(f)'
<1>1. CASE f # e
  BY <1>1, AsideKeeps
  DEF Timeout, Aside, Returns, Abandoned, loop, cluster, history, ExecInv, TypeOK
<1>2. CASE f = e
  <2>1. /\ result'[e] = "timeout" /\ result[e] = "none" /\ call[e].state # "none"
        /\ UNCHANGED <<todo, refused, applied, late, cordoned, location, terminating>>
        /\ call'[e] = IF call[e].state = "running" THEN call[e] ELSE NoCall
    BY DEF Timeout, Pending, Returns, Abandoned, ExecInv, TypeOK, loop, cluster, history
  <2>2. CASE call[e].state # "running"
    BY <1>2, <2>1, <2>2, ReturnKeeps
  <2>3. CASE call[e].state = "running"
    <3>1. Own(e)
      BY DEF ExecInv
    <3>2. Matches(e)' /\ Fresh0(e)' /\ Over(e)'
      BY <2>1, <2>3, <3>1 DEF Own, Matches, Fresh0, Over
    <3>3. Once(e)' /\ Evictions(e)'
      BY <2>1, <2>3, <3>1 DEF Own, Once, Evictions
    <3>4. Drained(e)'
      BY <2>1 DEF Drained
    <3>5. QED
      BY <1>2, <3>2, <3>3, <3>4 DEF Own
  <2>4. QED
    BY <2>2, <2>3
<1>3. QED
  BY <1>1, <1>2

LEMMA StartKeeps ==
  ASSUME ExecInv, NEW e \in Executions, Start(e), NEW f \in Executions
  PROVE  Own(f)'
<1>1. CASE f # e
  BY <1>1, AsideKeeps DEF Start, Aside, loop, cluster, history, ExecInv, TypeOK
<1>2. CASE f = e
  <2>1. call[e] \in [state : States, verb : Verbs, object : Objects]
    BY DEF ExecInv, TypeOK, Start
  <2>2. /\ UNCHANGED <<result, todo, refused, applied, late, cordoned, location, terminating>>
        /\ call[e].state = "queued"
        /\ call'[e] = [call[e] EXCEPT !.state = "running"]
    BY DEF Start, ExecInv, TypeOK, loop, cluster, history
  <2>3. call'[e].verb = call[e].verb /\ call'[e].object = call[e].object
        /\ call'[e].state = "running"
    BY <2>1, <2>2
  <2>4. Own(e)
    BY DEF ExecInv
  <2>5. Matches(e)' /\ Fresh0(e)' /\ Over(e)'
    BY <2>2, <2>3, <2>4 DEF Own, Matches, Fresh0, Over
  <2>6. Once(e)' /\ Evictions(e)'
    BY <2>2, <2>3, <2>4 DEF Own, Once, Evictions
  <2>7. Drained(e)'
    BY <2>2, <2>3, <2>4 DEF Own, Drained
  <2>8. QED
    BY <1>2, <2>5, <2>6, <2>7 DEF Own
<1>3. QED
  BY <1>1, <1>2

LEMMA RefusedKeeps ==
  ASSUME ExecInv, NEW e \in Executions, Refused(e), NEW f \in Executions
  PROVE  Own(f)'
<1>1. CASE f # e
  BY <1>1, AsideKeeps DEF Refused, Answer, Aside, loop, cluster, history, ExecInv, TypeOK
<1>2. CASE f = e
  <2>1. call[e] \in [state : States, verb : Verbs, object : Objects]
    BY DEF ExecInv, TypeOK, Refused, Busy
  <2>2. /\ UNCHANGED <<result, todo, refused, applied, late, cordoned, location, terminating>>
        /\ call[e].state = "running"
        /\ call'[e] = IF result[e] = "none" THEN [call[e] EXCEPT !.state = "raised"]
                      ELSE NoCall
    BY DEF Refused, Busy, Answer, ExecInv, TypeOK, loop, cluster, history
  <2>3. Own(e)
    BY DEF ExecInv
  <2>4. CASE result[e] # "none"
    <3>1. result[e] = "timeout"
      BY <2>2, <2>3, <2>4 DEF Own, Over
    <3>2. QED
      BY <1>2, <2>2, <2>4, <3>1, ReturnKeeps
  <2>5. CASE result[e] = "none"
    <3>1. call'[e].verb = call[e].verb /\ call'[e].object = call[e].object
          /\ call'[e].state = "raised"
      BY <2>1, <2>2, <2>5
    <3>2. Matches(e)' /\ Fresh0(e)' /\ Over(e)'
      BY <2>2, <2>3, <2>5, <3>1 DEF Own, Matches, Fresh0, Over
    <3>3. Once(e)' /\ Evictions(e)'
      BY <2>2, <2>3, <3>1 DEF Own, Once, Evictions
    <3>4. Drained(e)'
      BY <2>2, <2>3, <3>1 DEF Own, Drained
    <3>5. QED
      BY <1>2, <3>2, <3>3, <3>4 DEF Own
  <2>6. QED
    BY <2>4, <2>5
<1>3. QED
  BY <1>1, <1>2

(* The next eviction, or the end of the drain, behind an answer that left   *)
(* on the node only pods that are still to be tried.                        *)
LEMMA EvictNextKeeps ==
  ASSUME ExecInv, NEW e \in Executions, EvictNext(e, todo[e]),
         result[e] = "none", call[e].state # "none",
         call[e].verb \in {"list", "evict"},
         UNCHANGED <<applied, late, cordoned, location, terminating>>,
         Plan[e].action = "drain_node",
         ~refused'[e] => \A p \in Pods :
                           location[p] = Plan[e].target => p \in todo[e] \cup terminating
  PROVE  Own(e)'
<1>1. Own(e) /\ todo[e] \subseteq Pods
  BY DEF ExecInv, TypeOK
<1>2. /\ \A p \in todo[e] : <<e, <<"evict", p>>>> \notin applied
      /\ <<e, <<"cordon", Plan[e].target>>>> \in applied
      /\ Plan[e].target \in cordoned
  BY <1>1 DEF Own, Evictions
<1>3. ASSUME NEW p \in todo[e], Submit(e, "evict", p),
             todo' = [todo EXCEPT ![e] = todo[e] \ {p}], UNCHANGED result
      PROVE  Own(e)'
  <2>1. p \in Pods /\ p \in Objects /\ "evict" \in Verbs
    BY <1>1
  <2>2. call'[e] = [state |-> "queued", verb |-> "evict", object |-> p]
    BY <1>3, <2>1, SubmitTypes DEF ExecInv
  <2>3. todo'[e] = todo[e] \ {p}
    BY <1>3 DEF ExecInv, TypeOK
  <2>4. Matches(e)'
    BY <2>1, <2>2 DEF Matches
  <2>5. Evictions(e)'
    BY <1>2, <2>2, <2>3 DEF Evictions
  <2>6. Drained(e)'
    BY <1>3, <2>2, <2>3 DEF Drained
  <2>7. QED
    BY <1>2, <1>3, <2>1, <2>4, <2>5, <2>6, SubmitKeeps
<1>4. CASE /\ todo[e] = {} /\ Returns(e, "success")
           /\ call' = [call EXCEPT ![e] = NoCall]
  BY <1>2, <1>4, ReturnKeeps DEF Returns, ExecInv, TypeOK
<1>5. QED
  BY <1>3, <1>4 DEF EvictNext

LEMMA ResumeKeeps ==
  ASSUME ExecInv, NEW e \in Executions, Resume(e), NEW f \in Executions
  PROVE  Own(f)'
<1> DEFINE Ends  == /\ Fails(e) \/ call[e].verb \notin {"cordon", "list", "evict"}
                    /\ Returns(e, IF Fails(e) THEN "failed" ELSE "success")
                    /\ call' = [call EXCEPT ![e] = NoCall]
                    /\ UNCHANGED todo
           Lists == /\ ~Fails(e) /\ call[e].verb = "cordon"
                    /\ Submit(e, "list", Plan[e].target)
                    /\ UNCHANGED <<result, todo>>
           Evicts == /\ ~Fails(e) /\ call[e].verb \in {"list", "evict"}
                     /\ EvictNext(e, todo[e])
<1>1. Ends \/ Lists \/ Evicts
  BY DEF Resume
<1>2. /\ UNCHANGED <<applied, late, cordoned, location, terminating>>
      /\ result[e] = "none" /\ call[e].state \in {"done", "raised"}
      /\ refused' = [refused EXCEPT ![e] = @ \/ (call[e].verb = "evict" /\ Raised(e))]
      /\ refused \in [Executions -> BOOLEAN] /\ todo[e] \subseteq Pods
  BY DEF Resume, Answered, ExecInv, TypeOK, cluster, history
<1>3. /\ Own(e) /\ "list" \in Verbs /\ "evict" \in Verbs /\ Plan[e].target \in Objects
      /\ todo[e] \subseteq Objects
  BY <1>2 DEF ExecInv
<1>4. CASE f # e
  <2>1. call'[f] = call[f] /\ result'[f] = result[f] /\ todo'[f] = todo[f]
    <3>1. CASE Ends
      BY <1>4, <3>1 DEF Returns, ExecInv, TypeOK
    <3>2. CASE Lists
      BY <1>3, <1>4, <3>2, SubmitTypes DEF ExecInv
    <3>3. CASE Evicts
      <4>1. CASE \E p \in todo[e] : /\ Submit(e, "evict", p)
                                   /\ todo' = [todo EXCEPT ![e] = todo[e] \ {p}]
                                   /\ UNCHANGED result
        <5>1. PICK p \in todo[e] : /\ Submit(e, "evict", p)
                                   /\ todo' = [todo EXCEPT ![e] = todo[e] \ {p}]
                                   /\ UNCHANGED result
          BY <4>1
        <5>2. call'[f] = call[f]
          BY <1>3, <1>4, <5>1, SubmitTypes DEF ExecInv
        <5>3. QED
          BY <1>4, <5>1, <5>2 DEF ExecInv, TypeOK
      <4>2. CASE /\ Returns(e, "success") /\ call' = [call EXCEPT ![e] = NoCall]
                 /\ UNCHANGED todo
        BY <1>4, <4>2 DEF Returns, ExecInv, TypeOK
      <4>3. QED
        BY <3>3, <4>1, <4>2 DEF EvictNext
    <3>4. QED
      BY <1>1, <3>1, <3>2, <3>3
  <2>2. refused'[f] = refused[f]
    BY <1>2, <1>4
  <2>3. QED
    BY <1>2, <2>1, <2>2, AsideKeeps DEF Aside
<1>5. CASE f = e /\ Ends
  <2>1. call'[e] = NoCall /\ result'[e] = IF Fails(e) THEN "failed" ELSE "success"
    BY <1>5 DEF Returns, ExecInv, TypeOK
  <2>2. ~Fails(e) => Plan[e].action # "drain_node"
    BY <1>2, <1>3, <1>5 DEF Own, Matches, SingleCall
  <2>3. QED
    BY <1>2, <1>5, <2>1, <2>2, ReturnKeeps
<1>6. CASE f = e /\ Lists
  <2>1. call'[e] = [state |-> "queued", verb |-> "list", object |-> Plan[e].target]
    BY <1>3, <1>6, SubmitTypes DEF ExecInv
  <2>2. call[e].state = "done"
    BY <1>2, <1>6 DEF Fails, Raised
  <2>3. Plan[e].action = "drain_node" /\ call[e].object = Plan[e].target
    BY <1>3, <1>6, <2>2 DEF Own, Matches, SingleCall
  <2>4. /\ <<e, <<"cordon", Plan[e].target>>>> \in applied
        /\ Plan[e].target \in cordoned
        /\ \A p \in Pods : <<e, <<"evict", p>>>> \notin applied
    BY <1>3, <1>6, <2>2, <2>3 DEF Own, Once, Evictions
  <2>5. Matches(e)' /\ Drained(e)'
    BY <1>2, <1>6, <2>1, <2>3 DEF Matches, Drained
  <2>6. Evictions(e)'
    BY <1>2, <1>6, <2>1, <2>4 DEF Evictions
  <2>7. <<e, <<"list", Plan[e].target>>>> \notin applied
    BY <1>3 DEF Own, Once
  <2>8. QED
    BY <1>2, <1>3, <1>6, <2>5, <2>6, <2>7, SubmitKeeps
<1>7. CASE f = e /\ Evicts
  <2>1. Plan[e].action = "drain_node"
    BY <1>2, <1>3, <1>7 DEF Own, Matches, SingleCall
  <2>2. ASSUME ~refused'[e], NEW p \in Pods, location[p] = Plan[e].target
        PROVE  p \in todo[e] \cup terminating
    <3>1. ~refused[e] /\ ~(call[e].verb = "evict" /\ Raised(e))
      BY <1>2, <2>2
    <3>2. call[e].state = "done"
      BY <1>2, <1>7, <3>1 DEF Fails, Raised
    <3>3. QED
      BY <1>2, <1>3, <1>7, <2>1, <2>2, <3>1, <3>2 DEF Own, Drained
  <2>3. QED
    BY <1>2, <1>7, <2>1, <2>2, EvictNextKeeps
<1>8. QED
  BY <1>1, <1>4, <1>5, <1>6, <1>7

LEMMA ScheduleKeeps ==
  ASSUME ExecInv, NEW p \in Pods, NEW n \in Nodes, Schedule(p, n), NEW f \in Executions
  PROVE  Own(f)'
  BY AsideKeeps DEF Schedule, Aside, loop, history, ExecInv, TypeOK

LEMMA StoppedKeeps ==
  ASSUME ExecInv, NEW p \in Pods, Stopped(p), NEW f \in Executions
  PROVE  Own(f)'
<1>1. \A q \in Pods : \/ location'[q] = location[q] /\ (q \in terminating => q \in terminating')
                      \/ location'[q] = Nowhere
  BY DEF Stopped, ExecInv, TypeOK
<1>2. QED
  BY <1>1, AsideKeeps DEF Stopped, Aside, loop, history, ExecInv, TypeOK

(* What serving a call may change. *)
LEMMA ServedCases ==
  ASSUME ExecInv, NEW e \in Executions, Served(e)
  PROVE  /\ call[e] \in [state : States, verb : Verbs, object : Objects]
         /\ call[e].state = "running"
         /\ UNCHANGED <<result, refused>>
         /\ \A f \in Executions : f # e => call'[f] = call[f] /\ todo'[f] = todo[f]
         /\ cordoned \subseteq cordoned'
         /\ \A p \in Pods :
              \/ location'[p] = location[p] /\ (p \in terminating => p \in terminating')
              \/ location'[p] = Nowhere
         /\ call[e].verb = "cordon" => call[e].object \in cordoned'
         /\ call[e].verb = "evict" => \/ location'[call[e].object] = Nowhere
                                      \/ call[e].object \in terminating'
         /\ call[e].verb = "list" => UNCHANGED <<applied, late, location, terminating>>
         /\ call[e].verb # "list" =>
              /\ todo' = todo
              /\ applied' = applied \cup {<<e, <<call[e].verb, call[e].object>>>>}
              /\ late' = IF result[e] = "none" THEN late ELSE late \cup {e}
         /\ result[e] # "none" => call'[e] = NoCall /\ todo' = todo
         /\ result[e] = "none" => \E state \in {"done", "raised"} :
              call'[e] = [call[e] EXCEPT !.state = state]
         /\ result[e] = "none" /\ call[e].verb = "list" =>
              todo'[e] = {p \in Pods : location[p] = call[e].object}
<1>1. /\ call[e] \in [state : States, verb : Verbs, object : Objects]
      /\ call[e].state = "running" /\ UNCHANGED <<result, refused>>
  BY DEF Served, Busy, ExecInv, TypeOK
<1>2. \A f \in Executions : f # e => call'[f] = call[f] /\ todo'[f] = todo[f]
  BY DEF Served, Answer, ExecInv, TypeOK
<1>3. /\ cordoned \subseteq cordoned'
      /\ \A p \in Pods :
           \/ location'[p] = location[p] /\ (p \in terminating => p \in terminating')
           \/ location'[p] = Nowhere
      /\ call[e].verb = "cordon" => call[e].object \in cordoned'
      /\ call[e].verb = "evict" => \/ location'[call[e].object] = Nowhere
                                   \/ call[e].object \in terminating'
      /\ call[e].verb = "list" => UNCHANGED <<location, terminating>>
  BY <1>1 DEF Served, Serve, Remove, cluster, ExecInv, TypeOK
<1>4. /\ call[e].verb = "list" => UNCHANGED <<applied, late>>
      /\ call[e].verb # "list" =>
           /\ todo' = todo
           /\ applied' = applied \cup {<<e, <<call[e].verb, call[e].object>>>>}
           /\ late' = IF result[e] = "none" THEN late ELSE late \cup {e}
      /\ result[e] # "none" => todo' = todo
      /\ result[e] = "none" /\ call[e].verb = "list" =>
           todo'[e] = {p \in Pods : location[p] = call[e].object}
  BY DEF Served, history, ExecInv, TypeOK
<1>5. /\ result[e] # "none" => call'[e] = NoCall
      /\ result[e] = "none" => \E state \in {"done", "raised"} :
           call'[e] = [call[e] EXCEPT !.state = state]
  BY DEF Served, Answer, ExecInv, TypeOK
<1>6. QED
  BY <1>1, <1>2, <1>3, <1>4, <1>5

LEMMA ServedKeeps ==
  ASSUME ExecInv, NEW e \in Executions, Served(e), NEW f \in Executions
  PROVE  Own(f)'
<1> DEFINE verb == call[e].verb
           object == call[e].object
<1>1. Own(e) /\ todo[e] \subseteq Pods
  BY DEF ExecInv, TypeOK
<1>a. /\ call[e] \in [state : States, verb : Verbs, object : Objects]
      /\ call[e].state = "running"
      /\ UNCHANGED <<result, refused>>
  BY ServedCases
<1>b. verb = "list" \/ applied' = applied \cup {<<e, <<verb, object>>>>}
  BY ServedCases
<1>c. verb = "list" => applied' = applied
  BY ServedCases
<1>d. late' = late \/ (result[e] # "none" /\ late' = late \cup {e})
  BY ServedCases
<1>e. result[e] # "none" => call'[e] = NoCall
  BY ServedCases
<1>f. \A o \in Objects : <<e, <<"list", o>>>> \notin applied'
  <2>1. \A o \in Objects : <<e, <<"list", o>>>> \notin applied
    BY <1>1 DEF Own, Once
  <2>2. QED
    BY <1>b, <1>c, <2>1
<1>2. CASE f # e
  <2>1. /\ \A s \in Steps : <<f, s>> \in applied' <=> <<f, s>> \in applied
        /\ f \in late' <=> f \in late
    BY <1>2, <1>b, <1>c, <1>d
  <2>2. QED
    BY <1>2, <2>1, AsideKeeps, ServedCases DEF Aside
<1>3. CASE f = e /\ result[e] # "none"
  <2>1. /\ call'[e].state = "none" /\ call'[e].verb = "none"
        /\ result'[e] = result[e] /\ result[e] = "timeout"
    BY <1>1, <1>3, <1>a, <1>e DEF Own, Over
  <2>2. QED
    BY <1>3, <1>f, <2>1 DEF Own, Matches, Fresh0, Once, Evictions, Over, Drained
<1>4. CASE f = e /\ result[e] = "none"
  <2>1. PICK state \in {"done", "raised"} : call'[e] = [call[e] EXCEPT !.state = state]
    BY <1>4, ServedCases
  <2>2. /\ call'[e].verb = verb /\ call'[e].object = object /\ call'[e].state = state
        /\ call[e].state = "running" /\ object \in Objects /\ verb \in Verbs
        /\ result'[e] = "none" /\ refused'[e] = refused[e]
    BY <1>4, <2>1, ServedCases
  <2>3. Matches(e)' /\ Fresh0(e)'
    BY <1>1, <2>2 DEF Own, Matches, Fresh0
  <2>4. Over(e)'
    BY <1>1, <1>4, <2>2, ServedCases DEF Own, Over
  <2>5. Once(e)'
    BY <1>b, <1>f, <2>2 DEF Once
  <2>6. CASE verb = "list"
    <3>1. /\ Plan[e].action = "drain_node" /\ object = Plan[e].target
      BY <1>1, <2>2, <2>6 DEF Own, Matches, SingleCall
    <3>2. /\ UNCHANGED <<applied, location, terminating>> /\ cordoned \subseteq cordoned'
          /\ todo'[e] = {p \in Pods : location[p] = Plan[e].target}
      BY <1>4, <2>6, <3>1, ServedCases
    <3>3. Evictions(e)'
      BY <1>1, <2>2, <2>6, <3>2 DEF Own, Evictions
    <3>4. Drained(e)'
      BY <2>2, <2>6, <3>2 DEF Drained
    <3>5. QED
      BY <1>4, <2>3, <2>4, <2>5, <3>3, <3>4 DEF Own
  <2>7. CASE verb = "cordon"
    <3>1. /\ todo'[e] = todo[e]
          /\ applied' = applied \cup {<<e, <<"cordon", object>>>>}
          /\ object \in cordoned'
      BY <2>7, ServedCases
    <3>2. object = Plan[e].target
      BY <1>1, <2>2, <2>7 DEF Own, Matches
    <3>3. Evictions(e)'
      BY <1>1, <2>2, <2>7, <3>1, <3>2 DEF Own, Evictions
    <3>4. Drained(e)'
      BY <2>2, <2>7 DEF Drained
    <3>5. QED
      BY <1>4, <2>3, <2>4, <2>5, <3>3, <3>4 DEF Own
  <2>8. CASE verb = "evict"
    <3>1. /\ todo'[e] = todo[e]
          /\ applied' = applied \cup {<<e, <<"evict", object>>>>}
          /\ cordoned \subseteq cordoned'
          /\ location'[object] = Nowhere \/ object \in terminating'
          /\ \A p \in Pods :
               \/ location'[p] = location[p] /\ (p \in terminating => p \in terminating')
               \/ location'[p] = Nowhere
      BY <2>8, ServedCases
    <3>2. Evictions(e)'
      BY <1>1, <2>2, <2>8, <3>1 DEF Own, Evictions
    <3>3. Plan[e].target # Nowhere
      BY ExecutorAssumption
    <3>4. Drained(e)'
      BY <1>1, <1>4, <2>2, <2>8, <3>1, <3>3 DEF Own, Drained
    <3>5. QED
      BY <1>4, <2>3, <2>4, <2>5, <3>2, <3>4 DEF Own
  <2>9. CASE verb \notin {"list", "cordon", "evict"}
    <3>1. /\ Plan[e].action # "drain_node"
          /\ applied' = applied \cup {<<e, <<verb, object>>>>}
      BY <1>1, <1>b, <2>2, <2>9 DEF Own, Matches, SingleCall
    <3>a. todo'[e] = todo[e]
      BY <2>9, ServedCases
    <3>2. Evictions(e)' /\ Drained(e)'
      BY <1>1, <2>2, <2>9, <3>1, <3>a DEF Own, Evictions, Drained
    <3>3. QED
      BY <1>4, <2>3, <2>4, <2>5, <3>2 DEF Own
  <2>10. QED
    BY <2>6, <2>7, <2>8, <2>9
<1>5. QED
  BY <1>2, <1>3, <1>4
-----------------------------------------------------------------------------
LEMMA NextInv == ExecInv /\ [Next]_vars => ExecInv'
<1> SUFFICES ASSUME ExecInv, [Next]_vars PROVE ExecInv'
  OBVIOUS
<1>1. TypeOK'
  BY NextTypes DEF ExecInv
<1>2. ASSUME NEW f \in Executions PROVE Own(f)'
  <2>1. ASSUME NEW e \in Executions,
               \/ ExecuteIdle(e) \/ Execute(e) \/ Resume(e) \/ Timeout(e)
               \/ Start(e) \/ Served(e) \/ Refused(e)
        PROVE  Own(f)'
    BY <2>1, ExecuteIdleKeeps, ExecuteKeeps, ResumeKeeps, TimeoutKeeps, StartKeeps,
       ServedKeeps, RefusedKeeps
  <2>2. ASSUME NEW p \in Pods, NEW n \in Nodes, Schedule(p, n)
        PROVE  Own(f)'
    BY <2>2, ScheduleKeeps
  <2>3. ASSUME NEW p \in Pods, Stopped(p)
        PROVE  Own(f)'
    BY <2>3, StoppedKeeps
  <2>4. CASE UNCHANGED vars
    BY <2>4, AsideKeeps DEF vars, loop, cluster, history, Aside
  <2>5. QED
    BY <2>1, <2>2, <2>3, <2>4 DEF Next
<1>3. QED
  BY <1>1, <1>2 DEF ExecInv

LEMMA InvHolds == Spec => []ExecInv
<1>1. QED
  BY InitInv, NextInv, PTL DEF Spec

(* After a drain that succeeded with no eviction refused the pods on its    *)
(* node are terminating, for good, whoever else evicts, deletes or          *)
(* schedules pods meanwhile.                                                *)
THEOREM CleanDrainLeavesNone == Spec => []CleanDrainEvictsAll
<1>1. ExecInv => CleanDrainEvictsAll
  BY DEF ExecInv, Own, Drained, CleanDrainEvictsAll
<1>2. QED
  BY <1>1, InvHolds, PTL

(* The steps of the executor are steps of the contract. *)
LEMMA ReturnImplements ==
  ASSUME ExecInv, NEW e \in Executions, NEW r \in Contract!Results, Returns(e, r),
         result[e] = "none", UNCHANGED <<applied, late>>,
         r = "success" => {e} \X Vouched(e) \subseteq applied,
         r \in Contract!Idle => \A s \in Steps : <<e, s>> \notin applied
  PROVE  Contract!Next
<1>1. Contract!Return(e, r)
  BY DEF Contract!Return, Returns
<1>2. QED
  BY <1>1 DEF Contract!Next

(* What an execution vouches for it has applied by the time it succeeds. *)
LEMMA SuccessIsVouched ==
  ASSUME ExecInv, NEW e \in Executions, Answered(e), ~Fails(e),
         call[e].verb \notin {"cordon"}
  PROVE  {e} \X Vouched(e) \subseteq applied
<1>1. Own(e)
  BY DEF ExecInv
<1>2. call[e].state # "none" /\ call[e].state \in {"done", "raised"}
  BY DEF Answered
<1>3. CASE Plan[e].action = "drain_node"
  <2>1. call[e].verb \in {"list", "evict"}
    BY <1>1, <1>2, <1>3 DEF Own, Matches, SingleCall
  <2>2. <<e, <<"cordon", Plan[e].target>>>> \in applied
    BY <1>1, <1>2, <2>1 DEF Own, Evictions
  <2>3. Vouched(e) = {<<"cordon", Plan[e].target>>}
    BY <1>3, FirstVerbs DEF Vouched
  <2>4. QED
    BY <2>2, <2>3
<1>4. CASE Plan[e].action # "drain_node"
  <2>1. /\ Plan[e].action \in DOMAIN SingleCall
        /\ call[e].verb = SingleCall[Plan[e].action] /\ call[e].object = Plan[e].target
    BY <1>1, <1>2, <1>4 DEF Own, Matches
  <2>2. call[e].verb # "evict" /\ call[e].verb # "list"
    BY <2>1 DEF SingleCall
  <2>3. call[e].state = "done"
    BY <1>2, <2>2 DEF Fails, Raised
  <2>4. <<e, <<call[e].verb, call[e].object>>>> \in applied
    BY <1>1, <2>2, <2>3 DEF Own, Once
  <2>5. Vouched(e) = {<<call[e].verb, call[e].object>>}
    BY <1>4, <2>1, FirstVerbs DEF Vouched
  <2>6. QED
    BY <2>4, <2>5
<1>5. QED
  BY <1>3, <1>4

LEMMA NextImplements == ExecInv /\ [Next]_vars => [Contract!Next]_(Contract!vars)
<1> SUFFICES ASSUME ExecInv, [Next]_vars
             PROVE  Contract!Next \/ UNCHANGED Contract!vars
  OBVIOUS
<1>1. ASSUME NEW e \in Executions, ExecuteIdle(e) PROVE Contract!Next
  <2>1. PICK r \in Contract!Idle : Returns(e, r)
    BY <1>1 DEF ExecuteIdle, Contract!Idle
  <2>2. /\ result[e] = "none" /\ UNCHANGED <<applied, late>>
        /\ \A s \in Steps : <<e, s>> \notin applied
    BY <1>1 DEF ExecuteIdle, Fresh, history, ExecInv, Own, Fresh0
  <2>3. r \in Contract!Results /\ r # "success"
    BY <2>1 DEF Contract!Results, Contract!Idle
  <2>4. QED
    BY <2>1, <2>2, <2>3, ReturnImplements
<1>2. ASSUME NEW e \in Executions, Execute(e)
      PROVE  Contract!Next \/ UNCHANGED Contract!vars
  <2>1. CASE UNCHANGED result
    BY <1>2, <2>1 DEF Execute, history, Contract!vars
  <2>2. CASE Returns(e, "failed")
    BY <1>2, <2>2, ReturnImplements
    DEF Execute, Fresh, history, Contract!Results, Contract!Idle
  <2>3. QED
    BY <1>2, <2>1, <2>2 DEF Execute
<1>3. ASSUME NEW e \in Executions, Resume(e)
      PROVE  Contract!Next \/ UNCHANGED Contract!vars
  <2>1. Answered(e) /\ result[e] = "none" /\ UNCHANGED <<applied, late>>
    BY <1>3 DEF Resume, Answered, history
  <2>2. CASE UNCHANGED result
    BY <2>1, <2>2 DEF Contract!vars
  <2>3. CASE Returns(e, "failed")
    BY <2>1, <2>3, ReturnImplements DEF Contract!Results, Contract!Idle
  <2>4. CASE Returns(e, "success") /\ ~Fails(e) /\ call[e].verb # "cordon"
    BY <2>1, <2>4, ReturnImplements, SuccessIsVouched DEF Contract!Results, Contract!Idle
  <2>5. QED
    BY <1>3, <2>2, <2>3, <2>4 DEF Resume, EvictNext
<1>4. ASSUME NEW e \in Executions, Timeout(e) PROVE Contract!Next
  BY <1>4, ReturnImplements
  DEF Timeout, Pending, history, Contract!Results, Contract!Idle
<1>5. ASSUME NEW e \in Executions, Start(e) \/ Refused(e) PROVE UNCHANGED Contract!vars
  BY <1>5 DEF Start, Refused, history, Contract!vars
<1>6. ASSUME NEW e \in Executions, Served(e)
      PROVE  Contract!Next \/ UNCHANGED Contract!vars
  <2> DEFINE step == <<call[e].verb, call[e].object>>
  <2>1. CASE call[e].verb = "list"
    BY <1>6, <2>1, ServedCases DEF Contract!vars
  <2>2. CASE call[e].verb # "list"
    <3>1. /\ call[e].state = "running" /\ step \in Steps /\ UNCHANGED result
          /\ applied' = applied \cup {<<e, step>>}
          /\ late' = IF result[e] = "none" THEN late ELSE late \cup {e}
      BY <1>6, <2>2, ServedCases
    <3>2. Once(e) /\ Over(e)
      BY DEF ExecInv, Own
    <3>3. <<e, step>> \notin applied
      BY <3>1, <3>2 DEF Once
    <3>4. result[e] # "none" => result[e] = "timeout" /\ e \notin late
      BY <3>1, <3>2 DEF Over
    <3>5. Contract!Apply(e, step)
      BY <3>1, <3>3, <3>4 DEF Contract!Apply
    <3>6. QED
      BY <3>1, <3>5 DEF Contract!Next
  <2>3. QED
    BY <2>1, <2>2
<1>7. ASSUME NEW p \in Pods, NEW n \in Nodes, Schedule(p, n)
      PROVE  UNCHANGED Contract!vars
  BY <1>7 DEF Schedule, history, Contract!vars
<1>8. ASSUME NEW p \in Pods, Stopped(p)
      PROVE  UNCHANGED Contract!vars
  BY <1>8 DEF Stopped, history, Contract!vars
<1>9. CASE UNCHANGED vars
  BY <1>9 DEF vars, history, Contract!vars
<1>10. QED
  BY <1>1, <1>2, <1>3, <1>4, <1>5, <1>6, <1>7, <1>8, <1>9 DEF Next

(* The executor implements the contract: success means done, every step is  *)
(* done once at most, and only one step of an execution that timed out may  *)
(* still be done behind its return.                                         *)
THEOREM ExecutorKeepsContract == Spec => KeepsContract
<1>1. Init => Contract!Init
  BY DEF Init, Contract!Init
<1>2. QED
  BY <1>1, InvHolds, NextImplements, PTL DEF Spec, KeepsContract, Contract!Spec
-----------------------------------------------------------------------------
(* An execution is over after a number of steps that the cluster bounds:    *)
(* what it may have ahead of it, four steps to a call, gets less with each  *)
(* one it makes or the pool and the API server make for it.                 *)
CallsAhead(e) ==
  CASE call[e].verb = "cordon" -> Cardinality(Pods) + 1
    [] call[e].verb = "list" /\ call[e].state # "done" -> Cardinality(Pods)
    [] OTHER -> Cardinality(todo[e])

Stage(state) == CASE state = "queued" -> 3 [] state = "running" -> 2 [] OTHER -> 1

Longest == 4 * (Cardinality(Pods) + 2)
StepsAhead(e) ==
  CASE call[e].state = "none" -> IF result[e] = "none" THEN Longest ELSE 0
    [] call[e].state # "none" /\ result[e] # "none" -> 1
    [] OTHER -> 4 * CallsAhead(e) + Stage(call[e].state)

LEMMA SomePods ==
  /\ Cardinality(Pods) \in Nat
  /\ \A pods \in SUBSET Pods :
       /\ Cardinality(pods) \in Nat /\ Cardinality(pods) <= Cardinality(Pods)
       /\ \A p \in pods : Cardinality(pods \ {p}) = Cardinality(pods) - 1
<1>1. IsFiniteSet(Pods)
  BY ExecutorAssumption
<1>2. ASSUME NEW pods \in SUBSET Pods
      PROVE  /\ Cardinality(pods) \in Nat /\ Cardinality(pods) <= Cardinality(Pods)
             /\ \A p \in pods : Cardinality(pods \ {p}) = Cardinality(pods) - 1
  <2>1. IsFiniteSet(pods) /\ Cardinality(pods) <= Cardinality(Pods)
    BY <1>1, FS_Subset
  <2>2. QED
    BY <2>1, FS_CardinalityType, FS_RemoveElement
<1>3. QED
  BY <1>1, <1>2, FS_CardinalityType

LEMMA AheadBounded ==
  ASSUME TypeOK, NEW e \in Executions
  PROVE  /\ StepsAhead(e) \in 0..Longest
         /\ Pending(e) => StepsAhead(e) = 4 * CallsAhead(e) + Stage(call[e].state)
         /\ Pending(e) => CallsAhead(e) \in 0..(Cardinality(Pods) + 1)
<1>1. todo[e] \in SUBSET Pods
  BY DEF TypeOK
<1>2. Cardinality(Pods) \in Nat /\ Cardinality(todo[e]) \in Nat
      /\ Cardinality(todo[e]) <= Cardinality(Pods)
  BY <1>1, SomePods
<1>3. CallsAhead(e) \in 0..(Cardinality(Pods) + 1)
  BY <1>2 DEF CallsAhead
<1>4. Stage(call[e].state) \in 1..3
  BY DEF Stage
<1>5. QED
  BY <1>2, <1>3, <1>4 DEF StepsAhead, Longest, Pending

(* What is ahead of an execution whose state a step leaves alone.           *)
LEMMA AheadKept ==
  ASSUME NEW e \in Executions, call'[e] = call[e], result'[e] = result[e], todo'[e] = todo[e]
  PROVE  StepsAhead(e)' = StepsAhead(e)
BY DEF StepsAhead, CallsAhead, Stage, Longest

(* A return is the last step, or leaves the one of an abandoned call.       *)
LEMMA AheadOfReturn ==
  ASSUME TypeOK, TypeOK', NEW e \in Executions, result[e] = "none", result'[e] # "none",
         \/ call'[e] = NoCall
         \/ call[e].state = "running" /\ call'[e] = call[e]
  PROVE  StepsAhead(e)' < StepsAhead(e)
<1>1. Longest \in Nat /\ Longest >= 8
  BY SomePods DEF Longest
<1>2. CASE call[e].state = "none"
  BY <1>1, <1>2 DEF StepsAhead
<1>3. CASE call[e].state # "none" /\ call'[e] = NoCall
  <2>1. StepsAhead(e) >= 1
    BY <1>3, AheadBounded, SomePods DEF Pending, Stage
  <2>2. StepsAhead(e)' = 0
    BY <1>3 DEF StepsAhead
  <2>3. QED
    BY <2>1, <2>2, AheadBounded
<1>4. CASE call[e].state = "running" /\ call'[e] = call[e]
  <2>1. StepsAhead(e) >= 2
    BY <1>4, AheadBounded, SomePods DEF Pending, Stage
  <2>2. StepsAhead(e)' = 1
    BY <1>4 DEF StepsAhead
  <2>3. QED
    BY <2>1, <2>2, AheadBounded
<1>5. QED
  BY <1>2, <1>3, <1>4

(* A call that is submitted costs one of those ahead.                       *)
LEMMA AheadOfSubmit ==
  ASSUME TypeOK, TypeOK', NEW e \in Executions, NEW verb \in Verbs, NEW object \in Objects,
         Submit(e, verb, object), result'[e] = "none",
         NEW n \in Nat,
         StepsAhead(e) >= 4 * (n + 1) + 1 \/ StepsAhead(e) = 4 * (n + 1),
         verb = "cordon" => n = Cardinality(Pods) + 1,
         verb = "list" => n = Cardinality(Pods),
         verb \notin {"cordon", "list"} => n >= Cardinality(todo'[e])
  PROVE  StepsAhead(e)' < StepsAhead(e)
<1>1. call'[e] = [state |-> "queued", verb |-> verb, object |-> object]
  BY SubmitTypes
<1>2. todo'[e] \in SUBSET Pods
  BY DEF TypeOK
<1>3. Cardinality(Pods) \in Nat /\ Cardinality(todo'[e]) \in Nat
  BY <1>2, SomePods
<1>4. CallsAhead(e)' <= n /\ CallsAhead(e)' \in Nat
  BY <1>1, <1>3 DEF CallsAhead
<1>5. StepsAhead(e)' = 4 * CallsAhead(e)' + 3
  BY <1>1 DEF StepsAhead, Stage
<1>6. StepsAhead(e) \in Nat
  BY AheadBounded, SomePods DEF Longest
<1>7. QED
  BY <1>4, <1>5, <1>6

LEMMA ExecuteAhead ==
  ASSUME TypeOK, TypeOK', NEW e \in Executions, ExecuteIdle(e) \/ Execute(e)
  PROVE  StepsAhead(e)' < StepsAhead(e)
<1> DEFINE n == Cardinality(Pods) + 1
<1>1. StepsAhead(e) = 4 * (n + 1) /\ n \in Nat
  BY SomePods DEF ExecuteIdle, Execute, Fresh, StepsAhead, Longest
<1>2. result[e] = "none" /\ call[e].state = "none" /\ call[e] = NoCall
  BY DEF ExecuteIdle, Execute, Fresh, TypeOK
<1>3. CASE \E status \in {"unknown", "dry_run", "simulated", "failed"} :
             Returns(e, status) /\ UNCHANGED call
  BY <1>2, <1>3, AheadOfReturn DEF Returns, TypeOK
<1>4. CASE Submit(e, FirstVerb(Plan[e].action), Plan[e].target) /\ Execute(e)
           /\ UNCHANGED result
  <2>1. /\ FirstVerb(Plan[e].action) \in Verbs /\ FirstVerb(Plan[e].action) # "list"
        /\ Plan[e].target \in Objects
    BY <1>4, FirstVerbs, TargetsAreObjects DEF Execute
  <2>2. todo'[e] \in SUBSET Pods
    BY DEF TypeOK
  <2>3. n >= Cardinality(todo'[e])
    BY <2>2, SomePods
  <2>4. QED
    BY <1>1, <1>2, <1>4, <2>1, <2>3, AheadOfSubmit
<1>5. QED
  BY <1>3, <1>4 DEF ExecuteIdle, Execute

LEMMA ResumeAhead ==
  ASSUME TypeOK, TypeOK', NEW e \in Executions, Resume(e)
  PROVE  StepsAhead(e)' < StepsAhead(e)
<1>1. /\ result[e] = "none" /\ call[e].state \in {"done", "raised"}
      /\ Pending(e) /\ Stage(call[e].state) = 1 /\ todo[e] \in SUBSET Pods
  BY DEF Resume, Answered, Pending, Stage, TypeOK
<1>2. StepsAhead(e) = 4 * CallsAhead(e) + 1 /\ CallsAhead(e) \in Nat
  BY <1>1, AheadBounded, SomePods
<1>3. ASSUME NEW status \in {"failed", "success"}, Returns(e, status),
             call' = [call EXCEPT ![e] = NoCall]
      PROVE  StepsAhead(e)' < StepsAhead(e)
  BY <1>1, <1>3, AheadOfReturn DEF Returns, TypeOK
<1>4. CASE /\ ~Fails(e) /\ call[e].verb = "cordon"
           /\ Submit(e, "list", Plan[e].target) /\ UNCHANGED <<result, todo>>
  <2>1. CallsAhead(e) = Cardinality(Pods) + 1
    BY <1>4 DEF CallsAhead
  <2>2. QED
    BY <1>1, <1>2, <1>4, <2>1, SomePods, TargetsAreObjects, AheadOfSubmit
<1>5. CASE /\ ~Fails(e) /\ call[e].verb \in {"list", "evict"}
           /\ EvictNext(e, todo[e])
  <2>1. CallsAhead(e) = Cardinality(todo[e])
    BY <1>1, <1>5 DEF CallsAhead, Fails, Raised
  <2>2. ASSUME NEW p \in todo[e], Submit(e, "evict", p),
               todo' = [todo EXCEPT ![e] = todo[e] \ {p}], UNCHANGED result
        PROVE  StepsAhead(e)' < StepsAhead(e)
    <3> DEFINE n == Cardinality(todo[e] \ {p})
    <3>1. n = CallsAhead(e) - 1 /\ n \in Nat
      BY <1>1, <2>1, SomePods
    <3>2. todo'[e] = todo[e] \ {p} /\ p \in Objects
      BY <1>1, <2>2 DEF TypeOK
    <3>3. result'[e] = "none" /\ "evict" \in Verbs
      BY <1>1, <2>2
    <3>4. StepsAhead(e) >= 4 * (n + 1) + 1 /\ n >= Cardinality(todo'[e])
      BY <1>2, <3>1, <3>2
    <3> HIDE DEF n
    <3>5. QED
      BY <2>2, <3>1, <3>2, <3>3, <3>4, AheadOfSubmit
  <2>3. QED
    BY <1>3, <1>5, <2>2 DEF EvictNext
<1>6. QED
  BY <1>3, <1>4, <1>5 DEF Resume

LEMMA TimeoutAhead ==
  ASSUME TypeOK, TypeOK', NEW e \in Executions, Timeout(e)
  PROVE  StepsAhead(e)' < StepsAhead(e)
BY AheadOfReturn DEF Timeout, Pending, Returns, Abandoned, TypeOK

(* Start, Served and Refused: a call goes on to its next stage.             *)
LEMMA PoolAhead ==
  ASSUME ExecInv, TypeOK', NEW e \in Executions, Start(e) \/ Served(e) \/ Refused(e)
  PROVE  StepsAhead(e)' < StepsAhead(e)
<1>1. TypeOK
  BY DEF ExecInv
<1>2. todo[e] \in SUBSET Pods /\ todo'[e] \in SUBSET Pods
  BY <1>1 DEF TypeOK
<1>3. /\ Cardinality(Pods) \in Nat
      /\ Cardinality(todo[e]) \in Nat /\ Cardinality(todo[e]) <= Cardinality(Pods)
      /\ Cardinality(todo'[e]) \in Nat /\ Cardinality(todo'[e]) <= Cardinality(Pods)
  BY <1>2, SomePods
<1>4. CASE Start(e)
  <2>1. /\ call[e].state = "queued" /\ result[e] = "none"
        /\ call'[e] = [call[e] EXCEPT !.state = "running"]
        /\ call[e] \in [state : States, verb : Verbs, object : Objects]
        /\ result' = result /\ todo' = todo
    BY <1>1, <1>4 DEF Start, TypeOK, loop
  <2>2. call'[e].state = "running" /\ call'[e].verb = call[e].verb
    BY <2>1
  <2>3. CallsAhead(e)' = CallsAhead(e) /\ CallsAhead(e) \in Nat
    BY <1>3, <2>1, <2>2 DEF CallsAhead
  <2>4. QED
    BY <2>1, <2>2, <2>3 DEF StepsAhead, Stage
<1>5. CASE (Served(e) \/ Refused(e)) /\ result[e] # "none"
  <2>1. call[e].state = "running" /\ call'[e].state = "none" /\ result'[e] = result[e]
    BY <1>1, <1>5 DEF Served, Refused, Answer, Busy, TypeOK
  <2>2. QED
    BY <1>5, <2>1 DEF StepsAhead
<1>6. CASE (Served(e) \/ Refused(e)) /\ result[e] = "none"
  <2>1. /\ call[e].state = "running" /\ result'[e] = "none"
        /\ call'[e].state \in {"done", "raised"} /\ call'[e].verb = call[e].verb
    BY <1>1, <1>6 DEF Served, Refused, Answer, Busy, TypeOK
  <2>2. call[e].verb # "list" => todo'[e] = todo[e]
    BY <1>6 DEF Served, Refused, loop
  <2>3. CallsAhead(e)' <= CallsAhead(e) /\ CallsAhead(e) \in Nat /\ CallsAhead(e)' \in Nat
    BY <1>3, <2>1, <2>2 DEF CallsAhead
  <2>4. StepsAhead(e) = 4 * CallsAhead(e) + 2 /\ StepsAhead(e)' = 4 * CallsAhead(e)' + 1
    BY <1>6, <2>1 DEF StepsAhead, Stage
  <2>5. QED
    BY <2>3, <2>4
<1>7. QED
  BY <1>4, <1>5, <1>6

(* executor.py:222, without the timer: an execution has no more than four   *)
(* steps for each of two calls and its pods, whatever the cluster answers;  *)
(* each step of the event loop, the pool and the API server is one of them, *)
(* and no step of another execution, of the scheduler or of a kubelet adds  *)
(* to them.                                                                 *)
BoundedWork == \A e \in Executions : StepsAhead(e) \in 0..Longest

AlwaysForward ==
  [][/\ \A e \in Executions :
          <<call[e], result[e], todo[e]>>' = <<call[e], result[e], todo[e]>>
          \/ StepsAhead(e)' < StepsAhead(e)
     /\ \/ \E e \in Executions : StepsAhead(e)' < StepsAhead(e)
        \/ \E p \in Pods : Stopped(p) \/ \E n \in Nodes : Schedule(p, n)]_vars

THEOREM ExecutionsAreBounded == Spec => []BoundedWork /\ AlwaysForward
<1> DEFINE Forward ==
     /\ \A e \in Executions :
          <<call[e], result[e], todo[e]>>' = <<call[e], result[e], todo[e]>>
          \/ StepsAhead(e)' < StepsAhead(e)
     /\ \/ \E e \in Executions : StepsAhead(e)' < StepsAhead(e)
        \/ \E p \in Pods : Stopped(p) \/ \E n \in Nodes : Schedule(p, n)
<1>1. TypeOK => BoundedWork
  BY AheadBounded DEF BoundedWork
<1>2. ASSUME ExecInv, TypeOK', Next PROVE Forward
  <2>1. TypeOK
    BY <1>2 DEF ExecInv
  <2>2. ASSUME NEW p \in Pods, NEW n \in Nodes, Schedule(p, n) PROVE Forward
    BY <2>2 DEF Schedule, loop
  <2>a. ASSUME NEW p \in Pods, Stopped(p) PROVE Forward
    BY <2>a DEF Stopped, loop
  <2>3. ASSUME NEW e \in Executions,
               \/ ExecuteIdle(e) \/ Execute(e) \/ Resume(e) \/ Timeout(e)
               \/ Start(e) \/ Served(e) \/ Refused(e)
        PROVE  Forward
    <3>1. StepsAhead(e)' < StepsAhead(e)
      BY <1>2, <2>1, <2>3, ExecuteAhead, ResumeAhead, TimeoutAhead, PoolAhead
    <3>2. ASSUME NEW f \in Executions, f # e
          PROVE  call'[f] = call[f] /\ result'[f] = result[f] /\ todo'[f] = todo[f]
      BY <2>1, <2>3, <3>2
         DEF ExecuteIdle, Execute, Resume, Timeout, Start, Served, Refused, Answer,
             EvictNext, Submit, Returns, Abandoned, loop, TypeOK
    <3>3. QED
      BY <3>1, <3>2
  <2>4. QED
    BY <1>2, <2>2, <2>3, <2>a DEF Next
<1>3. ExecInv /\ ExecInv' /\ [Next]_vars => [Forward]_vars
  BY <1>2 DEF ExecInv
<1>4. QED
  BY <1>1, <1>3, InvHolds, TypeCorrect, PTL DEF Spec, AlwaysForward
=============================================================================

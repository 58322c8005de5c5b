-------------------------- MODULE RemediationContract --------------------------
(***************************************************************************)
(* What an execution of a remediation action promises its caller, without  *)
(* threads, timers and the Kubernetes API: each of its steps changes the   *)
(* cluster at most once; success means that what was promised has been     *)
(* done; and once it has returned nothing of it changes the cluster any    *)
(* more, but for one step of an execution that timed out.                  *)
(***************************************************************************)
CONSTANTS
  Executions,
  Steps,         \* what a step may be
  Promised(_)    \* the steps that success of an execution vouches for

VARIABLES
  result,    \* what an execution has returned, or "none" yet
  applied,   \* the steps that have changed the cluster, as <<execution, step>>
  late       \* the executions a step of which was applied after they returned

vars == <<result, applied, late>>

Idle    == {"dry_run", "unknown", "simulated"}
Results == Idle \cup {"success", "failed", "timeout"}

Init ==
  /\ result = [e \in Executions |-> "none"]
  /\ applied = {} /\ late = {}

Apply(e, step) ==
  /\ <<e, step>> \notin applied
  /\ \/ result[e] = "none" /\ UNCHANGED late
     \/ result[e] = "timeout" /\ e \notin late /\ late' = late \cup {e}
  /\ applied' = applied \cup {<<e, step>>}
  /\ UNCHANGED result

Return(e, r) ==
  /\ result[e] = "none"
  /\ r = "success" => {e} \X Promised(e) \subseteq applied
  /\ r \in Idle => \A step \in Steps : <<e, step>> \notin applied
  /\ result' = [result EXCEPT ![e] = r]
  /\ UNCHANGED <<applied, late>>

Next ==
  \E e \in Executions :
    \/ \E r \in Results : Return(e, r)
    \/ \E step \in Steps : Apply(e, step)

Spec == Init /\ [][Next]_vars
=============================================================================

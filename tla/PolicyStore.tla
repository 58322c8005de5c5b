----------------------------- MODULE PolicyStore -----------------------------
(***************************************************************************)
(* The policy store, src/causal5g/remediation/policy_store.py: policies    *)
(* that can be created, changed, switched and deleted over HTTP, a version *)
(* of the store, and an audit log of its last AuditLimit changes.          *)
(*                                                                         *)
(* No handler awaits anything, so each is one action.  A policy is named   *)
(* by its place in the order of creation, which is the order of the        *)
(* store's dict (a uuid in the code; that two of them never meet is taken  *)
(* for granted).  target and params are treated alike with action by every *)
(* operation and are left out; so are the timestamps.  description is not: *)
(* PATCH changes it and the snapshots of the log have no place for it.     *)
(***************************************************************************)
EXTENDS Integers, Sequences

CONSTANTS
    FaultScenarios,   \* what a policy may be for
    Fallback,         \* the scenario "_default"
    PolicyActions,    \* the actions of executor and engine
    Priorities,       \* lower is preferred
    Descriptions,     \* what a policy may say of itself
    DefaultPolicies,  \* sequence of [scenario, action, priority, description]
    AuditLimit,       \* 500 in the code
    PolicyCap,        \* bound of the model: policies ever created
    ChangeCap,        \* bound of the model: changes
    None              \* Python's None

VARIABLES
    policies,      \* PolicyId -> entry, or None where there is none
    born,          \* policies created so far
    storeVersion,  \* _version
    audit          \* _audit_log

policyVars == <<policies, born, storeVersion, audit>>

PolicyId == 1..PolicyCap

Policy == [scenario : FaultScenarios, action : PolicyActions, priority : Priorities,
           enabled : BOOLEAN, version : Nat, description : Descriptions]

(* What a snapshot for the log has of a policy. *)
Recorded == [scenario : FaultScenarios, action : PolicyActions, priority : Priorities,
             enabled : BOOLEAN, version : Nat]

ASSUME PolicyAssumption ==
    /\ AuditLimit \in Nat \ {0}
    /\ PolicyCap \in Nat /\ ChangeCap \in Nat
    /\ None \notin PolicyActions /\ None \notin Priorities /\ None \notin BOOLEAN
    /\ None \notin Descriptions /\ None \notin Policy /\ None \notin Recorded
    /\ DefaultPolicies \in
         Seq([scenario : FaultScenarios, action : PolicyActions, priority : Priorities,
              description : Descriptions])
    /\ Len(DefaultPolicies) <= PolicyCap

NewPolicy(s, a, p, d) ==
    [scenario |-> s, action |-> a, priority |-> p, enabled |-> TRUE, version |-> 1,
     description |-> d]

InitPolicies ==
    /\ policies = [id \in PolicyId |->
                     IF id <= Len(DefaultPolicies)
                     THEN NewPolicy(DefaultPolicies[id].scenario,
                                    DefaultPolicies[id].action,
                                    DefaultPolicies[id].priority,
                                    DefaultPolicies[id].description)
                     ELSE None]
    /\ born = Len(DefaultPolicies)
    /\ storeVersion = 0
    /\ audit = <<>>

-----------------------------------------------------------------------------
(* _snapshot, of a policy or of none. *)
Snapshot(p) ==
    IF p = None THEN None
    ELSE [scenario |-> p.scenario, action |-> p.action, priority |-> p.priority,
          enabled |-> p.enabled, version |-> p.version]

(* _audit: snapshots from before and after, the oldest entry goes first. *)
LatestOf(s) ==
    IF Len(s) <= AuditLimit THEN s ELSE SubSeq(s, Len(s) - AuditLimit + 1, Len(s))

Audit(op, id, before, after) ==
    /\ audit' = LatestOf(Append(audit, [op |-> op, id |-> id,
                                        before |-> Snapshot(before),
                                        after |-> Snapshot(after)]))
    /\ storeVersion' = storeVersion + 1

Create(s, a, p, d) ==
    /\ born < PolicyCap
    /\ born' = born + 1
    /\ policies' = [policies EXCEPT ![born + 1] = NewPolicy(s, a, p, d)]
    /\ Audit("create", born + 1, None, NewPolicy(s, a, p, d))

(* What PATCH may carry: a field is absent, or null, which the handler
   takes to be absent as well. *)
Patch == [action : PolicyActions \cup {None}, priority : Priorities \cup {None},
          enabled : BOOLEAN \cup {None}, description : Descriptions \cup {None}]

Given(new, old) == IF new = None THEN old ELSE new

Patched(p, patch) ==
    [scenario |-> p.scenario,
     action |-> Given(patch.action, p.action),
     priority |-> Given(patch.priority, p.priority),
     enabled |-> Given(patch.enabled, p.enabled),
     version |-> p.version + 1,
     description |-> Given(patch.description, p.description)]

\* mutant: the snapshot "before" is taken once the fields are set
ChangeSnapshotLate(id, patch) ==
    /\ policies[id] # None
    /\ policies' = [policies EXCEPT ![id] = Patched(@, patch)]
    /\ Audit("update", id, Patched(policies[id], patch), Patched(policies[id], patch))
    /\ UNCHANGED born

Change(id, patch) ==
    /\ policies[id] # None
    /\ policies' = [policies EXCEPT ![id] = Patched(@, patch)]
    /\ Audit("update", id, policies[id], Patched(policies[id], patch))
    /\ UNCHANGED born

Switch(b) == [action |-> None, priority |-> None, enabled |-> b, description |-> None]

Delete(id) ==
    /\ policies[id] # None
    /\ policies' = [policies EXCEPT ![id] = None]
    /\ Audit("delete", id, policies[id], None)
    /\ UNCHANGED born

NextPolicies ==
    /\ storeVersion < ChangeCap
    /\ \/ \E s \in FaultScenarios, a \in PolicyActions, p \in Priorities,
             d \in Descriptions : Create(s, a, p, d)
       \/ \E id \in PolicyId, patch \in Patch : Change(id, patch)
       \/ \E id \in PolicyId, b \in BOOLEAN : Change(id, Switch(b))
       \/ \E id \in PolicyId : Delete(id)

PolicySpec == InitPolicies /\ [][NextPolicies]_policyVars

-----------------------------------------------------------------------------
\* mutant: without a policy of its own a scenario gets those of all others
AnyEnabled(s) ==
    IF \E id \in PolicyId : /\ policies[id] # None
                            /\ policies[id].scenario = s
                            /\ policies[id].enabled
    THEN {id \in PolicyId : policies[id] # None /\ policies[id].scenario = s}
    ELSE {id \in PolicyId : policies[id] # None /\ policies[id].enabled}

(* get_ordered_actions: the policies a scenario gets, with what decides
   their order. *)
EnabledFor(s) ==
    {id \in PolicyId : /\ policies[id] # None
                       /\ policies[id].scenario = s
                       /\ policies[id].enabled}

Selected(s) == IF EnabledFor(s) # {} THEN EnabledFor(s) ELSE EnabledFor(Fallback)

OrderedActions(s) ==
    {<<id, policies[id].priority, policies[id].action>> : id \in Selected(s)}

-----------------------------------------------------------------------------
PolicyTypeOK ==
    /\ policies \in [PolicyId -> Policy \cup {None}]
    /\ born \in 0..PolicyCap
    /\ storeVersion \in Nat
    /\ audit \in Seq([op : {"create", "update", "delete"}, id : PolicyId,
                      before : Recorded \cup {None}, after : Recorded \cup {None}])
    /\ Len(audit) <= AuditLimit

(* The last entry about a policy says what the policy is now but for its
   description, and each entry takes up where the one before it about the same
   policy left off, also when the older part of the log has been cut off: what
   decides a choice can be replayed.  A description cannot, for _snapshot
   (policy_store.py:195) leaves out what update (line 148) may change. *)
LastAbout(id, i) == audit[i].id = id /\ \A j \in (i + 1)..Len(audit) : audit[j].id # id

AuditTellsStore ==
    /\ \A i \in 1..Len(audit) :
         LastAbout(audit[i].id, i) => audit[i].after = Snapshot(policies[audit[i].id])
    /\ \A i, j \in 1..Len(audit) :
         /\ i < j
         /\ audit[i].id = audit[j].id
         /\ \A k \in (i + 1)..(j - 1) : audit[k].id # audit[j].id
         => audit[i].after = audit[j].before

(* What a scenario gets changes only together with the version of the store,
   and the newest entry of the log names a policy of that scenario or of the
   fallback as the reason. *)
Concerns(e, s) ==
    \/ e.before # None /\ e.before.scenario \in {s, Fallback}
    \/ e.after # None /\ e.after.scenario \in {s, Fallback}

ChoiceIsAudited ==
    [][\A s \in FaultScenarios :
         OrderedActions(s)' # OrderedActions(s) =>
           /\ storeVersion' = storeVersion + 1
           /\ Concerns(audit'[Len(audit')], s)]_policyVars
=============================================================================

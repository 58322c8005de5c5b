----------------------------- MODULE StoresProofs -----------------------------
(***************************************************************************)
(* Proofs about the parts whose every operation is one step: policies      *)
(* with their audit log, verdicts, the caches of the PC router, reports    *)
(* and the telemetry buffer, for any policies, scores and limits.          *)
(*                                                                         *)
(* Every operation on the policies replaces one policy and logs what it    *)
(* was and what it is; the first lemmas say what that does to the log,     *)
(* once, and the operations are its instances.                             *)
(***************************************************************************)
EXTENDS PolicyStore, Verifier, ReportStore, Telemetry, PCRouter, SequenceTheorems, TLAPS

Entry == [op : {"create", "update", "delete"}, id : PolicyId,
          before : Recorded \cup {None}, after : Recorded \cup {None}]

NewEntry(op, id, before, after) == [op |-> op, id |-> id, before |-> before, after |-> after]

(* One step of the store: the policy id becomes after, and the log says so. *)
Replaces(op, id, after) ==
    /\ policies' = [policies EXCEPT ![id] = after]
    /\ Audit(op, id, policies[id], after)

(* Policies that have not been created are not there: what "create" logs as
   the state before. *)
UnbornAreNone == \A id \in PolicyId : id > born => policies[id] = None

IInv == PolicyTypeOK /\ UnbornAreNone /\ AuditTellsStore

(* What is kept of a log that had no more than AuditLimit entries and gets
   another: all of it but the first d. *)
LEMMA LatestKeepsTheEnd ==
  ASSUME NEW S, NEW log \in Seq(S), NEW e \in S, Len(log) <= AuditLimit
  PROVE  \E d \in {0, 1} :
           /\ LatestOf(Append(log, e)) \in Seq(S)
           /\ Len(LatestOf(Append(log, e))) = Len(log) + 1 - d
           /\ Len(LatestOf(Append(log, e))) \in 1..AuditLimit
           /\ \A k \in 1..(Len(log) + 1 - d) :
                LatestOf(Append(log, e))[k] = IF k + d = Len(log) + 1 THEN e ELSE log[k + d]
<1> DEFINE s == Append(log, e)
<1>1. s \in Seq(S) /\ Len(s) = Len(log) + 1 /\ Len(log) \in Nat
  OBVIOUS
<1>2. \A k \in 1..Len(s) : s[k] = IF k = Len(log) + 1 THEN e ELSE log[k]
  OBVIOUS
<1>3. AuditLimit \in Nat \ {0}
  BY PolicyAssumption
<1>4. CASE Len(s) <= AuditLimit
  <2>1. LatestOf(s) = s
    BY <1>4 DEF LatestOf
  <2> QED
    BY <1>1, <1>2, <1>3, <1>4, <2>1
<1>5. CASE ~(Len(s) <= AuditLimit)
  <2>1. Len(log) = AuditLimit
    BY <1>1, <1>3, <1>5
  <2>2. LatestOf(s) = SubSeq(s, 2, Len(s))
    BY <1>1, <1>3, <1>5, <2>1 DEF LatestOf
  <2>3. /\ LatestOf(s) \in Seq(S)
        /\ Len(LatestOf(s)) = Len(log)
        /\ \A k \in 1..Len(log) : LatestOf(s)[k] = s[k + 1]
    BY <1>1, <1>3, <2>1, <2>2
  <2> QED
    BY <1>1, <1>2, <1>3, <2>1, <2>3
<1> QED
  BY <1>4, <1>5

(* A snapshot is of a policy or of none, and has the policy's scenario. *)
LEMMA SnapshotIsRecorded ==
  ASSUME NEW p \in Policy \cup {None}
  PROVE  /\ Snapshot(p) \in Recorded \cup {None}
         /\ (p = None <=> Snapshot(p) = None)
         /\ (p # None => Snapshot(p).scenario = p.scenario)
<1>1. CASE p = None
  BY <1>1 DEF Snapshot
<1>2. CASE p # None
  <2>1. p \in Policy
    BY <1>2
  <2>2. Snapshot(p) \in Recorded /\ Snapshot(p).scenario = p.scenario
    BY <1>2, <2>1 DEF Snapshot, Recorded, Policy
  <2> QED
    BY <1>2, <2>2, PolicyAssumption
<1> QED
  BY <1>1, <1>2

(* The log of a store that replaces a policy still tells the store. *)
LEMMA ReplacingIsTold ==
  ASSUME IInv, NEW op \in {"create", "update", "delete"}, NEW id \in PolicyId,
         NEW after \in Policy \cup {None}, Replaces(op, id, after)
  PROVE  /\ policies' \in [PolicyId -> Policy \cup {None}]
         /\ storeVersion' \in Nat
         /\ audit' \in Seq(Entry) /\ Len(audit') <= AuditLimit
         /\ storeVersion' = storeVersion + 1
         /\ Len(audit') > 0 /\ audit'[Len(audit')] = NewEntry(op, id, Snapshot(policies[id]),
                                                                    Snapshot(after))
         /\ AuditTellsStore'
<1> DEFINE e == NewEntry(op, id, Snapshot(policies[id]), Snapshot(after))
           n == Len(audit)
<1>1. /\ policies \in [PolicyId -> Policy \cup {None}]
      /\ audit \in Seq(Entry) /\ n <= AuditLimit /\ n \in Nat
      /\ storeVersion \in Nat
  BY DEF IInv, PolicyTypeOK, Entry
<1>2. e \in Entry
  <2>1. /\ Snapshot(policies[id]) \in Recorded \cup {None}
        /\ Snapshot(after) \in Recorded \cup {None}
    BY <1>1, SnapshotIsRecorded
  <2> QED
    BY <2>1 DEF Entry, NewEntry
<1>3. /\ policies' = [policies EXCEPT ![id] = after]
      /\ audit' = LatestOf(Append(audit, e))
      /\ storeVersion' = storeVersion + 1
  BY DEF Replaces, Audit, NewEntry
<1>4. PICK d \in {0, 1} :
        /\ audit' \in Seq(Entry)
        /\ Len(audit') = n + 1 - d
        /\ Len(audit') \in 1..AuditLimit
        /\ \A k \in 1..(n + 1 - d) : audit'[k] = IF k + d = n + 1 THEN e ELSE audit[k + d]
  <2>1. \E d \in {0, 1} :
          /\ LatestOf(Append(audit, e)) \in Seq(Entry)
          /\ Len(LatestOf(Append(audit, e))) = Len(audit) + 1 - d
          /\ Len(LatestOf(Append(audit, e))) \in 1..AuditLimit
          /\ \A k \in 1..(Len(audit) + 1 - d) :
               LatestOf(Append(audit, e))[k] = IF k + d = Len(audit) + 1 THEN e ELSE audit[k + d]
    <3> HIDE DEF e
    <3> QED
      BY <1>1, <1>2, LatestKeepsTheEnd
  <2> HIDE DEF e
  <2> QED
    BY <1>3, <2>1
<1> HIDE DEF e, n
<1>5. /\ Len(audit') = n + 1 - d
      /\ audit'[n + 1 - d] = e
      /\ \A k \in 1..(n - d) : audit'[k] = audit[k + d]
      /\ n - d \in Nat /\ n \in Nat /\ d \in Nat /\ AuditLimit \in Nat
  BY <1>1, <1>4, PolicyAssumption
<1>6. e.id = id /\ e.before = Snapshot(policies[id]) /\ e.after = Snapshot(after)
  BY DEF e, NewEntry
<1>7. \A i \in 1..n :
        LastAbout(audit[i].id, i) => audit[i].after = Snapshot(policies[audit[i].id])
  BY DEF IInv, AuditTellsStore, n
<1>8. \A i, j \in 1..n : /\ i < j
                         /\ audit[i].id = audit[j].id
                         /\ \A k \in (i + 1)..(j - 1) : audit[k].id # audit[j].id
                         => audit[i].after = audit[j].before
  BY DEF IInv, AuditTellsStore, n
<1>9. \A i \in 1..n : audit[i] \in Entry /\ audit[i].id \in PolicyId
  <2>1. \A i \in 1..n : audit[i] \in Entry
    BY <1>1 DEF n
  <2>2. \A x \in Entry : x.id \in PolicyId
    BY DEF Entry
  <2> QED
    BY <2>1, <2>2
<1>10. ASSUME NEW i \in 1..Len(audit'), LastAbout(audit[i].id, i)'
       PROVE  audit'[i].after = Snapshot(policies'[audit'[i].id])
  <2>1. CASE i = n + 1 - d
    BY <1>1, <1>3, <1>5, <1>6, <2>1
  <2>2. CASE i \in 1..(n - d)
    <3>1. audit'[i] = audit[i + d] /\ i + d \in 1..n
      BY <1>1, <1>5, <2>2
    <3>2. \A j \in (i + 1)..(n + 1 - d) : audit'[j].id # audit'[i].id
      BY <1>5, <1>10 DEF LastAbout
    <3>3. audit'[i].id # id
      <4>1. n + 1 - d \in (i + 1)..(n + 1 - d)
        BY <1>5, <2>2
      <4>2. audit'[n + 1 - d].id # audit'[i].id
        BY <3>2, <4>1
      <4> QED
        BY <1>5, <1>6, <4>2
    <3>4. \A j \in (i + d + 1)..n : audit[j].id # audit[i + d].id
      <4> SUFFICES ASSUME NEW j \in (i + d + 1)..n PROVE audit[j].id # audit[i + d].id
        OBVIOUS
      <4>1. j - d \in (i + 1)..(n - d) /\ j - d \in 1..(n - d) /\ (j - d) + d = j
        BY <1>1, <1>5, <2>2
      <4>2. audit'[j - d] = audit[j]
        BY <1>5, <4>1
      <4>3. audit'[j - d].id # audit'[i].id
        <5>1. j - d \in (i + 1)..(n + 1 - d)
          BY <1>5, <4>1
        <5> QED
          BY <3>2, <5>1
      <4> QED
        BY <3>1, <4>2, <4>3
    <3>5. LastAbout(audit[i + d].id, i + d)
      BY <3>1, <3>4 DEF LastAbout, n
    <3>6. audit[i + d].after = Snapshot(policies[audit[i + d].id])
      BY <1>7, <3>1, <3>5
    <3> QED
      BY <1>1, <1>3, <1>9, <3>1, <3>3, <3>6
  <2> QED
    BY <1>5, <1>10, <2>1, <2>2
<1>11. ASSUME NEW i \in 1..Len(audit'), NEW j \in 1..Len(audit'),
              i < j, audit'[i].id = audit'[j].id,
              \A k \in (i + 1)..(j - 1) : audit'[k].id # audit'[j].id
       PROVE  audit'[i].after = audit'[j].before
  <2>1. i \in 1..(n - d) /\ audit'[i] = audit[i + d] /\ i + d \in 1..n
    <3>1. i \in Nat /\ j \in Nat /\ 1 <= i /\ i < j /\ j <= n + 1 - d
      BY <1>1, <1>5, <1>11
    <3>2. i \in 1..(n - d) /\ i + d \in 1..n
      BY <1>1, <3>1
    <3>3. QED
      BY <1>5, <3>2
  <2>2. CASE j = n + 1 - d
    <3>1. audit[i + d].id = id /\ audit'[j] = e
      BY <1>5, <1>6, <1>11, <2>1, <2>2
    <3>2. \A k \in (i + d + 1)..n : audit[k].id # audit[i + d].id
      <4> SUFFICES ASSUME NEW k \in (i + d + 1)..n PROVE audit[k].id # audit[i + d].id
        OBVIOUS
      <4>1. k - d \in (i + 1)..(j - 1) /\ k - d \in 1..(n - d) /\ (k - d) + d = k
        <5>1. n \in Int /\ d \in Int /\ d >= 0 /\ i \in Int /\ i >= 1 /\ k \in Int
          BY <1>5, <2>1
        <5>2. j \in Int /\ j - 1 <= n - d
          BY <5>1, <2>2
        <5>3. i + d + 1 <= k /\ k <= j + d - 1 /\ k <= n
          BY <5>1, <5>2, <2>2
        <5> QED
          BY <5>1, <5>2, <5>3
      <4>2. audit'[k - d] = audit[k]
        BY <1>5, <4>1
      <4>3. audit'[k - d].id # audit'[j].id
        BY <1>11, <4>1
      <4> QED
        BY <1>11, <2>1, <4>2, <4>3
    <3>3. LastAbout(audit[i + d].id, i + d)
      BY <2>1, <3>2 DEF LastAbout, n
    <3> QED
      BY <1>6, <1>7, <2>1, <3>1, <3>3
  <2>3. CASE j \in 1..(n - d)
    <3>1. audit'[j] = audit[j + d] /\ j + d \in 1..n /\ i + d < j + d
      <4>1. audit'[j] = audit[j + d] /\ j + d \in 1..n
        BY <1>5, <2>3
      <4>2. i \in Int /\ j \in Int /\ d \in Int
        BY <1>5, <2>1, <2>3
      <4> QED
        BY <1>11, <4>1, <4>2
    <3>2. \A k \in (i + d + 1)..(j + d - 1) : audit[k].id # audit[j + d].id
      <4> SUFFICES ASSUME NEW k \in (i + d + 1)..(j + d - 1) PROVE audit[k].id # audit[j + d].id
        OBVIOUS
      <4>1. k - d \in (i + 1)..(j - 1) /\ k - d \in 1..(n - d) /\ (k - d) + d = k
        <5>1. n \in Int /\ d \in Int /\ d >= 0 /\ i \in Int /\ i >= 1 /\ k \in Int
          BY <1>5, <2>1
        <5>2. j \in Int /\ j - 1 <= n - d
          BY <5>1, <2>3
        <5>3. i + d + 1 <= k /\ k <= j + d - 1 /\ k <= n
          BY <5>1, <5>2, <2>3
        <5> QED
          BY <5>1, <5>2, <5>3
      <4>2. audit'[k - d] = audit[k]
        BY <1>5, <4>1
      <4>3. audit'[k - d].id # audit'[j].id
        BY <1>11, <4>1
      <4> QED
        BY <3>1, <4>2, <4>3
    <3> QED
      BY <1>8, <1>11, <2>1, <3>1, <3>2
  <2> QED
    BY <1>5, <2>2, <2>3
<1>12. AuditTellsStore'
  BY <1>10, <1>11 DEF AuditTellsStore, LastAbout, Snapshot
<1> QED
  BY <1>1, <1>3, <1>4, <1>5, <1>12 DEF e

-----------------------------------------------------------------------------
(* None is not a policy, and what a patch makes of a policy is one. *)
LEMMA NoneIsNoPolicy == None \notin Policy
BY PolicyAssumption

LEMMA PatchedIsPolicy ==
  ASSUME NEW p \in Policy, NEW patch \in Patch
  PROVE  Patched(p, patch) \in Policy
<1>1. /\ Given(patch.action, p.action) \in PolicyActions
      /\ Given(patch.priority, p.priority) \in Priorities
      /\ Given(patch.enabled, p.enabled) \in BOOLEAN
      /\ Given(patch.description, p.description) \in Descriptions
  BY DEF Policy, Patch, Given
<1>2. p.scenario \in FaultScenarios /\ p.version + 1 \in Nat
  BY DEF Policy
<1> QED
  BY <1>1, <1>2 DEF Patched, Policy

LEMMA SwitchIsPatch == \A b \in BOOLEAN : Switch(b) \in Patch
BY DEF Switch, Patch

(* Every step of the store replaces one policy. *)
LEMMA StepsReplace ==
  ASSUME IInv, NextPolicies
  PROVE  \E op \in {"create", "update", "delete"}, id \in PolicyId,
            after \in Policy \cup {None} :
           /\ Replaces(op, id, after)
           /\ born' \in 0..PolicyCap
           /\ \A i \in PolicyId : i > born' => i > born /\ i # id
<1>1. /\ policies \in [PolicyId -> Policy \cup {None}] /\ born \in 0..PolicyCap
      /\ UnbornAreNone
  BY DEF IInv, PolicyTypeOK
<1>2. ASSUME NEW s \in FaultScenarios, NEW a \in PolicyActions, NEW p \in Priorities,
             NEW d \in Descriptions, Create(s, a, p, d)
      PROVE  /\ Replaces("create", born + 1, NewPolicy(s, a, p, d))
             /\ born + 1 \in PolicyId /\ NewPolicy(s, a, p, d) \in Policy
             /\ born' \in 0..PolicyCap
             /\ \A i \in PolicyId : i > born' => i > born /\ i # born + 1
  <2>1. born + 1 \in PolicyId /\ born' = born + 1 /\ born' \in 0..PolicyCap
    BY <1>1, <1>2, PolicyAssumption DEF Create, PolicyId
  <2>2. policies[born + 1] = None
    <3>1. born + 1 > born
      BY <1>1
    <3> QED
      BY <1>1, <2>1, <3>1 DEF UnbornAreNone
  <2>3. NewPolicy(s, a, p, d) \in Policy
    BY DEF NewPolicy, Policy
  <2>4. Replaces("create", born + 1, NewPolicy(s, a, p, d))
    BY <1>2, <2>2 DEF Create, Replaces
  <2>5. \A i \in PolicyId : i > born' => i > born /\ i # born + 1
    BY <1>1, <2>1 DEF PolicyId
  <2> QED
    BY <2>1, <2>3, <2>4, <2>5
<1>3. ASSUME NEW id \in PolicyId, NEW patch \in Patch, Change(id, patch)
      PROVE  /\ Replaces("update", id, Patched(policies[id], patch))
             /\ Patched(policies[id], patch) \in Policy
             /\ born' \in 0..PolicyCap
             /\ \A i \in PolicyId : i > born' => i > born /\ i # id
  <2>1. policies[id] \in Policy
    BY <1>1, <1>3 DEF Change
  <2>2. Patched(policies[id], patch) \in Policy
    BY <2>1, PatchedIsPolicy
  <2>3. policies' = [policies EXCEPT ![id] = Patched(policies[id], patch)]
    BY <1>3 DEF Change
  <2>4. born' = born /\ id <= born
    <3>1. born' = born /\ policies[id] # None
      BY <1>3 DEF Change
    <3>2. ~(id > born)
      BY <1>1, <3>1 DEF UnbornAreNone
    <3> QED
      BY <1>1, <3>1, <3>2 DEF PolicyId
  <2>5. Replaces("update", id, Patched(policies[id], patch))
    BY <1>3, <2>3 DEF Change, Replaces
  <2>6. \A i \in PolicyId : i > born' => i > born /\ i # id
    BY <1>1, <2>4 DEF PolicyId
  <2> QED
    BY <1>1, <2>2, <2>4, <2>5, <2>6
<1>4. ASSUME NEW id \in PolicyId, Delete(id)
      PROVE  /\ Replaces("delete", id, None)
             /\ born' \in 0..PolicyCap
             /\ \A i \in PolicyId : i > born' => i > born /\ i # id
  <2>1. born' = born /\ id <= born
    <3>1. born' = born /\ policies[id] # None
      BY <1>4 DEF Delete
    <3>2. ~(id > born)
      BY <1>1, <3>1 DEF UnbornAreNone
    <3> QED
      BY <1>1, <3>1, <3>2 DEF PolicyId
  <2>2. Replaces("delete", id, None)
    BY <1>4 DEF Delete, Replaces
  <2>3. \A i \in PolicyId : i > born' => i > born /\ i # id
    BY <1>1, <2>1 DEF PolicyId
  <2> QED
    BY <1>1, <2>1, <2>2, <2>3
<1>5. CASE \E s \in FaultScenarios, a \in PolicyActions, p \in Priorities,
              d \in Descriptions : Create(s, a, p, d)
  BY <1>2, <1>5
<1>6. CASE \E id \in PolicyId, patch \in Patch : Change(id, patch)
  BY <1>3, <1>6
<1>7. CASE \E id \in PolicyId, b \in BOOLEAN : Change(id, Switch(b))
  <2>1. PICK id \in PolicyId, b \in BOOLEAN : Change(id, Switch(b))
    BY <1>7
  <2>2. Switch(b) \in Patch
    BY SwitchIsPatch
  <2> QED
    BY <1>3, <2>1, <2>2
<1>8. CASE \E id \in PolicyId : Delete(id)
  BY <1>4, <1>8
<1> QED
  BY <1>5, <1>6, <1>7, <1>8 DEF NextPolicies

-----------------------------------------------------------------------------
(* The initial store: every default policy, and an empty log. *)
LEMMA InitHolds == InitPolicies => IInv
<1> SUFFICES ASSUME InitPolicies PROVE IInv
  OBVIOUS
<1>1. /\ born = Len(DefaultPolicies) /\ born \in 0..PolicyCap
      /\ storeVersion = 0 /\ audit = <<>>
  BY PolicyAssumption DEF InitPolicies
<1>2. \A id \in PolicyId : id <= Len(DefaultPolicies) =>
        NewPolicy(DefaultPolicies[id].scenario, DefaultPolicies[id].action,
                  DefaultPolicies[id].priority,
                  DefaultPolicies[id].description) \in Policy
  <2> SUFFICES ASSUME NEW id \in PolicyId, id <= Len(DefaultPolicies)
               PROVE  NewPolicy(DefaultPolicies[id].scenario, DefaultPolicies[id].action,
                                DefaultPolicies[id].priority,
                  DefaultPolicies[id].description) \in Policy
    OBVIOUS
  <2>1. DefaultPolicies[id] \in [scenario : FaultScenarios, action : PolicyActions,
                                 priority : Priorities, description : Descriptions]
    <3>1. id \in 1..Len(DefaultPolicies)
      BY PolicyAssumption DEF PolicyId
    <3> DEFINE D == [scenario : FaultScenarios, action : PolicyActions,
                     priority : Priorities, description : Descriptions]
    <3>2. DefaultPolicies \in Seq(D)
      BY PolicyAssumption
    <3> HIDE DEF D
    <3>3. DefaultPolicies[id] \in D
      BY <3>1, <3>2
    <3> QED
      BY <3>3 DEF D
  <2> QED
    BY <2>1 DEF NewPolicy, Policy
<1>3. policies \in [PolicyId -> Policy \cup {None}]
  BY <1>2 DEF InitPolicies
<1>4. UnbornAreNone
  BY <1>1, PolicyAssumption DEF InitPolicies, UnbornAreNone, PolicyId
<1>5. PolicyTypeOK
  BY <1>1, <1>3, PolicyAssumption DEF PolicyTypeOK
<1>6. AuditTellsStore
  BY <1>1 DEF AuditTellsStore
<1> QED
  BY <1>4, <1>5, <1>6 DEF IInv

LEMMA StepHolds == IInv /\ [NextPolicies]_policyVars => IInv'
<1> SUFFICES ASSUME IInv, [NextPolicies]_policyVars PROVE IInv'
  OBVIOUS
<1>1. CASE NextPolicies
  <2>1. PICK op \in {"create", "update", "delete"}, id \in PolicyId,
             after \in Policy \cup {None} :
           /\ Replaces(op, id, after)
           /\ born' \in 0..PolicyCap
           /\ \A i \in PolicyId : i > born' => i > born /\ i # id
    BY <1>1, StepsReplace
  <2>2. /\ policies' \in [PolicyId -> Policy \cup {None}]
        /\ storeVersion' \in Nat
        /\ audit' \in Seq(Entry) /\ Len(audit') <= AuditLimit
        /\ AuditTellsStore'
    BY <2>1, ReplacingIsTold
  <2>3. PolicyTypeOK'
    BY <2>1, <2>2 DEF PolicyTypeOK, Entry
  <2>4. UnbornAreNone'
    <3>1. policies' = [policies EXCEPT ![id] = after]
      BY <2>1 DEF Replaces
    <3>2. policies \in [PolicyId -> Policy \cup {None}] /\ UnbornAreNone
      BY DEF IInv, PolicyTypeOK
    <3>3. \A i \in PolicyId : i > born' => policies[i] = None /\ i # id
      BY <2>1, <3>2 DEF UnbornAreNone
    <3>4. \A i \in PolicyId : i > born' => policies'[i] = None
      BY <3>1, <3>2, <3>3
    <3> QED
      BY <3>4 DEF UnbornAreNone, PolicyId
  <2> QED
    BY <2>2, <2>3, <2>4 DEF IInv
<1>2. CASE UNCHANGED policyVars
  BY <1>2 DEF policyVars, IInv, PolicyTypeOK, UnbornAreNone, AuditTellsStore, LastAbout, Snapshot
<1> QED
  BY <1>1, <1>2

(* The types of the store, the log and its bound: the log never holds more
   than AuditLimit entries. *)
THEOREM PolicyTypeCorrect == PolicySpec => []PolicyTypeOK
<1>1. IInv => PolicyTypeOK
  BY DEF IInv
<1> QED
  BY <1>1, InitHolds, StepHolds, PTL DEF PolicySpec

(* However the policies are created, patched, switched and deleted, and
   however short the log, its last entry about a policy says what the policy
   is but for its description, and its entries about a policy join up. *)
THEOREM AuditAlwaysTells == PolicySpec => []AuditTellsStore
<1>1. IInv => AuditTellsStore
  BY DEF IInv
<1> QED
  BY <1>1, InitHolds, StepHolds, PTL DEF PolicySpec

-----------------------------------------------------------------------------
(* What a scenario gets hangs on the policies of it and of the fallback. *)
LEMMA OthersDoNotMatter ==
  ASSUME policies \in [PolicyId -> Policy \cup {None}],
         NEW s \in FaultScenarios, NEW id \in PolicyId,
         NEW after \in Policy \cup {None},
         policies' = [policies EXCEPT ![id] = after],
         policies[id] = None \/ policies[id].scenario \notin {s, Fallback},
         after = None \/ after.scenario \notin {s, Fallback}
  PROVE  OrderedActions(s)' = OrderedActions(s)
<1>1. \A i \in PolicyId, t \in {s, Fallback} :
        /\ i \in EnabledFor(t)' <=> i \in EnabledFor(t)
        /\ i \in EnabledFor(t) => policies'[i] = policies[i]
  BY DEF EnabledFor
<1>2. \A t \in {s, Fallback} : EnabledFor(t)' = EnabledFor(t)
  <2>1. \A t \in {s, Fallback} : EnabledFor(t) \subseteq PolicyId /\ EnabledFor(t)' \subseteq PolicyId
    BY DEF EnabledFor
  <2> QED
    BY <1>1, <2>1
<1>3. Selected(s)' = Selected(s)
  BY <1>2 DEF Selected
<1>4. \A i \in Selected(s) : policies'[i] = policies[i]
  BY <1>1 DEF Selected, EnabledFor
<1> QED
  BY <1>3, <1>4 DEF OrderedActions

(* Whatever get_ordered_actions gives a scenario stays what it is until an
   entry of the log names a policy of the scenario, or of the fallback. *)
THEOREM EveryChoiceIsAudited == PolicySpec => ChoiceIsAudited
<1>1. ASSUME IInv, [NextPolicies]_policyVars
      PROVE  [\A s \in FaultScenarios :
                OrderedActions(s)' # OrderedActions(s) =>
                  /\ storeVersion' = storeVersion + 1
                  /\ Concerns(audit'[Len(audit')], s)]_policyVars
  <2> SUFFICES ASSUME NextPolicies, NEW s \in FaultScenarios,
                      OrderedActions(s)' # OrderedActions(s)
               PROVE  /\ storeVersion' = storeVersion + 1
                      /\ Concerns(audit'[Len(audit')], s)
    BY <1>1
  <2>1. PICK op \in {"create", "update", "delete"}, id \in PolicyId,
             after \in Policy \cup {None} : Replaces(op, id, after)
    BY <1>1, StepsReplace
  <2>2. /\ storeVersion' = storeVersion + 1
        /\ audit'[Len(audit')] = NewEntry(op, id, Snapshot(policies[id]), Snapshot(after))
    BY <1>1, <2>1, ReplacingIsTold
  <2>3. policies \in [PolicyId -> Policy \cup {None}]
    BY <1>1 DEF IInv, PolicyTypeOK
  <2>4. policies' = [policies EXCEPT ![id] = after]
    BY <2>1 DEF Replaces
  <2>5. \/ policies[id] # None /\ policies[id].scenario \in {s, Fallback}
        \/ after # None /\ after.scenario \in {s, Fallback}
    BY <2>3, <2>4, OthersDoNotMatter
  <2>6. /\ policies[id] # None => /\ Snapshot(policies[id]) # None
                                   /\ Snapshot(policies[id]).scenario = policies[id].scenario
        /\ after # None => Snapshot(after) # None /\ Snapshot(after).scenario = after.scenario
    BY <2>3, SnapshotIsRecorded
  <2> QED
    BY <2>2, <2>5, <2>6 DEF Concerns, NewEntry
<1> QED
  BY <1>1, InitHolds, StepHolds, PTL DEF PolicySpec, ChoiceIsAudited

-----------------------------------------------------------------------------
(* The verdicts kept are among those the verifier could give, however many
   have been cut off. *)
VerdictsAreOutcomes ==
    /\ verdicts \in Seq([pre : ScoreValues, post : ScoreValues \cup {Unscored},
                         outcome : {"cleared", "degraded", "persisting", "inconclusive"}])
    /\ \A i \in 1..Len(verdicts) :
         verdicts[i].outcome \in Outcomes(verdicts[i].pre, verdicts[i].post)

LEMMA VerdictsStepHolds ==
  VerdictsAreOutcomes /\ [NextVerifier]_verifierVars => VerdictsAreOutcomes'
<1> DEFINE V == [pre : ScoreValues, post : ScoreValues \cup {Unscored},
                 outcome : {"cleared", "degraded", "persisting", "inconclusive"}]
           Given_(v) == v.outcome \in Outcomes(v.pre, v.post)
<1> SUFFICES ASSUME VerdictsAreOutcomes, [NextVerifier]_verifierVars
             PROVE  VerdictsAreOutcomes'
  OBVIOUS
<1>1. CASE NextVerifier
  <2>1. PICK pre \in ScoreValues, post \in ScoreValues \cup {Unscored} : Verify(pre, post)
    BY <1>1 DEF NextVerifier
  <2>2. PICK outcome \in Outcomes(pre, post) :
          verdicts' = LatestResults(Append(verdicts, [pre |-> pre, post |-> post,
                                                      outcome |-> outcome]))
    BY <2>1 DEF Verify
  <2> DEFINE v == [pre |-> pre, post |-> post, outcome |-> outcome]
             s == Append(verdicts, v)
  <2>3. v \in V /\ Given_(v)
    BY <2>2 DEF Outcomes
  <2>4. verdicts \in Seq(V) /\ \A i \in 1..Len(verdicts) : Given_(verdicts[i])
    BY DEF VerdictsAreOutcomes
  <2>5. verdicts' = LatestResults(s)
    BY <2>2
  <2> HIDE DEF v, V, Given_
  <2>6. s \in Seq(V) /\ Len(s) = Len(verdicts) + 1 /\ Len(verdicts) \in Nat
        /\ \A i \in 1..Len(s) : Given_(s[i])
    BY <2>3, <2>4
  <2> HIDE DEF s
  <2>7. CASE Len(s) <= ResultLimit
    <3>1. verdicts' = s
      BY <2>5, <2>7 DEF LatestResults
    <3> QED
      BY <2>6, <3>1 DEF VerdictsAreOutcomes, V, Given_
  <2>8. CASE ~(Len(s) <= ResultLimit)
    <3> DEFINE n == Len(s) - ResultLimit
    <3>1. n + 1 \in 1..Len(s) /\ n \in Nat
      BY <2>6, <2>8, VerifierAssumption
    <3>2. verdicts' = SubSeq(s, n + 1, Len(s))
      BY <2>5, <2>8 DEF LatestResults
    <3> HIDE DEF n
    <3>3. /\ verdicts' \in Seq(V) /\ Len(verdicts') = Len(s) - n
          /\ \A i \in 1..Len(verdicts') : verdicts'[i] = s[n + i]
      BY <2>6, <3>1, <3>2
    <3>4. \A i \in 1..Len(verdicts') : n + i \in 1..Len(s)
      BY <2>6, <3>1, <3>3
    <3>5. \A i \in 1..Len(verdicts') : Given_(verdicts'[i])
      BY <2>6, <3>3, <3>4
    <3> QED
      BY <3>3, <3>5 DEF VerdictsAreOutcomes, V, Given_
  <2> QED
    BY <2>7, <2>8
<1>2. CASE UNCHANGED verifierVars
  BY <1>2 DEF verifierVars, VerdictsAreOutcomes
<1> QED
  BY <1>1, <1>2

(* For any scores, whichever way the doubles are rounded: the signal of a
   remediation does not fall when the score it leaves falls, or when the
   score it found rises. *)
THEOREM SignalsAlwaysFollow == VerifierSpec => []SignalsFollowScores
<1>1. InitVerifier => VerdictsAreOutcomes
  BY DEF InitVerifier, VerdictsAreOutcomes
<1>2. VerdictsAreOutcomes => SignalsFollowScores
  <2> SUFFICES ASSUME VerdictsAreOutcomes, NEW i \in 1..Len(verdicts), NEW j \in 1..Len(verdicts),
                      verdicts[i].post # Unscored, verdicts[j].post # Unscored,
                      verdicts[i].pre >= verdicts[j].pre, verdicts[i].post <= verdicts[j].post,
                      <<verdicts[i].pre, verdicts[i].post>> # <<verdicts[j].pre, verdicts[j].post>>
               PROVE  Signal(verdicts[i].outcome) >= Signal(verdicts[j].outcome)
    BY DEF SignalsFollowScores
  <2> DEFINE p == verdicts[i].pre
             q == verdicts[i].post
             a == verdicts[i].outcome
             r == verdicts[j].pre
             t == verdicts[j].post
             b == verdicts[j].outcome
  <2>1. /\ p \in Nat /\ q \in Nat /\ r \in Nat /\ t \in Nat
        /\ a \in Outcomes(p, q) /\ b \in Outcomes(r, t)
        /\ q # Unscored /\ t # Unscored /\ p >= r /\ q <= t /\ (p # r \/ q # t)
    <3>1. /\ p \in ScoreValues /\ q \in ScoreValues \cup {Unscored}
          /\ r \in ScoreValues /\ t \in ScoreValues \cup {Unscored}
      <4> DEFINE V == [pre : ScoreValues, post : ScoreValues \cup {Unscored},
                       outcome : {"cleared", "degraded", "persisting", "inconclusive"}]
      <4>1. verdicts \in Seq(V)
        BY DEF VerdictsAreOutcomes
      <4>2. \A v \in V : v.pre \in ScoreValues /\ v.post \in ScoreValues \cup {Unscored}
        OBVIOUS
      <4> HIDE DEF V
      <4>3. verdicts[i] \in V /\ verdicts[j] \in V
        BY <4>1
      <4> QED
        BY <4>2, <4>3
    <3>2. a \in Outcomes(p, q) /\ b \in Outcomes(r, t)
      BY DEF VerdictsAreOutcomes
    <3>3. q # Unscored /\ t # Unscored /\ p >= r /\ q <= t /\ (p # r \/ q # t)
      OBVIOUS
    <3> QED
      BY <3>1, <3>2, <3>3, VerifierAssumption
  <2> HIDE DEF p, q, a, r, t, b
  <2>2. \/ a = "cleared" /\ q < 30
        \/ a = "degraded" /\ q >= 30 /\ p - q >= 20
        \/ a = "persisting" /\ q >= 30 /\ p - q <= 20
    BY <2>1 DEF Outcomes, ClearedThreshold, MinImprovement
  <2>3. \/ b = "cleared" /\ t < 30
        \/ b = "degraded" /\ t >= 30 /\ r - t >= 20
        \/ b = "persisting" /\ t >= 30 /\ r - t <= 20
    BY <2>1 DEF Outcomes, ClearedThreshold, MinImprovement
  <2>4. /\ Signal("cleared") = 10 /\ Signal("degraded") = 6 /\ Signal("persisting") = 0
    BY DEF Signal
  <2>5. Signal(a) >= Signal(b)
    <3>1. CASE a = "cleared"
      BY <2>3, <2>4, <3>1
    <3>2. CASE a = "degraded"
      BY <2>1, <2>2, <2>3, <2>4, <3>2
    <3>3. CASE a = "persisting"
      BY <2>1, <2>2, <2>3, <2>4, <3>3
    <3> QED
      BY <2>2, <3>1, <3>2, <3>3
  <2> QED
    BY <2>5 DEF a, b
<1> QED
  BY <1>1, <1>2, VerdictsStepHolds, PTL DEF VerifierSpec

-----------------------------------------------------------------------------
(* The fusion that is cached is the one made from fusedFrom and posted. *)
FusionIsOfItsResult ==
    /\ pcResult # Nothing => pcResult[1] \in CPDAGs
    /\ fusion # Nothing => /\ posted \subseteq MetricArcs /\ fusedFrom[1] \in CPDAGs
                           /\ fusion = <<FusionOf(posted, fusedFrom[1])>>

LEMMA FlippedTwice == \A arc \in MetricArcs : Flip(arc) \in MetricArcs /\ Flip(Flip(arc)) = arc
<1>1. \A l \in MetricLinks : Flip(Flip(l)) = l
  BY RouterAssumption DEF Flip
<1> QED
  BY <1>1 DEF MetricArcs

LEMMA FusionStepHolds ==
  FusionIsOfItsResult /\ [NextRouter]_routerVars => FusionIsOfItsResult'
<1> SUFFICES ASSUME FusionIsOfItsResult, [NextRouter]_routerVars PROVE FusionIsOfItsResult'
  OBVIOUS
<1>1. CASE \E r \in CPDAGs : Coherent(r) /\ Fit(r)
  BY <1>1 DEF Fit, FusionIsOfItsResult
<1>2. CASE \E granger \in SUBSET MetricArcs : Fuse(granger)
  BY <1>2 DEF Fuse, FusionIsOfItsResult
<1>3. CASE UNCHANGED routerVars
  BY <1>3 DEF routerVars, FusionIsOfItsResult
<1> QED
  BY <1>1, <1>2, <1>3 DEF NextRouter

(* For any links between any metrics: what compare answers classifies the
   edges by the result that was fused, whatever has been fitted since. *)
THEOREM ComparisonFits == RouterSpec => []ComparisonFitsFusedResult
<1>1. InitRouter => FusionIsOfItsResult
  BY DEF InitRouter, FusionIsOfItsResult
<1>2. FusionIsOfItsResult => ComparisonFitsFusedResult
  <2> SUFFICES ASSUME FusionIsOfItsResult, fusion # Nothing
               PROVE  Consistent(Comparison, fusedFrom[1]) /\ Comparison.granger = posted
    BY DEF ComparisonFitsFusedResult, Comparable
  <2> DEFINE r == fusedFrom[1]
             f == fusion[1]
  <2>1. posted \subseteq MetricArcs /\ r \in CPDAGs /\ f = FusionOf(posted, r)
    BY DEF FusionIsOfItsResult
  <2>2. /\ DOMAIN f = posted \cup r.directed
        /\ \A arc \in posted \cup r.directed :
             f[arc] = IF arc \in posted THEN MethodOf(arc, r) ELSE "pc_only"
    BY <2>1 DEF FusionOf
  <2>3. \A methods : Of(methods) = {arc \in posted \cup r.directed : f[arc] \in methods}
    BY <2>2 DEF Of
  <2>4. /\ Comparison.granger = Of({"confirmed", "granger_only", "conflict", "granger_pc_undirected"})
        /\ Comparison.agreement = Of({"confirmed", "granger_pc_undirected"})
        /\ Comparison.conflicts = Of({"conflict"})
        /\ Comparison.grangerOnly = Of({"granger_only"})
        /\ Comparison.pcOnly = Of({"pc_only"})
    BY DEF Comparison
  <2> HIDE DEF r, f
  <2>5. Comparison.granger = posted
    BY <2>2, <2>3, <2>4 DEF MethodOf
  <2>6. \A arc \in posted : Flip(Flip(arc)) = arc
    BY <2>1, FlippedTwice
  <2>7. Comparison.agreement \subseteq r.directed \cup Touching(r.undirected)
    <3> SUFFICES ASSUME NEW arc \in Comparison.agreement, arc \notin r.directed
                 PROVE  arc \in Touching(r.undirected)
      BY <2>4
    <3>1. arc \in posted /\ {arc, Flip(arc)} \cap r.undirected # {}
      BY <2>2, <2>3, <2>4 DEF MethodOf
    <3> QED
      BY <2>6, <3>1 DEF Touching
  <2>8. \A arc \in Comparison.conflicts : Flip(arc) \in r.directed
    BY <2>2, <2>3, <2>4 DEF MethodOf
  <2>9. Comparison.grangerOnly \cap Touching(r.directed \cup r.undirected) = {}
    <3> SUFFICES ASSUME NEW arc \in Comparison.grangerOnly,
                        arc \in Touching(r.directed \cup r.undirected)
                 PROVE  FALSE
      BY <2>4
    <3>1. /\ arc \in posted /\ arc \notin r.directed /\ Flip(arc) \notin r.directed
          /\ {arc, Flip(arc)} \cap r.undirected = {}
      BY <2>2, <2>3, <2>4 DEF MethodOf
    <3>2. PICK a \in r.directed \cup r.undirected : arc = a \/ arc = Flip(a)
      BY DEF Touching
    <3>3. a \in MetricArcs
      BY <2>1 DEF CPDAGs, MetricArcs
    <3> QED
      BY <3>1, <3>2, <3>3, FlippedTwice
  <2>10. r.directed \subseteq Comparison.agreement \cup Comparison.pcOnly
    BY <2>2, <2>3, <2>4 DEF MethodOf
  <2>11. Comparison.pcOnly = r.directed \ Comparison.granger
    BY <2>2, <2>3, <2>4, <2>5 DEF MethodOf
  <2> QED
    BY <2>5, <2>7, <2>8, <2>9, <2>10, <2>11 DEF Consistent, r
<1> QED
  BY <1>1, <1>2, FusionStepHolds, PTL DEF RouterSpec

-----------------------------------------------------------------------------
(* The last samples of a NF's latency, as many as it has answered scrapes in
   a row, are of the last cycles, and no sample is younger than its place
   allows. *)
SamplesAreRecent ==
    /\ scrapes \in Nat /\ analysed \in Nat /\ analysed <= scrapes
    /\ series \in [Key -> Seq(Nat)]
    /\ answering \in [NetworkFunctions -> Nat]
    /\ \A nf \in NetworkFunctions : \A i \in 1..Len(series[<<nf, "latency">>]) :
         /\ series[<<nf, "latency">>][i] <= scrapes - (Len(series[<<nf, "latency">>]) - i)
         /\ Len(series[<<nf, "latency">>]) - i < answering[nf] =>
              series[<<nf, "latency">>][i] = scrapes - (Len(series[<<nf, "latency">>]) - i)

(* A window takes a sample at its end and lets go of one at its front. *)
LEMMA WindowMoves ==
  ASSUME NEW s \in Seq(Nat), NEW c \in Nat
  PROVE  /\ Within(Append(s, c)) \in Seq(Nat)
         /\ Len(Within(Append(s, c))) \in {Len(s), Len(s) + 1}
         /\ \A i \in 1..Len(Within(Append(s, c))) :
              Within(Append(s, c))[i] =
                IF i = Len(Within(Append(s, c))) THEN c
                ELSE s[i + Len(s) + 1 - Len(Within(Append(s, c)))]
<1> DEFINE long == Append(s, c)
<1>1. /\ long \in Seq(Nat) /\ Len(long) = Len(s) + 1 /\ Len(s) \in Nat
      /\ \A i \in 1..Len(long) : long[i] = IF i <= Len(s) THEN s[i] ELSE c
  OBVIOUS
<1>2. CASE Len(long) > Window
  <2>1. Within(long) = Tail(long)
    BY <1>2 DEF Within
  <2> HIDE DEF long
  <2>2. /\ Tail(long) \in Seq(Nat) /\ Len(Tail(long)) = Len(s)
        /\ \A i \in 1..Len(s) : Tail(long)[i] = long[i + 1]
    BY <1>1
  <2>3. /\ Len(Within(long)) = Len(s)
        /\ \A i \in 1..Len(s) :
             Within(long)[i] = IF i = Len(s) THEN c ELSE s[i + 1]
    <3>1. ASSUME NEW i \in 1..Len(s)
          PROVE  Within(long)[i] = IF i + 1 <= Len(s) THEN s[i + 1] ELSE c
      <4>1. i + 1 \in 1..Len(long) /\ Within(long)[i] = long[i + 1]
        BY <1>1, <2>1, <2>2
      <4>2. QED
        BY <1>1, <4>1
    <3>2. ASSUME NEW i \in 1..Len(s)
          PROVE  Within(long)[i] = IF i = Len(s) THEN c ELSE s[i + 1]
      BY <1>1, <3>1
    <3>3. QED
      BY <2>1, <2>2, <3>2
  <2>4. \A i \in 1..Len(s) : i + Len(s) + 1 - Len(Within(long)) = i + 1
    BY <1>1, <2>3
  <2>5. QED
    BY <1>1, <2>1, <2>2, <2>3, <2>4 DEF long
<1>3. CASE ~ (Len(long) > Window)
  <2>1. Within(long) = long
    BY <1>3 DEF Within
  <2> HIDE DEF long
  <2>2. QED
    BY <1>1, <2>1 DEF long
<1> QED
  BY <1>2, <1>3

(* What is set side by side are the ends of the two series: the value in
   place i is of the sample with n - i samples after it, and of the one before
   that if the series was differenced. *)
LEMMA AlignedIsTheEnd ==
  ASSUME NEW s \in Seq(Nat), s # <<>>, NEW stationary \in BOOLEAN,
         NEW n \in 0..Len(Prepared(s, stationary))
  PROVE  LET a == Aligned(Prepared(s, stationary), n)
         IN  /\ Len(a) = n
             /\ \A i \in 1..n :
                  LET j == Len(s) - (n - i)
                  IN  /\ j \in 1..Len(s) /\ a[i][2] = s[j]
                      /\ \/ a[i][1] = s[j]
                         \/ j - 1 \in 1..Len(s) /\ a[i][1] = s[j - 1]
<1> DEFINE x == Prepared(s, stationary)
           a == Aligned(x, n)
<1>1. Len(s) \in Nat /\ Len(s) >= 1
  OBVIOUS
<1>2. /\ Len(x) \in {Len(s), Len(s) - 1}
      /\ \A i \in 1..Len(x) :
           LET j == i + Len(s) - Len(x)
           IN  /\ j \in 1..Len(s) /\ x[i] \in Nat \X Nat /\ x[i][2] = s[j]
               /\ \/ x[i][1] = s[j]
                  \/ j - 1 \in 1..Len(s) /\ x[i][1] = s[j - 1]
  <2>1. CASE stationary
    <3>1. x = [i \in 1..Len(s) |-> <<s[i], s[i]>>]
      BY <2>1 DEF Prepared
    <3> HIDE DEF x
    <3>2. Len(x) = Len(s) /\ \A i \in 1..Len(s) : x[i] = <<s[i], s[i]>> /\ s[i] \in Nat
      BY <1>1, <3>1
    <3>3. \A i \in 1..Len(x) : i + Len(s) - Len(x) = i
      BY <1>1, <3>2
    <3>4. ASSUME NEW i \in 1..Len(x)
          PROVE  /\ i \in 1..Len(s) /\ x[i] \in Nat \X Nat
                 /\ x[i][2] = s[i] /\ x[i][1] = s[i]
      <4>1. i \in 1..Len(s)
        BY <3>2
      <4>2. x[i] = <<s[i], s[i]>> /\ s[i] \in Nat
        BY <3>2, <4>1
      <4>3. QED
        BY <4>1, <4>2
    <3>5. QED
      BY <3>2, <3>3, <3>4
  <2>2. CASE ~stationary
    <3>1. x = [i \in 1..(Len(s) - 1) |-> <<s[i], s[i + 1]>>]
      BY <2>2 DEF Prepared
    <3> HIDE DEF x
    <3>2. Len(s) - 1 \in Nat
      BY <1>1
    <3>3. Len(x) = Len(s) - 1
      BY <3>1, <3>2
    <3>4. ASSUME NEW i \in 1..(Len(s) - 1)
          PROVE  /\ x[i] = <<s[i], s[i + 1]>> /\ s[i] \in Nat /\ s[i + 1] \in Nat
                 /\ i \in 1..Len(s) /\ i + 1 \in 1..Len(s) /\ i + 1 - 1 = i
                 /\ i + Len(s) - (Len(s) - 1) = i + 1
      <4>1. i \in 1..Len(s) /\ i + 1 \in 1..Len(s) /\ i + 1 - 1 = i
            /\ i + Len(s) - (Len(s) - 1) = i + 1
        BY <1>1
      <4>2. QED
        BY <3>1, <4>1
    <3>5. \A i \in 1..Len(x) : i + Len(s) - Len(x) = i + 1
      BY <1>1, <3>3
    <3>6. ASSUME NEW i \in 1..Len(x)
          PROVE  /\ i \in 1..Len(s) /\ x[i] \in Nat \X Nat
                 /\ x[i][2] = s[i + 1] /\ x[i][1] = s[i]
                 /\ i + 1 \in 1..Len(s) /\ i + 1 - 1 = i
      <4>1. i \in 1..(Len(s) - 1)
        BY <3>3
      <4>2. x[i] = <<s[i], s[i + 1]>> /\ s[i] \in Nat /\ s[i + 1] \in Nat
        BY <3>4, <4>1
      <4>3. QED
        BY <3>4, <4>1, <4>2
    <3>7. QED
      BY <3>3, <3>5, <3>6
  <2>3. QED
    BY <2>1, <2>2
<1> HIDE DEF x
<1>3. n \in 0..Len(x)
  BY DEF x
<1>4. Len(a) = n /\ \A i \in 1..n : a[i] = x[Len(x) - n + i]
  <2> DEFINE m == Len(x) - n + 1
  <2>1. m \in Int /\ Len(x) \in Int /\ n \in Nat /\ m >= 1
    BY <1>1, <1>2, <1>3
  <2>2. \A i \in m..Len(x) : x[i] \in Nat \X Nat
    BY <1>2, <2>1
  <2>3. /\ Len(SubSeq(x, m, Len(x))) = IF m <= Len(x) THEN Len(x) - m + 1 ELSE 0
        /\ \A i \in 1..(Len(x) - m + 1) : SubSeq(x, m, Len(x))[i] = x[m + i - 1]
    <3> HIDE DEF m
    <3> DEFINE P == Nat \X Nat
    <3>1. \A i \in m..Len(x) : x[i] \in P
      BY <2>2
    <3> HIDE DEF P
    <3>2. QED
      BY <2>1, <3>1, SubSeqProperties
  <2>4. /\ Len(x) - m + 1 = n /\ (m <= Len(x) <=> n # 0)
        /\ \A i \in 1..n : m + i - 1 = Len(x) - n + i
    BY <2>1
  <2> HIDE DEF m
  <2>5. a = SubSeq(x, m, Len(x))
    BY DEF m, Aligned
  <2>6. QED
    BY <2>1, <2>3, <2>4, <2>5
<1> HIDE DEF a
<1>5. ASSUME NEW i \in 1..n
      PROVE  LET j == Len(s) - (n - i)
             IN  /\ j \in 1..Len(s) /\ a[i][2] = s[j]
                 /\ \/ a[i][1] = s[j]
                    \/ j - 1 \in 1..Len(s) /\ a[i][1] = s[j - 1]
  <2> DEFINE k == Len(x) - n + i
  <2>1. k \in 1..Len(x) /\ k + Len(s) - Len(x) = Len(s) - (n - i)
    BY <1>1, <1>2, <1>3
  <2>2. a[i] = x[k]
    BY <1>4
  <2> HIDE DEF k
  <2>3. QED
    BY <1>2, <2>1, <2>2
<1> QED
  BY <1>4, <1>5 DEF a, x

LEMMA IngestStaysRecent ==
  ASSUME SamplesAreRecent, NEW answer \in [NetworkFunctions -> Answers], Ingest(answer)
  PROVE  SamplesAreRecent' /\ analysed' # scrapes'
<1>1. /\ scrapes' = scrapes + 1 /\ analysed' = analysed
      /\ series' = [k \in Key |-> IF k[2] \in answer[k[1]]
                                  THEN Within(Append(series[k], scrapes')) ELSE series[k]]
      /\ answering' = [nf \in NetworkFunctions |->
                         IF "latency" \in answer[nf] THEN answering[nf] + 1 ELSE 0]
  BY DEF Ingest
<1>2. /\ scrapes \in Nat /\ analysed \in Nat /\ analysed <= scrapes
      /\ series \in [Key -> Seq(Nat)] /\ answering \in [NetworkFunctions -> Nat]
  BY DEF SamplesAreRecent
<1>3. \A k \in Key : series'[k] \in Seq(Nat)
  BY <1>1, <1>2, WindowMoves
<1>4. series' \in [Key -> Seq(Nat)] /\ answering' \in [NetworkFunctions -> Nat]
  BY <1>1, <1>2, <1>3
<1>5. ASSUME NEW nf \in NetworkFunctions, NEW i \in 1..Len(series'[<<nf, "latency">>]),
             Len(series'[<<nf, "latency">>]) - i < answering'[nf]
      PROVE  series'[<<nf, "latency">>][i] = scrapes' - (Len(series'[<<nf, "latency">>]) - i)
  <2> DEFINE k == <<nf, "latency">>
             s == series[k]
             t == Within(Append(s, scrapes'))
  <2>1. k \in Key /\ k[1] = nf /\ k[2] = "latency"
    BY DEF Key, Signals
  <2>2. s \in Seq(Nat) /\ series'[k] \in Seq(Nat) /\ scrapes' \in Nat /\ Len(s) \in Nat
    BY <1>1, <1>2, <1>3, <2>1
  <2>3. "latency" \in answer[nf]
    <3>1. CASE "latency" \notin answer[nf]
      <4>1. answering'[nf] = 0 /\ Len(series'[k]) \in Nat
        BY <1>1, <2>2, <3>1
      <4>2. QED
        BY <1>5, <4>1
    <3>2. QED
      BY <3>1
  <2>4. series'[k] = t /\ answering'[nf] = answering[nf] + 1
    BY <1>1, <2>1, <2>3
  <2>5. \A j \in 1..Len(s) : Len(s) - j < answering[nf] => s[j] = scrapes - (Len(s) - j)
    BY DEF SamplesAreRecent
  <2>6. /\ Len(t) \in {Len(s), Len(s) + 1}
        /\ \A j \in 1..Len(t) :
             t[j] = IF j = Len(t) THEN scrapes' ELSE s[j + Len(s) + 1 - Len(t)]
    BY <2>2, WindowMoves
  <2> HIDE DEF t, s, k
  <2>7. i \in 1..Len(t) /\ Len(t) - i < answering[nf] + 1 /\ answering[nf] \in Nat
    BY <1>2, <1>5, <2>4 DEF k
  <2>8. t[i] = scrapes' - (Len(t) - i)
    <3>1. CASE i = Len(t)
      BY <2>2, <2>6, <2>7, <3>1
    <3>2. CASE i # Len(t)
      <4> DEFINE j == i + Len(s) + 1 - Len(t)
      <4>1. j \in 1..Len(s) /\ Len(s) - j = Len(t) - i - 1
        BY <2>2, <2>6, <2>7, <3>2
      <4>2. i \in Nat /\ Len(t) \in Nat /\ Len(s) \in Nat
        BY <2>2, <2>6, <2>7
      <4>3. t[i] = s[j]
        BY <2>6, <2>7, <3>2
      <4>4. j \in Int
        BY <4>2
      <4> HIDE DEF j
      <4>5. s[j] = scrapes - (Len(s) - j)
        <5>1. Len(t) - i - 1 < answering[nf]
          BY <2>7, <4>2
        <5>2. QED
          BY <2>5, <4>1, <5>1
      <4>6. scrapes - (Len(t) - i - 1) = scrapes' - (Len(t) - i)
        BY <1>1, <1>2, <4>2
      <4>7. QED
        BY <4>1, <4>3, <4>5, <4>6
    <3>3. QED
      BY <3>1, <3>2
  <2>9. QED
    BY <2>4, <2>8 DEF k
<1>6. ASSUME NEW nf \in NetworkFunctions, NEW i \in 1..Len(series'[<<nf, "latency">>])
      PROVE  series'[<<nf, "latency">>][i] <= scrapes' - (Len(series'[<<nf, "latency">>]) - i)
  <2> DEFINE k == <<nf, "latency">>
             s == series[k]
             t == series'[k]
  <2>1. k \in Key /\ k[1] = nf /\ k[2] = "latency"
    BY DEF Key, Signals
  <2>2. s \in Seq(Nat) /\ t \in Seq(Nat) /\ scrapes' \in Nat /\ Len(s) \in Nat
    BY <1>1, <1>2, <1>3, <2>1
  <2>3. \A j \in 1..Len(s) : s[j] <= scrapes - (Len(s) - j)
    BY DEF SamplesAreRecent
  <2>4. CASE "latency" \notin answer[nf]
    <3>1. t = s
      BY <1>1, <2>1, <2>4
    <3> HIDE DEF t, s, k
    <3>2. i \in 1..Len(s)
      BY <3>1 DEF t, k
    <3>3. s[i] <= scrapes - (Len(s) - i) /\ s[i] \in Nat
      BY <2>2, <2>3, <3>2
    <3>4. s[i] <= scrapes' - (Len(s) - i)
      BY <1>1, <1>2, <2>2, <3>2, <3>3
    <3>5. QED
      BY <3>1, <3>4 DEF t, k
  <2>5. CASE "latency" \in answer[nf]
    <3>1. t = Within(Append(s, scrapes'))
      BY <1>1, <2>1, <2>5
    <3> HIDE DEF t, s, k
    <3>2. /\ Len(t) \in {Len(s), Len(s) + 1}
          /\ \A j \in 1..Len(t) :
               t[j] = IF j = Len(t) THEN scrapes' ELSE s[j + Len(s) + 1 - Len(t)]
      BY <2>2, <3>1, WindowMoves
    <3>3. i \in 1..Len(t)
      BY DEF t, k
    <3>4. t[i] <= scrapes' - (Len(t) - i)
      <4>1. CASE i = Len(t)
        BY <2>2, <3>2, <3>3, <4>1
      <4>2. CASE i # Len(t)
        <5> DEFINE j == i + Len(s) + 1 - Len(t)
        <5>1. j \in 1..Len(s) /\ Len(s) - j = Len(t) - i - 1 /\ j \in Int
          BY <2>2, <3>2, <3>3, <4>2
        <5>2. t[i] = s[j]
          BY <3>2, <3>3, <4>2
        <5> HIDE DEF j
        <5>3. s[j] <= scrapes - (Len(s) - j) /\ s[j] \in Nat
          <6>1. s[j] \in Nat
            BY <2>2, <5>1, ElementOfSeq
          <6>2. QED
            BY <2>3, <5>1, <6>1
        <5>4. i \in Int /\ Len(t) \in Int
          BY <2>2, <3>3
        <5>5. scrapes - (Len(t) - i - 1) = scrapes' - (Len(t) - i)
          BY <1>1, <1>2, <5>4
        <5>6. QED
          BY <5>1, <5>2, <5>3, <5>5
      <4>3. QED
        BY <4>1, <4>2
    <3>5. QED
      BY <3>4 DEF t, k
  <2>6. QED
    BY <2>4, <2>5
<1>7. SamplesAreRecent'
  <2>1. scrapes' \in Nat /\ analysed' \in Nat /\ analysed' <= scrapes'
    BY <1>1, <1>2
  <2>2. QED
    BY <1>4, <1>5, <1>6, <2>1 DEF SamplesAreRecent
<1> QED
  BY <1>1, <1>2, <1>7

LEMMA AnalyzeComparesSameCycles ==
  ASSUME SamplesAreRecent, Analyze
  PROVE  SamplesAreRecent' /\ LinksCompareSameCycles'
<1>1. /\ analysed' = scrapes /\ UNCHANGED <<scrapes, timestamps, series, answering>>
      /\ links' = {} \/ \E link \in Findable : links' = {link}
  BY DEF Analyze
<1>2. SamplesAreRecent'
  <2>1. /\ scrapes' = scrapes /\ series' = series /\ answering' = answering
        /\ scrapes \in Nat /\ analysed' = scrapes
    BY <1>1 DEF SamplesAreRecent
  <2>2. scrapes' \in Nat /\ analysed' \in Nat /\ analysed' <= scrapes'
    BY <2>1
  <2>3. QED
    BY <2>1, <2>2 DEF SamplesAreRecent
<1>3. ASSUME NEW link \in Findable, NEW i \in 1..Len(link.xs),
             link.cause[2] = "latency", link.effect[2] = "latency",
             AnsweredSince(link.cause[1], link.xs[i][1]),
             AnsweredSince(link.effect[1], link.ys[i][1])
      PROVE  /\ link.xs[i][2] = link.ys[i][2]
             /\ link.xs[i][1] \in {link.xs[i][2] - 1, link.xs[i][2]}
             /\ link.ys[i][1] \in {link.ys[i][2] - 1, link.ys[i][2]}
  <2>1. PICK p \in Tested, sx \in BOOLEAN, sy \in BOOLEAN :
          link = Link(p[1], p[2], Prepared(series[p[1]], sx), Prepared(series[p[2]], sy))
    BY DEF Findable
  <2> DEFINE c == p[1]
             f == p[2]
             x == Prepared(series[c], sx)
             y == Prepared(series[f], sy)
             n == Shorter(x, y)
  <2>2. /\ c \in Key /\ f \in Key
        /\ Len(series[c]) >= MinSamples /\ Len(series[f]) >= MinSamples
    BY DEF Tested
  <2>3. MinSamples \in Nat /\ MinSamples > 1
    BY TelemetryAssumption
  <2>4. series[c] \in Seq(Nat) /\ series[f] \in Seq(Nat)
    BY <2>2 DEF SamplesAreRecent
  <2>5. series[c] # <<>> /\ series[f] # <<>>
    BY <2>2, <2>3, <2>4
  <2>6. link.cause = c /\ link.effect = f /\ link.xs = Aligned(x, n) /\ link.ys = Aligned(y, n)
    BY <2>1 DEF Link
  <2>7. Len(x) \in Nat /\ Len(y) \in Nat
    BY <2>4, <2>5 DEF Prepared
  <2>8. n \in 0..Len(x) /\ n \in 0..Len(y)
    BY <2>7 DEF Shorter
  <2>9. c = <<c[1], "latency">> /\ c[1] \in NetworkFunctions
        /\ f = <<f[1], "latency">> /\ f[1] \in NetworkFunctions
    BY <1>3, <2>2, <2>6 DEF Key
  <2> HIDE DEF c, f, x, y, n
  <2>10. Len(link.xs) = n
    <3>1. n \in 0..Len(Prepared(series[c], sx))
      BY <2>8 DEF x
    <3>2. Len(Aligned(Prepared(series[c], sx), n)) = n
      BY <2>4, <2>5, <3>1, AlignedIsTheEnd
    <3>3. QED
      BY <2>6, <3>2 DEF x
  <2>11. ASSUME NEW k \in {c, f}, NEW sk \in BOOLEAN, NEW v,
                k = <<k[1], "latency">>, k[1] \in NetworkFunctions,
                series[k] \in Seq(Nat), series[k] # <<>>,
                n \in 0..Len(Prepared(series[k], sk)),
                v = Aligned(Prepared(series[k], sk), n),
                AnsweredSince(k[1], v[i][1])
         PROVE  /\ v[i][2] = scrapes - (n - i)
                /\ v[i][1] \in {v[i][2] - 1, v[i][2]}
    <3> DEFINE s == series[k]
               j == Len(s) - (n - i)
    <3>1. /\ j \in 1..Len(s) /\ v[i][2] = s[j]
          /\ v[i][1] = s[j] \/ (j - 1 \in 1..Len(s) /\ v[i][1] = s[j - 1])
      <4> HIDE DEF j, s
      <4>1. i \in 1..n
        BY <2>10
      <4>2. QED
        BY <2>11, <4>1, AlignedIsTheEnd DEF j, s
    <3>2. /\ scrapes \in Nat /\ answering[k[1]] \in Nat
          /\ Len(s) \in Nat /\ n \in Nat /\ i \in Nat
      BY <2>7, <2>8, <2>10, <2>11 DEF SamplesAreRecent
    <3>3. \A q \in 1..Len(s) :
            /\ s[q] \in Nat /\ s[q] <= scrapes - (Len(s) - q)
            /\ Len(s) - q < answering[k[1]] => s[q] = scrapes - (Len(s) - q)
      <4>1. \A q \in 1..Len(s) : s[q] \in Nat
        BY <2>11
      <4>2. QED
        BY <2>11, <4>1 DEF SamplesAreRecent
    <3>4. answering[k[1]] > scrapes - v[i][1]
      BY <2>11 DEF AnsweredSince
    <3>5. Len(s) - j = n - i
      BY <3>2
    <3> HIDE DEF s
    <3>6. j \in Int
      BY <3>2
    <3> HIDE DEF j
    <3>7. CASE v[i][1] = s[j]
      <4>1. s[j] \in Nat /\ s[j] <= scrapes - (Len(s) - j)
        BY <3>1, <3>3
      <4>2. Len(s) - j < answering[k[1]]
        BY <3>2, <3>4, <3>6, <3>7, <4>1
      <4>3. s[j] = scrapes - (n - i)
        BY <3>1, <3>3, <3>5, <4>2
      <4>4. QED
        BY <3>1, <3>7, <4>3
    <3>8. CASE j - 1 \in 1..Len(s) /\ v[i][1] = s[j - 1]
      <4>1. s[j - 1] \in Nat /\ s[j - 1] <= scrapes - (Len(s) - (j - 1))
        BY <3>3, <3>8
      <4>2. Len(s) - (j - 1) < answering[k[1]]
        BY <3>2, <3>4, <3>6, <3>8, <4>1
      <4>3. s[j - 1] = scrapes - (Len(s) - (j - 1))
        BY <3>3, <3>8, <4>2
      <4>4. Len(s) - j < answering[k[1]]
        BY <3>2, <3>6, <4>2
      <4>5. s[j] = scrapes - (Len(s) - j)
        BY <3>1, <3>3, <4>4
      <4>6. s[j] = scrapes - (n - i) /\ s[j - 1] = s[j] - 1
        BY <3>2, <3>5, <3>6, <4>3, <4>5
      <4>7. QED
        BY <3>1, <3>8, <4>6
    <3>9. QED
      BY <3>1, <3>7, <3>8
  <2>12. /\ link.xs[i][2] = scrapes - (n - i)
         /\ link.xs[i][1] \in {link.xs[i][2] - 1, link.xs[i][2]}
    <3>1. n \in 0..Len(Prepared(series[c], sx)) /\ link.xs = Aligned(Prepared(series[c], sx), n)
      BY <2>6, <2>8 DEF x
    <3>2. AnsweredSince(c[1], link.xs[i][1])
      BY <1>3, <2>6
    <3>3. QED
      BY <2>4, <2>5, <2>9, <2>11, <3>1, <3>2
  <2>13. /\ link.ys[i][2] = scrapes - (n - i)
         /\ link.ys[i][1] \in {link.ys[i][2] - 1, link.ys[i][2]}
    <3>1. n \in 0..Len(Prepared(series[f], sy)) /\ link.ys = Aligned(Prepared(series[f], sy), n)
      BY <2>6, <2>8 DEF y
    <3>2. AnsweredSince(f[1], link.ys[i][1])
      BY <1>3, <2>6
    <3>3. QED
      BY <2>4, <2>5, <2>9, <2>11, <3>1, <3>2
  <2>14. QED
    BY <2>12, <2>13
<1>4. LinksCompareSameCycles'
  BY <1>1, <1>3 DEF LinksCompareSameCycles, AnsweredSince
<1> QED
  BY <1>2, <1>4

(* For any number of NFs, windows and minimal lengths: a link between two
   latencies set values of the same cycle side by side, and differenced over
   one cycle, wherever both NFs have answered since. *)
THEOREM LinksAlwaysCompareSameCycles == TelemetrySpec => []LinksCompareSameCycles
<1>1. InitTelemetry => SamplesAreRecent /\ LinksCompareSameCycles
  BY DEF InitTelemetry, SamplesAreRecent, LinksCompareSameCycles, Key, Signals
<1>2. SamplesAreRecent /\ LinksCompareSameCycles /\ [NextTelemetry]_telemetryVars
        => (SamplesAreRecent /\ LinksCompareSameCycles)'
  <2> SUFFICES ASSUME SamplesAreRecent, LinksCompareSameCycles, [NextTelemetry]_telemetryVars
               PROVE  (SamplesAreRecent /\ LinksCompareSameCycles)'
    OBVIOUS
  <2>1. ASSUME NEW answer \in [NetworkFunctions -> Answers], Ingest(answer)
        PROVE  (SamplesAreRecent /\ LinksCompareSameCycles)'
    BY <2>1, IngestStaysRecent DEF LinksCompareSameCycles
  <2>2. CASE Analyze
    BY <2>2, AnalyzeComparesSameCycles
  <2>3. CASE UNCHANGED telemetryVars
    BY <2>3 DEF telemetryVars, SamplesAreRecent, LinksCompareSameCycles, AnsweredSince
  <2>4. QED
    BY <2>1, <2>2, <2>3 DEF NextTelemetry
<1> QED
  BY <1>1, <1>2, PTL DEF TelemetrySpec

-----------------------------------------------------------------------------
Report == [scenario : ReportScenarios, nf : ReportNFs,
           severity : {"critical", "high", "medium", "low"},
           chain : {ChainOf(scenario, nf) : scenario \in ReportScenarios, nf \in ReportNFs},
           outcome : Outcome \cup {NoOutcome},
           advice : [sre : BOOLEAN, manual : BOOLEAN],
           status : ReportStatus]

ReportsTypeOK == reports \in Seq(Report)

LEMMA SeverityIsOne ==
  ASSUME NEW score \in ReportScores
  PROVE  SeverityOf(score) \in {"critical", "high", "medium", "low"}
<1>1. score \in Nat
  BY ReportAssumption
<1> QED
  BY <1>1 DEF SeverityOf

LEMMA GeneratingAppends ==
  ASSUME ReportsTypeOK, NEW scenario \in ReportScenarios, NEW nf \in ReportNFs,
         NEW score \in ReportScores, NEW outcome \in Outcome \cup {NoOutcome},
         Generate(scenario, nf, score, outcome)
  PROVE  \E r \in Report : reports' = Append(reports, r)
<1> DEFINE severity == SeverityOf(score)
           r == [scenario |-> scenario, nf |-> nf, severity |-> severity,
                 chain |-> ChainOf(scenario, nf), outcome |-> outcome,
                 advice |-> AdviceFor(severity, outcome), status |-> "open"]
<1>1. reports' = Append(reports, r)
  BY DEF Generate
<1>2. severity \in {"critical", "high", "medium", "low"}
  BY SeverityIsOne
<1>3. AdviceFor(severity, outcome) \in [sre : BOOLEAN, manual : BOOLEAN]
  BY DEF AdviceFor
<1>4. ChainOf(scenario, nf) \in {ChainOf(s, n) : s \in ReportScenarios, n \in ReportNFs}
  OBVIOUS
<1> HIDE DEF severity
<1>5. r \in Report
  BY <1>2, <1>3, <1>4 DEF Report, ReportStatus
<1> HIDE DEF r
<1> QED
  BY <1>1, <1>5

(* A PATCH gives one report another status and perhaps another outcome. *)
LEMMA UpdatingReplaces ==
  ASSUME ReportsTypeOK, NEW i \in 1..Len(reports), NEW status \in ReportStatus,
         NEW outcome \in Outcome \cup {NoOutcome}, UpdateStatus(i, status, outcome)
  PROVE  /\ reports' \in Seq(Report) /\ Len(reports') = Len(reports)
         /\ \A k \in 1..Len(reports) :
              /\ reports'[k].severity = reports[k].severity
              /\ reports'[k].chain = reports[k].chain
              /\ reports'[k].advice = reports[k].advice
              /\ reports[k].outcome # NoOutcome => reports'[k].outcome # NoOutcome
<1> DEFINE kept == IF outcome = NoOutcome THEN reports[i].outcome ELSE outcome
           r == [reports[i] EXCEPT !.status = status, !.outcome = kept]
<1>1. reports \in Seq(Report) /\ Len(reports) \in Nat
  BY DEF ReportsTypeOK
<1>2. reports[i] \in Report
  BY <1>1, ElementOfSeq
<1>3. reports' = [reports EXCEPT ![i] = r]
  BY <1>1, <1>2 DEF UpdateStatus, Report
<1>4. kept \in Outcome \cup {NoOutcome} /\ (reports[i].outcome # NoOutcome => kept # NoOutcome)
  BY <1>2 DEF Report
<1> HIDE DEF kept
<1>5. /\ r \in Report /\ r.outcome = kept
      /\ r.severity = reports[i].severity /\ r.chain = reports[i].chain
      /\ r.advice = reports[i].advice
  <2> DEFINE mid == [reports[i] EXCEPT !.status = status]
  <2>1. /\ mid \in Report /\ mid.severity = reports[i].severity
        /\ mid.chain = reports[i].chain /\ mid.advice = reports[i].advice
    BY <1>2 DEF Report
  <2>2. r = [mid EXCEPT !.outcome = kept]
    OBVIOUS
  <2> HIDE DEF mid, r
  <2>3. /\ r \in Report /\ r.outcome = kept /\ r.severity = mid.severity
        /\ r.chain = mid.chain /\ r.advice = mid.advice
    BY <1>4, <2>1, <2>2 DEF Report
  <2>4. QED
    BY <2>1, <2>3
<1> HIDE DEF r
<1>6. /\ reports' \in Seq(Report) /\ Len(reports') = Len(reports)
      /\ \A k \in 1..Len(reports) : reports'[k] = IF k = i THEN r ELSE reports[k]
  BY <1>1, <1>3, <1>5
<1> QED
  BY <1>4, <1>5, <1>6

(* For any reports, scores and verdicts: generated once, a report is there,
   with the severity, the chain and the advice it was given, and a verdict it
   has is only ever replaced by another. *)
THEOREM ReportsAlwaysKept == ReportSpec => ReportsAreKept
<1> DEFINE Kept == \A i \in 1..Len(reports) :
              /\ i <= Len(reports')
              /\ reports[i].outcome # NoOutcome => reports'[i].outcome # NoOutcome
              /\ [f \in {"severity", "chain", "advice"} |-> reports'[i][f]]
                   = [f \in {"severity", "chain", "advice"} |-> reports[i][f]]
<1>1. InitReports => ReportsTypeOK
  BY DEF InitReports, ReportsTypeOK
<1>2. ReportsTypeOK /\ [NextReports]_reportVars => ReportsTypeOK' /\ [Kept]_reportVars
  <2> SUFFICES ASSUME ReportsTypeOK, [NextReports]_reportVars
               PROVE  ReportsTypeOK' /\ [Kept]_reportVars
    OBVIOUS
  <2>1. reports \in Seq(Report) /\ Len(reports) \in Nat
    BY DEF ReportsTypeOK
  <2>2. ASSUME NEW scenario \in ReportScenarios, NEW nf \in ReportNFs,
               NEW score \in ReportScores, NEW outcome \in Outcome \cup {NoOutcome},
               Generate(scenario, nf, score, outcome)
        PROVE  ReportsTypeOK' /\ Kept
    <3>1. PICK r \in Report : reports' = Append(reports, r)
      BY <2>2, GeneratingAppends
    <3>2. /\ reports' \in Seq(Report) /\ Len(reports') = Len(reports) + 1
          /\ \A i \in 1..Len(reports) : reports'[i] = reports[i]
      BY <2>1, <3>1
    <3>3. QED
      BY <2>1, <3>2 DEF ReportsTypeOK
  <2>3. ASSUME NEW i \in 1..Len(reports), NEW status \in ReportStatus,
               NEW outcome \in Outcome \cup {NoOutcome}, UpdateStatus(i, status, outcome)
        PROVE  ReportsTypeOK' /\ Kept
    <3>1. /\ reports' \in Seq(Report) /\ Len(reports') = Len(reports)
          /\ \A k \in 1..Len(reports) :
               /\ reports'[k].severity = reports[k].severity
               /\ reports'[k].chain = reports[k].chain
               /\ reports'[k].advice = reports[k].advice
               /\ reports[k].outcome # NoOutcome => reports'[k].outcome # NoOutcome
      BY <2>3, UpdatingReplaces
    <3>2. ASSUME NEW k \in 1..Len(reports)
          PROVE  [f \in {"severity", "chain", "advice"} |-> reports'[k][f]]
                   = [f \in {"severity", "chain", "advice"} |-> reports[k][f]]
      BY <3>1
    <3>3. QED
      BY <2>1, <3>1, <3>2 DEF ReportsTypeOK
  <2>4. CASE UNCHANGED reportVars
    BY <2>4 DEF reportVars, ReportsTypeOK
  <2>5. QED
    BY <2>2, <2>3, <2>4 DEF NextReports
<1> QED
  BY <1>1, <1>2, PTL DEF ReportSpec, ReportsAreKept
=============================================================================

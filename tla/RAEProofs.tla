------------------------------- MODULE RAEProofs -------------------------------
(***************************************************************************)
(* Theorems about the remediation engine, for every set of requests, every *)
(* limit and threshold: the types, the counters, the overflow of the       *)
(* history, and that the history and the feedback buffer tell one story.   *)
(***************************************************************************)
EXTENDS RAE, FiniteSetTheorems, SequenceTheorems, WellFoundedInduction, TLAPS

LEMMA SelectActionType ==
  ASSUME NEW scenario \in Scenarios, NEW attempt \in Attempts
  PROVE  SelectAction(scenario, attempt) \in ActionType
<1> DEFINE candidates == IF scenario \in DOMAIN ActionPolicy
                         THEN ActionPolicy[scenario]
                         ELSE ActionPolicy["_default"]
<1>1. candidates \in Seq(ActionType) /\ Len(candidates) \in 1..2
  <2>1. \E policy \in {ActionPolicy.nrf_crash, ActionPolicy.amf_crash,
                      ActionPolicy.smf_crash, ActionPolicy.pcf_timeout,
                      ActionPolicy.udm_crash, ActionPolicy._default} :
          candidates = policy
    <3>1. DOMAIN ActionPolicy = {"nrf_crash", "amf_crash", "smf_crash",
                                 "pcf_timeout", "udm_crash", "_default"}
      BY DEF ActionPolicy
    <3>2. QED
      BY <3>1
  <2>2. /\ ActionPolicy.nrf_crash   = <<"restart_pod", "notify_operator">>
        /\ ActionPolicy.amf_crash   = <<"restart_pod", "scale_deployment">>
        /\ ActionPolicy.smf_crash   = <<"restart_pod", "reroute_traffic">>
        /\ ActionPolicy.pcf_timeout = <<"rollback_config", "restart_pod">>
        /\ ActionPolicy.udm_crash   = <<"restart_pod", "scale_deployment">>
        /\ ActionPolicy._default    = <<"notify_operator">>
    BY DEF ActionPolicy
  <2>3. \A a, b \in ActionType :
          <<a, b>> \in Seq(ActionType) /\ Len(<<a, b>>) = 2
    OBVIOUS
  <2>4. \A a \in ActionType : <<a>> \in Seq(ActionType) /\ Len(<<a>>) = 1
    OBVIOUS
  <2>5. {"restart_pod", "scale_deployment", "rollback_config",
         "reroute_traffic", "notify_operator"} \subseteq ActionType
    BY DEF ActionType
  <2> HIDE DEF candidates
  <2>6. \/ candidates = <<"restart_pod", "notify_operator">>
        \/ candidates = <<"restart_pod", "scale_deployment">>
        \/ candidates = <<"restart_pod", "reroute_traffic">>
        \/ candidates = <<"rollback_config", "restart_pod">>
        \/ candidates = <<"notify_operator">>
    BY <2>1, <2>2
  <2>7. \/ \E a, b \in ActionType : candidates = <<a, b>>
        \/ \E a \in ActionType : candidates = <<a>>
    BY <2>5, <2>6
  <2>8. CASE \E a, b \in ActionType : candidates = <<a, b>>
    BY <2>3, <2>8
  <2>9. CASE \E a \in ActionType : candidates = <<a>>
    BY <2>4, <2>9
  <2>10. QED
    BY <2>7, <2>8, <2>9
<1>2. attempt \in Nat
  BY RAEAssumption
<1> HIDE DEF candidates
<1>3. Len(candidates) \in 1..Len(candidates)
  BY <1>1
<1>4. attempt < Len(candidates) => attempt + 1 \in 1..Len(candidates)
  BY <1>1, <1>2
<1>5. \A i \in 1..Len(candidates) : candidates[i] \in ActionType
  BY <1>1
<1>6. SelectAction(scenario, attempt) =
        IF attempt < Len(candidates) THEN candidates[attempt + 1]
        ELSE candidates[Len(candidates)]
  BY DEF SelectAction, candidates
<1>7. QED
  BY <1>3, <1>4, <1>5, <1>6

(* lst[-limit:] keeps the last elements, at most limit, in order.           *)
LEMMA LastOfProperties ==
  ASSUME NEW S, NEW lst \in Seq(S), NEW limit \in Nat
  PROVE  /\ LastOf(lst, limit) \in Seq(S)
         /\ Len(LastOf(lst, limit)) =
              (IF Len(lst) > limit THEN limit ELSE Len(lst))
<1>1. CASE Len(lst) > limit
  <2> DEFINE from == Len(lst) - limit + 1
  <2>1. from \in Int /\ Len(lst) \in Int /\ 1 <= from
    BY <1>1
  <2>2. \A i \in from..Len(lst) : lst[i] \in S
    BY <2>1
  <2>3. /\ SubSeq(lst, from, Len(lst)) \in Seq(S)
        /\ Len(SubSeq(lst, from, Len(lst))) =
             (IF from <= Len(lst) THEN Len(lst) - from + 1 ELSE 0)
    BY <2>1, <2>2, SubSeqProperties
  <2>4. LastOf(lst, limit) = SubSeq(lst, from, Len(lst))
    BY <1>1 DEF LastOf
  <2>5. QED
    BY <1>1, <2>3, <2>4
<1>2. CASE ~ (Len(lst) > limit)
  BY <1>2 DEF LastOf
<1>3. QED
  BY <1>1, <1>2
-----------------------------------------------------------------------------
LEMMA InitTypeOK == Init => TypeOK
BY RAEAssumption DEF Init, TypeOK, Record, Status, ActionType

LEMMA NextTypeOK == TypeOK /\ [Next]_vars => TypeOK'
<1> SUFFICES ASSUME TypeOK, [Next]_vars PROVE TypeOK'
  OBVIOUS
<1> USE DEF TypeOK
<1>1. ASSUME NEW r \in Requests, NEW score \in Scores, Skip(r, score)
      PROVE  TypeOK'
  BY <1>1 DEF Skip, Record, Status, ActionType
<1>2. ASSUME NEW r \in Requests, NEW scenario \in Scenarios, NEW score \in Scores,
             NEW attempt \in Attempts, Trigger(r, scenario, score, attempt)
      PROVE  TypeOK'
  <2>1. record' \in [Requests -> Record]
    BY <1>2, SelectActionType DEF Trigger, Record, Status
  <2>2. QED
    BY <1>2, <2>1 DEF Trigger
<1>3. ASSUME NEW r \in Requests, NEW result \in CallResults, Settle(r, result)
      PROVE  TypeOK'
  <2>1. HistoryLimit \in Nat
    BY RAEAssumption
  <2>2. record' \in [Requests -> Record]
    <3> DEFINE settled == [record[r] EXCEPT
                             !.status  = IF result = "raises" THEN "failed" ELSE "success",
                             !.outcome = OutcomeSignal(result)]
    <3>1. record[r] \in Record
      OBVIOUS
    <3>2. settled \in Record
      BY <3>1 DEF Record, Status, OutcomeSignal
    <3>3. record' = [record EXCEPT ![r] = settled]
      BY <1>3, <3>1 DEF Settle, Record
    <3> HIDE DEF settled
    <3>4. QED
      BY <3>2, <3>3
  <2>3. Append(history, r) \in Seq(Requests)
    OBVIOUS
  <2>4. Append(feedback, [request |-> r, outcome |-> OutcomeSignal(result)]) \in Seq(Entry)
    BY DEF Entry, OutcomeSignal
  <2>5. history' \in Seq(Requests)
    BY <1>3, <2>1, <2>3, LastOfProperties DEF Settle, Retain
  <2>6. feedback' \in Seq(Entry) /\ Len(feedback') <= HistoryLimit
    <3> DEFINE pushed == Append(feedback, [request |-> r, outcome |-> OutcomeSignal(result)])
    <3>1. feedback' = LastOf(pushed, HistoryLimit) /\ pushed \in Seq(Entry)
      BY <1>3, <2>4 DEF Settle, PushFeedback
    <3> HIDE DEF pushed
    <3>2. Len(pushed) \in Nat
      BY <3>1
    <3>3. /\ LastOf(pushed, HistoryLimit) \in Seq(Entry)
          /\ Len(LastOf(pushed, HistoryLimit)) =
               (IF Len(pushed) > HistoryLimit THEN HistoryLimit ELSE Len(pushed))
      BY <2>1, <3>1, LastOfProperties
    <3>4. QED
      BY <2>1, <3>1, <3>2, <3>3
  <2>7. QED
    BY <1>3, <2>2, <2>5, <2>6 DEF Settle, CountSuccess
<1>4. CASE UNCHANGED vars
  BY <1>4 DEF vars
<1>5. QED
  BY <1>1, <1>2, <1>3, <1>4 DEF Next

(* Types, and the bound of the feedback buffer, in every behaviour.         *)
THEOREM TypeCorrect == Spec => []TypeOK
<1>1. QED
  BY InitTypeOK, NextTypeOK, PTL DEF Spec
-----------------------------------------------------------------------------
LEMMA NextOverflow == TypeOK /\ OverflowIsSkipped /\ [Next]_vars => OverflowIsSkipped'
<1> SUFFICES ASSUME TypeOK, OverflowIsSkipped, [Next]_vars
             PROVE  OverflowIsSkipped'
  OBVIOUS
<1>0. HistoryLimit \in Nat
  BY RAEAssumption
<1> USE DEF TypeOK, OverflowIsSkipped
<1>1. ASSUME NEW r \in Requests, NEW score \in Scores, Skip(r, score)
      PROVE  OverflowIsSkipped'
  <2>1. /\ history' = Append(history, r) /\ record'[r].status = "skipped"
        /\ \A q \in Requests : q # r => record'[q] = record[q]
    BY <1>1 DEF Skip
  <2>2. ASSUME NEW i \in 1..Len(history'), i > HistoryLimit
        PROVE  record'[history'[i]].status = "skipped"
    <3>1. CASE i \in 1..Len(history)
      <4>1. history'[i] = history[i] /\ history[i] \in Requests
        BY <2>1, <3>1
      <4>2. record[history[i]].status = "skipped"
        BY <2>2, <3>1
      <4>3. QED
        BY <2>1, <4>1, <4>2
    <3>2. CASE i = Len(history) + 1
      BY <2>1, <3>2
    <3>3. QED
      BY <2>1, <3>1, <3>2
  <2>3. QED
    BY <2>2
<1>2. ASSUME NEW r \in Requests, NEW scenario \in Scenarios, NEW score \in Scores,
             NEW attempt \in Attempts, Trigger(r, scenario, score, attempt)
      PROVE  OverflowIsSkipped'
  <2>1. /\ history' = history /\ record[r].status = "absent"
        /\ \A q \in Requests : q # r => record'[q] = record[q]
    BY <1>2 DEF Trigger
  <2>2. ASSUME NEW i \in 1..Len(history), i > HistoryLimit
        PROVE  record'[history[i]].status = "skipped"
    <3>1. history[i] \in Requests /\ record[history[i]].status = "skipped"
      BY <2>2
    <3>2. QED
      BY <2>1, <3>1
  <2>3. QED
    BY <2>1, <2>2
<1>3. ASSUME NEW r \in Requests, NEW result \in CallResults, Settle(r, result)
      PROVE  OverflowIsSkipped'
  <2>1. history' = LastOf(Append(history, r), HistoryLimit)
    BY <1>3 DEF Settle, Retain
  <2>2. Append(history, r) \in Seq(Requests)
    OBVIOUS
  <2>3. Len(history') \in Nat /\ Len(history') <= HistoryLimit
    <3> DEFINE appended == Append(history, r)
    <3>1. history' = LastOf(appended, HistoryLimit) /\ appended \in Seq(Requests)
      BY <2>1, <2>2
    <3> HIDE DEF appended
    <3>2. Len(appended) \in Nat
      BY <3>1
    <3>3. Len(LastOf(appended, HistoryLimit)) =
            (IF Len(appended) > HistoryLimit THEN HistoryLimit ELSE Len(appended))
      BY <1>0, <3>1, LastOfProperties
    <3>4. QED
      BY <1>0, <3>1, <3>2, <3>3
  <2>4. QED
    BY <1>0, <2>3
<1>4. CASE UNCHANGED vars
  BY <1>4 DEF vars
<1>5. QED
  BY <1>1, <1>2, <1>3, <1>4 DEF Next

(* However many calls the gate turns away, a settling call never meets a    *)
(* history whose overflow holds anything but skipped records.               *)
THEOREM OverflowAlwaysSkipped == Spec => []OverflowIsSkipped
<1>1. Init => OverflowIsSkipped
  BY DEF Init, OverflowIsSkipped
<1>2. QED
  BY <1>1, NextOverflow, TypeCorrect, PTL DEF Spec
-----------------------------------------------------------------------------
(* A request that enters a set of statuses makes it one larger.             *)
LEMMA Enters ==
  ASSUME TypeOK, TypeOK', NEW S, NEW r \in Requests,
         record[r].status \notin S, record'[r].status \in S,
         \A q \in Requests : q # r => record'[q] = record[q]
  PROVE  Cardinality(WithStatus(S)') = Cardinality(WithStatus(S)) + 1
<1>1. WithStatus(S)' = WithStatus(S) \cup {r} /\ r \notin WithStatus(S)
  BY DEF WithStatus
<1>2. IsFiniteSet(WithStatus(S))
  BY RAEAssumption, FS_Subset DEF WithStatus
<1>3. QED
  BY <1>1, <1>2, FS_AddElement

(* A request that neither enters nor leaves it changes nothing.             *)
LEMMA Stays ==
  ASSUME NEW S, NEW r \in Requests,
         record[r].status \in S <=> record'[r].status \in S,
         \A q \in Requests : q # r => record'[q] = record[q]
  PROVE  WithStatus(S)' = WithStatus(S)
BY DEF WithStatus

LEMMA InitCounters == Init => CountersAgree
<1> SUFFICES ASSUME Init PROVE CountersAgree
  OBVIOUS
<1>1. \A r \in Requests : record[r].status = "absent"
  BY DEF Init
<1>2. /\ WithStatus({"executing", "success", "failed"}) = {}
      /\ WithStatus({"success"}) = {} /\ WithStatus({"skipped"}) = {}
  BY <1>1 DEF WithStatus
<1>3. QED
  BY <1>2, FS_EmptySet DEF Init, CountersAgree

LEMMA NextCounters ==
  TypeOK /\ TypeOK' /\ CountersAgree /\ [Next]_vars => CountersAgree'
<1> SUFFICES ASSUME TypeOK, TypeOK', CountersAgree, [Next]_vars
             PROVE  CountersAgree'
  OBVIOUS
<1> DEFINE triggered == {"executing", "success", "failed"}
<1>1. ASSUME NEW r \in Requests, NEW score \in Scores, Skip(r, score)
      PROVE  CountersAgree'
  <2>1. /\ record[r].status = "absent" /\ record'[r].status = "skipped"
        /\ \A q \in Requests : q # r => record'[q] = record[q]
    BY <1>1 DEF Skip, TypeOK
  <2>2. /\ WithStatus(triggered)' = WithStatus(triggered)
        /\ WithStatus({"success"})' = WithStatus({"success"})
    BY <2>1, Stays
  <2>3. Cardinality(WithStatus({"skipped"})') = Cardinality(WithStatus({"skipped"})) + 1
    BY <2>1, Enters
  <2>4. QED
    BY <1>1, <2>2, <2>3 DEF Skip, CountersAgree
<1>2. ASSUME NEW r \in Requests, NEW scenario \in Scenarios, NEW score \in Scores,
             NEW attempt \in Attempts, Trigger(r, scenario, score, attempt)
      PROVE  CountersAgree'
  <2>1. /\ record[r].status = "absent" /\ record'[r].status = "executing"
        /\ \A q \in Requests : q # r => record'[q] = record[q]
    BY <1>2 DEF Trigger, TypeOK
  <2>2. /\ WithStatus({"success"})' = WithStatus({"success"})
        /\ WithStatus({"skipped"})' = WithStatus({"skipped"})
    BY <2>1, Stays
  <2>3. Cardinality(WithStatus(triggered)') = Cardinality(WithStatus(triggered)) + 1
    BY <2>1, Enters
  <2>4. QED
    BY <1>2, <2>2, <2>3 DEF Trigger, CountersAgree
<1>3. ASSUME NEW r \in Requests, NEW result \in CallResults, Settle(r, result)
      PROVE  CountersAgree'
  <2>1. /\ record[r].status = "executing"
        /\ record'[r].status = IF result = "raises" THEN "failed" ELSE "success"
        /\ \A q \in Requests : q # r => record'[q] = record[q]
    <3>1. record[r] \in Record
      BY DEF TypeOK
    <3>2. QED
      BY <1>3, <3>1 DEF Settle, TypeOK, Record
  <2>2. /\ WithStatus(triggered)' = WithStatus(triggered)
        /\ WithStatus({"skipped"})' = WithStatus({"skipped"})
    BY <2>1, Stays
  <2>3. CASE result = "raises"
    <3>1. WithStatus({"success"})' = WithStatus({"success"})
      BY <2>1, <2>3, Stays
    <3>2. totalSucceeded' = totalSucceeded
      BY <1>3, <2>3 DEF Settle, CountSuccess, TypeOK
    <3>3. QED
      BY <1>3, <2>2, <3>1, <3>2 DEF Settle, CountersAgree
  <2>4. CASE result # "raises"
    <3>1. Cardinality(WithStatus({"success"})') = Cardinality(WithStatus({"success"})) + 1
      BY <2>1, <2>4, Enters
    <3>2. totalSucceeded' = totalSucceeded + 1
      BY <1>3, <2>4 DEF Settle, CountSuccess
    <3>3. QED
      BY <1>3, <2>2, <3>1, <3>2 DEF Settle, CountersAgree
  <2>5. QED
    BY <2>3, <2>4
<1>4. CASE UNCHANGED vars
  BY <1>4 DEF vars, CountersAgree, WithStatus
<1>5. QED
  BY <1>1, <1>2, <1>3, <1>4 DEF Next

(* The counters behind the statistics account for every request, however    *)
(* many are in flight at once.                                              *)
THEOREM CountersAlwaysAgree == Spec => []CountersAgree
<1>1. QED
  BY InitCounters, NextCounters, TypeCorrect, PTL DEF Spec
-----------------------------------------------------------------------------
(* Induction without an operator for a parameter, for sets of numbers.      *)
LEMMA SetInduction ==
  ASSUME NEW S \in SUBSET Nat, 0 \in S, \A n \in S : n + 1 \in S
  PROVE  S = Nat
<1> DEFINE R == OpToRel(<, Nat)
<1>1. SUFFICES ASSUME Nat \ S # {} PROVE FALSE
  OBVIOUS
<1>2. R = {p \in Nat \X Nat : p[1] < p[2]}
  BY DEF OpToRel
<1>3. IsWellFoundedOn(R, Nat)
  BY NatLessThanWellFounded
<1> HIDE DEF R
<1>4. PICK m \in Nat \ S : \A k \in Nat \ S : ~ (<<k, m>> \in R)
  BY <1>1, <1>3, WFMin
<1>5. m - 1 \in Nat /\ m - 1 < m
  BY <1>4
<1>6. m - 1 \in S
  BY <1>2, <1>4, <1>5
<1>7. m - 1 + 1 \in S
  BY <1>6
<1>8. QED
  BY <1>4, <1>7

(* count[i] is the number of executed records among the first i of hist.    *)
Counts(count, rec, hist) ==
  /\ count \in [0..Len(hist) -> 0..Len(hist)]
  /\ count[0] = 0
  /\ \A i \in 1..Len(hist) :
       count[i] = count[i - 1] + (IF rec[hist[i]].outcome = None THEN 0 ELSE 1)
  /\ \A i, j \in 0..Len(hist) : i <= j => count[i] <= count[j] /\ count[j] - count[i] <= j - i

(* The last executed record is the last entry of fb, and so on backwards.   *)
Lined(count, rec, hist, fb) ==
  /\ count[Len(hist)] <= Len(fb)
  /\ \A i \in 1..Len(hist) : rec[hist[i]].outcome # None =>
       fb[Len(fb) - count[Len(hist)] + count[i]] =
         [request |-> hist[i], outcome |-> rec[hist[i]].outcome]

Agree(rec, hist, fb) ==
  \E count \in [0..Len(hist) -> 0..Len(hist)] : Counts(count, rec, hist) /\ Lined(count, rec, hist, fb)

(* Both lists grow by the same call: with an entry for a record that has an *)
(* outcome, and without one for a skipped record.                           *)
LEMMA AgreeAppend ==
  ASSUME NEW rec \in [Requests -> Record], NEW hist \in Seq(Requests), NEW fb \in Seq(Entry),
         NEW r \in Requests, NEW added \in Seq(Entry),
         Agree(rec, hist, fb),
         \/ rec[r].outcome = None /\ added = fb
         \/ rec[r].outcome # None /\ added = Append(fb, [request |-> r, outcome |-> rec[r].outcome])
  PROVE  Agree(rec, Append(hist, r), added)
<1>1. PICK c \in [0..Len(hist) -> 0..Len(hist)] : Counts(c, rec, hist) /\ Lined(c, rec, hist, fb)
  BY DEF Agree
<1> DEFINE n == Len(hist)
           m == Len(fb)
           one == IF rec[r].outcome = None THEN 0 ELSE 1
           d == [i \in 0..n + 1 |-> IF i <= n THEN c[i] ELSE c[n] + one]
           longer == Append(hist, r)
<1>2. n \in Nat /\ m \in Nat /\ one \in 0..1 /\ c[n] \in 0..n /\ \A i \in 0..n : c[i] \in 0..n
  OBVIOUS
<1>3. /\ longer \in Seq(Requests) /\ Len(longer) = n + 1 /\ longer[n + 1] = r
      /\ \A i \in 1..n : longer[i] = hist[i]
  BY AppendProperties
<1>4. Len(added) = m + one /\ \A i \in 1..m : added[i] = fb[i]
  <2>1. CASE rec[r].outcome = None
    BY <2>1
  <2>2. CASE rec[r].outcome # None
    <3> DEFINE e == [request |-> r, outcome |-> rec[r].outcome]
    <3>1. e \in Entry
      BY <2>2 DEF Record, Entry, None
    <3> HIDE DEF e
    <3>2. added = Append(fb, e)
      BY <2>2 DEF e
    <3>3. QED
      BY <2>2, <3>1, <3>2, AppendProperties
  <2>3. QED
    BY <2>1, <2>2
<1>5. rec[r].outcome # None => added[m + 1] = [request |-> r, outcome |-> rec[r].outcome]
  <2> SUFFICES ASSUME rec[r].outcome # None PROVE added[m + 1] = [request |-> r, outcome |-> rec[r].outcome]
    OBVIOUS
  <2> DEFINE e == [request |-> r, outcome |-> rec[r].outcome]
  <2>1. e \in Entry
    BY DEF Record, Entry, None
  <2> HIDE DEF e
  <2>2. added = Append(fb, e)
    BY DEF e
  <2>3. added[m + 1] = e
    BY <2>1, <2>2, AppendProperties
  <2>4. QED
    BY <2>3 DEF e
<1>6. /\ c[0] = 0
      /\ \A i \in 1..n : c[i] = c[i - 1] + (IF rec[hist[i]].outcome = None THEN 0 ELSE 1)
      /\ \A i, j \in 0..n : i <= j => c[i] <= c[j] /\ c[j] - c[i] <= j - i
      /\ c[n] <= m
      /\ \A i \in 1..n : rec[hist[i]].outcome # None =>
           fb[m - c[n] + c[i]] = [request |-> hist[i], outcome |-> rec[hist[i]].outcome]
  BY <1>1 DEF Counts, Lined
<1> HIDE DEF n, m, one, longer
<1>7. \A i \in 0..n + 1 : d[i] = IF i <= n THEN c[i] ELSE c[n] + one
  OBVIOUS
<1>8. d \in [0..n + 1 -> 0..n + 1]
  BY <1>2
<1> HIDE DEF d
<1>9. d[n + 1] = c[n] + one /\ \A i \in 0..n : d[i] = c[i]
  BY <1>2, <1>7
<1>10. \A i \in 1..n + 1 : d[i] = d[i - 1] + (IF rec[longer[i]].outcome = None THEN 0 ELSE 1)
  <2> SUFFICES ASSUME NEW i \in 1..n + 1
               PROVE  d[i] = d[i - 1] + (IF rec[longer[i]].outcome = None THEN 0 ELSE 1)
    OBVIOUS
  <2>1. CASE i \in 1..n
    <3>1. i \in 0..n /\ i - 1 \in 0..n
      BY <1>2, <2>1
    <3>2. QED
      BY <1>3, <1>6, <1>9, <2>1, <3>1
  <2>2. CASE i = n + 1
    <3>1. i - 1 = n /\ n \in 0..n
      BY <1>2, <2>2
    <3>2. QED
      BY <1>3, <1>9, <2>2, <3>1 DEF one
  <2>3. QED
    BY <1>2, <2>1, <2>2
<1>11. \A i, j \in 0..n + 1 : i <= j => d[i] <= d[j] /\ d[j] - d[i] <= j - i
  <2> SUFFICES ASSUME NEW i \in 0..n + 1, NEW j \in 0..n + 1, i <= j
               PROVE  d[i] <= d[j] /\ d[j] - d[i] <= j - i
    OBVIOUS
  <2>1. CASE j \in 0..n
    <3>1. i \in 0..n
      BY <1>2, <2>1
    <3>2. QED
      BY <1>6, <1>9, <2>1, <3>1
  <2>2. CASE j = n + 1 /\ i \in 0..n
    <3>1. n \in 0..n /\ i <= n /\ c[i] <= c[n] /\ c[n] - c[i] <= n - i
      BY <1>2, <1>6, <2>2
    <3>2. c[i] \in Int /\ c[n] \in Int
      BY <1>2, <2>2
    <3>3. QED
      BY <1>2, <1>9, <2>2, <3>1, <3>2
  <2>3. CASE i = n + 1 /\ j = n + 1
    BY <1>2, <1>9, <2>3
  <2>4. QED
    BY <1>2, <2>1, <2>2, <2>3
<1>12. Counts(d, rec, longer)
  <2>1. d[0] = 0
    BY <1>2, <1>6, <1>9
  <2>2. QED
    BY <1>3, <1>8, <1>10, <1>11, <2>1 DEF Counts
<1>13. Lined(d, rec, longer, added)
  <2>1. d[n + 1] <= Len(added)
    <3> DEFINE last == c[n]
    <3>1. last \in Int /\ m \in Int /\ one \in Int /\ last <= m
      BY <1>2, <1>6
    <3>2. d[n + 1] = last + one /\ Len(added) = m + one
      BY <1>4, <1>9
    <3> HIDE DEF last
    <3>3. last + one <= m + one
      BY <3>1
    <3>4. QED
      BY <3>2, <3>3
  <2>2. ASSUME NEW i \in 1..n + 1, rec[longer[i]].outcome # None
        PROVE  added[Len(added) - d[n + 1] + d[i]] =
                 [request |-> longer[i], outcome |-> rec[longer[i]].outcome]
    <3>1. CASE i \in 1..n
      <4>1. Len(added) - d[n + 1] + d[i] = m - c[n] + c[i]
        BY <1>2, <1>4, <1>9, <3>1
      <4>2. i - 1 \in 0..n /\ i \in 0..n /\ n \in 0..n
        BY <1>2, <3>1
      <4>3. rec[hist[i]].outcome # None
        BY <1>3, <2>2, <3>1
      <4>4. c[i] = c[i - 1] + 1
        BY <1>6, <3>1, <4>3
      <4>5. c[i] <= c[n]
        BY <1>2, <1>6, <3>1, <4>2
      <4>6. c[i] \in 0..n /\ c[i - 1] \in 0..n /\ c[n] \in 0..n /\ c[n] <= m
        BY <1>2, <1>6, <4>2
      <4>7. m - c[n] + c[i] \in 1..m
        <5>1. \A a, b, z \in 0..n : b = a + 1 /\ b <= z /\ z <= m => m - z + b \in 1..m
          BY <1>2
        <5>2. QED
          BY <4>4, <4>5, <4>6, <5>1
      <4>8. added[m - c[n] + c[i]] = fb[m - c[n] + c[i]]
        BY <1>4, <4>7
      <4>9. fb[m - c[n] + c[i]] = [request |-> hist[i], outcome |-> rec[hist[i]].outcome]
        BY <1>6, <3>1, <4>3
      <4>10. longer[i] = hist[i]
        BY <1>3, <3>1
      <4>11. QED
        BY <4>1, <4>8, <4>9, <4>10
    <3>2. CASE i = n + 1
      <4>1. Len(added) - d[n + 1] + d[i] = m + one
        BY <1>2, <1>4, <1>9, <3>2
      <4>2. longer[i] = r /\ one = 1
        BY <1>3, <2>2, <3>2 DEF one
      <4>3. QED
        BY <1>5, <2>2, <4>1, <4>2
    <3>3. QED
      BY <1>2, <3>1, <3>2
  <2>3. QED
    BY <1>3, <2>1, <2>2 DEF Lined
<1>14. QED
  BY <1>3, <1>8, <1>12, <1>13 DEF Agree, longer

Dropped(lst, limit) == IF Len(lst) > limit THEN Len(lst) - limit ELSE 0

(* lst[-limit:] drops elements from the front only.                         *)
LEMMA LastOfDrops ==
  ASSUME NEW S, NEW lst \in Seq(S), NEW limit \in Nat
  PROVE  /\ LastOf(lst, limit) \in Seq(S)
         /\ Len(LastOf(lst, limit)) = Len(lst) - Dropped(lst, limit)
         /\ \A i \in 1..Len(lst) - Dropped(lst, limit) :
              LastOf(lst, limit)[i] = lst[i + Dropped(lst, limit)]
<1>1. CASE Len(lst) > limit
  <2> DEFINE from == Len(lst) - limit + 1
  <2>1. from \in Int /\ Len(lst) \in Int /\ 1 <= from /\ from <= Len(lst) + 1
    BY <1>1
  <2>2. \A i \in from..Len(lst) : lst[i] \in S
    BY <2>1
  <2>3. LastOf(lst, limit) = SubSeq(lst, from, Len(lst))
    BY <1>1 DEF LastOf
  <2>4. /\ SubSeq(lst, from, Len(lst)) \in Seq(S)
        /\ Len(SubSeq(lst, from, Len(lst))) = IF from <= Len(lst) THEN Len(lst) - from + 1 ELSE 0
        /\ \A i \in 1..Len(lst) - from + 1 : SubSeq(lst, from, Len(lst))[i] = lst[from + i - 1]
    BY <2>1, <2>2, SubSeqProperties
  <2>5. /\ Len(lst) - limit \in 0..Len(lst)
        /\ Len(LastOf(lst, limit)) = Len(lst) - (Len(lst) - limit)
    <3>1. Len(lst) \in Nat
      OBVIOUS
    <3>2. Len(LastOf(lst, limit)) = IF from <= Len(lst) THEN Len(lst) - from + 1 ELSE 0
      BY <2>3, <2>4
    <3> DEFINE l == Len(lst)
               cut == Len(LastOf(lst, limit))
    <3>3. l \in Nat /\ l > limit /\ cut = IF from <= l THEN l - from + 1 ELSE 0
      BY <1>1, <3>1, <3>2
    <3>4. from = l - limit + 1
      OBVIOUS
    <3> HIDE DEF l, cut, from
    <3>5. l - limit \in 0..l /\ cut = l - (l - limit)
      BY <3>3, <3>4
    <3>6. QED
      BY <3>5 DEF l, cut
  <2>6. ASSUME NEW i \in 1..Len(lst) - (Len(lst) - limit)
        PROVE  LastOf(lst, limit)[i] = lst[i + (Len(lst) - limit)]
    <3>1. i \in 1..Len(lst) - from + 1 /\ from + i - 1 = i + (Len(lst) - limit)
      BY <2>1
    <3>2. QED
      BY <2>3, <2>4, <3>1
  <2>7. QED
    BY <1>1, <2>3, <2>4, <2>5, <2>6 DEF Dropped
<1>2. CASE ~ (Len(lst) > limit)
  BY <1>2 DEF LastOf, Dropped
<1>3. QED
  BY <1>1, <1>2

(* Both lists are trimmed to the same limit, each for itself.               *)
LEMMA AgreeTrim ==
  ASSUME NEW rec \in [Requests -> Record], NEW hist \in Seq(Requests), NEW fb \in Seq(Entry),
         NEW limit \in Nat, Agree(rec, hist, fb)
  PROVE  Agree(rec, LastOf(hist, limit), LastOf(fb, limit))
<1>1. PICK c \in [0..Len(hist) -> 0..Len(hist)] : Counts(c, rec, hist) /\ Lined(c, rec, hist, fb)
  BY DEF Agree
<1> DEFINE n == Len(hist)
           m == Len(fb)
           H == LastOf(hist, limit)
           F == LastOf(fb, limit)
<1>2. PICK p \in 0..n : /\ p = IF n > limit THEN n - limit ELSE 0
                        /\ H \in Seq(Requests) /\ Len(H) = n - p
                        /\ \A i \in 1..n - p : H[i] = hist[i + p]
  <2>1. /\ H \in Seq(Requests)
        /\ Len(H) = n - Dropped(hist, limit)
        /\ \A i \in 1..n - Dropped(hist, limit) : H[i] = hist[i + Dropped(hist, limit)]
    BY LastOfDrops
  <2>2. Dropped(hist, limit) \in 0..n
    BY DEF Dropped
  <2>3. QED
    BY <2>1, <2>2 DEF Dropped
<1>3. PICK q \in 0..m : /\ q = IF m > limit THEN m - limit ELSE 0
                        /\ F \in Seq(Entry) /\ Len(F) = m - q
                        /\ \A i \in 1..m - q : F[i] = fb[i + q]
  <2>1. /\ F \in Seq(Entry)
        /\ Len(F) = m - Dropped(fb, limit)
        /\ \A i \in 1..m - Dropped(fb, limit) : F[i] = fb[i + Dropped(fb, limit)]
    BY LastOfDrops
  <2>2. Dropped(fb, limit) \in 0..m
    BY DEF Dropped
  <2>3. QED
    BY <2>1, <2>2 DEF Dropped
<1>4. n \in Nat /\ m \in Nat /\ \A i \in 0..n : c[i] \in 0..n
  OBVIOUS
<1>5. /\ \A i \in 1..n : c[i] = c[i - 1] + (IF rec[hist[i]].outcome = None THEN 0 ELSE 1)
      /\ \A i, j \in 0..n : i <= j => c[i] <= c[j] /\ c[j] - c[i] <= j - i
      /\ c[n] <= m
      /\ \A i \in 1..n : rec[hist[i]].outcome # None =>
           fb[m - c[n] + c[i]] = [request |-> hist[i], outcome |-> rec[hist[i]].outcome]
  BY <1>1 DEF Counts, Lined
<1> HIDE DEF n, m, H, F
<1> DEFINE d == [i \in 0..n - p |-> c[i + p] - c[p]]
<1>6. \A i \in 0..n - p : d[i] = c[i + p] - c[p] /\ i + p \in 0..n /\ i + p - p = i
  BY <1>4
<1>7. \A i, j \in 0..n - p : i <= j => d[i] <= d[j] /\ d[j] - d[i] <= j - i
  <2> SUFFICES ASSUME NEW i \in 0..n - p, NEW j \in 0..n - p, i <= j
               PROVE  d[i] <= d[j] /\ d[j] - d[i] <= j - i
    OBVIOUS
  <2>1. i + p \in 0..n /\ j + p \in 0..n /\ i + p <= j + p
    BY <1>4
  <2>2. c[i + p] <= c[j + p] /\ c[j + p] - c[i + p] <= (j + p) - (i + p)
    BY <1>5, <2>1
  <2>3. c[i + p] \in Int /\ c[j + p] \in Int /\ c[p] \in Int
    BY <1>4, <2>1
  <2>4. QED
    BY <1>6, <2>2, <2>3
<1>8. d \in [0..n - p -> 0..n - p]
  <2> SUFFICES ASSUME NEW i \in 0..n - p
               PROVE  c[i + p] - c[p] \in 0..n - p
    OBVIOUS
  <2>1. i + p \in 0..n /\ p <= i + p
    BY <1>4
  <2>2. c[p] <= c[i + p] /\ c[i + p] - c[p] <= (i + p) - p
    BY <1>5, <2>1
  <2>3. c[i + p] \in 0..n /\ c[p] \in 0..n
    BY <1>4, <2>1
  <2>4. QED
    BY <1>4, <2>2, <2>3
<1>9. d[0] = 0
  BY <1>4, <1>6
<1> HIDE DEF d
<1>10. \A i \in 1..n - p : d[i] = d[i - 1] + (IF rec[H[i]].outcome = None THEN 0 ELSE 1)
  <2> SUFFICES ASSUME NEW i \in 1..n - p
               PROVE  d[i] = d[i - 1] + (IF rec[H[i]].outcome = None THEN 0 ELSE 1)
    OBVIOUS
  <2>1. i \in 0..n - p /\ i - 1 \in 0..n - p /\ i + p \in 1..n /\ (i + p) - 1 = (i - 1) + p
    BY <1>4
  <2>2. c[i + p] = c[(i - 1) + p] + (IF rec[H[i]].outcome = None THEN 0 ELSE 1)
    BY <1>2, <1>5, <2>1
  <2>3. d[i] = c[i + p] - c[p] /\ d[i - 1] = c[(i - 1) + p] - c[p]
    BY <1>6, <2>1
  <2>4. c[(i - 1) + p] \in Int /\ c[p] \in Int
    <3>1. (i - 1) + p \in 0..n
      BY <1>6, <2>1
    <3>2. QED
      BY <1>4, <3>1
  <2>5. QED
    BY <2>2, <2>3, <2>4
<1>11. Counts(d, rec, H)
  BY <1>2, <1>7, <1>8, <1>9, <1>10 DEF Counts
<1>12. d[n - p] \in Int /\ d[n - p] = c[n] - c[p] /\ d[n - p] <= n - p
  <2>1. n - p \in 0..n - p /\ (n - p) + p = n
    BY <1>4
  <2>2. QED
    BY <1>4, <1>6, <1>8, <2>1
<1>13. c[n] \in Nat /\ c[p] \in Nat
  BY <1>4
<1>14. Lined(d, rec, H, F)
  <2>1. d[n - p] <= m - q
    <3>1. c[n] <= m /\ p \in Nat /\ q \in Nat /\ d[n - p] <= c[n]
      BY <1>5, <1>12, <1>13
    <3>2. CASE m > limit
      <4>1. n > limit => n - p = limit
        BY <1>2, <1>4
      <4>2. ~(n > limit) => n - p <= limit
        BY <1>2, <1>4
      <4>3. m - q = limit
        BY <1>3, <1>4, <3>2
      <4>4. QED
        BY <1>4, <1>12, <4>1, <4>2, <4>3
    <3>3. CASE ~(m > limit)
      BY <1>3, <1>4, <1>12, <1>13, <3>1, <3>3
    <3>4. QED
      BY <3>2, <3>3
  <2>2. ASSUME NEW i \in 1..n - p, rec[H[i]].outcome # None
        PROVE  F[m - q - d[n - p] + d[i]] = [request |-> H[i], outcome |-> rec[H[i]].outcome]
    <3>1. i \in 0..n - p /\ i - 1 \in 0..n - p /\ i + p \in 1..n /\ n - p \in 0..n - p
      BY <1>4
    <3>2. d[i] = d[i - 1] + 1
      BY <1>10, <2>2
    <3>3. d[i] <= d[n - p]
      BY <1>7, <3>1
    <3>4. d[i] \in 0..n - p /\ d[i - 1] \in 0..n - p
      BY <1>8, <3>1
    <3>5. m - q - d[n - p] + d[i] \in 1..m - q
      <4>1. \A a, b, z \in Int : 0 <= a /\ b = a + 1 /\ b <= z /\ z <= m - q => m - q - z + b \in 1..m - q
        BY <1>4
      <4>2. 0 <= d[i - 1] /\ d[i - 1] \in Int /\ d[i] \in Int
        BY <3>4
      <4>3. QED
        BY <1>12, <2>1, <3>2, <3>3, <4>1, <4>2
    <3>6. d[i] = c[i + p] - c[p] /\ c[i + p] \in Int
      BY <1>4, <1>6, <3>1
    <3>7. m - q - d[n - p] + d[i] + q = m - c[n] + c[i + p]
      <4>1. /\ c[n] \in Int /\ c[p] \in Int /\ c[i + p] \in Int
            /\ m \in Int /\ q \in Int
        BY <1>4, <1>13, <3>6
      <4>2. m - q - (c[n] - c[p]) + (c[i + p] - c[p]) + q = m - c[n] + c[i + p]
        <5> DEFINE a == c[i + p]
                   b == c[p]
                   z == c[n]
        <5>1. a \in Int /\ b \in Int /\ z \in Int
          BY <4>1
        <5> HIDE DEF a, b, z
        <5>2. m - q - (z - b) + (a - b) + q = m - z + a
          BY <4>1, <5>1
        <5>3. QED
          BY <5>2 DEF a, b, z
      <4>3. QED
        BY <1>12, <3>6, <4>2
    <3>8. F[m - q - d[n - p] + d[i]] = fb[m - c[n] + c[i + p]]
      BY <1>3, <3>5, <3>7
    <3>9. H[i] = hist[i + p]
      BY <1>2
    <3>10. fb[m - c[n] + c[i + p]] = [request |-> H[i], outcome |-> rec[H[i]].outcome]
      BY <1>5, <2>2, <3>1, <3>9
    <3>11. QED
      BY <3>8, <3>10
  <2>3. QED
    BY <1>2, <1>3, <2>1, <2>2 DEF Lined
<1>15. QED
  BY <1>2, <1>8, <1>11, <1>14 DEF Agree, H, F

(* What becomes of records that the history does not hold is no matter.     *)
LEMMA AgreeRecord ==
  ASSUME NEW rec \in [Requests -> Record], NEW new \in [Requests -> Record],
         NEW hist \in Seq(Requests), NEW fb \in Seq(Entry), NEW r \in Requests,
         Agree(rec, hist, fb),
         \A i \in 1..Len(hist) : hist[i] # r,
         \A q \in Requests : q # r => new[q] = rec[q]
  PROVE  Agree(new, hist, fb)
<1>1. \A i \in 1..Len(hist) : hist[i] \in Requests /\ new[hist[i]] = rec[hist[i]]
  OBVIOUS
<1>2. PICK c \in [0..Len(hist) -> 0..Len(hist)] : Counts(c, rec, hist) /\ Lined(c, rec, hist, fb)
  BY DEF Agree
<1>3. Counts(c, new, hist)
  BY <1>1, <1>2 DEF Counts
<1>4. Lined(c, new, hist, fb)
  BY <1>1, <1>2 DEF Lined
<1>5. QED
  BY <1>3, <1>4 DEF Agree

(* No record of the history is still executing, and every entry of the      *)
(* buffer is of a record that has its outcome, so a settling call adds a    *)
(* request that neither holds.                                              *)
Story ==
  /\ \A r \in Requests : record[r].outcome # None => record[r].status \in {"success", "failed"}
  /\ \A i \in 1..Len(history) : record[history[i]].status \in {"success", "failed", "skipped"}
  /\ \A i \in 1..Len(feedback) : record[feedback[i].request].outcome # None
  /\ \A i, j \in 1..Len(feedback) : i # j => feedback[i].request # feedback[j].request
  /\ Agree(record, history, feedback)

LEMMA InitStory == Init => Story
<1> SUFFICES ASSUME Init PROVE Story
  OBVIOUS
<1>1. Len(history) = 0 /\ Len(feedback) = 0 /\ \A r \in Requests : record[r].outcome = None
  BY DEF Init
<1>2. Agree(record, history, feedback)
  <2> DEFINE c == [i \in 0..0 |-> 0]
  <2>1. c \in [0..0 -> 0..0] /\ c[0] = 0
    OBVIOUS
  <2> HIDE DEF c
  <2>2. Counts(c, record, history) /\ Lined(c, record, history, feedback)
    BY <1>1, <2>1 DEF Counts, Lined
  <2>3. QED
    BY <1>1, <2>1, <2>2 DEF Agree
<1>3. QED
  BY <1>1, <1>2 DEF Story

(* An early return or a call that begins touches a record no list holds.    *)
LEMMA UnlistedKeepsStory ==
  ASSUME TypeOK, TypeOK', Story, NEW r \in Requests,
         record[r].status = "absent", record'[r].outcome = None,
         \A q \in Requests : q # r => record'[q] = record[q],
         feedback' = feedback,
         \/ history' = history
         \/ history' = Append(history, r) /\ record'[r].status = "skipped"
  PROVE  Story'
<1>1. /\ \A i \in 1..Len(history) : history[i] \in Requests /\ history[i] # r
      /\ \A i \in 1..Len(feedback) : feedback[i].request \in Requests /\ feedback[i].request # r
  <2>1. record[r].outcome = None
    BY DEF Story
  <2>2. \A i \in 1..Len(feedback) : feedback[i] \in Entry
    BY DEF TypeOK
  <2>3. \A i \in 1..Len(history) : history[i] \in Requests
    BY DEF TypeOK
  <2>4. QED
    BY <2>1, <2>2, <2>3 DEF Story, Entry
<1>2. Agree(record', history, feedback)
  BY <1>1, AgreeRecord DEF TypeOK, Story
<1>3. Agree(record', history', feedback)
  <2>1. CASE history' = history
    BY <1>2, <2>1
  <2>2. CASE history' = Append(history, r)
    BY <1>2, <2>2, AgreeAppend DEF TypeOK
  <2>3. QED
    BY <2>1, <2>2
<1>4. \A i \in 1..Len(history') : record'[history'[i]].status \in {"success", "failed", "skipped"}
  <2>1. CASE history' = history
    BY <1>1, <2>1 DEF Story
  <2>2. CASE history' = Append(history, r) /\ record'[r].status = "skipped"
    <3>1. /\ Len(history') = Len(history) + 1 /\ history'[Len(history) + 1] = r
          /\ \A i \in 1..Len(history) : history'[i] = history[i]
      BY <2>2, AppendProperties DEF TypeOK
    <3>2. Len(history) \in Nat
      BY DEF TypeOK
    <3>3. ASSUME NEW i \in 1..Len(history')
          PROVE  record'[history'[i]].status \in {"success", "failed", "skipped"}
      <4>1. CASE i \in 1..Len(history)
        BY <1>1, <3>1, <4>1 DEF Story
      <4>2. CASE i = Len(history) + 1
        BY <2>2, <3>1, <4>2
      <4>3. QED
        BY <3>1, <3>2, <4>1, <4>2
    <3>4. QED
      BY <3>3
  <2>3. QED
    BY <2>1, <2>2
<1>5. \A q \in Requests : record'[q].outcome # None => record'[q].status \in {"success", "failed"}
  BY DEF Story
<1>6. \A i \in 1..Len(feedback') : record'[feedback'[i].request].outcome # None
  BY <1>1 DEF Story
<1>7. QED
  BY <1>3, <1>4, <1>5, <1>6 DEF Story

LEMMA SettleKeepsStory ==
  ASSUME TypeOK, TypeOK', Story, NEW r \in Requests, NEW result \in CallResults, Settle(r, result)
  PROVE  Story'
<1> DEFINE outcome == OutcomeSignal(result)
           e == [request |-> r, outcome |-> outcome]
           F == Append(feedback, e)
           H == Append(history, r)
<1>1. record[r].status = "executing" /\ record[r].outcome = None
  BY DEF Settle, Story
<1>2. /\ record'[r].outcome = outcome /\ outcome # None /\ outcome \in {0, 1}
      /\ record'[r].status \in {"success", "failed"}
      /\ \A q \in Requests : q # r => record'[q] = record[q]
  <2>1. record[r] \in Record
    BY DEF TypeOK
  <2>2. QED
    BY <2>1 DEF Settle, OutcomeSignal, None, TypeOK, Record
<1>3. /\ feedback' = LastOf(F, HistoryLimit) /\ history' = LastOf(H, HistoryLimit)
      /\ HistoryLimit \in Nat
  BY RAEAssumption DEF Settle, PushFeedback, Retain
<1>4. /\ \A i \in 1..Len(history) : history[i] \in Requests /\ history[i] # r
      /\ \A i \in 1..Len(feedback) : feedback[i].request \in Requests /\ feedback[i].request # r
  <2>1. \A i \in 1..Len(feedback) : feedback[i] \in Entry
    BY DEF TypeOK
  <2>2. \A i \in 1..Len(history) : history[i] \in Requests
    BY DEF TypeOK
  <2>3. QED
    BY <1>1, <2>1, <2>2 DEF Story, Entry
<1>5. e \in Entry /\ e.request = r
  BY <1>2 DEF Entry
<1> HIDE DEF e
<1>6. /\ F \in Seq(Entry) /\ Len(F) = Len(feedback) + 1 /\ F[Len(feedback) + 1] = e
      /\ \A i \in 1..Len(feedback) : F[i] = feedback[i]
  BY <1>5, AppendProperties DEF TypeOK
<1>7. /\ H \in Seq(Requests) /\ Len(H) = Len(history) + 1 /\ H[Len(history) + 1] = r
      /\ \A i \in 1..Len(history) : H[i] = history[i]
  BY AppendProperties DEF TypeOK
<1>8. Agree(record', history', feedback')
  <2>1. Agree(record', history, feedback)
    BY <1>2, <1>4, AgreeRecord DEF TypeOK, Story
  <2>2. Agree(record', H, F)
    BY <1>2, <1>6, <2>1, AgreeAppend DEF TypeOK, e
  <2> HIDE DEF F, H
  <2>3. QED
    BY <1>3, <1>6, <1>7, <2>2, AgreeTrim DEF TypeOK
<1>9. Len(history) \in Nat /\ Len(feedback) \in Nat
  BY DEF TypeOK
<1>10. /\ \A i \in 1..Len(H) : record'[H[i]].status \in {"success", "failed", "skipped"}
       /\ \A i \in 1..Len(F) : record'[F[i].request].outcome # None
  <2>1. ASSUME NEW i \in 1..Len(H) PROVE record'[H[i]].status \in {"success", "failed", "skipped"}
    <3>1. CASE i \in 1..Len(history)
      BY <1>2, <1>4, <1>7, <3>1 DEF Story
    <3>2. CASE i = Len(history) + 1
      BY <1>2, <1>7, <3>2
    <3>3. QED
      BY <1>7, <1>9, <3>1, <3>2
  <2>2. ASSUME NEW i \in 1..Len(F) PROVE record'[F[i].request].outcome # None
    <3>1. CASE i \in 1..Len(feedback)
      BY <1>2, <1>4, <1>6, <3>1 DEF Story
    <3>2. CASE i = Len(feedback) + 1
      BY <1>2, <1>5, <1>6, <3>2
    <3>3. QED
      BY <1>6, <1>9, <3>1, <3>2
  <2>3. QED
    BY <2>1, <2>2
<1>11. \A i, j \in 1..Len(F) : i # j => F[i].request # F[j].request
  <2> SUFFICES ASSUME NEW i \in 1..Len(F), NEW j \in 1..Len(F), i # j
               PROVE  F[i].request # F[j].request
    OBVIOUS
  <2>1. CASE i \in 1..Len(feedback) /\ j \in 1..Len(feedback)
    BY <1>6, <2>1 DEF Story
  <2>2. CASE i = Len(feedback) + 1 /\ j \in 1..Len(feedback)
    BY <1>4, <1>5, <1>6, <2>2
  <2>3. CASE j = Len(feedback) + 1 /\ i \in 1..Len(feedback)
    BY <1>4, <1>5, <1>6, <2>3
  <2>4. QED
    BY <1>6, <1>9, <2>1, <2>2, <2>3
<1> HIDE DEF F, H
<1> DEFINE p == Dropped(H, HistoryLimit)
           q == Dropped(F, HistoryLimit)
<1>12. /\ Len(history') = Len(H) - p
       /\ \A i \in 1..Len(history') : i + p \in 1..Len(H) /\ history'[i] = H[i + p]
  <2>1. /\ Len(history') = Len(H) - p
        /\ \A i \in 1..Len(H) - p : history'[i] = H[i + p]
    BY <1>3, <1>7, LastOfDrops
  <2>2. p \in 0..Len(H)
    BY <1>3, <1>7 DEF Dropped
  <2> HIDE DEF p
  <2>3. QED
    BY <1>7, <2>1, <2>2
<1>13. /\ Len(feedback') = Len(F) - q
       /\ \A i \in 1..Len(feedback') : i + q \in 1..Len(F) /\ feedback'[i] = F[i + q]
  <2>1. /\ Len(feedback') = Len(F) - q
        /\ \A i \in 1..Len(F) - q : feedback'[i] = F[i + q]
    BY <1>3, <1>6, LastOfDrops
  <2>2. q \in 0..Len(F)
    BY <1>3, <1>6 DEF Dropped
  <2> HIDE DEF q
  <2>3. QED
    BY <1>6, <2>1, <2>2
<1>14. q \in Int
  BY <1>3, <1>6 DEF Dropped
<1> HIDE DEF p, q
<1>15. \A i \in 1..Len(history') : record'[history'[i]].status \in {"success", "failed", "skipped"}
  BY <1>10, <1>12
<1>16. \A i \in 1..Len(feedback') : record'[feedback'[i].request].outcome # None
  BY <1>10, <1>13
<1>17. \A i, j \in 1..Len(feedback') : i # j => feedback'[i].request # feedback'[j].request
  <2> SUFFICES ASSUME NEW i \in 1..Len(feedback'), NEW j \in 1..Len(feedback'), i # j
               PROVE  feedback'[i].request # feedback'[j].request
    OBVIOUS
  <2>1. i + q \in 1..Len(F) /\ j + q \in 1..Len(F) /\ i + q # j + q
    BY <1>13, <1>14
  <2>2. QED
    BY <1>11, <1>13, <2>1
<1>18. \A s \in Requests : record'[s].outcome # None => record'[s].status \in {"success", "failed"}
  BY <1>2 DEF Story
<1>19. QED
  BY <1>8, <1>15, <1>16, <1>17, <1>18 DEF Story

LEMMA NextStory == TypeOK /\ TypeOK' /\ Story /\ [Next]_vars => Story'
<1> SUFFICES ASSUME TypeOK, TypeOK', Story, [Next]_vars PROVE Story'
  OBVIOUS
<1>1. ASSUME NEW r \in Requests, NEW score \in Scores, Skip(r, score)
      PROVE  Story'
  <2>1. /\ record[r].status = "absent" /\ feedback' = feedback /\ history' = Append(history, r)
        /\ record'[r].outcome = None /\ record'[r].status = "skipped"
        /\ \A q \in Requests : q # r => record'[q] = record[q]
    BY <1>1 DEF Skip, TypeOK
  <2>2. QED
    BY <2>1, UnlistedKeepsStory
<1>2. ASSUME NEW r \in Requests, NEW scenario \in Scenarios, NEW score \in Scores,
             NEW attempt \in Attempts, Trigger(r, scenario, score, attempt)
      PROVE  Story'
  <2>1. /\ record[r].status = "absent" /\ feedback' = feedback /\ history' = history
        /\ record'[r].outcome = None
        /\ \A q \in Requests : q # r => record'[q] = record[q]
    BY <1>2 DEF Trigger, TypeOK
  <2>2. QED
    BY <2>1, UnlistedKeepsStory
<1>3. CASE UNCHANGED vars
  BY <1>3 DEF vars, Story
<1>4. QED
  BY <1>1, <1>2, <1>3, SettleKeepsStory DEF Next

LEMMA PlaceInBuffer ==
  ASSUME NEW m \in Nat, NEW z \in Nat, NEW a \in Nat, NEW b \in Nat, a = b + 1, a <= z, z <= m
  PROVE  /\ m - z + a \in 1..m /\ m - z + 1 \in 1..m - z + a
         /\ m - z + b = (m - z + a) - 1
OBVIOUS

(* The recursion of ExecutedHistory meets the buffer entry by entry.        *)
LEMMA StoryAgrees ==
  ASSUME TypeOK, Story
  PROVE  HistoryAgreesWithFeedback
<1> DEFINE n == Len(history)
           m == Len(feedback)
<1>1. PICK c \in [0..n -> 0..n] : Counts(c, record, history) /\ Lined(c, record, history, feedback)
  BY DEF Story, Agree
<1>2. /\ c[0] = 0
      /\ \A i \in 1..n : c[i] = c[i - 1] + (IF record[history[i]].outcome = None THEN 0 ELSE 1)
      /\ \A i, j \in 0..n : i <= j => c[i] <= c[j]
      /\ c[n] <= m
      /\ \A i \in 1..n : record[history[i]].outcome # None => feedback[m - c[n] + c[i]] = EntryOf(history[i])
  BY <1>1 DEF Counts, Lined, EntryOf
<1>3. n \in Nat /\ m \in Nat /\ feedback \in Seq(Entry) /\ \A i \in 0..n : c[i] \in 0..n
  BY DEF TypeOK
<1> DEFINE from == m - c[n] + 1
           parts == [i \in 0..n |-> SubSeq(feedback, from, m - c[n] + c[i])]
           IsExecuted(f) ==
             f = [i \in 0..n |-> IF i = 0 THEN <<>>
                                 ELSE IF record[history[i]].outcome = None THEN f[i - 1]
                                 ELSE Append(f[i - 1], EntryOf(history[i]))]
           chosen == CHOOSE f : IsExecuted(f)
<1>4. ExecutedHistory = chosen[n]
  BY DEF ExecutedHistory
<1> HIDE DEF n, m
<1>0. \A i \in 0..n : parts[i] = SubSeq(feedback, from, m - c[n] + c[i])
  OBVIOUS
<1> HIDE DEF parts
<1>5. parts[0] = <<>>
  <2>1. m - c[n] + c[0] < from /\ from \in Int /\ m - c[n] + c[0] \in Int
    <3>1. c[n] \in Int /\ c[0] = 0
      BY <1>2, <1>3
    <3>2. QED
      BY <1>3, <3>1
  <2>2. parts[0] = SubSeq(feedback, from, m - c[n] + c[0])
    <3>1. 0 \in 0..n
      BY <1>3
    <3>2. QED
      BY <1>0, <3>1
  <2>3. QED
    BY <2>1, <2>2, SubSeqEmpty
<1>6. ASSUME NEW i \in 1..n
      PROVE  parts[i] = IF record[history[i]].outcome = None THEN parts[i - 1]
                       ELSE Append(parts[i - 1], EntryOf(history[i]))
  <2>1. i \in 0..n /\ i - 1 \in 0..n /\ n \in 0..n /\ i <= n
    BY <1>3
  <2>5. c[i] \in Nat /\ c[i - 1] \in Nat /\ c[n] \in Nat
    <3>1. c[i] \in 0..n /\ c[i - 1] \in 0..n /\ c[n] \in 0..n
      BY <1>3, <2>1
    <3>2. QED
      BY <3>1
  <2>2. CASE record[history[i]].outcome = None
    <3>1. c[i] = c[i - 1] + 0
      BY <1>2, <2>2
    <3>2. c[i] = c[i - 1]
      BY <2>5, <3>1
    <3>3. parts[i] = parts[i - 1]
      BY <1>0, <2>1, <3>2
    <3>4. QED
      BY <2>2, <3>3
  <2>3. CASE record[history[i]].outcome # None
    <3>1. c[i] = c[i - 1] + 1
      BY <1>2, <2>3
    <3> DEFINE k == m - c[n] + c[i]
    <3>2. k \in Int /\ m - c[n] + c[i - 1] = k - 1 /\ k \in 1..m /\ from \in 1..k
      <4>1. c[i] <= c[n] /\ c[n] <= m
        BY <1>2, <2>1
      <4>2. /\ m - c[n] + c[i] \in 1..m /\ m - c[n] + 1 \in 1..m - c[n] + c[i]
            /\ m - c[n] + c[i - 1] = (m - c[n] + c[i]) - 1
        <5> DEFINE a == c[i]
                   b == c[i - 1]
                   z == c[n]
        <5>1. m \in Nat /\ z \in Nat /\ a \in Nat /\ b \in Nat /\ a = b + 1 /\ a <= z /\ z <= m
          BY <1>3, <2>5, <3>1, <4>1
        <5> HIDE DEF a, b, z
        <5>2. /\ m - z + a \in 1..m /\ m - z + 1 \in 1..m - z + a
              /\ m - z + b = (m - z + a) - 1
          BY <5>1, PlaceInBuffer
        <5>3. QED
          BY <5>2 DEF a, b, z
      <4>3. QED
        BY <4>2
    <3>3. feedback[k] = EntryOf(history[i])
      BY <1>2, <2>3
    <3> HIDE DEF k, from
    <3>4. feedback[k] \in Entry
      BY <1>3, <3>2 DEF m
    <3>5. from \in 1..Len(feedback) /\ k \in from..Len(feedback)
      BY <1>3, <3>2 DEF m
    <3>6. SubSeq(feedback, from, k) = SubSeq(feedback, from, k - 1) \o <<feedback[k]>>
      BY <1>3, <3>5, SubSeqRecursiveSecond
    <3>7. SubSeq(feedback, from, k - 1) \in Seq(Entry)
      <4>1. \A j \in from..k - 1 : j \in 1..Len(feedback)
        BY <1>3, <3>2, <3>5
      <4>2. \A j \in from..k - 1 : feedback[j] \in Entry
        BY <1>3, <4>1, ElementOfSeq
      <4>3. from \in Int /\ k - 1 \in Int
        BY <3>2
      <4>4. QED
        BY <4>2, <4>3, SubSeqProperties
    <3>8. SubSeq(feedback, from, k - 1) \o <<feedback[k]>> = Append(SubSeq(feedback, from, k - 1), feedback[k])
      BY <3>4, <3>7, AppendIsConcat
    <3>9. QED
      <4>1. parts[i] = SubSeq(feedback, from, k)
        BY <1>0, <2>1 DEF k
      <4>2. parts[i - 1] = SubSeq(feedback, from, k - 1)
        BY <1>0, <2>1, <3>2
      <4>3. QED
        BY <2>3, <3>3, <3>6, <3>8, <4>1, <4>2
  <2>4. QED
    BY <2>2, <2>3
<1>7. IsExecuted(parts)
  <2> DEFINE step(i) == IF i = 0 THEN <<>>
                        ELSE IF record[history[i]].outcome = None THEN parts[i - 1]
                        ELSE Append(parts[i - 1], EntryOf(history[i]))
  <2>1. ASSUME NEW i \in 0..n PROVE parts[i] = step(i)
    <3>1. CASE i = 0
      BY <1>5, <3>1
    <3>2. CASE i \in 1..n
      <4>1. i # 0
        BY <3>2
      <4>2. QED
        BY <1>6, <3>2, <4>1
    <3>3. QED
      BY <1>3, <3>1, <3>2
  <2>2. parts = [i \in 0..n |-> parts[i]]
    BY DEF parts
  <2> HIDE DEF step
  <2>3. parts = [i \in 0..n |-> step(i)]
    BY <2>1, <2>2
  <2>4. QED
    BY <2>3 DEF step
<1>8. IsExecuted(chosen)
  BY <1>7
<1> DEFINE S == {i \in Nat : i <= n => chosen[i] = parts[i]}
<1> HIDE DEF chosen
<1>9. chosen = [i \in 0..n |-> IF i = 0 THEN <<>>
                               ELSE IF record[history[i]].outcome = None THEN chosen[i - 1]
                               ELSE Append(chosen[i - 1], EntryOf(history[i]))]
  BY <1>8
<1>10. \A i \in 0..n : chosen[i] = IF i = 0 THEN <<>>
                                   ELSE IF record[history[i]].outcome = None THEN chosen[i - 1]
                                   ELSE Append(chosen[i - 1], EntryOf(history[i]))
  BY <1>9
<1>11. 0 \in S
  <2>1. 0 \in 0..n
    BY <1>3
  <2>2. QED
    BY <1>5, <1>10, <2>1
<1>12. ASSUME NEW i \in S PROVE i + 1 \in S
  <2> SUFFICES ASSUME i + 1 <= n PROVE chosen[i + 1] = parts[i + 1]
    OBVIOUS
  <2>1. i \in Nat /\ i <= n /\ i + 1 \in 1..n /\ i + 1 \in 0..n /\ i + 1 # 0 /\ i + 1 - 1 = i
    BY <1>3
  <2>2. chosen[i] = parts[i]
    BY <2>1
  <2> HIDE DEF S
  <2>3. chosen[i + 1] = IF record[history[i + 1]].outcome = None THEN chosen[i]
                        ELSE Append(chosen[i], EntryOf(history[i + 1]))
    BY <1>10, <2>1
  <2>4. parts[i + 1] = IF record[history[i + 1]].outcome = None THEN parts[i]
                      ELSE Append(parts[i], EntryOf(history[i + 1]))
    BY <1>6, <2>1
  <2>5. QED
    BY <2>2, <2>3, <2>4
<1>13. S = Nat
  BY <1>11, <1>12, SetInduction
<1>14. ExecutedHistory = parts[n]
  BY <1>3, <1>4, <1>13
<1>15. parts[n] = SubSeq(feedback, from, m)
  <2>1. n \in 0..n
    BY <1>3
  <2>2. c[n] \in Int
    BY <1>3, <2>1
  <2>3. m - c[n] + c[n] = m
    BY <1>3, <2>2
  <2>4. QED
    BY <1>0, <2>1, <2>3
<1>16. Len(SubSeq(feedback, from, m)) = c[n]
  <2>1. n \in 0..n
    BY <1>3
  <2>2. c[n] \in 0..n /\ c[n] <= m
    BY <1>2, <1>3, <2>1
  <2>3. from \in Int /\ 1 <= from /\ from <= m + 1 /\ m \in Int
    BY <1>3, <2>2
  <2>4. \A i \in from..m : feedback[i] \in Entry
    BY <1>3, <2>3 DEF m
  <2>5. Len(SubSeq(feedback, from, m)) = IF from <= m THEN m - from + 1 ELSE 0
    BY <2>3, <2>4, SubSeqProperties
  <2>6. QED
    BY <1>3, <2>2, <2>5
<1>17. /\ Len(ExecutedHistory) <= Len(feedback)
       /\ ExecutedHistory = SubSeq(feedback, Len(feedback) - Len(ExecutedHistory) + 1, Len(feedback))
  BY <1>2, <1>14, <1>15, <1>16 DEF m
<1>18. QED
  BY <1>17 DEF HistoryAgreesWithFeedback, Story

(* The history and the feedback buffer tell one story, although they grow   *)
(* at different points and are trimmed apart: for any number of requests in *)
(* flight and any limit.                                                    *)
THEOREM HistoryAlwaysAgrees == Spec => []HistoryAgreesWithFeedback
<1>1. TypeOK /\ Story => HistoryAgreesWithFeedback
  BY StoryAgrees
<1>2. QED
  BY <1>1, InitStory, NextStory, TypeCorrect, PTL DEF Spec
=============================================================================

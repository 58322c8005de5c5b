--------------------------------- MODULE RAE ---------------------------------
(***************************************************************************)
(* The Remediation Action Engine, src/api/rae.py.                          *)
(*                                                                         *)
(* Each POST /remediate is a coroutine on the one asyncio event loop.  It  *)
(* runs without interruption up to the await of the Kubernetes call        *)
(* (rae.py:301) and, when the call answers, from there to its return: two  *)
(* actions per request, and requests interleave only between them.         *)
(*                                                                         *)
(* A RemediationRecord is a mutable object that the history list holds by  *)
(* reference, so history is a sequence of request names and record holds   *)
(* the objects.  A feedback entry is a dict of its own, copied from the    *)
(* record by _push_feedback.                                               *)
(***************************************************************************)
EXTENDS Integers, Sequences, FiniteSets

CONSTANTS
  Requests,             \* the POST /remediate calls made in a behaviour
  Scenarios,            \* the fault_scenario values callers send
  Scores,               \* rcsm_score, in hundredths
  Attempts,             \* the attempt field, 0..3 in RemediateRequest
  CallResults,          \* what the Kubernetes call may do (see Settle)
  ConfidenceThreshold,  \* CONFIDENCE_THRESHOLD, in hundredths
  HistoryLimit          \* HISTORY_LIMIT

ASSUME RAEAssumption ==
  /\ IsFiniteSet(Requests)
  /\ Scores \subseteq 0..100
  /\ Attempts \subseteq 0..3
  /\ CallResults \subseteq {"success", "unsuccessful", "raises"}
  /\ ConfidenceThreshold \in 0..100
  /\ HistoryLimit \in Nat \ {0}

VARIABLES
  record,           \* the RemediationRecord of each request
  history,          \* _rae_state.history
  feedback,         \* _rae_state.feedback_buffer
  totalTriggered, totalSucceeded, totalSkipped

vars == <<record, history, feedback,
          totalTriggered, totalSucceeded, totalSkipped>>

-----------------------------------------------------------------------------
(* The policy table: candidate actions per scenario, preferred first. *)
ActionPolicy ==
  [nrf_crash   |-> <<"restart_pod", "notify_operator">>,
   amf_crash   |-> <<"restart_pod", "scale_deployment">>,
   smf_crash   |-> <<"restart_pod", "reroute_traffic">>,
   pcf_timeout |-> <<"rollback_config", "restart_pod">>,
   udm_crash   |-> <<"restart_pod", "scale_deployment">>,
   _default    |-> <<"notify_operator">>]

ActionType == {"restart_pod", "scale_deployment", "rollback_config",
               "reroute_traffic", "notify_operator", "no_op"}

SelectAction(scenario, attempt) ==
  LET candidates == IF scenario \in DOMAIN ActionPolicy
                    THEN ActionPolicy[scenario]
                    ELSE ActionPolicy["_default"]
  IN IF attempt < Len(candidates) THEN candidates[attempt + 1]
     ELSE candidates[Len(candidates)]

(* Mutant: lst[:limit]. *)
FirstOf(lst, limit) == IF Len(lst) > limit THEN SubSeq(lst, 1, limit) ELSE lst

(* lst[-limit:], the last limit elements of a list. *)
LastOf(lst, limit) ==
  IF Len(lst) > limit THEN SubSeq(lst, Len(lst) - limit + 1, Len(lst)) ELSE lst

(* outcome_signal: None until the call settles, then 0 or 1. *)
None == -1

Status == {"absent", "executing", "success", "failed", "skipped"}
Record == [status : Status, action : ActionType, outcome : {None, 0, 1}]
Entry  == [request : Requests, outcome : {0, 1}]

Init ==
  /\ record = [r \in Requests |->
                 [status |-> "absent", action |-> "no_op", outcome |-> None]]
  /\ history = <<>>
  /\ feedback = <<>>
  /\ totalTriggered = 0
  /\ totalSucceeded = 0
  /\ totalSkipped = 0
-----------------------------------------------------------------------------
(* trigger_remediation below the gate: the record is appended, untrimmed. *)
Skip(r, score) ==
  /\ record[r].status = "absent"
  /\ score < ConfidenceThreshold
  /\ record' = [record EXCEPT ![r] =
                  [status |-> "skipped", action |-> "no_op", outcome |-> None]]
  /\ history' = Append(history, r)
  /\ totalSkipped' = totalSkipped + 1
  /\ UNCHANGED <<feedback, totalTriggered, totalSucceeded>>

(* trigger_remediation past the gate, up to the await. *)
Trigger(r, scenario, score, attempt) ==
  /\ record[r].status = "absent"
  /\ score >= ConfidenceThreshold
  /\ record' = [record EXCEPT ![r] =
                  [status  |-> "executing",
                   action  |-> SelectAction(scenario, attempt),
                   outcome |-> None]]
  /\ totalTriggered' = totalTriggered + 1
  /\ UNCHANGED <<history, feedback, totalSucceeded, totalSkipped>>

OutcomeSignal(result) == IF result = "success" THEN 1 ELSE 0

(* Mutant: only rewarded actions are reported, and nothing is trimmed. *)
PushRewarded(r, outcome) ==
  IF outcome = 1 THEN feedback' = Append(feedback, [request |-> r, outcome |-> outcome])
  ELSE UNCHANGED feedback

PushFeedback(r, outcome) ==
  feedback' = LastOf(Append(feedback, [request |-> r, outcome |-> outcome]),
                     HistoryLimit)

(* Mutant: counted where the branches meet again. *)
CountAnswer(raised) == totalSucceeded' = totalSucceeded + 1
CountSuccess(raised) ==
  totalSucceeded' = totalSucceeded + (IF raised THEN 0 ELSE 1)

(* Mutant: trimmed first, as if that left room for one more. *)
RetainTrimmedFirst(r) == history' = Append(LastOf(history, HistoryLimit), r)
Retain(r) == history' = LastOf(Append(history, r), HistoryLimit)

(* From the answer of the call to the return of trigger_remediation.  A    *)
(* call that returns without success is still a SUCCESS, with outcome 0.   *)
Settle(r, result) ==
  /\ record[r].status = "executing"
  /\ LET raised == result = "raises"
     IN /\ record' = [record EXCEPT
                        ![r].status  = IF raised THEN "failed" ELSE "success",
                        ![r].outcome = OutcomeSignal(result)]
        /\ CountSuccess(raised)
  /\ PushFeedback(r, OutcomeSignal(result))
  /\ Retain(r)
  /\ UNCHANGED <<totalTriggered, totalSkipped>>

Next ==
  \E r \in Requests :
    \/ \E score \in Scores : Skip(r, score)
    \/ \E scenario \in Scenarios, score \in Scores, attempt \in Attempts :
         Trigger(r, scenario, score, attempt)
    \/ \E result \in CallResults : Settle(r, result)

(* The stubs only sleep, and the event loop resumes every timer that fires. *)
Fairness ==
  \A r \in Requests : WF_vars(\E result \in CallResults : Settle(r, result))

Spec == Init /\ [][Next]_vars /\ Fairness
-----------------------------------------------------------------------------
(* Every variable stays in its type; the feedback buffer is bounded.        *)
TypeOK ==
  /\ record \in [Requests -> Record]
  /\ history \in Seq(Requests)
  /\ feedback \in Seq(Entry)
  /\ Len(feedback) <= HistoryLimit
  /\ totalTriggered \in Nat
  /\ totalSucceeded \in Nat
  /\ totalSkipped \in Nat

WithStatus(S) == {r \in Requests : record[r].status \in S}

(* The counters GET /remediate/stats divides (rae.py:439) always describe   *)
(* the same requests: every triggered call is in flight, succeeded or       *)
(* failed, however the calls in flight interleave.                          *)
CountersAgree ==
  /\ totalTriggered = Cardinality(WithStatus({"executing", "success", "failed"}))
  /\ totalSucceeded = Cardinality(WithStatus({"success"}))
  /\ totalSkipped   = Cardinality(WithStatus({"skipped"}))

(* Only the gate's early return appends without trimming (rae.py:279), so   *)
(* whatever the history holds beyond its limit is a run of skipped records  *)
(* at its end: the next call that settles trims it back to the limit.       *)
OverflowIsSkipped ==
  \A i \in 1..Len(history) :
    i > HistoryLimit => record[history[i]].status = "skipped"

(* A record as _push_feedback copies it. *)
EntryOf(r) == [request |-> r, outcome |-> record[r].outcome]

(* The executed records of the history, oldest first, as feedback entries. *)
ExecutedHistory ==
  LET executed[i \in 0..Len(history)] ==
        IF i = 0 THEN <<>>
        ELSE IF record[history[i]].outcome = None THEN executed[i - 1]
        ELSE Append(executed[i - 1], EntryOf(history[i]))
  IN executed[Len(history)]

(* GET /remediate/history and GET /remediate/feedback tell one story: the   *)
(* two lists are trimmed apart, yet the executed records of the history are *)
(* the latest entries of the buffer, same order and outcomes, none twice.   *)
HistoryAgreesWithFeedback ==
  LET n == Len(ExecutedHistory)
      m == Len(feedback)
  IN /\ n <= m
     /\ ExecutedHistory = SubSeq(feedback, m - n + 1, m)
     /\ \A i, j \in 1..m : i # j => feedback[i].request # feedback[j].request

(* Every call past the gate settles and its outcome reaches the buffer the  *)
(* recalibration loop reads (rae.py:315).                                   *)
EveryTriggerReported ==
  \A r \in Requests :
    (record[r].status = "executing") ~>
      (\E i \in 1..Len(feedback) : feedback[i].request = r)
=============================================================================

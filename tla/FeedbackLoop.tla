----------------------------- MODULE FeedbackLoop -----------------------------
(***************************************************************************)
(* The closed loop of Claim 4: remediation outcomes enter the RAE feedback *)
(* buffer (src/api/rae.py) on the event loop, and the analysis pass of     *)
(* pipeline_loop (src/api/frg.py:151-174), in a thread of its own, takes   *)
(* the new ones by an index into that buffer, feeds them to the            *)
(* recalibrator (src/causal/engine/recalibrator.py) and multiplies the     *)
(* weights into the causal graph.  POST /recalibration/reset runs on the   *)
(* event loop, against the pass.  Nothing locks: a step is what one thread *)
(* does between two accesses to state that the other one may change.       *)
(*                                                                         *)
(* Outcomes are numbered in the order _push_feedback appends them.  Weights*)
(* are abstracted to the evidence behind them: for each network function   *)
(* the outcomes its edges' multipliers carry, where no outcome means no    *)
(* key in edge_weights.  A network function stands for one of its edges    *)
(* here: the loops visit them all alike.  Recalibrator.tla has the edges   *)
(* of one, what a reset between them does, and the numbers.  The history   *)
(* keeps a list per fault scenario; here each network function has the one *)
(* scenario that ACTION_POLICY names after it.                             *)
(***************************************************************************)
EXTENDS Integers, Sequences, FiniteSets

CONSTANTS
  NFs,             \* network functions an outcome may be about
  FeedbackLimit,   \* HISTORY_LIMIT, the bound of the feedback buffer
  MinFeedback,     \* RecalibrationConfig.min_feedback_count
  MaxHistory,      \* RecalibrationConfig.max_history_per_edge
  MaxOutcomes,     \* model bound: outcomes reported
  MaxResets        \* model bound: calls of POST /recalibration/reset

ASSUME FeedbackAssumption ==
  /\ IsFiniteSet(NFs)
  /\ FeedbackLimit \in Nat \ {0}
  /\ MinFeedback \in Nat \ {0}
  /\ MaxHistory \in Nat \ {0}
  /\ MaxOutcomes \in Nat
  /\ MaxResets \in Nat

VARIABLES
  log,        \* history variable: the NF of every outcome reported, in order
  buffer,     \* _rae_state.feedback_buffer, as outcome numbers
  serving,    \* where the event loop is: "idle", "trim" or "rewind"
  resets,     \* calls of reset so far
  consumed,   \* state._last_feedback_consumed
  recal,      \* recalibrator.state: weights, history, total_entries_consumed
  graph,      \* the evidence multiplied into the edges of the causal graph
  tick,       \* where the analysis pass is
  snapshot,   \* feedback_buf of the pass
  batch,      \* new_entries of the pass
  todo,       \* the keys a loop over the weights has still to visit
  rest,       \* the entries the loop over the batch has still to visit
  held,       \* the key and the weight read and not yet written back
  kept,       \* the end of a history, cut and not yet stored
  ingested,   \* history variable: outcomes ingested since the last rewind
  learned,    \* history variable: outcomes ever ingested
  passedOver, \* history variable: outcomes in a batch that was too short
  carried     \* history variable: the list that a trim held at the last reset

eventLoop == <<log, buffer, serving, resets, carried>>
pass      == <<tick, snapshot, batch, todo, rest, held, kept, learned, passedOver>>
vars      == <<eventLoop, consumed, recal, graph, pass, ingested>>

Outcomes == 1..Len(log)
Window(lst, from) == SubSeq(lst, from + 1, Len(lst))      \* lst[from:]
FirstOf(lst, limit) == IF Len(lst) > limit THEN SubSeq(lst, 1, limit)
                                           ELSE lst       \* mutant: lst[:limit]
LastOf(lst, limit) == IF Len(lst) > limit THEN Window(lst, Len(lst) - limit)
                                          ELSE lst
Neutral == [weights |-> [nf \in NFs |-> {}], history |-> [nf \in NFs |-> <<>>],
            counted |-> 0]
NoKey   == [nf |-> CHOOSE nf \in NFs : TRUE, weight |-> {}]

Init ==
  /\ log = <<>> /\ buffer = <<>> /\ serving = "idle"
  /\ resets = 0
  /\ consumed = 0
  /\ recal = Neutral
  /\ graph = [nf \in NFs |-> {}]
  /\ tick = "idle" /\ snapshot = <<>> /\ batch = <<>>
  /\ todo = {} /\ rest = <<>> /\ held = NoKey /\ kept = <<>>
  /\ ingested = {} /\ learned = {} /\ passedOver = {}
  /\ carried = <<>>
-----------------------------------------------------------------------------
(* The event loop. *)

(* _push_feedback up to the append; the buffer may be one over its bound. *)
AppendOutcome(nf) ==
  /\ serving = "idle"
  /\ Len(log) < MaxOutcomes
  /\ log' = Append(log, nf)
  /\ buffer' = Append(buffer, Len(log) + 1)
  /\ serving' = "trim"
  /\ UNCHANGED <<resets, carried, consumed, recal, graph, pass, ingested>>

TrimBuffer ==
  /\ serving = "trim"
  /\ buffer' = LastOf(buffer, FeedbackLimit)
  /\ serving' = "idle"
  /\ UNCHANGED <<log, resets, carried, consumed, recal, graph, pass, ingested>>

(* reset_recalibration: first a new state object, then the index. *)
ResetState ==
  /\ serving = "idle"
  /\ resets < MaxResets
  /\ resets' = resets + 1
  /\ recal' = Neutral
  /\ carried' = IF tick = "replace" THEN kept ELSE <<>>
  /\ serving' = "rewind"
  /\ UNCHANGED <<log, buffer, consumed, graph, pass, ingested>>

ResetIndex ==
  /\ serving = "rewind"
  /\ consumed' = 0
  /\ ingested' = {}
  /\ serving' = "idle"
  /\ UNCHANGED <<log, buffer, resets, carried, recal, graph, pass>>
-----------------------------------------------------------------------------
(* The recalibration part of an analysis pass, in the pipeline thread. *)

TakeSnapshot ==
  /\ tick = "idle"
  /\ snapshot' = buffer
  /\ tick' = "slice"
  /\ UNCHANGED <<eventLoop, consumed, recal, graph, batch, todo, rest, held,
                 kept, ingested, learned, passedOver>>

AllEntries == snapshot                  \* mutant: the index is not used
NewEntries == Window(snapshot, consumed)

(* new_entries, and the test at the head of recalibrate that skips a short *)
(* batch: the index is advanced all the same.                              *)
Slice ==
  /\ tick = "slice"
  /\ LET new == NewEntries
     IN /\ batch' = new
        /\ passedOver' = passedOver \cup
             (IF Len(new) < MinFeedback THEN {new[i] : i \in 1..Len(new)} ELSE {})
        /\ tick' = IF new = <<>> THEN "idle"
                   ELSE IF Len(new) < MinFeedback THEN "passOver" ELSE "keys"
  /\ UNCHANGED <<eventLoop, consumed, recal, graph, snapshot, todo, rest, held,
                 kept, ingested, learned>>

(* _apply_decay: list the keys, then read and write back one after another. *)
DecayKeys ==
  /\ tick = "keys"
  /\ todo' = {nf \in NFs : recal.weights[nf] # {}}
  /\ tick' = "decay"
  /\ UNCHANGED <<eventLoop, consumed, recal, graph, snapshot, batch, rest, held,
                 kept, ingested, learned, passedOver>>

(* A key that a reset has taken away raises KeyError: the tick is given up *)
(* (frg.py:173) before the index moves.                                    *)
DecayRead(nf) ==
  /\ tick = "decay" /\ nf \in todo
  /\ held' = [nf |-> nf, weight |-> recal.weights[nf]]
  /\ tick' = IF recal.weights[nf] = {} THEN "idle" ELSE "fade"
  /\ todo' = todo \ {nf}
  /\ UNCHANGED <<eventLoop, consumed, recal, graph, snapshot, batch, rest,
                 kept, ingested, learned, passedOver>>

DecayWrite ==
  /\ tick = "fade"
  /\ recal' = [recal EXCEPT !.weights[held.nf] = held.weight]
  /\ tick' = "decay"
  /\ UNCHANGED <<eventLoop, consumed, graph, snapshot, batch, todo, rest, held,
                 kept, ingested, learned, passedOver>>

(* From here on nothing can raise: the batch counts as ingested. *)
DecayDone ==
  /\ tick = "decay" /\ todo = {}
  /\ rest' = batch
  /\ ingested' = ingested \cup {batch[i] : i \in 1..Len(batch)}
  /\ learned' = learned \cup {batch[i] : i \in 1..Len(batch)}
  /\ tick' = "process"
  /\ UNCHANGED <<eventLoop, consumed, recal, graph, snapshot, batch, todo, held,
                 kept, passedOver>>

(* feedback_history[scenario].append(entry). *)
AppendEntry ==
  /\ tick = "process" /\ rest # <<>>
  /\ recal' = [recal EXCEPT !.history[log[Head(rest)]] = Append(@, Head(rest))]
  /\ tick' = "cut"
  /\ UNCHANGED <<eventLoop, consumed, graph, snapshot, batch, todo, rest, held,
                 kept, ingested, learned, passedOver>>

(* A history over its bound is sliced ... (A reset between the test of its  *)
(* length and the slice makes the slice empty, and storing that changes     *)
(* nothing: the two reads are one step.)                                    *)
CutHistory ==
  /\ tick = "cut"
  /\ LET lst == recal.history[log[Head(rest)]]
     IN IF Len(lst) > MaxHistory
        THEN /\ kept' = LastOf(lst, MaxHistory)
             /\ tick' = "replace"
             /\ UNCHANGED rest
        ELSE /\ rest' = Tail(rest)
             /\ tick' = "process"
             /\ UNCHANGED kept
  /\ UNCHANGED <<eventLoop, consumed, recal, graph, snapshot, batch, todo, held,
                 ingested, learned, passedOver>>

(* ... and the slice is stored in what self.state is then.                  *)
ReplaceHistory ==
  /\ tick = "replace"
  /\ recal' = [recal EXCEPT !.history[log[Head(rest)]] = kept]
  /\ kept' = <<>>
  /\ rest' = Tail(rest)
  /\ tick' = "process"
  /\ UNCHANGED <<eventLoop, consumed, graph, snapshot, batch, todo, held,
                 ingested, learned, passedOver>>

ProcessDone ==
  /\ tick = "process" /\ rest = <<>>
  /\ todo' = {log[batch[i]] : i \in 1..Len(batch)}
  /\ tick' = "adjust"
  /\ UNCHANGED <<eventLoop, consumed, recal, graph, snapshot, batch, rest, held,
                 kept, ingested, learned, passedOver>>

AdjustRead(nf) ==
  /\ tick = "adjust" /\ nf \in todo
  /\ held' = [nf |-> nf, weight |-> recal.weights[nf]]
  /\ todo' = todo \ {nf}
  /\ tick' = "set"
  /\ UNCHANGED <<eventLoop, consumed, recal, graph, snapshot, batch, rest,
                 kept, ingested, learned, passedOver>>

AllIn(nf, entries) == {entries[i] : i \in 1..Len(entries)}        \* mutant
AboutIn(nf, entries) == {entries[i] : i \in {j \in 1..Len(entries) : log[entries[j]] = nf}}

(* Mutant: the multiplier is set, not moved. *)
AdjustOverwrite ==
  /\ tick = "set"
  /\ recal' = [recal EXCEPT !.weights[held.nf] = AboutIn(held.nf, batch)]
  /\ tick' = "adjust"
  /\ UNCHANGED <<eventLoop, consumed, graph, snapshot, batch, todo, rest, held,
                 kept, ingested, learned, passedOver>>

AdjustWrite ==
  /\ tick = "set"
  /\ recal' = [recal EXCEPT !.weights[held.nf] =
                 held.weight \cup AboutIn(held.nf, batch)]
  /\ tick' = "adjust"
  /\ UNCHANGED <<eventLoop, consumed, graph, snapshot, batch, todo, rest, held,
                 kept, ingested, learned, passedOver>>

CountEntries ==
  /\ tick = "adjust" /\ todo = {}
  /\ recal' = [recal EXCEPT !.counted = @ + Len(batch)]
  /\ tick' = "advance"
  /\ UNCHANGED <<eventLoop, consumed, graph, snapshot, batch, todo, rest, held,
                 kept, ingested, learned, passedOver>>

(* Mutants: the live buffer is measured; a short batch leaves the index. *)
MeasureLive == consumed' = Len(buffer)
MeasureProcessed ==
  consumed' = IF tick = "advance" THEN Len(snapshot) ELSE consumed

(* The index is set to the length of the snapshot, not moved by the batch. *)
Measure == consumed' = Len(snapshot)

Advance ==
  /\ tick \in {"advance", "passOver"}
  /\ Measure
  /\ tick' = IF tick = "advance" THEN "apply" ELSE "idle"
  /\ UNCHANGED <<eventLoop, recal, graph, snapshot, batch, todo, rest, held,
                 kept, ingested, learned, passedOver>>

ApplyRecalibration ==
  /\ tick = "apply"
  /\ graph' = [nf \in NFs |-> graph[nf] \cup recal.weights[nf]]
  /\ tick' = "idle"
  /\ UNCHANGED <<eventLoop, consumed, recal, snapshot, batch, todo, rest, held,
                 kept, ingested, learned, passedOver>>

EventLoop ==
  \/ \E nf \in NFs : AppendOutcome(nf)
  \/ TrimBuffer
  \/ ResetState
  \/ ResetIndex

Pipeline ==
  \/ TakeSnapshot \/ Slice
  \/ DecayKeys \/ DecayWrite \/ DecayDone
  \/ AppendEntry \/ CutHistory \/ ReplaceHistory \/ ProcessDone
  \/ AdjustWrite \/ CountEntries
  \/ Advance \/ ApplyRecalibration
  \/ \E nf \in NFs : DecayRead(nf) \/ AdjustRead(nf)

Next == EventLoop \/ Pipeline

(* pipeline_loop never ends while the service runs: every exception of a    *)
(* pass is caught and the loop goes on; and the event loop finishes a       *)
(* handler it has begun, for it awaits nothing between its steps.           *)
Fairness == WF_vars(Pipeline) /\ WF_vars(TrimBuffer \/ ResetIndex)

Spec == Init /\ [][Next]_vars /\ Fairness
-----------------------------------------------------------------------------
(* Outcomes that have been cut off the front of the buffer. *)
Dropped == Len(log) - Len(buffer)

(* rae.py:224-227: the buffer is the latest outcomes, in order, and only    *)
(* between the append and the trim is it longer than its bound, by one.     *)
BufferIsLatest ==
  /\ Len(buffer) <= FeedbackLimit + (IF serving = "trim" THEN 1 ELSE 0)
  /\ \A i \in 1..Len(buffer) : buffer[i] = Dropped + i

(* However the pass, the reports and a reset interleave, the recalibrator   *)
(* ingests the outcomes in order and none twice between two rewinds of the  *)
(* index, although the buffer under that index is cut from the front.       *)
Abstract == INSTANCE OutcomeLog WITH reported <- Len(log)
IngestsInOrderOnce == Abstract!Spec

(* Between two passes the parts of the recalibrator's state agree: what its *)
(* history holds is in the weights and in total_entries_consumed.  A reset  *)
(* may replace the state object in the middle of recalibrate, which then    *)
(* finishes on the new one (recalibrator.py:154-175): it may leave weights  *)
(* and counts without history, and history without weights only in one way. *)
(* A trim reads self.state for the slice and again for the place it stores  *)
(* it in (161-162); a reset between the two leaves that one list behind.    *)
HistoryIsInWeights ==
  tick = "idle" =>
    \A nf \in NFs :
      /\ Len(recal.history[nf]) <= recal.counted + Len(carried)
      /\ \A i \in 1..Len(recal.history[nf]) :
           \/ recal.history[nf][i] \in recal.weights[nf]
           \/ \E j \in 1..Len(carried) : recal.history[nf][i] = carried[j]

(* Evidence is filed under the network function it is about, in the weights *)
(* and in the graph, even when a decay or an adjustment writes back a value *)
(* that it read before a reset; and none is of a batch that was skipped or  *)
(* given up.                                                                *)
EvidenceAttribution ==
  \A nf \in NFs : \A n \in recal.weights[nf] \cup graph[nf] :
    log[n] = nf /\ n \in learned

(* frg.py:152: until the buffer first overflows, the index passes over no   *)
(* outcome but those that were learned from and those of a batch below      *)
(* min_feedback_count (recalibrator.py:142), which is skipped for good; in  *)
(* particular it does not pass over a batch that was given up by KeyError.  *)
LearnedOrTooFew ==
  Dropped = 0 => \A i \in 1..Len(buffer) :
                   i <= consumed => buffer[i] \in learned \cup passedOver

(* Comment at frg.py:152: consume any new RAE feedback entries since the    *)
(* last cycle.  No outcome below the index was left out of every batch.     *)
EveryOutcomeOffered ==
  \A i \in 1..Len(buffer) : i <= consumed => buffer[i] \in learned \cup passedOver

(* The pipeline keeps up: whatever is beyond the index, the index reaches   *)
(* the end of the buffer again, also when a tick fails and is taken again.  *)
IndexCatchesUp == (consumed < Len(buffer)) ~> (consumed >= Len(buffer))
=============================================================================

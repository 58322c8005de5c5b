----------------------------- MODULE Recalibrator -----------------------------
(***************************************************************************)
(* The numbers of the recalibration: the edge multipliers that             *)
(* GrangerPCFusionRecalibrator (src/causal/engine/recalibrator.py) moves   *)
(* with the remediation outcomes, and the edge weights of the causal graph *)
(* (src/causal/graph/dcgm.py) that Granger links blend and multipliers     *)
(* scale.  The analysis pass runs both one after the other in the pipeline *)
(* thread; POST /recalibration/reset runs on the event loop, against it.   *)
(* Nothing locks, and self.state is read anew for each access: a step is   *)
(* what the pass does between two accesses to it, edge by edge.  The loops *)
(* visit the edges in some order (the code: in the order of insertion).    *)
(* FeedbackLoop has the index, the skipped batches and the history.        *)
(*                                                                         *)
(* Weights are fixed-point numbers in ten-thousandths, the precision the   *)
(* graph rounds to.  The multipliers of the code are doubles: Fade rounds  *)
(* toward neutral where the double keeps a fraction.                       *)
(***************************************************************************)
EXTENDS Integers, Sequences, FiniteSets

CONSTANTS
  NFs,           \* the network functions outcomes and links are about
  LearningRate,  \* RecalibrationConfig.learning_rate
  WeightFloor,   \* RecalibrationConfig.weight_floor
  WeightCeiling, \* RecalibrationConfig.weight_ceiling
  MinFeedback,   \* RecalibrationConfig.min_feedback_count
  Confidences,   \* 1 - p_value of the links Granger analysis reports
  MaxBatch,      \* model bound: entries in one batch
  MaxCycles,     \* model bound: recalibrations
  MaxLinks,      \* model bound: Granger links
  MaxResets      \* model bound: calls of reset

One == 10000

ASSUME RecalibratorAssumption ==
  /\ LearningRate \in Nat /\ LearningRate % 2 = 0
  /\ WeightFloor \in 1..One
  /\ WeightCeiling \in Nat /\ WeightCeiling >= One
  /\ MinFeedback \in Nat \ {0}
  /\ \A c \in Confidences : c \in Nat /\ 9500 <= c /\ c <= One
  /\ MaxBatch \in Nat /\ MaxCycles \in Nat /\ MaxLinks \in Nat /\ MaxResets \in Nat

VARIABLES
  weights,   \* recalibrator.state.edge_weights, a dict keyed by edges
  cycles,    \* recalibrator.state.cycle_count
  counted,   \* recalibrator.state.total_entries_consumed
  graph,     \* the weight attribute of the edges of dcgm.graph
  tick,      \* where the pass is
  batch,     \* entries of the recalibration under way
  todo,      \* the edges a loop over edges has still to visit
  held,      \* the edge and the weight read and not yet written back
  torn,      \* history variable: NFs the last reset found between two edges
  carried,   \* history variable: the edge whose weight it found held
  credited,  \* history variable: NFs some ingested success is about
  blamed,    \* history variable: NFs some ingested failure is about
  steps      \* what the model bounds count

recal    == <<weights, cycles, counted>>
pass     == <<tick, batch, todo, held>>
evidence == <<torn, carried, credited, blamed>>
vars     == <<recal, graph, pass, evidence, steps>>

-----------------------------------------------------------------------------
(* The topology of _edges_from_nf. *)
NFOutgoing ==
  [nrf  |-> {"amf", "smf", "pcf", "udm", "upf"},
   ausf |-> {"amf"},
   udr  |-> {"udm"},
   amf  |-> {"smf"},
   smf  |-> {"upf", "pcf"},
   pcf  |-> {"smf"},
   udm  |-> {"amf"},
   upf  |-> {}]

Outgoing(nf) == IF nf \in DOMAIN NFOutgoing
                THEN {<<nf, target>> : target \in NFOutgoing[nf]} ELSE {}

(* Mutant: the edges into the NF as well. *)
EdgesTouching(nf) ==
  Outgoing(nf) \cup {<<nf, nf>>} \cup
  {<<cause, nf>> : cause \in {c \in DOMAIN NFOutgoing : nf \in NFOutgoing[c]}}

(* What _process_entry adjusts: the outgoing edges and the self edge. *)
EdgesFrom(nf) == Outgoing(nf) \cup {<<nf, nf>>}

Entry   == [nf : NFs, outcome : {0, 1}]
Batches == UNION {[1..n -> Entry] : n \in 1..MaxBatch}

(* Mutant: the difference from neutral taken the other way round. *)
FadeReflected(w) == One + (9 * (One - w)) \div 10

(* _apply_decay: neutral plus nine tenths of the distance from it. *)
Fade(w) ==
  IF w >= One THEN One + (9 * (w - One)) \div 10
              ELSE One - (9 * (One - w)) \div 10

About(entries, nf, outcome) ==
  {i \in 1..Len(entries) : entries[i] = [nf |-> nf, outcome |-> outcome]}

(* The network functions that some entry with this outcome is about. *)
Blames(entries, outcome) ==
  {entries[i].nf : i \in {j \in 1..Len(entries) : entries[j].outcome = outcome}}

(* Mutant: the outcome signal is read the other way round. *)
DeltaReversed(entries, edge) ==
  LET rate == IF edge[1] = edge[2] THEN LearningRate \div 2 ELSE LearningRate
  IN rate * (Cardinality(About(entries, edge[1], 0))
             - Cardinality(About(entries, edge[1], 1)))

(* The adjustment an edge accumulates over a batch; half for a self edge. *)
Delta(entries, edge) ==
  LET rate == IF edge[1] = edge[2] THEN LearningRate \div 2 ELSE LearningRate
  IN rate * (Cardinality(About(entries, edge[1], 1))
             - Cardinality(About(entries, edge[1], 0)))

Between(low, w, high) == IF w < low THEN low ELSE IF w > high THEN high ELSE w

ClampAbove(w) == IF w > WeightCeiling THEN WeightCeiling ELSE w    \* mutant
Clamp(w) == Between(WeightFloor, w, WeightCeiling)

(* edge_weights.get(edge, 1.0), and edge_weights[edge] = w. *)
Get(edge)    == IF edge \in DOMAIN weights THEN weights[edge] ELSE One
Put(edge, w) == [e \in DOMAIN weights \cup {edge} |-> IF e = edge THEN w ELSE weights[e]]

NotHeld == [edge |-> <<>>, weight |-> One]

(* The edge at hand, if any, and what the adjustment has still to write. *)
HeldEdge  == IF tick \in {"fade", "set"} THEN {held.edge} ELSE {}
Unwritten == IF tick \in {"adjust", "set"} THEN todo \cup HeldEdge ELSE {}
-----------------------------------------------------------------------------
(* The 3GPP dependency priors at three tenths, as the graph is seeded. *)
Priors ==
  LET prior(src, dst, w) == <<<<src, dst>>, w>>
  IN { prior("nrf", "amf", 2700), prior("nrf", "smf", 2700),
       prior("nrf", "pcf", 2700), prior("nrf", "udm", 2700),
       prior("nrf", "ausf", 2700), prior("nrf", "nssf", 2700),
       prior("amf", "smf", 2400), prior("amf", "ausf", 2100),
       prior("udm", "ausf", 2400), prior("udm", "udr", 2700),
       prior("smf", "pcf", 2100), prior("smf", "udm", 1800) }

PriorWeight(edge) == (CHOOSE p \in Priors : p[1] = edge)[2]

WeightMin == 500       \* _WEIGHT_MIN of apply_recalibration
WeightMax == 50000     \* _WEIGHT_MAX

(* round(numerator / denominator, 4) of fixed-point numbers. *)
Round(numerator, denominator) ==
  (2 * numerator + denominator) \div (2 * denominator)

ScaledUnclamped(w, multiplier) == Round(w * multiplier, One)         \* mutant
Scaled(w, multiplier) ==
  Between(WeightMin, Round(w * multiplier, One), WeightMax)

Init ==
  /\ weights = <<>>
  /\ cycles = 0 /\ counted = 0
  /\ graph = [edge \in {p[1] : p \in Priors} |-> PriorWeight(edge)]
  /\ tick = "idle" /\ batch = <<>> /\ todo = {} /\ held = NotHeld
  /\ torn = {} /\ carried = {} /\ credited = {} /\ blamed = {}
  /\ steps = [cycles |-> 0, links |-> 0, resets |-> 0]

(* One link of update_from_granger: blended with the weight, or a new edge. *)
BlendLink(edge, confidence) ==
  /\ tick = "idle"
  /\ edge[1] # edge[2]
  /\ graph' = [e \in DOMAIN graph \cup {edge} |->
                 IF e # edge THEN graph[e]
                 ELSE IF edge \in DOMAIN graph
                      THEN Round(6 * graph[edge] + 4 * confidence, 10)
                      ELSE confidence]
  /\ steps.links < MaxLinks
  /\ steps' = [steps EXCEPT !.links = @ + 1]
  /\ UNCHANGED <<recal, pass, evidence>>

(* recalibrate, which skips a short batch; _apply_decay lists the keys. *)
Begin(entries) ==
  /\ tick = "idle"
  /\ Len(entries) >= MinFeedback
  /\ batch' = entries
  /\ todo' = DOMAIN weights
  /\ tick' = "decay"
  /\ steps.cycles < MaxCycles
  /\ steps' = [steps EXCEPT !.cycles = @ + 1]
  /\ UNCHANGED <<recal, graph, held, evidence>>

(* A key that a reset has taken away raises KeyError, and ends the pass. *)
DecayRead(edge) ==
  /\ tick = "decay" /\ edge \in todo
  /\ IF edge \in DOMAIN weights
     THEN /\ held' = [edge |-> edge, weight |-> weights[edge]]
          /\ todo' = todo \ {edge}
          /\ tick' = "fade"
          /\ UNCHANGED batch
     ELSE /\ tick' = "idle" /\ batch' = <<>> /\ todo' = {}
          /\ UNCHANGED held
  /\ UNCHANGED <<recal, graph, evidence, steps>>

DecayWrite ==
  /\ tick = "fade"
  /\ weights' = Put(held.edge, Fade(held.weight))
  /\ held' = NotHeld
  /\ tick' = "decay"
  /\ UNCHANGED <<cycles, counted, graph, batch, todo, evidence, steps>>

(* The adjustments are accumulated; from here on nothing can raise, and the *)
(* batch counts as ingested.                                                *)
DecayDone ==
  /\ tick = "decay" /\ todo = {}
  /\ todo' = UNION {EdgesFrom(batch[i].nf) : i \in 1..Len(batch)}
  /\ tick' = "adjust"
  /\ credited' = credited \cup Blames(batch, 1)
  /\ blamed' = blamed \cup Blames(batch, 0)
  /\ UNCHANGED <<recal, graph, batch, held, torn, carried, steps>>

AdjustRead(edge) ==
  /\ tick = "adjust" /\ edge \in todo
  /\ held' = [edge |-> edge, weight |-> Get(edge)]
  /\ todo' = todo \ {edge}
  /\ tick' = "set"
  /\ UNCHANGED <<recal, graph, batch, evidence, steps>>

AdjustWrite ==
  /\ tick = "set"
  /\ weights' = Put(held.edge, Clamp(held.weight + Delta(batch, held.edge)))
  /\ held' = NotHeld
  /\ tick' = "adjust"
  /\ UNCHANGED <<cycles, counted, graph, batch, todo, evidence, steps>>

CountCycle ==
  /\ tick = "adjust" /\ todo = {}
  /\ cycles' = cycles + 1
  /\ tick' = "count"
  /\ UNCHANGED <<weights, counted, graph, batch, todo, held, evidence, steps>>

CountEntries ==
  /\ tick = "count"
  /\ counted' = counted + Len(batch)
  /\ batch' = <<>>
  /\ tick' = "apply"
  /\ UNCHANGED <<weights, cycles, graph, todo, held, evidence, steps>>

(* apply_recalibration of a copy of the weights: self edges and edges the   *)
(* graph lacks are passed over; every other tracked edge is scaled, moved   *)
(* by this batch or not.                                                    *)
ApplyRecalibration ==
  /\ tick = "apply"
  /\ graph' = [edge \in DOMAIN graph |->
                 IF edge \in DOMAIN weights /\ edge[1] # edge[2]
                 THEN Scaled(graph[edge], weights[edge]) ELSE graph[edge]]
  /\ tick' = "idle"
  /\ UNCHANGED <<recal, batch, todo, held, evidence, steps>>

(* POST /recalibration/reset, at any point of the pass, which goes on with  *)
(* the new state.  The graph keeps the weights it has.                      *)
Reset ==
  /\ weights' = <<>>
  /\ cycles' = 0 /\ counted' = 0
  /\ torn' = {e[1] : e \in HeldEdge \cup {x \in Unwritten : ~ (EdgesFrom(x[1]) \subseteq todo)}}
  /\ carried' = HeldEdge
  /\ credited' = Blames(batch, 1) \cap {e[1] : e \in Unwritten}
  /\ blamed' = Blames(batch, 0) \cap {e[1] : e \in Unwritten}
  /\ steps.resets < MaxResets
  /\ steps' = [steps EXCEPT !.resets = @ + 1]
  /\ UNCHANGED <<graph, pass>>

Next ==
  \/ \E edge \in NFs \X NFs, confidence \in Confidences : BlendLink(edge, confidence)
  \/ \E entries \in Batches : Begin(entries)
  \/ \E edge \in todo : DecayRead(edge) \/ AdjustRead(edge)
  \/ DecayWrite \/ DecayDone
  \/ AdjustWrite \/ CountCycle \/ CountEntries
  \/ ApplyRecalibration
  \/ Reset

Spec == Init /\ [][Next]_vars
-----------------------------------------------------------------------------
(* A multiplier is within its configured bounds after any sequence of       *)
(* batches, also one no batch has moved since its decay, and one that was   *)
(* read before a reset (recalibrator.py:167, 242: only the adjustment       *)
(* clamps).                                                                 *)
MultipliersBounded ==
  \A e \in DOMAIN weights : WeightFloor <= weights[e] /\ weights[e] <= WeightCeiling

(* The outgoing edges of a network function are adjusted as one             *)
(* (recalibrator.py:262-271): outside the loops they are tracked all or     *)
(* none, and equal, also when the bounds cut them.  A reset between two     *)
(* edges of a network function tears them apart, of that one and no other,  *)
(* until the next reset.                                                    *)
SiblingsMoveAsOne ==
  tick \in {"idle", "count", "apply"} =>
    \A e \in DOMAIN weights : e[1] \notin torn =>
      /\ EdgesFrom(e[1]) \subseteq DOMAIN weights
      /\ \A f \in DOMAIN weights :
           f[1] = e[1] /\ e[1] # e[2] /\ f[1] # f[2] => weights[e] = weights[f]

(* An edge is reinforced only where some success, and penalised only where  *)
(* some failure, was attributed to its cause in a batch written since the   *)
(* last reset: decay never carries a weight over neutral, nor one edge's    *)
(* batch to another.  The one exception is the edge that was between its    *)
(* read and its write (recalibrator.py:166-169, 240-242) when the reset     *)
(* came: it brings its old weight into the new state.                       *)
DirectionNeedsEvidence ==
  \A e \in DOMAIN weights \ carried :
    /\ weights[e] > One => e[1] \in credited
    /\ weights[e] < One => e[1] \in blamed

(* dcgm.py:156: the graph stays in the safe range although each             *)
(* recalibration multiplies into what the earlier ones left, and Granger    *)
(* links blend in between.                                                  *)
GraphBounded ==
  \A e \in DOMAIN graph : WeightMin <= graph[e] /\ graph[e] <= WeightMax

(* Applying multipliers weakens an edge of the graph only when a failed     *)
(* remediation was attributed to its cause since the last reset, or when    *)
(* it is the one edge whose weight was held across that reset.              *)
WeakenedOnlyByFailure ==
  [][tick = "apply" /\ tick' = "idle" =>
       \A e \in DOMAIN graph :
         graph'[e] < graph[e] => e[1] \in blamed \/ e \in carried]_vars
=============================================================================

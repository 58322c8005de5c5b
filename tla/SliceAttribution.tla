--------------------------- MODULE SliceAttribution ---------------------------
(***************************************************************************)
(* The attribution of a fault to slices,                                   *)
(* src/causal5g/causal/slice_ensemble.py, as the pipeline thread runs it,  *)
(* while the handlers of src/api/slice_router.py change the registry of    *)
(* slices on the event loop.                                               *)
(*                                                                         *)
(* The attributor takes a list of the slices first and prunes the graph of *)
(* each in a step of its own, for which the registry is read again.        *)
(***************************************************************************)
EXTENDS SliceTopology

CONSTANTS
    SliceIds,
    NFSets,          \* what a registration may carry; the empty set is none
    DefaultConfigs,  \* slice -> its NFs, for those there from the start
    Faulty,          \* NFs the scoring may name
    LiveEdges,       \* sets of edges a caller may pass
    NoEdges          \* no edges passed (dag_edges is None)

ASSUME SliceAssumption ==
    /\ DOMAIN DefaultConfigs \subseteq SliceIds
    /\ \A s \in DOMAIN DefaultConfigs : DefaultConfigs[s] \subseteq SliceSpecificNFs
    /\ \A S \in NFSets : S \subseteq SliceSpecificNFs
    /\ \A edges \in LiveEdges : IsFiniteSet(edges)

VARIABLES
    slices,       \* _slices: slice -> its NFs
    attribution   \* the attribution under way, or the last

sliceVars == <<slices, attribution>>

(* changed: history, the slices registered anew or removed since it began. *)
NoAttribution ==
    [stage |-> "none", nf |-> "", live |-> NoEdges, listed |-> <<>>, results |-> <<>>,
     changed |-> {}, verdict |-> ""]

InitSlices == slices = DefaultConfigs /\ attribution = NoAttribution

Marked(s) ==
    IF attribution.stage = "pruning" THEN [attribution EXCEPT !.changed = @ \cup ({s} \cap DOMAIN attribution.listed)]
    ELSE attribution

(* An empty list is no list, and stands for all the NFs of a slice. *)
Register(s, nfs) ==
    /\ LET config == IF nfs = {} THEN SliceSpecificNFs ELSE nfs
       IN  slices' = [id \in DOMAIN slices \cup {s} |-> IF id = s THEN config ELSE slices[id]]
    /\ attribution' = Marked(s)

RemoveSlice(s) ==
    /\ s \in DOMAIN slices
    /\ slices' = [id \in DOMAIN slices \ {s} |-> slices[id]]
    /\ attribution' = Marked(s)

(* attribute *)
Attribute(nf, live) ==
    /\ attribution.stage # "pruning"
    /\ attribution' = [NoAttribution EXCEPT
                         !.stage = IF slices = <<>> THEN "done" ELSE "pruning",
                         !.verdict = IF slices = <<>> THEN "no-slices" ELSE "",
                         !.nf = nf, !.live = live, !.listed = slices]
    /\ UNCHANGED slices

(* The attribution with what pruning the base graph says of a slice. *)
WithResult(s, base) ==
    LET edges == IF attribution.live = NoEdges THEN DOMAIN base.weight ELSE attribution.live
        pruned == Prune(base, attribution.nf, edges)
        result == [present |-> attribution.nf \in ActiveNFs(attribution.listed[s]),
                   nodes |-> pruned.nodes, weight |-> pruned.weight]
    IN  [attribution EXCEPT
           !.results = [d \in DOMAIN attribution.results \cup {s} |->
                          IF d = s THEN result ELSE attribution.results[d]]]

\* mutant: the graph of the whole network is pruned for each slice
PruneGlobal(s) ==
    /\ attribution.stage = "pruning"
    /\ s \in DOMAIN attribution.listed \ DOMAIN attribution.results
    /\ attribution' = WithResult(s, GlobalGraph)
    /\ UNCHANGED slices

PruneSlice(s) ==
    /\ attribution.stage = "pruning"
    /\ s \in DOMAIN attribution.listed \ DOMAIN attribution.results
    /\ attribution' = WithResult(s, IF s \in DOMAIN slices THEN SliceGraph(slices[s]) ELSE GlobalGraph)
    /\ UNCHANGED slices

Affected == {s \in DOMAIN attribution.results : attribution.results[s].present}

Conclude ==
    /\ attribution.stage = "pruning"
    /\ DOMAIN attribution.results = DOMAIN attribution.listed
    /\ attribution' = [attribution EXCEPT
                         !.stage = "done",
                         !.verdict = IF attribution.nf \in SharedNFs THEN "infrastructure-wide"
                                     ELSE IF Affected # DOMAIN attribution.listed
                                     THEN "slice-isolated" ELSE "all-slice-nf"]
    /\ UNCHANGED slices

NextSlices ==
    \/ \E s \in SliceIds, nfs \in NFSets \cup {{}} : Register(s, nfs)
    \/ \E s \in SliceIds : RemoveSlice(s)
    \/ \E nf \in Faulty, live \in LiveEdges \cup {NoEdges} : Attribute(nf, live)
    \/ \E s \in SliceIds : PruneSlice(s)
    \/ Conclude

SliceSpec == InitSlices /\ [][NextSlices]_sliceVars

-----------------------------------------------------------------------------
(* What belongs to an NF's causes, by their definition: the least set that
   has the causes of the NF and of its members. *)
LeastCauses(nf, edges) ==
    {x \in {e[1] : e \in edges} :
       \A S \in SUBSET {e[1] : e \in edges} : CausesOf({nf} \cup S, edges) \subseteq S => x \in S}

(* The result for a slice that has not been changed since the attribution
   began.  Its nodes are the NF and all its causes, along the topology of the
   slice or the edges passed; with the topology, none of them but the NF
   itself is one that the leakage check would blame on another slice, and the
   path is empty where the NF is said not to be present.  For a slice that
   was changed, presence is that of the old configuration and the path that of
   the new, or of the whole network if the slice was removed. *)
ResultsAreOfTheSlice ==
    \A s \in DOMAIN attribution.results \ attribution.changed :
      LET r == attribution.results[s]
          config == attribution.listed[s]
          nf == attribution.nf
          edges == IF attribution.live = NoEdges THEN DOMAIN SliceGraph(config).weight
                   ELSE attribution.live
      IN  /\ r.nodes = {nf} \cup LeastCauses(nf, edges)
          /\ attribution.live = NoEdges =>
               /\ \A x \in r.nodes \ {nf} : LeakageClass(x, config) # "out_of_slice"
               /\ ~r.present => DOMAIN r.weight = {}
=============================================================================

---------------------------- MODULE SliceTopology ----------------------------
(***************************************************************************)
(* The causal graphs of network slices, src/causal5g/slice_topology.py: a  *)
(* slice has the NFs it is configured with and those all slices share, and *)
(* a fault is traced back along the edges among them.                      *)
(*                                                                         *)
(* A configuration is the set of a slice's own NFs; its label, type and    *)
(* differentiator follow from its name and are left out.  Edges are        *)
(* <<cause, effect>>; weights are in halves.                               *)
(***************************************************************************)
EXTENDS Naturals, FiniteSets

SharedNFs == {"nrf", "ausf", "udr"}
SliceSpecificNFs == {"amf", "smf", "pcf", "udm", "upf"}

IntraSliceEdges ==
    {<<"amf", "smf">>, <<"smf", "upf">>, <<"pcf", "smf">>, <<"udm", "amf">>, <<"smf", "pcf">>}
CrossSliceEdges ==
    {<<"nrf", nf>> : nf \in SliceSpecificNFs} \cup {<<"ausf", "amf">>, <<"udr", "udm">>}

GlobalGraph ==
    [nodes |-> SharedNFs \cup SliceSpecificNFs,
     weight |-> [edge \in IntraSliceEdges \cup CrossSliceEdges |-> 2]]

ActiveNFs(config) == SharedNFs \cup config

Among(nfs) == {e \in IntraSliceEdges \cup CrossSliceEdges : e[1] \in nfs /\ e[2] \in nfs}

(* build_slice_graph of a slice that is registered. *)
SliceGraph(config) ==
    [nodes |-> ActiveNFs(config),
     weight |-> [edge \in Among(ActiveNFs(config)) |-> IF edge \in IntraSliceEdges THEN 2 ELSE 1]]

CausesOf(S, edges) == {e[1] : e \in {d \in edges : d[2] \in S}}

(* The search of prune_for_fault, by its rounds: what is found in n of them,
   and with every edge used in each, all that leads to the NF. *)
Ancestors(nf, edges) ==
    LET found[n \in 0..Cardinality(edges)] ==
          IF n = 0 THEN {} ELSE found[n - 1] \cup CausesOf({nf} \cup found[n - 1], edges)
    IN  found[Cardinality(edges)]

(* prune_for_fault; live edges, where they are given, replace those of the
   topology, which only keeps its weights. *)
Prune(graph, nf, edges) ==
    LET nodes == {nf} \cup Ancestors(nf, edges)
        kept == {e \in edges : e[1] \in nodes /\ e[2] \in nodes}
    IN  [nodes |-> nodes,
         weight |-> [e \in kept |-> IF e \in DOMAIN graph.weight THEN graph.weight[e] ELSE 2]]

(* detect_cross_slice_leakage, for one candidate of a registered slice. *)
LeakageClass(nf, config) ==
    IF nf \in SharedNFs THEN "shared"
    ELSE IF nf \in config THEN "in_slice" ELSE "out_of_slice"
=============================================================================

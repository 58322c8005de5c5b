------------------------------- MODULE PCRouter -------------------------------
(***************************************************************************)
(* The router of the PC algorithm, src/api/pc_causal.py: two caches, the   *)
(* last PC result and the last fusion of it with Granger edges, and the    *)
(* comparison that is put together from both.                              *)
(*                                                                         *)
(* No handler awaits anything.  A result is any pattern of links over      *)
(* MetricLinks (module PCAlgorithm says which patterns fit can yield); of  *)
(* the posted Granger edges those above the threshold have no effect, so a *)
(* fusion is posted the others.  A request that is refused, for data of    *)
(* unequal length, too few samples or metrics, a fit that raises, or an    *)
(* edge key without an arrow, changes neither cache.                       *)
(***************************************************************************)
EXTENDS Naturals

CONSTANT MetricLinks   \* pairs of metrics that may be linked, one order of each

Flip(arc) == <<arc[2], arc[1]>>
MetricArcs == MetricLinks \cup {Flip(l) : l \in MetricLinks}

ASSUME RouterAssumption ==
    \A l \in MetricLinks : l = <<l[1], l[2]>> /\ l[1] # l[2] /\ Flip(l) \notin MetricLinks

VARIABLES
    pcResult,   \* _last_pc_result: <<>>, or << CPDAG >>
    fusion,     \* _last_fused_edges: <<>>, or << arc -> method >>
    fusedFrom,  \* history: the result the fusion was made from
    posted      \* history: the Granger edges it was made from

routerVars == <<pcResult, fusion, fusedFrom, posted>>

Nothing == <<>>

CPDAGs ==
    {[directed |-> d, undirected |-> u] : d \in SUBSET MetricArcs, u \in SUBSET MetricLinks}
Coherent(r) ==
    \A l \in MetricLinks : \lnot {l, Flip(l)} \subseteq r.directed
                           /\ (l \in r.undirected => {l, Flip(l)} \cap r.directed = {})

InitRouter == pcResult = Nothing /\ fusion = Nothing /\ fusedFrom = Nothing /\ posted = {}

(* fit: the checks passed and the algorithm came to an end. *)
Fit(result) ==
    /\ pcResult' = <<result>>
    /\ UNCHANGED <<fusion, fusedFrom, posted>>

\* mutant: PC's undirected links are looked up in their stored order only
MethodOneWay(arc, r) ==
    IF arc \in r.directed THEN "confirmed"
    ELSE IF Flip(arc) \in r.directed THEN "conflict"
    ELSE IF arc \in r.undirected THEN "granger_pc_undirected"
    ELSE "granger_only"

(* How fuse classifies a Granger edge. *)
MethodOf(arc, r) ==
    IF arc \in r.directed THEN "confirmed"
    ELSE IF Flip(arc) \in r.directed THEN "conflict"
    ELSE IF {arc, Flip(arc)} \cap r.undirected # {} THEN "granger_pc_undirected"
    ELSE "granger_only"

FusionOf(granger, r) ==
    [arc \in granger \cup r.directed |->
       IF arc \in granger THEN MethodOf(arc, r) ELSE "pc_only"]

Fuse(granger) ==
    /\ pcResult # Nothing
    /\ fusion' = <<FusionOf(granger, pcResult[1])>>
    /\ fusedFrom' = pcResult /\ posted' = granger
    /\ UNCHANGED pcResult

NextRouter ==
    \/ \E r \in CPDAGs : Coherent(r) /\ Fit(r)
    \/ \E granger \in SUBSET MetricArcs : Fuse(granger)

RouterSpec == InitRouter /\ [][NextRouter]_routerVars

(* compare, which answers 404 until both caches are filled. *)
Of(methods) == {arc \in DOMAIN fusion[1] : fusion[1][arc] \in methods}
Comparison ==
    [granger   |-> Of({"confirmed", "granger_only", "conflict", "granger_pc_undirected"}),
     agreement |-> Of({"confirmed", "granger_pc_undirected"}),
     conflicts |-> Of({"conflict"}),
     grangerOnly |-> Of({"granger_only"}),
     pcOnly    |-> Of({"pc_only"}),
     directed  |-> pcResult[1].directed,
     undirected |-> pcResult[1].undirected]

Comparable == pcResult # Nothing /\ fusion # Nothing

Touching(arcs) == arcs \cup {Flip(a) : a \in arcs}

-----------------------------------------------------------------------------
(* The classes compare puts side by side are those of the result r: a Granger
   edge that is said to agree is a link of r and does not point against it,
   one in conflict opposes an edge of r, one found by Granger alone touches no
   link of r, what is PC's own is directed in r and not said to agree, and no
   directed edge of r is left out.  A link r leaves without direction is shown
   in a class only where Granger has it: the docstring of GrangerPCFusion
   (pc_algorithm.py:651) lets a PC-only edge be undirected, fuse (line 734)
   adds the directed ones alone. *)
Consistent(c, r) ==
    /\ c.agreement \subseteq r.directed \cup Touching(r.undirected)
    /\ \A arc \in c.conflicts : Flip(arc) \in r.directed
    /\ c.grangerOnly \cap Touching(r.directed \cup r.undirected) = {}
    /\ c.pcOnly = r.directed \ c.granger
    /\ r.directed \subseteq c.agreement \cup c.pcOnly

(* At any time the comparison shows every Granger edge posted and classifies
   the edges by the one result that was fused.  After another fit that is not
   the result whose edges it shows beside them: fit leaves _last_fused_edges
   as it is (pc_causal.py:286-306 reads both caches). *)
ComparisonFitsFusedResult ==
    Comparable =>
        Consistent(Comparison, fusedFrom[1]) /\ Comparison.granger = posted
=============================================================================

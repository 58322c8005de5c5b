----------------------------- MODULE PCAlgorithm -----------------------------
(***************************************************************************)
(* PCAlgorithm.fit and GrangerPCFusion.fuse,                               *)
(* src/causal/engine/pc_algorithm.py, as /causal/pc/fit and /fused run     *)
(* them: links are removed level by level, colliders are oriented and two  *)
(* of Meek's rules are applied until nothing changes; the outcome can be   *)
(* fused with edges of the Granger engine.  fit runs without an await and  *)
(* nothing comes between its steps.                                        *)
(*                                                                         *)
(* The independence tests are what the data say.  They say it faithfully   *)
(* of a graph in Laws, or anything at all: no test is made twice.          *)
(***************************************************************************)
EXTENDS CausalGraphs

CONSTANTS
  MaxCondSet,    \* max_cond_set
  Laws           \* graphs the data may come from

ASSUME PCAssumption ==
  /\ MaxCondSet \in Nat
  /\ Laws \subseteq SUBSET (Variables \X Variables)
  /\ \A g \in Laws : Acyclic(g)

VARIABLES
  faithful,     \* the data come from law; otherwise they are arbitrary
  law,
  phase,        \* "skeleton", "colliders", "meek" or "done"
  level,        \* size of the conditioning sets
  skeleton,     \* links <<u, v>>, u < v, in the order of the columns
  sepSets,      \* sep_sets: removed link -> what separated it
  vStructures,  \* <<x, z, y>> for x -> z <- y
  cpdag,        \* arcs; both directions of a link without orientation
  left,         \* links that the loop under way has yet to look at
  changed,      \* the pass of the Meek loop oriented a link
  passes,       \* passes begun
  capped        \* the loop ended at its cap

data == <<faithful, law>>
vars == <<data, phase, level, skeleton, sepSets, vStructures, cpdag,
          left, changed, passes, capped>>

Pairs == {p \in Variables \X Variables : p[1] < p[2]}

Init ==
  /\ \/ faithful = TRUE /\ law \in Laws
     \/ faithful = FALSE /\ law = {}
  /\ phase = "skeleton" /\ level = 0
  /\ skeleton = Pairs /\ sepSets = <<>>
  /\ vStructures = {} /\ cpdag = {}
  /\ left = Pairs /\ changed = FALSE /\ passes = 0 /\ capped = FALSE
-----------------------------------------------------------------------------
(* Phase 1, the skeleton. *)

Neighbours(u) == {v \in Variables : Linked(skeleton, u, v)}

(* Mutant: a conditioning set is a proper part of the neighbours. *)
CandidatesProper(e) ==
  {S \in SUBSET (Neighbours(e[1]) \ {e[2]}) :
     Cardinality(S) = level /\ S # Neighbours(e[1]) \ {e[2]}}
(* Conditioning sets come from the neighbours of the first endpoint. *)
Candidates(e) ==
  {S \in SUBSET (Neighbours(e[1]) \ {e[2]}) : Cardinality(S) = level}

(* The loops over links go by the order of the columns. *)
Comes(e) == e \in left /\ \A f \in left : e[1] < f[1] \/ (e[1] = f[1] /\ e[2] <= f[2])

Separated(e, S) == DSeparated(law, e[1], e[2], S)

(* A link is tested until some conditioning set of the level separates it. *)
Test ==
  /\ phase = "skeleton"
  /\ \E e \in left :
       /\ Comes(e)
       /\ \/ \E S \in Candidates(e) :
               /\ faithful => Separated(e, S)
               /\ sepSets' = [d \in DOMAIN sepSets \cup {e} |-> IF d = e THEN S ELSE sepSets[d]]
          \/ /\ faithful => \A S \in Candidates(e) : ~Separated(e, S)
             /\ UNCHANGED sepSets
       /\ left' = left \ {e}
  /\ UNCHANGED <<data, phase, level, skeleton, vStructures, cpdag, changed, passes, capped>>

LastLevel == level = MaxCondSet

(* The removals of a level are applied at its end. *)
EndLevel ==
  /\ phase = "skeleton" /\ left = {}
  /\ skeleton' = skeleton \ DOMAIN sepSets
  /\ level' = level + 1
  /\ IF LastLevel \/ skeleton' = {}
     THEN phase' = "colliders" /\ UNCHANGED left
     ELSE left' = skeleton' /\ UNCHANGED phase
  /\ UNCHANGED <<data, sepSets, vStructures, cpdag, changed, passes, capped>>
-----------------------------------------------------------------------------
(* Phase 2, unshielded colliders. *)

IsCollider(x, z, y) == z \notin sepSets[<<x, y>>]

Unshielded ==
  {t \in Variables \X Variables \X Variables :
     /\ <<t[1], t[3]>> \in Pairs \ skeleton
     /\ Linked(skeleton, t[1], t[2]) /\ Linked(skeleton, t[3], t[2])}

BothWays(links) == links \cup {Reverse(e) : e \in links}

(* Orienting x -> z removes z -> x, so the order does not matter; a link    *)
(* that two colliders point different ways loses both directions.           *)
OrientVStructures ==
  /\ phase = "colliders"
  /\ vStructures' = {t \in Unshielded : IsCollider(t[1], t[2], t[3])}
  /\ cpdag' = BothWays(skeleton) \ UNION {{<<t[2], t[1]>>, <<t[2], t[3]>>} : t \in vStructures'}
  /\ phase' = "meek"
  /\ left' = skeleton /\ passes' = 1
  /\ UNCHANGED <<data, level, skeleton, sepSets, changed, capped>>
-----------------------------------------------------------------------------
(* Phase 3, Meek's rules. *)

IsDirected(u, v) == <<u, v>> \in cpdag /\ <<v, u>> \notin cpdag

(* Mutants: a link without any direction counts as open, for nothing says   *)
(* that it is directed; only one direction is looked at.                    *)
OpenGhosts(e) == ~IsDirected(e[1], e[2]) /\ ~IsDirected(e[2], e[1])
OpenOneSided(e) == e \in cpdag
Open(e) == e \in cpdag /\ Reverse(e) \in cpdag

(* Mutant: the triple may be shielded. *)
R1Shielded(b, c) == \E a \in Variables \ {c} : IsDirected(a, b)
R1(b, c) == \E a \in Variables \ {c} : IsDirected(a, b) /\ ~Linked(skeleton, a, c)

R2(a, c) == \E b \in Variables \ {c} : IsDirected(a, b) /\ IsDirected(b, c)

(* The rules in their order, each tried on the link and on its reverse. *)
Forward(u, v)  == R1(u, v) \/ (~R1(v, u) /\ R2(u, v))
Backward(u, v) == ~Forward(u, v) /\ (R1(v, u) \/ R2(v, u))

Visit ==
  /\ phase = "meek"
  /\ \E e \in left :
       /\ Comes(e)
       /\ LET wrong == IF Open(e) /\ Forward(e[1], e[2]) THEN {Reverse(e)}
                       ELSE IF Open(e) /\ Backward(e[1], e[2]) THEN {e} ELSE {}
          IN  cpdag' = cpdag \ wrong /\ changed' = (changed \/ wrong # {})
       /\ left' = left \ {e}
  /\ UNCHANGED <<data, phase, level, skeleton, sepSets, vStructures, passes, capped>>

Cap == LET bound == 4 * Cardinality(skeleton) IN IF bound < 16 THEN 16 ELSE bound

(* Mutant: one pass is enough. *)
AgainNever == FALSE
Again == changed

EndPass ==
  /\ phase = "meek" /\ left = {}
  /\ IF Again /\ passes < Cap
     THEN /\ passes' = passes + 1 /\ left' = skeleton
          /\ changed' = FALSE
          /\ UNCHANGED <<phase, capped>>
     ELSE /\ phase' = "done" /\ capped' = Again
          /\ UNCHANGED <<passes, left, changed>>
  /\ UNCHANGED <<data, level, skeleton, sepSets, vStructures, cpdag>>
-----------------------------------------------------------------------------
(* The result, and its fusion. *)

DirectedEdges   == {a \in BothWays(skeleton) : IsDirected(a[1], a[2])}
UndirectedEdges == {e \in skeleton : {e, Reverse(e)} \cap DirectedEdges = {}}

(* Mutant: a link the result leaves open is held against the edge. *)
MethodStrict(a) ==
  CASE a \in DirectedEdges -> "confirmed"
    [] Linked(skeleton, a[1], a[2]) /\ a \notin DirectedEdges -> "conflict"
    [] OTHER -> "granger_only"
Method(a) ==
  CASE a \in DirectedEdges -> "confirmed"
    [] Reverse(a) \in DirectedEdges -> "conflict"
    [] Linked(UndirectedEdges, a[1], a[2]) -> "granger_pc_undirected"
    [] OTHER -> "granger_only"

(* fuse, called with the significant edges of the Granger engine. *)
Fused(granger) ==
  [a \in granger \cup DirectedEdges |-> IF a \in granger THEN Method(a) ELSE "pc_only"]

Next == Test \/ EndLevel \/ OrientVStructures \/ Visit \/ EndPass

Spec == Init /\ [][Next]_vars
-----------------------------------------------------------------------------
(* Every variable stays in its type, and no separating set is larger than  *)
(* the limit.                                                              *)
TypeOK ==
  /\ faithful \in BOOLEAN /\ changed \in BOOLEAN /\ capped \in BOOLEAN
  /\ law \subseteq Variables \X Variables
  /\ phase \in {"skeleton", "colliders", "meek", "done"}
  /\ level \in 0..MaxCondSet + 1 /\ passes \in Nat
  /\ skeleton \subseteq Pairs /\ left \subseteq skeleton
  /\ DOMAIN sepSets \subseteq Pairs /\ Pairs \ skeleton \subseteq DOMAIN sepSets
  /\ \A e \in DOMAIN sepSets : sepSets[e] \subseteq Variables /\ Cardinality(sepSets[e]) <= MaxCondSet
  /\ cpdag \subseteq BothWays(skeleton) /\ vStructures \subseteq Unshielded

TrueLink(e) == Linked(law, e[1], e[2])

(* pc_algorithm.py:402-450: on faithful data no true link is removed, and   *)
(* a false one only stays if nothing among the final neighbours of its      *)
(* first endpoint separates it, although the tests used earlier neighbours. *)
SkeletonFromFirstSide ==
  faithful /\ phase = "colliders" =>
    /\ \A e \in Pairs \ skeleton : ~TrueLink(e)
    /\ \A e \in skeleton : ~TrueLink(e) =>
         \A S \in SUBSET (Neighbours(e[1]) \ {e[2]}) :
           Cardinality(S) <= MaxCondSet => ~DSeparated(law, e[1], e[2], S)

Exact == faithful /\ phase = "done" /\ \A e \in Pairs : e \in skeleton <=> TrueLink(e)

(* pc_algorithm.py:456-574: where the skeleton is right, every arrow is one *)
(* that all graphs share that the data cannot tell from the true one.       *)
OrientationIsSound ==
  Exact => \A g \in Laws : Equivalent(law, g) => DirectedEdges \subseteq g

(* pc_algorithm.py:579-591: an orientation never erases a link: only two    *)
(* colliders that contradict each other leave it without a direction,       *)
(* whatever the data say.                                                   *)
PointedAt(u, v) == \E t \in vStructures : t[2] = v /\ u \in {t[1], t[3]}
LostOnlyByContradiction ==
  phase \in {"meek", "done"} =>
    \A e \in skeleton : {e, Reverse(e)} \cap cpdag = {} =>
      PointedAt(e[1], e[2]) /\ PointedAt(e[2], e[1])

(* Comment at pc_algorithm.py:508-511: the loop converges within as many    *)
(* orientations as there are links, far from its cap.                       *)
MeekConverges == ~capped /\ passes <= Cardinality(skeleton) + 1

(* pc_algorithm.py:514-541: when the loop ends, neither rule applies to any *)
(* link, those looked at before the last orientation included.              *)
ClosedUnderRules ==
  phase = "done" => \A e \in skeleton : Open(e) =>
    ~Forward(e[1], e[2]) /\ ~Backward(e[1], e[2])

(* pc_algorithm.py:699-744: where the skeleton is right and the Granger     *)
(* edges are true, the two methods never conflict, each Granger edge is     *)
(* corroborated, and together they contain no cycle.                        *)
TruthNeverConflicts ==
  Exact => \A granger \in SUBSET law :
    LET fused == Fused(granger)
    IN  /\ \A a \in granger : fused[a] \in {"confirmed", "granger_pc_undirected"}
        /\ Acyclic(DOMAIN fused)

(* Docstring at pc_algorithm.py:396: the result is order-independent.  A    *)
(* link that stays must not be one that the reversed columns would remove:  *)
(* true neighbours of the second endpoint are never cut off from it.        *)
OrderIndependent ==
  faithful /\ phase = "done" =>
    \A e \in skeleton : \A S \in SUBSET Variables :
      /\ Cardinality(S) <= MaxCondSet
      /\ \A w \in S : w # e[1] /\ Linked(law, w, e[2])
      => ~DSeparated(law, e[1], e[2], S)
=============================================================================

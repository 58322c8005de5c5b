---------------------------- MODULE CausalGraphs ----------------------------
(***************************************************************************)
(* Directed acyclic graphs over a set of variables and what data drawn     *)
(* from one reveal: the reference that constraint-based discovery is       *)
(* measured against.  A graph is a set of arcs <<cause, effect>>.          *)
(***************************************************************************)
EXTENDS Integers, FiniteSets

CONSTANT Variables   \* column positions of the telemetry frame, 1..n

ASSUME VariablesAssumption == Variables \subseteq Nat /\ IsFiniteSet(Variables)

Reverse(arc) == <<arc[2], arc[1]>>

(* Every non-empty set of variables has one without a cause in the set. *)
Acyclic(arcs) ==
  \A C \in (SUBSET Variables) \ {{}} : \E x \in C : \A y \in C : <<y, x>> \notin arcs

Linked(arcs, x, y) == <<x, y>> \in arcs \/ <<y, x>> \in arcs

(* Unshielded colliders x -> z <- y, with x before y. *)
Colliders(arcs) ==
  {t \in Variables \X Variables \X Variables :
     /\ t[1] < t[3] /\ ~Linked(arcs, t[1], t[3])
     /\ <<t[1], t[2]>> \in arcs /\ <<t[3], t[2]>> \in arcs}

(* Data cannot tell two graphs apart that have the same links and the same *)
(* colliders.                                                              *)
Equivalent(g, h) ==
  /\ \A x, y \in Variables : Linked(g, x, y) <=> Linked(h, x, y)
  /\ Colliders(g) = Colliders(h)

(* The variables with an effect in S, or in S. *)
Ancestors(arcs, S) ==
  {x \in Variables : \A C \in SUBSET Variables :
     S \subseteq C /\ (\A a \in arcs : a[2] \in C => a[1] \in C) => x \in C}

(* x and y are separated by S: in the moral graph of their ancestors some  *)
(* set with x and without y has no link that avoids S.                     *)
DSeparated(arcs, x, y, S) ==
  LET A == Ancestors(arcs, {x, y} \cup S)
      Moral(a, b) == Linked(arcs, a, b) \/ \E c \in A : <<a, c>> \in arcs /\ <<b, c>> \in arcs
  IN  \E C \in SUBSET (A \ S) :
        /\ x \in C /\ y \notin C
        /\ \A a \in C, b \in (A \ S) \ C : ~Moral(a, b)
=============================================================================

---------------------------- MODULE MCPCAlgorithm ----------------------------
(* Four variables: every acyclic graph over them, and arbitrary data. *)
EXTENDS PCAlgorithm

CONSTANT NumVariables

MCVariables == 1..NumVariables
Arcs == {a \in MCVariables \X MCVariables : a[1] # a[2]}

(* All graphs in which every non-empty set has a member no cause of which  *)
(* is in the set.                                                          *)
MCLaws == {g \in SUBSET Arcs :
             \A C \in (SUBSET MCVariables) \ {{}} :
               \E x \in C : \A y \in C : <<y, x>> \notin g}
=============================================================================

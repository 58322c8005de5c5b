--------------------------- MODULE PCAlgorithmProofs ---------------------------
(***************************************************************************)
(* For any number of variables and whatever the tests say: the Meek loop   *)
(* converges before its cap and leaves nothing for its rules to do, and    *)
(* only colliders that contradict each other cost a link its direction.    *)
(* For data that come from an acyclic graph: a true link is never lost;    *)
(* on a right skeleton every arrow is true and agrees with a true Granger  *)
(* edge; and where causes stand in later columns the skeleton is right.    *)
(***************************************************************************)
EXTENDS PCAlgorithm, FiniteSetTheorems, TLAPS

LEMMA PairsFinite == IsFiniteSet(Pairs)
<1>1. IsFiniteSet(Variables \X Variables)
  BY VariablesAssumption, FS_Product
<1>2. QED
  BY <1>1, FS_Subset DEF Pairs

(* A link and its reverse are different arcs, and the reverse is no link.   *)
LEMMA LinksAreOneWay ==
  ASSUME NEW e \in Pairs
  PROVE  /\ Reverse(e) \notin Pairs
         /\ Reverse(e) \in Variables \X Variables
         /\ Reverse(Reverse(e)) = e
<1>1. PICK u \in Variables, v \in Variables : e = <<u, v>> /\ u < v
  BY DEF Pairs
<1>2. u \in Nat /\ v \in Nat /\ ~(v < u)
  BY <1>1, VariablesAssumption
<1>3. Reverse(e) = <<v, u>>
  BY <1>1 DEF Reverse
<1>4. <<v, u>> \notin Pairs
  BY <1>2 DEF Pairs
<1>5. QED
  BY <1>1, <1>3, <1>4 DEF Reverse

LEMMA LinkOrder ==
  ASSUME NEW e \in Pairs
  PROVE  e \in Variables \X Variables /\ e = <<e[1], e[2]>> /\ Reverse(e) = <<e[2], e[1]>>
BY DEF Pairs, Reverse

(* No test is made past the last level, and nothing is oriented before the  *)
(* links are.                                                               *)
Phases ==
  /\ phase = "skeleton" => level <= MaxCondSet
  /\ phase \in {"skeleton", "colliders"} => cpdag = {} /\ vStructures = {}

TypeInv == TypeOK /\ Phases

-----------------------------------------------------------------------------
OpenLinks == {e \in skeleton : Open(e)}

(* Each pass but the first was begun because the one before it oriented a   *)
(* link, and no link is oriented twice.                                     *)
PassesPaid ==
  /\ phase \in {"skeleton", "colliders"} => passes = 0 /\ ~changed
  /\ phase \in {"meek", "done"} =>
       passes - 1 + (IF changed THEN 1 ELSE 0) + Cardinality(OpenLinks) <= Cardinality(skeleton)
  /\ ~capped

(* Links without a direction were given up by two colliders. *)
Erased ==
  phase \in {"meek", "done"} =>
    \A e \in skeleton : {e, Reverse(e)} \cap cpdag = {} =>
      PointedAt(e[1], e[2]) /\ PointedAt(e[2], e[1])

(* As long as a pass has oriented nothing, the rules do not apply to what   *)
(* it has looked at.                                                        *)
Settled(e) == Open(e) => ~Forward(e[1], e[2]) /\ ~Backward(e[1], e[2])
LookedAt ==
  /\ phase = "meek" /\ ~changed => \A e \in skeleton \ left : Settled(e)
  /\ phase = "done" => \A e \in skeleton : Settled(e)

Inv == TypeInv /\ PassesPaid /\ Erased /\ LookedAt
-----------------------------------------------------------------------------
LEMMA InitInv == Init => Inv
<1> SUFFICES ASSUME Init PROVE Inv
  OBVIOUS
<1>1. MaxCondSet \in Nat /\ law \subseteq Variables \X Variables
  BY PCAssumption DEF Init
<1>2. DOMAIN sepSets = {}
  BY DEF Init
<1>3. /\ skeleton = Pairs /\ left = Pairs /\ cpdag = {} /\ vStructures = {}
      /\ faithful \in BOOLEAN /\ changed = FALSE /\ capped = FALSE
      /\ phase = "skeleton" /\ level = 0 /\ passes = 0
  BY DEF Init
<1>4. TypeOK
  <2>1. /\ changed \in BOOLEAN /\ capped \in BOOLEAN
        /\ phase \in {"skeleton", "colliders", "meek", "done"}
    BY <1>3
  <2>2. level \in 0..MaxCondSet + 1 /\ passes \in Nat
    BY <1>1, <1>3
  <2>3. cpdag \subseteq BothWays(skeleton) /\ vStructures \subseteq Unshielded
    BY <1>3
  <2>4. QED
    BY <1>1, <1>2, <1>3, <2>1, <2>2, <2>3 DEF TypeOK
<1>5. Phases /\ PassesPaid
  BY <1>1, <1>3 DEF Phases, PassesPaid
<1>6. Erased /\ LookedAt
  BY <1>3 DEF Erased, LookedAt
<1>7. QED
  BY <1>4, <1>5, <1>6 DEF Inv, TypeInv

LEMMA TestKeeps ==
  ASSUME Inv, Test
  PROVE  Inv'
<1>1. PICK e \in left :
        /\ \/ \E S \in Candidates(e) :
                sepSets' = [d \in DOMAIN sepSets \cup {e} |-> IF d = e THEN S ELSE sepSets[d]]
           \/ sepSets' = sepSets
        /\ left' = left \ {e}
  BY DEF Test
<1>2. /\ phase = "skeleton"
      /\ UNCHANGED <<data, phase, level, skeleton, vStructures, cpdag, changed, passes, capped>>
  BY DEF Test
<1>3. TypeOK /\ level <= MaxCondSet
  BY <1>2 DEF Inv, TypeInv, Phases
<1>4. e \in Pairs
  BY <1>3 DEF TypeOK
<1>5. \A S \in Candidates(e) : S \subseteq Variables /\ Cardinality(S) <= MaxCondSet
  BY <1>3, PCAssumption DEF Candidates, Neighbours, TypeOK
<1>6. /\ DOMAIN sepSets' \subseteq Pairs /\ DOMAIN sepSets \subseteq DOMAIN sepSets'
      /\ \A d \in DOMAIN sepSets' :
           sepSets'[d] \subseteq Variables /\ Cardinality(sepSets'[d]) <= MaxCondSet
  <2>1. CASE sepSets' = sepSets
    BY <1>3, <2>1 DEF TypeOK
  <2>2. ASSUME NEW S \in Candidates(e),
               sepSets' = [d \in DOMAIN sepSets \cup {e} |-> IF d = e THEN S ELSE sepSets[d]]
        PROVE  /\ DOMAIN sepSets' \subseteq Pairs /\ DOMAIN sepSets \subseteq DOMAIN sepSets'
               /\ \A d \in DOMAIN sepSets' :
                    sepSets'[d] \subseteq Variables /\ Cardinality(sepSets'[d]) <= MaxCondSet
    BY <1>3, <1>4, <1>5, <2>2 DEF TypeOK
  <2>3. QED
    BY <1>1, <2>1, <2>2
<1>7. Unshielded' = Unshielded
  BY <1>2 DEF Unshielded
<1>8. TypeOK'
  BY <1>1, <1>2, <1>3, <1>6, <1>7 DEF TypeOK, data
<1>9. QED
  BY <1>2, <1>3, <1>8 DEF Inv, TypeInv, Phases, PassesPaid, Erased, LookedAt, data

LEMMA EndLevelKeeps ==
  ASSUME Inv, EndLevel
  PROVE  Inv'
<1>1. /\ phase = "skeleton" /\ left = {}
      /\ skeleton' = skeleton \ DOMAIN sepSets /\ level' = level + 1
      /\ UNCHANGED <<data, sepSets, vStructures, cpdag, changed, passes, capped>>
  BY DEF EndLevel
<1>2. TypeOK /\ level <= MaxCondSet /\ MaxCondSet \in Nat /\ level \in Nat
  BY <1>1, PCAssumption DEF Inv, TypeInv, Phases, TypeOK
<1>3. \/ phase' = "colliders" /\ left' = {}
      \/ phase' = "skeleton" /\ left' = skeleton' /\ level # MaxCondSet
  BY <1>1 DEF EndLevel, LastLevel
<1>4. cpdag = {} /\ vStructures = {} /\ passes = 0 /\ ~changed /\ ~capped
  BY <1>1 DEF Inv, TypeInv, Phases, PassesPaid
<1>5. /\ skeleton' \subseteq Pairs /\ Pairs \ skeleton' \subseteq DOMAIN sepSets'
      /\ level' \in 0..MaxCondSet + 1
  BY <1>1, <1>2 DEF TypeOK
<1>6. TypeOK'
  BY <1>1, <1>2, <1>3, <1>4, <1>5 DEF TypeOK, data
<1>7. Phases'
  BY <1>1, <1>2, <1>3, <1>4 DEF Phases
<1>8. QED
  BY <1>1, <1>3, <1>4, <1>6, <1>7 DEF Inv, TypeInv, PassesPaid, Erased, LookedAt

LEMMA OrientVStructuresKeeps ==
  ASSUME Inv, OrientVStructures
  PROVE  Inv'
<1>1. /\ phase = "colliders" /\ phase' = "meek" /\ left' = skeleton /\ passes' = 1
      /\ vStructures' = {t \in Unshielded : IsCollider(t[1], t[2], t[3])}
      /\ cpdag' = BothWays(skeleton) \ UNION {{<<t[2], t[1]>>, <<t[2], t[3]>>} : t \in vStructures'}
      /\ UNCHANGED <<data, level, skeleton, sepSets, changed, capped>>
  BY DEF OrientVStructures
<1>2. TypeOK /\ ~changed /\ ~capped
  BY <1>1 DEF Inv, TypeInv, PassesPaid
<1>3. TypeOK'
  <2>1. vStructures' \subseteq Unshielded'
    BY <1>1 DEF Unshielded
  <2>2. cpdag' \subseteq BothWays(skeleton)'
    BY <1>1 DEF BothWays
  <2>3. QED
    BY <1>1, <1>2, <2>1, <2>2 DEF TypeOK, data
<1>4. PassesPaid'
  <2>1. IsFiniteSet(skeleton)
    BY <1>2, PairsFinite, FS_Subset DEF TypeOK
  <2>2. OpenLinks' \subseteq skeleton
    BY <1>1 DEF OpenLinks
  <2>3. /\ Cardinality(OpenLinks') \in Nat /\ Cardinality(skeleton) \in Nat
        /\ Cardinality(OpenLinks') <= Cardinality(skeleton)
    BY <2>1, <2>2, FS_Subset, FS_CardinalityType
  <2>4. QED
    BY <1>1, <1>2, <2>3 DEF PassesPaid
<1>5. Erased'
  <2> SUFFICES ASSUME NEW e \in skeleton, {e, Reverse(e)} \cap cpdag' = {}
               PROVE  PointedAt(e[1], e[2])' /\ PointedAt(e[2], e[1])'
    BY <1>1 DEF Erased
  <2>1. e \in Pairs /\ e = <<e[1], e[2]>> /\ Reverse(e) = <<e[2], e[1]>>
    BY <1>2, LinkOrder DEF TypeOK
  <2>2. e \in BothWays(skeleton) /\ Reverse(e) \in BothWays(skeleton)
    BY DEF BothWays
  <2>3. PICK t \in vStructures' : e \in {<<t[2], t[1]>>, <<t[2], t[3]>>}
    BY <1>1, <2>2
  <2>4. PICK s \in vStructures' : Reverse(e) \in {<<s[2], s[1]>>, <<s[2], s[3]>>}
    BY <1>1, <2>2
  <2>5. t[2] = e[1] /\ e[2] \in {t[1], t[3]}
    BY <2>1, <2>3
  <2>6. s[2] = e[2] /\ e[1] \in {s[1], s[3]}
    BY <2>1, <2>4
  <2>7. QED
    BY <2>5, <2>6 DEF PointedAt
<1>6. QED
  BY <1>1, <1>2, <1>3, <1>4, <1>5 DEF Inv, TypeInv, Phases, LookedAt

(* What a step of the Meek loop does: it settles one more link, and keeps   *)
(* one of its directions.                                                   *)
LEMMA VisitKeeps ==
  ASSUME Inv, Visit
  PROVE  Inv'
<1>1. PICK e \in left :
        LET wrong == IF Open(e) /\ Forward(e[1], e[2]) THEN {Reverse(e)}
                     ELSE IF Open(e) /\ Backward(e[1], e[2]) THEN {e} ELSE {}
        IN  /\ cpdag' = cpdag \ wrong /\ changed' = (changed \/ wrong # {})
            /\ left' = left \ {e}
  BY DEF Visit
<1>2. /\ phase = "meek"
      /\ UNCHANGED <<data, phase, level, skeleton, sepSets, vStructures, passes, capped>>
  BY DEF Visit
<1>3. TypeOK /\ e \in skeleton /\ skeleton \subseteq Pairs /\ e \in Pairs
  BY DEF Inv, TypeInv, TypeOK
<1>4. TypeOK'
  <2>1. Unshielded' = Unshielded
    BY <1>2 DEF Unshielded
  <2>2. cpdag' \subseteq cpdag /\ changed' \in BOOLEAN /\ left' \subseteq left
    BY <1>1, <1>3 DEF TypeOK
  <2>3. QED
    BY <1>2, <1>3, <2>1, <2>2 DEF TypeOK, data, BothWays
<1>5. CASE cpdag' = cpdag /\ changed' = changed /\ Settled(e)
  <2>1. OpenLinks' = OpenLinks
    BY <1>2, <1>5 DEF OpenLinks, Open
  <2>2. PassesPaid'
    BY <1>2, <1>5, <2>1 DEF Inv, PassesPaid
  <2>3. Erased'
    BY <1>2, <1>5 DEF Inv, Erased, PointedAt
  <2>4. \A f \in skeleton : Settled(f)' <=> Settled(f)
    BY <1>2, <1>5 DEF Settled, Open, Forward, Backward, R1, R2, IsDirected, Linked
  <2>5. LookedAt'
    BY <1>1, <1>2, <1>5, <2>4 DEF Inv, LookedAt
  <2>6. QED
    BY <1>2, <1>4, <2>2, <2>3, <2>5 DEF Inv, TypeInv, Phases
<1>6. CASE /\ Open(e) /\ changed'
           /\ \E a \in {e, Reverse(e)} : cpdag' = cpdag \ {a}
  <2>1. PICK a \in {e, Reverse(e)} : cpdag' = cpdag \ {a}
    BY <1>6
  <2>2. \A f \in skeleton : f # e => a \notin {f, Reverse(f)}
    BY <1>3, <2>1, LinksAreOneWay
  <2>3. OpenLinks' = OpenLinks \ {e} /\ e \in OpenLinks
    BY <1>2, <1>3, <1>6, <2>1, <2>2 DEF OpenLinks, Open
  <2>4. PassesPaid'
    <3>1. IsFiniteSet(OpenLinks)
      BY <1>3, PairsFinite, FS_Subset DEF OpenLinks
    <3>2. /\ Cardinality(OpenLinks) \in Nat
          /\ Cardinality(OpenLinks') = Cardinality(OpenLinks) - 1
      BY <2>3, <3>1, FS_RemoveElement, FS_CardinalityType
    <3>3. passes \in Nat /\ Cardinality(skeleton) \in Nat
      BY <1>3, PairsFinite, FS_Subset, FS_CardinalityType DEF TypeOK
    <3>4. QED
      BY <1>2, <1>6, <3>2, <3>3 DEF Inv, PassesPaid
  <2>5. Erased'
    <3> SUFFICES ASSUME NEW f \in skeleton, {f, Reverse(f)} \cap cpdag' = {}
                 PROVE  PointedAt(f[1], f[2])' /\ PointedAt(f[2], f[1])'
      BY <1>2 DEF Erased
    <3>1. f # e
      BY <1>3, <1>6, <2>1, LinksAreOneWay DEF Open
    <3>2. {f, Reverse(f)} \cap cpdag = {}
      BY <2>1, <2>2, <3>1
    <3>3. QED
      BY <1>2, <3>2 DEF Inv, Erased, PointedAt
  <2>6. QED
    BY <1>2, <1>4, <1>6, <2>4, <2>5 DEF Inv, TypeInv, Phases, LookedAt
<1>7. CASE Open(e) /\ Forward(e[1], e[2])
  <2>1. cpdag' = cpdag \ {Reverse(e)} /\ changed'
    BY <1>1, <1>7
  <2>2. QED
    BY <1>6, <1>7, <2>1
<1>8. CASE Open(e) /\ ~Forward(e[1], e[2]) /\ Backward(e[1], e[2])
  <2>1. cpdag' = cpdag \ {e} /\ changed'
    BY <1>1, <1>8
  <2>2. QED
    BY <1>6, <1>8, <2>1
<1>9. CASE Settled(e)
  <2>1. cpdag' = cpdag /\ changed' = changed
    BY <1>1, <1>3, <1>9 DEF Settled, TypeOK
  <2>2. QED
    BY <1>5, <1>9, <2>1
<1>10. QED
  BY <1>7, <1>8, <1>9 DEF Settled

LEMMA EndPassKeeps ==
  ASSUME Inv, EndPass
  PROVE  Inv'
<1>1. /\ phase = "meek" /\ left = {}
      /\ UNCHANGED <<data, level, skeleton, sepSets, vStructures, cpdag>>
  BY DEF EndPass
<1>2. TypeOK /\ ~capped
  BY DEF Inv, TypeInv, PassesPaid
<1>3. /\ passes \in Nat /\ changed \in BOOLEAN
      /\ Cardinality(skeleton) \in Nat /\ Cardinality(OpenLinks) \in Nat
  BY <1>2, PairsFinite, FS_Subset, FS_CardinalityType DEF TypeOK, OpenLinks
<1>4. passes - 1 + (IF changed THEN 1 ELSE 0) + Cardinality(OpenLinks) <= Cardinality(skeleton)
  BY <1>1 DEF Inv, PassesPaid
<1>5. changed => passes < Cap
  BY <1>3, <1>4 DEF Cap
<1>6. \/ /\ changed /\ phase' = phase /\ capped' = capped /\ passes' = passes + 1
         /\ left' = skeleton /\ changed' = FALSE
      \/ /\ ~changed /\ phase' = "done" /\ capped' = FALSE
         /\ passes' = passes /\ left' = left /\ changed' = changed
  BY <1>3, <1>5 DEF EndPass, Again
<1>7. OpenLinks' = OpenLinks /\ Unshielded' = Unshielded
  BY <1>1 DEF OpenLinks, Open, Unshielded
<1>8. TypeOK'
  <2>1. passes' \in Nat /\ left' \subseteq skeleton'
    BY <1>1, <1>2, <1>3, <1>6 DEF TypeOK
  <2>2. /\ phase' \in {"skeleton", "colliders", "meek", "done"}
        /\ changed' \in BOOLEAN /\ capped' \in BOOLEAN
    BY <1>1, <1>2, <1>6 DEF TypeOK
  <2>3. QED
    BY <1>1, <1>2, <1>7, <2>1, <2>2 DEF TypeOK, data, BothWays
<1>9. PassesPaid'
  <2>1. CASE changed /\ passes' = passes + 1 /\ changed' = FALSE /\ phase' = phase /\ capped' = capped
    BY <1>1, <1>2, <1>3, <1>4, <1>7, <2>1 DEF PassesPaid
  <2>2. CASE ~changed /\ passes' = passes /\ changed' = changed /\ phase' = "done" /\ capped' = FALSE
    BY <1>1, <1>3, <1>4, <1>7, <2>2 DEF PassesPaid
  <2>3. QED
    BY <1>6, <2>1, <2>2
<1>10. Erased'
  BY <1>1, <1>6 DEF Inv, Erased, PointedAt
<1>11. LookedAt'
  <2>1. \A f \in skeleton : Settled(f)' <=> Settled(f)
    BY <1>1 DEF Settled, Open, Forward, Backward, R1, R2, IsDirected, Linked
  <2>2. QED
    BY <1>1, <1>6, <2>1 DEF Inv, LookedAt
<1>12. QED
  BY <1>1, <1>6, <1>8, <1>9, <1>10, <1>11 DEF Inv, TypeInv, Phases

LEMMA InvHolds == Spec => []Inv
<1>1. Inv /\ UNCHANGED vars => Inv'
  <2> SUFFICES ASSUME Inv, UNCHANGED vars PROVE Inv'
    OBVIOUS
  <2>1. TypeOK'
    BY DEF Inv, TypeInv, TypeOK, vars, data, Unshielded
  <2>2. Phases' /\ PassesPaid'
    BY DEF Inv, TypeInv, Phases, PassesPaid, vars, OpenLinks, Open
  <2>3. Erased'
    BY DEF Inv, Erased, PointedAt, vars
  <2>4. \A f : Settled(f)' <=> Settled(f)
    BY DEF Settled, Open, Forward, Backward, R1, R2, IsDirected, Linked, vars
  <2>5. LookedAt'
    BY <2>4 DEF Inv, LookedAt, vars
  <2>6. QED
    BY <2>1, <2>2, <2>3, <2>5 DEF Inv, TypeInv
<1>2. Inv /\ [Next]_vars => Inv'
  BY <1>1, TestKeeps, EndLevelKeeps, OrientVStructuresKeeps, VisitKeeps, EndPassKeeps DEF Next
<1>3. QED
  BY <1>2, InitInv, PTL DEF Spec
-----------------------------------------------------------------------------
(* Every reachable state is typed, and separating sets keep to the limit.   *)
THEOREM TypeCorrect == Spec => []TypeOK
<1>1. Inv => TypeOK
  BY DEF Inv, TypeInv
<1>2. QED
  BY <1>1, InvHolds, PTL

(* The Meek loop of pc_algorithm.py:514-545 never meets its cap: it begins  *)
(* at most one pass more than there are links.                              *)
THEOREM MeekAlwaysConverges == Spec => []MeekConverges
<1>1. Inv => MeekConverges
  <2> SUFFICES ASSUME Inv PROVE MeekConverges
    OBVIOUS
  <2>1. /\ passes \in Nat /\ changed \in BOOLEAN
        /\ Cardinality(skeleton) \in Nat /\ Cardinality(OpenLinks) \in Nat
    BY PairsFinite, FS_Subset, FS_CardinalityType DEF Inv, TypeInv, TypeOK, OpenLinks
  <2>2. phase \in {"skeleton", "colliders", "meek", "done"}
    BY DEF Inv, TypeInv, TypeOK
  <2>3. QED
    BY <2>1, <2>2 DEF Inv, PassesPaid, MeekConverges
<1>2. QED
  BY <1>1, InvHolds, PTL

(* When fit returns, neither rule applies to any link that is left open.    *)
THEOREM NothingLeftToOrient == Spec => []ClosedUnderRules
<1>1. Inv => ClosedUnderRules
  BY DEF Inv, LookedAt, Settled, ClosedUnderRules
<1>2. QED
  BY <1>1, InvHolds, PTL

(* Whatever the tests say, a link without a direction was pointed both ways *)
(* by two colliders; the rules never erase one.                             *)
THEOREM OnlyContradictionErases == Spec => []LostOnlyByContradiction
<1>1. Inv => LostOnlyByContradiction
  BY DEF Inv, Erased, LostOnlyByContradiction
<1>2. QED
  BY <1>1, InvHolds, PTL
-----------------------------------------------------------------------------
(* No set separates two linked variables outside it. *)
LEMMA LinkedStayTogether ==
  ASSUME NEW arcs, NEW x \in Variables, NEW y \in Variables, NEW S \in SUBSET Variables,
         x \notin S, y \notin S, Linked(arcs, x, y)
  PROVE  ~DSeparated(arcs, x, y, S)
<1> DEFINE A == Ancestors(arcs, {x, y} \cup S)
           Moral(a, b) == Linked(arcs, a, b)
                          \/ \E c \in A : <<a, c>> \in arcs /\ <<b, c>> \in arcs
<1>1. x \in A /\ y \in A
  BY DEF Ancestors
<1>2. ASSUME NEW C \in SUBSET (A \ S), x \in C, y \notin C
      PROVE  \E a \in C, b \in (A \ S) \ C : Moral(a, b)
  <2>1. y \in (A \ S) \ C /\ Moral(x, y)
    BY <1>1, <1>2
  <2>2. QED
    BY <1>2, <2>1
<1>3. QED
  BY <1>2 DEF DSeparated

(* The tests made so far: those of the levels before, and of this level for *)
(* the links looked at.                                                     *)
Tested(e, S) ==
  \/ Cardinality(S) < level
  \/ Cardinality(S) = level /\ phase = "skeleton" /\ e \notin left

SkeletonInv ==
  /\ faithful /\ phase \in {"skeleton", "colliders"} =>
       /\ \A e \in DOMAIN sepSets : ~TrueLink(e)
       /\ \A e \in skeleton \ DOMAIN sepSets :
            \A S \in SUBSET (Neighbours(e[1]) \ {e[2]}) : Tested(e, S) => ~Separated(e, S)
  /\ phase = "colliders" =>
       /\ skeleton \cap DOMAIN sepSets = {}
       /\ skeleton = {} \/ level = MaxCondSet + 1

LEMMA InitSkeleton == Init => SkeletonInv
<1> SUFFICES ASSUME Init PROVE SkeletonInv
  OBVIOUS
<1>1. /\ DOMAIN sepSets = {} /\ level = 0 /\ phase = "skeleton"
      /\ left = Pairs /\ skeleton = Pairs
  BY DEF Init
<1>2. \A S \in SUBSET Variables : IsFiniteSet(S) /\ Cardinality(S) \in Nat
  BY VariablesAssumption, FS_Subset, FS_CardinalityType
<1>3. \A e \in skeleton : \A S \in SUBSET (Neighbours(e[1]) \ {e[2]}) : ~Tested(e, S)
  BY <1>1, <1>2 DEF Tested, Neighbours
<1>4. QED
  BY <1>1, <1>3 DEF SkeletonInv

LEMMA TestKeepsSkeleton ==
  ASSUME Inv, SkeletonInv, Test
  PROVE  SkeletonInv'
<1>1. PICK e \in left :
        /\ \/ \E S \in Candidates(e) :
                /\ faithful => Separated(e, S)
                /\ sepSets' = [d \in DOMAIN sepSets \cup {e} |-> IF d = e THEN S ELSE sepSets[d]]
           \/ /\ faithful => \A S \in Candidates(e) : ~Separated(e, S)
              /\ sepSets' = sepSets
        /\ left' = left \ {e}
  BY DEF Test
<1>2. /\ phase = "skeleton" /\ phase' = phase /\ faithful' = faithful /\ law' = law
      /\ level' = level /\ skeleton' = skeleton
  BY DEF Test, data
<1>3. e \in Pairs /\ skeleton \subseteq Pairs
  BY DEF Inv, TypeInv, TypeOK
<1>4. \A f : TrueLink(f)' <=> TrueLink(f)
  BY <1>2 DEF TrueLink, Linked
<1>5. /\ \A u : Neighbours(u)' = Neighbours(u)
      /\ \A f, S : Separated(f, S)' <=> Separated(f, S)
  BY <1>2 DEF Neighbours, Linked, Separated, DSeparated, Ancestors
<1> SUFFICES ASSUME faithful
             PROVE  /\ \A f \in DOMAIN sepSets' : ~TrueLink(f)
                    /\ \A f \in skeleton \ DOMAIN sepSets' :
                         \A S \in SUBSET (Neighbours(f[1]) \ {f[2]}) :
                           Tested(f, S)' => ~Separated(f, S)
  BY <1>2, <1>4, <1>5 DEF SkeletonInv
<1>6. ASSUME NEW f \in skeleton \ DOMAIN sepSets, f # e,
             NEW S \in SUBSET (Neighbours(f[1]) \ {f[2]}), Tested(f, S)'
      PROVE  ~Separated(f, S)
  BY <1>1, <1>2, <1>6 DEF SkeletonInv, Tested
<1>7. CASE \E S \in Candidates(e) :
             /\ Separated(e, S)
             /\ sepSets' = [d \in DOMAIN sepSets \cup {e} |-> IF d = e THEN S ELSE sepSets[d]]
  <2>1. PICK S \in Candidates(e) :
          /\ Separated(e, S)
          /\ sepSets' = [d \in DOMAIN sepSets \cup {e} |-> IF d = e THEN S ELSE sepSets[d]]
    BY <1>7
  <2>2. /\ S \in SUBSET Variables /\ e[2] \notin S
        /\ e[1] \in Variables /\ e[2] \in Variables
    BY <1>3 DEF Candidates, Neighbours, Pairs
  <2>3. <<e[1], e[1]>> \notin Pairs
    <3>1. e[1] \in Nat
      BY <2>2, VariablesAssumption
    <3>2. ~(e[1] < e[1])
      BY <3>1
    <3>3. QED
      BY <3>2 DEF Pairs
  <2>4. e[1] \notin S
    BY <1>3, <2>3 DEF Candidates, Neighbours, Linked
  <2>5. ~TrueLink(e)
    BY <2>1, <2>2, <2>4, LinkedStayTogether DEF TrueLink, Separated
  <2>6. DOMAIN sepSets' = DOMAIN sepSets \cup {e}
    BY <2>1
  <2>7. QED
    BY <1>2, <1>6, <2>5, <2>6 DEF SkeletonInv
<1>8. CASE sepSets' = sepSets /\ \A S \in Candidates(e) : ~Separated(e, S)
  <2>1. ASSUME e \notin DOMAIN sepSets,
               NEW S \in SUBSET (Neighbours(e[1]) \ {e[2]}), Tested(e, S)'
        PROVE  ~Separated(e, S)
    <3>1. e \in skeleton
      BY DEF Inv, TypeInv, TypeOK
    <3>2. CASE Cardinality(S) < level
      BY <2>1, <3>1, <3>2, <1>2 DEF SkeletonInv, Tested
    <3>3. CASE Cardinality(S) = level
      BY <1>8, <3>3 DEF Candidates
    <3>4. QED
      BY <1>2, <2>1, <3>2, <3>3 DEF Tested
  <2>2. QED
    BY <1>2, <1>6, <1>8, <2>1 DEF SkeletonInv
<1>9. QED
  BY <1>1, <1>7, <1>8

LEMMA EndLevelKeepsSkeleton ==
  ASSUME Inv, SkeletonInv, EndLevel
  PROVE  SkeletonInv'
<1>1. /\ phase = "skeleton" /\ left = {}
      /\ skeleton' = skeleton \ DOMAIN sepSets /\ level' = level + 1
      /\ sepSets' = sepSets /\ faithful' = faithful /\ law' = law
  BY DEF EndLevel, data
<1>2. \/ phase' = "colliders" /\ (level = MaxCondSet \/ skeleton' = {})
      \/ phase' = "skeleton" /\ left' = skeleton'
  BY <1>1 DEF EndLevel, LastLevel
<1>3. level \in Nat
  BY PCAssumption DEF Inv, TypeInv, TypeOK
<1>4. \A f : TrueLink(f)' <=> TrueLink(f)
  BY <1>1 DEF TrueLink, Linked
<1>5. \A f, S : Separated(f, S)' <=> Separated(f, S)
  BY <1>1 DEF Separated, DSeparated, Ancestors, Linked
<1>6. ASSUME faithful, NEW f \in skeleton',
             NEW S \in SUBSET (Neighbours(f[1])' \ {f[2]}), Tested(f, S)'
      PROVE  ~Separated(f, S)
  <2>1. S \in SUBSET (Neighbours(f[1]) \ {f[2]})
    BY <1>1 DEF Neighbours, Linked
  <2>2. Cardinality(S) \in Nat
    BY <2>1, VariablesAssumption, FS_Subset, FS_CardinalityType DEF Neighbours
  <2>3. Cardinality(S) < level + 1
    BY <1>1, <1>2, <1>6 DEF Tested
  <2>4. Tested(f, S)
    BY <1>1, <1>3, <2>2, <2>3 DEF Tested
  <2>5. QED
    BY <1>1, <1>6, <2>1, <2>4 DEF SkeletonInv
<1>7. \A f \in DOMAIN sepSets : faithful => ~TrueLink(f)
  BY <1>1 DEF SkeletonInv
<1>8. skeleton' \cap DOMAIN sepSets' = {}
  BY <1>1
<1>9. QED
  BY <1>1, <1>2, <1>4, <1>5, <1>6, <1>7, <1>8 DEF SkeletonInv

(* On faithful data the skeleton loses no true link, and a false one only   *)
(* stays if nothing among the final neighbours of its first endpoint        *)
(* separates it: for any number of variables and any limit.                 *)
THEOREM SkeletonIsTested == Spec => []SkeletonFromFirstSide
<1>1. Inv /\ SkeletonInv /\ [Next]_vars => SkeletonInv'
  <2> SUFFICES ASSUME Inv, SkeletonInv, [Next]_vars PROVE SkeletonInv'
    OBVIOUS
  <2>1. CASE OrientVStructures \/ Visit \/ EndPass
    BY <2>1 DEF OrientVStructures, Visit, EndPass, SkeletonInv
  <2>2. CASE UNCHANGED vars
    <3>1. \A f, S : /\ TrueLink(f)' <=> TrueLink(f)
                    /\ Separated(f, S)' <=> Separated(f, S)
                    /\ Tested(f, S)' <=> Tested(f, S)
      BY <2>2 DEF vars, data, TrueLink, Linked, Separated, DSeparated, Ancestors, Tested
    <3>2. \A u : Neighbours(u)' = Neighbours(u)
      BY <2>2 DEF vars, Neighbours, Linked
    <3>3. QED
      BY <2>2, <3>1, <3>2 DEF vars, data, SkeletonInv
  <2>3. QED
    BY <2>1, <2>2, TestKeepsSkeleton, EndLevelKeepsSkeleton DEF Next
<1>2. Inv /\ SkeletonInv => SkeletonFromFirstSide
  <2> SUFFICES ASSUME Inv, SkeletonInv, faithful, phase = "colliders"
               PROVE  SkeletonFromFirstSide
    BY DEF SkeletonFromFirstSide
  <2>1. \A e \in Pairs \ skeleton : ~TrueLink(e)
    BY DEF Inv, TypeInv, TypeOK, SkeletonInv
  <2>2. ASSUME NEW e \in skeleton, NEW S \in SUBSET (Neighbours(e[1]) \ {e[2]}),
               Cardinality(S) <= MaxCondSet
        PROVE  ~DSeparated(law, e[1], e[2], S)
    <3>1. Cardinality(S) \in Nat /\ MaxCondSet \in Nat
      BY PCAssumption, VariablesAssumption, FS_Subset, FS_CardinalityType DEF Neighbours
    <3>2. e \notin DOMAIN sepSets /\ Tested(e, S)
      BY <2>2, <3>1 DEF SkeletonInv, Tested
    <3>3. QED
      BY <3>2 DEF SkeletonInv, Separated
  <2>3. QED
    BY <2>1, <2>2 DEF SkeletonFromFirstSide
<1>3. QED
  BY <1>1, <1>2, InvHolds, InitSkeleton, PTL DEF Spec
-----------------------------------------------------------------------------
(* What is between x and y and not in a set that separates them is an       *)
(* effect of both; and a common effect is in no such set.                   *)
LEMMA BetweenIsEffect ==
  ASSUME NEW arcs, NEW x \in Variables, NEW y \in Variables, NEW z \in Variables,
         NEW S \in SUBSET Variables, x \notin S, y \notin S, z \notin S,
         Linked(arcs, x, z), Linked(arcs, y, z), DSeparated(arcs, x, y, S)
  PROVE  <<x, z>> \in arcs /\ <<y, z>> \in arcs
<1> DEFINE A == Ancestors(arcs, {x, y} \cup S)
           Moral(a, b) == Linked(arcs, a, b)
                          \/ \E c \in A : <<a, c>> \in arcs /\ <<b, c>> \in arcs
<1>1. x \in A /\ y \in A
  BY DEF Ancestors
<1>2. PICK C \in SUBSET (A \ S) :
        /\ x \in C /\ y \notin C
        /\ \A a \in C, b \in (A \ S) \ C : ~Moral(a, b)
  BY DEF DSeparated
<1>3. z \notin A
  <2> SUFFICES ASSUME z \in A PROVE FALSE
    OBVIOUS
  <2>1. CASE z \in C
    <3>1. y \in (A \ S) \ C /\ Moral(z, y)
      BY <1>1, <1>2 DEF Linked
    <3>2. QED
      BY <1>2, <2>1, <3>1
  <2>2. CASE z \notin C
    <3>1. z \in (A \ S) \ C /\ Moral(x, z)
      BY <2>2
    <3>2. QED
      BY <1>2, <3>1
  <2>3. QED
    BY <2>1, <2>2
<1>4. <<z, x>> \notin arcs /\ <<z, y>> \notin arcs
  <2> SUFFICES ASSUME NEW w \in {x, y}, <<z, w>> \in arcs PROVE z \in A
    BY <1>3
  <2>1. \A D \in SUBSET Variables :
          {x, y} \cup S \subseteq D /\ (\A a \in arcs : a[2] \in D => a[1] \in D) => z \in D
    <3> TAKE D \in SUBSET Variables
    <3> HAVE {x, y} \cup S \subseteq D /\ (\A a \in arcs : a[2] \in D => a[1] \in D)
    <3>1. <<z, w>>[1] = z /\ <<z, w>>[2] = w /\ w \in D
      OBVIOUS
    <3>2. QED
      BY <3>1
  <2>2. QED
    BY <2>1 DEF Ancestors
<1>5. QED
  BY <1>4 DEF Linked

LEMMA EffectSeparatesNothing ==
  ASSUME NEW arcs, NEW x \in Variables, NEW y \in Variables, NEW z \in Variables,
         NEW S \in SUBSET Variables, x \notin S, y \notin S, z \in S,
         <<x, z>> \in arcs, <<y, z>> \in arcs
  PROVE  ~DSeparated(arcs, x, y, S)
<1> DEFINE A == Ancestors(arcs, {x, y} \cup S)
           Moral(a, b) == Linked(arcs, a, b)
                          \/ \E c \in A : <<a, c>> \in arcs /\ <<b, c>> \in arcs
<1>1. x \in A /\ y \in A /\ z \in A
  BY DEF Ancestors
<1>2. ASSUME NEW C \in SUBSET (A \ S), x \in C, y \notin C
      PROVE  \E a \in C, b \in (A \ S) \ C : Moral(a, b)
  <2>1. y \in (A \ S) \ C /\ Moral(x, y)
    BY <1>1, <1>2
  <2>2. QED
    BY <1>2, <2>1
<1>3. QED
  BY <1>2 DEF DSeparated

(* No graph without cycles has one of one, two or three arcs.               *)
LEMMA NoShortCycles ==
  ASSUME NEW arcs, Acyclic(arcs), NEW a \in Variables, NEW b \in Variables, NEW c \in Variables
  PROVE  /\ <<a, a>> \notin arcs
         /\ ~(<<a, b>> \in arcs /\ <<b, a>> \in arcs)
         /\ ~(<<a, b>> \in arcs /\ <<b, c>> \in arcs /\ <<c, a>> \in arcs)
<1>1. \A C \in (SUBSET Variables) \ {{}} : \E x \in C : \A y \in C : <<y, x>> \notin arcs
  BY DEF Acyclic
<1>2. {a} \in (SUBSET Variables) \ {{}} /\ {a, b} \in (SUBSET Variables) \ {{}}
      /\ {a, b, c} \in (SUBSET Variables) \ {{}}
  OBVIOUS
<1>3. <<a, a>> \notin arcs
  BY <1>1, <1>2
<1>4. ~(<<a, b>> \in arcs /\ <<b, a>> \in arcs)
  <2>1. PICK x \in {a, b} : \A y \in {a, b} : <<y, x>> \notin arcs
    BY <1>1, <1>2
  <2>2. QED
    BY <2>1
<1>5. ~(<<a, b>> \in arcs /\ <<b, c>> \in arcs /\ <<c, a>> \in arcs)
  <2>1. PICK x \in {a, b, c} : \A y \in {a, b, c} : <<y, x>> \notin arcs
    BY <1>1, <1>2
  <2>2. QED
    BY <2>1
<1>6. QED
  BY <1>3, <1>4, <1>5

RightSkeleton == faithful /\ \A e \in Pairs : e \in skeleton <=> TrueLink(e)

(* The data come from a graph in Laws, and what is noted of a removed link  *)
(* separates its ends.                                                      *)
Noted ==
  /\ faithful => law \in Laws
  /\ \A e \in DOMAIN sepSets :
       /\ e[1] \notin sepSets[e] /\ e[2] \notin sepSets[e]
       /\ faithful => Separated(e, sepSets[e])

(* A right skeleton has the links of the law, seen from either end.         *)
LEMMA RightLinks ==
  ASSUME Inv, Noted, RightSkeleton, NEW a \in Variables, NEW b \in Variables
  PROVE  Linked(skeleton, a, b) <=> Linked(law, a, b)
<1>1. a \in Nat /\ b \in Nat /\ skeleton \subseteq Pairs
  BY VariablesAssumption DEF Inv, TypeInv, TypeOK
<1>2. CASE a < b
  <2>1. <<a, b>> \in Pairs /\ <<b, a>> \notin Pairs
    <3>1. ~(b < a)
      BY <1>1, <1>2
    <3>2. QED
      BY <1>2, <3>1 DEF Pairs
  <2>2. <<a, b>> \in skeleton <=> Linked(law, a, b)
    BY <2>1 DEF RightSkeleton, TrueLink
  <2>3. QED
    BY <1>1, <2>1, <2>2 DEF Linked
<1>3. CASE b < a
  <2>1. <<b, a>> \in Pairs /\ <<a, b>> \notin Pairs
    <3>1. ~(a < b)
      BY <1>1, <1>3
    <3>2. QED
      BY <1>3, <3>1 DEF Pairs
  <2>2. <<b, a>> \in skeleton <=> Linked(law, b, a)
    BY <2>1 DEF RightSkeleton, TrueLink
  <2>3. QED
    BY <1>1, <2>1, <2>2 DEF Linked
<1>4. CASE a = b
  <2>1. <<a, a>> \notin law
    BY NoShortCycles, PCAssumption DEF Noted, RightSkeleton
  <2>2. <<a, a>> \notin Pairs
    <3>1. ~(a < a)
      BY <1>1
    <3>2. QED
      BY <3>1 DEF Pairs
  <2>3. QED
    BY <1>1, <1>4, <2>1, <2>2 DEF Linked
<1>5. QED
  BY <1>1, <1>2, <1>3, <1>4

(* Where the skeleton is right, a removed link between two neighbours of z  *)
(* was separated without z exactly if z is an effect of both.               *)
LEMMA CollidersAreTrue ==
  ASSUME Inv, Noted, RightSkeleton
  PROVE  {t \in Unshielded : IsCollider(t[1], t[2], t[3])} = Colliders(law)
<1>1. \A a, b \in Variables : Linked(skeleton, a, b) <=> Linked(law, a, b)
  BY RightLinks
<1>2. skeleton \subseteq Pairs /\ Pairs \ skeleton \subseteq DOMAIN sepSets
  BY DEF Inv, TypeInv, TypeOK
<1>3. ASSUME NEW x \in Variables, NEW z \in Variables, NEW y \in Variables, <<x, y>> \in Pairs \ skeleton,
             Linked(law, x, z), Linked(law, y, z)
      PROVE  IsCollider(x, z, y) <=> <<x, z>> \in law /\ <<y, z>> \in law
  <2> DEFINE e == <<x, y>>
             S == sepSets[e]
  <2>1. e \in DOMAIN sepSets /\ e[1] = x /\ e[2] = y
    BY <1>2, <1>3
  <2>2. S \in SUBSET Variables /\ x \notin S /\ y \notin S /\ DSeparated(law, x, y, S)
    <3>1. S \subseteq Variables
      BY <2>1 DEF Inv, TypeInv, TypeOK
    <3>2. e[1] \notin S /\ e[2] \notin S /\ Separated(e, S)
      BY <2>1 DEF Noted, RightSkeleton
    <3> HIDE DEF e
    <3>3. QED
      BY <2>1, <3>1, <3>2 DEF Separated
  <2>3. IsCollider(x, z, y) <=> z \notin S
    BY DEF IsCollider
  <2> HIDE DEF e, S
  <2>4. z \notin S => <<x, z>> \in law /\ <<y, z>> \in law
    BY <1>3, <2>2, BetweenIsEffect
  <2>5. z \in S => ~(<<x, z>> \in law /\ <<y, z>> \in law)
    BY <2>2, EffectSeparatesNothing
  <2>6. QED
    BY <2>3, <2>4, <2>5
<1>4. ASSUME NEW t \in Variables \X Variables \X Variables
      PROVE  (t \in Unshielded /\ IsCollider(t[1], t[2], t[3])) <=> t \in Colliders(law)
  <2>1. t[1] \in Variables /\ t[2] \in Variables /\ t[3] \in Variables
    OBVIOUS
  <2>2. <<t[1], t[3]>> \in Pairs \ skeleton <=> t[1] < t[3] /\ ~Linked(law, t[1], t[3])
    <3>1. <<t[1], t[3]>> \in Pairs <=> t[1] < t[3]
      BY <2>1 DEF Pairs
    <3>2. <<t[1], t[3]>> \in Pairs => (<<t[1], t[3]>> \in skeleton <=> Linked(law, t[1], t[3]))
      BY DEF RightSkeleton, TrueLink
    <3>3. QED
      BY <3>1, <3>2
  <2>3. /\ Linked(skeleton, t[1], t[2]) <=> Linked(law, t[1], t[2])
        /\ Linked(skeleton, t[3], t[2]) <=> Linked(law, t[3], t[2])
    BY <1>1, <2>1
  <2>4. t \in Unshielded <=> /\ <<t[1], t[3]>> \in Pairs \ skeleton
                             /\ Linked(law, t[1], t[2]) /\ Linked(law, t[3], t[2])
    BY <2>3 DEF Unshielded
  <2>5. t \in Colliders(law) <=> /\ t[1] < t[3] /\ ~Linked(law, t[1], t[3])
                                 /\ <<t[1], t[2]>> \in law /\ <<t[3], t[2]>> \in law
    BY DEF Colliders
  <2>6. t \in Unshielded => (IsCollider(t[1], t[2], t[3]) <=> <<t[1], t[2]>> \in law /\ <<t[3], t[2]>> \in law)
    BY <1>3, <2>1, <2>4
  <2>7. <<t[1], t[2]>> \in law /\ <<t[3], t[2]>> \in law => Linked(law, t[1], t[2]) /\ Linked(law, t[3], t[2])
    BY DEF Linked
  <2>8. QED
    BY <2>2, <2>4, <2>5, <2>6, <2>7
<1>5. QED
  BY <1>4 DEF Unshielded, Colliders

(* The colliders are those of the separating sets, and what they removed    *)
(* stays removed.                                                           *)
Found ==
  phase \in {"meek", "done"} =>
    /\ vStructures = {t \in Unshielded : IsCollider(t[1], t[2], t[3])}
    /\ \A t \in vStructures : <<t[2], t[1]>> \notin cpdag /\ <<t[2], t[3]>> \notin cpdag

(* A direction is only removed if the data rule it out.                     *)
RuledOut ==
  phase \in {"meek", "done"} /\ RightSkeleton =>
    \A g \in Laws : Equivalent(law, g) =>
      \A arc \in BothWays(skeleton) \ cpdag : Reverse(arc) \in g

SoundInv == Noted /\ Found /\ RuledOut

LEMMA InitSound == Init => SoundInv
<1> SUFFICES ASSUME Init PROVE SoundInv
  OBVIOUS
<1>1. /\ DOMAIN sepSets = {} /\ phase = "skeleton" /\ (faithful => law \in Laws)
  BY DEF Init
<1>2. QED
  BY <1>1 DEF SoundInv, Noted, Found, RuledOut

LEMMA TestKeepsSound ==
  ASSUME Inv, SoundInv, Test
  PROVE  SoundInv'
<1>1. PICK e \in left :
        \/ \E S \in Candidates(e) :
             /\ faithful => Separated(e, S)
             /\ sepSets' = [d \in DOMAIN sepSets \cup {e} |-> IF d = e THEN S ELSE sepSets[d]]
        \/ sepSets' = sepSets
  BY DEF Test
<1>2. phase = "skeleton" /\ phase' = phase /\ faithful' = faithful /\ law' = law
  BY DEF Test, data
<1>3. \A d, S : Separated(d, S)' <=> Separated(d, S)
  BY <1>2 DEF Separated, DSeparated, Ancestors, Linked
<1>4. e \in Pairs /\ e[1] \in Variables /\ e[2] \in Variables
  BY DEF Inv, TypeInv, TypeOK, Pairs
<1>5. \A S \in Candidates(e) : e[1] \notin S /\ e[2] \notin S
  <2>1. e[1] \in Nat
    BY <1>4, VariablesAssumption
  <2>2. ~(e[1] < e[1])
    BY <2>1
  <2>3. <<e[1], e[1]>> \notin Pairs
    BY <2>2 DEF Pairs
  <2>4. skeleton \subseteq Pairs
    BY DEF Inv, TypeInv, TypeOK
  <2>5. QED
    BY <2>3, <2>4 DEF Candidates, Neighbours, Linked
<1>6. \A d \in DOMAIN sepSets' :
        /\ d[1] \notin sepSets'[d] /\ d[2] \notin sepSets'[d]
        /\ faithful => Separated(d, sepSets'[d])
  <2>1. CASE sepSets' = sepSets
    BY <2>1 DEF SoundInv, Noted
  <2>2. ASSUME NEW S \in Candidates(e), faithful => Separated(e, S),
               sepSets' = [d \in DOMAIN sepSets \cup {e} |-> IF d = e THEN S ELSE sepSets[d]]
        PROVE  \A d \in DOMAIN sepSets' :
                 /\ d[1] \notin sepSets'[d] /\ d[2] \notin sepSets'[d]
                 /\ faithful => Separated(d, sepSets'[d])
    BY <1>5, <2>2 DEF SoundInv, Noted
  <2>3. QED
    BY <1>1, <2>1, <2>2
<1>7. Noted'
  BY <1>2, <1>3, <1>6 DEF SoundInv, Noted
<1>8. QED
  BY <1>2, <1>7 DEF SoundInv, Found, RuledOut

(* Before anything is oriented and after the last removal nothing that is   *)
(* said of links and separating sets changes.                               *)
LEMMA NotedStays ==
  ASSUME Noted, UNCHANGED <<data, sepSets>>
  PROVE  Noted'
<1>1. \A d, S : Separated(d, S)' <=> Separated(d, S)
  BY DEF Separated, DSeparated, Ancestors, Linked, data
<1>2. faithful' = faithful /\ law' = law /\ sepSets' = sepSets
  BY DEF data
<1>3. QED
  BY <1>1, <1>2 DEF Noted

LEMMA RightSkeletonStays ==
  ASSUME UNCHANGED <<data, skeleton>>
  PROVE  /\ RightSkeleton' <=> RightSkeleton
         /\ \A g : Equivalent(law, g)' <=> Equivalent(law, g)
         /\ BothWays(skeleton)' = BothWays(skeleton)
         /\ Unshielded' = Unshielded
BY DEF RightSkeleton, TrueLink, Linked, Equivalent, Colliders, BothWays, Unshielded, data

LEMMA EndLevelKeepsSound ==
  ASSUME SoundInv, EndLevel
  PROVE  SoundInv'
<1>1. Noted'
  BY NotedStays DEF EndLevel, SoundInv
<1>2. phase' \in {"skeleton", "colliders"}
  BY DEF EndLevel
<1>3. QED
  BY <1>1, <1>2 DEF SoundInv, Found, RuledOut

LEMMA OrientVStructuresKeepsSound ==
  ASSUME Inv, SoundInv, OrientVStructures
  PROVE  SoundInv'
<1>1. /\ vStructures' = {t \in Unshielded : IsCollider(t[1], t[2], t[3])}
      /\ cpdag' = BothWays(skeleton) \ UNION {{<<t[2], t[1]>>, <<t[2], t[3]>>} : t \in vStructures'}
      /\ UNCHANGED <<data, skeleton, sepSets>>
      /\ law' = law
  BY DEF OrientVStructures, data
<1>2. Noted'
  BY <1>1, NotedStays DEF SoundInv
<1>3. Found'
  <2>1. vStructures' = {t \in Unshielded' : IsCollider(t[1], t[2], t[3])'}
    BY <1>1, RightSkeletonStays DEF IsCollider
  <2>2. \A t \in vStructures' : <<t[2], t[1]>> \notin cpdag' /\ <<t[2], t[3]>> \notin cpdag'
    BY <1>1
  <2>3. QED
    BY <2>1, <2>2 DEF Found
<1>4. RuledOut'
  <2> SUFFICES ASSUME RightSkeleton, NEW g \in Laws, Equivalent(law, g),
                      NEW arc \in BothWays(skeleton) \ cpdag'
               PROVE  Reverse(arc) \in g
    BY <1>1, RightSkeletonStays DEF RuledOut
  <2>1. vStructures' = Colliders(g)
    BY <1>1, CollidersAreTrue DEF SoundInv, Equivalent
  <2>2. PICK t \in vStructures' : arc \in {<<t[2], t[1]>>, <<t[2], t[3]>>}
    BY <1>1
  <2>3. <<t[1], t[2]>> \in g /\ <<t[3], t[2]>> \in g
    BY <2>1 DEF Colliders
  <2>4. QED
    BY <2>2, <2>3 DEF Reverse
<1>5. QED
  BY <1>2, <1>3, <1>4 DEF SoundInv

(* In a state where only wrong directions have been removed, the rules      *)
(* orient a link the only way that is left.                                 *)
LEMMA DirectedIsRight ==
  ASSUME Inv, SoundInv, phase = "meek", RightSkeleton, NEW g \in Laws, Equivalent(law, g),
         NEW a \in Variables, NEW b \in Variables, IsDirected(a, b)
  PROVE  <<a, b>> \in g
<1>1. <<a, b>> \in BothWays(skeleton) /\ <<b, a>> \notin cpdag
  BY DEF IsDirected, Inv, TypeInv, TypeOK
<1>2. <<b, a>> \in BothWays(skeleton)
  BY <1>1 DEF BothWays, Reverse, Inv, TypeInv, TypeOK, Pairs
<1>3. Reverse(<<b, a>>) \in g
  BY <1>1, <1>2 DEF SoundInv, RuledOut
<1>4. QED
  BY <1>3 DEF Reverse

LEMMA RulesAreRight ==
  ASSUME Inv, SoundInv, phase = "meek", RightSkeleton, NEW g \in Laws, Equivalent(law, g),
         NEW u \in Variables, NEW v \in Variables, <<u, v>> \in cpdag, <<v, u>> \in cpdag,
         R1(u, v) \/ R2(u, v)
  PROVE  <<u, v>> \in g
<1>1. Acyclic(g) /\ law \in Laws
  BY PCAssumption DEF SoundInv, Noted, RightSkeleton
<1>2. \A a, b \in Variables : Linked(skeleton, a, b) <=> Linked(g, a, b)
  <2>1. \A a, b \in Variables : Linked(skeleton, a, b) <=> Linked(law, a, b)
    BY RightLinks DEF SoundInv
  <2>2. QED
    BY <2>1 DEF Equivalent
<1>3. <<u, v>> \in g \/ <<v, u>> \in g
  <2>1. Linked(skeleton, u, v)
    BY DEF Inv, TypeInv, TypeOK, BothWays, Reverse, Linked, Pairs
  <2>2. QED
    BY <1>2, <2>1 DEF Linked
<1>4. CASE R1(u, v)
  <2>1. PICK a \in Variables \ {v} : IsDirected(a, u) /\ ~Linked(skeleton, a, v)
    BY <1>4 DEF R1
  <2>2. <<a, u>> \in g
    BY <2>1, DirectedIsRight
  <2> SUFFICES ASSUME <<v, u>> \in g PROVE FALSE
    BY <1>3
  <2>3. ~Linked(g, a, v) /\ ~Linked(g, v, a)
    BY <1>2, <2>1 DEF Linked
  <2>4. vStructures = Colliders(g)
    BY CollidersAreTrue DEF SoundInv, Found, Equivalent
  <2>5. a < v \/ v < a
    <3>1. a \in Nat /\ v \in Nat /\ a # v
      BY VariablesAssumption
    <3>2. QED
      BY <3>1
  <2>6. CASE a < v
    <3>1. <<a, u, v>> \in Colliders(g)
      BY <2>2, <2>3, <2>6 DEF Colliders
    <3>2. <<u, v>> \notin cpdag
      BY <2>4, <3>1 DEF SoundInv, Found
    <3>3. QED
      BY <3>2
  <2>7. CASE v < a
    <3>1. <<v, u, a>> \in Colliders(g)
      BY <2>2, <2>3, <2>7 DEF Colliders
    <3>2. <<u, v>> \notin cpdag
      BY <2>4, <3>1 DEF SoundInv, Found
    <3>3. QED
      BY <3>2
  <2>8. QED
    BY <2>5, <2>6, <2>7
<1>5. CASE R2(u, v)
  <2>1. PICK b \in Variables \ {v} : IsDirected(u, b) /\ IsDirected(b, v)
    BY <1>5 DEF R2
  <2>2. <<u, b>> \in g /\ <<b, v>> \in g
    BY <2>1, DirectedIsRight
  <2>3. <<v, u>> \notin g
    BY <1>1, <2>2, NoShortCycles
  <2>4. QED
    BY <1>3, <2>3
<1>6. QED
  BY <1>4, <1>5

LEMMA VisitKeepsSound ==
  ASSUME Inv, SoundInv, Visit
  PROVE  SoundInv'
<1>1. PICK e \in left :
        LET wrong == IF Open(e) /\ Forward(e[1], e[2]) THEN {Reverse(e)}
                     ELSE IF Open(e) /\ Backward(e[1], e[2]) THEN {e} ELSE {}
        IN  cpdag' = cpdag \ wrong
  BY DEF Visit
<1>2. /\ phase = "meek" /\ phase' = "meek" /\ vStructures' = vStructures
      /\ UNCHANGED <<data, skeleton, sepSets>> /\ law' = law
  BY DEF Visit, data
<1>3. Noted'
  BY <1>2, NotedStays DEF SoundInv
<1>4. cpdag' \subseteq cpdag
  BY <1>1
<1>5. Found'
  <2>1. {t \in Unshielded : IsCollider(t[1], t[2], t[3])}' = {t \in Unshielded : IsCollider(t[1], t[2], t[3])}
    BY <1>2, RightSkeletonStays DEF IsCollider
  <2>2. QED
    BY <1>2, <1>4, <2>1 DEF SoundInv, Found
<1>6. RuledOut'
  <2> SUFFICES ASSUME RightSkeleton, NEW g \in Laws, Equivalent(law, g),
                      NEW arc \in BothWays(skeleton) \ cpdag'
               PROVE  Reverse(arc) \in g
    BY <1>2, RightSkeletonStays DEF RuledOut
  <2>1. CASE arc \notin cpdag
    BY <1>2, <2>1 DEF SoundInv, RuledOut
  <2>2. CASE arc \in cpdag
    <3>1. e \in Pairs /\ e \in skeleton
      BY DEF Inv, TypeInv, TypeOK
    <3>2. /\ e[1] \in Variables /\ e[2] \in Variables /\ e = <<e[1], e[2]>>
          /\ Reverse(e) = <<e[2], e[1]>> /\ Reverse(Reverse(e)) = e
      BY <3>1, LinkOrder, LinksAreOneWay DEF Pairs
    <3>3. Open(e)
      BY <1>1, <2>2
    <3>4. <<e[1], e[2]>> \in cpdag /\ <<e[2], e[1]>> \in cpdag
      BY <3>2, <3>3 DEF Open
    <3>5. CASE Forward(e[1], e[2])
      <4>1. arc = Reverse(e)
        BY <1>1, <2>2, <3>3, <3>5
      <4>2. <<e[1], e[2]>> \in g
        BY <1>2, <3>2, <3>4, <3>5, RulesAreRight DEF Forward
      <4>3. QED
        BY <3>2, <4>1, <4>2
    <3>6. CASE ~Forward(e[1], e[2]) /\ Backward(e[1], e[2])
      <4>1. arc = e
        BY <1>1, <2>2, <3>3, <3>6
      <4>2. <<e[2], e[1]>> \in g
        BY <1>2, <3>2, <3>4, <3>6, RulesAreRight DEF Backward
      <4>3. QED
        BY <3>2, <4>1, <4>2
    <3>7. QED
      BY <1>1, <2>2, <3>5, <3>6
  <2>3. QED
    BY <2>1, <2>2
<1>7. QED
  BY <1>3, <1>5, <1>6 DEF SoundInv

LEMMA SoundStays ==
  ASSUME SoundInv, UNCHANGED <<data, skeleton, sepSets, vStructures, cpdag>>,
         phase' = phase \/ (phase = "meek" /\ phase' = "done")
  PROVE  SoundInv'
<1>1. Noted'
  BY NotedStays DEF SoundInv
<1>2. Found'
  <2>1. {t \in Unshielded : IsCollider(t[1], t[2], t[3])}' = {t \in Unshielded : IsCollider(t[1], t[2], t[3])}
    BY RightSkeletonStays DEF IsCollider
  <2>2. QED
    BY <2>1 DEF SoundInv, Found
<1>3. RuledOut'
  BY RightSkeletonStays DEF SoundInv, RuledOut
<1>4. QED
  BY <1>1, <1>2, <1>3 DEF SoundInv

LEMMA SoundHolds == Spec => []SoundInv
<1>1. Inv /\ SoundInv /\ [Next]_vars => SoundInv'
  <2> SUFFICES ASSUME Inv, SoundInv, [Next]_vars PROVE SoundInv'
    OBVIOUS
  <2>1. CASE EndPass
    <3>1. /\ UNCHANGED <<data, skeleton, sepSets, vStructures, cpdag>>
          /\ phase' = phase \/ (phase = "meek" /\ phase' = "done")
      BY <2>1 DEF EndPass
    <3>2. QED
      BY <3>1, SoundStays
  <2>2. CASE UNCHANGED vars
    <3>1. UNCHANGED <<data, skeleton, sepSets, vStructures, cpdag>> /\ phase' = phase
      BY <2>2 DEF vars
    <3>2. QED
      BY <3>1, SoundStays
  <2>3. QED
    BY <2>1, <2>2, TestKeepsSound, EndLevelKeepsSound, OrientVStructuresKeepsSound, VisitKeepsSound DEF Next
<1>2. QED
  BY <1>1, InvHolds, InitSound, PTL DEF Spec

(* Where the skeleton is right, an arrow of the result is in every graph    *)
(* that the data cannot tell from the true one.                             *)
LEMMA ArrowsAreRight ==
  ASSUME Inv, SoundInv, Exact, NEW g \in Laws, Equivalent(law, g)
  PROVE  DirectedEdges \subseteq g
<1> SUFFICES ASSUME NEW a \in DirectedEdges PROVE a \in g
  OBVIOUS
<1>1. a \in BothWays(skeleton) /\ <<a[1], a[2]>> \in cpdag /\ <<a[2], a[1]>> \notin cpdag
  BY DEF DirectedEdges, IsDirected
<1>2. skeleton \subseteq Pairs
  BY DEF Inv, TypeInv, TypeOK
<1>3. a = <<a[1], a[2]>> /\ <<a[2], a[1]>> \in BothWays(skeleton)
  <2>1. CASE a \in skeleton
    BY <1>2, <2>1, LinkOrder DEF BothWays
  <2>2. ASSUME NEW e \in skeleton, a = Reverse(e) PROVE a = <<a[1], a[2]>> /\ <<a[2], a[1]>> \in BothWays(skeleton)
    <3>1. e = <<e[1], e[2]>> /\ a = <<e[2], e[1]>>
      BY <1>2, <2>2, LinkOrder
    <3>2. e \in BothWays(skeleton)
      BY DEF BothWays
    <3>3. QED
      BY <3>1, <3>2
  <2>3. QED
    BY <1>1, <2>1, <2>2 DEF BothWays
<1>4. RightSkeleton /\ phase = "done"
  BY DEF Exact, RightSkeleton
<1>5. Reverse(<<a[2], a[1]>>) \in g
  BY <1>1, <1>3, <1>4 DEF SoundInv, RuledOut
<1>6. QED
  BY <1>3, <1>5 DEF Reverse

(* The arrows of fit are sound, colliders and both rules, for any number of *)
(* variables and any acyclic law, where the skeleton is right.              *)
THEOREM OrientationAlwaysSound == Spec => []OrientationIsSound
<1>1. Inv /\ SoundInv => OrientationIsSound
  BY ArrowsAreRight DEF OrientationIsSound
<1>2. QED
  BY <1>1, InvHolds, SoundHolds, PTL

(* On a right skeleton, the colliders are exactly those of the law.         *)
CollidersFound ==
  phase \in {"meek", "done"} /\ RightSkeleton => vStructures = Colliders(law)

THEOREM CollidersAlwaysFound == Spec => []CollidersFound
<1>1. Inv /\ SoundInv => CollidersFound
  BY CollidersAreTrue DEF CollidersFound, SoundInv, Found
<1>2. QED
  BY <1>1, InvHolds, SoundHolds, PTL

(* True edges of the Granger engine are confirmed or left open by such a    *)
(* result, never contradicted, and the fusion has no cycle.                 *)
THEOREM TruthAlwaysAgrees == Spec => []TruthNeverConflicts
<1>1. Inv /\ SoundInv => TruthNeverConflicts
  <2> SUFFICES ASSUME Inv, SoundInv, Exact, NEW granger \in SUBSET law
               PROVE  /\ \A a \in granger : Fused(granger)[a] \in {"confirmed", "granger_pc_undirected"}
                      /\ Acyclic(DOMAIN Fused(granger))
    BY DEF TruthNeverConflicts
  <2>1. law \in Laws /\ Acyclic(law) /\ law \subseteq Variables \X Variables
    BY PCAssumption DEF SoundInv, Noted, Exact
  <2>2. DirectedEdges \subseteq law
    <3>1. Equivalent(law, law)
      BY DEF Equivalent
    <3>2. QED
      BY <2>1, <3>1, ArrowsAreRight
  <2>3. DOMAIN Fused(granger) = granger \cup DirectedEdges
    BY DEF Fused
  <2>4. Acyclic(DOMAIN Fused(granger))
    BY <2>1, <2>2, <2>3 DEF Acyclic
  <2>5. ASSUME NEW a \in granger PROVE Fused(granger)[a] \in {"confirmed", "granger_pc_undirected"}
    <3>1. Fused(granger)[a] = Method(a)
      BY <2>3 DEF Fused
    <3>2. a \in law /\ a[1] \in Variables /\ a[2] \in Variables /\ a = <<a[1], a[2]>>
      BY <2>1
    <3>3. Reverse(a) \notin DirectedEdges
      BY <2>1, <2>2, <3>2, NoShortCycles DEF Reverse
    <3>4. a \notin DirectedEdges => Linked(UndirectedEdges, a[1], a[2])
      <4> SUFFICES ASSUME a \notin DirectedEdges PROVE Linked(UndirectedEdges, a[1], a[2])
        OBVIOUS
      <4>1. Linked(skeleton, a[1], a[2])
        <5>1. Linked(law, a[1], a[2])
          BY <3>2 DEF Linked
        <5>2. QED
          BY <3>2, <5>1, RightLinks DEF SoundInv, Exact, RightSkeleton
      <4>2. PICK e \in {a, Reverse(a)} : e \in skeleton
        BY <3>2, <4>1 DEF Linked, Reverse
      <4>3. {e, Reverse(e)} = {a, Reverse(a)}
        BY <3>2, <4>2 DEF Reverse
      <4>4. e \in UndirectedEdges
        BY <3>3, <4>2, <4>3 DEF UndirectedEdges
      <4>5. QED
        BY <3>2, <4>2, <4>4 DEF Linked, Reverse
    <3>5. QED
      BY <3>1, <3>3, <3>4 DEF Method
  <2>6. QED
    BY <2>4, <2>5
<1>2. QED
  BY <1>1, InvHolds, SoundHolds, PTL
-----------------------------------------------------------------------------
(* Conditioning sets come from the first endpoint of a link only.  That is  *)
(* enough where the causes of a variable stand in later columns than it     *)
(* does and a conditioning set may hold them all.                           *)
Causes(v) == {u \in Variables : <<u, v>> \in law}
CausesComeLater ==
  /\ \A arc \in law : arc[2] < arc[1]
  /\ \A v \in Variables : Cardinality(Causes(v)) <= MaxCondSet

RightWhenCausesComeLater ==
  faithful /\ CausesComeLater /\ phase # "skeleton" => RightSkeleton

(* The causes of the first endpoint separate it from every later variable   *)
(* it has no link with: all that can matter stands in later columns.        *)
LEMMA LaterCausesSeparate ==
  ASSUME NEW arcs \in SUBSET (Variables \X Variables), \A arc \in arcs : arc[2] < arc[1],
         NEW u \in Variables, NEW v \in Variables, u < v, ~Linked(arcs, u, v)
  PROVE  DSeparated(arcs, u, v, {w \in Variables : <<w, u>> \in arcs})
<1> DEFINE S == {w \in Variables : <<w, u>> \in arcs}
           A == Ancestors(arcs, {u, v} \cup S)
           Moral(a, b) == Linked(arcs, a, b)
                          \/ \E c \in A : <<a, c>> \in arcs /\ <<b, c>> \in arcs
           Later == {w \in Variables : u <= w}
<1>1. \A w \in Variables : w \in Nat
  BY VariablesAssumption
<1>2. \A a, b \in Variables : <<a, b>> \in arcs => b < a
  <2> TAKE a, b \in Variables
  <2> HAVE <<a, b>> \in arcs
  <2>1. <<a, b>>[2] < <<a, b>>[1]
    OBVIOUS
  <2>2. QED
    BY <2>1
<1>3. A \subseteq Later
  <2>1. {u, v} \cup S \subseteq Later
    BY <1>1, <1>2
  <2>2. ASSUME NEW a \in arcs, a[2] \in Later PROVE a[1] \in Later
    <3>1. a[1] \in Variables /\ a[2] \in Variables /\ a[2] < a[1] /\ u <= a[2]
      BY <2>2
    <3>2. QED
      BY <1>1, <3>1
  <2>3. Later \in SUBSET Variables
    OBVIOUS
  <2>4. QED
    BY <2>1, <2>2, <2>3 DEF Ancestors
<1>4. u \in A /\ u \notin S /\ u # v
  <2>1. u \in Nat /\ ~(u < u)
    BY <1>1
  <2>2. QED
    BY <1>2, <2>1 DEF Ancestors
<1>5. ASSUME NEW b \in (A \ S) \ {u} PROVE ~Moral(u, b)
  <2>1. b \in Variables /\ u <= b /\ u \in Nat /\ b \in Nat
    BY <1>1, <1>3
  <2>2. <<u, b>> \notin arcs
    BY <1>2, <2>1
  <2>3. <<b, u>> \notin arcs
    BY <2>1
  <2>4. ASSUME NEW c \in A, <<u, c>> \in arcs PROVE FALSE
    <3>1. c \in Variables /\ u <= c /\ c < u /\ c \in Nat
      BY <1>1, <1>2, <1>3, <2>4
    <3>2. QED
      BY <2>1, <3>1
  <2>5. QED
    BY <2>2, <2>3, <2>4 DEF Linked
<1>6. {u} \in SUBSET (A \ S) /\ v \notin {u} /\ u \in {u}
  BY <1>4
<1>7. \A a \in {u}, b \in (A \ S) \ {u} : ~Moral(a, b)
  <2> TAKE a \in {u}, b \in (A \ S) \ {u}
  <2>1. a = u
    OBVIOUS
  <2>2. QED
    BY <1>5, <2>1
<1>8. \E C \in SUBSET (A \ S) :
        /\ u \in C /\ v \notin C
        /\ \A a \in C, b \in (A \ S) \ C : ~Moral(a, b)
  <2> HIDE DEF A, S, Moral
  <2> QED
    BY <1>6, <1>7
<1>9. QED
  BY <1>8, Zenon DEF DSeparated

(* The positive side of what the reversed columns show: with the causes of  *)
(* each variable in later columns the skeleton, and so all that is oriented *)
(* on it, is right, for any number of variables.                            *)
THEOREM CausesInLaterColumns == Spec => []RightWhenCausesComeLater
<1>1. Inv /\ SoundInv /\ SkeletonFromFirstSide /\ phase = "colliders" => RightWhenCausesComeLater
  <2> SUFFICES ASSUME Inv, SoundInv, SkeletonFromFirstSide, phase = "colliders",
                      faithful, CausesComeLater
               PROVE  RightSkeleton
    BY DEF RightWhenCausesComeLater
  <2>1. skeleton \subseteq Pairs /\ law \in SUBSET (Variables \X Variables)
    BY DEF Inv, TypeInv, TypeOK
  <2>2. \A e \in Pairs \ skeleton : ~TrueLink(e)
    BY DEF SkeletonFromFirstSide
  <2>3. ASSUME NEW e \in skeleton PROVE TrueLink(e)
    <3> SUFFICES ASSUME ~TrueLink(e) PROVE FALSE
      OBVIOUS
    <3> DEFINE u == e[1]
               v == e[2]
    <3>1. e \in Pairs /\ u \in Variables /\ v \in Variables /\ u < v /\ ~Linked(law, u, v)
      BY <2>1 DEF Pairs, TrueLink
    <3> HIDE DEF u, v
    <3>2. DSeparated(law, u, v, Causes(u))
      BY <2>1, <3>1, LaterCausesSeparate DEF CausesComeLater, Causes
    <3>3. Causes(u) \subseteq Neighbours(u) \ {v}
      <4> SUFFICES ASSUME NEW w \in Causes(u) PROVE w \in Neighbours(u) /\ w # v
        OBVIOUS
      <4>1. w \in Variables /\ <<w, u>> \in law
        BY DEF Causes
      <4>2. w # v
        BY <3>1, <4>1 DEF Linked
      <4>3. u < w
        <5>1. <<w, u>>[2] < <<w, u>>[1]
          BY <4>1 DEF CausesComeLater
        <5>2. QED
          BY <5>1
      <4>4. <<u, w>> \in Pairs
        BY <3>1, <4>1, <4>3 DEF Pairs
      <4>5. TrueLink(<<u, w>>)
        BY <4>1 DEF TrueLink, Linked
      <4>6. <<u, w>> \in skeleton
        BY <2>2, <4>4, <4>5
      <4>7. QED
        BY <4>1, <4>2, <4>6 DEF Neighbours, Linked
    <3>4. Cardinality(Causes(u)) <= MaxCondSet
      BY <3>1 DEF CausesComeLater
    <3>5. ~DSeparated(law, e[1], e[2], Causes(u))
      BY <3>3, <3>4 DEF SkeletonFromFirstSide, u, v
    <3>6. QED
      BY <3>2, <3>5 DEF u, v
  <2>4. QED
    BY <2>2, <2>3 DEF RightSkeleton
<1>2. ASSUME Inv, SoundInv', Inv', SkeletonFromFirstSide', RightWhenCausesComeLater, [Next]_vars
      PROVE  RightWhenCausesComeLater'
  <2>1. CASE Test
    BY <2>1 DEF Test, RightWhenCausesComeLater
  <2>2. CASE EndLevel
    <3>1. phase' = "colliders" \/ phase' = "skeleton"
      BY <2>2 DEF EndLevel
    <3>2. CASE phase' = "colliders"
      <4>1. Inv' /\ SoundInv' /\ SkeletonFromFirstSide' /\ (phase = "colliders")'
            => RightWhenCausesComeLater'
        BY <1>1, PTL
      <4>2. QED
        BY <1>2, <3>2, <4>1
    <3>3. CASE phase' = "skeleton"
      BY <3>3 DEF RightWhenCausesComeLater
    <3>4. QED
      BY <3>1, <3>2, <3>3
  <2>3. CASE UNCHANGED <<data, skeleton>> /\ phase # "skeleton"
    <3>1. CausesComeLater' <=> CausesComeLater
      BY <2>3 DEF CausesComeLater, Causes, data
    <3>2. faithful' = faithful
      BY <2>3 DEF data
    <3>3. RightSkeleton' <=> RightSkeleton
      BY <2>3, RightSkeletonStays
    <3>4. QED
      BY <1>2, <2>3, <3>1, <3>2, <3>3 DEF RightWhenCausesComeLater
  <2>4. CASE OrientVStructures \/ Visit \/ EndPass
    BY <2>3, <2>4 DEF OrientVStructures, Visit, EndPass
  <2>5. CASE UNCHANGED vars
    <3>1. CASE phase = "skeleton"
      BY <2>5, <3>1 DEF vars, RightWhenCausesComeLater
    <3>2. CASE phase # "skeleton"
      BY <2>3, <2>5, <3>2 DEF vars
    <3>3. QED
      BY <3>1, <3>2
  <2>6. QED
    BY <1>2, <2>1, <2>2, <2>4, <2>5 DEF Next
<1>3. Init => RightWhenCausesComeLater
  BY DEF Init, RightWhenCausesComeLater
<1>4. QED
  BY <1>2, <1>3, InvHolds, SoundHolds, SkeletonIsTested, PTL DEF Spec

(* What fit is for: with the causes of each variable in later columns, the  *)
(* result has the links of the law, an arrow only where every graph with    *)
(* the law's links and colliders has it, and all of the law's colliders.    *)
FitIsRight ==
  faithful /\ CausesComeLater /\ phase = "done" =>
    /\ \A e \in Pairs : e \in skeleton <=> TrueLink(e)
    /\ \A g \in Laws : Equivalent(law, g) => DirectedEdges \subseteq g
    /\ vStructures = Colliders(law)

THEOREM FitIsRightWhenCausesComeLater == Spec => []FitIsRight
<1>1. RightWhenCausesComeLater /\ OrientationIsSound /\ CollidersFound => FitIsRight
  BY DEF RightWhenCausesComeLater, OrientationIsSound, CollidersFound, RightSkeleton,
     Exact, FitIsRight
<1>2. QED
  BY <1>1, CausesInLaterColumns, OrientationAlwaysSound, CollidersAlwaysFound, PTL
=============================================================================

--------------------------- MODULE RecalibratorProofs ---------------------------
(***************************************************************************)
(* Theorems about the numbers of the recalibration, for every learning     *)
(* rate, floor and ceiling around neutral, every sequence of batches of    *)
(* any size and resets at every point of a pass: multipliers and graph     *)
(* weights stay in their ranges, the edges of a network function move as   *)
(* one unless a reset fell between them, and none of them but the one held *)
(* across a reset is pushed to a side of neutral without an outcome that   *)
(* pushes it there.                                                        *)
(***************************************************************************)
EXTENDS Recalibrator, FiniteSetTheorems, TLAPS

(* Decay keeps a weight on its side of neutral and no further from it.      *)
LEMMA FadeProperties ==
  ASSUME NEW w \in Int
  PROVE  /\ Fade(w) \in Int
         /\ w >= One => One <= Fade(w) /\ Fade(w) <= w
         /\ w <= One => w <= Fade(w) /\ Fade(w) <= One
BY DEF Fade, One

LEMMA ClampProperties ==
  ASSUME NEW w \in Int
  PROVE  /\ Clamp(w) \in Int
         /\ WeightFloor <= Clamp(w) /\ Clamp(w) <= WeightCeiling
         /\ Clamp(w) > One => w > One
         /\ Clamp(w) < One => w < One
BY RecalibratorAssumption DEF Clamp, Between, One

LEMMA SafeRange ==
  ASSUME NEW w \in Int
  PROVE  LET safe == Between(WeightMin, w, WeightMax)
         IN /\ safe \in Int /\ WeightMin <= safe /\ safe <= WeightMax
            /\ w <= WeightMax => w <= safe
            /\ w > WeightMax => safe = WeightMax
BY DEF Between, WeightMin, WeightMax

(* Scaling by a multiplier keeps a weight in the safe range, and lowers it  *)
(* only if the multiplier is below neutral.                                 *)
LEMMA ScaledProperties ==
  ASSUME NEW w \in Nat, w <= WeightMax, NEW m \in Nat
  PROVE  /\ Scaled(w, m) \in Nat
         /\ WeightMin <= Scaled(w, m) /\ Scaled(w, m) <= WeightMax
         /\ m >= One => Scaled(w, m) >= w
<1>1. w * m \in Nat /\ WeightMin \in Nat /\ WeightMax \in Nat
  BY DEF WeightMin, WeightMax
<1>2. Round(w * m, One) \in Int
  BY <1>1 DEF Round, One
<1>3. /\ Scaled(w, m) \in Nat
      /\ WeightMin <= Scaled(w, m) /\ Scaled(w, m) <= WeightMax
  BY <1>1, <1>2, SafeRange DEF Scaled
<1>4. ASSUME m >= One PROVE Scaled(w, m) >= w
  <2>1. w * m >= w * One
    <3>1. m - One \in Nat
      BY <1>4 DEF One
    <3>2. w * (m - One) \in Nat
      BY <1>1, <3>1
    <3>3. w * m = w * One + w * (m - One)
      BY <1>1, <3>1 DEF One
    <3>4. QED
      BY <1>1, <3>2, <3>3 DEF One
  <2>2. Round(w * m, One) >= w
    BY <1>1, <2>1 DEF Round, One
  <2>3. QED
    BY <1>1, <1>2, <2>2, SafeRange DEF Scaled
<1>5. QED
  BY <1>3, <1>4
-----------------------------------------------------------------------------
LEMMA BatchType ==
  ASSUME NEW entries \in Batches
  PROVE  /\ Len(entries) \in Nat
         /\ \A i \in 1..Len(entries) : /\ entries[i] \in Entry /\ entries[i].nf \in NFs
                                     /\ entries[i] = [nf |-> entries[i].nf,
                                                    outcome |-> entries[i].outcome]
<1>1. PICK n \in 1..MaxBatch : entries \in [1..n -> Entry]
  BY DEF Batches
<1>2. n \in Nat /\ entries \in Seq(Entry) /\ Len(entries) = n
  BY <1>1, RecalibratorAssumption
<1>3. QED
  BY <1>1, <1>2 DEF Entry

(* The adjustment points where the balance of the outcomes points.          *)
LEMMA DeltaProperties ==
  ASSUME NEW entries \in Batches, NEW edge
  PROVE  /\ Delta(entries, edge) \in Int
         /\ Delta(entries, edge) > 0 =>
              \E i \in 1..Len(entries) : entries[i].nf = edge[1] /\ entries[i].outcome = 1
         /\ Delta(entries, edge) < 0 =>
              \E i \in 1..Len(entries) : entries[i].nf = edge[1] /\ entries[i].outcome = 0
<1> DEFINE rate == IF edge[1] = edge[2] THEN LearningRate \div 2 ELSE LearningRate
           for     == Cardinality(About(entries, edge[1], 1))
           against == Cardinality(About(entries, edge[1], 0))
<1>1. rate \in Nat
  BY RecalibratorAssumption
<1>2. \A outcome : /\ IsFiniteSet(About(entries, edge[1], outcome))
                   /\ Cardinality(About(entries, edge[1], outcome)) \in Nat
  <2>1. \A outcome : About(entries, edge[1], outcome) \subseteq 1..Len(entries)
    BY DEF About
  <2>2. IsFiniteSet(1..Len(entries))
    BY BatchType, FS_Interval
  <2>3. QED
    BY <2>1, <2>2, FS_Subset, FS_CardinalityType
<1>3. \A outcome : Cardinality(About(entries, edge[1], outcome)) # 0 =>
        \E i \in 1..Len(entries) : entries[i].nf = edge[1] /\ entries[i].outcome = outcome
  <2> SUFFICES ASSUME NEW outcome, Cardinality(About(entries, edge[1], outcome)) # 0
               PROVE  \E i \in 1..Len(entries) :
                        entries[i].nf = edge[1] /\ entries[i].outcome = outcome
    OBVIOUS
  <2>1. About(entries, edge[1], outcome) # {}
    BY FS_EmptySet
  <2>2. QED
    BY <2>1 DEF About
<1>4. Delta(entries, edge) = rate * (for - against) /\ for \in Nat /\ against \in Nat
  BY <1>2 DEF Delta
<1>5. /\ for # 0 => \E i \in 1..Len(entries) : entries[i].nf = edge[1] /\ entries[i].outcome = 1
      /\ against # 0 => \E i \in 1..Len(entries) : entries[i].nf = edge[1] /\ entries[i].outcome = 0
  BY <1>3
<1> HIDE DEF rate, for, against
<1>6. CASE for >= against
  <2>1. for - against \in Nat
    BY <1>4, <1>6
  <2>2. Delta(entries, edge) \in Nat
    BY <1>1, <1>4, <2>1
  <2>3. CASE for = 0
    <3>1. Delta(entries, edge) = rate * 0
      BY <1>4, <1>6, <2>3
    <3>2. Delta(entries, edge) = 0
      BY <1>1, <3>1
    <3>3. QED
      BY <3>2
  <2>4. QED
    BY <1>5, <2>2, <2>3
<1>7. CASE ~ (for >= against)
  <2>1. against - for \in Nat /\ against # 0
    BY <1>4, <1>7
  <2>2. rate * (against - for) \in Nat
    BY <1>1, <2>1
  <2>3. Delta(entries, edge) = - (rate * (against - for))
    BY <1>1, <1>4
  <2>4. QED
    BY <1>5, <2>1, <2>2, <2>3
<1>8. QED
  BY <1>6, <1>7

(* A side of the adjustment needs a network function with that outcome.     *)
LEMMA DeltaBlames ==
  ASSUME NEW entries \in Batches, NEW edge
  PROVE  /\ Delta(entries, edge) > 0 => edge[1] \in Blames(entries, 1)
         /\ Delta(entries, edge) < 0 => edge[1] \in Blames(entries, 0)
BY DeltaProperties DEF Blames

(* Edges other than self edges are adjusted by what their cause earned.     *)
LEMMA DeltaOfSiblings ==
  ASSUME NEW entries, NEW e, NEW f, f[1] = e[1], e[1] # e[2], f[1] # f[2]
  PROVE  Delta(entries, e) = Delta(entries, f)
BY DEF Delta
-----------------------------------------------------------------------------
Bounds == WeightFloor \in Nat /\ WeightFloor >= 1 /\ WeightFloor <= One
          /\ WeightCeiling \in Nat /\ WeightCeiling >= One

LEMMA BoundsHold == Bounds
BY RecalibratorAssumption DEF Bounds, One

LEMMA EdgesFromCause ==
  \A nf : \A e \in EdgesFrom(nf) : e[1] = nf
BY DEF EdgesFrom, Outgoing

InRange(w) == w \in Int /\ WeightFloor <= w /\ w <= WeightCeiling

(* Decay keeps a weight in its range and adds no side to it.                *)
LEMMA FadeInRange ==
  ASSUME NEW w, InRange(w)
  PROVE  /\ InRange(Fade(w))
         /\ Fade(w) > One => w > One
         /\ Fade(w) < One => w < One
BY FadeProperties, BoundsHold DEF InRange, Bounds, One

(* A batch is at hand from the decay to the last adjustment, and edges are   *)
(* left only within a loop over them.                                        *)
StageInv ==
  /\ tick \in {"idle", "decay", "fade", "adjust", "set", "count", "apply"}
  /\ tick \in {"decay", "fade", "adjust", "set"} => batch \in Batches
  /\ tick \in {"idle", "count", "apply"} => todo = {}
  /\ HeldEdge \cap todo = {}

(* Every edge leaves the network function it is filed under.                *)
FiledInv == \A e \in DOMAIN weights \cup todo \cup HeldEdge : e \in EdgesFrom(e[1])

RangeInv ==
  /\ \A e \in DOMAIN weights : InRange(weights[e])
  /\ \A e \in HeldEdge : InRange(held.weight)

(* The weight at hand is the one in the state, unless a reset intervened.   *)
HeldInv ==
  \A e \in HeldEdge : e[1] \notin torn =>
    held.weight = Get(e) /\ (tick = "fade" => e \in DOMAIN weights)

(* The decay finds all its keys, or a reset has taken them all.             *)
DecayInv ==
  tick \in {"decay", "fade"} =>
    \/ todo \cup HeldEdge \subseteq DOMAIN weights
    \/ \A e \in DOMAIN weights : e[1] \in torn

(* What the loop under way leaves of an edge.                               *)
Final(e) ==
  IF e \notin todo \cup HeldEdge THEN Get(e)
  ELSE IF tick \in {"decay", "fade"} THEN Fade(Get(e))
  ELSE Clamp(Get(e) + Delta(batch, e))

Tracked == DOMAIN weights \cup Unwritten

SiblingInv ==
  \A e \in Tracked : e[1] \notin torn =>
    /\ EdgesFrom(e[1]) \subseteq Tracked
    /\ \A f \in Tracked : f[1] = e[1] /\ e[1] # e[2] /\ f[1] # f[2] => Final(e) = Final(f)

DirectionInv ==
  /\ DirectionNeedsEvidence
  /\ \A e \in HeldEdge \ carried : /\ held.weight > One => e[1] \in credited
                                   /\ held.weight < One => e[1] \in blamed
  /\ \A e \in Unwritten : /\ e[1] \in Blames(batch, 1) => e[1] \in credited
                          /\ e[1] \in Blames(batch, 0) => e[1] \in blamed

MultiplierInv ==
  StageInv /\ FiledInv /\ RangeInv /\ HeldInv /\ DecayInv /\ SiblingInv /\ DirectionInv

GraphInv ==
  /\ \A e \in DOMAIN graph : graph[e] \in Nat
  /\ GraphBounded

LEMMA Consequences ==
  MultiplierInv => MultipliersBounded /\ SiblingsMoveAsOne /\ DirectionNeedsEvidence
<1> SUFFICES ASSUME MultiplierInv
             PROVE  MultipliersBounded /\ SiblingsMoveAsOne /\ DirectionNeedsEvidence
  OBVIOUS
<1>1. MultipliersBounded /\ DirectionNeedsEvidence
  BY DEF MultiplierInv, RangeInv, InRange, MultipliersBounded, DirectionInv
<1>2. ASSUME tick \in {"idle", "count", "apply"} PROVE SiblingsMoveAsOne
  <2>1. todo = {} /\ HeldEdge = {} /\ Unwritten = {} /\ Tracked = DOMAIN weights
    BY <1>2 DEF MultiplierInv, StageInv, HeldEdge, Unwritten, Tracked
  <2>2. \A e \in DOMAIN weights : Final(e) = weights[e]
    BY <2>1 DEF Final, Get
  <2>3. QED
    BY <2>1, <2>2 DEF MultiplierInv, SiblingInv, SiblingsMoveAsOne
<1>3. QED
  BY <1>1, <1>2 DEF SiblingsMoveAsOne

LEMMA GetInRange ==
  ASSUME RangeInv, NEW e
  PROVE  InRange(Get(e)) /\ InRange(Fade(Get(e)))
<1>1. InRange(One)
  BY BoundsHold DEF InRange, Bounds, One
<1>2. InRange(Get(e))
  BY <1>1 DEF RangeInv, Get
<1>3. QED
  BY <1>2, FadeInRange
-----------------------------------------------------------------------------
(* Steps that leave the weights and the loop alone.                         *)
LEMMA StillKeeps ==
  ASSUME MultiplierInv, UNCHANGED <<weights, todo, held, evidence>>,
         \/ UNCHANGED <<tick, batch>>
         \/ tick = "adjust" /\ todo = {} /\ tick' = "count"
         \/ tick = "count" /\ tick' = "apply"
         \/ tick = "apply" /\ tick' = "idle"
  PROVE  MultiplierInv'
<1>1. CASE UNCHANGED <<tick, batch>>
  BY <1>1 DEF MultiplierInv, StageInv, FiledInv, RangeInv, HeldInv, DecayInv, SiblingInv,
     DirectionInv, DirectionNeedsEvidence, Tracked, Final, Get, HeldEdge, Unwritten, evidence
<1>2. CASE /\ tick \in {"adjust", "count", "apply"} /\ todo = {}
           /\ tick' \in {"count", "apply", "idle"}
  <2>1. /\ HeldEdge = {} /\ HeldEdge' = {} /\ todo' = {}
        /\ Unwritten = {} /\ Unwritten' = {}
    BY <1>2 DEF HeldEdge, Unwritten
  <2>2. Tracked' = Tracked /\ \A e : Final(e)' = Final(e)
    BY <1>2, <2>1 DEF Tracked, Final, Get
  <2>3. SiblingInv'
    BY <2>2 DEF MultiplierInv, SiblingInv, evidence
  <2>4. QED
    BY <1>2, <2>1, <2>3 DEF MultiplierInv, StageInv, FiledInv, RangeInv, HeldInv, DecayInv,
       DirectionInv, DirectionNeedsEvidence, evidence
<1>3. QED
  BY <1>1, <1>2 DEF MultiplierInv, StageInv

LEMMA BeginKeeps ==
  ASSUME MultiplierInv, NEW entries \in Batches, Begin(entries)
  PROVE  MultiplierInv'
<1>1. /\ tick = "idle" /\ tick' = "decay" /\ batch' = entries
      /\ todo = {} /\ todo' = DOMAIN weights
      /\ UNCHANGED <<weights, held, torn, carried, credited, blamed>>
  BY DEF Begin, recal, evidence, MultiplierInv, StageInv
<1>2. /\ HeldEdge = {} /\ HeldEdge' = {} /\ Unwritten = {} /\ Unwritten' = {}
  BY <1>1 DEF HeldEdge, Unwritten
<1>3. Tracked = DOMAIN weights /\ Tracked' = DOMAIN weights
  BY <1>1, <1>2 DEF Tracked
<1>4. \A e \in DOMAIN weights : Final(e) = Get(e) /\ Final(e)' = Fade(Get(e))
  BY <1>1, <1>2 DEF Final, Get
<1>5. SiblingInv'
  BY <1>1, <1>3, <1>4 DEF MultiplierInv, SiblingInv
<1>6. QED
  BY <1>1, <1>2, <1>5 DEF MultiplierInv, StageInv, FiledInv, RangeInv, HeldInv, DecayInv,
     DirectionInv, DirectionNeedsEvidence

(* Both loops read an edge and leave what they make of it as it was.        *)
LEMMA ReadKeeps ==
  ASSUME MultiplierInv, NEW edge \in todo,
         held' = [edge |-> edge, weight |-> Get(edge)], todo' = todo \ {edge},
         \/ tick = "decay" /\ tick' = "fade" /\ edge \in DOMAIN weights
         \/ tick = "adjust" /\ tick' = "set",
         UNCHANGED <<weights, batch, evidence>>
  PROVE  MultiplierInv'
<1>1. HeldEdge = {} /\ HeldEdge' = {edge} /\ held'.weight = Get(edge)
  BY DEF HeldEdge
<1>2. /\ todo' \cup HeldEdge' = todo \cup HeldEdge
      /\ Unwritten' = Unwritten
  BY <1>1 DEF Unwritten
<1>3. Tracked' = Tracked /\ \A e : Final(e)' = Final(e) /\ Get(e)' = Get(e)
  BY <1>2 DEF Tracked, Final, Get
<1>4. UNCHANGED <<torn, carried, credited, blamed>>
  BY DEF evidence
<1>5. StageInv' /\ FiledInv'
  BY <1>1, <1>2 DEF MultiplierInv, StageInv, FiledInv
<1>6. RangeInv'
  BY <1>1, GetInRange DEF MultiplierInv, RangeInv, InRange
<1>7. HeldInv'
  BY <1>1, <1>3 DEF HeldInv
<1>8. DecayInv'
  BY <1>2, <1>4 DEF MultiplierInv, DecayInv
<1>9. SiblingInv'
  BY <1>3, <1>4 DEF MultiplierInv, SiblingInv
<1>10. DirectionInv'
  <2>1. edge \notin carried => /\ Get(edge) > One => edge[1] \in credited
                               /\ Get(edge) < One => edge[1] \in blamed
    BY DEF MultiplierInv, DirectionInv, DirectionNeedsEvidence, Get, One
  <2>2. QED
    BY <1>1, <1>2, <1>4, <2>1 DEF MultiplierInv, DirectionInv, DirectionNeedsEvidence
<1>11. QED
  BY <1>5, <1>6, <1>7, <1>8, <1>9, <1>10 DEF MultiplierInv

(* A key that is gone ends the pass; all that is tracked is torn by then.   *)
LEMMA RaiseKeeps ==
  ASSUME MultiplierInv, NEW edge \in todo, DecayRead(edge), edge \notin DOMAIN weights
  PROVE  MultiplierInv'
<1>1. /\ tick = "decay" /\ tick' = "idle" /\ todo' = {}
      /\ UNCHANGED <<weights, torn, carried, credited, blamed>>
  BY DEF DecayRead, recal, evidence
<1>2. HeldEdge' = {} /\ Unwritten' = {}
  BY <1>1 DEF HeldEdge, Unwritten
<1>3. \A e \in DOMAIN weights : e[1] \in torn
  BY <1>1 DEF MultiplierInv, DecayInv
<1>4. Tracked' = DOMAIN weights
  BY <1>1, <1>2 DEF Tracked
<1>5. SiblingInv'
  BY <1>1, <1>3, <1>4 DEF SiblingInv
<1>6. QED
  BY <1>1, <1>2, <1>5 DEF MultiplierInv, StageInv, FiledInv, RangeInv, HeldInv, DecayInv,
     DirectionInv, DirectionNeedsEvidence

(* Both loops write back the edge at hand: what the loop made of it is then *)
(* in the weights, or it was torn.                                          *)
LEMMA WriteKeeps ==
  ASSUME MultiplierInv, NEW w, InRange(w),
         \/ tick = "fade" /\ tick' = "decay" /\ w = Fade(held.weight)
         \/ /\ tick = "set" /\ tick' = "adjust"
            /\ w = Clamp(held.weight + Delta(batch, held.edge)),
         weights' = Put(held.edge, w),
         held.edge \notin carried => /\ w > One => held.edge[1] \in credited
                                     /\ w < One => held.edge[1] \in blamed,
         UNCHANGED <<todo, batch, evidence>>
  PROVE  MultiplierInv'
<1>1. /\ HeldEdge = {held.edge} /\ HeldEdge' = {} /\ held.edge \notin todo
      /\ UNCHANGED <<torn, carried, credited, blamed>>
  BY DEF HeldEdge, evidence, MultiplierInv, StageInv
<1>2. /\ DOMAIN weights' = DOMAIN weights \cup {held.edge}
      /\ weights'[held.edge] = w
      /\ \A e \in DOMAIN weights : e # held.edge => weights'[e] = weights[e]
  BY DEF Put
<1>3. StageInv' /\ FiledInv'
  BY <1>1, <1>2 DEF MultiplierInv, StageInv, FiledInv
<1>4. RangeInv'
  BY <1>1, <1>2 DEF MultiplierInv, RangeInv, InRange
<1>5. HeldInv'
  BY <1>1 DEF HeldInv
<1>6. DecayInv'
  BY <1>1, <1>2 DEF MultiplierInv, DecayInv, HeldInv
<1>7. SiblingInv'
  <2>1. /\ Unwritten' \subseteq Unwritten /\ Unwritten \subseteq Unwritten' \cup {held.edge}
        /\ tick = "fade" => Unwritten = {}
    BY <1>1 DEF Unwritten
  <2>2. Tracked' = Tracked \cup {held.edge}
    BY <1>2, <2>1 DEF Tracked
  <2>3. held.edge[1] \notin torn => held.edge \in Tracked
    BY <1>1 DEF MultiplierInv, HeldInv, Tracked, Unwritten
  <2>4. \A e : e # held.edge => Get(e)' = Get(e)
    BY <1>2 DEF Get
  <2>5. \A e : e # held.edge => Final(e)' = Final(e)
    BY <1>1, <2>4 DEF Final
  <2>6. held.edge[1] \notin torn => Final(held.edge) = w
    BY <1>1 DEF MultiplierInv, HeldInv, Final
  <2>7. \A e : e = held.edge => Final(e)' = w
    BY <1>1, <1>2 DEF Final, Get
  <2>8. \A e : e[1] \notin torn => Final(e)' = Final(e)
    BY <2>5, <2>6, <2>7
  <2>9. ASSUME NEW e \in Tracked', e[1] \notin torn
        PROVE  /\ EdgesFrom(e[1]) \subseteq Tracked'
               /\ \A f \in Tracked' : f[1] = e[1] /\ e[1] # e[2] /\ f[1] # f[2] =>
                    Final(e)' = Final(f)'
    <3>1. e \in Tracked
      BY <2>2, <2>3, <2>9
    <3>2. \A f \in Tracked' : f[1] = e[1] => f \in Tracked
      BY <2>2, <2>3, <2>9
    <3>3. /\ EdgesFrom(e[1]) \subseteq Tracked
          /\ \A f \in Tracked : f[1] = e[1] /\ e[1] # e[2] /\ f[1] # f[2] =>
               Final(e) = Final(f)
      BY <2>9, <3>1 DEF MultiplierInv, SiblingInv
    <3>4. QED
      BY <2>2, <2>8, <2>9, <3>2, <3>3
  <2>10. QED
    BY <1>1, <2>9 DEF SiblingInv
<1>8. DirectionInv'
  <2>1. Unwritten' \subseteq Unwritten
    BY <1>1 DEF Unwritten
  <2>2. QED
    BY <1>1, <1>2, <2>1 DEF MultiplierInv, DirectionInv, DirectionNeedsEvidence
<1>9. QED
  BY <1>3, <1>4, <1>5, <1>6, <1>7, <1>8 DEF MultiplierInv

LEMMA DecayWriteKeeps ==
  ASSUME MultiplierInv, DecayWrite
  PROVE  MultiplierInv'
<1>1. /\ tick = "fade" /\ tick' = "decay" /\ weights' = Put(held.edge, Fade(held.weight))
      /\ UNCHANGED <<todo, batch, evidence>>
  BY DEF DecayWrite
<1>2. HeldEdge = {held.edge}
  BY <1>1 DEF HeldEdge
<1>3. InRange(held.weight)
  BY <1>2 DEF MultiplierInv, RangeInv
<1>4. held.edge \notin carried => /\ Fade(held.weight) > One => held.edge[1] \in credited
                                  /\ Fade(held.weight) < One => held.edge[1] \in blamed
  BY <1>2, <1>3, FadeInRange DEF MultiplierInv, DirectionInv
<1>5. InRange(Fade(held.weight))
  BY <1>3, FadeInRange
<1>6. QED
  BY <1>1, <1>4, <1>5, WriteKeeps

LEMMA AdjustWriteKeeps ==
  ASSUME MultiplierInv, AdjustWrite
  PROVE  MultiplierInv'
<1> DEFINE d == Delta(batch, held.edge)
           w == Clamp(held.weight + d)
<1>1. /\ tick = "set" /\ tick' = "adjust" /\ weights' = Put(held.edge, w)
      /\ UNCHANGED <<todo, batch, evidence>>
  BY DEF AdjustWrite
<1>2. HeldEdge = {held.edge} /\ held.edge \in Unwritten /\ batch \in Batches
  BY <1>1 DEF HeldEdge, Unwritten, MultiplierInv, StageInv
<1>3. held.weight \in Int /\ d \in Int /\ One \in Int
  BY <1>2, DeltaProperties DEF MultiplierInv, RangeInv, InRange, One
<1>4. /\ d > 0 => held.edge[1] \in credited
      /\ d < 0 => held.edge[1] \in blamed
  BY <1>2, DeltaBlames DEF MultiplierInv, DirectionInv
<1>5. held.edge \notin carried => /\ held.weight > One => held.edge[1] \in credited
                                  /\ held.weight < One => held.edge[1] \in blamed
  BY <1>2 DEF MultiplierInv, DirectionInv
<1> HIDE DEF d
<1>6. held.weight + d \in Int
  BY <1>3
<1>7. /\ InRange(w)
      /\ w > One => held.weight + d > One
      /\ w < One => held.weight + d < One
  BY <1>6, ClampProperties DEF InRange
<1>8. /\ held.weight + d > One => held.weight > One \/ d > 0
      /\ held.weight + d < One => held.weight < One \/ d < 0
  BY <1>3
<1>9. held.edge \notin carried => /\ w > One => held.edge[1] \in credited
                                  /\ w < One => held.edge[1] \in blamed
  BY <1>4, <1>5, <1>7, <1>8
<1>10. w = Clamp(held.weight + Delta(batch, held.edge))
  BY DEF d
<1> HIDE DEF w
<1>11. QED
  BY <1>1, <1>7, <1>9, <1>10, WriteKeeps

(* The adjustments cover the edges of a network function all or none.       *)
LEMMA DecayDoneKeeps ==
  ASSUME MultiplierInv, DecayDone
  PROVE  MultiplierInv'
<1>1. /\ tick = "decay" /\ tick' = "adjust" /\ todo = {}
      /\ todo' = UNION {EdgesFrom(batch[i].nf) : i \in 1..Len(batch)}
      /\ credited' = credited \cup Blames(batch, 1)
      /\ blamed' = blamed \cup Blames(batch, 0)
      /\ UNCHANGED <<weights, batch, held, torn, carried>>
  BY DEF DecayDone, recal
<1>2. /\ HeldEdge = {} /\ HeldEdge' = {} /\ Unwritten = {} /\ Unwritten' = todo'
  BY <1>1 DEF HeldEdge, Unwritten
<1>3. \A e \in todo' : /\ e \in EdgesFrom(e[1])
                       /\ EdgesFrom(e[1]) \subseteq todo'
  BY <1>1, EdgesFromCause
<1>4. StageInv' /\ FiledInv'
  BY <1>1, <1>2, <1>3 DEF MultiplierInv, StageInv, FiledInv
<1>5. RangeInv' /\ HeldInv' /\ DecayInv'
  BY <1>1, <1>2 DEF MultiplierInv, RangeInv, HeldInv, DecayInv
<1>6. SiblingInv'
  <2>1. Tracked = DOMAIN weights /\ Tracked' = DOMAIN weights \cup todo'
    BY <1>1, <1>2 DEF Tracked
  <2>2. /\ \A e : Final(e) = Get(e)
        /\ \A e \in todo' : Final(e)' = Clamp(Get(e) + Delta(batch, e))
        /\ \A e : e \notin todo' => Final(e)' = Get(e)
    BY <1>1, <1>2 DEF Final, Get
  <2>3. ASSUME NEW e \in Tracked', e[1] \notin torn
        PROVE  EdgesFrom(e[1]) \subseteq Tracked'
    BY <1>3, <2>1, <2>3 DEF MultiplierInv, SiblingInv
  <2>4. ASSUME NEW e \in Tracked', e[1] \notin torn, NEW f \in Tracked',
               f[1] = e[1], e[1] # e[2], f[1] # f[2]
        PROVE  Final(e)' = Final(f)'
    <3>1. e \in EdgesFrom(e[1]) /\ f \in EdgesFrom(e[1])
      BY <1>1, <1>4, <2>1, <2>4 DEF FiledInv
    <3>2. e \in todo' <=> f \in todo'
      BY <1>3, <2>4, <3>1
    <3>3. e \in DOMAIN weights <=> f \in DOMAIN weights
      BY <2>1, <2>4, <3>1 DEF MultiplierInv, SiblingInv
    <3>4. Get(e) = Get(f)
      <4>1. CASE e \in DOMAIN weights
        BY <2>1, <2>2, <2>4, <3>3, <4>1 DEF MultiplierInv, SiblingInv
      <4>2. CASE e \notin DOMAIN weights
        BY <3>3, <4>2 DEF Get
      <4>3. QED
        BY <4>1, <4>2
    <3>5. Delta(batch, e) = Delta(batch, f)
      BY <2>4, DeltaOfSiblings
    <3>6. QED
      BY <2>2, <3>2, <3>4, <3>5
  <2>5. QED
    BY <1>1, <2>3, <2>4 DEF SiblingInv
<1>7. DirectionInv'
  BY <1>1, <1>2 DEF MultiplierInv, DirectionInv, DirectionNeedsEvidence
<1>8. QED
  BY <1>4, <1>5, <1>6, <1>7 DEF MultiplierInv

(* A reset leaves what the adjustment has still to write: where that is all *)
(* the edges of a network function, they start from neutral together.       *)
LEMMA ResetKeeps ==
  ASSUME MultiplierInv, Reset
  PROVE  MultiplierInv'
<1>1. /\ DOMAIN weights' = {} /\ UNCHANGED <<tick, batch, todo, held>>
      /\ torn' = {e[1] : e \in HeldEdge \cup
                           {x \in Unwritten : ~ (EdgesFrom(x[1]) \subseteq todo)}}
      /\ carried' = HeldEdge
      /\ credited' = Blames(batch, 1) \cap {e[1] : e \in Unwritten}
      /\ blamed' = Blames(batch, 0) \cap {e[1] : e \in Unwritten}
  BY DEF Reset, pass
<1>2. HeldEdge' = HeldEdge /\ Unwritten' = Unwritten /\ Tracked' = Unwritten
  BY <1>1 DEF HeldEdge, Unwritten, Tracked
<1>3. StageInv' /\ FiledInv' /\ RangeInv'
  BY <1>1, <1>2 DEF MultiplierInv, StageInv, FiledInv, RangeInv
<1>4. HeldInv' /\ DecayInv'
  BY <1>1, <1>2 DEF HeldInv, DecayInv
<1>5. SiblingInv'
  <2>1. ASSUME NEW e \in Unwritten, e[1] \notin torn'
        PROVE  EdgesFrom(e[1]) \subseteq todo /\ todo \subseteq Unwritten /\ tick \in {"adjust", "set"}
    BY <1>1, <2>1 DEF Unwritten
  <2>2. ASSUME NEW e \in Unwritten, e[1] \notin torn', NEW f \in Unwritten, f[1] = e[1],
               e[1] # e[2], f[1] # f[2]
        PROVE  Final(e)' = Final(f)'
    <3>1. e \in todo /\ f \in todo
      BY <1>1, <2>2 DEF Unwritten
    <3>2. /\ Final(e)' = Clamp(One + Delta(batch, e))
          /\ Final(f)' = Clamp(One + Delta(batch, f))
      BY <1>1, <2>1, <2>2, <3>1 DEF Final, Get
    <3>3. QED
      BY <2>2, <3>2, DeltaOfSiblings
  <2>3. QED
    BY <1>2, <2>1, <2>2 DEF SiblingInv
<1>6. DirectionInv'
  BY <1>1, <1>2 DEF DirectionInv, DirectionNeedsEvidence
<1>7. QED
  BY <1>3, <1>4, <1>5, <1>6 DEF MultiplierInv
-----------------------------------------------------------------------------
LEMMA InitInv == Init => MultiplierInv /\ GraphInv
<1> SUFFICES ASSUME Init PROVE MultiplierInv /\ GraphInv
  OBVIOUS
<1>1. DOMAIN weights = {} /\ tick = "idle" /\ todo = {}
  BY DEF Init
<1>2. HeldEdge = {} /\ Unwritten = {}
  BY <1>1 DEF HeldEdge, Unwritten
<1>3. MultiplierInv
  BY <1>1, <1>2 DEF MultiplierInv, StageInv, FiledInv, RangeInv, HeldInv, DecayInv,
     SiblingInv, Tracked, DirectionInv, DirectionNeedsEvidence
<1>4. \A e \in DOMAIN graph : graph[e] = PriorWeight(e) /\ \E p \in Priors : p[1] = e
  BY DEF Init
<1>5. \A p \in Priors : p[2] \in Nat /\ WeightMin <= p[2] /\ p[2] <= WeightMax
  BY DEF Priors, WeightMin, WeightMax
<1>6. \A e : (\E p \in Priors : p[1] = e) => \E p \in Priors : PriorWeight(e) = p[2]
  BY DEF PriorWeight
<1>7. GraphInv
  BY <1>4, <1>5, <1>6 DEF GraphInv, GraphBounded
<1>8. QED
  BY <1>3, <1>7

LEMMA BlendKeeps ==
  ASSUME GraphInv, NEW edge, NEW confidence \in Confidences,
         BlendLink(edge, confidence)
  PROVE  GraphInv'
<1>1. /\ confidence \in Nat /\ 9500 <= confidence /\ confidence <= 10000
      /\ WeightMin = 500 /\ WeightMax = 50000
  BY RecalibratorAssumption DEF One, WeightMin, WeightMax
<1>2. /\ DOMAIN graph' = DOMAIN graph \cup {edge}
      /\ \A e \in DOMAIN graph' :
           graph'[e] = IF e # edge THEN graph[e]
                       ELSE IF edge \in DOMAIN graph
                            THEN Round(6 * graph[edge] + 4 * confidence, 10)
                            ELSE confidence
  BY DEF BlendLink
<1>3. ASSUME NEW w \in Nat, 500 <= w, w <= 50000
      PROVE  /\ Round(6 * w + 4 * confidence, 10) \in Nat
             /\ 500 <= Round(6 * w + 4 * confidence, 10)
             /\ Round(6 * w + 4 * confidence, 10) <= 50000
  BY <1>1, <1>3 DEF Round
<1>4. \A e \in DOMAIN graph : graph[e] \in Nat /\ 500 <= graph[e] /\ graph[e] <= 50000
  BY <1>1 DEF GraphInv, GraphBounded
<1>5. ASSUME NEW e \in DOMAIN graph'
      PROVE  graph'[e] \in Nat /\ 500 <= graph'[e] /\ graph'[e] <= 50000
  <2>1. CASE e # edge
    BY <1>2, <1>4, <2>1
  <2>2. CASE e = edge /\ edge \in DOMAIN graph
    BY <1>2, <1>3, <1>4, <2>2
  <2>3. CASE e = edge /\ edge \notin DOMAIN graph
    BY <1>1, <1>2, <2>3
  <2>4. QED
    BY <2>1, <2>2, <2>3
<1>6. QED
  BY <1>1, <1>5 DEF GraphInv, GraphBounded

LEMMA ApplyKeeps ==
  ASSUME MultiplierInv, GraphInv, ApplyRecalibration
  PROVE  /\ GraphInv'
         /\ \A e \in DOMAIN graph : graph'[e] < graph[e] => e[1] \in blamed \/ e \in carried
<1>1. /\ DOMAIN graph' = DOMAIN graph
      /\ \A e \in DOMAIN graph :
           graph'[e] = IF e \in DOMAIN weights /\ e[1] # e[2]
                       THEN Scaled(graph[e], weights[e]) ELSE graph[e]
  BY DEF ApplyRecalibration
<1>2. ASSUME NEW e \in DOMAIN graph
      PROVE  /\ graph'[e] \in Nat
             /\ WeightMin <= graph'[e] /\ graph'[e] <= WeightMax
             /\ graph'[e] < graph[e] => e[1] \in blamed \/ e \in carried
  <2>1. graph[e] \in Nat /\ WeightMin <= graph[e] /\ graph[e] <= WeightMax
    BY DEF GraphInv, GraphBounded
  <2>2. CASE e \in DOMAIN weights /\ e[1] # e[2]
    <3>1. /\ weights[e] \in Nat
          /\ weights[e] < One => e[1] \in blamed \/ e \in carried
      BY <2>2, BoundsHold DEF MultiplierInv, RangeInv, InRange, DirectionInv,
         DirectionNeedsEvidence, Bounds
    <3>2. /\ Scaled(graph[e], weights[e]) \in Nat
          /\ WeightMin <= Scaled(graph[e], weights[e])
          /\ Scaled(graph[e], weights[e]) <= WeightMax
          /\ weights[e] >= One => Scaled(graph[e], weights[e]) >= graph[e]
      BY <2>1, <3>1, ScaledProperties
    <3>3. weights[e] >= One \/ weights[e] < One
      BY <3>1 DEF One
    <3>4. QED
      BY <1>1, <2>1, <2>2, <3>1, <3>2, <3>3
  <2>3. CASE ~ (e \in DOMAIN weights /\ e[1] # e[2])
    BY <1>1, <2>1, <2>3
  <2>4. QED
    BY <2>2, <2>3
<1>3. QED
  BY <1>1, <1>2 DEF GraphInv, GraphBounded

LEMMA NextInv ==
  MultiplierInv /\ GraphInv /\ [Next]_vars => MultiplierInv' /\ GraphInv'
<1> SUFFICES ASSUME MultiplierInv, GraphInv, [Next]_vars
             PROVE  MultiplierInv' /\ GraphInv'
  OBVIOUS
<1>1. UNCHANGED graph => GraphInv'
  BY DEF GraphInv, GraphBounded
<1>2. ASSUME NEW edge \in NFs \X NFs, NEW confidence \in Confidences,
             BlendLink(edge, confidence)
      PROVE  MultiplierInv' /\ GraphInv'
  <2>1. UNCHANGED <<weights, tick, batch, todo, held, evidence>>
    BY <1>2 DEF BlendLink, recal, pass
  <2>2. QED
    BY <1>2, <2>1, StillKeeps, BlendKeeps
<1>3. ASSUME NEW entries \in Batches, Begin(entries)
      PROVE  MultiplierInv' /\ GraphInv'
  BY <1>1, <1>3, BeginKeeps DEF Begin
<1>4. ASSUME NEW edge \in todo, DecayRead(edge)
      PROVE  MultiplierInv' /\ GraphInv'
  <2>1. CASE edge \in DOMAIN weights
    <3>1. /\ tick = "decay" /\ tick' = "fade" /\ todo' = todo \ {edge}
          /\ held' = [edge |-> edge, weight |-> Get(edge)]
          /\ UNCHANGED <<weights, batch, evidence, graph>>
      BY <1>4, <2>1 DEF DecayRead, Get, recal
    <3>2. QED
      BY <1>1, <2>1, <3>1, ReadKeeps
  <2>2. CASE edge \notin DOMAIN weights
    BY <1>1, <1>4, <2>2, RaiseKeeps DEF DecayRead
  <2>3. QED
    BY <2>1, <2>2
<1>5. CASE DecayWrite
  BY <1>1, <1>5, DecayWriteKeeps DEF DecayWrite
<1>6. CASE DecayDone
  BY <1>1, <1>6, DecayDoneKeeps DEF DecayDone
<1>7. ASSUME NEW edge \in todo, AdjustRead(edge)
      PROVE  MultiplierInv' /\ GraphInv'
  <2>1. /\ tick = "adjust" /\ tick' = "set" /\ todo' = todo \ {edge}
        /\ held' = [edge |-> edge, weight |-> Get(edge)]
        /\ UNCHANGED <<weights, batch, evidence, graph>>
    BY <1>7 DEF AdjustRead, recal
  <2>2. QED
    BY <1>1, <2>1, ReadKeeps
<1>8. CASE AdjustWrite
  BY <1>1, <1>8, AdjustWriteKeeps DEF AdjustWrite
<1>9. CASE CountCycle
  BY <1>1, <1>9, StillKeeps DEF CountCycle
<1>10. CASE CountEntries
  BY <1>1, <1>10, StillKeeps DEF CountEntries
<1>11. CASE ApplyRecalibration
  <2>1. /\ tick = "apply" /\ tick' = "idle"
        /\ UNCHANGED <<weights, todo, held, evidence>>
    BY <1>11 DEF ApplyRecalibration, recal
  <2>2. QED
    BY <1>11, <2>1, StillKeeps, ApplyKeeps
<1>12. CASE Reset
  BY <1>1, <1>12, ResetKeeps DEF Reset
<1>13. CASE UNCHANGED vars
  BY <1>1, <1>13, StillKeeps DEF vars, recal, pass
<1>14. QED
  BY <1>2, <1>3, <1>4, <1>5, <1>6, <1>7, <1>8, <1>9, <1>10, <1>11, <1>12, <1>13 DEF Next

LEMMA InvHolds == Spec => [](MultiplierInv /\ GraphInv)
<1>1. QED
  BY InitInv, NextInv, PTL DEF Spec

(* No sequence of batches, decays and resets takes a multiplier out of its  *)
(* bounds (recalibrator.py:167, 242).                                       *)
THEOREM MultipliersStayBounded == Spec => []MultipliersBounded
<1>1. QED
  BY Consequences, InvHolds, PTL

(* The edges of a network function are tracked and moved together wherever  *)
(* no reset fell between two of them (recalibrator.py:165-169).             *)
THEOREM SiblingsAlwaysMoveAsOne == Spec => []SiblingsMoveAsOne
<1>1. QED
  BY Consequences, InvHolds, PTL

(* A multiplier is on the side of neutral that some outcome about its cause *)
(* pushed it to since the last reset, but for the one edge whose weight was *)
(* read before that reset and written after it.                             *)
THEOREM DirectionAlwaysEvidenced == Spec => []DirectionNeedsEvidence
<1>1. QED
  BY Consequences, InvHolds, PTL

(* The weights of the graph never leave the safe range (dcgm.py:156).       *)
THEOREM GraphStaysBounded == Spec => []GraphBounded
<1>1. GraphInv => GraphBounded
  BY DEF GraphInv
<1>2. QED
  BY <1>1, InvHolds, PTL

(* Applying the multipliers (dcgm.py:168) never weakens an edge whose cause *)
(* no failed remediation was attributed to since the last reset, but for    *)
(* the one edge whose weight was held across it.                            *)
THEOREM OnlyFailureWeakens == Spec => WeakenedOnlyByFailure
<1> DEFINE Blameless == tick = "apply" /\ tick' = "idle" =>
             \A e \in DOMAIN graph :
               graph'[e] < graph[e] => e[1] \in blamed \/ e \in carried
<1>1. MultiplierInv /\ GraphInv /\ [Next]_vars => [Blameless]_vars
  <2> SUFFICES ASSUME MultiplierInv, GraphInv, Next, tick = "apply", tick' = "idle"
               PROVE  \A e \in DOMAIN graph :
                        graph'[e] < graph[e] => e[1] \in blamed \/ e \in carried
    OBVIOUS
  <2>1. ApplyRecalibration
    BY DEF Next, BlendLink, Begin, DecayRead, AdjustRead, DecayWrite, DecayDone, AdjustWrite,
       CountCycle, CountEntries, Reset, pass
  <2>2. QED
    BY <2>1, ApplyKeeps
<1>2. QED
  BY <1>1, InvHolds, PTL DEF Spec, WeakenedOnlyByFailure
=============================================================================

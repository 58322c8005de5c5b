-------------------------- MODULE FaultDetectionProofs --------------------------
(***************************************************************************)
(* For any number of network functions, whatever docker answers and when:  *)
(* a crash that is over is forgotten in time, one that is not over is      *)
(* ranked first while docker answers for all, and an outage that telemetry *)
(* has noticed makes every later report a critical one.                    *)
(***************************************************************************)
EXTENDS FaultDetection, FiniteSetTheorems, WellFoundedInduction, TLAPS

(* The age that score keeps is never younger than the outage it stands for. *)
AgeInv ==
  /\ age \in [NFs -> Int] /\ lastDown \in [NFs -> Nat]
  /\ \A nf \in NFs :
       age[nf] # Never => /\ 0 <= age[nf] /\ age[nf] <= PersistCycles
                          /\ lastDown[nf] <= age[nf]

LEMMA InitAge == Init => AgeInv
<1>1. PersistCycles \in Nat
  BY DetectionAssumption
<1>2. QED
  BY <1>1 DEF Init, AgeInv, Never

LEMMA ScoreAge ==
  ASSUME AgeInv, NEW answered \in SUBSET NFs, NEW base, NEW hub,
         Score(answered, base, hub)
  PROVE  AgeInv'
<1>1. PersistCycles \in Nat
  BY DetectionAssumption
<1>2. /\ age' = AgeAfter(answered)
      /\ lastDown' = [nf \in NFs |-> IF Down(nf) THEN 0
                                     ELSE AtMost(PersistCycles + 1, lastDown[nf] + 1)]
  BY DEF Score
<1>3. ASSUME NEW nf \in NFs
      PROVE  /\ age'[nf] \in Int /\ lastDown'[nf] \in Nat
             /\ age'[nf] # Never => /\ 0 <= age'[nf] /\ age'[nf] <= PersistCycles
                                    /\ lastDown'[nf] <= age'[nf]
  <2>1. /\ age[nf] \in Int /\ lastDown[nf] \in Nat
        /\ age[nf] # Never => lastDown[nf] <= age[nf]
    BY DEF AgeInv
  <2>2. CASE Down(nf)
    <3>1. lastDown'[nf] = 0
      BY <1>2, <2>2
    <3>2. age'[nf] = IF nf \in answered THEN 0
                     ELSE IF age[nf] \in 0..(PersistCycles - 1) THEN age[nf] + 1
                     ELSE Never
      BY <1>2, <2>2 DEF AgeAfter
    <3>3. QED
      BY <1>1, <2>1, <3>1, <3>2 DEF Never
  <2>3. CASE ~Down(nf)
    <3>1. lastDown'[nf] \in Nat /\ lastDown'[nf] <= lastDown[nf] + 1
      BY <1>1, <1>2, <2>1, <2>3 DEF AtMost
    <3>2. age'[nf] = IF nf \notin answered /\ age[nf] \in 0..(PersistCycles - 1)
                     THEN age[nf] + 1 ELSE Never
      BY <1>2, <2>3 DEF AgeAfter
    <3>3. QED
      BY <1>1, <2>1, <3>1, <3>2 DEF Never
  <2>4. QED
    BY <2>2, <2>3
<1>4. age' \in [NFs -> Int] /\ lastDown' \in [NFs -> Nat]
  BY <1>2, <1>3 DEF AgeAfter
<1>5. QED
  BY <1>3, <1>4 DEF AgeInv

LEMMA NextAge == AgeInv /\ [Next]_vars => AgeInv'
<1> SUFFICES ASSUME AgeInv, [Next]_vars PROVE AgeInv'
  OBVIOUS
<1>1. ASSUME NEW answered \in SUBSET NFs, NEW base, NEW hub, Score(answered, base, hub)
      PROVE  AgeInv'
  BY <1>1, ScoreAge
<1>2. CASE FrontEnd
  BY <1>2 DEF FrontEnd, Inject, Recover, Restart, pipeline, AgeInv
<1>3. ASSUME NEW cascade, Scrape(cascade) PROVE AgeInv'
  BY <1>3 DEF Scrape, AgeInv
<1>4. ASSUME NEW linked, Report(linked) PROVE AgeInv'
  BY <1>4 DEF Report, AgeInv
<1>5. CASE UNCHANGED vars
  BY <1>5 DEF vars, pipeline, AgeInv
<1>6. QED
  BY <1>1, <1>2, <1>3, <1>4, <1>5 DEF Next, Pipeline

(* However long docker is silent, a network function is boosted as crashed  *)
(* only for an outage within the persistence window.                        *)
THEOREM BoostAlwaysFresh == Spec => []BoostIsFresh
<1>1. AgeInv => BoostIsFresh
  <2>1. PersistCycles \in Nat
    BY DetectionAssumption
  <2>2. QED
    BY <2>1 DEF AgeInv, BoostIsFresh
<1>2. QED
  BY <1>1, InitAge, NextAge, PTL DEF Spec
-----------------------------------------------------------------------------
(* Of the positions of some nodes one is the least: the sort is stable, and *)
(* First takes it.                                                          *)
LEMMA LeastIndex ==
  ASSUME NEW n \in Nat, NEW S \in SUBSET (1..n), S # {}
  PROVE  \E i \in S : \A j \in S : i <= j
<1> DEFINE R == StrictSubsetOrdering(1..n)
           Below == {1..i : i \in S}
<1>1. IsWellFoundedOn(R, SUBSET (1..n))
  <2>1. IsFiniteSet(1..n)
    BY FS_Interval
  <2>2. QED
    BY <2>1, FS_StrictSubsetOrderingWellFounded, FS_FiniteSubsetsOfFinite
<1>2. Below \subseteq SUBSET (1..n) /\ Below # {}
  <2>1. \A i \in S : 1..i \in SUBSET (1..n)
    OBVIOUS
  <2>2. QED
    BY <2>1
<1> HIDE DEF R, Below
<1>3. PICK T \in Below : \A U \in Below : ~ (<<U, T>> \in R)
  BY <1>1, <1>2, WFMin
<1>4. PICK i \in S : T = 1..i
  BY DEF Below
<1>5. ASSUME NEW j \in S, j < i PROVE FALSE
  <2>1. 1..j \in Below /\ 1..j \subseteq 1..i /\ i \in 1..i /\ i \notin 1..j
    BY <1>5 DEF Below
  <2>2. <<1..j, T>> \in R
    BY <2>1, <1>2, <1>4 DEF R, StrictSubsetOrdering
  <2>3. QED
    BY <2>1, <2>2, <1>3
<1>6. QED
  BY <1>5

(* If some nodes have a score that no other node reaches, First is one of   *)
(* them.                                                                    *)
LEMMA FirstIsBest ==
  ASSUME NEW score, NEW top \in Int, NEW winners \in SUBSET NFs, winners # {},
         \A nf \in winners : score[nf] = top,
         \A nf \in NFs \ winners : score[nf] \in Int /\ score[nf] < top
  PROVE  First(score) \in winners
<1> DEFINE best == {i \in 1..Len(NodeOrder) :
                      \A nf \in NFs : score[nf] <= score[NodeOrder[i]]}
<1>1. Len(NodeOrder) \in Nat
  BY DetectionAssumption
<1>2. \A i \in 1..Len(NodeOrder) : NodeOrder[i] \in NFs
  BY DEF NFs
<1>3. \A i \in best : NodeOrder[i] \in winners
  BY <1>2
<1>4. best # {}
  <2>1. PICK i \in 1..Len(NodeOrder) : NodeOrder[i] \in winners
    BY DEF NFs
  <2>2. \A nf \in NFs : score[nf] <= top
    OBVIOUS
  <2>3. i \in best
    BY <2>1, <2>2
  <2>4. QED
    BY <2>3
<1>5. best \in SUBSET (1..Len(NodeOrder))
  OBVIOUS
<1>6. First(score) = NodeOrder[CHOOSE i \in best : \A j \in best : i <= j]
  BY DEF First
<1> HIDE DEF best
<1>7. \E i \in best : \A j \in best : i <= j
  BY <1>1, <1>4, <1>5, LeastIndex
<1>8. QED
  BY <1>3, <1>6, <1>7

(* With an answer for every container the boosted ones are those down now,  *)
(* at 101; a reachability floor or a base score stays at 100 or below.      *)
LEMMA ScoreRanksCrash ==
  ASSUME NEW answered \in SUBSET NFs, NEW base \in [NFs -> BaseScores], NEW hub \in NFs,
         Score(answered, base, hub)
  PROVE  CrashRanksFirst'
<1> DEFINE down == {nf \in NFs : Down(nf)}
           boosted == {nf \in NFs : age'[nf] # Never}
           floor(nf) == ReachabilityFloor + (IF nf = hub THEN 20 ELSE 0)
           AtLeast(bound, n) == IF n < bound THEN bound ELSE n
           score == [nf \in NFs |->
                       IF nf \in boosted THEN AtLeast(CrashScore, base[nf])
                       ELSE IF Unreachable(nf) THEN AtLeast(floor(nf), base[nf])
                       ELSE base[nf]]
<1>1. /\ age' = AgeAfter(answered)
      /\ ranking' = [top |-> First(score), score |-> score[First(score)]]
      /\ seen' = [answered |-> answered, down |-> down]
  BY DEF Score
<1>2. SUFFICES ASSUME answered = NFs, down # {} PROVE First(score) \in down
  BY <1>1 DEF CrashRanksFirst
<1>3. boosted = down
  BY <1>1, <1>2 DEF AgeAfter, Never
<1>4. \A nf \in NFs : base[nf] \in 0..100
  BY DetectionAssumption
<1>5. \A nf \in down : score[nf] = 101
  BY <1>3, <1>4 DEF CrashScore
<1>6. \A nf \in NFs \ down : score[nf] \in Int /\ score[nf] < 101
  BY <1>3, <1>4 DEF ReachabilityFloor
<1> HIDE DEF score, down
<1>7. down \in SUBSET NFs
  BY DEF down
<1>8. QED
  BY <1>2, <1>5, <1>6, <1>7, FirstIsBest

LEMMA NextRanks == CrashRanksFirst /\ [Next]_vars => CrashRanksFirst'
<1> SUFFICES ASSUME CrashRanksFirst, [Next]_vars PROVE CrashRanksFirst'
  OBVIOUS
<1>1. ASSUME NEW answered \in SUBSET NFs, NEW base \in [NFs -> BaseScores], NEW hub \in NFs,
             Score(answered, base, hub)
      PROVE  CrashRanksFirst'
  BY <1>1, ScoreRanksCrash
<1>2. CASE FrontEnd
  BY <1>2 DEF FrontEnd, Inject, Recover, Restart, pipeline, CrashRanksFirst
<1>3. ASSUME NEW cascade, Scrape(cascade) PROVE CrashRanksFirst'
  <2>1. tick' # "report"
    BY <1>3 DEF Scrape
  <2>2. QED
    BY <2>1 DEF CrashRanksFirst
<1>4. ASSUME NEW linked, Report(linked) PROVE CrashRanksFirst'
  BY <1>4 DEF Report, CrashRanksFirst
<1>5. CASE UNCHANGED vars
  BY <1>5 DEF vars, pipeline, CrashRanksFirst
<1>6. QED
  BY <1>1, <1>2, <1>3, <1>4, <1>5 DEF Next, Pipeline

(* For any scores, cascades and crashes: while docker answers for all, the  *)
(* report names a network function that is down if any was when it scored,  *)
(* although a NF that is down may be a leaf and what it cut off a hub.      *)
THEOREM CrashAlwaysFirst == Spec => []CrashRanksFirst
<1>1. Init => CrashRanksFirst
  BY DEF Init, CrashRanksFirst
<1>2. QED
  BY <1>1, NextRanks, PTL DEF Spec
-----------------------------------------------------------------------------
(* No node has a higher score than the one at rank 1.                       *)
LEMMA FirstIsHighest ==
  ASSUME NEW score, \A nf \in NFs : score[nf] \in 0..101
  PROVE  First(score) \in NFs /\ \A nf \in NFs : score[nf] <= score[First(score)]
<1> DEFINE gaps == {102 - score[nf] : nf \in NFs}
<1>1. gaps \in SUBSET (1..102) /\ 102 \in Nat
  OBVIOUS
<1>2. gaps # {}
  <2>1. NodeOrder[1] \in NFs
    BY DetectionAssumption DEF NFs
  <2>2. QED
    BY <2>1
<1>3. PICK gap \in gaps : \A other \in gaps : gap <= other
  <2> HIDE DEF gaps
  <2>1. QED
    BY <1>1, <1>2, LeastIndex
<1>4. PICK nf \in NFs : gap = 102 - score[nf]
  BY <1>3
<1> DEFINE top == score[nf]
           winners == {other \in NFs : score[other] = top}
<1>5. ASSUME NEW other \in NFs PROVE score[other] \in Int /\ score[other] <= top
  <2>1. 102 - score[nf] <= 102 - score[other]
    BY <1>3, <1>4
  <2>2. score[nf] \in 0..101 /\ score[other] \in 0..101
    OBVIOUS
  <2> DEFINE s == score[nf]
             t == score[other]
  <2>3. s \in 0..101 /\ t \in 0..101 /\ 102 - s <= 102 - t
    BY <2>1, <2>2
  <2> HIDE DEF s, t
  <2>4. t \in Int /\ t <= s
    BY <2>3
  <2>5. QED
    BY <2>4 DEF s, t
<1>6. top \in Int /\ winners \in SUBSET NFs /\ winners # {}
  BY <1>5
<1>7. \A other \in NFs \ winners : score[other] \in Int /\ score[other] < top
  BY <1>5, <1>6
<1>8. First(score) \in winners
  <2>1. \A other \in winners : score[other] = top
    OBVIOUS
  <2> HIDE DEF top, winners
  <2>2. QED
    BY <1>6, <1>7, <2>1, FirstIsBest
<1>9. QED
  BY <1>5, <1>8

(* Between score and report, the node at rank 1 has at least the floor if   *)
(* telemetry counts any as unreachable.                                     *)
AlarmInv ==
  /\ misses \in [NFs -> Nat]
  /\ tick = "report" /\ (\E nf \in NFs : Unreachable(nf)) =>
       ranking.top \in NFs /\ ranking.score \in Int /\ ranking.score >= ReachabilityFloor

LEMMA ScoreAlarms ==
  ASSUME AlarmInv, NEW answered \in SUBSET NFs, NEW base \in [NFs -> BaseScores], NEW hub \in NFs,
         Score(answered, base, hub)
  PROVE  AlarmInv'
<1> DEFINE boosted == {nf \in NFs : age'[nf] # Never}
           floor(nf) == ReachabilityFloor + (IF nf = hub THEN 20 ELSE 0)
           AtLeast(bound, n) == IF n < bound THEN bound ELSE n
           score == [nf \in NFs |->
                       IF nf \in boosted THEN AtLeast(CrashScore, base[nf])
                       ELSE IF Unreachable(nf) THEN AtLeast(floor(nf), base[nf])
                       ELSE base[nf]]
<1>1. ranking' = [top |-> First(score), score |-> score[First(score)]] /\ misses' = misses
  BY DEF Score
<1>2. \A nf \in NFs : base[nf] \in 0..100
  BY DetectionAssumption
<1>3. \A nf \in NFs : score[nf] \in 0..101
  BY <1>2 DEF CrashScore, ReachabilityFloor
<1>4. \A nf \in NFs : Unreachable(nf) => score[nf] >= 80
  BY <1>2 DEF CrashScore, ReachabilityFloor
<1>5. (\E nf \in NFs : Unreachable(nf))' <=> \E nf \in NFs : Unreachable(nf)
  BY <1>1 DEF Unreachable
<1> HIDE DEF score
<1>6. First(score) \in NFs /\ \A nf \in NFs : score[nf] <= score[First(score)]
  BY <1>3, FirstIsHighest
<1>7. ASSUME NEW nf \in NFs, Unreachable(nf)
      PROVE  score[First(score)] \in Int /\ score[First(score)] >= 80
  <2>1. score[nf] \in Int /\ score[First(score)] \in Int /\ score[nf] >= 80
    BY <1>3, <1>4, <1>6, <1>7
  <2>2. score[nf] <= score[First(score)]
    BY <1>6
  <2>3. QED
    BY <2>1, <2>2
<1>8. QED
  BY <1>1, <1>5, <1>6, <1>7 DEF AlarmInv, ReachabilityFloor

LEMMA ScrapeCounts ==
  ASSUME AlarmInv, NEW cascade, Scrape(cascade)
  PROVE  /\ misses' \in [NFs -> Nat]
         /\ \A nf \in NFs : Unreachable(nf) => Unreachable(nf)'
<1>1. UnreachableCycles \in Nat /\ misses \in [NFs -> Nat]
  BY DetectionAssumption DEF AlarmInv
<1> DEFINE failed == {nf \in NFs : Down(nf)} \cup cascade
<1>2. misses' = [nf \in NFs |-> IF nf \in failed
                   THEN AtMost(UnreachableCycles, misses[nf] + 1) ELSE misses[nf]]
  BY DEF Scrape
<1> HIDE DEF failed
<1>3. ASSUME NEW nf \in NFs
      PROVE  /\ misses'[nf] \in Nat
             /\ misses[nf] >= UnreachableCycles => misses'[nf] >= UnreachableCycles
  <2>1. misses[nf] \in Nat
    BY <1>1
  <2>2. misses'[nf] = misses[nf] \/ misses'[nf] = AtMost(UnreachableCycles, misses[nf] + 1)
    BY <1>2
  <2>3. QED
    BY <1>1, <2>1, <2>2 DEF AtMost
<1>4. QED
  BY <1>2, <1>3 DEF Unreachable

LEMMA NextAlarm == AlarmInv /\ [Next]_vars => AlarmInv'
<1> SUFFICES ASSUME AlarmInv, [Next]_vars PROVE AlarmInv'
  OBVIOUS
<1>1. ASSUME NEW answered \in SUBSET NFs, NEW base \in [NFs -> BaseScores], NEW hub \in NFs,
             Score(answered, base, hub)
      PROVE  AlarmInv'
  BY <1>1, ScoreAlarms
<1>2. CASE FrontEnd
  BY <1>2 DEF FrontEnd, Inject, Recover, Restart, pipeline, AlarmInv, Unreachable
<1>3. ASSUME NEW cascade, Scrape(cascade) PROVE AlarmInv'
  <2>1. tick' # "report"
    BY <1>3 DEF Scrape
  <2>2. QED
    BY <1>3, <2>1, ScrapeCounts DEF AlarmInv
<1>4. ASSUME NEW linked, Report(linked) PROVE AlarmInv'
  BY <1>4 DEF Report, AlarmInv
<1>5. CASE UNCHANGED vars
  BY <1>5 DEF vars, pipeline, AlarmInv, Unreachable
<1>6. QED
  BY <1>1, <1>2, <1>3, <1>4, <1>5 DEF Next, Pipeline

(* rcsm.py:296 and rcsm.py:585: once a NF has failed as many scrapes as     *)
(* count, ever and not in a row, it counts as unreachable for good, and     *)
(* every report from then on is critical and names a network function.  So  *)
(* no outage that telemetry has noticed is reported as all clear, and none  *)
(* that it has ever noticed is over.                                        *)
StaysUnreachable == [][\A nf \in NFs : Unreachable(nf) => Unreachable(nf)']_vars
AlarmForGood ==
  [][(\E nf \in NFs : Unreachable(nf)) =>
       latest' = latest \/ (latest'.root \in NFs /\ latest'.severity = "CRITICAL")]_vars

THEOREM OutageIsCriticalForGood == Spec => StaysUnreachable /\ AlarmForGood
<1> DEFINE Stays  == \A nf \in NFs : Unreachable(nf) => Unreachable(nf)'
           Alarms == (\E nf \in NFs : Unreachable(nf)) =>
                       latest' = latest \/ (latest'.root \in NFs /\ latest'.severity = "CRITICAL")
<1>1. Init => AlarmInv
  BY DEF Init, AlarmInv
<1>2. ASSUME AlarmInv, Next PROVE Stays /\ Alarms
  <2>1. CASE FrontEnd
    BY <2>1 DEF FrontEnd, Inject, Recover, Restart, pipeline, Unreachable
  <2>2. ASSUME NEW cascade, Scrape(cascade) PROVE Stays /\ Alarms
    <3>1. latest' = latest
      BY <2>2 DEF Scrape
    <3>2. QED
      BY <1>2, <2>2, <3>1, ScrapeCounts
  <2>3. ASSUME NEW answered, NEW base, NEW hub, Score(answered, base, hub)
        PROVE  Stays /\ Alarms
    BY <2>3 DEF Score, Unreachable
  <2>4. ASSUME NEW linked, Report(linked) PROVE Stays /\ Alarms
    <3>1. Stays
      BY <2>4 DEF Report, Unreachable
    <3>2. ASSUME NEW nf \in NFs, Unreachable(nf)
          PROVE  latest'.root \in NFs /\ latest'.severity = "CRITICAL"
      <4>1. ~NoneSilent /\ tick = "report"
        BY <2>4, <3>2 DEF NoneSilent, Report
      <4>2. latest' = [root |-> ranking.top, severity |-> Severity(ranking.score)]
        BY <2>4, <4>1 DEF Report
      <4>3. ranking.top \in NFs /\ ranking.score \in Int /\ ranking.score >= 80
        BY <1>2, <3>2, <4>1 DEF AlarmInv, ReachabilityFloor
      <4>4. ranking.score > 60
        BY <4>3
      <4>5. Severity(ranking.score) = "CRITICAL"
        BY <4>4 DEF Severity
      <4>6. QED
        BY <4>2, <4>3, <4>5
    <3>3. QED
      BY <3>1, <3>2
  <2>5. QED
    BY <1>2, <2>1, <2>2, <2>3, <2>4 DEF Next, Pipeline
<1>3. AlarmInv /\ [Next]_vars => [Stays]_vars /\ [Alarms]_vars
  BY <1>2
<1>4. QED
  BY <1>1, <1>3, NextAlarm, PTL DEF Spec, StaysUnreachable, AlarmForGood
=============================================================================

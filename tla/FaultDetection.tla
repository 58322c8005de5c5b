---------------------------- MODULE FaultDetection ----------------------------
(***************************************************************************)
(* From a fault to the report that names it.  The fault endpoints          *)
(* (src/api/frg.py, src/faults/injector.py) run on the event loop and      *)
(* change containers; the pipeline thread scrapes telemetry every cycle    *)
(* and every few cycles scores the network functions                       *)
(* (src/causal/engine/rcsm.py) and publishes a report.                     *)
(*                                                                         *)
(* What the analysis computes from the telemetry (Granger links, Bayesian  *)
(* and centrality scores) is chosen from small sets; how the score turns   *)
(* it, the reachability series and the container states into a verdict is  *)
(* the code's.  Scores are in hundredths.                                  *)
(***************************************************************************)
EXTENDS Integers, Sequences, FiniteSets

CONSTANTS
  Targets,       \* FaultInjector.SCENARIOS: scenario -> [nf, action]
  NodeOrder,     \* the network functions, in the order of the graph's nodes
  BaseScores,    \* composite scores before any boost
  ReadyAfter,    \* cycles until TelemetryBuffer.ready
  AnalyseEvery,  \* cycles from one analysis to the next
  UnreachableCycles,  \* _UNREACHABLE_CYCLES
  PersistCycles,      \* _EXITED_PERSIST_CYCLES
  TrackedAnswers \* model bound: how far the history variable answers counts

NFs == {NodeOrder[i] : i \in 1..Len(NodeOrder)}
Scenarios == DOMAIN Targets

ASSUME DetectionAssumption ==
  /\ Len(NodeOrder) \in Nat \ {0}
  /\ \A s \in Scenarios : Targets[s].nf \in NFs /\ Targets[s].action \in {"stop", "pause"}
  /\ \A i, j \in 1..Len(NodeOrder) : i # j => NodeOrder[i] # NodeOrder[j]
  /\ BaseScores \subseteq 0..100
  /\ AnalyseEvery \in Nat \ {0}
  /\ UnreachableCycles \in Nat \ {0} /\ PersistCycles \in Nat
  /\ TrackedAnswers \in Nat
  /\ ReadyAfter \in Nat \ {0} /\ ReadyAfter % AnalyseEvery = 0

ReachabilityFloor == 80    \* _REACHABILITY_FLOOR
CrashScore        == 101

VARIABLES
  container,  \* docker's state of each NF's container
  active,     \* state.injector.active_faults: a set, for Inject lets no
              \* scenario in twice
  cycle,      \* state.cycle_count, wrapped once the buffer is ready
  misses,     \* length of the nf_reachability series of a NF, see Scrape
  age,        \* _exited_nfs: score calls since a NF was seen down, or Never
  tick,       \* where the pipeline is: "scrape", "score" or "report"
  ranking,    \* candidates of the pass: the one at rank 1
  latest,     \* state.latest_report
  answers,    \* history variable: scrapes a NF has answered since it failed one
  lastDown,   \* history variable: score calls since a NF really was down
  seen        \* history variable: what the docker query of the pass met

frontEnd == <<container, active>>
pipeline == <<cycle, misses, age, tick, ranking, latest, answers, lastDown, seen>>
vars     == <<frontEnd, pipeline>>

Never   == -1
Down(nf) == container[nf] \in {"exited", "paused"}
NoRanking == [top |-> NodeOrder[1], score |-> 0]
NothingSeen == [answered |-> {}, down |-> {}]
NoReport == [root |-> "nothing yet", severity |-> "none"]

Init ==
  /\ container = [nf \in NFs |-> "running"]
  /\ active = {}
  /\ cycle = 0
  /\ misses = [nf \in NFs |-> 0]
  /\ age = [nf \in NFs |-> Never]
  /\ tick = "scrape"
  /\ ranking = NoRanking
  /\ latest = NoReport
  /\ answers = [nf \in NFs |-> 0]
  /\ lastDown = [nf \in NFs |-> PersistCycles + 1]
  /\ seen = NothingSeen
-----------------------------------------------------------------------------
(* The fault endpoints. *)

(* A docker command does what it says to a container in the state for it   *)
(* and is refused in any other; its exit code is ignored.                  *)
Docker(command, state) ==
  CASE command = "stop"    -> "exited"
    [] command = "pause"   -> IF state = "running" THEN "paused" ELSE state
    [] command = "start"   -> IF state = "exited" THEN "running" ELSE state
    [] command = "unpause" -> IF state = "paused" THEN "running" ELSE state
    [] command = "restart" -> "running"

RunDocker(command, nf) ==
  \E succeeds \in BOOLEAN :
    container' = [container EXCEPT ![nf] =
                    IF succeeds THEN Docker(command, @) ELSE @]

(* inject_fault: 409 if the scenario is active. *)
Inject(scenario) ==
  /\ scenario \notin active
  /\ RunDocker(Targets[scenario].action, Targets[scenario].nf)
  /\ active' = active \cup {scenario}
  /\ UNCHANGED pipeline

(* recover_fault runs its command whether the scenario is active or not. *)
Recover(scenario) ==
  /\ RunDocker(IF Targets[scenario].action = "stop" THEN "start" ELSE "unpause",
               Targets[scenario].nf)
  /\ active' = active \ {scenario}
  /\ UNCHANGED pipeline

(* POST /remediation/{nf_id}: the injector is not told. *)
Restart(nf) ==
  /\ RunDocker("restart", nf)
  /\ UNCHANGED <<active, pipeline>>
-----------------------------------------------------------------------------
(* The pipeline thread. *)

AtMost(bound, n) == IF n > bound THEN bound ELSE n

(* scrape_all: a NF whose container is down fails, and so may others in its *)
(* cascade.  A failure appends 0.0 to nf_reachability and a success appends *)
(* nothing to it (nf_scraper.py:126-150), so the series is so many zeros.   *)
Scrape(cascade) ==
  /\ tick = "scrape"
  /\ LET failed == {nf \in NFs : Down(nf)} \cup cascade
     IN /\ misses' = [nf \in NFs |-> IF nf \in failed
                        THEN AtMost(UnreachableCycles, misses[nf] + 1) ELSE misses[nf]]
        /\ answers' = [nf \in NFs |-> IF nf \in failed THEN 0
                         ELSE AtMost(TrackedAnswers, answers[nf] + 1)]
  /\ cycle' = IF cycle = ReadyAfter + AnalyseEvery THEN ReadyAfter + 1 ELSE cycle + 1
  /\ tick' = IF cycle' >= ReadyAfter /\ cycle' % AnalyseEvery = 0
             THEN "score" ELSE "scrape"
  /\ UNCHANGED <<frontEnd, age, ranking, latest, lastDown, seen>>

Unreachable(nf) == misses[nf] >= UnreachableCycles

(* _exited_nfs after the query: down is noted, running is dropped, and a NF *)
(* docker did not answer for is kept for so many calls.                     *)
AgeUndropped(answered) ==                       \* mutant: running is not dropped
  [nf \in NFs |-> IF nf \in answered /\ Down(nf) THEN 0
                  ELSE IF age[nf] \in 0..(PersistCycles - 1) THEN age[nf] + 1
                  ELSE Never]
AgeUnexpired(answered) ==                       \* mutant: nothing expires
  [nf \in NFs |-> IF nf \in answered THEN IF Down(nf) THEN 0 ELSE Never
                  ELSE age[nf]]
AgeAfter(answered) ==
  [nf \in NFs |-> IF nf \in answered THEN IF Down(nf) THEN 0 ELSE Never
                  ELSE IF age[nf] \in 0..(PersistCycles - 1) THEN age[nf] + 1
                  ELSE Never]

(* The candidate at rank 1: the sort is stable over the order of the nodes. *)
First(score) ==
  LET best == {i \in 1..Len(NodeOrder) :
                 \A nf \in NFs : score[nf] <= score[NodeOrder[i]]}
  IN NodeOrder[CHOOSE i \in best : \A j \in best : i <= j]

(* score: docker answers for some containers, or none when it fails. *)
Score(answered, base, hub) ==
  /\ tick = "score"
  /\ age' = AgeAfter(answered)
  /\ LET boosted == {nf \in NFs : age'[nf] # Never}
         floor(nf) == ReachabilityFloor + (IF nf = hub THEN 20 ELSE 0)
         AtLeast(bound, n) == IF n < bound THEN bound ELSE n
         score == [nf \in NFs |->
                     IF nf \in boosted THEN AtLeast(CrashScore, base[nf])
                     ELSE IF Unreachable(nf) THEN AtLeast(floor(nf), base[nf])
                     ELSE base[nf]]
     IN ranking' = [top |-> First(score), score |-> score[First(score)]]
  /\ lastDown' = [nf \in NFs |-> IF Down(nf) THEN 0
                                 ELSE AtMost(PersistCycles + 1, lastDown[nf] + 1)]
  /\ seen' = [answered |-> answered, down |-> {nf \in NFs : Down(nf)}]
  /\ tick' = "report"
  /\ UNCHANGED <<frontEnd, cycle, misses, latest, answers>>

Severity(score) ==
  IF score > 60 THEN "CRITICAL" ELSE IF score > 40 THEN "HIGH"
  ELSE IF score > 20 THEN "MEDIUM" ELSE "LOW"

(* Mutant: the gate waits until all of them are unreachable. *)
SomeAnswer == \E nf \in NFs : ~Unreachable(nf)
NoneSilent == \A nf \in NFs : ~Unreachable(nf)

(* generate_report and its publication; linked: Granger found enough links. *)
Report(linked) ==
  /\ tick = "report"
  /\ latest' = IF NoneSilent /\ ~linked
               THEN [root |-> "none", severity |-> "INFO"]
               ELSE [root |-> ranking.top, severity |-> Severity(ranking.score)]
  /\ tick' = "scrape"
  /\ ranking' = NoRanking /\ seen' = NothingSeen
  /\ UNCHANGED <<frontEnd, cycle, misses, age, answers, lastDown>>

FrontEnd ==
  \/ \E scenario \in Scenarios : Inject(scenario) \/ Recover(scenario)
  \/ \E nf \in NFs : Restart(nf)

Pipeline ==
  \/ \E cascade \in SUBSET NFs : Scrape(cascade)
  \/ \E answered \in SUBSET NFs, base \in [NFs -> BaseScores], hub \in NFs :
       Score(answered, base, hub)
  \/ \E linked \in BOOLEAN : Report(linked)

Next == FrontEnd \/ Pipeline

(* pipeline_loop goes on while the service runs. *)
Spec == Init /\ [][Next]_vars /\ WF_vars(Pipeline)
-----------------------------------------------------------------------------
(* rcsm.py:443: while docker answers for every container, a NF whose        *)
(* container is down is at rank 1, before NFs that are unreachable in its   *)
(* cascade and before NFs that were down at an earlier call.                *)
CrashRanksFirst ==
  tick = "report" /\ seen.answered = NFs /\ seen.down # {} =>
    ranking.top \in seen.down

(* rcsm.py:409-412: whatever docker answers and when, a NF is boosted as    *)
(* crashed only if its container was down at this or one of the last        *)
(* PersistCycles calls of score.                                            *)
BoostIsFresh ==
  \A nf \in NFs : age[nf] # Never => lastDown[nf] <= PersistCycles

(* Docstring at rcsm.py:289: unreachable iff the NF has been unreachable    *)
(* across the most recent telemetry cycles.  In any case not one that has   *)
(* answered every one of them.                                              *)
UnreachableIsRecent ==
  \A nf \in NFs : Unreachable(nf) => answers[nf] < UnreachableCycles

(* rcsm.py:585-598: a container that goes down for good ends the INFO       *)
(* reports: at last every report names a root cause, whether docker answers *)
(* and whether Granger finds links or not.                                  *)
OutageIsReported ==
  (\E nf \in NFs : <>[]Down(nf)) => <>[](latest.root # "none")
=============================================================================

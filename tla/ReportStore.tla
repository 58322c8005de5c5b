----------------------------- MODULE ReportStore -----------------------------
(***************************************************************************)
(* The store of RCA reports, src/causal5g/rca/report.py.  Reports are      *)
(* generated once and stay; PATCH changes a report's status and its        *)
(* verification outcome and nothing that was derived from them.            *)
(*                                                                         *)
(* No handler awaits anything.  Reports are numbered in the order of their *)
(* generation; scores are in hundredths; the wording of evidence, summary  *)
(* and recommendations is left out, and of the recommendations only those  *)
(* about urgency and manual work depend on more than the scenario.         *)
(***************************************************************************)
EXTENDS Integers, Sequences

CONSTANTS
    ReportScenarios,  \* fault scenarios, in Chains or not
    Chains,           \* scenario -> NFs in causal order: the table of five
    ReportNFs,        \* root causes a caller may name
    ReportScores,
    Outcome,          \* verification outcomes
    NoOutcome,        \* None
    ReportCap,        \* bound of the model: reports
    PatchCap          \* bound of the model: PATCH calls

ASSUME ReportAssumption ==
    /\ DOMAIN Chains \subseteq ReportScenarios
    /\ NoOutcome \notin Outcome
    /\ ReportScores \subseteq Nat

VARIABLES
    reports,    \* _reports, in the order of generation
    patches     \* PATCH calls so far

reportVars == <<reports, patches>>

ReportStatus == {"open", "remediated", "verified", "escalated", "closed"}

SeverityOf(score) ==
    CASE score >= 85 -> "critical"
      [] score >= 70 /\ score < 85 -> "high"
      [] score >= 50 /\ score < 70 -> "medium"
      [] score < 50 -> "low"

(* _build_causal_chain: the scenario decides, the root cause that the caller
   has found only where the scenario is not in the table. *)
ChainOf(scenario, nf) ==
    IF scenario \in DOMAIN Chains THEN Chains[scenario] ELSE <<nf>>

(* _build_recommendations *)
AdviceFor(severity, outcome) ==
    [sre |-> severity \in {"critical", "high"}, manual |-> outcome = "persisting"]

InitReports == reports = <<>> /\ patches = 0

Generate(scenario, nf, score, outcome) ==
    /\ Len(reports) < ReportCap
    /\ LET severity == SeverityOf(score)
       IN reports' = Append(reports,
            [scenario |-> scenario, nf |-> nf, severity |-> severity,
             chain |-> ChainOf(scenario, nf), outcome |-> outcome,
             advice |-> AdviceFor(severity, outcome), status |-> "open"])
    /\ UNCHANGED patches

\* mutant: a PATCH without an outcome takes the outcome away
UpdateStatusBare(i, status, outcome) ==
    /\ patches < PatchCap
    /\ reports' = [reports EXCEPT ![i].status = status, ![i].outcome = outcome]
    /\ patches' = patches + 1

UpdateStatus(i, status, outcome) ==
    /\ patches < PatchCap
    /\ reports' = [reports EXCEPT ![i].status = status,
                     ![i].outcome = IF outcome = NoOutcome THEN @ ELSE outcome]
    /\ patches' = patches + 1

NextReports ==
    \/ \E scenario \in ReportScenarios, nf \in ReportNFs, score \in ReportScores,
          outcome \in Outcome \cup {NoOutcome} : Generate(scenario, nf, score, outcome)
    \/ \E i \in 1..Len(reports), status \in ReportStatus,
          outcome \in Outcome \cup {NoOutcome} : UpdateStatus(i, status, outcome)

ReportSpec == InitReports /\ [][NextReports]_reportVars

(* list_all with a status, newest first, and count *)
Listed(status) == SelectSeq(reports, LAMBDA r : r.status = status)
Count(status) == Len(Listed(status))

-----------------------------------------------------------------------------
(* A report is never lost and a verdict never withdrawn, only replaced,
   whatever is done to other reports; and what was derived when the report
   was generated (severity, chain, advice) stays as it was: advice to step
   in by hand speaks of the first verdict, not of the last. *)
ReportsAreKept ==
    [][\A i \in 1..Len(reports) :
         /\ i <= Len(reports')
         /\ reports[i].outcome # NoOutcome => reports'[i].outcome # NoOutcome
         /\ [f \in {"severity", "chain", "advice"} |-> reports'[i][f]]
              = [f \in {"severity", "chain", "advice"} |-> reports[i][f]]]_reportVars
=============================================================================

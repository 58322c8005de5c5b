---------------------------- MODULE ReportHistory ----------------------------
(***************************************************************************)
(* How the pipeline thread of src/api/frg.py publishes a report, and how   *)
(* the event loop looks one up meanwhile: candidates, report and history   *)
(* are set one after the other and nothing locks, so the for loop of a     *)
(* lookup may run over the history while its oldest report is cut off.     *)
(*                                                                         *)
(* Reports are named by ids that are used in turn; more of them than the   *)
(* history holds are told apart.                                           *)
(***************************************************************************)
EXTENDS Integers, Sequences

CONSTANTS
    HistoryLimit,   \* 50 in the code
    IdCount,        \* bound of the model: ids before the first is used again
    NoReport

ASSUME HistoryAssumption ==
    /\ HistoryLimit \in Nat \ {0}
    /\ IdCount \in Nat /\ IdCount > HistoryLimit + 1
    /\ NoReport \notin Nat

ReportIds == 0..(IdCount - 1)

VARIABLES
    candidates,   \* state.candidates: the report they belong to
    latest,       \* state.latest_report
    history,      \* state.report_history
    publishing,   \* where the pipeline thread is
    lookup        \* get_fault_report: what it looks for, and how far it is

historyVars == <<candidates, latest, history, publishing, lookup>>

NoLookup ==
    [stage |-> "none", wanted |-> NoReport, at |-> 1, present |-> FALSE, cut |-> FALSE]

InitHistory ==
    /\ candidates = NoReport /\ latest = NoReport /\ history = <<>>
    /\ publishing = "analysing"
    /\ lookup = NoLookup

InHistory(id, s) == \E i \in 1..Len(s) : s[i] = id

(* The end of a pass: what it found is stored, and then broadcast. *)
NextReport == IF candidates = NoReport THEN 0 ELSE (candidates + 1) % IdCount

PublishCandidates ==
    /\ publishing = "analysing"
    /\ candidates' = NextReport /\ publishing' = "candidates"
    /\ UNCHANGED <<latest, history, lookup>>

PublishReport ==
    /\ publishing = "candidates"
    /\ latest' = candidates /\ publishing' = "report"
    /\ UNCHANGED <<candidates, history, lookup>>

Record ==
    /\ publishing = "report"
    /\ history' = Append(history, latest) /\ publishing' = "recorded"
    /\ UNCHANGED <<candidates, latest, lookup>>

(* A lookup under way does not notice; the history variables do. *)
Cut ==
    /\ publishing = "recorded"
    /\ IF Len(history) > HistoryLimit
       THEN /\ history' = Tail(history)
            /\ lookup' = IF lookup.stage = "looking"
                         THEN [lookup EXCEPT !.cut = TRUE,
                                 !.present = @ /\ InHistory(lookup.wanted, Tail(history))]
                         ELSE lookup
       ELSE UNCHANGED <<history, lookup>>
    /\ publishing' = "announced"
    /\ UNCHANGED <<candidates, latest>>

Announced ==
    /\ publishing = "announced"
    /\ publishing' = "analysing"
    /\ UNCHANGED <<candidates, latest, history, lookup>>

Lookup(id) ==
    /\ lookup.stage # "looking"
    /\ lookup' = [stage |-> "looking", wanted |-> id, at |-> 1,
                  present |-> InHistory(id, history), cut |-> FALSE]
    /\ UNCHANGED <<candidates, latest, history, publishing>>

\* mutant: the loop ends an element early
LookFurtherEarly ==
    /\ lookup.stage = "looking"
    /\ lookup' = IF lookup.at >= Len(history) THEN [lookup EXCEPT !.stage = "missed"]
                 ELSE IF history[lookup.at] = lookup.wanted
                 THEN [lookup EXCEPT !.stage = "found"]
                 ELSE [lookup EXCEPT !.at = @ + 1]
    /\ UNCHANGED <<candidates, latest, history, publishing>>

LookFurther ==
    /\ lookup.stage = "looking"
    /\ lookup' = IF lookup.at > Len(history) THEN [lookup EXCEPT !.stage = "missed"]
                 ELSE IF history[lookup.at] = lookup.wanted
                 THEN [lookup EXCEPT !.stage = "found"]
                 ELSE [lookup EXCEPT !.at = @ + 1]
    /\ UNCHANGED <<candidates, latest, history, publishing>>

NextHistory ==
    \/ PublishCandidates \/ PublishReport \/ Record \/ Cut \/ Announced
    \/ \E id \in ReportIds : Lookup(id)
    \/ LookFurther

HistorySpec == InitHistory /\ [][NextHistory]_historyVars

-----------------------------------------------------------------------------
HistoryTypeOK ==
    /\ candidates \in ReportIds \cup {NoReport}
    /\ latest \in ReportIds \cup {NoReport}
    /\ history \in Seq(ReportIds)
    /\ publishing \in {"analysing", "candidates", "report", "recorded", "announced"}
    /\ lookup \in [stage : {"none", "looking", "found", "missed"},
                   wanted : ReportIds \cup {NoReport}, at : Nat \ {0},
                   present : BOOLEAN, cut : BOOLEAN]

(* What a request is answered with is in the history, or about to be: the
   report /faults/active shows can be looked up by its id from the moment
   the feed announces it until the next is being stored, however short the
   history is. *)
LatestCanBeLookedUp ==
    publishing \in {"announced", "analysing", "candidates"} /\ latest # NoReport =>
        InHistory(latest, history)

(* A report that is in the history all through a lookup is found, unless the
   pipeline cuts the history meanwhile: then the loop may step over it, and
   the answer is 404. *)
FoundUnlessCut ==
    lookup.stage = "missed" /\ lookup.present => lookup.cut
=============================================================================

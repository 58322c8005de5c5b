------------------------------- MODULE Verifier -------------------------------
(***************************************************************************)
(* The remediation verifier, src/causal5g/remediation/verifier.py: it      *)
(* compares the score of a fault before and after its remediation and      *)
(* keeps the last ResultLimit verdicts and three counters.                 *)
(*                                                                         *)
(* Scores are in hundredths.  The difference of two doubles may fall on    *)
(* either side of the double nearest to MIN_IMPROVEMENT when the scores    *)
(* are exactly that far apart (0.7 - 0.5 < 0.2, 0.5 - 0.3 >= 0.2), so      *)
(* there either verdict is possible.                                       *)
(***************************************************************************)
EXTENDS Integers, Sequences

CONSTANTS
    ScoreValues,   \* scores in hundredths
    Unscored,      \* no score was taken (post_rcsm_score is None)
    ResultLimit,   \* 200 in the code
    VerifyCap      \* bound of the model: verifications

ASSUME VerifierAssumption ==
    ScoreValues \subseteq Nat /\ Unscored \notin ScoreValues /\ ResultLimit \in Nat \ {0}

VARIABLES
    verdicts,       \* results
    verified,       \* total_verified
    cleared,        \* total_cleared
    escalations     \* total_escalated

verifierVars == <<verdicts, verified, cleared, escalations>>

ClearedThreshold == 30
MinImprovement == 20

InitVerifier ==
    verdicts = <<>> /\ verified = 0 /\ cleared = 0 /\ escalations = 0

\* mutant: the difference is taken the way the field's comment has it
OutcomesReversed(pre, post) ==
    IF post = Unscored THEN {"inconclusive"}
    ELSE IF post < ClearedThreshold THEN {"cleared"}
    ELSE IF post - pre > MinImprovement THEN {"degraded"}
    ELSE {"persisting"}

(* The outcomes a pair of scores may be given. *)
Outcomes(pre, post) ==
    IF post = Unscored THEN {"inconclusive"}
    ELSE IF post < ClearedThreshold THEN {"cleared"}
    ELSE IF pre - post > MinImprovement THEN {"degraded"}
    ELSE IF pre - post < MinImprovement THEN {"persisting"}
    ELSE {"degraded", "persisting"}

(* outcome_to_signal, in tenths.  No verification yields "timeout". *)
Signal(outcome) ==
    CASE outcome = "cleared"      -> 10
      [] outcome = "degraded"     -> 6
      [] outcome = "inconclusive" -> 5
      [] outcome = "timeout"      -> 2
      [] outcome = "persisting"   -> 0

LatestResults(s) ==
    IF Len(s) <= ResultLimit THEN s ELSE SubSeq(s, Len(s) - ResultLimit + 1, Len(s))

Verify(pre, post) ==
    /\ verified < VerifyCap
    /\ \E outcome \in Outcomes(pre, post) :
         /\ verdicts' = LatestResults(Append(verdicts,
                          [pre |-> pre, post |-> post, outcome |-> outcome]))
         /\ verified' = verified + 1
         /\ cleared' = IF outcome = "cleared" THEN cleared + 1 ELSE cleared
         /\ escalations' = IF outcome = "persisting" THEN escalations + 1 ELSE escalations

NextVerifier ==
    \E pre \in ScoreValues, post \in ScoreValues \cup {Unscored} : Verify(pre, post)

VerifierSpec == InitVerifier /\ [][NextVerifier]_verifierVars

-----------------------------------------------------------------------------
(* Of two remediations of equally bad faults, the one that leaves the lower
   score is never given the weaker signal, and of two that leave the same
   score, the one of the worse fault is not either: the recalibration that
   reads the signals never learns backwards.  (At the exact improvement the
   rounding decides, and equal pairs may differ.) *)
SignalsFollowScores ==
    \A i, j \in 1..Len(verdicts) :
      LET a == verdicts[i]
          b == verdicts[j]
      IN /\ a.post # Unscored /\ b.post # Unscored
         /\ a.pre >= b.pre /\ a.post <= b.post
         /\ <<a.pre, a.post>> # <<b.pre, b.post>>
         => Signal(a.outcome) >= Signal(b.outcome)
=============================================================================

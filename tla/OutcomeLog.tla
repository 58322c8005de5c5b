------------------------------ MODULE OutcomeLog ------------------------------
(***************************************************************************)
(* What the feedback recalibration loop promises its reader, without its   *)
(* buffer, index and threads: remediation outcomes are reported one after  *)
(* the other, and the recalibrator ingests them in whole batches, in the   *)
(* order of their reports and none of them twice, until somebody rewinds   *)
(* the loop.  It does not promise that every outcome is ingested.          *)
(***************************************************************************)
EXTENDS Integers

CONSTANTS MinFeedback, MaxOutcomes

VARIABLES
  reported,   \* outcomes reported so far; they are numbered 1..reported
  ingested    \* the outcomes ingested since the last rewind

vars == <<reported, ingested>>

Init == reported = 0 /\ ingested = {}

Report ==
  /\ reported < MaxOutcomes
  /\ reported' = reported + 1
  /\ UNCHANGED ingested

Ingest(first, last) ==
  /\ last - first + 1 >= MinFeedback
  /\ \A n \in ingested : n < first
  /\ ingested' = ingested \cup first..last
  /\ UNCHANGED reported

Rewind == ingested' = {} /\ UNCHANGED reported

Next ==
  \/ Report
  \/ \E first, last \in 1..reported : Ingest(first, last)
  \/ Rewind

Spec == Init /\ [][Next]_vars
=============================================================================

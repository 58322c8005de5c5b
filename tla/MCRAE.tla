-------------------------------- MODULE MCRAE --------------------------------
(* RAE for TLC: four requests against a history of two. *)
EXTENDS RAE

MCScenarios == {"pcf_timeout", "gnb_outage"}
MCScores    == {64, 65}
MCAttempts  == {0, 3}
=============================================================================

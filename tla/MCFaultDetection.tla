--------------------------- MODULE MCFaultDetection ---------------------------
(* FaultDetection for TLC: a crash and a pause, in two network functions. *)
EXTENDS FaultDetection

MCTargets == [smf_crash   |-> [nf |-> "smf", action |-> "stop"],
              pcf_timeout |-> [nf |-> "pcf", action |-> "pause"]]
MCNodeOrder == <<"smf", "pcf">>
=============================================================================

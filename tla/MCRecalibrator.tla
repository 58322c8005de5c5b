---------------------------- MODULE MCRecalibrator ----------------------------
(* Recalibrator for TLC: a learning rate so large that one batch meets      *)
(* either bound, one NF with two effects and one with one, and two passes,  *)
(* the second with weights to decay when the reset comes.                   *)
EXTENDS Recalibrator
=============================================================================

----------------------------- MODULE MCFeedbackLoop -----------------------------
(* FeedbackLoop for TLC; the configurations differ in their bounds. *)
EXTENDS FeedbackLoop
=============================================================================

------------------------------- MODULE MCStores -------------------------------
(***************************************************************************)
(* The parts whose every operation is one step, for TLC: stores and caches *)
(* behind handlers that await nothing, and the telemetry buffer, which the *)
(* pipeline thread alone fills and analyses.  They share no variable;      *)
(* focus, chosen at the beginning, says which of them moves.               *)
(***************************************************************************)
EXTENDS PolicyStore, Verifier, ReportStore, Telemetry, PCRouter

VARIABLE focus

vars == <<focus, policyVars, verifierVars, reportVars, telemetryVars, routerVars>>

MCDefaultPolicies ==
    <<[scenario |-> "amf_crash", action |-> "restart_pod", priority |-> 1,
       description |-> "restart"],
      [scenario |-> "_default", action |-> "notify_operator", priority |-> 2,
       description |-> "fallback"]>>
MCChains == [amf_crash |-> <<"amf", "smf", "upf">>]
MCMetricLinks == {<<"amf_cpu", "smf_cpu">>, <<"smf_cpu", "upf_cpu">>}

Init ==
    /\ focus \in {"policies", "verifier", "reports", "telemetry", "router"}
    /\ InitPolicies /\ InitVerifier /\ InitReports /\ InitTelemetry /\ InitRouter

Next ==
    /\ UNCHANGED focus
    /\ \/ /\ focus = "policies" /\ NextPolicies
          /\ UNCHANGED <<verifierVars, reportVars, telemetryVars, routerVars>>
       \/ /\ focus = "verifier" /\ NextVerifier
          /\ UNCHANGED <<policyVars, reportVars, telemetryVars, routerVars>>
       \/ /\ focus = "reports" /\ NextReports
          /\ UNCHANGED <<policyVars, verifierVars, telemetryVars, routerVars>>
       \/ /\ focus = "telemetry" /\ NextTelemetry
          /\ UNCHANGED <<policyVars, verifierVars, reportVars, routerVars>>
       \/ /\ focus = "router" /\ NextRouter
          /\ UNCHANGED <<policyVars, verifierVars, reportVars, telemetryVars>>

Spec == Init /\ [][Next]_vars
=============================================================================

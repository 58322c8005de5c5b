------------------------------ MODULE MCServing ------------------------------
(***************************************************************************)
(* The parts of the API process that the pipeline thread, the event loop   *)
(* and the browser work on at once, for TLC.  They share no variable, so a *)
(* behaviour of one is as good with the others at rest: focus, chosen at   *)
(* the beginning, says which moves.                                        *)
(***************************************************************************)
EXTENDS LiveFeed, ReportHistory, Metrics, SliceAttribution, ControlPanel

VARIABLE focus

vars == <<focus, feedVars, historyVars, metricsVars, sliceVars, panelVars>>

MCDefaultConfigs == [embb |-> SliceSpecificNFs, miot |-> SliceSpecificNFs \ {"pcf"}]
MCLiveEdges == {{<<"amf", "upf">>, <<"nrf", "amf">>, <<"upf", "pcf">>}}

Init ==
    /\ focus \in {"feed", "history", "metrics", "slices", "panel"}
    /\ InitFeed /\ InitHistory /\ InitMetrics /\ InitSlices /\ InitPanel
    /\ focus # "metrics" => installed
    /\ focus # "panel" => docker = NothingListed

InFeed(A) == focus = "feed" /\ A /\ UNCHANGED <<focus, historyVars, metricsVars, sliceVars, panelVars>>
InHistory_(A) == focus = "history" /\ A /\ UNCHANGED <<focus, feedVars, metricsVars, sliceVars, panelVars>>
InMetrics(A) == focus = "metrics" /\ A /\ UNCHANGED <<focus, feedVars, historyVars, sliceVars, panelVars>>
InSlices(A) == focus = "slices" /\ A /\ UNCHANGED <<focus, feedVars, historyVars, metricsVars, panelVars>>
InPanel(A) == focus = "panel" /\ A /\ UNCHANGED <<focus, feedVars, historyVars, metricsVars, sliceVars>>

Next ==
    \/ InFeed(NextFeed) \/ InHistory_(NextHistory) \/ InMetrics(NextMetrics)
    \/ InSlices(NextSlices) \/ InPanel(NextPanel)

(* As in FeedSpec and PanelSpec. *)
Fairness ==
    /\ WF_vars(InFeed(Event(Pipeline) \/ CastStep(Pipeline)))
    /\ \A r \in InFlight :
         /\ WF_vars(InPanel(Ask(r))) /\ WF_vars(InPanel(List(r))) /\ WF_vars(InPanel(Show(r)))
    /\ WF_vars(InPanel(CommandEnds))
    /\ WF_vars(InPanel(\E toggle \in toggles : Toggle(toggle)))

Spec == Init /\ [][Next]_vars /\ Fairness
=============================================================================

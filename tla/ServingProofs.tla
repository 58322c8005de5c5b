---------------------------- MODULE ServingProofs ----------------------------
(***************************************************************************)
(* Proofs about what the event loop and the pipeline thread share: the     *)
(* report history, the metrics, the list of the live feed and the registry *)
(* of slices, for any number of threads, handles, clients, tasks and       *)
(* slices, any topology and any limit.                                     *)
(***************************************************************************)
EXTENDS ReportHistory, Metrics, LiveFeed, SliceAttribution,
  FiniteSetTheorems, WellFoundedInduction, TLAPS

-----------------------------------------------------------------------------
(* While a lookup runs over a history that has not been cut, what it is after
   is not behind it. *)
NotBehind ==
    lookup.stage = "looking" /\ lookup.present /\ ~lookup.cut =>
        \E i \in lookup.at..Len(history) : history[i] = lookup.wanted

(* Where the pipeline thread is between two reports. *)
PublicationGoesOn ==
    /\ publishing = "candidates" => candidates \in ReportIds
    /\ publishing = "report" => latest \in ReportIds
    /\ publishing # "report" /\ latest # NoReport =>
          Len(history) > 0 /\ history[Len(history)] = latest

HistoryInv == HistoryTypeOK /\ NotBehind /\ PublicationGoesOn /\ FoundUnlessCut

LEMMA HistoryInitHolds == InitHistory => HistoryInv
BY HistoryAssumption DEF InitHistory, HistoryInv, HistoryTypeOK, NotBehind,
   PublicationGoesOn, FoundUnlessCut, NoLookup, ReportIds

LEMMA NextReportIsReport ==
  ASSUME candidates \in ReportIds \cup {NoReport}
  PROVE  NextReport \in ReportIds
<1>1. CASE candidates = NoReport
  BY <1>1, HistoryAssumption DEF NextReport, ReportIds
<1>2. CASE candidates # NoReport
  <2>1. candidates + 1 \in Nat /\ IdCount \in Nat /\ IdCount > 0
    BY <1>2, HistoryAssumption DEF ReportIds
  <2>2. (candidates + 1) % IdCount \in 0..(IdCount - 1)
    BY <2>1
  <2> QED
    BY <1>2, <2>2 DEF NextReport, ReportIds
<1> QED
  BY <1>1, <1>2

LEMMA HistoryStepHolds == HistoryInv /\ [NextHistory]_historyVars => HistoryInv'
<1> SUFFICES ASSUME HistoryInv, [NextHistory]_historyVars PROVE HistoryInv'
  OBVIOUS
<1> USE DEF HistoryInv
<1>1. CASE PublishCandidates
  <2>1. candidates' \in ReportIds
    BY <1>1, NextReportIsReport DEF PublishCandidates, HistoryTypeOK
  <2> QED
    BY <1>1, <2>1, HistoryAssumption DEF PublishCandidates, HistoryTypeOK, NotBehind,
       PublicationGoesOn, FoundUnlessCut
<1>2. CASE PublishReport
  BY <1>2 DEF PublishReport, HistoryTypeOK, NotBehind, PublicationGoesOn, FoundUnlessCut
<1>3. CASE Record
  <2>1. /\ history \in Seq(ReportIds) /\ latest \in ReportIds
        /\ history' = Append(history, latest)
        /\ UNCHANGED <<candidates, latest, lookup>> /\ publishing' = "recorded"
    BY <1>3 DEF Record, HistoryTypeOK, PublicationGoesOn
  <2>2. /\ history' \in Seq(ReportIds) /\ Len(history') = Len(history) + 1
        /\ history'[Len(history')] = latest
        /\ \A i \in 1..Len(history) : history'[i] = history[i]
        /\ Len(history) \in Nat
    BY <2>1
  <2>3. HistoryTypeOK'
    BY <2>1, <2>2 DEF HistoryTypeOK
  <2>4. NotBehind'
    <3> SUFFICES ASSUME lookup.stage = "looking", lookup.present, ~lookup.cut
                 PROVE  \E i \in lookup.at..Len(history') : history'[i] = lookup.wanted
      BY <2>1 DEF NotBehind
    <3>1. PICK i \in lookup.at..Len(history) : history[i] = lookup.wanted
      BY DEF NotBehind
    <3>2. lookup.at \in Nat \ {0}
      BY DEF HistoryTypeOK
    <3>3. i \in 1..Len(history) /\ i \in lookup.at..Len(history')
      BY <2>2, <3>1, <3>2
    <3> QED
      BY <2>2, <3>1, <3>3
  <2>5. PublicationGoesOn'
    BY <2>1, <2>2 DEF PublicationGoesOn
  <2> QED
    BY <2>1, <2>3, <2>4, <2>5 DEF FoundUnlessCut
<1>4. CASE Cut
  <2>1. CASE Len(history) > HistoryLimit
    <3>1. /\ history' = Tail(history) /\ UNCHANGED <<candidates, latest>>
          /\ publishing = "recorded" /\ publishing' = "announced"
          /\ lookup' = IF lookup.stage = "looking"
                       THEN [lookup EXCEPT !.cut = TRUE,
                               !.present = @ /\ InHistory(lookup.wanted, Tail(history))]
                       ELSE lookup
      BY <1>4, <2>1 DEF Cut
    <3>2. /\ history' \in Seq(ReportIds) /\ Len(history') = Len(history) - 1
          /\ Len(history') > 0 /\ history'[Len(history')] = history[Len(history)]
      BY <2>1, <3>1, HistoryAssumption DEF HistoryTypeOK
    <3>3. /\ lookup'.stage = lookup.stage /\ lookup'.wanted = lookup.wanted
          /\ lookup'.at = lookup.at /\ lookup'.present \in BOOLEAN /\ lookup'.cut \in BOOLEAN
          /\ lookup.stage = "looking" => lookup'.cut
          /\ lookup.stage # "looking" => lookup' = lookup
      BY <3>1 DEF HistoryTypeOK
    <3>4. lookup' \in [stage : {"none", "looking", "found", "missed"},
                       wanted : ReportIds \cup {NoReport}, at : Nat \ {0},
                       present : BOOLEAN, cut : BOOLEAN]
      BY <3>1 DEF HistoryTypeOK
    <3>5. HistoryTypeOK'
      BY <3>1, <3>2, <3>4 DEF HistoryTypeOK
    <3>6. NotBehind' /\ FoundUnlessCut'
      BY <3>3 DEF NotBehind, FoundUnlessCut
    <3>7. PublicationGoesOn'
      BY <3>1, <3>2 DEF PublicationGoesOn
    <3> QED
      BY <3>5, <3>6, <3>7
  <2>2. CASE ~(Len(history) > HistoryLimit)
    BY <1>4, <2>2 DEF Cut, HistoryTypeOK, NotBehind, PublicationGoesOn, FoundUnlessCut
  <2> QED
    BY <2>1, <2>2
<1>5. CASE Announced
  BY <1>5 DEF Announced, HistoryTypeOK, NotBehind, PublicationGoesOn, FoundUnlessCut
<1>6. ASSUME NEW id \in ReportIds, Lookup(id)
      PROVE  HistoryInv'
  <2>1. /\ lookup' = [stage |-> "looking", wanted |-> id, at |-> 1,
                       present |-> InHistory(id, history), cut |-> FALSE]
        /\ UNCHANGED <<candidates, latest, history, publishing>>
    BY <1>6 DEF Lookup
  <2>2. /\ lookup'.stage = "looking" /\ lookup'.wanted = id /\ lookup'.at = 1
        /\ lookup'.present = InHistory(id, history) /\ lookup'.cut = FALSE
    BY <2>1
  <2>3. lookup' \in [stage : {"none", "looking", "found", "missed"},
                     wanted : ReportIds \cup {NoReport}, at : Nat \ {0},
                     present : BOOLEAN, cut : BOOLEAN]
    <3> DEFINE b == InHistory(id, history)
    <3>1. b \in BOOLEAN
      BY DEF InHistory
    <3>2. lookup' = [stage |-> "looking", wanted |-> id, at |-> 1, present |-> b, cut |-> FALSE]
      BY <2>1
    <3> HIDE DEF b
    <3> QED
      BY <3>1, <3>2
  <2>4. HistoryTypeOK'
    BY <2>1, <2>3 DEF HistoryTypeOK
  <2>5. NotBehind'
    BY <2>1, <2>2 DEF NotBehind, InHistory
  <2>6. PublicationGoesOn' /\ FoundUnlessCut'
    BY <2>1, <2>2 DEF PublicationGoesOn, FoundUnlessCut
  <2> QED
    BY <2>4, <2>5, <2>6
<1>7. CASE LookFurther
  <2>1. /\ lookup.stage = "looking" /\ UNCHANGED <<candidates, latest, history, publishing>>
        /\ lookup.at \in Nat \ {0} /\ Len(history) \in Nat
    BY <1>7 DEF LookFurther, HistoryTypeOK
  <2>2. HistoryTypeOK'
    BY <1>7, <2>1 DEF LookFurther, HistoryTypeOK
  <2>3. PublicationGoesOn'
    BY <2>1 DEF PublicationGoesOn
  <2>4. CASE lookup.at > Len(history)
    <3>1. ~(lookup.present /\ ~lookup.cut)
      BY <2>1, <2>4 DEF NotBehind
    <3>2. lookup' = [lookup EXCEPT !.stage = "missed"]
      BY <1>7, <2>4 DEF LookFurther
    <3>3. lookup'.stage = "missed" /\ lookup'.present = lookup.present /\ lookup'.cut = lookup.cut
      BY <3>2 DEF HistoryTypeOK
    <3> QED
      BY <2>2, <2>3, <3>1, <3>3 DEF NotBehind, FoundUnlessCut
  <2>5. CASE ~(lookup.at > Len(history)) /\ history[lookup.at] = lookup.wanted
    <3>1. lookup'.stage = "found"
      BY <1>7, <2>5 DEF LookFurther, HistoryTypeOK
    <3> QED
      BY <2>2, <2>3, <3>1 DEF NotBehind, FoundUnlessCut
  <2>6. CASE ~(lookup.at > Len(history)) /\ history[lookup.at] # lookup.wanted
    <3>1. lookup' = [lookup EXCEPT !.at = @ + 1]
      BY <1>7, <2>6 DEF LookFurther
    <3>2. /\ lookup'.stage = "looking" /\ lookup'.at = lookup.at + 1
          /\ lookup'.wanted = lookup.wanted
          /\ lookup'.present = lookup.present /\ lookup'.cut = lookup.cut
      BY <2>1, <3>1 DEF HistoryTypeOK
    <3>3. NotBehind'
      <4> SUFFICES ASSUME lookup.present, ~lookup.cut
                   PROVE  \E i \in (lookup.at + 1)..Len(history) : history[i] = lookup.wanted
        BY <2>1, <3>2 DEF NotBehind
      <4>1. PICK i \in lookup.at..Len(history) : history[i] = lookup.wanted
        BY <2>1 DEF NotBehind
      <4>2. i \in (lookup.at + 1)..Len(history)
        BY <2>1, <2>6, <4>1
      <4> QED
        BY <4>1, <4>2
    <3> QED
      BY <2>2, <2>3, <3>2, <3>3 DEF FoundUnlessCut
  <2> QED
    BY <2>4, <2>5, <2>6
<1>8. CASE UNCHANGED historyVars
  BY <1>8 DEF historyVars, HistoryTypeOK, NotBehind, PublicationGoesOn, FoundUnlessCut
<1> QED
  BY <1>1, <1>2, <1>3, <1>4, <1>5, <1>6, <1>7, <1>8 DEF NextHistory

(* However the pipeline thread publishes while a request looks a report up,
   and however short the history is, the lookup misses a report that was
   there all the time only if the history was cut under it. *)
THEOREM FoundUnlessHistoryIsCut == HistorySpec => []FoundUnlessCut
<1>1. HistoryInv => FoundUnlessCut
  BY DEF HistoryInv
<1> QED
  BY <1>1, HistoryInitHolds, HistoryStepHolds, PTL DEF HistorySpec

(* The report that the feed announces can be looked up by its id until the
   next is being stored. *)
THEOREM LatestIsListed == HistorySpec => []LatestCanBeLookedUp
<1>1. HistoryInv => LatestCanBeLookedUp
  <2> SUFFICES ASSUME HistoryInv, latest # NoReport, publishing # "report"
               PROVE  InHistory(latest, history)
    BY DEF LatestCanBeLookedUp
  <2>1. Len(history) > 0 /\ history[Len(history)] = latest /\ Len(history) \in Nat
    BY DEF HistoryInv, HistoryTypeOK, PublicationGoesOn
  <2> QED
    BY <2>1 DEF InHistory
<1> QED
  BY <1>1, HistoryInitHolds, HistoryStepHolds, PTL DEF HistorySpec

-----------------------------------------------------------------------------
Steps == {"rest", "ready?", "tried?", "import", "handles", "available", "report"}
Results == {"none", "dropped", "raised", "rendered", "counted", "orphaned"}

MetricsTypeOK ==
    /\ installed \in BOOLEAN /\ available \in BOOLEAN
    /\ registry \in Threads \cup {Unset, Unavailable}
    /\ handle \in [Handle -> Threads \cup {Unset}]
    /\ call \in [Threads -> [step : Steps, of : 0..HandleCount, next : Nat, result : Results]]
    /\ settledAt \in [Threads -> BOOLEAN]

(* How far the building has come, as each thread's place in ensure tells. *)
BuiltSoFar ==
    /\ available => installed /\ registry \in Threads /\ \A h \in Handle : handle[h] # Unset
    /\ \A t \in Threads :
         /\ call[t].step \in {"ready?", "tried?", "import"} => call[t].next = 1
         /\ call[t].step \in {"handles", "available"} => installed /\ registry \in Threads
         /\ call[t].step = "handles" =>
              call[t].next \in Handle /\ \A h \in 1..(call[t].next - 1) : handle[h] # Unset
         /\ call[t].step = "available" => \A h \in Handle : handle[h] # Unset
         /\ call[t].step = "report" => available
    /\ installed => registry # Unavailable

(* A call that began when metrics had settled finds them settled at each of
   its steps. *)
SettledCalls ==
    \A t \in Threads : settledAt[t] /\ call[t].step # "rest" =>
        Settled /\ call[t].step \in {"ready?", "report"}

MetricsInv == MetricsTypeOK /\ BuiltSoFar /\ SettledCalls /\ NoLossOnceSettled

LEMMA MetricsInitHolds == InitMetrics => MetricsInv
<1> SUFFICES ASSUME InitMetrics PROVE MetricsInv
  OBVIOUS
<1>1. /\ \A t \in Threads : call[t] = Resting /\ settledAt[t] = FALSE
      /\ installed \in BOOLEAN /\ registry = Unset /\ available = FALSE
      /\ handle = [h \in Handle |-> Unset]
      /\ call = [t \in Threads |-> Resting] /\ settledAt = [t \in Threads |-> FALSE]
  BY DEF InitMetrics
<1>2. /\ Resting.step = "rest" /\ Resting.result = "none"
      /\ Resting \in [step : Steps, of : 0..HandleCount, next : Nat, result : Results]
  BY MetricsAssumption DEF Resting, At, Steps, Results
<1>3. MetricsTypeOK
  BY <1>1, <1>2 DEF MetricsTypeOK
<1>4. BuiltSoFar
  BY <1>1, <1>2, MetricsAssumption DEF BuiltSoFar
<1>5. SettledCalls /\ NoLossOnceSettled
  BY <1>1, <1>2 DEF SettledCalls, NoLossOnceSettled
<1> QED
  BY <1>3, <1>4, <1>5 DEF MetricsInv

(* One thread's step, and what it does to its own call. *)
ThreadStep(t) ==
    \/ \E h \in 0..HandleCount : Call(t, h)
    \/ IsReady(t) \/ WasTried(t) \/ Import(t) \/ SetHandle(t) \/ SetAvailable(t)
    \/ Report(t)

LEMMA MetricsTypeHolds ==
  ASSUME MetricsTypeOK, BuiltSoFar, NEW t \in Threads, ThreadStep(t)
  PROVE  MetricsTypeOK'
<1> USE DEF MetricsTypeOK
<1>1. call[t] \in [step : Steps, of : 0..HandleCount, next : Nat, result : Results]
  OBVIOUS
<1>2. ASSUME NEW h \in 0..HandleCount, Call(t, h) PROVE MetricsTypeOK'
  <2> DEFINE b == Settled
  <2>1. b \in BOOLEAN
    BY DEF Settled
  <2>2. settledAt' = [settledAt EXCEPT ![t] = b]
    BY <1>2 DEF Call
  <2> HIDE DEF b
  <2>3. settledAt' \in [Threads -> BOOLEAN]
    BY <2>1, <2>2
  <2> QED
    BY <1>2, <2>3 DEF Call, At, Steps, Results
<1>3. CASE IsReady(t)
  BY <1>1, <1>3 DEF IsReady, Goes, Shared, Steps
<1>4. CASE WasTried(t)
  BY <1>1, <1>4 DEF WasTried, Goes, Ends, Shared, Steps, Results
<1>5. CASE Import(t)
  <2>1. /\ registry' \in {t, Unavailable} /\ available' \in BOOLEAN
        /\ UNCHANGED <<installed, handle, settledAt>>
    BY <1>5 DEF Import
  <2>2. \/ call' = [call EXCEPT ![t].step = "handles"]
        \/ call' = [call EXCEPT ![t].step = "rest", ![t].result = "dropped"]
    BY <1>5 DEF Import, Goes, Ends
  <2>3. call' \in [Threads -> [step : Steps, of : 0..HandleCount, next : Nat, result : Results]]
    BY <1>1, <2>2 DEF Steps, Results
  <2> QED
    BY <2>1, <2>3
<1>6. CASE SetHandle(t)
  <2>1. /\ handle' = [handle EXCEPT ![call[t].next] = t]
        /\ UNCHANGED <<installed, registry, available, settledAt>>
    BY <1>6 DEF SetHandle, At
  <2>2. PICK x \in Steps : call' = [call EXCEPT ![t] = At(x, call[t].of, call[t].next + 1)]
    BY <1>1, <1>6 DEF SetHandle, Steps
  <2>3. call' \in [Threads -> [step : Steps, of : 0..HandleCount, next : Nat, result : Results]]
    BY <1>1, <2>2 DEF At, Results
  <2> QED
    BY <2>1, <2>3
<1>7. CASE SetAvailable(t)
  BY <1>1, <1>7 DEF SetAvailable, Goes, Steps
<1>8. CASE Report(t)
  BY <1>1, <1>8 DEF Report, Ends, Shared, Steps, Results
<1> QED
  BY <1>2, <1>3, <1>4, <1>5, <1>6, <1>7, <1>8 DEF ThreadStep

LEMMA BuildingGoesOn ==
  ASSUME MetricsTypeOK, BuiltSoFar, NEW t \in Threads, ThreadStep(t)
  PROVE  BuiltSoFar'
<1> USE MetricsAssumption DEF MetricsTypeOK, BuiltSoFar
<1>1. ASSUME NEW h \in 0..HandleCount, Call(t, h) PROVE BuiltSoFar'
  BY <1>1 DEF Call, At
<1>2. CASE IsReady(t)
  BY <1>2 DEF IsReady, Goes, Shared
<1>3. CASE WasTried(t)
  BY <1>3 DEF WasTried, Goes, Ends, Shared
<1>4. CASE Import(t)
  <2>1. \A o \in Threads \ {t} : call'[o] = call[o]
    BY <1>4 DEF Import, Goes, Ends
  <2>2. UNCHANGED <<installed, handle>>
    BY <1>4 DEF Import
  <2>3. CASE installed
    <3>1. /\ registry' = t /\ UNCHANGED available
          /\ call'[t].step = "handles" /\ call'[t].next = call[t].next
      BY <1>4, <2>3 DEF Import, Goes
    <3>2. call[t].next = 1 /\ 1 \in Handle /\ 1..(1 - 1) = {}
      BY <1>4 DEF Import, Handle
    <3>3. installed' /\ registry' \in Threads /\ registry' # Unavailable
      BY <2>2, <2>3, <3>1
    <3>4. available' => \A h \in Handle : handle'[h] # Unset
      BY <2>2, <3>1
    <3>5. ASSUME NEW o \in Threads
          PROVE  /\ call'[o].step \in {"ready?", "tried?", "import"} => call'[o].next = 1
                 /\ call'[o].step = "handles" =>
                      call'[o].next \in Handle
                      /\ \A h \in 1..(call'[o].next - 1) : handle'[h] # Unset
                 /\ call'[o].step = "available" => \A h \in Handle : handle'[h] # Unset
                 /\ call'[o].step = "report" => available'
      <4>1. CASE o = t
        BY <3>1, <3>2, <4>1
      <4>2. CASE o # t
        BY <2>1, <2>2, <3>1, <4>2
      <4> QED
        BY <4>1, <4>2
    <3> QED
      BY <3>3, <3>4, <3>5
  <2>4. CASE ~installed
    <3>1. available' = FALSE /\ call'[t].step = "rest"
      BY <1>4, <2>4 DEF Import, Ends
    <3>2. ~available /\ \A o \in Threads : call[o].step \notin {"handles", "available", "report"}
      BY <2>4
    <3>3. \A o \in Threads :
            /\ call'[o].step \notin {"handles", "available", "report"}
            /\ call'[o].step \in {"ready?", "tried?", "import"} => call'[o].next = 1
      BY <2>1, <3>1, <3>2
    <3>4. installed' = FALSE
      BY <2>2, <2>4
    <3> QED
      BY <3>1, <3>3, <3>4
  <2> QED
    BY <2>3, <2>4
<1>5. CASE SetHandle(t)
  BY <1>5 DEF SetHandle, At, Handle
<1>6. CASE SetAvailable(t)
  BY <1>6 DEF SetAvailable, Goes
<1>7. CASE Report(t)
  BY <1>7 DEF Report, Ends, Shared
<1> QED
  BY <1>1, <1>2, <1>3, <1>4, <1>5, <1>6, <1>7 DEF ThreadStep

(* Metrics that have settled stay so. *)
LEMMA SettledStays ==
  ASSUME MetricsTypeOK, BuiltSoFar, Settled, NEW t \in Threads, ThreadStep(t)
  PROVE  Settled' /\ UNCHANGED <<registry, handle, available>>
<1> USE MetricsAssumption DEF MetricsTypeOK, BuiltSoFar, Settled
<1>1. ASSUME NEW h \in 0..HandleCount, Call(t, h)
      PROVE  Settled' /\ UNCHANGED <<registry, handle, available>>
  BY <1>1 DEF Call, At
<1>2. CASE IsReady(t)
  BY <1>2 DEF IsReady, Goes, Shared
<1>3. CASE WasTried(t)
  BY <1>3 DEF WasTried, Goes, Ends, Shared
<1>4. CASE Report(t)
  BY <1>4 DEF Report, Ends, Shared
<1> QED
  BY <1>1, <1>2, <1>3, <1>4 DEF ThreadStep, Import, SetHandle, SetAvailable

LEMMA CallsStaySettled ==
  ASSUME MetricsInv, NEW t \in Threads, ThreadStep(t)
  PROVE  SettledCalls' /\ NoLossOnceSettled'
<1> USE MetricsAssumption DEF MetricsInv
<1>1. Settled => Settled' /\ UNCHANGED <<registry, handle, available>>
  BY SettledStays
<1>2. \A o \in Threads \ {t} : call'[o] = call[o] /\ settledAt'[o] = settledAt[o]
  BY DEF ThreadStep, MetricsTypeOK, Call, IsReady, WasTried, Import, SetHandle,
     SetAvailable, Report, Goes, Ends, Shared, At
<1>3. /\ settledAt'[t] /\ call'[t].step # "rest" =>
           Settled /\ call'[t].step \in {"ready?", "report"}
      /\ call'[t].result # "raised"
      /\ settledAt'[t] /\ call'[t].step = "rest" =>
           call'[t].result \notin {"dropped", "orphaned"}
  <2> USE DEF MetricsTypeOK, BuiltSoFar, SettledCalls, NoLossOnceSettled
  <2>1. ASSUME NEW h \in 0..HandleCount, Call(t, h) PROVE <1>3!1 /\ <1>3!2 /\ <1>3!3
    BY <2>1 DEF Call, At
  <2>2. CASE IsReady(t)
    BY <2>2 DEF IsReady, Goes, Shared, Settled
  <2>3. CASE WasTried(t)
    BY <2>3 DEF WasTried, Goes, Ends, Shared
  <2>4. CASE Import(t)
    BY <2>4 DEF Import, Goes, Ends
  <2>5. CASE SetHandle(t)
    BY <2>5 DEF SetHandle, At
  <2>6. CASE SetAvailable(t)
    BY <2>6 DEF SetAvailable, Goes
  <2>7. CASE Report(t)
    BY <2>7 DEF Report, Ends, Shared, Settled, Handle
  <2> QED
    BY <2>1, <2>2, <2>3, <2>4, <2>5, <2>6, <2>7 DEF ThreadStep
<1>4. SettledCalls'
  BY <1>1, <1>2, <1>3 DEF SettledCalls
<1>5. NoLossOnceSettled'
  BY <1>2, <1>3 DEF NoLossOnceSettled
<1> QED
  BY <1>4, <1>5

LEMMA MetricsStepHolds == MetricsInv /\ [NextMetrics]_metricsVars => MetricsInv'
<1> SUFFICES ASSUME MetricsInv, [NextMetrics]_metricsVars PROVE MetricsInv'
  OBVIOUS
<1>1. ASSUME NEW t \in Threads, ThreadStep(t) PROVE MetricsInv'
  BY <1>1, MetricsTypeHolds, BuildingGoesOn, CallsStaySettled DEF MetricsInv
<1>2. CASE NextMetrics
  BY <1>1, <1>2 DEF NextMetrics, ThreadStep
<1>3. CASE UNCHANGED metricsVars
  BY <1>3 DEF metricsVars, MetricsInv, MetricsTypeOK, BuiltSoFar, SettledCalls,
     NoLossOnceSettled, Settled
<1> QED
  BY <1>2, <1>3

(* Whatever threads call the helpers, and wherever they are in building the
   registry: no helper finds a handle missing, and no sample is lost by a
   call that began when metrics had settled. *)
THEOREM SamplesAreKept == MetricsSpec => []NoLossOnceSettled
<1>1. MetricsInv => NoLossOnceSettled
  BY DEF MetricsInv
<1> QED
  BY <1>1, MetricsInitHolds, MetricsStepHolds, PTL DEF MetricsSpec

(* Metrics that have settled are never built again. *)
THEOREM SettledForGood == MetricsSpec => StaysSettled
<1>1. ASSUME MetricsInv, [NextMetrics]_metricsVars
      PROVE  [Settled => Settled']_metricsVars
  <2> SUFFICES ASSUME NextMetrics, Settled PROVE Settled'
    BY <1>1
  <2>1. PICK t \in Threads : ThreadStep(t)
    BY DEF NextMetrics, ThreadStep
  <2> QED
    BY <1>1, <2>1, SettledStays DEF MetricsInv
<1> QED
  BY <1>1, MetricsInitHolds, MetricsStepHolds, PTL DEF MetricsSpec, StaysSettled

-----------------------------------------------------------------------------
Casts == [stage : {"idle", "sending", "removing", "raised"}, at : Nat \ {0},
          dead : Seq(Clients), audience : SUBSET Clients,
          sent : [Clients -> Nat], disturbed : BOOLEAN]

NoDup(s) == \A i, j \in 1..Len(s) : s[i] = s[j] => i = j

(* The clients whose handler has begun: the others are in no list. *)
Known == {c \in Clients : handler[c] # "none"}

(* What is true of a broadcast x while the list is what it is. *)
CastOK(x, list, known) ==
    /\ \A c \in Clients : x.sent[c] <= 1 /\ (c \notin known => x.sent[c] = 0)
    /\ x.stage = "sending" => \A i \in x.at..Len(list) : x.sent[list[i]] = 0
    /\ NoDup(x.dead)
    /\ \A i \in 1..Len(x.dead) : x.sent[x.dead[i]] = 1
    /\ ~x.disturbed =>
         /\ x.stage # "raised"
         /\ x.stage \in {"sending", "removing"} =>
              \A i \in 1..Len(x.dead) : x.dead[i] \in InList(list)
         /\ x.stage = "sending" =>
              \A c \in x.audience : x.sent[c] = 1 \/ \E i \in x.at..Len(list) : list[i] = c
         /\ x.stage = "removing" => \A c \in x.audience : x.sent[c] = 1

FeedInv ==
    /\ wsClients \in Seq(Clients) /\ NoDup(wsClients)
    /\ handler \in [Clients -> {"none", "greeting", "sleeping", "ended"}]
    /\ cast \in [Broadcasters -> Casts]
    /\ InList(wsClients) \subseteq Known
    /\ \A b \in Broadcasters : CastOK(cast[b], wsClients, Known)

-----------------------------------------------------------------------------
(* Removing an element moves those behind it one place forward, and those
   before it not at all. *)
LEMMA WithoutShifts ==
  ASSUME NEW s \in Seq(Clients), NEW n \in 1..Len(s)
  PROVE  /\ Without(s, n) \in Seq(Clients)
         /\ Len(Without(s, n)) = Len(s) - 1
         /\ \A k \in 1..(Len(s) - 1) : Without(s, n)[k] = IF k < n THEN s[k] ELSE s[k + 1]
<1>1. /\ SubSeq(s, 1, n - 1) \in Seq(Clients) /\ Len(SubSeq(s, 1, n - 1)) = n - 1
      /\ \A k \in 1..(n - 1) : SubSeq(s, 1, n - 1)[k] = s[k]
  OBVIOUS
<1>2. /\ SubSeq(s, n + 1, Len(s)) \in Seq(Clients) /\ Len(SubSeq(s, n + 1, Len(s))) = Len(s) - n
      /\ \A k \in 1..(Len(s) - n) : SubSeq(s, n + 1, Len(s))[k] = s[n + k]
  OBVIOUS
<1> DEFINE p == SubSeq(s, 1, n - 1)
           q == SubSeq(s, n + 1, Len(s))
<1>3. Without(s, n) = p \o q
  BY DEF Without
<1> HIDE DEF p, q
<1>4. /\ p \in Seq(Clients) /\ q \in Seq(Clients)
      /\ Len(p) = n - 1 /\ Len(q) = Len(s) - n
  BY <1>1, <1>2 DEF p, q
<1>5. /\ p \o q \in Seq(Clients) /\ Len(p \o q) = Len(s) - 1
      /\ \A k \in 1..Len(p \o q) : (p \o q)[k] = IF k <= Len(p) THEN p[k] ELSE q[k - Len(p)]
  BY <1>4
<1>6. ASSUME NEW k \in 1..(Len(s) - 1)
      PROVE  (p \o q)[k] = IF k < n THEN s[k] ELSE s[k + 1]
  <2>1. CASE k < n
    <3>1. (p \o q)[k] = p[k]
      BY <1>4, <1>5, <2>1
    <3>2. p[k] = s[k]
      BY <1>1, <2>1 DEF p
    <3> QED
      BY <2>1, <3>1, <3>2
  <2>2. CASE ~(k < n)
    <3>1. (p \o q)[k] = q[k - (n - 1)] /\ k - (n - 1) \in 1..(Len(s) - n)
      BY <1>4, <1>5, <2>2
    <3>2. q[k - (n - 1)] = s[n + (k - (n - 1))] /\ n + (k - (n - 1)) = k + 1
      BY <1>2, <3>1 DEF q
    <3> QED
      BY <2>2, <3>1, <3>2
  <2> QED
    BY <2>1, <2>2
<1> QED
  BY <1>3, <1>5, <1>6

LEMMA FirstIsThere ==
  ASSUME NEW s \in Seq(Clients), NoDup(s), NEW c \in InList(s)
  PROVE  FirstAt(s, c) \in 1..Len(s) /\ s[FirstAt(s, c)] = c
<1>1. PICK i \in 1..Len(s) : s[i] = c
  BY DEF InList
<1>2. \A j \in 1..(i - 1) : s[j] # c
  BY <1>1 DEF NoDup
<1> QED
  BY <1>1, <1>2 DEF FirstAt

(* A list from which one client has been removed: what a loop over it can
   notice. *)
Shrunk(list, c, new) ==
    /\ new \in Seq(Clients) /\ NoDup(new)
    /\ InList(new) = InList(list) \ {c}
    /\ \A k \in 1..Len(new) : \E m \in 1..Len(list) : k <= m /\ new[k] = list[m]

LEMMA WithoutShrinks ==
  ASSUME NEW s \in Seq(Clients), NoDup(s), NEW n \in 1..Len(s)
  PROVE  Shrunk(s, s[n], Without(s, n))
<1> DEFINE w == Without(s, n)
<1>1. /\ w \in Seq(Clients) /\ Len(w) = Len(s) - 1 /\ Len(s) \in Nat
      /\ \A k \in 1..Len(w) : w[k] = IF k < n THEN s[k] ELSE s[k + 1]
  <2>1. /\ w \in Seq(Clients) /\ Len(w) = Len(s) - 1
        /\ \A k \in 1..(Len(s) - 1) : w[k] = IF k < n THEN s[k] ELSE s[k + 1]
    BY WithoutShifts
  <2> HIDE DEF w
  <2> QED
    BY <2>1
<1> HIDE DEF w
<1>2. ASSUME NEW k \in 1..Len(w)
      PROVE  \E m \in 1..Len(s) : k <= m /\ m # n /\ w[k] = s[m] /\ (k < n => m = k) /\ (k >= n => m = k + 1)
  <2>1. CASE k < n
    BY <1>1, <2>1
  <2>2. CASE ~(k < n)
    <3>1. k + 1 \in 1..Len(s) /\ k <= k + 1 /\ k + 1 # n /\ w[k] = s[k + 1]
      BY <1>1, <2>2
    <3> QED
      BY <2>2, <3>1
  <2> QED
    BY <2>1, <2>2
<1>3. NoDup(w)
  <2> SUFFICES ASSUME NEW k \in 1..Len(w), NEW l \in 1..Len(w), w[k] = w[l] PROVE k = l
    BY DEF NoDup
  <2>1. PICK m \in 1..Len(s) : w[k] = s[m] /\ (k < n => m = k) /\ (k >= n => m = k + 1)
    BY <1>2
  <2>2. PICK o \in 1..Len(s) : w[l] = s[o] /\ (l < n => o = l) /\ (l >= n => o = l + 1)
    BY <1>2
  <2>3. m = o
    BY <2>1, <2>2 DEF NoDup
  <2> QED
    BY <1>1, <2>1, <2>2, <2>3
<1>4. InList(w) \subseteq InList(s) \ {s[n]}
  <2> SUFFICES ASSUME NEW k \in 1..Len(w) PROVE w[k] \in InList(s) /\ w[k] # s[n]
    BY DEF InList
  <2>1. PICK m \in 1..Len(s) : m # n /\ w[k] = s[m]
    BY <1>2
  <2> QED
    BY <2>1 DEF InList, NoDup
<1>5. InList(s) \ {s[n]} \subseteq InList(w)
  <2> SUFFICES ASSUME NEW m \in 1..Len(s), m # n PROVE s[m] \in InList(w)
    BY DEF InList
  <2>1. CASE m < n
    <3>1. m \in 1..Len(w) /\ w[m] = s[m]
      BY <1>1, <2>1
    <3> QED
      BY <3>1 DEF InList
  <2>2. CASE ~(m < n)
    <3>1. m - 1 \in 1..Len(w) /\ ~(m - 1 < n) /\ (m - 1) + 1 = m
      BY <1>1, <2>2
    <3>2. w[m - 1] = s[m]
      BY <1>1, <3>1
    <3> QED
      BY <3>1, <3>2 DEF InList
  <2> QED
    BY <2>1, <2>2
<1> QED
  BY <1>1, <1>2, <1>3, <1>4, <1>5 DEF Shrunk, w

LEMMA AppendGrows ==
  ASSUME NEW s \in Seq(Clients), NoDup(s), NEW c \in Clients, c \notin InList(s)
  PROVE  /\ Append(s, c) \in Seq(Clients) /\ NoDup(Append(s, c))
         /\ InList(Append(s, c)) = InList(s) \cup {c}
         /\ Len(Append(s, c)) = Len(s) + 1
         /\ \A k \in 1..(Len(s) + 1) : Append(s, c)[k] = IF k = Len(s) + 1 THEN c ELSE s[k]
<1> DEFINE a == Append(s, c)
<1>1. /\ a \in Seq(Clients) /\ Len(a) = Len(s) + 1 /\ Len(s) \in Nat
      /\ \A k \in 1..(Len(s) + 1) : a[k] = IF k = Len(s) + 1 THEN c ELSE s[k]
  OBVIOUS
<1> HIDE DEF a
<1>2. \A i \in 1..Len(s) : s[i] # c
  BY DEF InList
<1>3. NoDup(a)
  BY <1>1, <1>2 DEF NoDup
<1>4. InList(a) = InList(s) \cup {c}
  <2>1. \A k \in 1..Len(a) : a[k] \in InList(s) \cup {c}
    BY <1>1 DEF InList
  <2>2. \A k \in 1..Len(s) : s[k] \in InList(a)
    BY <1>1 DEF InList
  <2>3. c \in InList(a)
    <3>1. Len(a) \in 1..Len(a) /\ a[Len(a)] = c
      BY <1>1
    <3> QED
      BY <3>1 DEF InList
  <2> QED
    BY <2>1, <2>2, <2>3 DEF InList
<1> QED
  BY <1>1, <1>3, <1>4 DEF a

-----------------------------------------------------------------------------
(* What a step of a broadcast leaves in its record. *)
LEMMA ReceivedFields ==
  ASSUME NEW x \in Casts, NEW c \in Clients
  PROVE  /\ Received(x, c) \in Casts
         /\ Received(x, c).stage = x.stage /\ Received(x, c).at = x.at + 1
         /\ Received(x, c).dead = x.dead /\ Received(x, c).audience = x.audience
         /\ Received(x, c).sent = [x.sent EXCEPT ![c] = x.sent[c] + 1]
         /\ Received(x, c).disturbed = x.disturbed
<1> DEFINE f == [x.sent EXCEPT ![c] = x.sent[c] + 1]
           n == x.at + 1
<1>1. f \in [Clients -> Nat] /\ n \in Nat \ {0}
  BY DEF Casts
<1>2. Received(x, c) = [x EXCEPT !.at = n, !.sent = f]
  BY DEF Received
<1> HIDE DEF f, n
<1>3. Received(x, c) \in Casts
  BY <1>1, <1>2 DEF Casts
<1>4. Received(x, c).stage = x.stage /\ Received(x, c).at = n /\ Received(x, c).sent = f
  BY <1>1, <1>2 DEF Casts
<1>5. /\ Received(x, c).dead = x.dead /\ Received(x, c).audience = x.audience
      /\ Received(x, c).disturbed = x.disturbed
  BY <1>1, <1>2 DEF Casts
<1> QED
  BY <1>3, <1>4, <1>5 DEF f, n

LEMMA CollectedFields ==
  ASSUME NEW x \in Casts, NEW c \in Clients
  PROVE  /\ Collected(x, c) \in Casts
         /\ Collected(x, c).stage = x.stage /\ Collected(x, c).at = x.at + 1
         /\ Collected(x, c).dead = Append(x.dead, c) /\ Collected(x, c).audience = x.audience
         /\ Collected(x, c).sent = [x.sent EXCEPT ![c] = x.sent[c] + 1]
         /\ Collected(x, c).disturbed = x.disturbed
<1> DEFINE r == Received(x, c)
           d == Append(x.dead, c)
<1>1. r \in Casts
  BY ReceivedFields
<1>2. d \in Seq(Clients)
  BY DEF Casts
<1>3. Collected(x, c) = [r EXCEPT !.dead = d]
  BY DEF Collected
<1>4. /\ [r EXCEPT !.dead = d] \in Casts
      /\ [r EXCEPT !.dead = d].dead = d
      /\ [r EXCEPT !.dead = d].stage = r.stage
      /\ [r EXCEPT !.dead = d].at = r.at /\ [r EXCEPT !.dead = d].audience = r.audience
      /\ [r EXCEPT !.dead = d].sent = r.sent /\ [r EXCEPT !.dead = d].disturbed = r.disturbed
  <2> HIDE DEF r, d
  <2> QED
    BY <1>1, <1>2 DEF Casts
<1> QED
  BY <1>3, <1>4, ReceivedFields

(* A client that connects is behind every loop, and in no broadcast so far. *)
LEMMA CastWhenConnected ==
  ASSUME NEW x \in Casts, NEW list \in Seq(Clients), NoDup(list), NEW known \in SUBSET Clients,
         NEW c \in Clients \ known, InList(list) \subseteq known, CastOK(x, list, known)
  PROVE  CastOK(x, Append(list, c), known \cup {c})
<1>1. /\ Len(Append(list, c)) = Len(list) + 1 /\ Len(list) \in Nat
      /\ \A k \in 1..(Len(list) + 1) : Append(list, c)[k] = IF k = Len(list) + 1 THEN c ELSE list[k]
      /\ InList(Append(list, c)) = InList(list) \cup {c}
  BY AppendGrows
<1>2. x.at \in Nat \ {0} /\ x.sent[c] = 0
  BY DEF Casts, CastOK
<1>3. x.stage = "sending" => \A i \in x.at..Len(Append(list, c)) : x.sent[Append(list, c)[i]] = 0
  <2> SUFFICES ASSUME x.stage = "sending", NEW i \in x.at..Len(Append(list, c))
               PROVE  x.sent[Append(list, c)[i]] = 0
    OBVIOUS
  <2>1. CASE i = Len(list) + 1
    BY <1>1, <1>2, <2>1
  <2>2. CASE i # Len(list) + 1
    <3>1. i \in x.at..Len(list) /\ i \in 1..(Len(list) + 1)
      BY <1>1, <1>2, <2>2
    <3> QED
      BY <1>1, <2>2, <3>1 DEF CastOK
  <2> QED
    BY <2>1, <2>2
<1>4. ASSUME ~x.disturbed, x.stage = "sending", NEW o \in x.audience, x.sent[o] # 1
      PROVE  \E i \in x.at..Len(Append(list, c)) : Append(list, c)[i] = o
  <2>1. PICK i \in x.at..Len(list) : list[i] = o
    BY <1>4 DEF CastOK
  <2>2. i \in x.at..Len(Append(list, c)) /\ i \in 1..(Len(list) + 1) /\ i # Len(list) + 1
    BY <1>1, <1>2
  <2> QED
    BY <1>1, <2>1, <2>2
<1> QED
  BY <1>1, <1>3, <1>4 DEF CastOK

(* A client that another has removed: the loop may skip one, never repeat. *)
LEMMA CastWhenDisturbed ==
  ASSUME NEW x \in Casts, NEW list \in Seq(Clients), NEW known \in SUBSET Clients,
         NEW c, NEW new, Shrunk(list, c, new), CastOK(x, list, known), x.stage # "idle"
  PROVE  /\ [x EXCEPT !.disturbed = TRUE] \in Casts
         /\ CastOK([x EXCEPT !.disturbed = TRUE], new, known)
<1> DEFINE y == [x EXCEPT !.disturbed = TRUE]
<1>1. /\ y \in Casts /\ y.stage = x.stage /\ y.at = x.at /\ y.dead = x.dead /\ y.sent = x.sent
      /\ y.disturbed = TRUE
  BY DEF Casts
<1> HIDE DEF y
<1>2. y.stage = "sending" => \A i \in y.at..Len(new) : y.sent[new[i]] = 0
  <2> SUFFICES ASSUME x.stage = "sending", NEW i \in x.at..Len(new) PROVE x.sent[new[i]] = 0
    BY <1>1
  <2>1. x.at \in Nat \ {0} /\ Len(new) \in Nat /\ Len(list) \in Nat
    BY DEF Casts, Shrunk
  <2>2. i \in 1..Len(new)
    BY <2>1
  <2>3. PICK m \in 1..Len(list) : i <= m /\ new[i] = list[m]
    BY <2>2 DEF Shrunk
  <2>4. m \in x.at..Len(list)
    BY <2>1, <2>3
  <2> QED
    BY <2>3, <2>4 DEF CastOK
<1>3. CastOK(y, new, known)
  BY <1>1, <1>2 DEF CastOK
<1> QED
  BY <1>1, <1>3 DEF y

(* What a broadcast that is idle knows does not hang on the list. *)
LEMMA CastWhenIdle ==
  ASSUME NEW x \in Casts, NEW list, NEW new, NEW known,
         CastOK(x, list, known), x.stage = "idle"
  PROVE  CastOK(x, new, known)
BY DEF CastOK

(* A send, to the client at the index of the loop. *)
LEMMA CastWhenSending ==
  ASSUME NEW x \in Casts, NEW list \in Seq(Clients), NoDup(list), NEW known \in SUBSET Clients,
         InList(list) \subseteq known, CastOK(x, list, known),
         x.stage = "sending", x.at <= Len(list),
         NEW y \in {Received(x, list[x.at]), Collected(x, list[x.at])}
  PROVE  y \in Casts /\ CastOK(y, list, known)
<1> DEFINE c == list[x.at]
<1>1. /\ x.at \in 1..Len(list) /\ Len(list) \in Nat /\ c \in Clients /\ c \in InList(list)
      /\ x.sent \in [Clients -> Nat] /\ x.dead \in Seq(Clients)
  <2>1. x.at \in 1..Len(list) /\ x.sent \in [Clients -> Nat] /\ x.dead \in Seq(Clients)
    BY DEF Casts
  <2> QED
    BY <2>1 DEF InList
<1>2. x.sent[c] = 0
  BY <1>1 DEF CastOK
<1> HIDE DEF c
<1>3. /\ y \in Casts /\ y.stage = "sending" /\ y.at = x.at + 1 /\ y.audience = x.audience
      /\ y.disturbed = x.disturbed
      /\ y.sent[c] = 1 /\ \A o \in Clients \ {c} : y.sent[o] = x.sent[o]
      /\ y.dead \in {x.dead, Append(x.dead, c)}
  <2>1. /\ y \in Casts /\ y.stage = "sending" /\ y.at = x.at + 1 /\ y.audience = x.audience
        /\ y.disturbed = x.disturbed
        /\ y.sent = [x.sent EXCEPT ![c] = x.sent[c] + 1]
        /\ y.dead \in {x.dead, Append(x.dead, c)}
    <3>1. CASE y = Received(x, c)
      BY <1>1, <3>1, ReceivedFields
    <3>2. CASE y = Collected(x, c)
      BY <1>1, <3>2, CollectedFields
    <3> QED
      BY <3>1, <3>2 DEF c
  <2> QED
    BY <1>1, <1>2, <2>1
<1>4. \A o \in Clients : y.sent[o] <= 1 /\ (o \notin known => y.sent[o] = 0)
  BY <1>1, <1>3 DEF CastOK
<1>5. \A i \in y.at..Len(list) : y.sent[list[i]] = 0
  <2> SUFFICES ASSUME NEW i \in (x.at + 1)..Len(list) PROVE y.sent[list[i]] = 0
    BY <1>3
  <2>1. i \in 1..Len(list) /\ i # x.at /\ i \in x.at..Len(list)
    BY <1>1
  <2>2. list[i] # c /\ list[i] \in Clients
    BY <1>1, <2>1 DEF NoDup, c
  <2> QED
    BY <1>3, <2>1, <2>2 DEF CastOK
<1>6. \A i \in 1..Len(x.dead) : x.dead[i] \in Clients /\ x.sent[x.dead[i]] = 1 /\ x.dead[i] # c
  BY <1>1, <1>2 DEF CastOK
<1>7. /\ Append(x.dead, c) \in Seq(Clients) /\ NoDup(Append(x.dead, c))
      /\ Len(Append(x.dead, c)) = Len(x.dead) + 1
      /\ \A k \in 1..(Len(x.dead) + 1) :
           Append(x.dead, c)[k] = IF k = Len(x.dead) + 1 THEN c ELSE x.dead[k]
  <2>1. c \notin InList(x.dead)
    BY <1>6 DEF InList
  <2>2. NoDup(x.dead)
    BY DEF CastOK
  <2> QED
    BY <1>1, <2>1, <2>2, AppendGrows
<1>8. \A i \in 1..Len(y.dead) : y.dead[i] = c \/ \E k \in 1..Len(x.dead) : y.dead[i] = x.dead[k]
  <2>1. CASE y.dead = x.dead
    BY <2>1
  <2>2. CASE y.dead = Append(x.dead, c)
    <3>1. Len(x.dead) \in Nat
      BY <1>1
    <3> QED
      BY <1>7, <2>2, <3>1
  <2> QED
    BY <1>3, <2>1, <2>2
<1>9. NoDup(y.dead)
  BY <1>3, <1>7 DEF CastOK
<1>10. \A i \in 1..Len(y.dead) : y.sent[y.dead[i]] = 1
  BY <1>3, <1>6, <1>8
<1>11. ~x.disturbed => \A i \in 1..Len(y.dead) : y.dead[i] \in InList(list)
  BY <1>1, <1>8 DEF CastOK
<1>12. ASSUME ~x.disturbed, NEW o \in x.audience, y.sent[o] # 1
       PROVE  \E i \in y.at..Len(list) : list[i] = o
  <2>1. o \in Clients /\ o # c /\ x.sent[o] # 1
    BY <1>3, <1>12 DEF Casts
  <2>2. PICK i \in x.at..Len(list) : list[i] = o
    BY <1>12, <2>1 DEF CastOK
  <2>3. i # x.at
    BY <2>1, <2>2 DEF c
  <2>4. i \in (x.at + 1)..Len(list)
    BY <1>1, <2>3
  <2> QED
    BY <1>3, <2>2, <2>4
<1> QED
  BY <1>3, <1>4, <1>5, <1>9, <1>10, <1>11, <1>12 DEF CastOK

(* What a removal does to the broadcasts of all others. *)
LEMMA OthersAreDisturbed ==
  ASSUME FeedInv, NEW b, NEW c, NEW new, Shrunk(wsClients, c, new),
         NEW casts \in [Broadcasters -> Casts],
         \A o \in Broadcasters \ {b} : casts[o] = cast[o]
  PROVE  /\ DOMAIN DisturbedBy(b, casts) = Broadcasters
         /\ DisturbedBy(b, casts) = [o \in Broadcasters |-> DisturbedBy(b, casts)[o]]
         /\ b \in Broadcasters => DisturbedBy(b, casts)[b] = casts[b]
         /\ \A o \in Broadcasters \ {b} : /\ DisturbedBy(b, casts)[o] \in Casts
                                          /\ CastOK(DisturbedBy(b, casts)[o], new, Known)
<1>1. ASSUME NEW o \in Broadcasters \ {b}
      PROVE  DisturbedBy(b, casts)[o] \in Casts /\ CastOK(DisturbedBy(b, casts)[o], new, Known)
  <2>1. /\ cast[o] \in Casts /\ CastOK(cast[o], wsClients, Known)
        /\ wsClients \in Seq(Clients) /\ Known \in SUBSET Clients
    BY DEF FeedInv, Known
  <2>2. CASE cast[o].stage = "idle"
    <3>1. DisturbedBy(b, casts)[o] = cast[o]
      BY <2>2 DEF DisturbedBy
    <3> QED
      BY <2>1, <2>2, <3>1, CastWhenIdle
  <2>3. CASE cast[o].stage # "idle"
    <3>1. DisturbedBy(b, casts)[o] = [cast[o] EXCEPT !.disturbed = TRUE]
      BY <2>3 DEF DisturbedBy
    <3> QED
      BY <2>1, <2>3, <3>1, CastWhenDisturbed
  <2> QED
    BY <2>2, <2>3
<1> QED
  BY <1>1 DEF DisturbedBy

LEMMA IdleIsOK ==
  /\ Idle \in Casts
  /\ \A list, known : CastOK(Idle, list, known)
<1>1. /\ Idle.stage = "idle" /\ Idle.at = 1 /\ Idle.dead = <<>> /\ Idle.audience = {}
      /\ Idle.sent = [c \in Clients |-> 0] /\ Idle.disturbed = FALSE
  BY DEF Idle
<1>2. Idle \in Casts
  BY DEF Idle, Casts
<1> QED
  BY <1>1, <1>2 DEF CastOK, NoDup

LEMMA FeedInitHolds == InitFeed => FeedInv
<1> SUFFICES ASSUME InitFeed PROVE FeedInv
  OBVIOUS
<1>1. wsClients = <<>> /\ handler = [c \in Clients |-> "none"] /\ cast = [b \in Broadcasters |-> Idle]
  BY DEF InitFeed
<1>2. wsClients \in Seq(Clients) /\ NoDup(wsClients) /\ InList(wsClients) \subseteq Known
  BY <1>1 DEF NoDup, InList
<1>3. cast \in [Broadcasters -> Casts] /\ \A b \in Broadcasters : CastOK(cast[b], wsClients, Known)
  BY <1>1, IdleIsOK
<1> QED
  BY <1>1, <1>2, <1>3 DEF FeedInv

-----------------------------------------------------------------------------
(* One broadcaster goes on and nobody else notices. *)
LEMMA OneCastGoesOn ==
  ASSUME FeedInv, NEW b \in Broadcasters, NEW x \in Casts,
         CastOK(x, wsClients, Known),
         cast' = [cast EXCEPT ![b] = x], UNCHANGED clientVars
  PROVE  FeedInv'
<1>1. UNCHANGED <<wsClients, handler>>
  BY DEF clientVars
<1>2. Known' = Known
  BY <1>1 DEF Known
<1>3. \A o \in Broadcasters : cast'[o] \in Casts /\ CastOK(cast'[o], wsClients, Known)
  BY DEF FeedInv
<1> QED
  BY <1>1, <1>2, <1>3 DEF FeedInv

LEMMA FeedStepHolds == FeedInv /\ [NextFeed]_feedVars => FeedInv'
<1> SUFFICES ASSUME FeedInv, [NextFeed]_feedVars PROVE FeedInv'
  OBVIOUS
<1>0. /\ wsClients \in Seq(Clients) /\ NoDup(wsClients)
      /\ handler \in [Clients -> {"none", "greeting", "sleeping", "ended"}]
      /\ cast \in [Broadcasters -> Casts]
      /\ InList(wsClients) \subseteq Known /\ Known \in SUBSET Clients
      /\ \A b \in Broadcasters : cast[b] \in Casts /\ CastOK(cast[b], wsClients, Known)
  BY DEF FeedInv, Known
<1>1. ASSUME NEW b \in Broadcasters, Event(b) PROVE FeedInv'
  <2> DEFINE l == InList(wsClients)
             x == [Idle EXCEPT !.stage = "sending", !.audience = l]
  <2>1. cast' = [cast EXCEPT ![b] = x] /\ UNCHANGED clientVars
    BY <1>1 DEF Event, Begin
  <2>2. l \in SUBSET Clients
    BY <1>0
  <2> HIDE DEF l
  <2>3. /\ x \in Casts /\ x.stage = "sending" /\ x.at = 1 /\ x.dead = <<>> /\ x.audience = l
        /\ \A c \in Clients : x.sent[c] = 0
    <3>1. /\ Idle \in Casts /\ Idle.at = 1 /\ Idle.dead = <<>>
          /\ \A c \in Clients : Idle.sent[c] = 0
      BY IdleIsOK DEF Idle
    <3> QED
      BY <2>2, <3>1 DEF Casts
  <2> HIDE DEF x
  <2>4. \A i \in 1..Len(wsClients) : wsClients[i] \in Clients
    BY <1>0
  <2>5. \A c \in l : \E i \in 1..Len(wsClients) : wsClients[i] = c
    BY DEF l, InList
  <2>6. CastOK(x, wsClients, Known)
    BY <2>3, <2>4, <2>5 DEF CastOK, NoDup
  <2> QED
    BY <2>1, <2>3, <2>6, OneCastGoesOn
<1>2. ASSUME NEW b \in Broadcasters, Send(b) PROVE FeedInv'
  <2> DEFINE c == wsClients[cast[b].at]
  <2>1. /\ cast[b].stage = "sending" /\ cast[b].at <= Len(wsClients) /\ UNCHANGED clientVars
        /\ \/ cast' = [cast EXCEPT ![b] = Received(cast[b], c)]
           \/ cast' = [cast EXCEPT ![b] = Collected(cast[b], c)]
    BY <1>2 DEF Send, clientVars
  <2>2. PICK y \in {Received(cast[b], c), Collected(cast[b], c)} : cast' = [cast EXCEPT ![b] = y]
    BY <2>1
  <2>3. y \in Casts /\ CastOK(y, wsClients, Known)
    BY <1>0, <2>1, CastWhenSending
  <2> QED
    BY <2>1, <2>2, <2>3, OneCastGoesOn
<1>3. ASSUME NEW b \in Broadcasters, EndSending(b) PROVE FeedInv'
  <2> DEFINE x == cast[b]
             y == [x EXCEPT !.stage = "removing", !.at = 1]
  <2>1. /\ x.stage = "sending" /\ x.at > Len(wsClients) /\ UNCHANGED clientVars
        /\ cast' = [cast EXCEPT ![b] = y]
    BY <1>3 DEF EndSending
  <2>2. /\ y \in Casts /\ y.stage = "removing" /\ y.dead = x.dead /\ y.audience = x.audience
        /\ y.sent = x.sent /\ y.disturbed = x.disturbed
    <3>1. x \in Casts
      BY <1>0
    <3> HIDE DEF x
    <3>2. y \in Casts
      <4> DEFINE n == 1
                 g == "removing"
      <4>1. n \in Nat \ {0} /\ g \in {"idle", "sending", "removing", "raised"}
        OBVIOUS
      <4> HIDE DEF n, g
      <4>2. [x EXCEPT !.stage = g, !.at = n] \in Casts
        BY <3>1, <4>1 DEF Casts
      <4> QED
        BY <4>2 DEF n, g
    <3>3. /\ y.stage = "removing" /\ y.dead = x.dead /\ y.audience = x.audience
          /\ y.sent = x.sent /\ y.disturbed = x.disturbed
      BY <3>1 DEF Casts
    <3> QED
      BY <3>2, <3>3
  <2>4. x.at \in Nat \ {0} /\ Len(wsClients) \in Nat
    BY <1>0 DEF Casts
  <2>5. ~x.disturbed => \A c \in x.audience : x.sent[c] = 1
    BY <1>0, <2>1, <2>4 DEF CastOK
  <2> HIDE DEF y
  <2>6. CastOK(y, wsClients, Known)
    BY <1>0, <2>1, <2>2, <2>5 DEF CastOK
  <2> QED
    BY <2>1, <2>2, <2>6, OneCastGoesOn
<1>4. ASSUME NEW b \in Broadcasters, Remove(b) PROVE FeedInv'
  <2> DEFINE x == cast[b]
             c == Head(x.dead)
             d == Tail(x.dead)
  <2>1. x.stage = "removing" /\ x.dead # <<>> /\ UNCHANGED <<socket, handler>>
    BY <1>4 DEF Remove
  <2>2. /\ x.dead \in Seq(Clients) /\ Len(x.dead) \in Nat /\ Len(x.dead) > 0 /\ NoDup(x.dead)
        /\ c = x.dead[1] /\ d \in Seq(Clients) /\ Len(d) = Len(x.dead) - 1
        /\ \A i \in 1..Len(d) : d[i] = x.dead[i + 1] /\ i + 1 \in 1..Len(x.dead)
    <3>1. x.dead \in Seq(Clients) /\ NoDup(x.dead)
      BY <1>0 DEF Casts, CastOK
    <3> QED
      BY <2>1, <3>1
  <2>3. CASE c \in InList(wsClients)
    <3> DEFINE new == Without(wsClients, FirstAt(wsClients, c))
               y == [x EXCEPT !.dead = d]
               casts == [cast EXCEPT ![b].dead = Tail(@)]
    <3>1. wsClients' = new /\ cast' = DisturbedBy(b, casts)
      BY <1>4, <2>3 DEF Remove
    <3>2. FirstAt(wsClients, c) \in 1..Len(wsClients) /\ wsClients[FirstAt(wsClients, c)] = c
      BY <1>0, <2>3, FirstIsThere
    <3>3. Shrunk(wsClients, c, new)
      <4> DEFINE n == FirstAt(wsClients, c)
      <4>1. n \in 1..Len(wsClients) /\ wsClients[n] = c
        BY <3>2
      <4> HIDE DEF n
      <4>2. Shrunk(wsClients, wsClients[n], Without(wsClients, n))
        BY <1>0, <4>1, WithoutShrinks
      <4> QED
        BY <4>1, <4>2 DEF n
    <3>4. casts = [cast EXCEPT ![b] = y]
      BY <1>0
    <3>5. /\ y \in Casts /\ y.stage = "removing" /\ y.dead = d /\ y.audience = x.audience
          /\ y.sent = x.sent /\ y.disturbed = x.disturbed
      <4>1. x \in Casts /\ d \in Seq(Clients)
        BY <1>0, <2>2
      <4> HIDE DEF x, d
      <4> QED
        BY <2>1, <4>1 DEF Casts
    <3> HIDE DEF new, y, casts, c, d
    <3>6. casts \in [Broadcasters -> Casts] /\ \A o \in Broadcasters \ {b} : casts[o] = cast[o]
      BY <1>0, <3>4, <3>5
    <3>7. /\ cast' = [o \in Broadcasters |-> cast'[o]] /\ cast'[b] = casts[b]
          /\ \A o \in Broadcasters \ {b} : cast'[o] \in Casts /\ CastOK(cast'[o], new, Known)
      BY <3>1, <3>3, <3>6, OthersAreDisturbed
    <3>8. cast'[b] = y
      BY <1>0, <3>4, <3>7
    <3>9. CastOK(y, new, Known)
      <4>1. NoDup(y.dead)
        BY <2>2, <3>5 DEF NoDup
      <4>2. \A i \in 1..Len(y.dead) : y.sent[y.dead[i]] = 1 /\ y.dead[i] # c
        <5> SUFFICES ASSUME NEW i \in 1..Len(d) PROVE x.sent[d[i]] = 1 /\ d[i] # c
          BY <3>5
        <5>1. /\ d[i] = x.dead[i + 1] /\ i + 1 \in 1..Len(x.dead) /\ i + 1 # 1
              /\ 1 \in 1..Len(x.dead)
          BY <2>2
        <5>2. x.dead[i + 1] # x.dead[1]
          BY <2>2, <5>1 DEF NoDup
        <5> QED
          BY <1>0, <2>2, <5>1, <5>2 DEF CastOK
      <4>3. ~x.disturbed => \A i \in 1..Len(y.dead) : y.dead[i] \in InList(new)
        <5>1. ~x.disturbed => \A i \in 1..Len(x.dead) : x.dead[i] \in InList(wsClients)
          BY <1>0, <2>1 DEF CastOK
        <5>2. InList(new) = InList(wsClients) \ {c}
          BY <3>3 DEF Shrunk
        <5> QED
          BY <2>2, <3>5, <4>2, <5>1, <5>2
      <4> QED
        BY <1>0, <2>1, <3>5, <4>1, <4>2, <4>3 DEF CastOK
    <3>10. Known' = Known
      BY <2>1 DEF Known
    <3>11. cast' \in [Broadcasters -> Casts]
      BY <3>5, <3>7, <3>8
    <3>12. \A o \in Broadcasters : CastOK(cast'[o], new, Known)
      BY <3>7, <3>8, <3>9
    <3>13. new \in Seq(Clients) /\ NoDup(new) /\ InList(new) \subseteq Known
      BY <1>0, <3>3 DEF Shrunk
    <3> QED
      BY <1>0, <2>1, <3>1, <3>10, <3>11, <3>12, <3>13 DEF FeedInv
  <2>4. CASE c \notin InList(wsClients)
    <3> DEFINE y == [x EXCEPT !.stage = "raised"]
    <3>1. cast' = [cast EXCEPT ![b] = y] /\ UNCHANGED clientVars
      BY <1>4, <2>4 DEF Remove, clientVars
    <3>2. /\ y \in Casts /\ y.stage = "raised" /\ y.dead = x.dead
          /\ y.sent = x.sent /\ y.disturbed = x.disturbed
      BY <1>0 DEF Casts
    <3> HIDE DEF y
    <3>3. x.disturbed
      <4>1. 1 \in 1..Len(x.dead)
        BY <2>2
      <4> QED
        BY <1>0, <2>1, <2>2, <2>4, <4>1 DEF CastOK
    <3>4. CastOK(y, wsClients, Known)
      BY <1>0, <3>2, <3>3 DEF CastOK
    <3> QED
      BY <3>1, <3>2, <3>4, OneCastGoesOn
  <2> QED
    BY <2>3, <2>4
<1>5. ASSUME NEW b \in Broadcasters, Return(b) PROVE FeedInv'
  BY <1>5, IdleIsOK, OneCastGoesOn DEF Return
<1>6. ASSUME NEW c \in Clients, Connect(c) PROVE FeedInv'
  <2>1. /\ handler[c] = "none" /\ handler' = [handler EXCEPT ![c] = "greeting"]
        /\ wsClients' = Append(wsClients, c) /\ cast' = cast
    BY <1>6 DEF Connect
  <2>2. Known' = Known \cup {c} /\ c \notin Known
    BY <1>0, <2>1 DEF Known
  <2>3. /\ wsClients' \in Seq(Clients) /\ NoDup(wsClients')
        /\ InList(wsClients') = InList(wsClients) \cup {c}
    BY <1>0, <2>1, <2>2, AppendGrows
  <2>4. \A b \in Broadcasters : CastOK(cast[b], Append(wsClients, c), Known \cup {c})
    BY <1>0, <2>2, CastWhenConnected
  <2> QED
    BY <1>0, <2>1, <2>2, <2>3, <2>4 DEF FeedInv
<1>7. ASSUME NEW c \in Clients, Greet(c) PROVE FeedInv'
  <2>1. /\ handler[c] = "greeting"
        /\ handler' \in {[handler EXCEPT ![c] = "sleeping"], [handler EXCEPT ![c] = "ended"]}
    BY <1>7 DEF Greet
  <2>2. /\ Known' = Known
        /\ handler' \in [Clients -> {"none", "greeting", "sleeping", "ended"}]
    BY <1>0, <2>1 DEF Known
  <2>3. CASE UNCHANGED <<wsClients, cast>>
    BY <1>0, <2>2, <2>3 DEF FeedInv
  <2>4. CASE /\ c \in InList(wsClients)
             /\ wsClients' = Without(wsClients, FirstAt(wsClients, c))
             /\ cast' = DisturbedBy(NoOne, cast)
    <3> DEFINE n == FirstAt(wsClients, c)
    <3>1. n \in 1..Len(wsClients) /\ wsClients[n] = c
      BY <1>0, <2>4, FirstIsThere
    <3>2. wsClients' = Without(wsClients, n)
      BY <2>4
    <3> HIDE DEF n
    <3>3. Shrunk(wsClients, c, wsClients')
      BY <1>0, <3>1, <3>2, WithoutShrinks
    <3>4. NoOne \notin Broadcasters
      BY FeedAssumption
    <3>5. /\ cast' = [o \in Broadcasters |-> cast'[o]]
          /\ \A o \in Broadcasters : cast'[o] \in Casts /\ CastOK(cast'[o], wsClients', Known)
      BY <1>0, <2>4, <3>3, <3>4, OthersAreDisturbed
    <3>6. wsClients' \in Seq(Clients) /\ NoDup(wsClients') /\ InList(wsClients') \subseteq Known
      BY <1>0, <3>3 DEF Shrunk
    <3> QED
      BY <2>2, <3>5, <3>6 DEF FeedInv
  <2> QED
    BY <1>7, <2>3, <2>4 DEF Greet
<1>8. ASSUME NEW c \in Clients, Leave(c) PROVE FeedInv'
  BY <1>8 DEF Leave, FeedInv, Known
<1>9. CASE UNCHANGED feedVars
  BY <1>9 DEF feedVars, clientVars, FeedInv, Known
<1>10. CASE NextFeed
  BY <1>1, <1>2, <1>3, <1>4, <1>5, <1>6, <1>7, <1>8, <1>10 DEF NextFeed, CastStep
<1> QED
  BY <1>9, <1>10

(* However many broadcasts run over the list at once, and however clients come
   and go under them: none sends to a client twice, and one under which nobody
   else removes a client reaches all it began with and does not raise. *)
THEOREM EachClientIsReached == FeedSpec => []EachClientOnce
<1>1. FeedInv => EachClientOnce
  BY DEF FeedInv, EachClientOnce, CastOK, Casts
<1> QED
  BY <1>1, FeedInitHolds, FeedStepHolds, PTL DEF FeedSpec
-----------------------------------------------------------------------------
(* Slices. *)

(* Induction without an operator for a parameter, for sets of numbers. *)
LEMMA SetInduction ==
  ASSUME NEW S \in SUBSET Nat, 0 \in S, \A n \in S : n + 1 \in S
  PROVE  S = Nat
<1> DEFINE R == OpToRel(<, Nat)
<1>1. SUFFICES ASSUME Nat \ S # {} PROVE FALSE
  OBVIOUS
<1>2. R = {p \in Nat \X Nat : p[1] < p[2]}
  BY DEF OpToRel
<1>3. IsWellFoundedOn(R, Nat)
  BY NatLessThanWellFounded
<1> HIDE DEF R
<1>4. PICK m \in Nat \ S : \A k \in Nat \ S : ~ (<<k, m>> \in R)
  BY <1>1, <1>3, WFMin
<1>5. m - 1 \in Nat /\ m - 1 < m
  BY <1>4
<1>6. m - 1 \in S
  BY <1>2, <1>4, <1>5
<1>7. m - 1 + 1 \in S
  BY <1>6
<1> QED
  BY <1>4, <1>7

Sources(edges) == {e[1] : e \in edges}

(* The rounds of the search of prune_for_fault. *)
Rounds(found, k, nf, edges) ==
    found = [n \in 0..k |-> IF n = 0 THEN {} ELSE found[n - 1] \cup CausesOf({nf} \cup found[n - 1], edges)]

(* There are as many rounds as one asks for. *)
LEMMA RoundsGoOn ==
  ASSUME NEW nf, NEW edges, NEW k \in Nat
  PROVE  \E found : Rounds(found, k, nf, edges)
<1> DEFINE S == {n \in Nat : \E found : Rounds(found, n, nf, edges)}
<1>1. 0 \in S
  <2> DEFINE f == [n \in 0..0 |-> {}]
  <2>1. Rounds(f, 0, nf, edges)
    BY DEF Rounds
  <2> QED
    BY <2>1
<1>2. ASSUME NEW n \in S PROVE n + 1 \in S
  <2>1. PICK f : Rounds(f, n, nf, edges)
    BY <1>2
  <2> DEFINE g == [i \in 0..n + 1 |-> IF i = n + 1 THEN f[n] \cup CausesOf({nf} \cup f[n], edges) ELSE f[i]]
  <2>2. \A i \in 0..n : f[i] = IF i = 0 THEN {} ELSE f[i - 1] \cup CausesOf({nf} \cup f[i - 1], edges)
    BY <2>1 DEF Rounds
  <2>3. \A i \in 0..n + 1 :
          g[i] = IF i = 0 THEN {} ELSE g[i - 1] \cup CausesOf({nf} \cup g[i - 1], edges)
    <3> SUFFICES ASSUME NEW i \in 0..n + 1
                 PROVE  g[i] = IF i = 0 THEN {} ELSE g[i - 1] \cup CausesOf({nf} \cup g[i - 1], edges)
      OBVIOUS
    <3>1. CASE i = n + 1
      <4>1. i # 0 /\ i - 1 = n /\ n \in 0..n + 1 /\ n # n + 1
        BY <3>1
      <4>2. g[i] = f[n] \cup CausesOf({nf} \cup f[n], edges) /\ g[n] = f[n]
        BY <3>1, <4>1
      <4> HIDE DEF g
      <4> QED
        BY <4>1, <4>2
    <3>2. CASE i \in 1..n
      <4>1. i - 1 \in 0..n + 1 /\ i - 1 # n + 1 /\ i # n + 1 /\ i # 0 /\ i \in 0..n
        BY <3>2
      <4>2. g[i] = f[i] /\ g[i - 1] = f[i - 1]
        BY <4>1
      <4> HIDE DEF g
      <4> QED
        BY <2>2, <4>1, <4>2
    <3>3. CASE i = 0
      <4>1. 0 # n + 1 /\ 0 \in 0..n
        BY <1>2
      <4>2. g[i] = f[0] /\ f[0] = {}
        BY <2>2, <3>3, <4>1
      <4> QED
        BY <3>3, <4>2
    <3> QED
      BY <1>2, <3>1, <3>2, <3>3
  <2>4. g = [i \in 0..n + 1 |-> g[i]]
    OBVIOUS
  <2> HIDE DEF g
  <2>5. Rounds(g, n + 1, nf, edges)
    BY <2>3, <2>4 DEF Rounds
  <2> QED
    BY <1>2, <2>5
<1>3. S = Nat
  BY <1>1, <1>2, SetInduction
<1> QED
  BY <1>3

LEMMA CausesAreSources ==
  ASSUME NEW S, NEW edges
  PROVE  CausesOf(S, edges) \subseteq Sources(edges)
BY DEF CausesOf, Sources

LEMMA CausesGrow ==
  ASSUME NEW S, NEW T, S \subseteq T, NEW edges
  PROVE  CausesOf(S, edges) \subseteq CausesOf(T, edges)
BY DEF CausesOf

(* There are no more sources than edges. *)
LEMMA SourcesFinite ==
  ASSUME NEW edges, IsFiniteSet(edges)
  PROVE  /\ IsFiniteSet(Sources(edges))
         /\ Cardinality(Sources(edges)) <= Cardinality(edges)
         /\ Cardinality(edges) \in Nat /\ Cardinality(Sources(edges)) \in Nat
<1> DEFINE f == [e \in edges |-> e[1]]
<1>1. f \in [edges -> Sources(edges)]
  BY DEF Sources
<1>2. \A x \in Sources(edges) : \E e \in edges : f[e] = x
  BY DEF Sources
<1>3. f \in Surjection(edges, Sources(edges))
  BY <1>1, <1>2 DEF Surjection
<1>4. IsFiniteSet(Sources(edges)) /\ Cardinality(Sources(edges)) <= Cardinality(edges)
  BY <1>3, FS_Surjection
<1> QED
  BY <1>4, FS_CardinalityType

(* In as many rounds as there are edges the search of prune_for_fault finds
   all that leads to the NF, and nothing else: for any edges, with and without
   cycles. *)
THEOREM SearchIsComplete ==
  ASSUME NEW nf, NEW edges, IsFiniteSet(edges)
  PROVE  Ancestors(nf, edges) = LeastCauses(nf, edges)
<1> DEFINE K == Cardinality(edges)
           E == Sources(edges)
           Chosen == CHOOSE found : Rounds(found, K, nf, edges)
<1>1. K \in Nat /\ IsFiniteSet(E) /\ Cardinality(E) <= K /\ Cardinality(E) \in Nat
  BY SourcesFinite
<1>2. Ancestors(nf, edges) = Chosen[K]
  BY DEF Ancestors, Rounds
<1>3. Rounds(Chosen, K, nf, edges)
  BY <1>1, RoundsGoOn
<1> HIDE DEF K, E, Chosen
<1>4. \A n \in 0..K : Chosen[n] = IF n = 0 THEN {} ELSE Chosen[n - 1] \cup CausesOf({nf} \cup Chosen[n - 1], edges)
  BY <1>3 DEF Rounds
<1>5. Chosen[0] = {}
  <2>1. 0 \in 0..K
    BY <1>1
  <2> QED
    BY <1>4, <2>1
<1>6. ASSUME NEW n \in Nat, n + 1 <= K
      PROVE  Chosen[n + 1] = Chosen[n] \cup CausesOf({nf} \cup Chosen[n], edges)
  <2>1. n + 1 \in 0..K /\ n + 1 # 0 /\ (n + 1) - 1 = n
    BY <1>1, <1>6
  <2> DEFINE m == n + 1
  <2> HIDE DEF m
  <2>2. m \in 0..K /\ m # 0 /\ m - 1 = n
    BY <2>1 DEF m
  <2>3. Chosen[m] = Chosen[m - 1] \cup CausesOf({nf} \cup Chosen[m - 1], edges)
    BY <1>4, <2>2
  <2> QED
    BY <2>2, <2>3 DEF m
<1>7. ASSUME NEW C, CausesOf({nf} \cup C, edges) \subseteq C
      PROVE  Chosen[K] \subseteq C
  <2> DEFINE S == {n \in Nat : n <= K => Chosen[n] \subseteq C}
  <2>1. 0 \in S
    BY <1>5
  <2>2. ASSUME NEW n \in S PROVE n + 1 \in S
    <3> SUFFICES ASSUME n + 1 <= K PROVE Chosen[n + 1] \subseteq C
      OBVIOUS
    <3>1. n \in Nat /\ n <= K
      BY <1>1
    <3>2. Chosen[n] \subseteq C
      BY <3>1
    <3>3. CausesOf({nf} \cup Chosen[n], edges) \subseteq C
      <4>1. {nf} \cup Chosen[n] \subseteq {nf} \cup C
        BY <3>2
      <4>2. CausesOf({nf} \cup Chosen[n], edges) \subseteq CausesOf({nf} \cup C, edges)
        BY <4>1, CausesGrow
      <4> QED
        BY <1>7, <4>2
    <3> QED
      BY <1>6, <3>1, <3>2, <3>3
  <2>3. S = Nat
    BY <2>1, <2>2, SetInduction
  <2> QED
    BY <1>1, <2>3
<1>8. Chosen[K] \subseteq E
  <2>1. CausesOf({nf} \cup E, edges) \subseteq E
    BY CausesAreSources DEF E
  <2> QED
    BY <1>7, <2>1
<1> DEFINE Closed == {n \in Nat : CausesOf({nf} \cup Chosen[n], edges) \subseteq Chosen[n]}
<1>14. \A n \in Nat : n \in Closed <=> CausesOf({nf} \cup Chosen[n], edges) \subseteq Chosen[n]
  OBVIOUS
<1> HIDE DEF Closed
<1> DEFINE Big == {n \in Nat : Chosen[n] \subseteq E /\ (n \in Closed \/ Cardinality(Chosen[n]) >= n)}
<1>13. \A n \in Nat : n \in Big <=> Chosen[n] \subseteq E /\ (n \in Closed \/ Cardinality(Chosen[n]) >= n)
  OBVIOUS
<1> HIDE DEF Big
<1>9. K \in Big
  <2> DEFINE S == {n \in Nat : n <= K => n \in Big}
  <2>1. 0 \in S
    <3>1. Cardinality(Chosen[0]) = 0 /\ Chosen[0] \subseteq E
      BY <1>5, FS_EmptySet
    <3> QED
      BY <1>13, <3>1
  <2>2. ASSUME NEW n \in S PROVE n + 1 \in S
    <3> SUFFICES ASSUME n + 1 <= K PROVE n + 1 \in Big
      OBVIOUS
    <3>1. n \in Nat /\ n <= K
      BY <1>1
    <3>2. n \in Big
      BY <3>1
    <3>3. Chosen[n + 1] = Chosen[n] \cup CausesOf({nf} \cup Chosen[n], edges)
      BY <1>6, <3>1
    <3>4. Chosen[n + 1] \subseteq E /\ Chosen[n] \subseteq E
      BY <1>13, <3>1, <3>2, <3>3, CausesAreSources DEF E
    <3>5. CASE n \in Closed
      <4>1. Chosen[n + 1] = Chosen[n]
        BY <1>14, <3>1, <3>3, <3>5
      <4>2. n + 1 \in Closed
        <5>1. CausesOf({nf} \cup Chosen[n + 1], edges) \subseteq Chosen[n + 1]
          BY <1>14, <3>1, <3>5, <4>1
        <5>2. n + 1 \in Nat
          BY <3>1
        <5> QED
          BY <1>14, <5>1, <5>2
      <4> QED
        BY <1>13, <3>1, <3>4, <4>2
    <3>6. CASE n \notin Closed
      <4>1. Chosen[n] \subseteq Chosen[n + 1] /\ Chosen[n] # Chosen[n + 1]
        BY <1>14, <3>1, <3>3, <3>6
      <4>2. IsFiniteSet(Chosen[n + 1])
        BY <1>1, <3>4, FS_Subset
      <4>3. IsFiniteSet(Chosen[n])
        BY <1>1, <3>4, FS_Subset
      <4>4. /\ Cardinality(Chosen[n]) <= Cardinality(Chosen[n + 1])
            /\ Cardinality(Chosen[n]) # Cardinality(Chosen[n + 1])
        <5>1. /\ Cardinality(Chosen[n]) <= Cardinality(Chosen[n + 1])
              /\ Cardinality(Chosen[n]) = Cardinality(Chosen[n + 1]) => Chosen[n] = Chosen[n + 1]
          BY <4>1, <4>2, FS_Subset
        <5> QED
          BY <4>1, <5>1
      <4>5. Cardinality(Chosen[n]) \in Nat /\ Cardinality(Chosen[n + 1]) \in Nat
        BY <4>2, <4>3, FS_CardinalityType
      <4>6. Cardinality(Chosen[n]) >= n
        BY <1>13, <3>1, <3>2, <3>6
      <4>7. Cardinality(Chosen[n + 1]) >= n + 1
        BY <3>1, <4>4, <4>5, <4>6
      <4> QED
        BY <1>13, <3>1, <3>4, <4>7
    <3> QED
      BY <3>5, <3>6
  <2>3. S = Nat
    BY <2>1, <2>2, SetInduction
  <2> QED
    BY <1>1, <2>3
<1>10. K \in Closed
  <2>1. CASE Cardinality(Chosen[K]) >= K
    <3>1. /\ Cardinality(Chosen[K]) <= Cardinality(E)
          /\ Cardinality(Chosen[K]) = Cardinality(E) => Chosen[K] = E
      BY <1>1, <1>8, FS_Subset
    <3>2. Cardinality(Chosen[K]) \in Nat
      BY <1>1, <1>8, FS_Subset, FS_CardinalityType
    <3>3. Chosen[K] = E
      BY <1>1, <2>1, <3>1, <3>2
    <3>4. CausesOf({nf} \cup Chosen[K], edges) \subseteq E
      BY CausesAreSources DEF E
    <3>5. CausesOf({nf} \cup Chosen[K], edges) \subseteq Chosen[K]
      BY <3>3, <3>4
    <3> QED
      BY <1>1, <1>14, <3>5
  <2> QED
    BY <1>13, <1>1, <1>9, <2>1
<1>11. Chosen[K] \subseteq LeastCauses(nf, edges)
  <2> SUFFICES ASSUME NEW x \in Chosen[K] PROVE x \in LeastCauses(nf, edges)
    OBVIOUS
  <2>1. x \in E
    BY <1>8
  <2>2. \A C \in SUBSET E : CausesOf({nf} \cup C, edges) \subseteq C => x \in C
    BY <1>7
  <2> QED
    BY <2>1, <2>2 DEF LeastCauses, E, Sources
<1>12. LeastCauses(nf, edges) \subseteq Chosen[K]
  BY <1>14, <1>1, <1>8, <1>10 DEF LeastCauses, E, Sources
<1> QED
  BY <1>2, <1>11, <1>12

LEMMA NFsFinite == IsFiniteSet(SharedNFs \cup SliceSpecificNFs)
<1>1. /\ IsFiniteSet({"nrf"}) /\ IsFiniteSet({"ausf"}) /\ IsFiniteSet({"udr"}) /\ IsFiniteSet({"amf"})
      /\ IsFiniteSet({"smf"}) /\ IsFiniteSet({"pcf"}) /\ IsFiniteSet({"udm"}) /\ IsFiniteSet({"upf"})
  BY FS_Singleton
<1>2. IsFiniteSet({"nrf"} \cup {"ausf"}) /\ IsFiniteSet({"udr"} \cup {"amf"})
  BY <1>1, FS_Union
<1>3. IsFiniteSet({"smf"} \cup {"pcf"}) /\ IsFiniteSet({"udm"} \cup {"upf"})
  BY <1>1, FS_Union
<1>4. IsFiniteSet(({"nrf"} \cup {"ausf"}) \cup ({"udr"} \cup {"amf"}))
  BY <1>2, FS_Union
<1>5. IsFiniteSet(({"smf"} \cup {"pcf"}) \cup ({"udm"} \cup {"upf"}))
  BY <1>3, FS_Union
<1>6. IsFiniteSet((({"nrf"} \cup {"ausf"}) \cup ({"udr"} \cup {"amf"}))
                  \cup (({"smf"} \cup {"pcf"}) \cup ({"udm"} \cup {"upf"})))
  BY <1>4, <1>5, FS_Union
<1>7. SharedNFs \cup SliceSpecificNFs =
        (({"nrf"} \cup {"ausf"}) \cup ({"udr"} \cup {"amf"}))
        \cup (({"smf"} \cup {"pcf"}) \cup ({"udm"} \cup {"upf"}))
  BY DEF SharedNFs, SliceSpecificNFs
<1> QED
  BY <1>6, <1>7

LEMMA TopologyFinite ==
  ASSUME NEW nfs
  PROVE  IsFiniteSet(Among(nfs))
<1> DEFINE NFs == SharedNFs \cup SliceSpecificNFs
<1>1. IsFiniteSet(NFs \X NFs)
  BY NFsFinite, FS_Product
<1>2. Among(nfs) \subseteq NFs \X NFs
  BY DEF Among, IntraSliceEdges, CrossSliceEdges, SharedNFs, SliceSpecificNFs
<1> QED
  BY <1>1, <1>2, FS_Subset

(* The result of a slice with a configuration, for an NF and what a caller
   passed. *)
EdgesFor(config, live) == IF live = NoEdges THEN DOMAIN SliceGraph(config).weight ELSE live
ResultFor(config, nf, live) ==
    [present |-> nf \in ActiveNFs(config),
     nodes |-> Prune(SliceGraph(config), nf, EdgesFor(config, live)).nodes,
     weight |-> Prune(SliceGraph(config), nf, EdgesFor(config, live)).weight]

IsAttribution(a) ==
    a = [stage |-> a.stage, nf |-> a.nf, live |-> a.live, listed |-> a.listed,
         results |-> a.results, changed |-> a.changed, verdict |-> a.verdict]

(* A slice that nobody has changed is still what it was when it was listed,
   and what was found for it was found in its own graph. *)
SliceInv ==
    /\ IsAttribution(attribution)
    /\ attribution.live \in LiveEdges \cup {NoEdges}
    /\ attribution.stage = "pruning" =>
         \A s \in DOMAIN attribution.listed \ attribution.changed :
           s \in DOMAIN slices /\ slices[s] = attribution.listed[s]
    /\ \A s \in DOMAIN attribution.results \ attribution.changed :
         attribution.results[s] = ResultFor(attribution.listed[s], attribution.nf, attribution.live)

LEMMA SliceInitHolds == InitSlices => SliceInv
<1> SUFFICES ASSUME InitSlices PROVE SliceInv
  OBVIOUS
<1>1. /\ attribution.stage = "none" /\ attribution.live = NoEdges /\ DOMAIN attribution.results = {}
      /\ IsAttribution(attribution)
  <2>1. attribution = [stage |-> "none", nf |-> "", live |-> NoEdges, listed |-> <<>>,
                       results |-> <<>>, changed |-> {}, verdict |-> ""]
    BY DEF InitSlices, NoAttribution
  <2>2. DOMAIN <<>> = {}
    OBVIOUS
  <2>3. attribution.results = <<>>
    BY <2>1
  <2>4. IsAttribution(attribution)
    BY <2>1 DEF IsAttribution
  <2> QED
    BY <2>1, <2>2, <2>3, <2>4
<1> QED
  BY <1>1 DEF SliceInv

(* Registering or removing a slice marks it if an attribution lists it. *)
LEMMA MarkingKeeps ==
  ASSUME SliceInv, NEW s, attribution' = Marked(s),
         \A d \in DOMAIN slices \ {s} : d \in DOMAIN slices' /\ slices'[d] = slices[d]
  PROVE  SliceInv'
<1>1. CASE attribution.stage = "pruning"
  <2>1. attribution' = [attribution EXCEPT !.changed =
                          attribution.changed \cup ({s} \cap DOMAIN attribution.listed)]
    BY <1>1 DEF Marked
  <2>2. /\ attribution'.stage = attribution.stage /\ attribution'.nf = attribution.nf
        /\ attribution'.live = attribution.live /\ attribution'.listed = attribution.listed
        /\ attribution'.results = attribution.results
        /\ attribution'.changed = attribution.changed \cup ({s} \cap DOMAIN attribution.listed)
        /\ IsAttribution(attribution')
    BY <2>1 DEF SliceInv, IsAttribution
  <2> QED
    BY <1>1, <2>2 DEF SliceInv
<1>2. CASE attribution.stage # "pruning"
  BY <1>2 DEF Marked, SliceInv
<1> QED
  BY <1>1, <1>2

LEMMA AttributeKeeps ==
  ASSUME SliceInv, NEW nf \in Faulty, NEW live \in LiveEdges \cup {NoEdges}, Attribute(nf, live)
  PROVE  SliceInv'
<1> DEFINE stage == IF slices = <<>> THEN "done" ELSE "pruning"
           verdict == IF slices = <<>> THEN "no-slices" ELSE ""
<1>1. attribution' = [stage |-> stage, nf |-> nf, live |-> live, listed |-> slices,
                      results |-> <<>>, changed |-> {}, verdict |-> verdict]
  BY DEF Attribute, NoAttribution
<1> HIDE DEF stage, verdict
<1>2. /\ attribution'.live = live /\ attribution'.listed = slices
      /\ DOMAIN attribution'.results = {} /\ IsAttribution(attribution')
  BY <1>1 DEF IsAttribution
<1>3. slices' = slices
  BY DEF Attribute
<1> QED
  BY <1>2, <1>3 DEF SliceInv

LEMMA PruneSliceKeeps ==
  ASSUME SliceInv, NEW s, PruneSlice(s)
  PROVE  SliceInv'
<1> DEFINE base == IF s \in DOMAIN slices THEN SliceGraph(slices[s]) ELSE GlobalGraph
           edges == IF attribution.live = NoEdges THEN DOMAIN base.weight ELSE attribution.live
           result == [present |-> attribution.nf \in ActiveNFs(attribution.listed[s]),
                      nodes |-> Prune(base, attribution.nf, edges).nodes,
                      weight |-> Prune(base, attribution.nf, edges).weight]
           results == [d \in DOMAIN attribution.results \cup {s} |->
                         IF d = s THEN result ELSE attribution.results[d]]
<1>1. /\ attribution.stage = "pruning" /\ s \in DOMAIN attribution.listed
      /\ attribution' = [attribution EXCEPT !.results = results]
      /\ slices' = slices
  BY DEF PruneSlice, WithResult
<1>2. s \notin attribution.changed =>
        result = ResultFor(attribution.listed[s], attribution.nf, attribution.live)
  <2> SUFFICES ASSUME s \notin attribution.changed
               PROVE  result = ResultFor(attribution.listed[s], attribution.nf, attribution.live)
    OBVIOUS
  <2>1. s \in DOMAIN slices /\ slices[s] = attribution.listed[s]
    BY <1>1 DEF SliceInv
  <2>2. base = SliceGraph(attribution.listed[s])
    BY <2>1
  <2> HIDE DEF base
  <2> QED
    BY <2>2 DEF ResultFor, EdgesFor
<1> HIDE DEF result
<1>3. /\ DOMAIN results = DOMAIN attribution.results \cup {s} /\ results[s] = result
      /\ \A d \in DOMAIN attribution.results : d # s => results[d] = attribution.results[d]
  OBVIOUS
<1> HIDE DEF results
<1>4. /\ attribution'.stage = attribution.stage /\ attribution'.nf = attribution.nf
      /\ attribution'.live = attribution.live /\ attribution'.listed = attribution.listed
      /\ attribution'.changed = attribution.changed
      /\ attribution'.results = results
      /\ IsAttribution(attribution')
  BY <1>1 DEF SliceInv, IsAttribution
<1> QED
  BY <1>1, <1>2, <1>3, <1>4 DEF SliceInv

LEMMA ConcludeKeeps ==
  ASSUME SliceInv, Conclude
  PROVE  SliceInv'
<1> DEFINE verdict == IF attribution.nf \in SharedNFs THEN "infrastructure-wide"
                      ELSE IF Affected # DOMAIN attribution.listed
                      THEN "slice-isolated" ELSE "all-slice-nf"
<1>1. attribution' = [attribution EXCEPT !.stage = "done", !.verdict = verdict]
  BY DEF Conclude
<1> HIDE DEF verdict
<1>2. attribution' = [stage |-> "done", nf |-> attribution.nf, live |-> attribution.live,
                      listed |-> attribution.listed, results |-> attribution.results,
                      changed |-> attribution.changed, verdict |-> verdict]
  BY <1>1 DEF SliceInv, IsAttribution
<1>3. slices' = slices
  BY DEF Conclude
<1> QED
  BY <1>2, <1>3 DEF SliceInv, IsAttribution

LEMMA SliceStepHolds == SliceInv /\ [NextSlices]_sliceVars => SliceInv'
<1> SUFFICES ASSUME SliceInv, [NextSlices]_sliceVars PROVE SliceInv'
  OBVIOUS
<1>1. ASSUME NEW s \in SliceIds, NEW nfs \in NFSets \cup {{}}, Register(s, nfs)
      PROVE  SliceInv'
  BY <1>1, MarkingKeeps DEF Register
<1>2. ASSUME NEW s \in SliceIds, RemoveSlice(s)
      PROVE  SliceInv'
  BY <1>2, MarkingKeeps DEF RemoveSlice
<1>3. CASE UNCHANGED sliceVars
  BY <1>3 DEF sliceVars, SliceInv
<1> QED
  BY <1>1, <1>2, <1>3, AttributeKeeps, PruneSliceKeeps, ConcludeKeeps DEF NextSlices

LEMMA ResultsAreRight ==
  ASSUME SliceInv
  PROVE  ResultsAreOfTheSlice
<1> SUFFICES ASSUME NEW s \in DOMAIN attribution.results \ attribution.changed
             PROVE  LET r == attribution.results[s]
                        config == attribution.listed[s]
                        nf == attribution.nf
                        edges == IF attribution.live = NoEdges THEN DOMAIN SliceGraph(config).weight
                                 ELSE attribution.live
                    IN  /\ r.nodes = {nf} \cup LeastCauses(nf, edges)
                        /\ attribution.live = NoEdges =>
                             /\ \A x \in r.nodes \ {nf} : LeakageClass(x, config) # "out_of_slice"
                             /\ ~r.present => DOMAIN r.weight = {}
  BY DEF ResultsAreOfTheSlice
<1> DEFINE r == attribution.results[s]
           config == attribution.listed[s]
           nf == attribution.nf
           live == attribution.live
           edges == EdgesFor(config, live)
<1>1. r = ResultFor(config, nf, live) /\ live \in LiveEdges \cup {NoEdges}
  BY DEF SliceInv
<1> HIDE DEF r, config, nf, live
<1>2. DOMAIN SliceGraph(config).weight = Among(ActiveNFs(config))
  BY DEF SliceGraph
<1>3. IsFiniteSet(edges)
  BY <1>1, <1>2, TopologyFinite, SliceAssumption DEF EdgesFor
<1> HIDE DEF edges
<1>4. /\ r.nodes = {nf} \cup Ancestors(nf, edges)
      /\ r.present = (nf \in ActiveNFs(config))
      /\ DOMAIN r.weight = {e \in edges : e[1] \in r.nodes /\ e[2] \in r.nodes}
  BY <1>1 DEF ResultFor, Prune, edges
<1>5. r.nodes = {nf} \cup LeastCauses(nf, edges)
  BY <1>3, <1>4, SearchIsComplete
<1>6. ASSUME live = NoEdges
      PROVE  /\ \A x \in r.nodes \ {nf} : LeakageClass(x, config) # "out_of_slice"
             /\ ~r.present => DOMAIN r.weight = {}
  <2>1. edges = Among(ActiveNFs(config))
    BY <1>2, <1>6 DEF EdgesFor, edges
  <2>2. \A e \in edges : e[1] \in ActiveNFs(config) /\ e[2] \in ActiveNFs(config)
    BY <2>1 DEF Among
  <2>3. ASSUME NEW x \in r.nodes \ {nf} PROVE LeakageClass(x, config) # "out_of_slice"
    <3>1. x \in ActiveNFs(config)
      BY <1>5, <2>2 DEF LeastCauses
    <3> QED
      BY <3>1 DEF ActiveNFs, LeakageClass
  <2>4. ASSUME ~r.present PROVE DOMAIN r.weight = {}
    <3>1. nf \notin ActiveNFs(config)
      BY <1>4, <2>4
    <3>2. CausesOf({nf} \cup {}, edges) \subseteq {}
      BY <2>2, <3>1 DEF CausesOf
    <3>3. r.nodes = {nf}
      BY <1>5, <3>2 DEF LeastCauses
    <3> QED
      BY <1>4, <2>2, <3>1, <3>3
  <2> QED
    BY <2>3, <2>4
<1> QED
  BY <1>5, <1>6 DEF r, config, nf, live, edges, EdgesFor

(* However the registry changes while the pipeline thread attributes a fault,
   the result for a slice that was left alone holds all the causes the NF has
   in it and no NF of another slice. *)
THEOREM ResultsAlwaysOfTheSlice == SliceSpec => []ResultsAreOfTheSlice
<1> QED
  BY SliceInitHolds, SliceStepHolds, ResultsAreRight, PTL DEF SliceSpec
=============================================================================

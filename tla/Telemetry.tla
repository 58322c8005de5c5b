------------------------------ MODULE Telemetry ------------------------------
(***************************************************************************)
(* The telemetry buffer and the pair tests of the Granger engine,          *)
(* src/causal/engine/granger.py, as the pipeline thread drives them with   *)
(* the events of src/telemetry/collector/nf_scraper.py.                    *)
(*                                                                         *)
(* A sample is the number of the scrape cycle it was taken in: what a test *)
(* compares is which cycles it sets against each other.  A value that is   *)
(* tested is a pair of cycles: twice the same for a sample, two samples'   *)
(* for their difference, whatever lies between them.  The statistics       *)
(* are left out: whether a series is flat, is stationary, or causes        *)
(* another is a choice.  The buffer is filled in one action; requests that *)
(* read it meanwhile only display what they see.                           *)
(***************************************************************************)
EXTENDS Integers, Sequences, FiniteSets

CONSTANTS
    NetworkFunctions,  \* keys of NF_ENDPOINTS
    Window,            \* window_size, 60 in the code
    MinSamples,        \* 20: of a series to be tested, of cycles to begin
    MinAligned,        \* 15: of what is left of a pair
    AnalyseEvery,      \* 10
    CycleCap           \* bound of the model: scrape cycles

ASSUME TelemetryAssumption ==
    /\ MinAligned \in Nat \ {0} /\ MinSamples \in Nat /\ Window \in Nat
    /\ MinAligned < MinSamples /\ MinSamples <= Window
    /\ AnalyseEvery \in Nat \ {0}

VARIABLES
    scrapes,     \* cycle_count
    timestamps,  \* the cycles in the window
    series,      \* key -> samples, << >> where the code has no key
    analysed,    \* the cycle analyze last ran in
    links,       \* the links its last run found, with the values compared
    answering    \* history: cycles a NF has answered in a row, up to now

telemetryVars == <<scrapes, timestamps, series, analysed, links, answering>>

(* What a scrape of one NF yields: latency whenever it answers, metrics of
   its own if it has any to give, and reachability (always 0.0) only when the
   connection fails. *)
Signals == {"latency", "metric", "reachability"}
Answers == {{"latency", "metric"}, {"latency"}, {"reachability"}}
Key == NetworkFunctions \X Signals

InitTelemetry ==
    /\ scrapes = 0 /\ analysed = 0
    /\ timestamps = <<>>
    /\ series = [k \in Key |-> <<>>]
    /\ links = {}
    /\ answering = [nf \in NetworkFunctions |-> 0]

Within(s) == IF Len(s) > Window THEN Tail(s) ELSE s

Ready == Len(timestamps) >= MinSamples

AnalysisDue == Ready /\ scrapes % AnalyseEvery = 0 /\ analysed # scrapes

(* scrape_all and add_events *)
Ingest(answer) ==
    /\ ~AnalysisDue
    /\ scrapes < CycleCap
    /\ scrapes' = scrapes + 1
    /\ timestamps' = Within(Append(timestamps, scrapes'))
    /\ series' = [k \in Key |-> IF k[2] \in answer[k[1]]
                                THEN Within(Append(series[k], scrapes'))
                                ELSE series[k]]
    /\ answering' = [nf \in NetworkFunctions |->
                       IF "latency" \in answer[nf] THEN answering[nf] + 1 ELSE 0]
    /\ UNCHANGED <<analysed, links>>

-----------------------------------------------------------------------------
(* get_cross_nf_pairs, and analyze, which tests each pair both ways. *)
Tested ==
    {p \in Key \X Key :
       /\ p[1][1] # p[2][1]
       /\ Len(series[p[1]]) >= MinSamples
       /\ Len(series[p[2]]) >= MinSamples}

(* A series that is not stationary is differenced: one value fewer, each of
   two samples that follow one another in the buffer. *)
Prepared(s, stationary) ==
    IF stationary THEN [i \in 1..Len(s) |-> <<s[i], s[i]>>]
    ELSE [i \in 1..(Len(s) - 1) |-> <<s[i], s[i + 1]>>]

Shorter(x, y) == IF Len(x) < Len(y) THEN Len(x) ELSE Len(y)

\* mutant: the older ends of the two series are set side by side
AlignedByHead(s, n) == SubSeq(s, 1, n)

Aligned(s, n) == SubSeq(s, Len(s) - n + 1, Len(s))

(* test_pair finds a link, or finds none: no series of zeros varies, and a
   pair of too short a common length is not tested. *)
Link(cause, effect, x, y) ==
    [cause |-> cause, effect |-> effect,
     xs |-> Aligned(x, Shorter(x, y)), ys |-> Aligned(y, Shorter(x, y))]

Findable ==
    {Link(pair[1], pair[2], Prepared(series[pair[1]], sx), Prepared(series[pair[2]], sy)) :
       pair \in {p \in Tested : p[1][2] # "reachability" /\ p[2][2] # "reachability"},
       sx \in BOOLEAN, sy \in BOOLEAN}

Analyze ==
    /\ AnalysisDue
    /\ analysed' = scrapes
    /\ \/ links' = {}
       \/ \E link \in Findable : Len(link.xs) >= MinAligned /\ links' = {link}
    /\ UNCHANGED <<scrapes, timestamps, series, answering>>

NextTelemetry ==
    \/ \E answer \in [NetworkFunctions -> Answers] : Ingest(answer)
    \/ Analyze

TelemetrySpec == InitTelemetry /\ [][NextTelemetry]_telemetryVars

-----------------------------------------------------------------------------
(* A link that an analysis finds between two latencies sets side by side, in
   each position, values of the same cycle, and a difference is to the cycle
   just before it, provided both NFs have answered since the cycle the values
   reach back to.  Nothing else aligns the series: without the proviso this is
   false, for a NF that stops answering keeps its old samples and is tested on
   them, shifted, as long as it is down, and one that answers again is
   differenced across its outage. *)
AnsweredSince(nf, cycle) == answering[nf] > scrapes - cycle

LinksCompareSameCycles ==
    \A link \in links : \A i \in 1..Len(link.xs) :
      /\ link.cause[2] = "latency" /\ link.effect[2] = "latency"
      /\ analysed = scrapes
      /\ AnsweredSince(link.cause[1], link.xs[i][1])
      /\ AnsweredSince(link.effect[1], link.ys[i][1])
      => /\ link.xs[i][2] = link.ys[i][2]
         /\ link.xs[i][1] \in {link.xs[i][2] - 1, link.xs[i][2]}
         /\ link.ys[i][1] \in {link.ys[i][2] - 1, link.ys[i][2]}
=============================================================================

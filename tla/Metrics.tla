------------------------------- MODULE Metrics -------------------------------
(***************************************************************************)
(* src/causal5g/observability/metrics.py: the registry and its handles are *)
(* built by whichever helper is called first, and the pipeline thread and  *)
(* the event loop both call them.                                          *)
(*                                                                         *)
(* A registry is named by the thread that built it: ensure builds at most  *)
(* one in each.  Each read and write of the shared object is a step.       *)
(* Samples are not counted: a call ends with its sample in the registry of *)
(* the handle it used, or without one.                                     *)
(***************************************************************************)
EXTENDS Integers

CONSTANTS
    Threads,
    HandleCount,  \* metric handles, in the order ensure sets them; 12 in the code
    Unset,        \* None
    Unavailable   \* _UNAVAILABLE

ASSUME MetricsAssumption ==
    /\ {Unset, Unavailable} \cap Threads = {} /\ Unset # Unavailable
    /\ HandleCount \in Nat \ {0}

VARIABLES
    installed,    \* prometheus_client can be imported
    registry,     \* _state.registry
    available,    \* _state.available
    handle,       \* the registry each handle reports to
    call,         \* thread -> the call it is in
    settledAt     \* history: thread -> all was built when its call began

metricsVars == <<installed, registry, available, handle, call, settledAt>>

Handle == 1..HandleCount
At(step, of, next) == [step |-> step, of |-> of, next |-> next, result |-> "none"]
Resting == At("rest", 0, 0)

InitMetrics ==
    /\ installed \in BOOLEAN
    /\ registry = Unset /\ available = FALSE
    /\ handle = [h \in Handle |-> Unset]
    /\ call = [t \in Threads |-> Resting]
    /\ settledAt = [t \in Threads |-> FALSE]

Goes(t, step) == call' = [call EXCEPT ![t].step = step]
Ends(t, result) == call' = [call EXCEPT ![t].step = "rest", ![t].result = result]
Shared == <<installed, registry, available, handle, settledAt>>

(* Nobody is on the way to a registry of his own, and the one there is has
   all the handles. *)
Settled ==
    /\ available
    /\ \A h \in Handle : handle[h] = registry
    /\ \A t \in Threads : call[t].step \notin {"import", "handles", "available"}

(* A helper is called to report by handle h; /metrics and is_available by
   none, which is 0. *)
Call(t, h) ==
    /\ call[t].step = "rest"
    /\ call' = [call EXCEPT ![t] = At("ready?", h, 1)]
    /\ settledAt' = [settledAt EXCEPT ![t] = Settled]
    /\ UNCHANGED <<installed, registry, available, handle>>

(* ensure *)
IsReady(t) ==
    /\ call[t].step = "ready?"
    /\ Goes(t, IF available /\ registry # Unset THEN "report" ELSE "tried?")
    /\ UNCHANGED Shared

\* mutant: whoever finds metrics not available builds a registry
AlwaysTry(t) ==
    /\ call[t].step = "tried?"
    /\ Goes(t, "import")
    /\ UNCHANGED Shared

WasTried(t) ==
    /\ call[t].step = "tried?"
    /\ IF registry # Unset THEN Ends(t, "dropped") ELSE Goes(t, "import")
    /\ UNCHANGED Shared

Import(t) ==
    /\ call[t].step = "import"
    /\ \/ /\ installed
          /\ registry' = t
          /\ Goes(t, "handles")
          /\ UNCHANGED available
       \/ /\ ~installed
          /\ registry' = Unavailable /\ available' = FALSE
          /\ Ends(t, "dropped")
    /\ UNCHANGED <<installed, handle, settledAt>>

SetHandle(t) ==
    /\ call[t].step = "handles"
    /\ handle' = [handle EXCEPT ![call[t].next] = t]
    /\ call' = [call EXCEPT ![t] =
                  At(IF @.next = HandleCount THEN "available" ELSE "handles", @.of, @.next + 1)]
    /\ UNCHANGED <<installed, registry, available, settledAt>>

SetAvailable(t) ==
    /\ call[t].step = "available"
    /\ available' = TRUE
    /\ Goes(t, "report")
    /\ UNCHANGED <<installed, registry, handle, settledAt>>

(* The sample goes to the registry of the handle; only that of _state is ever
   rendered.  A handle that is None raises. *)
Report(t) ==
    /\ call[t].step = "report"
    /\ Ends(t, IF call[t].of = 0 THEN "rendered"
               ELSE IF handle[call[t].of] = Unset THEN "raised"
               ELSE IF handle[call[t].of] = registry THEN "counted"
               ELSE "orphaned")
    /\ UNCHANGED Shared

NextMetrics ==
    \E t \in Threads :
      \/ \E h \in 0..HandleCount : Call(t, h)
      \/ IsReady(t) \/ WasTried(t) \/ Import(t) \/ SetHandle(t) \/ SetAvailable(t)
      \/ Report(t)

MetricsSpec == InitMetrics /\ [][NextMetrics]_metricsVars

-----------------------------------------------------------------------------
(* Once a registry has been built and nobody is building another, nobody ever
   will: what "the import cost is paid exactly once" is for. *)
StaysSettled == [][Settled => Settled']_metricsVars

(* A helper never finds a handle missing, whichever thread builds, and loses a
   sample, dropped while another thread builds or counted in a registry that
   nobody renders, only if its call began before metrics settled.  The second
   loss has no end: two threads that both build may leave handles of the one
   with the registry of the other, and metrics never settle. *)
NoLossOnceSettled ==
    \A t \in Threads :
      /\ call[t].result # "raised"
      /\ settledAt[t] /\ call[t].step = "rest" => call[t].result \notin {"dropped", "orphaned"}
=============================================================================

------------------------------- MODULE LiveFeed -------------------------------
(***************************************************************************)
(* The live feed of src/api/frg.py: clients connect over WebSocket, and    *)
(* the pipeline thread and the fault handlers broadcast to them.           *)
(*                                                                         *)
(* All work on one plain list and nothing locks: a for loop over it reads  *)
(* at its own index whatever the list has become.  Each step of the        *)
(* pipeline thread may come between any two steps of the event loop.       *)
(* Tasks of the event loop give way to each other only where they await:   *)
(* at a send, not while they remove clients (held).                        *)
(*                                                                         *)
(* A send to a client that has gone raises; one to a client that is there  *)
(* raises only in the pipeline thread, which runs it in an event loop that *)
(* is not the socket's own.  Messages are not told apart: what counts is   *)
(* whom the broadcast under way has sent to.                               *)
(***************************************************************************)
EXTENDS Integers, Sequences, FiniteSets

CONSTANTS
    Clients,
    EventTasks,     \* fault handlers at work at a time, each with a broadcast
    NoOne

Pipeline == "pipeline"
Broadcasters == EventTasks \cup {Pipeline}

ASSUME FeedAssumption ==
    /\ Pipeline \notin EventTasks /\ NoOne \notin Broadcasters \cup Clients
    /\ IsFiniteSet(Clients)

VARIABLES
    wsClients,   \* state.ws_clients
    socket,      \* client -> "unknown", "open" or "gone"
    handler,     \* client -> "none", "greeting", "sleeping" or "ended"
    cast,        \* broadcaster -> its broadcast
    held         \* the task that keeps the event loop, or NoOne

clientVars == <<wsClients, socket, handler>>
feedVars == <<clientVars, cast, held>>

(* A broadcast: the next index, the clients whose send raised, and, as
   history, the clients it began with, how often it sent to each and whether
   another removed a client since it began. *)
Idle == [stage |-> "idle", at |-> 1, dead |-> <<>>, audience |-> {},
         sent |-> [c \in Clients |-> 0], disturbed |-> FALSE]

InitFeed ==
    /\ wsClients = <<>> /\ held = NoOne
    /\ socket = [c \in Clients |-> "unknown"]
    /\ handler = [c \in Clients |-> "none"]
    /\ cast = [b \in Broadcasters |-> Idle]

InList(s) == {s[i] : i \in 1..Len(s)}
Without(s, i) == SubSeq(s, 1, i - 1) \o SubSeq(s, i + 1, Len(s))
FirstAt(s, x) == CHOOSE i \in 1..Len(s) : s[i] = x /\ \A j \in 1..(i - 1) : s[j] # x

(* The broadcasts others have under way, once someone removes a client. *)
DisturbedBy(b, casts) ==
    [o \in Broadcasters |-> IF o = b \/ casts[o].stage = "idle" THEN casts[o]
                            ELSE [casts[o] EXCEPT !.disturbed = TRUE]]

Free(b) == b = Pipeline \/ held \in {NoOne, b}
Keep(b) == held' = IF b = Pipeline THEN held ELSE b
Release(b) == held' = IF held = b THEN NoOne ELSE held

-----------------------------------------------------------------------------
(* websocket_live.  It never receives, so it does not see a client leave. *)
Leave(c) ==
    /\ socket[c] = "open"
    /\ socket' = [socket EXCEPT ![c] = "gone"]
    /\ UNCHANGED <<wsClients, handler, cast, held>>

Connect(c) ==
    /\ held = NoOne /\ handler[c] = "none"
    /\ socket' = [socket EXCEPT ![c] = "open"]
    /\ handler' = [handler EXCEPT ![c] = "greeting"]
    /\ wsClients' = Append(wsClients, c)
    /\ UNCHANGED <<cast, held>>

(* The greeting is sent, or raises because the client has gone: only a
   WebSocketDisconnect makes the handler remove it, and it raises again if a
   broadcast has removed it before. *)
Greet(c) ==
    /\ held = NoOne /\ handler[c] = "greeting"
    /\ UNCHANGED <<socket, held>>
    /\ \/ /\ socket[c] = "open"
          /\ handler' = [handler EXCEPT ![c] = "sleeping"]
          /\ UNCHANGED <<wsClients, cast>>
       \/ /\ socket[c] = "gone"
          /\ handler' = [handler EXCEPT ![c] = "ended"]
          /\ \/ /\ c \in InList(wsClients)
                /\ wsClients' = Without(wsClients, FirstAt(wsClients, c))
                /\ cast' = DisturbedBy(NoOne, cast)
             \/ UNCHANGED <<wsClients, cast>>

-----------------------------------------------------------------------------
(* broadcast *)
Begin(b) ==
    cast' = [cast EXCEPT ![b] = [Idle EXCEPT !.stage = "sending",
                                             !.audience = InList(wsClients)]]

Received(x, c) ==
    [x EXCEPT !.at = x.at + 1, !.sent = [x.sent EXCEPT ![c] = x.sent[c] + 1]]
Collected(x, c) == [Received(x, c) EXCEPT !.dead = Append(x.dead, c)]

\* mutant: a client is removed as soon as a send to it raises
SendAndRemove(b) ==
    /\ cast[b].stage = "sending" /\ Free(b)
    /\ cast[b].at <= Len(wsClients)
    /\ LET c == wsClients[cast[b].at]
       IN  \/ /\ socket[c] = "open"
              /\ cast' = [cast EXCEPT ![b] = Received(@, c)]
              /\ UNCHANGED wsClients
           \/ /\ socket[c] = "gone" \/ b = Pipeline
              /\ cast' = DisturbedBy(b, [cast EXCEPT ![b] = Received(@, c)])
              /\ wsClients' = Without(wsClients, cast[b].at)
    /\ Release(b)
    /\ UNCHANGED <<socket, handler>>

Send(b) ==
    /\ cast[b].stage = "sending" /\ Free(b)
    /\ cast[b].at <= Len(wsClients)
    /\ LET c == wsClients[cast[b].at]
       IN  \/ /\ socket[c] = "open"
              /\ cast' = [cast EXCEPT ![b] = Received(@, c)]
           \/ /\ socket[c] = "gone" \/ b = Pipeline
              /\ cast' = [cast EXCEPT ![b] = Collected(@, c)]
    /\ Release(b)
    /\ UNCHANGED <<wsClients, socket, handler>>

\* mutant: the dead are forgotten
EndSendingForgets(b) ==
    /\ cast[b].stage = "sending" /\ Free(b)
    /\ cast[b].at > Len(wsClients)
    /\ cast' = [cast EXCEPT ![b] = [@ EXCEPT !.stage = "removing", !.at = 1, !.dead = <<>>]]
    /\ Keep(b)
    /\ UNCHANGED clientVars

(* The index has run past the list; removal begins and does not await. *)
EndSending(b) ==
    /\ cast[b].stage = "sending" /\ Free(b)
    /\ cast[b].at > Len(wsClients)
    /\ cast' = [cast EXCEPT ![b] = [@ EXCEPT !.stage = "removing", !.at = 1]]
    /\ Keep(b)
    /\ UNCHANGED clientVars

Remove(b) ==
    /\ cast[b].stage = "removing" /\ cast[b].dead # <<>>
    /\ LET c == Head(cast[b].dead)
       IN  \/ /\ c \in InList(wsClients)
              /\ wsClients' = Without(wsClients, FirstAt(wsClients, c))
              /\ cast' = DisturbedBy(b, [cast EXCEPT ![b].dead = Tail(@)])
           \/ /\ c \notin InList(wsClients)
              /\ cast' = [cast EXCEPT ![b].stage = "raised"]
              /\ UNCHANGED wsClients
    /\ UNCHANGED <<socket, handler, held>>

(* The broadcast is over.  Where it raised, a fault handler answers 500 and
   the pipeline logs the error and goes on. *)
Return(b) ==
    /\ \/ cast[b].stage = "removing" /\ cast[b].dead = <<>>
       \/ cast[b].stage = "raised"
    /\ cast' = [cast EXCEPT ![b] = Idle]
    /\ Release(b)
    /\ UNCHANGED clientVars

(* inject_fault or recover_fault has done its work and broadcasts it, or the
   pipeline a report it has published. *)
Event(b) ==
    /\ Free(b) /\ cast[b].stage = "idle"
    /\ Begin(b) /\ Keep(b)
    /\ UNCHANGED clientVars

-----------------------------------------------------------------------------
CastStep(b) == Send(b) \/ EndSending(b) \/ Remove(b) \/ Return(b)

NextFeed ==
    \/ \E b \in Broadcasters : Event(b) \/ CastStep(b)
    \/ \E c \in Clients : Connect(c) \/ Greet(c) \/ Leave(c)

FeedSpec == InitFeed /\ [][NextFeed]_feedVars /\ WF_feedVars(Event(Pipeline) \/ CastStep(Pipeline))

-----------------------------------------------------------------------------
(* No broadcast, however the list changes under it, sends its message to a
   client twice; and one under which nobody else removes a client sends to
   every client it began with, its own dead ones notwithstanding, and does not
   raise: a fault request answers 500 after the fault was injected only where
   two broadcasts removed the same client. *)
EachClientOnce ==
    \A b \in Broadcasters :
      LET x == cast[b]
      IN  /\ \A c \in Clients : x.sent[c] <= 1
          /\ x.stage \in {"removing", "raised"} /\ ~x.disturbed =>
                x.stage # "raised" /\ \A c \in x.audience : x.sent[c] = 1

(* A client that has gone does not stay in the list, as long as the pipeline
   keeps analysing: a broadcast may skip it or break off before it, and a
   later one takes it out. *)
GoneIsForgotten ==
    \A c \in Clients :
      (socket[c] = "gone" /\ c \in InList(wsClients)) ~> (c \notin InList(wsClients))

(* broadcast's docstring, "Broadcast to all connected WebSocket clients", of
   those that are in the list and connected from its beginning to its end. *)
BroadcastReachesAll ==
    \A b \in Broadcasters, c \in Clients :
      /\ cast[b].stage = "removing"
      /\ c \in cast[b].audience /\ c \in InList(wsClients) /\ socket[c] = "open"
      => cast[b].sent[c] = 1
=============================================================================

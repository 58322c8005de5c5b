----------------------------- MODULE ControlPanel -----------------------------
(***************************************************************************)
(* The control panel, src/api/control.py: endpoints that run docker, and   *)
(* the page that calls them and shows the containers.                      *)
(*                                                                         *)
(* A refresh asks for the containers and shows the answer when it comes;   *)
(* one begins every two seconds and one after every command, whatever is   *)
(* under way, and answers may come in any order.  A call that fails on its *)
(* way throws.  Besides the panel, others change containers too, and       *)
(* docker may fail for a while.  The page's fault buttons call a path that *)
(* no router has: they change nothing, and begin a refresh.                *)
(***************************************************************************)
EXTENDS Naturals

CONSTANTS
    Containers,
    InFlight,     \* bound of the model: refreshes at a time
    ChangeCap,    \* bound of the model: commands, changes and failures
    Unlisted      \* a container docker does not list

ContainerState == {"running", "stopped", Unlisted}

ASSUME PanelAssumption == ChangeCap \in Nat

VARIABLES
    docker,       \* container -> what docker makes of it
    dockerUp,     \* docker answers
    refreshes,    \* refresh -> "idle", "asked" or "answered", with a list
    shown,        \* lastContainers, rendered
    command,      \* the global command docker is at: "none", "up" or "down"
    locked,       \* the global buttons are disabled
    toggles,      \* commands for one container docker is at
    changes       \* so far

panelVars == <<docker, dockerUp, refreshes, shown, command, locked, toggles, changes>>
server == <<docker, dockerUp, command, toggles>>
page == <<refreshes, shown, locked>>

NothingListed == [c \in Containers |-> Unlisted]

NoRefresh == [step |-> "idle", list |-> NothingListed]

InitPanel ==
    /\ docker \in [Containers -> {"running", Unlisted}] /\ dockerUp = TRUE
    /\ refreshes = [r \in InFlight |-> NoRefresh]
    /\ shown = NothingListed
    /\ command = "none" /\ locked = FALSE /\ toggles = {}
    /\ changes = 0

Change == changes < ChangeCap /\ changes' = changes + 1

-----------------------------------------------------------------------------
(* refresh *)
Ask(r) ==
    /\ refreshes[r].step = "idle"
    /\ refreshes' = [refreshes EXCEPT ![r].step = "asked"]
    /\ UNCHANGED <<server, shown, locked, changes>>

(* get_container_statuses; where docker fails there are none. *)
List(r) ==
    /\ refreshes[r].step = "asked"
    /\ refreshes' = [refreshes EXCEPT ![r].step = "answered",
                        ![r].list = IF dockerUp THEN docker ELSE NothingListed]
    /\ UNCHANGED <<server, shown, locked, changes>>

\* mutant: an empty list is taken for none, and the last one kept
ShowUnlessEmpty(r) ==
    /\ refreshes[r].step = "answered"
    /\ shown' = IF refreshes[r].list = NothingListed THEN shown ELSE refreshes[r].list
    /\ refreshes' = [refreshes EXCEPT ![r] = NoRefresh]
    /\ UNCHANGED <<server, locked, changes>>

Show(r) ==
    /\ refreshes[r].step = "answered"
    /\ shown' = refreshes[r].list
    /\ refreshes' = [refreshes EXCEPT ![r] = NoRefresh]
    /\ UNCHANGED <<server, locked, changes>>

(* The call throws: "Docker unreachable", above what was shown before. *)
RefreshFails(r) ==
    /\ Change
    /\ refreshes[r].step # "idle"
    /\ refreshes' = [refreshes EXCEPT ![r] = NoRefresh]
    /\ UNCHANGED <<server, shown, locked>>

-----------------------------------------------------------------------------
(* startAll and stopAll, the command docker compose runs, and its answer,
   which unlocks the buttons; if the call throws they stay as they are. *)
Command(what) ==
    /\ Change
    /\ ~locked /\ command = "none"
    /\ command' = what /\ locked' = TRUE
    /\ UNCHANGED <<docker, dockerUp, toggles, refreshes, shown>>

Compose(c) ==
    /\ command # "none" /\ dockerUp
    /\ docker' = [docker EXCEPT ![c] = IF command = "up" THEN "running" ELSE Unlisted]
    /\ UNCHANGED <<dockerUp, command, toggles, changes, page>>

CommandEnds ==
    /\ command # "none"
    /\ command' = "none"
    /\ locked' \in {FALSE} \cup (IF changes < ChangeCap THEN {TRUE} ELSE {})
    /\ changes' = IF locked' THEN changes + 1 ELSE changes
    /\ UNCHANGED <<docker, dockerUp, toggles, refreshes, shown>>

(* toggleContainer: a shown container has a button, to stop or to start it. *)
Click(c) ==
    /\ Change
    /\ shown[c] # Unlisted
    /\ toggles' = toggles \cup {<<c, IF shown[c] = "running" THEN "stop" ELSE "start">>}
    /\ UNCHANGED <<docker, dockerUp, command, page>>

(* docker start and docker stop; both fail where there is no container. *)
Toggle(toggle) ==
    /\ toggles' = toggles \ {toggle}
    /\ docker' = IF dockerUp /\ docker[toggle[1]] # Unlisted
                 THEN [docker EXCEPT ![toggle[1]] =
                         IF toggle[2] = "stop" THEN "stopped" ELSE "running"]
                 ELSE docker
    /\ UNCHANGED <<dockerUp, command, changes, page>>

(* Someone else: a fault injected, a container removed, docker itself. *)
Otherwise ==
    /\ Change
    /\ \/ \E c \in Containers, s \in ContainerState :
            docker' = [docker EXCEPT ![c] = s] /\ UNCHANGED dockerUp
       \/ dockerUp' = ~dockerUp /\ UNCHANGED docker
    /\ UNCHANGED <<command, toggles, page>>

NextPanel ==
    \/ \E r \in InFlight : Ask(r) \/ List(r) \/ Show(r) \/ RefreshFails(r)
    \/ \E what \in {"up", "down"} : Command(what)
    \/ \E c \in Containers : Compose(c) \/ Click(c)
    \/ \E toggle \in toggles : Toggle(toggle)
    \/ CommandEnds
    \/ Otherwise

(* The interval goes on, calls and commands come to an end. *)
PanelFairness ==
    /\ \A r \in InFlight :
         WF_panelVars(Ask(r)) /\ WF_panelVars(List(r)) /\ WF_panelVars(Show(r))
    /\ WF_panelVars(CommandEnds)
    /\ WF_panelVars(\E toggle \in toggles : Toggle(toggle))

PanelSpec == InitPanel /\ [][NextPanel]_panelVars /\ PanelFairness

-----------------------------------------------------------------------------
(* Once nothing changes any more and docker answers, the panel comes to show
   the containers as they are, and nothing that was asked for before a change
   and answers late makes it show anything else for good. *)
PanelCatchesUp == <>[]dockerUp => <>[](shown = docker)
=============================================================================

---------------------------- MODULE DockerPanel ----------------------------
(***************************************************************************)
(* The Docker view of the tools panel: DockerToolPanel.tsx and             *)
(* dockerRefreshStrategy.ts.                                               *)
(*                                                                         *)
(* Containers, images and the engine's status are lists that are read      *)
(* alike, one read at a time, and are only known to be loaded or not; the  *)
(* engine's configuration is a text with a draft beside it.  A call is a   *)
(* command that changes the host, with the mark that says it is running.   *)
(* The connection changes once, when a temporary one is saved.             *)
(***************************************************************************)
EXTENDS Integers

CONSTANTS
    Drafts,         \* texts of the engine's configuration, 0 the first
    MaxListReads,   \* bound: reads for one connection, of all lists, engine and config as one
    MaxCalls,       \* bound: calls
    MaxDockerTurns  \* bound: changes of view, visibility and connection, and texts typed

DockerLists == {"containers", "images", "engine"}
Reads == DockerLists \cup {"config"}
Marks == {"busyKey", "detailBusyKey", "pulling", "imageRunning"}
Never == -1
NoMark == "none"

VARIABLES
    dockerOf,                       \* connection id
    dockerView, dockerSeen,         \* dockerAutoRefreshActive
    listed,                         \* lists that are loaded
    startedViews,                   \* dockerInitialLoadRef, engineInitialLoadRef
    runState, reading,              \* RefreshRunState of each list; reads on their way
    hostText, engineConfig, engineConfigDraft,
    mark, calling, callCount,       \* what each mark says; calls on their way
    detailTarget, containerDetail,  \* the details of a container: open, loaded
    inspecting,                     \* reads of details on their way: [mark, of] (bound: one at a time)
    dockerTurns

refreshVars == <<runState, reading>>
configVars == <<hostText, engineConfig, engineConfigDraft>>
callVars == <<mark, calling, callCount>>
detailVars == <<detailTarget, containerDetail, inspecting>>
viewVars == <<dockerView, dockerSeen, startedViews>>
dockerVars == <<dockerOf, viewVars, listed, refreshVars, configVars, callVars, detailVars, dockerTurns>>

createRefreshRunState == [inFlight |-> FALSE, pending |-> FALSE, runId |-> 0]

DockerInit ==
    /\ dockerOf = 1 /\ dockerView = "containers" /\ dockerSeen = TRUE
    /\ listed = {} /\ startedViews = {}
    /\ runState = [l \in Reads |-> createRefreshRunState] /\ reading = {}
    /\ hostText = 0 /\ engineConfig = Never /\ engineConfigDraft = Never
    /\ mark = [k \in Marks |-> ""] /\ calling = {} /\ callCount = 0
    /\ detailTarget = FALSE /\ containerDetail = FALSE /\ inspecting = {} /\ dockerTurns = 0

-----------------------------------------------------------------------------
(* Refreshes *)

Refreshes == [run |-> runState, on |-> reading]
RefreshesAre(s) ==
    /\ \A l \in {"engine", "config"} :
          s.run["containers"].runId + s.run["images"].runId + s.run[l].runId <= MaxListReads
    /\ runState' = s.run /\ reading' = s.on

\* A read asked for while one is on its way is dropped, or run after it;
\* m is the mark of the call that waits for it.
runRefreshFor(m, s, l, of, queueIfBusy, preserveDirty) ==
    LET state == s.run[l]
        next == IF state.inFlight
                THEN [inFlight |-> TRUE, pending |-> state.pending \/ queueIfBusy, runId |-> state.runId]
                ELSE [inFlight |-> TRUE, pending |-> FALSE, runId |-> state.runId + 1]
        read == [list |-> l, of |-> of, runId |-> next.runId, preserveDirty |-> preserveDirty,
                 owner |-> dockerOf, from |-> IF l = "config" THEN hostText ELSE Never, mark |-> m]
    IN [run |-> [s.run EXCEPT ![l] = next], on |-> IF state.inFlight THEN s.on ELSE s.on \cup {read}]
runRefresh(s, l, of, queueIfBusy, preserveDirty) == runRefreshFor(NoMark, s, l, of, queueIfBusy, preserveDirty)

refreshEngineView(s) ==
    runRefresh(runRefresh(s, "engine", dockerOf, FALSE, TRUE), "config", dockerOf, FALSE, TRUE)

isCurrentRefresh(r) == r.of = dockerOf /\ runState[r.list].runId = r.runId

\* A read of an earlier connection belongs to a run state nobody looks at any more.
AfterRead(r) ==
    LET rest == reading \ {r}
        state == runState[r.list]
        free == [inFlight |-> FALSE, pending |-> state.pending, runId |-> state.runId]
        s == [run |-> [runState EXCEPT ![r.list] = free], on |-> rest]
    IN IF r.owner # dockerOf THEN [run |-> runState, on |-> rest]
       ELSE IF state.pending /\ r.of = dockerOf
       THEN runRefreshFor(r.mark, s, r.list, r.of, FALSE, r.preserveDirty) ELSE s

\* The call with mark m is over once no read it waits for is on its way; a run of an image then
\* shows the containers.
CallEnds(m, s) ==
    LET over == m # NoMark /\ \A r \in s.on : r.mark # m
    IN /\ mark' = IF over THEN [mark EXCEPT ![m] = ""] ELSE mark
       /\ dockerView' = IF over /\ m = "imageRunning" THEN "containers" ELSE dockerView

ListReturns(r, ok) ==
    /\ r \in reading /\ r.list # "config" /\ RefreshesAre(AfterRead(r)) /\ CallEnds(r.mark, AfterRead(r))
    /\ listed' = IF isCurrentRefresh(r) /\ ok THEN listed \cup {r.list} ELSE listed
    /\ UNCHANGED <<dockerOf, dockerSeen, startedViews, configVars, calling, callCount, detailVars, dockerTurns>>

configDirty == engineConfig # Never /\ engineConfig # engineConfigDraft

ConfigReturns_Replaces(r, answer) ==
    /\ r \in reading /\ r.list = "config" /\ RefreshesAre(AfterRead(r))
    /\ IF isCurrentRefresh(r) /\ answer # Never
       THEN engineConfig' = answer /\ engineConfigDraft' = answer
       ELSE UNCHANGED <<engineConfig, engineConfigDraft>>
    /\ UNCHANGED <<dockerOf, viewVars, listed, hostText, callVars, detailVars, dockerTurns>>

ConfigReturns(r, answer) ==
    /\ r \in reading /\ r.list = "config" /\ RefreshesAre(AfterRead(r))
    /\ IF isCurrentRefresh(r) /\ answer # Never
       THEN /\ engineConfig' = answer
            /\ engineConfigDraft' = IF r.preserveDirty /\ configDirty THEN engineConfigDraft ELSE answer
       ELSE UNCHANGED <<engineConfig, engineConfigDraft>>
    /\ UNCHANGED <<dockerOf, viewVars, listed, hostText, callVars, detailVars, dockerTurns>>

planDockerInitialRefresh ==
    /\ dockerSeen /\ dockerView # "engine" /\ dockerView \notin startedViews
    /\ startedViews' = startedViews \cup {dockerView}
    /\ IF dockerView \in listed THEN UNCHANGED refreshVars
       ELSE RefreshesAre(runRefresh(Refreshes, dockerView, dockerOf, FALSE, FALSE))
    /\ UNCHANGED <<dockerOf, dockerView, dockerSeen, listed, configVars, callVars, detailVars, dockerTurns>>

EngineIsShown ==
    /\ dockerSeen /\ dockerView = "engine" /\ "engine" \notin startedViews
    /\ startedViews' = startedViews \cup {"engine"} /\ RefreshesAre(refreshEngineView(Refreshes))
    /\ UNCHANGED <<dockerOf, dockerView, dockerSeen, listed, configVars, callVars, detailVars, dockerTurns>>

Only == UNCHANGED <<dockerOf, viewVars, listed, configVars, callVars, detailVars, dockerTurns>>

\* The timer of the list in view; the configuration is only read when there is none.
shouldRunDockerAutoRefresh ==
    /\ dockerSeen
    /\ LET s == runRefresh(Refreshes, dockerView, dockerOf, TRUE, FALSE)
       IN RefreshesAre(IF dockerView = "engine" /\ engineConfig = Never
                       THEN runRefresh(s, "config", dockerOf, FALSE, TRUE) ELSE s)
    /\ Only

\* The button is off while a read with a spinner is on its way, which would drop this one.
refreshCurrentDockerView ==
    /\ dockerSeen
    /\ RefreshesAre(IF dockerView = "engine" THEN refreshEngineView(Refreshes)
                    ELSE runRefresh(Refreshes, dockerView, dockerOf, FALSE, FALSE))
    /\ Only

\* The button over the configuration passes no options: an edited draft is replaced.
onRefreshConfig ==
    /\ dockerSeen /\ dockerView = "engine"
    /\ RefreshesAre(runRefresh(Refreshes, "config", dockerOf, FALSE, FALSE))
    /\ Only

-----------------------------------------------------------------------------
(* Calls: mark m says op while a call and the read that follows it run; that read is not queued. *)

Call(m, op, l, text) ==
    /\ dockerSeen /\ callCount < MaxCalls /\ callCount' = callCount + 1
    /\ mark' = [mark EXCEPT ![m] = op]
    /\ calling' = calling \cup {[mark |-> m, op |-> op, list |-> l, of |-> dockerOf, text |-> text, ran |-> text = Never]}
    /\ UNCHANGED <<dockerOf, viewVars, listed, refreshVars, configVars, detailVars, dockerTurns>>

\* What each view offers; the dialogs are modal.
Dialogs == ~detailTarget
ContainerCard == Dialogs /\ dockerView = "containers"
ImageList == Dialogs /\ dockerView = "images"
DockerEngineView == dockerView = "engine" /\ mark.busyKey = ""
DetailDialog(op) == detailTarget /\ containerDetail /\ mark.detailBusyKey # op

runContainerAction == ContainerCard /\ mark.busyKey # "container" /\ Call("busyKey", "container", "containers", Never)
confirmRemoveContainer == ContainerCard /\ mark.busyKey = "" /\ Call("busyKey", "remove", "containers", Never)
confirmRemoveImage == ImageList /\ mark.busyKey # "image-remove" /\ Call("busyKey", "image-remove", "images", Never)
submitPullImage == ImageList /\ mark.pulling = "" /\ Call("pulling", "pull", "images", Never)
submitImageRun == ImageList /\ mark.imageRunning = "" /\ Call("imageRunning", "run", "containers", Never)
runEngineAction == DockerEngineView /\ "engine" \in listed /\ Call("busyKey", "engine", "engine", Never)

\* Save, and save and restart, of the text as it is now.
saveEngineConfig ==
    DockerEngineView /\ configDirty /\ Call("busyKey", "save", "engine", engineConfigDraft)

updateContainerRestartPolicy ==
    DetailDialog("restart-policy") /\ Call("detailBusyKey", "restart-policy", "containers", Never)
connectContainerNetwork ==
    DetailDialog("network-connect") /\ Call("detailBusyKey", "network-connect", "containers", Never)

openContainerDetail ==
    /\ ContainerCard /\ dockerSeen /\ inspecting = {}
    /\ detailTarget' = TRUE /\ containerDetail' = FALSE /\ inspecting' = {[mark |-> NoMark, of |-> dockerOf]}
    /\ UNCHANGED <<dockerOf, viewVars, listed, refreshVars, configVars, callVars, dockerTurns>>

closeContainerDetail ==
    /\ detailTarget /\ detailTarget' = FALSE /\ containerDetail' = FALSE
    /\ mark' = [mark EXCEPT !.detailBusyKey = ""]
    /\ UNCHANGED <<dockerOf, viewVars, listed, refreshVars, configVars, calling, callCount, inspecting, dockerTurns>>

\* Back from a call, with the connection of its click: the read that follows it.
Follow(m, l, of) ==
    LET s == runRefreshFor(m, Refreshes, l, of, FALSE, FALSE) IN RefreshesAre(s) /\ CallEnds(m, s)

\* The answer is kept whether or not the dialog is still open; a call that changed the container goes on.
DetailReturns(d) ==
    /\ d \in inspecting /\ inspecting' = inspecting \ {d}
    /\ containerDetail' \in {TRUE, containerDetail}
    /\ IF d.mark = NoMark THEN UNCHANGED <<refreshVars, mark, dockerView>> ELSE Follow(d.mark, "containers", d.of)
    /\ UNCHANGED <<dockerOf, dockerSeen, startedViews, listed, configVars, calling, callCount, detailTarget, dockerTurns>>

\* The host takes the text to be saved, or does not.
HostRuns(c) ==
    /\ c \in calling /\ ~c.ran
    /\ calling' = (calling \ {c}) \cup {[c EXCEPT !.ran = TRUE]}
    /\ hostText' \in {hostText, c.text}
    /\ UNCHANGED <<dockerOf, viewVars, listed, refreshVars, engineConfig, engineConfigDraft, mark, callCount,
                   detailVars, dockerTurns>>

Resumed(c) == c \in calling /\ calling' = calling \ {c}

\* An action on a container, an image or the engine reads after a failure too.
ActionReturns(c) ==
    /\ c.mark = "busyKey" /\ c.op \notin {"save", "restart"} /\ Resumed(c) /\ Follow(c.mark, c.list, c.of)
    /\ UNCHANGED <<dockerOf, dockerSeen, listed, startedViews, configVars, callCount, detailVars, dockerTurns>>

CallReturns(c) ==
    /\ c.mark \in {"pulling", "imageRunning"} \/ c.op = "restart"
    /\ Resumed(c)
    /\ \/ Follow(c.mark, c.list, c.of)
       \/ mark' = [mark EXCEPT ![c.mark] = ""] /\ UNCHANGED <<refreshVars, dockerView>>
    /\ UNCHANGED <<dockerOf, dockerSeen, listed, startedViews, configVars, callCount, detailVars, dockerTurns>>

\* A changed container has its details read again first.
DetailCallReturns(c) ==
    /\ c.mark = "detailBusyKey" /\ Resumed(c)
    /\ \/ inspecting = {} /\ inspecting' = {[mark |-> c.mark, of |-> c.of]} /\ UNCHANGED mark
       \/ mark' = [mark EXCEPT !.detailBusyKey = ""] /\ UNCHANGED inspecting
    /\ UNCHANGED <<dockerOf, viewVars, listed, refreshVars, configVars, callCount, detailTarget, containerDetail, dockerTurns>>

Both(x) == engineConfig' = x /\ engineConfigDraft' = x

\* A save that went well shows what it saved; the engine is then restarted if it was to be.
ConfigSaved(c) ==
    /\ c.op = "save" /\ c.ran /\ c \in calling
    /\ \/ /\ calling' = calling \ {c} /\ mark' = [mark EXCEPT !.busyKey = ""]
          /\ \/ UNCHANGED <<engineConfig, engineConfigDraft>>
             \/ hostText = c.text /\ Both(c.text)
       \/ /\ hostText = c.text /\ Both(c.text) /\ UNCHANGED mark
          /\ calling' = (calling \ {c}) \cup {[c EXCEPT !.op = "restart"]}
    /\ UNCHANGED <<dockerOf, viewVars, listed, refreshVars, hostText, callCount, detailVars, dockerTurns>>

-----------------------------------------------------------------------------
(* The user and the shell *)

DockerTurn == dockerTurns < MaxDockerTurns /\ dockerTurns' = dockerTurns + 1

changeDockerView(v) ==
    /\ DockerTurn /\ dockerSeen /\ Dialogs /\ dockerView' = v
    /\ UNCHANGED <<dockerOf, dockerSeen, startedViews, listed, refreshVars, configVars, callVars, detailVars>>

\* The panel is hidden, another tool is chosen, or the window is.
SeenChanges ==
    /\ DockerTurn /\ dockerSeen' = ~dockerSeen
    /\ UNCHANGED <<dockerOf, dockerView, startedViews, listed, refreshVars, configVars, callVars, detailVars>>

changeEngineConfigDraft(x) ==
    /\ DockerTurn /\ dockerSeen /\ dockerView = "engine" /\ engineConfigDraft' = x
    /\ UNCHANGED <<dockerOf, viewVars, listed, refreshVars, hostText, engineConfig, callVars, detailVars>>

\* Nothing is cached for the new connection id; the marks of calls on their way stay.
ConnectionIsSaved ==
    /\ DockerTurn /\ dockerOf = 1 /\ dockerOf' = 2
    /\ dockerView' = "containers" /\ startedViews' = {} /\ listed' = {}
    /\ engineConfig' = Never /\ engineConfigDraft' = Never
    /\ runState' = [l \in Reads |-> createRefreshRunState]
    /\ detailTarget' = FALSE /\ containerDetail' = FALSE
    /\ mark' = [mark EXCEPT !.detailBusyKey = "", !.imageRunning = ""]
    /\ UNCHANGED <<dockerSeen, hostText, reading, calling, callCount, inspecting>>

DockerNext ==
    \/ planDockerInitialRefresh \/ EngineIsShown \/ shouldRunDockerAutoRefresh
    \/ refreshCurrentDockerView \/ onRefreshConfig
    \/ \E r \in reading : \/ \E ok \in BOOLEAN : ListReturns(r, ok)
                          \/ \E a \in {Never, r.from, hostText} : ConfigReturns(r, a)
    \/ runContainerAction \/ confirmRemoveContainer \/ confirmRemoveImage \/ runEngineAction
    \/ submitPullImage \/ submitImageRun \/ saveEngineConfig
    \/ updateContainerRestartPolicy \/ connectContainerNetwork \/ closeContainerDetail
    \/ openContainerDetail \/ \E d \in inspecting : DetailReturns(d)
    \/ \E c \in calling : HostRuns(c) \/ ConfigSaved(c) \/ ActionReturns(c) \/ CallReturns(c) \/ DetailCallReturns(c)
    \/ \E l \in DockerLists : changeDockerView(l)
    \/ \E x \in Drafts : changeEngineConfigDraft(x)
    \/ SeenChanges \/ ConnectionIsSaved

DockerSpec == DockerInit /\ [][DockerNext]_dockerVars

-----------------------------------------------------------------------------
\* An edited configuration is replaced only by more typing, by the answer to a save, by the
\* user's own reload or with the connection; a read on its way while the user types, or one
\* that a timer or a change of view asks for, leaves the text alone.
DraftIsKept ==
    [][configDirty /\ dockerOf' = dockerOf /\ engineConfigDraft' # engineConfigDraft =>
         \/ reading' = reading /\ calling' = calling
         \/ \E c \in calling \ calling' : c.op = "save"
         \/ \E r \in reading \ reading' : ~r.preserveDirty]_dockerVars
=============================================================================

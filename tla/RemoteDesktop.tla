--------------------------- MODULE RemoteDesktop ---------------------------
(***************************************************************************)
(* RDP and VNC tabs of the workspace, the backend sessions they start, and *)
(* the one window (VncRunnerWindowApp) that shows the "windowed" VNC tabs. *)
(* The two windows talk through events: emitted in order, handled later,   *)
(* and lost when nobody listens yet.                                       *)
(*                                                                         *)
(* RDP and VNC tabs are two React states, each with a ref that the         *)
(* handlers read.  What an answer stores is written to the ref inside a    *)
(* setState updater, which React runs at once or at its next render; a     *)
(* close writes the list without its tabs to both, over whatever waits,    *)
(* and an effect sets the ref to the list that was rendered.               *)
(* What a handler of a click updates is rendered before the next event.    *)
(*                                                                         *)
(* A session of the backend is a number.  A retry starts a new session and *)
(* forgets the one the tab had, a close the ones that wait to be stored;   *)
(* "abandoned" remembers those.  The status a tab shows is left out.       *)
(***************************************************************************)
EXTENDS Naturals, Sequences

LOCAL INSTANCE SequencesExt

CONSTANTS
    Desktops,       \* ids of tabs, never given out again
    RdpTabs,        \* those of RDP connections; the others are VNC tabs
    Windowed,       \* those of VNC connections with render_mode "windowed"
    MaxRuns,        \* bound: launches
    MaxEvents,      \* bound: failures a viewer reports while events to the main window wait
    NoSession

ASSUME NoSessionAssumption == NoSession \notin Nat
ASSUME RdpTabsAssumption == RdpTabs \cap Windowed = {}

VARIABLES
    desktops, unused,         \* rdpSessions and vncSessions; ids not used yet
    result, windowLabel,        \* of an open tab, in the ref
    queued,                     \* the session an updater that has not run yet stores in a tab
    launching,                  \* runs of a tab that await the launch
    attaching,                  \* runs that await the runner window: tab, session, "create", "open" or "sent"
    live, sessions, runs,       \* backend sessions; sessions and launches so far
    pendingPayload, windowReady,\* pendingVncRunnerWindowPayloadsRef, vncRunnerWindowReadyRef
    window, windowTabs,         \* "none", "loading" or "ready"; the session each tab shows there
    toRunner, toMain,           \* events on their way
    abandoned                   \* history: sessions forgotten by their tab

tabVars == <<desktops, unused, result, windowLabel, queued>>
runVars == <<launching, attaching, live, sessions, runs>>
windowVars == <<pendingPayload, windowReady, window, windowTabs, toRunner, toMain>>
desktopVars == <<tabVars, runVars, windowVars, abandoned>>

DesktopInit ==
    /\ desktops = {} /\ unused = Desktops
    /\ result = [t \in Desktops |-> NoSession] /\ queued = [t \in Desktops |-> NoSession]
    /\ windowLabel = [t \in Desktops |-> FALSE]
    /\ launching = [t \in Desktops |-> 0] /\ attaching = {} /\ live = {} /\ sessions = 0 /\ runs = 0
    /\ pendingPayload = [t \in Desktops |-> NoSession] /\ windowReady = FALSE
    /\ window = "none" /\ windowTabs = [t \in Desktops |-> NoSession] /\ toRunner = <<>> /\ toMain = <<>>
    /\ abandoned = {}

-----------------------------------------------------------------------------
(* The tab *)

\* The sessions the tabs of T lose without anybody closing them.
Abandon(of, T) == abandoned' = abandoned \cup ({of[t] : t \in T} \ {NoSession})

Running(t) ==
    /\ runs < MaxRuns /\ runs' = runs + 1
    /\ launching' = [launching EXCEPT ![t] = @ + 1]
    /\ result' = [result EXCEPT ![t] = NoSession]
    /\ queued' = [queued EXCEPT ![t] = NoSession]
    /\ windowLabel' = [windowLabel EXCEPT ![t] = FALSE]
    /\ UNCHANGED <<attaching, live, sessions, windowVars>>

startDesktopSession(t) ==
    /\ t \in unused
    /\ desktops' = desktops \cup {t} /\ unused' = unused \ {t}
    /\ UNCHANGED abandoned
    /\ Running(t)

\* The button is there in every state of the tab, while it launches too.  What an earlier
\* run has stored, or is about to store, is taken back.
retrySession(t) ==
    /\ t \in desktops
    /\ abandoned' = abandoned \cup ({result[t], queued[t]} \ {NoSession})
    /\ Running(t)
    /\ UNCHANGED <<desktops, unused>>

\* The tabs of the same React state.
ListOf(t) == {u \in Desktops : u \in RdpTabs <=> t \in RdpTabs}

\* removeRdpSessionsLocally, removeVncSessionsLocally: the new list is the ref without the
\* tabs, so that updates of its list that have not run are lost.
RemoveTabs(T, list) ==
    /\ desktops' = desktops \ T
    /\ queued' = [u \in Desktops |-> IF u \in list THEN NoSession ELSE queued[u]]
    /\ Abandon(queued, list)
    /\ UNCHANGED <<unused, result, windowLabel>>

\* An event to a window that does not listen is lost.
Sent(event) == IF window = "ready" THEN Append(toRunner, event) ELSE toRunner

closeSessions(t, notifyRunnerWindow) ==
    /\ pendingPayload' = [pendingPayload EXCEPT ![t] = NoSession]
    /\ IF t \notin desktops THEN UNCHANGED <<live, toRunner>>
       ELSE /\ live' = live \ {result[t]}
            /\ toRunner' = IF notifyRunnerWindow /\ windowLabel[t] THEN Sent(<<"close", t>>) ELSE toRunner
    /\ RemoveTabs({t}, ListOf(t))

CloseTab(t) ==
    /\ t \in desktops
    /\ closeSessions(t, TRUE)
    /\ UNCHANGED <<launching, attaching, sessions, runs, windowReady, window, windowTabs, toMain>>

\* listenRdpSessionClosed: the user closed the window of the session.
RdpSessionClosed(s) ==
    /\ s \in live
    /\ LET closed == {t \in desktops \cap RdpTabs : result[t] = s}
       IN closed # {} /\ RemoveTabs(closed, RdpTabs)
    /\ live' = live \ {s}
    /\ UNCHANGED <<launching, attaching, sessions, runs, windowVars>>

-----------------------------------------------------------------------------
(* runRdpSession, runVncSession: the answer of the launch *)

\* updateRdpSession, updateVncSession: React runs the updater at once only when no other one
\* of the same state waits.
Stores(t, s) ==
    \/ /\ \A u \in ListOf(t) : queued[u] = NoSession
       /\ Abandon(result, {t})
       /\ result' = [result EXCEPT ![t] = s] /\ windowLabel' = [windowLabel EXCEPT ![t] = t \in Windowed]
       /\ UNCHANGED queued
    \/ /\ Abandon(queued, {t})
       /\ queued' = [queued EXCEPT ![t] = s]
       /\ UNCHANGED <<result, windowLabel>>

\* React renders a list: the updaters that waited run.
Renders(list) ==
    /\ \E t \in list : queued[t] # NoSession
    /\ LET stored == {t \in list : queued[t] # NoSession}
       IN /\ Abandon(result, stored)
          /\ result' = [t \in Desktops |-> IF t \in stored THEN queued[t] ELSE result[t]]
          /\ windowLabel' = [t \in Desktops |-> IF t \in stored THEN t \in Windowed ELSE windowLabel[t]]
          /\ queued' = [t \in Desktops |-> IF t \in stored THEN NoSession ELSE queued[t]]
    /\ UNCHANGED <<desktops, unused, runVars, windowVars>>

\* openVncRunnerHostWindow up to its await: an existing window is taken for one that listens.
OpenHost(t, s) ==
    /\ pendingPayload' = [pendingPayload EXCEPT ![t] = s]
    /\ window' = IF window = "none" THEN "loading" ELSE window
    /\ windowReady' = (window # "none")
    /\ attaching' = attaching \cup {<<t, s, IF window = "none" THEN "create" ELSE "open">>}
    /\ UNCHANGED <<windowTabs, toRunner, toMain>>

LaunchReturns(t, s) ==
    /\ launching[t] > 0 /\ launching' = [launching EXCEPT ![t] = @ - 1]
    /\ sessions' = s
    /\ UNCHANGED <<desktops, unused, runs>>
    /\ IF t \notin desktops
       THEN UNCHANGED <<result, windowLabel, queued, attaching, live, windowVars, abandoned>>
       ELSE /\ live' = live \cup {s}
            /\ \/ t \notin Windowed /\ Stores(t, s) /\ UNCHANGED <<attaching, windowVars>>
               \/ t \in Windowed /\ OpenHost(t, s) /\ UNCHANGED <<result, windowLabel, queued, abandoned>>

LaunchFails(t) ==
    /\ launching[t] > 0 /\ launching' = [launching EXCEPT ![t] = @ - 1]
    /\ UNCHANGED <<tabVars, abandoned, attaching, live, sessions, runs, windowVars>>

-----------------------------------------------------------------------------
(* The runner window: the run goes on once the window was created or shown *)

HostOpened(t, s, at) ==
    /\ <<t, s, at>> \in attaching /\ at \in {"create", "open"}
    /\ attaching' = (attaching \ {<<t, s, at>>}) \cup {<<t, s, "sent">>}
    /\ IF windowReady
       THEN toRunner' = Sent(<<"payload", t, s>>) /\ pendingPayload' = [pendingPayload EXCEPT ![t] = NoSession]
       ELSE UNCHANGED <<toRunner, pendingPayload>>
    /\ UNCHANGED <<tabVars, launching, live, sessions, runs, windowReady, window, windowTabs, toMain, abandoned>>

HostAttached_Unchecked(t, s) ==
    /\ <<t, s, "sent">> \in attaching /\ attaching' = attaching \ {<<t, s, "sent">>}
    /\ Stores(t, s)
    /\ UNCHANGED <<desktops, unused, launching, live, sessions, runs, windowVars>>

\* The tab may be gone by now: then its session ends and the window is told.
HostAttached(t, s) ==
    /\ <<t, s, "sent">> \in attaching /\ attaching' = attaching \ {<<t, s, "sent">>}
    /\ IF t \in desktops
       THEN Stores(t, s) /\ UNCHANGED <<live, toRunner>>
       ELSE /\ live' = live \ {s}
            /\ toRunner' = Sent(<<"close", t>>)
            /\ UNCHANGED <<result, windowLabel, queued, abandoned>>
    /\ UNCHANGED <<desktops, unused, launching, sessions, runs, pendingPayload, windowReady, window, windowTabs, toMain>>

\* The window cannot be created: the payload stays pending.
HostFails(t, s) ==
    /\ <<t, s, "create">> \in attaching /\ attaching' = attaching \ {<<t, s, "create">>}
    /\ window = "loading" /\ window' = "none"
    /\ live' = live \ {s}
    /\ UNCHANGED <<tabVars, abandoned, launching, sessions, runs, pendingPayload, windowReady, windowTabs, toRunner, toMain>>

\* setupWindowEvents: from here on the window listens.
RunnerListens ==
    /\ window = "loading" /\ window' = "ready"
    /\ toMain' = Append(toMain, <<"ready">>)
    /\ UNCHANGED <<tabVars, runVars, pendingPayload, windowReady, windowTabs, toRunner, abandoned>>

CloseWindow ==
    /\ window' = "none" /\ windowTabs' = [t \in Desktops |-> NoSession] /\ toRunner' = <<>>

\* closeSession in the runner: an empty window closes.
WithoutTab(t, rest) ==
    LET tabs == [windowTabs EXCEPT ![t] = NoSession]
    IN IF \A u \in Desktops : tabs[u] = NoSession THEN CloseWindow
       ELSE windowTabs' = tabs /\ toRunner' = rest /\ UNCHANGED window

RunnerReceives ==
    /\ window = "ready" /\ toRunner # <<>>
    /\ LET event == Head(toRunner)
       IN \/ /\ event[1] = "payload"
             /\ windowTabs' = [windowTabs EXCEPT ![event[2]] = event[3]]
             /\ toRunner' = Tail(toRunner) /\ UNCHANGED window
          \/ event[1] = "close" /\ WithoutTab(event[2], Tail(toRunner))
    /\ UNCHANGED <<tabVars, runVars, pendingPayload, windowReady, toMain, abandoned>>

RunnerTabClosed(t) ==
    /\ windowTabs[t] # NoSession
    /\ WithoutTab(t, toRunner)
    /\ toMain' = Append(toMain, <<"closed", t>>)
    /\ UNCHANGED <<tabVars, runVars, pendingPayload, windowReady, abandoned>>

\* reportAllSessionsClosed
RunnerWindowClosed ==
    /\ window # "none"
    /\ CloseWindow
    /\ LET closed == SetToSeq({t \in Desktops : windowTabs[t] # NoSession})
       IN toMain' = toMain \o [i \in DOMAIN closed |-> <<"closed", closed[i]>>]
    /\ UNCHANGED <<tabVars, runVars, pendingPayload, windowReady, abandoned>>

\* VncViewerSurface reports that its session failed before it was connected.
ViewerFails(t) ==
    /\ windowTabs[t] # NoSession
    /\ toMain' = Append(toMain, <<"error", t>>) /\ Len(toMain) < MaxEvents
    /\ UNCHANGED <<tabVars, runVars, pendingPayload, windowReady, window, windowTabs, toRunner, abandoned>>

\* Every payload that still waits is sent.
MainReady ==
    /\ windowReady' = TRUE
    /\ LET waiting == SetToSeq({t \in Desktops : pendingPayload[t] # NoSession})
       IN toRunner' = IF window = "ready"
                      THEN toRunner \o [i \in DOMAIN waiting |-> <<"payload", waiting[i], pendingPayload[waiting[i]]>>]
                      ELSE toRunner
    /\ pendingPayload' = [t \in Desktops |-> NoSession]
    /\ UNCHANGED <<tabVars, live, abandoned>>

ViewerFailed(t) ==
    /\ IF t \in desktops THEN live' = live \ {result[t]} ELSE UNCHANGED live
    /\ UNCHANGED <<tabVars, pendingPayload, windowReady, toRunner, abandoned>>

MainReceives ==
    /\ toMain # <<>> /\ toMain' = Tail(toMain)
    /\ LET event == Head(toMain)
       IN \/ event[1] = "ready" /\ MainReady
          \/ event[1] = "closed" /\ closeSessions(event[2], FALSE) /\ UNCHANGED windowReady
          \/ event[1] = "error" /\ ViewerFailed(event[2])
    /\ UNCHANGED <<launching, attaching, sessions, runs, window, windowTabs>>

HostStep(t, s, at) == HostOpened(t, s, at) \/ HostAttached(t, s) \/ HostFails(t, s)

DesktopNext ==
    \/ \E t \in Desktops :
          \/ startDesktopSession(t) \/ retrySession(t) \/ CloseTab(t)
          \/ LaunchReturns(t, sessions + 1) \/ LaunchFails(t)
          \/ RunnerTabClosed(t) \/ ViewerFails(t)
    \/ \E s \in live : RdpSessionClosed(s)
    \/ \E t \in Desktops : Renders(ListOf(t))
    \/ \E run \in attaching : HostStep(run[1], run[2], run[3])
    \/ RunnerWindowClosed \/ RunnerListens \/ RunnerReceives \/ MainReceives

DesktopSpec == DesktopInit /\ [][DesktopNext]_desktopVars

-----------------------------------------------------------------------------
\* Every session of the backend belongs to an open tab, or to a run that still has to hand it
\* over or whose update React has yet to run: a tab closed while it launched, or while its
\* window opened, leaves none behind.  A retry does, which forgets the session the tab had,
\* and so does a close that comes before such an update.
SessionsAreOwned ==
    \A s \in live :
        \/ s \in abandoned
        \/ \E t \in desktops : s \in {result[t], queued[t]}
        \/ \E run \in attaching : run[2] = s
=============================================================================

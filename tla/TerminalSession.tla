--------------------------- MODULE TerminalSession ---------------------------
(***************************************************************************)
(* Terminal sessions from the tab that asks for one to the PTY that serves *)
(* it: the Rust TerminalManager (a map of open sessions, one reader task   *)
(* per session that emits terminal:state_changed when it ends), the        *)
(* WorkspaceShell tab collection that opens, hands over and closes         *)
(* sessions, and the TerminalPanel that shows one, listens for its end and *)
(* reconnects it in place.                                                 *)
(*                                                                         *)
(* The parts meet only through asynchronous calls (terminal_connect,       *)
(* terminal_close and their answers) and through events, and an answer and *)
(* an event of the same session may overtake one another.  A session is    *)
(* named by the connect request that opened it: request ids are fresh, so  *)
(* request_id and session_id name the same thing, and what differs is who  *)
(* has learnt the session_id yet.                                          *)
(***************************************************************************)
EXTENDS FiniteSets

CONSTANTS
    Tabs,       \* terminal tabs the user opens
    Linked,     \* the tabs whose panel has a connection profile to reconnect
    Sids,       \* connect requests, and the sessions they open
    EarlyEnds,  \* a session may end before a panel listens for its end
    None

ASSUME ConstantsAssumption ==
    /\ Linked \subseteq Tabs
    /\ EarlyEnds \in BOOLEAN
    /\ None \notin Sids \cup Tabs

VARIABLES
    \* the terminal_connect command of each request
    pc,         \* where it is
    role,       \* who awaits its answer: the shell or a panel
    by,         \* the tab it was made for
    \* the backend
    stored,     \* TerminalManager.sessions
    alive,      \* the sessions whose PTY or transport is up
    reader,     \* the reader task of each session
    closing,    \* terminal_close calls not yet run
    shutting,   \* sessions out of the map whose close() is not yet done
    events,     \* "closed" events emitted and not yet delivered
    \* the shell
    tab,        \* state of each tab in terminalTabsRef
    sid,        \* tab.sessionId in terminalTabsRef
    pend,       \* a setTerminalTabs updater that has not run yet: the session it records
    lost,       \* history: sessions whose updater was overwritten or found no tab
    \* the panels
    panel,      \* none, listening not ready yet, ready
    psid,       \* sessionIdRef
    preq,       \* activeRequestIdRef
    recon,      \* the reconnect request in progress
    prev,       \* previousSessionId, previousRequestId of that reconnect
    prevReq

callVars  == <<pc, role, by>>
backVars  == <<stored, alive, reader, closing, shutting, events>>
shellVars == <<tab, sid, pend, lost>>
panelVars == <<panel, psid, preq, recon, prev, prevReq>>
vars == <<callVars, backVars, shellVars, panelVars>>

Steps == {"unused", "open", "insert", "spawn", "ok", "err", "done"}

TypeOK ==
    /\ pc \in [Sids -> Steps]
    /\ role \in [Sids -> {"none", "shell", "panel"}]
    /\ by \in [Sids -> Tabs \cup {None}]
    /\ stored \subseteq Sids
    /\ alive \subseteq Sids
    /\ reader \in [Sids -> {"none", "running", "done"}]
    /\ closing \subseteq Sids
    /\ shutting \subseteq Sids
    /\ events \subseteq Sids
    /\ tab \in [Tabs -> {"none", "connecting", "terminal", "failed", "closed"}]
    /\ sid \in [Tabs -> Sids \cup {None}]
    /\ pend \in [Tabs -> Sids \cup {None}]
    /\ lost \subseteq Sids
    /\ panel \in [Tabs -> {"none", "mounting", "ready"}]
    /\ psid \in [Tabs -> Sids \cup {None}]
    /\ preq \in [Tabs -> Sids \cup {None}]
    /\ recon \in [Tabs -> Sids \cup {None}]
    /\ prev \in [Tabs -> Sids \cup {None}]
    /\ prevReq \in [Tabs -> Sids \cup {None}]

Init ==
    /\ pc = [a \in Sids |-> "unused"]
    /\ role = [a \in Sids |-> "none"]
    /\ by = [a \in Sids |-> None]
    /\ stored = {} /\ alive = {} /\ closing = {} /\ shutting = {} /\ events = {}
    /\ reader = [a \in Sids |-> "none"]
    /\ tab = [t \in Tabs |-> "none"]
    /\ sid = [t \in Tabs |-> None]
    /\ pend = [t \in Tabs |-> None]
    /\ lost = {}
    /\ panel = [t \in Tabs |-> "none"]
    /\ psid = [t \in Tabs |-> None]
    /\ preq = [t \in Tabs |-> None]
    /\ recon = [t \in Tabs |-> None]
    /\ prev = [t \in Tabs |-> None]
    /\ prevReq = [t \in Tabs |-> None]

-----------------------------------------------------------------------------
(* The backend: TerminalManager::connect*, close and the reader tasks.     *)

\* A fresh request: terminalConnect (or the local, telnet and serial openers)
\* is invoked for tab t and awaited by who.  Which of the unused ids it gets is
\* immaterial.
Call(a, t, who) ==
    /\ pc[a] = "unused" /\ a = CHOOSE b \in Sids : pc[b] = "unused"
    /\ pc' = [pc EXCEPT ![a] = "open"]
    /\ role' = [role EXCEPT ![a] = who]
    /\ by' = [by EXCEPT ![a] = t]

\* connect awaits the open, stores the session, then spawns its reader, so the
\* reader never ends before there is an entry for it to remove.
StepAfter_SpawnFirst(step) ==
    [open |-> "spawn", spawn |-> "insert", insert |-> "ok"][step]

StepAfter(step) ==
    [open |-> "insert", insert |-> "spawn", spawn |-> "ok"][step]

SessionOpens(a) ==
    /\ pc[a] = "open"
    /\ pc' = [pc EXCEPT ![a] = StepAfter("open")]
    /\ alive' = alive \cup {a}
    /\ UNCHANGED <<role, by, stored, reader, closing, shutting, events,
                   shellVars, panelVars>>

\* validate_connect_request or the open itself returns an error.
OpenFails(a) ==
    /\ pc[a] = "open"
    /\ pc' = [pc EXCEPT ![a] = "err"]
    /\ UNCHANGED <<role, by, backVars, shellVars, panelVars>>

InsertSession(a) ==
    /\ pc[a] = "insert"
    /\ pc' = [pc EXCEPT ![a] = StepAfter("insert")]
    /\ stored' = stored \cup {a}
    /\ UNCHANGED <<role, by, alive, reader, closing, shutting, events,
                   shellVars, panelVars>>

SpawnReader(a) ==
    /\ pc[a] = "spawn"
    /\ pc' = [pc EXCEPT ![a] = StepAfter("spawn")]
    /\ reader' = [reader EXCEPT ![a] = "running"]
    /\ UNCHANGED <<role, by, stored, alive, closing, shutting, events,
                   shellVars, panelVars>>

\* The shell exits, the device goes away or the link drops.  EarlyEnds = FALSE
\* is the timing assumption that a session outlasts its hand-over to a panel.
RemoteEnds(a) ==
    /\ a \in alive
    /\ EarlyEnds \/ (pc[a] = "done" /\ panel[by[a]] = "ready")
    /\ alive' = alive \ {a}
    /\ UNCHANGED <<callVars, stored, reader, closing, shutting, events,
                   shellVars, panelVars>>

\* The reader's loop breaks; it removes its own entry and emits "closed".
ReaderEnds(a) ==
    /\ reader[a] = "running"
    /\ a \notin alive
    /\ reader' = [reader EXCEPT ![a] = "done"]
    /\ stored' = stored \ {a}
    /\ events' = events \cup {a}
    /\ UNCHANGED <<callVars, alive, closing, shutting, shellVars, panelVars>>

\* TerminalManager::close takes the session out of the map, or answers
\* terminal_session_missing, which every caller ignores.
ManagerClose(a) ==
    /\ a \in closing
    /\ closing' = closing \ {a}
    /\ stored' = stored \ {a}
    /\ shutting' = IF a \in stored THEN shutting \cup {a} ELSE shutting
    /\ UNCHANGED <<callVars, alive, reader, events, shellVars, panelVars>>

\* ... and then closes the channel, the child process or the port.
SessionCloses(a) ==
    /\ a \in shutting
    /\ shutting' = shutting \ {a}
    /\ alive' = alive \ {a}
    /\ UNCHANGED <<callVars, stored, reader, closing, events, shellVars, panelVars>>

-----------------------------------------------------------------------------
(* The shell: tabs are opened, handed a session and closed.                *)

\* setTerminalTabs is called in two ways.  With an updater, which React runs at
\* once when it has no other update of the tabs to run, and else at the next
\* render; the updater is also what writes terminalTabsRef.
UpToDate == \A t \in Tabs : pend[t] = None

\* And with a list computed from terminalTabsRef: the updaters still waiting, of
\* whichever tab, run first and the list replaces what they recorded.
SetTabs ==
    /\ pend' = [t \in Tabs |-> None]
    /\ lost' = lost \cup ({pend[t] : t \in Tabs} \ {None})

\* openLocalTerminalByProfile, startConnectionStep and the retry buttons, which
\* only a failed tab shows, add the tab with an updater, openTerminalInConnection
\* with a list.
OpenTab(t, a) ==
    /\ tab[t] \in {"none", "failed"}
    /\ tab' = [tab EXCEPT ![t] = "connecting"]
    /\ \/ UNCHANGED <<pend, lost>>
       \/ tab[t] = "none" /\ SetTabs
    /\ Call(a, t, "shell")
    /\ UNCHANGED <<backVars, sid, panelVars>>

\* connectingTabExists, terminalTabExists, localTerminalTabExists.
TabExists(t) == tab[t] = "connecting"

\* The answer to the shell: the session becomes the tab's, or is closed when the
\* tab is gone.  The tab changes inside a setTerminalTabs updater.
HandOff(t, a) ==
    /\ role[a] = "shell" /\ by[a] = t /\ pc[a] = "ok"
    /\ pc' = [pc EXCEPT ![a] = "done"]
    /\ \/ /\ ~TabExists(t)
          /\ closing' = closing \cup {a}
          /\ UNCHANGED shellVars
       \/ /\ TabExists(t) /\ UpToDate
          /\ tab' = [tab EXCEPT ![t] = "terminal"]
          /\ sid' = [sid EXCEPT ![t] = a]
          /\ UNCHANGED <<pend, lost, closing>>
       \/ /\ TabExists(t)
          /\ pend' = [pend EXCEPT ![t] = a]
          /\ UNCHANGED <<tab, sid, lost, closing>>
    /\ UNCHANGED <<role, by, stored, alive, reader, shutting, events, panelVars>>

OpenTabFails(t, a) ==
    /\ role[a] = "shell" /\ by[a] = t /\ pc[a] = "err"
    /\ pc' = [pc EXCEPT ![a] = "done"]
    /\ tab' = IF TabExists(t) THEN [tab EXCEPT ![t] = "failed"] ELSE tab
    /\ UNCHANGED <<role, by, backVars, sid, pend, lost, panelVars>>

\* A panel that unmounts stops its listeners; a reconnect it started goes on
\* without it.
Unmounted(gone) ==
    LET without(f) == [t \in Tabs |-> IF t \in gone THEN None ELSE f[t]]
    IN  /\ panel' = [t \in Tabs |-> IF t \in gone THEN "none" ELSE panel[t]]
        /\ psid' = without(psid)
        /\ preq' = without(preq)
        /\ recon' = without(recon)
        /\ prev' = without(prev)
        /\ prevReq' = without(prevReq)

\* closeRuntimeTerminalSessions: the session the tab collection knows of.
SessionsOf_Shown(t) == {psid[t]} \ {None}

SessionsOf(t) == {sid[t]} \ {None}

\* closeTerminalTabs, closeLocalTerminalTabs, closeConnectionSessions and
\* deleteConnection: close the runtime session the ref knows of and write the list
\* without the tab.  The panel unmounts when React commits.
CloseTab(t) ==
    /\ tab[t] \in {"connecting", "terminal", "failed"}
    /\ closing' = closing \cup SessionsOf(t)
    /\ tab' = [tab EXCEPT ![t] = "closed"]
    /\ sid' = [sid EXCEPT ![t] = None]
    /\ SetTabs
    /\ UNCHANGED <<callVars, stored, alive, reader, shutting, events, panelVars>>

\* React renders: the updaters run, the panels of closed tabs unmount.
ClosedTabs == {t \in Tabs : tab[t] = "closed"}

Commit ==
    /\ ~UpToDate \/ \E t \in ClosedTabs : panel[t] # "none"
    /\ tab' = [t \in Tabs |-> IF pend[t] # None THEN "terminal" ELSE tab[t]]
    /\ sid' = [t \in Tabs |-> IF pend[t] # None THEN pend[t] ELSE sid[t]]
    /\ pend' = [t \in Tabs |-> None]
    /\ Unmounted(ClosedTabs)
    /\ UNCHANGED <<callVars, backVars, lost>>

-----------------------------------------------------------------------------
(* The panel: mount, listen, show the end of the session, reconnect.       *)

\* TerminalPanel mounts once the tab has a session (its chunk is loaded lazily)
\* and starts to register its listeners.
Mount(t) ==
    /\ tab[t] = "terminal" /\ panel[t] = "none"
    /\ panel' = [panel EXCEPT ![t] = "mounting"]
    /\ psid' = [psid EXCEPT ![t] = sid[t]]
    /\ preq' = [preq EXCEPT ![t] = sid[t]]
    /\ UNCHANGED <<callVars, backVars, shellVars, recon, prev, prevReq>>

ListenersReady(t) ==
    /\ panel[t] = "mounting"
    /\ panel' = [panel EXCEPT ![t] = "ready"]
    /\ UNCHANGED <<callVars, backVars, shellVars, psid, preq, recon, prev, prevReq>>

matchesTerminalEvent_ByTab(a, t) == by[a] = t

matchesTerminalEvent(a, t) == a = psid[t] \/ a = preq[t]

\* The "closed" event of session a reaches the web view: every panel that
\* listens and matches it shows the disconnect.  While a panel registers its
\* three listeners the state listener may or may not be among those in place.
DeliverClosed(a) ==
    /\ a \in events
    /\ events' = events \ {a}
    /\ \E listening \in {{t \in Tabs : panel[t] = "ready"},
                         {t \in Tabs : panel[t] # "none"}} :
          psid' = [t \in Tabs |-> IF t \in listening /\ matchesTerminalEvent(a, t)
                                    THEN None ELSE psid[t]]
    /\ UNCHANGED <<callVars, stored, alive, reader, closing, shutting, shellVars,
                   panel, preq, recon, prev, prevReq>>

\* reconnectCurrentTerminal, from the context menu at any time or from Enter in
\* a disconnected terminal.
Reconnect(t, a) ==
    /\ t \in Linked /\ panel[t] = "ready" /\ recon[t] = None
    /\ Call(a, t, "panel")
    /\ recon' = [recon EXCEPT ![t] = a]
    /\ prev' = [prev EXCEPT ![t] = psid[t]]
    /\ prevReq' = [prevReq EXCEPT ![t] = preq[t]]
    /\ psid' = [psid EXCEPT ![t] = None]
    /\ preq' = [preq EXCEPT ![t] = a]
    /\ UNCHANGED <<backVars, shellVars, panel>>

Settled(t) ==
    /\ recon' = [recon EXCEPT ![t] = None]
    /\ prev' = [prev EXCEPT ![t] = None]
    /\ prevReq' = [prevReq EXCEPT ![t] = None]

\* updateTerminalRuntimeSession: an updater again, which leaves a tab that is no
\* longer in the collection alone.
UpdateRuntimeSession_Skipped(t, a) == UNCHANGED shellVars

UpdateRuntimeSession(t, a) ==
    \/ /\ tab[t] = "terminal" /\ UpToDate
       /\ sid' = [sid EXCEPT ![t] = a]
       /\ UNCHANGED <<tab, pend, lost>>
    \/ /\ tab[t] = "terminal"
       /\ pend' = [pend EXCEPT ![t] = a]
       /\ UNCHANGED <<tab, sid, lost>>
    \/ /\ tab[t] # "terminal"
       /\ lost' = lost \cup {a}
       /\ UNCHANGED <<tab, sid, pend>>

\* The answer to a reconnect: the panel takes the new session over, tells the
\* shell and closes the previous one.
ReconnectSucceeds(t, a) ==
    /\ recon[t] = a /\ pc[a] = "ok"
    /\ pc' = [pc EXCEPT ![a] = "done"]
    /\ psid' = [psid EXCEPT ![t] = a]
    /\ UpdateRuntimeSession(t, a)
    /\ closing' = closing \cup ({prev[t]} \ {None})
    /\ Settled(t)
    /\ UNCHANGED <<role, by, stored, alive, reader, shutting, events, panel, preq>>

\* A failed reconnect puts the previous session and request back.
ReconnectFails(t, a) ==
    /\ recon[t] = a /\ pc[a] = "err"
    /\ pc' = [pc EXCEPT ![a] = "done"]
    /\ psid' = [psid EXCEPT ![t] = prev[t]]
    /\ preq' = [preq EXCEPT ![t] = prevReq[t]]
    /\ Settled(t)
    /\ UNCHANGED <<role, by, backVars, shellVars, panel>>

\* The answer finds the panel that asked unmounted (terminalRef.current is no
\* longer its terminal): a session that opened is closed again.
OrphanAnswer_Leaves(t, a) ==
    /\ role[a] = "panel" /\ by[a] = t /\ recon[t] # a
    /\ pc[a] \in {"ok", "err"}
    /\ pc' = [pc EXCEPT ![a] = "done"]
    /\ UNCHANGED <<role, by, backVars, shellVars, panelVars>>

OrphanAnswer(t, a) ==
    /\ role[a] = "panel" /\ by[a] = t /\ recon[t] # a
    /\ pc[a] \in {"ok", "err"}
    /\ pc' = [pc EXCEPT ![a] = "done"]
    /\ closing' = IF pc[a] = "ok" THEN closing \cup {a} ELSE closing
    /\ UNCHANGED <<role, by, stored, alive, reader, shutting, events,
                   shellVars, panelVars>>

-----------------------------------------------------------------------------
Backend(a) ==
    \/ SessionOpens(a) \/ OpenFails(a) \/ InsertSession(a) \/ SpawnReader(a)
    \/ ReaderEnds(a) \/ ManagerClose(a) \/ SessionCloses(a)

Answer(t, a) ==
    \/ HandOff(t, a) \/ OpenTabFails(t, a)
    \/ ReconnectSucceeds(t, a) \/ ReconnectFails(t, a) \/ OrphanAnswer(t, a)

Next ==
    \/ \E a \in Sids : Backend(a) \/ RemoteEnds(a) \/ DeliverClosed(a)
    \/ Commit
    \/ \E t \in Tabs :
          \/ CloseTab(t) \/ Mount(t) \/ ListenersReady(t)
          \/ \E a \in Sids : OpenTab(t, a) \/ Reconnect(t, a) \/ Answer(t, a)

Spec == Init /\ [][Next]_vars

\* A connect ends (every opener has a timeout), spawned tasks and calls run,
\* answers and events are delivered, React renders.  Nothing makes the user act
\* or the remote end.
FairSpec ==
    /\ Spec /\ WF_vars(Commit)
    /\ \A a \in Sids : WF_vars(Backend(a)) /\ WF_vars(DeliverClosed(a))
    /\ \A t \in Tabs :
          /\ WF_vars(ListenersReady(t)) /\ WF_vars(Mount(t))
          /\ \A a \in Sids : WF_vars(Answer(t, a))

-----------------------------------------------------------------------------
(* Properties.                                                             *)

\* Every entry of the manager's map has a reader that will remove it: connect
\* stores the session before it spawns the reader, so a session that ends at once
\* leaves no dead entry behind.
StoredIsRead ==
    \A a \in stored : reader[a] = "running" \/ pc[a] = "spawn"

\* No session is left running with nobody to close it: an open session belongs to
\* a tab that closes it with itself, or is about to be closed, or its opener has
\* yet to look at the answer, or an updater will hand it to its tab ("The tab close
\* flow reclaims terminal sessions", the panel's unmount cleanup relies on it).
\* The only way to lose one is a tab update that React drops: see SetTabs and the
\* last case of UpdateRuntimeSession.
OpenIsOwned ==
    \A a \in (alive \cup stored) \ lost :
        \/ pc[a] # "done"
        \/ a \in closing \cup shutting
        \/ \E t \in Tabs :
              \/ tab[t] = "terminal" /\ sid[t] = a
              \/ tab[t] # "closed" /\ pend[t] = a

\* The session a settled panel shows is the one the tab collection holds, or is
\* about to hold, the one the command sender and MultiExec write to and the tab
\* close flow closes, unless React dropped the update that records it.
PanelAndTabAgree ==
    \A t \in Tabs \ ClosedTabs :
        panel[t] # "none" /\ recon[t] = None /\ psid[t] # None
        => \/ psid[t] = (IF pend[t] # None THEN pend[t] ELSE sid[t])
           \/ psid[t] \in lost

\* A "closed" event disconnects a panel only when the session that panel shows
\* has ended: the late event of the PTY a reconnect replaced is ignored.
StaleCloseIgnored ==
    [][\A t \in Tabs :
          psid[t] # None /\ psid'[t] = None
             /\ recon'[t] = recon[t] /\ panel'[t] # "none"
          => reader[psid[t]] = "done"]_vars

\* Closing a tab releases every session ever opened for it, those still being
\* opened or reconnected included, but for one whose update React dropped.
Gone(t) ==
    \A a \in Sids : by[a] = t => pc[a] = "done" /\ a \notin (alive \cup stored) \ lost

ClosedTabReleases == \A t \in Tabs : tab[t] = "closed" ~> Gone(t)

=============================================================================

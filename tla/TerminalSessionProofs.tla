------------------------ MODULE TerminalSessionProofs ------------------------
(***************************************************************************)
(* Proofs about TerminalSession for every number of tabs and sessions.     *)
(*                                                                         *)
(* The invariants are stacked: TypeOK, then what holds between a connect   *)
(* request and the backend (BackInv), then what a panel knows of its       *)
(* session (PanelInv), then which request of the shell a tab waits for     *)
(* (ShellInv), then who owns a session (OwnInv).  Each is shown to be      *)
(* preserved by one step from itself and the ones below it.                *)
(***************************************************************************)
EXTENDS TerminalSession, TLAPS

\* What the state of a connect request says about the session it opens.
BackInv ==
    /\ \A a \in Sids :
          /\ pc[a] # "unused" => by[a] \in Tabs
          /\ a \in alive => pc[a] \notin {"unused", "open", "err"} /\ reader[a] # "done"
          /\ a \in stored => pc[a] \in {"spawn", "ok", "done"}
          /\ reader[a] # "none" => pc[a] \in {"ok", "done"}
          /\ a \in alive /\ pc[a] \in {"spawn", "ok", "done"} => a \in stored \cup shutting
          /\ a \in shutting => a \notin stored /\ pc[a] \in {"spawn", "ok", "done"}
          /\ a \in events => reader[a] = "done"
    /\ StoredIsRead

\* A panel's session and request ids name the same session, and so do the ones a
\* reconnect would put back; while it reconnects the panel shows no session.
PanelInv ==
    \A t \in Tabs :
        /\ psid[t] # None => preq[t] = psid[t]
        /\ prev[t] # None => prevReq[t] = prev[t]
        /\ recon[t] # None => psid[t] = None /\ preq[t] = recon[t] /\ panel[t] # "none"
        /\ recon[t] = None => prev[t] = None
        /\ panel[t] = "none" => psid[t] = None

\* The connect request a tab waits for: one that the shell made for it and whose
\* answer it has not looked at.
Awaited(a, t) == role[a] = "shell" /\ by[a] = t /\ pc[a] # "done"

\* A tab waits for one request at most, and has no update waiting while it does: a
\* second answer would replace the session that update records.
ShellInv ==
    /\ \A a \in Sids : pc[a] = "unused" => role[a] = "none"
    /\ \A t \in Tabs : pend[t] # None => tab[t] \in {"connecting", "terminal"}
    /\ \A t \in Tabs : \A a \in Sids :
          Awaited(a, t) => /\ tab[t] \in {"connecting", "closed"}
                           /\ pend[t] = None
                           /\ \A b \in Sids : Awaited(b, t) => a = b \/ tab[t] = "closed"

\* The session the tab collection will hold once React has rendered.
Held(t) == IF pend[t] # None THEN pend[t] ELSE sid[t]

\* A session nobody has to close any more.
Released(a) == a \in closing \cup shutting \cup lost \/ a \notin alive \cup stored

\* Who holds a session: a panel is mounted for a tab that has a session, and the
\* session of that tab is the one it shows, the one it would fall back to, or one
\* that is released.  The same holds of a session that a waiting update replaces.
OwnInv ==
    /\ OpenIsOwned
    /\ \A t \in Tabs :
          /\ pend[t] # None => pc[pend[t]] = "done"
          /\ sid[t] # None => pc[sid[t]] = "done"
          /\ tab[t] \notin {"terminal", "closed"} => panel[t] = "none"
          /\ tab[t] # "terminal" => sid[t] = None
          /\ tab[t] = "terminal" => sid[t] # None
          /\ tab[t] = "terminal" /\ pend[t] # None => panel[t] # "none" /\ Released(sid[t])
    /\ \A t \in Tabs \ ClosedTabs :
          /\ psid[t] # None => psid[t] = Held(t) \/ psid[t] \in lost
          /\ prev[t] # None => prev[t] = Held(t) \/ prev[t] \in lost
          /\ panel[t] # "none" => psid[t] = Held(t) \/ prev[t] = Held(t) \/ Released(Held(t))

-----------------------------------------------------------------------------
(* Type correctness.                                                       *)

LEMMA TypeInit == Init => TypeOK
BY ConstantsAssumption DEF Init, TypeOK, Steps

LEMMA TypeStep == TypeOK /\ [Next]_vars => TypeOK'
<1> SUFFICES ASSUME TypeOK, [Next]_vars PROVE TypeOK'
    OBVIOUS
<1> USE ConstantsAssumption DEF TypeOK, Steps, callVars, backVars, shellVars, panelVars
<1>1. ASSUME NEW a \in Sids, Backend(a) PROVE TypeOK'
      BY <1>1 DEF Backend, SessionOpens, OpenFails, InsertSession, SpawnReader, StepAfter,
                  ReaderEnds, ManagerClose, SessionCloses
<1>2. ASSUME NEW a \in Sids, RemoteEnds(a) PROVE TypeOK'
      BY <1>2 DEF RemoteEnds
<1>3. ASSUME NEW a \in Sids, DeliverClosed(a) PROVE TypeOK'
      BY <1>3 DEF DeliverClosed
<1>4. ASSUME NEW t \in Tabs, CloseTab(t) PROVE TypeOK'
      BY <1>4 DEF CloseTab, SetTabs, SessionsOf
<1>5. ASSUME Commit PROVE TypeOK'
      BY <1>5 DEF Commit, ClosedTabs, Unmounted
<1>6. ASSUME NEW t \in Tabs, Mount(t) \/ ListenersReady(t) PROVE TypeOK'
      BY <1>6 DEF Mount, ListenersReady
<1>7. ASSUME NEW t \in Tabs, NEW a \in Sids, OpenTab(t, a) PROVE TypeOK'
      BY <1>7 DEF OpenTab, SetTabs, Call
<1>8. ASSUME NEW t \in Tabs, NEW a \in Sids, Reconnect(t, a) PROVE TypeOK'
      BY <1>8 DEF Reconnect, Call
<1>9. ASSUME NEW t \in Tabs, NEW a \in Sids, HandOff(t, a) PROVE TypeOK'
      BY <1>9 DEF HandOff
<1>10. ASSUME NEW t \in Tabs, NEW a \in Sids, OpenTabFails(t, a) PROVE TypeOK'
      BY <1>10 DEF OpenTabFails
<1>11. ASSUME NEW t \in Tabs, NEW a \in Sids, ReconnectSucceeds(t, a) PROVE TypeOK'
      BY <1>11 DEF ReconnectSucceeds, UpdateRuntimeSession, Settled
<1>12. ASSUME NEW t \in Tabs, NEW a \in Sids, ReconnectFails(t, a) PROVE TypeOK'
      BY <1>12 DEF ReconnectFails, Settled
<1>13. ASSUME NEW t \in Tabs, NEW a \in Sids, OrphanAnswer(t, a) PROVE TypeOK'
      BY <1>13 DEF OrphanAnswer
<1>14. CASE UNCHANGED vars
      BY <1>14 DEF vars
<1> QED
    BY <1>1, <1>2, <1>3, <1>4, <1>5, <1>6, <1>7, <1>8, <1>9, <1>10, <1>11, <1>12,
       <1>13, <1>14 DEF Next, Answer

\* Every variable keeps its type.
THEOREM TypeCorrect == Spec => []TypeOK
BY TypeInit, TypeStep, PTL DEF Spec

-----------------------------------------------------------------------------
(* The backend.                                                            *)

LEMMA BackInit == Init => BackInv
BY DEF Init, BackInv, StoredIsRead

\* The steps that leave the requests and the backend alone keep BackInv.
LEMMA BackStutter == BackInv /\ UNCHANGED <<callVars, stored, alive, reader, shutting, events>>
                     => BackInv'
BY DEF BackInv, StoredIsRead, callVars

LEMMA BackStep == TypeOK /\ BackInv /\ [Next]_vars => BackInv'
<1> SUFFICES ASSUME TypeOK, BackInv, [Next]_vars PROVE BackInv'
    OBVIOUS
<1> USE ConstantsAssumption DEF TypeOK, Steps, BackInv, StoredIsRead
<1>1. ASSUME NEW a \in Sids, SessionOpens(a) PROVE BackInv'
      BY <1>1 DEF SessionOpens, StepAfter
<1>2. ASSUME NEW a \in Sids, OpenFails(a) PROVE BackInv'
      BY <1>2 DEF OpenFails, backVars
<1>3. ASSUME NEW a \in Sids, InsertSession(a) PROVE BackInv'
      BY <1>3 DEF InsertSession, StepAfter
<1>4. ASSUME NEW a \in Sids, SpawnReader(a) PROVE BackInv'
      BY <1>4 DEF SpawnReader, StepAfter
<1>5. ASSUME NEW a \in Sids, ReaderEnds(a) PROVE BackInv'
      BY <1>5 DEF ReaderEnds, callVars
<1>6. ASSUME NEW a \in Sids, ManagerClose(a) PROVE BackInv'
      BY <1>6 DEF ManagerClose, callVars
<1>7. ASSUME NEW a \in Sids, SessionCloses(a) PROVE BackInv'
      BY <1>7 DEF SessionCloses, callVars
<1>8. ASSUME NEW a \in Sids, RemoteEnds(a) PROVE BackInv'
      BY <1>8 DEF RemoteEnds, callVars
<1>9. ASSUME NEW a \in Sids, DeliverClosed(a) PROVE BackInv'
      BY <1>9 DEF DeliverClosed, callVars
<1>10. ASSUME NEW t \in Tabs, CloseTab(t) \/ Mount(t) \/ ListenersReady(t)
       PROVE  BackInv'
      BY <1>10, BackStutter DEF CloseTab, Mount, ListenersReady, callVars, backVars
<1>18. ASSUME Commit PROVE BackInv'
      BY <1>18, BackStutter DEF Commit, backVars
<1>11. ASSUME NEW t \in Tabs, NEW a \in Sids, OpenTab(t, a) \/ Reconnect(t, a)
       PROVE  BackInv'
      BY <1>11 DEF OpenTab, Reconnect, Call, backVars
<1>12. ASSUME NEW t \in Tabs, NEW a \in Sids, HandOff(t, a) PROVE BackInv'
      BY <1>12 DEF HandOff
<1>13. ASSUME NEW t \in Tabs, NEW a \in Sids, OpenTabFails(t, a) PROVE BackInv'
      BY <1>13 DEF OpenTabFails, backVars
<1>14. ASSUME NEW t \in Tabs, NEW a \in Sids, ReconnectSucceeds(t, a) PROVE BackInv'
      BY <1>14 DEF ReconnectSucceeds
<1>15. ASSUME NEW t \in Tabs, NEW a \in Sids, ReconnectFails(t, a) PROVE BackInv'
      BY <1>15 DEF ReconnectFails, backVars
<1>16. ASSUME NEW t \in Tabs, NEW a \in Sids, OrphanAnswer(t, a) PROVE BackInv'
      BY <1>16 DEF OrphanAnswer
<1>17. CASE UNCHANGED vars
      BY <1>17, BackStutter DEF vars, backVars
<1> QED
    BY <1>1, <1>2, <1>3, <1>4, <1>5, <1>6, <1>7, <1>8, <1>9, <1>10, <1>11, <1>12,
       <1>13, <1>14, <1>15, <1>16, <1>17, <1>18 DEF Next, Backend, Answer

\* No entry of the manager's map is ever without a reader that removes it,
\* whatever the interleaving of connects, closes and ends.
THEOREM NoDeadEntry == Spec => []StoredIsRead
<1>1. Init => TypeOK /\ BackInv
      BY TypeInit, BackInit
<1>2. TypeOK /\ BackInv /\ [Next]_vars => TypeOK' /\ BackInv'
      BY TypeStep, BackStep
<1>3. BackInv => StoredIsRead
      BY DEF BackInv
<1> QED
    BY <1>1, <1>2, <1>3, PTL DEF Spec

-----------------------------------------------------------------------------
(* The panel.                                                              *)

LEMMA PanelInit == Init => PanelInv
BY DEF Init, PanelInv

LEMMA PanelStep == TypeOK /\ PanelInv /\ [Next]_vars => PanelInv'
<1> SUFFICES ASSUME TypeOK, PanelInv, [Next]_vars PROVE PanelInv'
    OBVIOUS
<1> USE ConstantsAssumption DEF TypeOK, PanelInv
<1>1. ASSUME UNCHANGED panelVars PROVE PanelInv'
      BY <1>1 DEF panelVars
<1>2. ASSUME NEW gone \in SUBSET Tabs, Unmounted(gone) PROVE PanelInv'
      BY <1>2 DEF Unmounted
<1>3. ASSUME NEW a \in Sids, Backend(a) \/ RemoteEnds(a) PROVE PanelInv'
      BY <1>1, <1>3 DEF Backend, RemoteEnds, SessionOpens, OpenFails, InsertSession,
         SpawnReader, ReaderEnds, ManagerClose, SessionCloses
<1>4. ASSUME NEW a \in Sids, DeliverClosed(a) PROVE PanelInv'
      BY <1>4 DEF DeliverClosed
<1>5. ASSUME NEW t \in Tabs, CloseTab(t) PROVE PanelInv'
      BY <1>1, <1>5 DEF CloseTab
<1>13. ASSUME Commit PROVE PanelInv'
      BY <1>2, <1>13 DEF Commit, ClosedTabs
<1>6. ASSUME NEW t \in Tabs, Mount(t) PROVE PanelInv'
      BY <1>6 DEF Mount
<1>7. ASSUME NEW t \in Tabs, ListenersReady(t) PROVE PanelInv'
      BY <1>7 DEF ListenersReady
<1>8. ASSUME NEW t \in Tabs, NEW a \in Sids, OpenTab(t, a) \/ HandOff(t, a)
                  \/ OpenTabFails(t, a) \/ OrphanAnswer(t, a)
      PROVE  PanelInv'
      BY <1>1, <1>8 DEF OpenTab, HandOff, OpenTabFails, OrphanAnswer
<1>9. ASSUME NEW t \in Tabs, NEW a \in Sids, Reconnect(t, a) PROVE PanelInv'
      BY <1>9 DEF Reconnect
<1>10. ASSUME NEW t \in Tabs, NEW a \in Sids, ReconnectSucceeds(t, a) PROVE PanelInv'
      BY <1>10 DEF ReconnectSucceeds, Settled
<1>11. ASSUME NEW t \in Tabs, NEW a \in Sids, ReconnectFails(t, a) PROVE PanelInv'
      BY <1>11 DEF ReconnectFails, Settled
<1>12. CASE UNCHANGED vars
      BY <1>1, <1>12 DEF vars
<1> QED
    BY <1>3, <1>4, <1>5, <1>6, <1>7, <1>8, <1>9, <1>10, <1>11, <1>12,
       <1>13 DEF Next, Answer

\* A panel loses the session it shows to a "closed" event only when that session's
\* reader has ended, because the two ids it matches events by name one session.
LEMMA StaleStep ==
    TypeOK /\ BackInv /\ PanelInv /\ [Next]_vars
    => [\A t \in Tabs :
          psid[t] # None /\ psid'[t] = None
             /\ recon'[t] = recon[t] /\ panel'[t] # "none"
          => reader[psid[t]] = "done"]_vars
<1> SUFFICES ASSUME TypeOK, BackInv, PanelInv, Next,
                    NEW t \in Tabs, psid[t] # None, psid'[t] = None,
                    recon'[t] = recon[t], panel'[t] # "none"
             PROVE  reader[psid[t]] = "done"
    BY DEF vars, panelVars
<1> USE ConstantsAssumption DEF TypeOK, PanelInv
<1>1. ASSUME NEW a \in Sids, DeliverClosed(a) PROVE reader[psid[t]] = "done"
      <2>1. a = psid[t]
            BY <1>1 DEF DeliverClosed, matchesTerminalEvent
      <2>2. reader[a] = "done"
            BY <1>1 DEF DeliverClosed, BackInv
      <2> QED
          BY <2>1, <2>2
<1>2. ASSUME UNCHANGED panelVars PROVE FALSE
      BY <1>2 DEF panelVars
<1>3. ASSUME NEW a \in Sids, Backend(a) \/ RemoteEnds(a) PROVE FALSE
      BY <1>2, <1>3 DEF Backend, RemoteEnds, SessionOpens, OpenFails, InsertSession,
         SpawnReader, ReaderEnds, ManagerClose, SessionCloses
<1>4. ASSUME NEW u \in Tabs, CloseTab(u) \/ Commit PROVE FALSE
      BY <1>2, <1>4 DEF CloseTab, Commit, ClosedTabs, Unmounted
<1>5. ASSUME NEW u \in Tabs, Mount(u) \/ ListenersReady(u) PROVE FALSE
      <2>1. CASE ListenersReady(u)
            BY <2>1 DEF ListenersReady
      <2>2. CASE Mount(u)
            BY <2>2 DEF Mount, PanelInv
      <2> QED
          BY <1>5, <2>1, <2>2
<1>6. ASSUME NEW u \in Tabs, NEW a \in Sids, OpenTab(u, a) \/ HandOff(u, a)
                  \/ OpenTabFails(u, a) \/ OrphanAnswer(u, a)
      PROVE  FALSE
      BY <1>2, <1>6 DEF OpenTab, HandOff, OpenTabFails, OrphanAnswer
<1>7. ASSUME NEW u \in Tabs, NEW a \in Sids, Reconnect(u, a) PROVE FALSE
      BY <1>7 DEF Reconnect
<1>8. ASSUME NEW u \in Tabs, NEW a \in Sids, ReconnectSucceeds(u, a) PROVE FALSE
      BY <1>8 DEF ReconnectSucceeds
<1>9. ASSUME NEW u \in Tabs, NEW a \in Sids, ReconnectFails(u, a) PROVE FALSE
      BY <1>9 DEF ReconnectFails
<1> QED
    BY <1>1, <1>3, <1>4, <1>5, <1>6, <1>7, <1>8, <1>9 DEF Next, Answer

\* The late "closed" event of a session that a reconnect replaced never marks the
\* reconnected panel disconnected, for any number of tabs and reconnects and
\* however late React applies a tab update.
THEOREM StaleCloseNeverDisconnects == Spec => StaleCloseIgnored
<1>1. Init => TypeOK /\ BackInv /\ PanelInv
      BY TypeInit, BackInit, PanelInit
<1>2. TypeOK /\ BackInv /\ PanelInv /\ [Next]_vars => TypeOK' /\ BackInv' /\ PanelInv'
      BY TypeStep, BackStep, PanelStep
<1> QED
    BY <1>1, <1>2, StaleStep, PTL DEF Spec, StaleCloseIgnored

-----------------------------------------------------------------------------
(* Ownership.                                                              *)

LEMMA ShellInit == Init => ShellInv
BY DEF Init, ShellInv, Awaited

LEMMA ShellStep == TypeOK /\ ShellInv /\ [Next]_vars => ShellInv'
<1> SUFFICES ASSUME TypeOK, ShellInv, [Next]_vars PROVE ShellInv'
    OBVIOUS
<1> USE ConstantsAssumption DEF TypeOK, Steps, ShellInv, Awaited
<1>1. ASSUME UNCHANGED <<callVars, tab, pend>> PROVE ShellInv'
      BY <1>1 DEF callVars
<1>2. ASSUME NEW a \in Sids, Backend(a) \/ RemoteEnds(a) \/ DeliverClosed(a) PROVE ShellInv'
      <2>1. CASE SessionOpens(a)
            BY <2>1 DEF SessionOpens, StepAfter, shellVars
      <2>2. CASE OpenFails(a)
            BY <2>2 DEF OpenFails, shellVars
      <2>3. CASE InsertSession(a)
            BY <2>3 DEF InsertSession, StepAfter, shellVars
      <2>4. CASE SpawnReader(a)
            BY <2>4 DEF SpawnReader, StepAfter, shellVars
      <2>5. CASE ReaderEnds(a) \/ ManagerClose(a) \/ SessionCloses(a) \/ RemoteEnds(a)
                 \/ DeliverClosed(a)
            BY <1>1, <2>5 DEF ReaderEnds, ManagerClose, SessionCloses, RemoteEnds,
               DeliverClosed, shellVars
      <2> QED
          BY <1>2, <2>1, <2>2, <2>3, <2>4, <2>5 DEF Backend
<1>3. ASSUME NEW t \in Tabs, CloseTab(t) PROVE ShellInv'
      BY <1>3 DEF CloseTab, SetTabs, callVars
<1>4. ASSUME Commit PROVE ShellInv'
      BY <1>4 DEF Commit, callVars
<1>5. ASSUME NEW t \in Tabs, Mount(t) \/ ListenersReady(t) PROVE ShellInv'
      BY <1>1, <1>5 DEF Mount, ListenersReady, shellVars
<1>6. ASSUME NEW t \in Tabs, NEW a \in Sids, OpenTab(t, a) PROVE ShellInv'
      <2> USE <1>6 DEF OpenTab, Call
      <2>1. tab' = [tab EXCEPT ![t] = "connecting"] /\ pend[t] = None
            OBVIOUS
      <2>2. \A u \in Tabs : pend'[u] = pend[u] \/ pend'[u] = None
            BY DEF SetTabs
      <2>3. ASSUME NEW u \in Tabs, NEW b \in Sids, Awaited(b, u)'
            PROVE  Awaited(b, u) \/ (b = a /\ u = t)
            BY <2>3
      <2>4. \A b \in Sids : ~Awaited(b, t)
            OBVIOUS
      <2> HIDE <1>6 DEF OpenTab, Call
      <2>5. \A b \in Sids : (pc[b] = "unused" => role[b] = "none")'
            BY <1>6 DEF OpenTab, Call
      <2> QED
          <3> HIDE DEF Awaited
          <3> QED
              BY <2>1, <2>2, <2>3, <2>4, <2>5
<1>7. ASSUME NEW t \in Tabs, NEW a \in Sids, Reconnect(t, a) PROVE ShellInv'
      BY <1>7 DEF Reconnect, Call, shellVars
<1>8. ASSUME NEW t \in Tabs, NEW a \in Sids, HandOff(t, a) PROVE ShellInv'
      BY <1>8 DEF HandOff, TabExists, shellVars
<1>9. ASSUME NEW t \in Tabs, NEW a \in Sids, OpenTabFails(t, a) PROVE ShellInv'
      BY <1>9 DEF OpenTabFails, TabExists
<1>10. ASSUME NEW t \in Tabs, NEW a \in Sids, ReconnectSucceeds(t, a) PROVE ShellInv'
      BY <1>10 DEF ReconnectSucceeds, UpdateRuntimeSession
<1>11. ASSUME NEW t \in Tabs, NEW a \in Sids, ReconnectFails(t, a) \/ OrphanAnswer(t, a)
       PROVE  ShellInv'
      BY <1>11 DEF ReconnectFails, OrphanAnswer, shellVars
<1>12. CASE UNCHANGED vars
      BY <1>1, <1>12 DEF vars, shellVars
<1> QED
    BY <1>2, <1>3, <1>4, <1>5, <1>6, <1>7, <1>8, <1>9, <1>10, <1>11, <1>12 DEF Next, Answer

LEMMA OwnInit == Init => OwnInv
BY DEF Init, OwnInv, OpenIsOwned

LEMMA OwnStep ==
    ASSUME TypeOK, BackInv, PanelInv, ShellInv, OwnInv, [Next]_vars
    PROVE  OwnInv'
<1> USE ConstantsAssumption DEF TypeOK, Held, Released, ClosedTabs
<1>1. ASSUME NEW a \in Sids, SessionOpens(a) PROVE OwnInv'
      BY <1>1 DEF SessionOpens, StepAfter, OwnInv, OpenIsOwned, shellVars, panelVars
<1>2. ASSUME NEW a \in Sids, OpenFails(a) PROVE OwnInv'
      BY <1>2 DEF OpenFails, OwnInv, OpenIsOwned, backVars, shellVars, panelVars
<1>3. ASSUME NEW a \in Sids, InsertSession(a) PROVE OwnInv'
      BY <1>3 DEF InsertSession, StepAfter, OwnInv, OpenIsOwned, shellVars, panelVars
<1>4. ASSUME NEW a \in Sids, SpawnReader(a) PROVE OwnInv'
      BY <1>4 DEF SpawnReader, StepAfter, OwnInv, OpenIsOwned, BackInv, shellVars, panelVars
<1>5. ASSUME NEW a \in Sids, ReaderEnds(a) PROVE OwnInv'
      BY <1>5 DEF ReaderEnds, OwnInv, OpenIsOwned, callVars, shellVars, panelVars
<1>6. ASSUME NEW a \in Sids, ManagerClose(a) PROVE OwnInv'
      BY <1>6 DEF ManagerClose, OwnInv, OpenIsOwned, BackInv, callVars, shellVars, panelVars
<1>7. ASSUME NEW a \in Sids, SessionCloses(a) PROVE OwnInv'
      BY <1>7 DEF SessionCloses, OwnInv, OpenIsOwned, BackInv, callVars, shellVars, panelVars
<1>8. ASSUME NEW a \in Sids, RemoteEnds(a) PROVE OwnInv'
      BY <1>8 DEF RemoteEnds, OwnInv, OpenIsOwned, callVars, shellVars, panelVars
<1>9. ASSUME NEW a \in Sids, DeliverClosed(a) PROVE OwnInv'
      <2>1. OpenIsOwned'
            BY <1>9 DEF DeliverClosed, OwnInv, OpenIsOwned, callVars, shellVars
      <2>2. reader[a] = "done"
            BY <1>9 DEF DeliverClosed, BackInv
      <2>4. a \notin alive \cup stored
            BY <2>2 DEF BackInv, StoredIsRead
      <2>3. ASSUME NEW t \in Tabs
            PROVE  psid'[t] = psid[t] \/ (psid'[t] = None /\ (psid[t] = None \/ psid[t] = a))
            BY <1>9 DEF DeliverClosed, matchesTerminalEvent, PanelInv
      <2> QED
          BY <1>9, <2>1, <2>3, <2>4 DEF DeliverClosed, OwnInv, callVars, shellVars
<1>10. ASSUME NEW t \in Tabs, CloseTab(t) PROVE OwnInv'
      <2> USE <1>10 DEF CloseTab, SetTabs, SessionsOf, callVars, panelVars
      <2>1. OpenIsOwned'
            BY DEF OwnInv, OpenIsOwned
      <2>2. ASSUME NEW u \in Tabs PROVE (Released(sid[u]) => Released(sid[u])')
            OBVIOUS
      <2>3. ASSUME NEW u \in Tabs \ ClosedTabs, u # t, pend[u] = None
            PROVE  Held(u)' = Held(u) /\ (Released(Held(u)) => Released(Held(u))')
            BY <2>3
      <2>4. ASSUME NEW u \in Tabs \ ClosedTabs, u # t, pend[u] # None
            PROVE  Held(u)' = sid[u] /\ Held(u) \in lost'
            BY <2>4
      <2>5. ASSUME NEW u \in (Tabs \ ClosedTabs)'
            PROVE  /\ psid[u] # None => psid[u] = Held(u)' \/ psid[u] \in lost'
                   /\ prev[u] # None => prev[u] = Held(u)' \/ prev[u] \in lost'
                   /\ panel[u] # "none" => psid[u] = Held(u)' \/ prev[u] = Held(u)'
                                           \/ Released(Held(u))'
            <3>1. u # t /\ u \in Tabs \ ClosedTabs
                  OBVIOUS
            <3>2. CASE pend[u] = None
                  BY <2>3, <3>1, <3>2 DEF OwnInv
            <3>3. CASE pend[u] # None
                  BY <2>4, <3>1, <3>3 DEF OwnInv, ShellInv
            <3> QED
                BY <3>2, <3>3
      <2> QED
          BY <2>1, <2>5 DEF OwnInv
<1>11. ASSUME Commit PROVE OwnInv'
      BY <1>11 DEF Commit, Unmounted, OwnInv, OpenIsOwned, callVars, backVars
<1>12. ASSUME NEW t \in Tabs, Mount(t) PROVE OwnInv'
      BY <1>12 DEF Mount, OwnInv, OpenIsOwned, callVars, backVars, shellVars
<1>13. ASSUME NEW t \in Tabs, ListenersReady(t) PROVE OwnInv'
      BY <1>13 DEF ListenersReady, OwnInv, OpenIsOwned, callVars, backVars, shellVars
<1>14. ASSUME NEW t \in Tabs, NEW a \in Sids, OpenTab(t, a) PROVE OwnInv'
      BY <1>14 DEF OpenTab, SetTabs, Call, OwnInv, OpenIsOwned, backVars, panelVars
<1>15. ASSUME NEW t \in Tabs, NEW a \in Sids, HandOff(t, a) PROVE OwnInv'
      BY <1>15 DEF HandOff, TabExists, ShellInv, Awaited, OwnInv, OpenIsOwned, shellVars, panelVars
<1>16. ASSUME NEW t \in Tabs, NEW a \in Sids, OpenTabFails(t, a) PROVE OwnInv'
      BY <1>16 DEF OpenTabFails, TabExists, ShellInv, Awaited, OwnInv, OpenIsOwned, BackInv, backVars, panelVars
<1>17. ASSUME NEW t \in Tabs, NEW a \in Sids, Reconnect(t, a) PROVE OwnInv'
      BY <1>17 DEF Reconnect, Call, OwnInv, OpenIsOwned, PanelInv, backVars, shellVars
<1>18. ASSUME NEW t \in Tabs, NEW a \in Sids, ReconnectSucceeds(t, a) PROVE OwnInv'
      <2> USE <1>18 DEF ReconnectSucceeds, Settled
      <2>1. panel[t] # "none" /\ psid[t] = None
            BY DEF PanelInv
      <2>2. CASE tab[t] = "terminal" /\ sid' = [sid EXCEPT ![t] = a] /\ UpToDate
                 /\ UNCHANGED <<tab, pend, lost>>
            BY <2>1, <2>2 DEF UpToDate, OwnInv, OpenIsOwned
      <2>3. CASE tab[t] = "terminal" /\ pend' = [pend EXCEPT ![t] = a]
                 /\ UNCHANGED <<tab, sid, lost>>
            BY <2>1, <2>3 DEF OwnInv, OpenIsOwned
      <2>4. CASE tab[t] # "terminal" /\ lost' = lost \cup {a} /\ UNCHANGED <<tab, sid, pend>>
            BY <2>1, <2>4 DEF OwnInv, OpenIsOwned
      <2> QED
          BY <2>2, <2>3, <2>4 DEF UpdateRuntimeSession
<1>19. ASSUME NEW t \in Tabs, NEW a \in Sids, ReconnectFails(t, a) PROVE OwnInv'
      BY <1>19 DEF ReconnectFails, Settled, OwnInv, OpenIsOwned, PanelInv, BackInv,
         backVars, shellVars
<1>20. ASSUME NEW t \in Tabs, NEW a \in Sids, OrphanAnswer(t, a) PROVE OwnInv'
      BY <1>20 DEF OrphanAnswer, OwnInv, OpenIsOwned, BackInv, shellVars, panelVars
<1>21. CASE UNCHANGED vars
      BY <1>21 DEF vars, OwnInv, OpenIsOwned, callVars, backVars, shellVars, panelVars
<1> QED
    BY <1>1, <1>2, <1>3, <1>4, <1>5, <1>6, <1>7, <1>8, <1>9, <1>10, <1>11, <1>12,
       <1>13, <1>14, <1>15, <1>16, <1>17, <1>18, <1>19, <1>20, <1>21
       DEF Next, Backend, Answer

\* No session is ever left open without a tab, an opener or a close call that will
\* reclaim it, but for the sessions whose tab update React dropped.
THEOREM NoSessionLost == Spec => []OpenIsOwned
<1>1. Init => TypeOK /\ BackInv /\ PanelInv /\ ShellInv /\ OwnInv
      BY TypeInit, BackInit, PanelInit, ShellInit, OwnInit
<1>2. TypeOK /\ BackInv /\ PanelInv /\ ShellInv /\ OwnInv /\ [Next]_vars
      => TypeOK' /\ BackInv' /\ PanelInv' /\ ShellInv' /\ OwnInv'
      BY TypeStep, BackStep, PanelStep, ShellStep, OwnStep
<1>3. OwnInv => OpenIsOwned
      BY DEF OwnInv
<1> QED
    BY <1>1, <1>2, <1>3, PTL DEF Spec

\* With the same exception the session a settled panel shows is the one its tab
\* holds or is about to hold.
THEOREM PanelShowsTabSession == Spec => []PanelAndTabAgree
<1>1. Init => TypeOK /\ BackInv /\ PanelInv /\ ShellInv /\ OwnInv
      BY TypeInit, BackInit, PanelInit, ShellInit, OwnInit
<1>2. TypeOK /\ BackInv /\ PanelInv /\ ShellInv /\ OwnInv /\ [Next]_vars
      => TypeOK' /\ BackInv' /\ PanelInv' /\ ShellInv' /\ OwnInv'
      BY TypeStep, BackStep, PanelStep, ShellStep, OwnStep
<1>3. OwnInv => PanelAndTabAgree
      BY DEF OwnInv, PanelAndTabAgree, Held
<1> QED
    BY <1>1, <1>2, <1>3, PTL DEF Spec

=============================================================================

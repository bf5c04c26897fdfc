--------------------------- MODULE WorkspaceProofs --------------------------
(***************************************************************************)
(* Safety of five parts of the workspace: MultiExec, the RDP and VNC tabs, *)
(* the snapshot that restarts restore from, the Docker panel and the       *)
(* output of a terminal.  Each section gives the inductive invariant of    *)
(* one component, the lemma that every step keeps it, and the theorem that *)
(* the property the run checks follows, for every value of the constants.  *)
(***************************************************************************)
EXTENDS MultiExec, RemoteDesktop, WorkspaceSnapshot, DockerPanel, TerminalOutput, SequenceTheorems,
        TLAPS

-----------------------------------------------------------------------------
(* MultiExec.                                                              *)

\* A target that lost its session is not a target any more: the effect of the connected tabs
\* has taken it away in the step that dropped it, and only a pick brings it back.
MultiInv ==
    /\ status \in [MultiTabs -> {"none", "up", "down"}]
    /\ targets \cap lost = {}
    /\ LiveToPicked

LEMMA MultiStep == MultiInv /\ [MultiNext]_multiVars => MultiInv'
<1> SUFFICES ASSUME MultiInv, [MultiNext]_multiVars PROVE MultiInv'
    OBVIOUS
<1> USE DEF MultiInv, LiveToPicked
<1>1. ASSUME NEW t \in MultiTabs, Connects(t) PROVE MultiInv'
    BY <1>1 DEF Connects, TabMoves, targetsAvailable, setTargets, ConnectedTabs
<1>2. ASSUME NEW t \in MultiTabs, Drops(t) PROVE MultiInv'
    BY <1>2 DEF Drops, TabMoves, targetsAvailable, setTargets, ConnectedTabs
<1>3. ASSUME NEW t \in MultiTabs, Closes(t) PROVE MultiInv'
    BY <1>3 DEF Closes, TabMoves, targetsAvailable, setTargets, ConnectedTabs
<1>4. ASSUME NEW t \in MultiTabs, Pick(t) \/ Unpick(t) PROVE MultiInv'
    BY <1>4 DEF Pick, Unpick, setTargets
<1>5. ASSUME NEW t \in MultiTabs, UserInput(t) PROVE MultiInv'
  <2>1. UNCHANGED <<status, mode, targets, sends, lost, drops>>
        BY <1>5 DEF UserInput
  <2>2. \A u : u \notin ((targets \cap Offered(status)) \ {t}) \cap lost
        OBVIOUS
  <2>3. strays' = strays \cup {<<"live", u>> : u \in ((targets \cap Offered(status)) \ {t}) \cap lost}
        BY <1>5 DEF UserInput
  <2>4. strays' = strays
        BY <2>2, <2>3
  <2> QED BY <2>1, <2>4
<1>6. ASSUME NEW t \in MultiTabs, sendCommand(t) PROVE MultiInv'
    BY <1>6 DEF sendCommand
<1>7. ASSUME PickAll \/ LeaveSend PROVE MultiInv'
    BY <1>7 DEF PickAll, LeaveSend, setTargets
<1>8. ASSUME NEW on \in BOOLEAN, setLive(on) PROVE MultiInv'
    BY <1>8 DEF setLive
<1>9. ASSUME NEW to \in inputs, NEW failed \in SUBSET to, InputDelivered(to, failed) PROVE MultiInv'
    BY <1>9 DEF InputDelivered, setTargets
<1>10. ASSUME NEW s \in sends, SendEnds(s) PROVE MultiInv'
    BY <1>10 DEF SendEnds, setTargets
<1>11. ASSUME NEW s \in sends, NEW t \in s.left, WriteNext(s, t) PROVE MultiInv'
  <2>1. UNCHANGED <<status, mode, targets, inputs, lost, drops>>
        BY <1>11 DEF WriteNext
  <2>2. strays' = strays \/ strays' = strays \cup {<<"send", t>>}
        BY <1>11 DEF WriteNext
  <2>3. \A u : <<"live", u>> # <<"send", t>>
        OBVIOUS
  <2> QED BY <2>1, <2>2, <2>3
<1>12. ASSUME UNCHANGED multiVars PROVE MultiInv'
    BY <1>12 DEF multiVars
<1> HIDE DEF MultiInv
<1> QED BY <1>1, <1>2, <1>3, <1>4, <1>5, <1>6, <1>7, <1>8, <1>9, <1>10, <1>11, <1>12 DEF MultiNext

(* Live input reaches no terminal that lost its session since the user     *)
(* picked it, for any number of terminals, inputs and reconnects           *)
(* (multiExecReducer, handleMultiExecUserInput).                           *)
THEOREM LiveGoesToPicked == MultiSpec => []LiveToPicked
<1>1. MultiInit => MultiInv
    BY DEF MultiInit, MultiInv, LiveToPicked
<1>2. MultiInv => LiveToPicked
    BY DEF MultiInv
<1> QED BY <1>1, <1>2, MultiStep, PTL DEF MultiSpec

-----------------------------------------------------------------------------
(* RemoteDesktop.                                                          *)

\* SessionsAreOwned is inductive once the names are in their sets: a tab that is new has no
\* session, and what a step takes from a tab or a run goes to the other, is closed or abandoned.
DesktopInv ==
    /\ desktops \subseteq Desktops /\ unused \subseteq Desktops /\ desktops \cap unused = {}
    /\ result \in [Desktops -> Nat \cup {NoSession}]
    /\ queued \in [Desktops -> Nat \cup {NoSession}]
    /\ live \subseteq Nat /\ sessions \in Nat
    /\ attaching \subseteq Desktops \X Nat \X {"create", "open", "sent"}
    /\ SessionsAreOwned

LEMMA DesktopStep == DesktopInv /\ [DesktopNext]_desktopVars => DesktopInv'
<1> SUFFICES ASSUME DesktopInv, [DesktopNext]_desktopVars PROVE DesktopInv'
    OBVIOUS
<1> USE NoSessionAssumption DEF DesktopInv, SessionsAreOwned, tabVars, runVars, windowVars
<1>1. ASSUME NEW t \in Desktops, startDesktopSession(t) PROVE DesktopInv'
    BY <1>1 DEF startDesktopSession, Running
<1>2. ASSUME NEW t \in Desktops, retrySession(t) PROVE DesktopInv'
    BY <1>2 DEF retrySession, Running
<1>3. ASSUME NEW T, NEW list, RemoveTabs(T, list), UNCHANGED <<attaching, sessions>>,
             live' \subseteq live, \A t \in T \cap desktops : result[t] \notin live',
             \A t \in T \cap desktops : t \in list
      PROVE  DesktopInv'
  <2>1. desktops' = desktops \ T /\ UNCHANGED <<unused, result>>
        BY <1>3 DEF RemoveTabs
  <2>2. queued' = [u \in Desktops |-> IF u \in list THEN NoSession ELSE queued[u]]
        BY <1>3 DEF RemoveTabs
  <2>3. abandoned \subseteq abandoned' /\ \A u \in list : queued[u] # NoSession => queued[u] \in abandoned'
        BY <1>3 DEF RemoveTabs, Abandon
  <2>4. SessionsAreOwned'
    <3> SUFFICES ASSUME NEW s \in live', s \notin abandoned', \A run \in attaching : run[2] # s
                 PROVE  \E t \in desktops' : s \in {result'[t], queued'[t]}
        BY <1>3
    <3>0. s \in live /\ s \in Nat /\ s # NoSession
          BY <1>3
    <3>1. PICK t \in desktops : s \in {result[t], queued[t]}
          BY <1>3, <2>3, <3>0
    <3>2. t \notin T
          BY <1>3, <2>3, <3>0, <3>1
    <3>3. s = result[t] \/ t \notin list
          BY <2>3, <3>0, <3>1
    <3> QED BY <2>1, <2>2, <3>1, <3>2, <3>3
  <2> QED BY <1>3, <2>1, <2>2, <2>4
<1>4. ASSUME NEW t, NEW notify, closeSessions(t, notify), UNCHANGED <<attaching, sessions>> PROVE DesktopInv'
  <2>1. RemoveTabs({t}, ListOf(t))
        BY <1>4 DEF closeSessions
  <2>2. live' \subseteq live /\ (t \in desktops => result[t] \notin live')
        BY <1>4 DEF closeSessions
  <2>3. t \in desktops => t \in ListOf(t)
        BY DEF ListOf
  <2> QED BY <1>3, <1>4, <2>1, <2>2, <2>3
<1>5. ASSUME NEW t \in Desktops, NEW s \in Nat, Stores(t, s), t \in desktops, UNCHANGED <<desktops, unused>>,
             sessions' \in Nat, live' \subseteq live \cup {s}, attaching' \subseteq attaching,
             \A run \in attaching \ attaching' : run[2] = s
      PROVE  DesktopInv'
  <2>1. CASE /\ result' = [result EXCEPT ![t] = s] /\ UNCHANGED queued
             /\ abandoned' = abandoned \cup ({result[t]} \ {NoSession})
        BY <1>5, <2>1
  <2>2. CASE /\ queued' = [queued EXCEPT ![t] = s] /\ UNCHANGED result
             /\ abandoned' = abandoned \cup ({queued[t]} \ {NoSession})
        BY <1>5, <2>2
  <2>3. Abandon(result, {t}) => abandoned' = abandoned \cup ({result[t]} \ {NoSession})
        BY DEF Abandon
  <2>4. Abandon(queued, {t}) => abandoned' = abandoned \cup ({queued[t]} \ {NoSession})
        BY DEF Abandon
  <2> QED BY <1>5, <2>1, <2>2, <2>3, <2>4 DEF Stores
<1>6. ASSUME NEW t \in Desktops, CloseTab(t) PROVE DesktopInv'
    BY <1>4, <1>6 DEF CloseTab
<1>7. ASSUME NEW s \in live, RdpSessionClosed(s) PROVE DesktopInv'
  <2> DEFINE closed == {t \in desktops \cap RdpTabs : result[t] = s}
  <2>1. RemoveTabs(closed, RdpTabs) /\ live' = live \ {s} /\ UNCHANGED <<attaching, sessions>>
        BY <1>7 DEF RdpSessionClosed
  <2>2. \A t \in closed \cap desktops : t \in RdpTabs /\ result[t] = s
        OBVIOUS
  <2> HIDE DEF closed
  <2> QED BY <1>3, <2>1, <2>2
<1>8. ASSUME NEW t \in Desktops, Renders(ListOf(t)) PROVE DesktopInv'
  <2> DEFINE stored == {u \in ListOf(t) : queued[u] # NoSession}
  <2>0. stored \subseteq Desktops /\ \A u \in stored : queued[u] \in Nat
        BY DEF ListOf
  <2>1. /\ result' = [u \in Desktops |-> IF u \in stored THEN queued[u] ELSE result[u]]
        /\ queued' = [u \in Desktops |-> IF u \in stored THEN NoSession ELSE queued[u]]
        BY <1>8 DEF Renders
  <2>2. abandoned' = abandoned \cup ({result[u] : u \in stored} \ {NoSession})
        BY <1>8 DEF Renders, Abandon
  <2>3. UNCHANGED <<desktops, unused, attaching, live, sessions>>
        BY <1>8 DEF Renders
  <2> HIDE DEF stored
  <2>4. SessionsAreOwned'
    <3> SUFFICES ASSUME NEW s \in live, s \notin abandoned', \A run \in attaching : run[2] # s
                 PROVE  \E u \in desktops : s \in {result'[u], queued'[u]}
        BY <2>3
    <3>1. PICK u \in desktops : s \in {result[u], queued[u]}
          BY <2>2
    <3>2. u \in stored => s = queued[u] /\ result'[u] = queued[u]
          BY <2>0, <2>1, <2>2, <3>1
    <3>3. u \notin stored => result'[u] = result[u] /\ queued'[u] = queued[u]
          BY <2>1
    <3> QED BY <3>1, <3>2, <3>3
  <2>5. result' \in [Desktops -> Nat \cup {NoSession}] /\ queued' \in [Desktops -> Nat \cup {NoSession}]
        BY <2>0, <2>1
  <2> QED BY <2>3, <2>4, <2>5
<1>9. ASSUME NEW t \in Desktops, LaunchReturns(t, sessions + 1) PROVE DesktopInv'
  <2>0. sessions' = sessions + 1 /\ UNCHANGED <<desktops, unused>>
        BY <1>9 DEF LaunchReturns
  <2>1. CASE t \notin desktops
    <3>1. UNCHANGED <<result, queued, attaching, live, abandoned>>
          BY <1>9, <2>1 DEF LaunchReturns
    <3> QED BY <2>0, <3>1
  <2>2. CASE t \in desktops \ Windowed
    <3>1. live' = live \cup {sessions + 1} /\ Stores(t, sessions + 1) /\ UNCHANGED attaching
          BY <1>9, <2>2 DEF LaunchReturns
    <3> QED BY <1>5, <2>0, <2>2, <3>1
  <2>3. CASE t \in desktops \cap Windowed
    <3> DEFINE run == <<t, sessions + 1, IF window = "none" THEN "create" ELSE "open">>
    <3>1. attaching' = attaching \cup {run} /\ run \in Desktops \X Nat \X {"create", "open", "sent"} /\ run[2] = sessions + 1
          BY <1>9, <2>3 DEF LaunchReturns, OpenHost
    <3>2. live' = live \cup {sessions + 1} /\ UNCHANGED <<result, queued, abandoned>>
          BY <1>9, <2>3 DEF LaunchReturns, OpenHost
    <3> HIDE DEF run
    <3> QED BY <2>0, <3>1, <3>2
  <2> QED BY <2>1, <2>2, <2>3
<1>10. ASSUME NEW t \in Desktops, LaunchFails(t) PROVE DesktopInv'
    BY <1>10 DEF LaunchFails
<1>11. ASSUME NEW t \in Desktops, RunnerTabClosed(t) \/ ViewerFails(t) PROVE DesktopInv'
    BY <1>11 DEF RunnerTabClosed, ViewerFails
<1>12. ASSUME NEW t, NEW s, NEW at, HostOpened(t, s, at) PROVE DesktopInv'
  <2>1. <<t, s, at>> \in attaching /\ attaching' = (attaching \ {<<t, s, at>>}) \cup {<<t, s, "sent">>}
        BY <1>12 DEF HostOpened
  <2>2. UNCHANGED <<desktops, unused, result, queued, live, sessions, abandoned>>
        BY <1>12 DEF HostOpened
  <2>3. t \in Desktops /\ s \in Nat
        BY <2>1
  <2> DEFINE before == <<t, s, at>>
             after == <<t, s, "sent">>
  <2>4. before[2] = s /\ after[2] = s /\ after \in Desktops \X Nat \X {"create", "open", "sent"}
        BY <2>3
  <2>5. attaching' = (attaching \ {before}) \cup {after} /\ before \in attaching
        BY <2>1
  <2> HIDE DEF before, after
  <2> QED BY <2>2, <2>4, <2>5
<1>13. ASSUME NEW t, NEW s, HostAttached(t, s) PROVE DesktopInv'
  <2> DEFINE run == <<t, s, "sent">>
  <2>1. run \in attaching /\ attaching' = attaching \ {run}
        BY <1>13 DEF HostAttached
  <2>2. t \in Desktops /\ s \in Nat /\ run[2] = s
        BY <2>1
  <2>3. UNCHANGED <<desktops, unused, sessions>>
        BY <1>13 DEF HostAttached
  <2>4. CASE t \in desktops
    <3>1. Stores(t, s) /\ UNCHANGED live
          BY <1>13, <2>4 DEF HostAttached
    <3> HIDE DEF run
    <3>2. \A r \in attaching \ attaching' : r[2] = s
          BY <2>1, <2>2
    <3> QED BY <1>5, <2>1, <2>2, <2>3, <2>4, <3>1, <3>2
  <2>5. CASE t \notin desktops
    <3>1. live' = live \ {s} /\ UNCHANGED <<result, queued, abandoned>>
          BY <1>13, <2>5 DEF HostAttached
    <3> HIDE DEF run
    <3> QED BY <2>1, <2>2, <2>3, <3>1
  <2> QED BY <2>4, <2>5
<1>14. ASSUME NEW t, NEW s, HostFails(t, s) PROVE DesktopInv'
  <2> DEFINE run == <<t, s, "create">>
  <2>1. run[2] = s /\ run \in attaching /\ attaching' = attaching \ {run}
        BY <1>14 DEF HostFails
  <2>2. live' = live \ {s} /\ UNCHANGED <<desktops, unused, result, queued, sessions, abandoned>>
        BY <1>14 DEF HostFails
  <2> HIDE DEF run
  <2> QED BY <2>1, <2>2
<1>15. ASSUME RunnerWindowClosed \/ RunnerListens \/ RunnerReceives PROVE DesktopInv'
    BY <1>15 DEF RunnerWindowClosed, RunnerListens, RunnerReceives
<1>16. ASSUME MainReceives PROVE DesktopInv'
  <2>0. UNCHANGED <<attaching, sessions>>
        BY <1>16 DEF MainReceives
  <2>1. CASE MainReady
        BY <2>0, <2>1 DEF MainReady
  <2>2. ASSUME NEW t, closeSessions(t, FALSE) PROVE DesktopInv'
        BY <1>4, <2>0, <2>2
  <2>3. ASSUME NEW t, ViewerFailed(t) PROVE DesktopInv'
        BY <2>0, <2>3 DEF ViewerFailed
  <2> QED BY <1>16, <2>1, <2>2, <2>3 DEF MainReceives
<1>17. ASSUME UNCHANGED desktopVars PROVE DesktopInv'
    BY <1>17 DEF desktopVars
<1> HIDE DEF DesktopInv
<1> QED BY <1>1, <1>2, <1>6, <1>7, <1>8, <1>9, <1>10, <1>11, <1>12, <1>13, <1>14, <1>15, <1>16, <1>17
        DEF DesktopNext, HostStep

(* Every backend session of an RDP or VNC tab belongs to an open tab, to a *)
(* run that will hand it over or an update React has yet to run, or was    *)
(* given up by a retry or by a close that came before such an update, for  *)
(* any number of tabs and launches (runVncSession, updateVncSession,       *)
(* closeVncSessions).                                                      *)
THEOREM SessionsStayOwned == DesktopSpec => []SessionsAreOwned
<1>1. DesktopInit => DesktopInv
    BY DEF DesktopInit, DesktopInv, SessionsAreOwned
<1>2. DesktopInv => SessionsAreOwned
    BY DEF DesktopInv
<1> QED BY <1>1, <1>2, DesktopStep, PTL DEF DesktopSpec

-----------------------------------------------------------------------------
(* WorkspaceSnapshot.                                                      *)

ShellTypeOK ==
    /\ instances \subseteq InstanceIds
    /\ activeItem \in InstanceIds \cup {"home", "split"}
    /\ panes \subseteq InstanceIds \cup {BlankPane}

RowTypeOK ==
    /\ current \in Snapshot \cup {NoSnapshot, Unreadable} /\ backup \in Snapshot \cup {NoSnapshot, Unreadable}
    /\ lastSaved \in Snapshot \cup {NoSnapshot} /\ timer \in Snapshot \cup {NoSnapshot}
    /\ saveQueue \in Seq(Snapshot)

\* Nothing is saved before the restore is over.
QuietUntilReady ==
    phase # "ready" => ~hasSaved /\ saveQueue = <<>> /\ timer = NoSnapshot

\* What the user sees is what the timer waits with, else what the last save in the queue will
\* write, else what was saved last.
NewestIsShown ==
    phase = "ready" /\ ~undone =>
        IF timer # NoSnapshot THEN timer = toSnapshot
        ELSE IF saveQueue # <<>> THEN saveQueue[Len(saveQueue)] = toSnapshot
        ELSE lastSaved = toSnapshot

SnapshotInv ==
    /\ ShellTypeOK /\ RowTypeOK /\ QuietUntilReady /\ NewestIsShown
    /\ hasSaved => current = lastSaved

LEMMA SnapshotTyped == ShellTypeOK => toSnapshot \in Snapshot
BY DEF ShellTypeOK, toSnapshot, TemporaryTargets, Snapshot

LEMMA SnapshotTypedNext == ShellTypeOK' => toSnapshot' \in Snapshot
BY DEF ShellTypeOK, toSnapshot, TemporaryTargets, Snapshot

\* A change of the workspace, whatever it is.
LEMMA ChangesStep == ASSUME SnapshotInv, ShellTypeOK', Changes PROVE SnapshotInv'
<1>1. toSnapshot' \in Snapshot
    BY SnapshotTypedNext
<1>2. UNCHANGED <<phase, lastSaved, saveQueue, current, backup, hasSaved>>
    BY DEF Changes
<1>3. timer' = IF phase # "ready" \/ toSnapshot' = lastSaved THEN NoSnapshot ELSE toSnapshot'
    BY <1>2 DEF Changes, Debounced
<1>4. undone' = (undone \/ (saveQueue # <<>> /\ phase = "ready" /\ toSnapshot' = lastSaved))
    BY DEF Changes
<1>5. RowTypeOK' /\ QuietUntilReady' /\ (hasSaved' => current' = lastSaved')
    BY <1>1, <1>2, <1>3 DEF SnapshotInv, RowTypeOK, QuietUntilReady
<1>6. NewestIsShown'
    BY <1>1, <1>2, <1>3, <1>4, SnapshotAssumption DEF NewestIsShown
<1> QED BY <1>5, <1>6 DEF SnapshotInv

\* The restore ends with "saved" taken for the content of the row.
LEMMA ReadyStep ==
    ASSUME SnapshotInv, ShellTypeOK', phase # "ready", NEW saved \in Snapshot, Ready(saved),
           UNCHANGED <<saveQueue, current, backup, undone, hasSaved>>
    PROVE  SnapshotInv'
<1>1. toSnapshot' \in Snapshot
    BY SnapshotTypedNext
<1>2. phase' = "ready" /\ lastSaved' = saved /\ saveQueue' = <<>> /\ ~hasSaved'
    BY DEF Ready, SnapshotInv, QuietUntilReady
<1>3. timer' = IF toSnapshot' = saved THEN NoSnapshot ELSE toSnapshot'
    BY <1>2 DEF Ready, Debounced
<1>4. RowTypeOK' /\ QuietUntilReady'
    BY <1>1, <1>2, <1>3 DEF SnapshotInv, RowTypeOK, QuietUntilReady
<1>5. NewestIsShown'
    BY <1>1, <1>2, <1>3, SnapshotAssumption DEF NewestIsShown
<1> QED BY <1>2, <1>4, <1>5 DEF SnapshotInv

LEMMA DequeuedFirst ==
    ASSUME NEW q \in Seq(Snapshot), q # <<>>,
           NEW r, r = SubSeq(q, 1, 0) \o SubSeq(q, 2, Len(q))
    PROVE  /\ r \in Seq(Snapshot) /\ Len(r) = Len(q) - 1
           /\ r # <<>> => r[Len(r)] = q[Len(q)]
           /\ r = <<>> => Len(q) = 1
<1>1. Len(q) \in Nat /\ Len(q) > 0
    OBVIOUS
<1>2. SubSeq(q, 1, 0) \in Seq(Snapshot) /\ Len(SubSeq(q, 1, 0)) = 0
    OBVIOUS
<1>3. SubSeq(q, 2, Len(q)) \in Seq(Snapshot) /\ Len(SubSeq(q, 2, Len(q))) = Len(q) - 1
  <2>1. \A i \in 2 .. Len(q) : q[i] \in Snapshot
        BY <1>1
  <2>2. SubSeq(q, 2, Len(q)) \in Seq(Snapshot)
        BY <1>1, <2>1
  <2>3. Len(SubSeq(q, 2, Len(q))) = Len(q) - 1
    <3>1. CASE Len(q) = 1
      <4>1. SubSeq(q, 2, 1) = <<>>
            BY <3>1
      <4> QED BY <3>1, <4>1
    <3>2. CASE Len(q) >= 2
          BY <1>1, <3>2
    <3>3. \A n \in Nat : n > 0 => n = 1 \/ n >= 2
          OBVIOUS
    <3> QED BY ONLY <1>1, <3>1, <3>2, <3>3, Zenon
  <2> QED BY <2>2, <2>3
<1>4. \A i \in 1 .. Len(q) - 1 : SubSeq(q, 2, Len(q))[i] = q[i + 1]
    BY <1>1
<1>5. r \in Seq(Snapshot) /\ Len(r) = Len(q) - 1
    BY <1>1, <1>2, <1>3
<1>6. \A i \in 1 .. Len(q) - 1 : r[i] = q[i + 1]
    BY <1>1, <1>2, <1>3, <1>4
<1>7. r # <<>> => Len(r) > 0
    BY <1>5
<1>8. r # <<>> => r[Len(r)] = q[Len(q)]
    BY <1>1, <1>5, <1>6, <1>7
<1>9. r = <<>> => Len(q) = 1
  <2>1. r = <<>> => Len(r) = 0
        OBVIOUS
  <2> QED BY <1>1, <1>5, <2>1
<1> QED BY <1>5, <1>8, <1>9

LEMMA SnapshotStep == SnapshotInv /\ [SnapshotNext]_snapshotVars => SnapshotInv'
<1> SUFFICES ASSUME SnapshotInv, [SnapshotNext]_snapshotVars PROVE SnapshotInv'
    OBVIOUS
<1>0. ShellTypeOK /\ RowTypeOK /\ QuietUntilReady /\ NewestIsShown /\ (hasSaved => current = lastSaved)
    BY DEF SnapshotInv
<1>s. ASSUME UNCHANGED shellVars PROVE toSnapshot' = toSnapshot /\ ShellTypeOK'
    BY <1>0, <1>s DEF shellVars, toSnapshot, TemporaryTargets, ShellTypeOK
<1>1. ASSUME NEW i \in InstanceIds, NEW temporary \in BOOLEAN, OpenInstance(i, temporary) PROVE SnapshotInv'
  <2>1. ShellTypeOK' /\ Changes
        BY <1>0, <1>1 DEF OpenInstance, ShellTypeOK
  <2> QED BY <2>1, ChangesStep
<1>2. ASSUME NEW i \in InstanceIds, NEW next \in InstanceIds \cup {"home", "split"}, CloseInstance(i, next) PROVE SnapshotInv'
  <2>1. ShellTypeOK' /\ Changes
        BY <1>0, <1>2 DEF CloseInstance, ShellTypeOK
  <2> QED BY <2>1, ChangesStep
<1>3. ASSUME NEW i \in InstanceIds, publishWorkspaceRemoteFileNavigation(i) PROVE SnapshotInv'
  <2>1. ShellTypeOK' /\ Changes
        BY <1>0, <1>3 DEF publishWorkspaceRemoteFileNavigation, ShellTypeOK
  <2> QED BY <2>1, ChangesStep
<1>4. ASSUME NEW i \in InstanceIds \cup {"home"}, ShowItem(i) PROVE SnapshotInv'
  <2>1. ShellTypeOK' /\ Changes
        BY <1>0, <1>4 DEF ShowItem, ShellTypeOK
  <2> QED BY <2>1, ChangesStep
<1>5. ASSUME NEW P \in SUBSET (InstanceIds \cup {BlankPane}), SplitInto(P) PROVE SnapshotInv'
  <2>1. ShellTypeOK' /\ Changes
        BY <1>0, <1>5 DEF SplitInto, ShellTypeOK
  <2> QED BY <2>1, ChangesStep
<1>6. ASSUME NEW b \in BOOLEAN, Enabled(b) PROVE SnapshotInv'
  <2>1. phase = "starting" /\ UNCHANGED <<saveQueue, current, backup, undone, hasSaved>> /\ UNCHANGED shellVars
        BY <1>6 DEF Enabled
  <2>2. CASE b
    <3>1. phase' = "loading" /\ UNCHANGED <<lastSaved, timer>>
          BY <1>6, <2>2 DEF Enabled
    <3>2. ShellTypeOK'
          BY <1>s, <2>1
    <3> QED BY <1>0, <2>1, <3>1, <3>2 DEF SnapshotInv, RowTypeOK, QuietUntilReady, NewestIsShown
  <2>3. CASE ~b
    <3>1. Ready(toSnapshot) /\ toSnapshot \in Snapshot
          BY <1>0, <1>6, <2>3, SnapshotTyped DEF Enabled
    <3> QED BY <1>s, <2>1, <3>1, ReadyStep
  <2> QED BY <2>2, <2>3
<1>7. ASSUME NEW b \in BOOLEAN, Restart(b) PROVE SnapshotInv'
  <2>1. ShellTypeOK'
        BY <1>7 DEF Restart, ShellTypeOK
  <2>2. RowTypeOK'
        BY <1>0, <1>7 DEF Restart, RowTypeOK
  <2>3. phase' = "starting" /\ ~hasSaved' /\ saveQueue' = <<>> /\ timer' = NoSnapshot
        BY <1>7 DEF Restart
  <2> QED BY <2>1, <2>2, <2>3 DEF SnapshotInv, QuietUntilReady, NewestIsShown
<1>8. ASSUME Disposed PROVE SnapshotInv'
  <2>1. UNCHANGED shellVars /\ phase = "loading" /\ phase' = "starting"
        /\ UNCHANGED <<lastSaved, timer, saveQueue, current, backup, hasSaved>>
        BY <1>8 DEF Disposed
  <2> QED BY <1>0, <1>s, <2>1 DEF SnapshotInv, RowTypeOK, QuietUntilReady, NewestIsShown
<1>9. ASSUME LoadFails PROVE SnapshotInv'
  <2>1. phase = "loading" /\ Ready(toSnapshot) /\ UNCHANGED shellVars
        /\ UNCHANGED <<saveQueue, current, backup, undone, hasSaved>>
        BY <1>9 DEF LoadFails
  <2> QED BY <1>0, <1>s, <2>1, SnapshotTyped, ReadyStep
<1>10. ASSUME NEW reachable \in SUBSET InstanceIds, LoadReturns(reachable) PROVE SnapshotInv'
  <2> DEFINE s == selectWorkspaceSnapshot
  <2>1. phase = "loading" /\ UNCHANGED <<saveQueue, current, backup, undone, hasSaved>>
        BY <1>10 DEF LoadReturns
  <2>2. s \in Snapshot \cup {NoSnapshot}
        BY <1>0 DEF selectWorkspaceSnapshot, decodable, RowTypeOK
  <2>3. CASE s = NoSnapshot
    <3>1. UNCHANGED shellVars /\ Ready(toSnapshot)
          BY <1>10, <2>3 DEF LoadReturns
    <3> QED BY <1>0, <1>s, <2>1, <3>1, SnapshotTyped, ReadyStep
  <2>4. CASE s # NoSnapshot
    <3>1. restoreWorkspaceShell(s, reachable) /\ Ready(s)
          BY <1>10, <2>4 DEF LoadReturns
    <3>2. s \in Snapshot
          BY <2>2, <2>4
    <3> HIDE DEF s
    <3>3. ShellTypeOK'
          BY <3>1, <3>2 DEF restoreWorkspaceShell, restorePane, restoreActive, ShellTypeOK, Snapshot
    <3> QED BY <2>1, <3>1, <3>2, <3>3, ReadyStep
  <2> QED BY <2>3, <2>4
<1>11. ASSUME TimerFires PROVE SnapshotInv'
  <2>1. timer # NoSnapshot /\ saveQueue' = Append(saveQueue, timer) /\ timer' = NoSnapshot
        /\ UNCHANGED shellVars /\ UNCHANGED <<phase, lastSaved, current, backup, undone, hasSaved>>
        BY <1>11 DEF TimerFires
  <2>2. phase = "ready" /\ timer \in Snapshot /\ saveQueue \in Seq(Snapshot)
        BY <1>0, <2>1 DEF QuietUntilReady, RowTypeOK
  <2>3. saveQueue' \in Seq(Snapshot) /\ saveQueue' # <<>> /\ saveQueue'[Len(saveQueue')] = timer
        BY <2>1, <2>2
  <2>4. NewestIsShown'
        BY <1>0, <1>s, <2>1, <2>2, <2>3 DEF NewestIsShown
  <2> QED BY <1>0, <1>s, <2>1, <2>2, <2>3, <2>4 DEF SnapshotInv, RowTypeOK, QuietUntilReady
<1>12. ASSUME NEW n \in DOMAIN saveQueue, SaveReturns(n) \/ SaveFails(n) PROVE SnapshotInv'
  <2>1. n = 1 /\ saveQueue # <<>> /\ saveQueue \in Seq(Snapshot) /\ UNCHANGED shellVars /\ UNCHANGED <<phase, timer>>
        BY <1>0, <1>12 DEF SaveReturns, SaveFails, NextSave, RowTypeOK
  <2>2. saveQueue' = SubSeq(saveQueue, 1, 0) \o SubSeq(saveQueue, 2, Len(saveQueue))
        BY <1>12, <2>1 DEF SaveReturns, SaveFails, Dequeued
  <2>3. /\ saveQueue' \in Seq(Snapshot)
        /\ saveQueue' # <<>> => saveQueue'[Len(saveQueue')] = saveQueue[Len(saveQueue)]
        /\ saveQueue' = <<>> => Len(saveQueue) = 1
        BY <2>1, <2>2, DequeuedFirst
  <2>4. phase = "ready"
        BY <1>0, <2>1 DEF QuietUntilReady
  <2>5. CASE SaveReturns(n)
    <3>1. current' = saveQueue[1] /\ backup' = current /\ lastSaved' = saveQueue[1] /\ UNCHANGED undone
          BY <2>1, <2>5 DEF SaveReturns
    <3>2. saveQueue[1] \in Snapshot
          BY <2>1
    <3>3. NewestIsShown'
          BY <1>0, <1>s, <2>1, <2>3, <2>4, <3>1 DEF NewestIsShown
    <3> QED BY <1>0, <1>s, <2>1, <2>3, <2>4, <3>1, <3>2, <3>3 DEF SnapshotInv, RowTypeOK, QuietUntilReady
  <2>6. CASE SaveFails(n)
    <3>1. undone' /\ UNCHANGED <<current, backup, lastSaved, hasSaved>>
          BY <2>6 DEF SaveFails
    <3> QED BY <1>0, <1>s, <2>1, <2>3, <2>4, <3>1 DEF SnapshotInv, RowTypeOK, QuietUntilReady, NewestIsShown
  <2> QED BY <1>12, <2>5, <2>6
<1>13. ASSUME UNCHANGED snapshotVars PROVE SnapshotInv'
  <2>1. UNCHANGED shellVars /\ UNCHANGED <<phase, lastSaved, timer, saveQueue, current, backup, undone, hasSaved>>
        BY <1>13 DEF snapshotVars, lifecycleVars
  <2> QED BY <1>0, <1>s, <2>1 DEF SnapshotInv, RowTypeOK, QuietUntilReady, NewestIsShown
<1> QED BY <1>1, <1>2, <1>3, <1>4, <1>5, <1>6, <1>7, <1>8, <1>9, <1>10, <1>11, <1>12, <1>13
        DEF SnapshotNext, Saves, Loads

(* Once no save is pending, the row holds what the user sees, for any      *)
(* number of instances, changes, queued saves and starts of the program    *)
(* (useWorkspaceSnapshotLifecycle).                                        *)
THEOREM ShownIsStored == SnapshotSpec => []IdleIsStored
<1>1. SnapshotInit => SnapshotInv
  <2> SUFFICES ASSUME SnapshotInit PROVE SnapshotInv
      OBVIOUS
  <2>1. ShellTypeOK /\ RowTypeOK /\ QuietUntilReady /\ NewestIsShown
        BY DEF SnapshotInit, ShellTypeOK, RowTypeOK, QuietUntilReady, NewestIsShown
  <2> QED BY <2>1 DEF SnapshotInit, SnapshotInv
<1>2. SnapshotInv => IdleIsStored
    BY DEF SnapshotInv, NewestIsShown, IdleIsStored
<1> QED BY <1>1, <1>2, SnapshotStep, PTL DEF SnapshotSpec

-----------------------------------------------------------------------------
(* DockerPanel.                                                            *)

RunStates == [Reads -> [inFlight : BOOLEAN, pending : BOOLEAN, runId : Nat]]

\* Enough to tell two reads of a list, and the two phases of a call, apart.
DockerInv ==
    /\ runState \in RunStates
    /\ \A c \in calling : "op" \in DOMAIN c

LEMMA RefreshKeeps ==
    ASSUME NEW m, NEW s, NEW l, NEW of, NEW q \in BOOLEAN, NEW d, s.run \in RunStates
    PROVE  runRefreshFor(m, s, l, of, q, d).run \in RunStates
<1> DEFINE state == s.run[l]
           next == IF state.inFlight
                   THEN [inFlight |-> TRUE, pending |-> state.pending \/ q, runId |-> state.runId]
                   ELSE [inFlight |-> TRUE, pending |-> FALSE, runId |-> state.runId + 1]
<1>1. runRefreshFor(m, s, l, of, q, d).run = [s.run EXCEPT ![l] = next]
    BY DEF runRefreshFor
<1>2. CASE l \in Reads
  <2>1. state \in [inFlight : BOOLEAN, pending : BOOLEAN, runId : Nat]
        BY <1>2 DEF RunStates
  <2>2. next \in [inFlight : BOOLEAN, pending : BOOLEAN, runId : Nat]
    <3>1. state.runId \in Nat /\ (state.pending \/ q) \in BOOLEAN
          BY <2>1
    <3> HIDE DEF state
    <3> QED BY <3>1
  <2> HIDE DEF next
  <2> QED BY <1>1, <2>2 DEF RunStates
<1>3. CASE l \notin Reads
  <2> HIDE DEF next
  <2>1. [s.run EXCEPT ![l] = next] = s.run
        BY <1>3 DEF RunStates
  <2> QED BY <1>1, <2>1
<1> QED BY <1>2, <1>3

\* The state of the list of a read that has come back.
LEMMA AfterReadIs ==
    ASSUME NEW r, runState \in RunStates
    PROVE  /\ AfterRead(r).run \in RunStates
           /\ runState[r.list].runId = r.runId /\ r.list \in Reads => r \notin AfterRead(r).on
<1> DEFINE rest == reading \ {r}
           state == runState[r.list]
           free == [inFlight |-> FALSE, pending |-> state.pending, runId |-> state.runId]
           s == [run |-> [runState EXCEPT ![r.list] = free], on |-> rest]
           again == runRefreshFor(r.mark, s, r.list, r.of, FALSE, r.preserveDirty)
<1>1. AfterRead(r) = IF r.owner # dockerOf THEN [run |-> runState, on |-> rest]
                     ELSE IF state.pending /\ r.of = dockerOf THEN again ELSE s
    BY DEF AfterRead
<1>2. s.run \in RunStates
  <2>1. CASE r.list \in Reads
    <3>1. state \in [inFlight : BOOLEAN, pending : BOOLEAN, runId : Nat]
          BY <2>1 DEF RunStates
    <3>2. free \in [inFlight : BOOLEAN, pending : BOOLEAN, runId : Nat]
      <4> HIDE DEF state
      <4> QED BY <3>1
    <3> HIDE DEF free
    <3> QED BY <3>2 DEF RunStates
  <2>2. CASE r.list \notin Reads
    <3> HIDE DEF free
    <3> QED BY <2>2 DEF RunStates
  <2> QED BY <2>1, <2>2
<1>3. again.run \in RunStates
  <2> HIDE DEF s
  <2> QED BY <1>2, RefreshKeeps
<1>4. ASSUME runState[r.list].runId = r.runId, r.list \in Reads PROVE r \notin again.on
  <2> DEFINE new == [list |-> r.list, of |-> r.of, runId |-> r.runId + 1, preserveDirty |-> r.preserveDirty,
                     owner |-> dockerOf, from |-> IF r.list = "config" THEN hostText ELSE Never, mark |-> r.mark]
  <2>1. r.runId \in Nat /\ free.runId = r.runId
        BY <1>4 DEF RunStates
  <2>2. s.run[r.list] = free /\ ~free.inFlight
        BY <1>4 DEF RunStates
  <2>3. again.on = rest \cup {new}
    <3>1. s.run[r.list].runId = r.runId /\ ~s.run[r.list].inFlight /\ s.on = rest
          BY <2>1, <2>2
    <3> HIDE DEF s, rest
    <3> QED BY <3>1 DEF runRefreshFor
  <2>4. new.runId = r.runId + 1
        OBVIOUS
  <2>5. new # r
        BY <2>1, <2>4
  <2> HIDE DEF new, again
  <2> QED BY <2>3, <2>5
<1> HIDE DEF again, s, state
<1>5. AfterRead(r).run \in RunStates
    BY <1>1, <1>2, <1>3
<1>6. s.on = rest
    BY DEF s
<1> QED BY <1>1, <1>4, <1>5, <1>6

LEMMA CallStep ==
    ASSUME DockerInv, NEW m, NEW op, NEW l, NEW text, Call(m, op, l, text)
    PROVE  DockerInv' /\ UNCHANGED engineConfigDraft
<1> DEFINE c == [mark |-> m, op |-> op, list |-> l, of |-> dockerOf, text |-> text, ran |-> text = Never]
<1>1. calling' = calling \cup {c} /\ UNCHANGED <<runState, engineConfigDraft>>
    BY DEF Call, refreshVars, configVars
<1>2. "op" \in DOMAIN c
    OBVIOUS
<1> HIDE DEF c
<1> QED BY <1>1, <1>2 DEF DockerInv

\* What one step does to the draft, and what it leaves of the invariant.
LEMMA DockerStep ==
    ASSUME DockerInv, [DockerNext]_dockerVars
    PROVE  /\ DockerInv'
           /\ configDirty /\ dockerOf' = dockerOf /\ engineConfigDraft' # engineConfigDraft =>
                \/ reading' = reading /\ calling' = calling
                \/ \E c \in calling \ calling' : c.op = "save"
                \/ \E r \in reading \ reading' : ~r.preserveDirty
<1> DEFINE Kept == configDirty /\ dockerOf' = dockerOf /\ engineConfigDraft' # engineConfigDraft =>
                     \/ reading' = reading /\ calling' = calling
                     \/ \E c \in calling \ calling' : c.op = "save"
                     \/ \E r \in reading \ reading' : ~r.preserveDirty
           Quiet == DockerInv' /\ UNCHANGED engineConfigDraft
<1>q. Quiet => DockerInv' /\ Kept
    OBVIOUS
<1>u. ASSUME UNCHANGED <<runState, calling, engineConfigDraft>> PROVE Quiet
    BY <1>u DEF DockerInv
<1>s. Refreshes.run \in RunStates
    BY DEF Refreshes, DockerInv
<1> USE DEF refreshVars, configVars, callVars, detailVars, viewVars
<1>1. ASSUME planDockerInitialRefresh PROVE Quiet
  <2>1. UNCHANGED <<calling, engineConfigDraft>> /\
        (UNCHANGED runState \/ runState' = runRefresh(Refreshes, dockerView, dockerOf, FALSE, FALSE).run)
        BY <1>1 DEF planDockerInitialRefresh, RefreshesAre
  <2> QED BY <1>s, <2>1, RefreshKeeps DEF DockerInv, runRefresh
<1>2. ASSUME EngineIsShown PROVE Quiet
  <2>1. UNCHANGED <<calling, engineConfigDraft>> /\ runState' = refreshEngineView(Refreshes).run
        BY <1>2 DEF EngineIsShown, RefreshesAre
  <2>2. runState' \in RunStates
        BY <1>s, <2>1, RefreshKeeps DEF refreshEngineView, runRefresh
  <2> QED BY <2>1, <2>2 DEF DockerInv
<1>3. ASSUME shouldRunDockerAutoRefresh PROVE Quiet
  <2> DEFINE s == runRefresh(Refreshes, dockerView, dockerOf, TRUE, FALSE)
  <2>1. UNCHANGED <<calling, engineConfigDraft>> /\
        runState' = (IF dockerView = "engine" /\ engineConfig = Never
                     THEN runRefresh(s, "config", dockerOf, FALSE, TRUE) ELSE s).run
        BY <1>3 DEF shouldRunDockerAutoRefresh, RefreshesAre, Only
  <2>2. s.run \in RunStates
        BY <1>s, RefreshKeeps DEF runRefresh
  <2> HIDE DEF s
  <2>3. runRefresh(s, "config", dockerOf, FALSE, TRUE).run \in RunStates
        BY <2>2, RefreshKeeps DEF runRefresh
  <2> QED BY <2>1, <2>2, <2>3 DEF DockerInv
<1>4. ASSUME refreshCurrentDockerView PROVE Quiet
  <2>1. UNCHANGED <<calling, engineConfigDraft>> /\
        runState' = (IF dockerView = "engine" THEN refreshEngineView(Refreshes)
                     ELSE runRefresh(Refreshes, dockerView, dockerOf, FALSE, FALSE)).run
        BY <1>4 DEF refreshCurrentDockerView, RefreshesAre, Only
  <2>2. refreshEngineView(Refreshes).run \in RunStates
        BY <1>s, RefreshKeeps DEF refreshEngineView, runRefresh
  <2>3. runRefresh(Refreshes, dockerView, dockerOf, FALSE, FALSE).run \in RunStates
        BY <1>s, RefreshKeeps DEF runRefresh
  <2> QED BY <2>1, <2>2, <2>3 DEF DockerInv
<1>5. ASSUME onRefreshConfig PROVE Quiet
  <2>1. UNCHANGED <<calling, engineConfigDraft>> /\ runState' = runRefresh(Refreshes, "config", dockerOf, FALSE, FALSE).run
        BY <1>5 DEF onRefreshConfig, RefreshesAre, Only
  <2> QED BY <1>s, <2>1, RefreshKeeps DEF DockerInv, runRefresh
<1>6. ASSUME NEW r \in reading, NEW ok \in BOOLEAN, ListReturns(r, ok) PROVE Quiet
  <2>1. UNCHANGED <<calling, engineConfigDraft>> /\ runState' = AfterRead(r).run
        BY <1>6 DEF ListReturns, RefreshesAre
  <2> QED BY <2>1, AfterReadIs DEF DockerInv
<1>7. ASSUME NEW r \in reading, NEW a, ConfigReturns(r, a) PROVE DockerInv' /\ Kept
  <2>1. UNCHANGED calling /\ runState' = AfterRead(r).run /\ reading' = AfterRead(r).on /\ r.list = "config"
        BY <1>7 DEF ConfigReturns, RefreshesAre
  <2>2. DockerInv'
        BY <2>1, AfterReadIs DEF DockerInv
  <2>3. engineConfigDraft' # engineConfigDraft => isCurrentRefresh(r) /\ ~(r.preserveDirty /\ configDirty)
        BY <1>7 DEF ConfigReturns
  <2>4. isCurrentRefresh(r) => r \notin reading'
        BY <2>1, AfterReadIs DEF isCurrentRefresh, DockerInv, Reads
  <2> QED BY <2>2, <2>3, <2>4
<1>8. ASSUME \/ runContainerAction \/ confirmRemoveContainer \/ confirmRemoveImage \/ runEngineAction
             \/ submitPullImage \/ submitImageRun \/ saveEngineConfig
             \/ updateContainerRestartPolicy \/ connectContainerNetwork
      PROVE  Quiet
    BY <1>8, CallStep DEF runContainerAction, confirmRemoveContainer, confirmRemoveImage, runEngineAction,
         submitPullImage, submitImageRun, saveEngineConfig, updateContainerRestartPolicy, connectContainerNetwork
<1>9. ASSUME closeContainerDetail \/ openContainerDetail PROVE Quiet
    BY <1>9, <1>u DEF closeContainerDetail, openContainerDetail
<1>f. ASSUME NEW m, NEW l, NEW of, Follow(m, l, of) PROVE runState' \in RunStates
  <2>1. runState' = runRefreshFor(m, Refreshes, l, of, FALSE, FALSE).run
        BY <1>f DEF Follow, RefreshesAre
  <2> QED BY <1>s, <2>1, RefreshKeeps
<1>10. ASSUME NEW d \in inspecting, DetailReturns(d) PROVE Quiet
  <2>1. UNCHANGED <<calling, engineConfigDraft>> /\ (UNCHANGED runState \/ Follow(d.mark, "containers", d.of))
        BY <1>10 DEF DetailReturns
  <2> QED BY <1>f, <2>1 DEF DockerInv
<1>11. ASSUME NEW c \in calling, HostRuns(c) PROVE Quiet
  <2> DEFINE ran == [c EXCEPT !.ran = TRUE]
  <2>1. calling' = (calling \ {c}) \cup {ran} /\ UNCHANGED <<runState, engineConfigDraft>>
        BY <1>11 DEF HostRuns
  <2>2. "op" \in DOMAIN ran
        BY DEF DockerInv
  <2> HIDE DEF ran
  <2> QED BY <2>1, <2>2 DEF DockerInv
<1>12. ASSUME NEW c \in calling, ConfigSaved(c) PROVE DockerInv' /\ Kept
  <2> DEFINE restart == [c EXCEPT !.op = "restart"]
  <2>1. "op" \in DOMAIN restart /\ restart.op = "restart" /\ c.op = "save"
        BY <1>12 DEF DockerInv, ConfigSaved
  <2>2. UNCHANGED runState /\ (calling' = calling \ {c} \/ calling' = (calling \ {c}) \cup {restart})
        BY <1>12 DEF ConfigSaved
  <2> HIDE DEF restart
  <2>3. DockerInv'
        BY <2>1, <2>2 DEF DockerInv
  <2>4. c \in calling \ calling'
        BY <2>1, <2>2
  <2> QED BY <2>1, <2>3, <2>4
<1>13. ASSUME NEW c \in calling, ActionReturns(c) \/ CallReturns(c) \/ DetailCallReturns(c) PROVE Quiet
  <2>1. calling' = calling \ {c} /\ UNCHANGED engineConfigDraft /\ (UNCHANGED runState \/ Follow(c.mark, c.list, c.of))
        BY <1>13 DEF ActionReturns, CallReturns, DetailCallReturns, Resumed
  <2> QED BY <1>f, <2>1 DEF DockerInv
<1>14. ASSUME SeenChanges \/ \E l \in DockerLists : changeDockerView(l) PROVE Quiet
    BY <1>14, <1>u DEF changeDockerView, SeenChanges
<1>15. ASSUME NEW x \in Drafts, changeEngineConfigDraft(x) PROVE DockerInv' /\ Kept
  <2>1. UNCHANGED <<runState, reading, calling>>
        BY <1>15 DEF changeEngineConfigDraft
  <2> QED BY <2>1 DEF DockerInv
<1>16. ASSUME ConnectionIsSaved PROVE DockerInv' /\ Kept
  <2>1. dockerOf' # dockerOf /\ UNCHANGED calling /\ runState' = [l \in Reads |-> createRefreshRunState]
        BY <1>16 DEF ConnectionIsSaved
  <2> QED BY <2>1 DEF DockerInv, RunStates, createRefreshRunState
<1>17. ASSUME UNCHANGED dockerVars PROVE Quiet
    BY <1>17, <1>u DEF dockerVars
<1> HIDE DEF Kept, Quiet
<1>18. DockerInv' /\ Kept
    BY <1>q, <1>1, <1>2, <1>3, <1>4, <1>5, <1>6, <1>7, <1>8, <1>9, <1>10, <1>11, <1>12, <1>13, <1>14, <1>15, <1>16, <1>17
       DEF DockerNext
<1> QED BY <1>18 DEF Kept

(* An edited engine configuration is replaced only by typing, by the       *)
(* answer of a save, by the user's own reload, or with the connection, for *)
(* any number of reads and calls (refreshEngineConfig, saveEngineConfig).  *)
THEOREM DraftStaysKept == DockerSpec => DraftIsKept
<1>1. DockerInit => DockerInv
  <2> SUFFICES ASSUME DockerInit PROVE DockerInv
      OBVIOUS
  <2>1. runState = [l \in Reads |-> createRefreshRunState] /\ calling = {}
        BY DEF DockerInit
  <2> QED BY <2>1 DEF DockerInv, RunStates, createRefreshRunState
<1>2. DockerInv /\ [DockerNext]_dockerVars => DockerInv'
    BY DockerStep
<1>3. DockerInv /\ [DockerNext]_dockerVars =>
        [configDirty /\ dockerOf' = dockerOf /\ engineConfigDraft' # engineConfigDraft =>
           \/ reading' = reading /\ calling' = calling
           \/ \E c \in calling \ calling' : c.op = "save"
           \/ \E r \in reading \ reading' : ~r.preserveDirty]_dockerVars
    BY DockerStep
<1> QED BY <1>1, <1>2, <1>3, PTL DEF DockerSpec, DraftIsKept

-----------------------------------------------------------------------------
(* The output of a terminal is a sequence that moves, piece by piece, from *)
(* the capture to the screen.                                              *)

Chunk == {1, 2} \X Nat
Chunks == Seq(Chunk)
Cat(s, t) == s \o t
Beyond(w, n) == SubSeq(w, n + 1, Len(w))

\* What a screen shows once everything under way is written.
Line(scr, P, B, R, K) == Cat(scr, Cat(Cat(Cat(P, B), R), K))

LEMMA CatIs == \A s, t \in Chunks : Cat(s, t) \in Chunks
BY ConcatProperties DEF Chunks, Cat

LEMMA CatEmpty == <<>> \in Chunks /\ \A s \in Chunks : Cat(s, <<>>) = s /\ Cat(<<>>, s) = s
BY ConcatEmptySeq DEF Chunks, Cat

LEMMA CatAssoc == \A s, t, u \in Chunks : Cat(Cat(s, t), u) = Cat(s, Cat(t, u))
<1> SUFFICES ASSUME NEW s \in Chunks, NEW t \in Chunks, NEW u \in Chunks PROVE Cat(Cat(s, t), u) = Cat(s, Cat(t, u))
    OBVIOUS
<1> QED BY ConcatAssociative DEF Chunks, Cat

LEMMA LenIs == \A s \in Chunks : Len(s) \in Nat /\ (Len(s) = 0 <=> s = <<>>)
BY EmptySeq, LenProperties DEF Chunks

LEMMA LenOfCat == \A s, t \in Chunks : Len(Cat(s, t)) = Len(s) + Len(t)
BY ConcatProperties DEF Chunks, Cat

LEMMA AppendIs == \A s \in Chunks, c \in Chunk : Append(s, c) = Cat(s, <<c>>) /\ <<c>> \in Chunks /\ <<c>> # <<>>
<1> SUFFICES ASSUME NEW s \in Chunks, NEW c \in Chunk PROVE Append(s, c) = Cat(s, <<c>>) /\ <<c>> \in Chunks /\ <<c>> # <<>>
    OBVIOUS
<1>1. <<c>> \in Chunks /\ <<c>> # <<>>
    BY DEF Chunks
<1>2. Append(s, c) = s \o <<c>>
    BY AppendIsConcat DEF Chunks
<1> QED BY <1>1, <1>2 DEF Cat

\* The part of the tab's output that the panel has not taken.
LEMMA BeyondIs ==
    \A w \in Chunks, n \in Nat :
       /\ Beyond(w, n) \in Chunks
       /\ Len(w) <= n => Beyond(w, n) = <<>>
       /\ n < Len(w) => Beyond(w, n) # <<>>
<1> SUFFICES ASSUME NEW w \in Chunks, NEW n \in Nat
             PROVE  /\ Beyond(w, n) \in Chunks
                    /\ Len(w) <= n => Beyond(w, n) = <<>>
                    /\ n < Len(w) => Beyond(w, n) # <<>>
    OBVIOUS
<1>1. Beyond(w, n) \in Chunks
    BY LenIs, SubSeqProperties DEF Beyond, Chunks
<1>2. Len(w) <= n => Beyond(w, n) = <<>>
    BY LenIs, SubSeqProperties, EmptySeq DEF Beyond, Chunks
<1>3. n < Len(w) => Beyond(w, n) # <<>>
    BY LenIs, SubSeqProperties, EmptySeq DEF Beyond, Chunks
<1> QED BY <1>1, <1>2, <1>3

LEMMA BeyondAll == \A w \in Chunks : Beyond(w, 0) = w
<1> SUFFICES ASSUME NEW w \in Chunks PROVE Beyond(w, 0) = w
    OBVIOUS
<1> QED BY LenIs, SubSeqFull DEF Beyond, Chunks

LEMMA BeyondGrows ==
    ASSUME NEW w \in Chunks, NEW x \in Chunks, NEW n \in Nat, n <= Len(w)
    PROVE  Beyond(Cat(w, x), n) = Cat(Beyond(w, n), x)
<1>1. Cat(w, x) \in Chunks /\ Beyond(w, n) \in Chunks
    BY CatIs, BeyondIs
<1>2. Len(Cat(w, x)) = Len(w) + Len(x)
    BY LenOfCat
<1> DEFINE lhs == Beyond(Cat(w, x), n)
           rhs == Cat(Beyond(w, n), x)
<1>3. lhs \in Chunks /\ rhs \in Chunks
    BY <1>1, CatIs, BeyondIs
<1>4. Len(w) \in Nat /\ Len(x) \in Nat
    BY LenIs
<1>5. /\ Len(lhs) = Len(w) + Len(x) - n
      /\ \A i \in 1 .. Len(w) + Len(x) - n : lhs[i] = Cat(w, x)[n + i]
  <2> DEFINE wx == Cat(w, x)
  <2>1. \A i \in 1 .. Len(wx) : wx[i] \in Chunk
        BY <1>1, ElementOfSeq DEF Chunks
  <2>2. Len(wx) = Len(w) + Len(x)
        BY <1>2
  <2> HIDE DEF wx
  <2>3. \A i \in n + 1 .. Len(wx) : wx[i] \in Chunk
        BY <1>4, <2>1, <2>2
  <2>4. /\ Len(SubSeq(wx, n + 1, Len(wx))) = IF n + 1 <= Len(wx) THEN Len(wx) - (n + 1) + 1 ELSE 0
        /\ \A i \in 1 .. Len(wx) - (n + 1) + 1 : SubSeq(wx, n + 1, Len(wx))[i] = wx[(n + 1) + i - 1]
        BY <1>4, <2>2, <2>3, SubSeqProperties
  <2>5. /\ Len(Beyond(wx, n)) = Len(w) + Len(x) - n
        /\ \A i \in 1 .. Len(w) + Len(x) - n : Beyond(wx, n)[i] = wx[n + i]
        BY <1>4, <2>2, <2>4 DEF Beyond
  <2> QED BY <2>5 DEF wx
<1>6. /\ Len(Beyond(w, n)) = Len(w) - n
      /\ \A i \in 1 .. Len(w) - n : Beyond(w, n)[i] = w[n + i]
  <2>1. \A i \in n + 1 .. Len(w) : w[i] \in Chunk
        BY <1>4, ElementOfSeq DEF Chunks
  <2>2. /\ Len(SubSeq(w, n + 1, Len(w))) = IF n + 1 <= Len(w) THEN Len(w) - (n + 1) + 1 ELSE 0
        /\ \A i \in 1 .. Len(w) - (n + 1) + 1 : SubSeq(w, n + 1, Len(w))[i] = w[(n + 1) + i - 1]
        BY <1>4, <2>1, SubSeqProperties
  <2> QED BY <1>4, <2>2 DEF Beyond
<1>7. \A i \in 1 .. Len(w) + Len(x) : Cat(w, x)[i] = IF i <= Len(w) THEN w[i] ELSE x[i - Len(w)]
    BY ConcatProperties DEF Cat, Chunks
<1>8. /\ Len(rhs) = (Len(w) - n) + Len(x)
      /\ \A i \in 1 .. (Len(w) - n) + Len(x) :
            rhs[i] = IF i <= Len(w) - n THEN Beyond(w, n)[i] ELSE x[i - (Len(w) - n)]
  <2> DEFINE b == Beyond(w, n)
  <2>1. b \in Seq(Chunk) /\ x \in Seq(Chunk) /\ Len(b) = Len(w) - n
        BY <1>1, <1>6 DEF Chunks
  <2> HIDE DEF b
  <2>2. /\ Len(b \o x) = Len(b) + Len(x)
        /\ \A i \in 1 .. Len(b) + Len(x) : (b \o x)[i] = IF i <= Len(b) THEN b[i] ELSE x[i - Len(b)]
        BY <2>1, ConcatProperties
  <2>3. /\ Len(Cat(b, x)) = (Len(w) - n) + Len(x)
        /\ \A i \in 1 .. (Len(w) - n) + Len(x) :
              Cat(b, x)[i] = IF i <= Len(w) - n THEN b[i] ELSE x[i - (Len(w) - n)]
        BY <2>1, <2>2 DEF Cat
  <2> QED BY <2>3 DEF b
<1> HIDE DEF lhs, rhs
<1>9. \A i \in 1 .. Len(lhs) : lhs[i] = rhs[i]
  <2> TAKE i \in 1 .. Len(lhs)
  <2>1. lhs[i] = IF n + i <= Len(w) THEN w[n + i] ELSE x[n + i - Len(w)]
    <3>1. n + i \in 1 .. Len(w) + Len(x) /\ i \in 1 .. Len(w) + Len(x) - n
          BY <1>4, <1>5
    <3>2. lhs[i] = Cat(w, x)[n + i]
          BY <1>5, <3>1
    <3> QED BY <1>7, <3>1, <3>2
  <2>2. rhs[i] = IF n + i <= Len(w) THEN w[n + i] ELSE x[n + i - Len(w)]
    <3>1. CASE n + i <= Len(w)
          BY <1>4, <1>5, <1>6, <1>8, <3>1
    <3>2. CASE n + i > Len(w)
      <4>1. i - (Len(w) - n) = n + i - Len(w)
            BY <1>4, <1>5
      <4> QED BY <1>4, <1>5, <1>8, <3>2, <4>1
    <3> QED BY <1>4, <1>5, <3>1, <3>2
  <2> QED BY <2>1, <2>2
<1>10. Len(lhs) = Len(rhs)
    BY <1>4, <1>5, <1>8
<1>11. lhs = rhs
    BY <1>3, <1>9, <1>10, SeqEqual DEF Chunks
<1> QED BY <1>11 DEF lhs, rhs

LEMMA BeyondOfTaken ==
    ASSUME NEW w \in Chunks, NEW n \in Nat, n <= Len(w)
    PROVE  /\ SubSeq(w, 1, n) \in Chunks
           /\ w = Cat(SubSeq(w, 1, n), Beyond(w, n))
<1>1. SubSeq(w, 1, n) \in Chunks /\ SubSeq(w, n + 1, Len(w)) \in Chunks
    BY LenIs, SubSeqProperties DEF Chunks
<1>2. Len(w) \in Nat /\ 1 \in 1 .. Len(w) + 1 /\ n \in 1 - 1 .. Len(w) /\ Len(w) \in n .. Len(w)
    BY LenIs
<1>3. SubSeq(w, 1, n) \o SubSeq(w, n + 1, Len(w)) = SubSeq(w, 1, Len(w))
    BY <1>2, ConcatAdjacentSubSeq DEF Chunks
<1>4. SubSeq(w, 1, Len(w)) = w
    BY SubSeqFull DEF Chunks
<1> QED BY <1>1, <1>3, <1>4 DEF Beyond, Cat

\* The parts under way, appended to or moved on.
LEMMA CatLast == \A s, q, k, x \in Chunks : Cat(s, Cat(q, Cat(k, x))) = Cat(Cat(s, Cat(q, k)), x)
<1> TAKE s, q, k, x \in Chunks
<1>1. Cat(q, k) \in Chunks
    BY CatIs
<1> QED BY <1>1, CatAssoc

LEMMA LineGrowsRest ==
    ASSUME NEW scr \in Chunks, NEW P \in Chunks, NEW B \in Chunks, NEW R \in Chunks, NEW X \in Chunks
    PROVE  Line(scr, P, B, Cat(R, X), <<>>) = Cat(Line(scr, P, B, R, <<>>), X)
<1> DEFINE Q == Cat(P, B)
<1>1. Q \in Chunks
    BY CatIs
<1> HIDE DEF Q
<1>2. Cat(Q, Cat(R, X)) \in Chunks /\ Cat(Q, R) \in Chunks
    BY <1>1, CatIs
<1>3. Cat(Cat(Q, Cat(R, X)), <<>>) = Cat(Q, Cat(R, X)) /\ Cat(Cat(Q, R), <<>>) = Cat(Q, R)
    BY <1>2, CatEmpty
<1>4. Cat(scr, Cat(Q, Cat(R, X))) = Cat(Cat(scr, Cat(Q, R)), X)
    BY <1>1, CatLast
<1> QED BY <1>3, <1>4 DEF Line, Q

LEMMA LineGrowsFirst ==
    ASSUME NEW scr \in Chunks, NEW P \in Chunks, NEW X \in Chunks
    PROVE  Line(scr, Cat(P, X), <<>>, <<>>, <<>>) = Cat(Line(scr, P, <<>>, <<>>, <<>>), X)
<1>1. Cat(P, X) \in Chunks
    BY CatIs
<1>2. Cat(Cat(P, X), <<>>) = Cat(P, X) /\ Cat(P, <<>>) = P
    BY <1>1, CatEmpty
<1>3. Cat(scr, Cat(P, X)) = Cat(Cat(scr, P), X)
    BY CatAssoc
<1> QED BY <1>2, <1>3 DEF Line

LEMMA LineMoves ==
    ASSUME NEW scr \in Chunks, NEW P \in Chunks, NEW B \in Chunks, NEW R \in Chunks, NEW K \in Chunks
    PROVE  /\ Line(scr, Cat(P, B), <<>>, R, K) = Line(scr, P, B, R, K)
           /\ Line(scr, P, Cat(B, R), <<>>, K) = Line(scr, P, B, R, K)
<1>1. Cat(P, B) \in Chunks /\ Cat(Cat(P, B), R) \in Chunks
    BY CatIs
<1>2. Cat(Cat(P, B), <<>>) = Cat(P, B) /\ Cat(Cat(Cat(P, B), R), <<>>) = Cat(Cat(P, B), R)
    BY <1>1, CatEmpty
<1>3. Cat(P, Cat(B, R)) = Cat(Cat(P, B), R)
    BY CatAssoc
<1> QED BY <1>2, <1>3 DEF Line

LEMMA LineSlides ==
    ASSUME NEW scr \in Chunks, NEW P \in Chunks, NEW B \in Chunks, NEW R \in Chunks
    PROVE  /\ Line(scr, Cat(P, R), <<>>, <<>>, <<>>) = Line(scr, P, <<>>, R, <<>>)
           /\ Line(scr, P, R, <<>>, <<>>) = Line(scr, P, <<>>, R, <<>>)
           /\ Line(scr, P, B, R, <<>>) = Line(scr, P, B, <<>>, R)
<1>1. Cat(P, B) \in Chunks /\ Cat(P, R) \in Chunks /\ Cat(Cat(P, B), R) \in Chunks
    BY CatIs
<1>2. /\ Cat(Cat(P, B), <<>>) = Cat(P, B) /\ Cat(Cat(P, R), <<>>) = Cat(P, R) /\ Cat(P, <<>>) = P
      /\ Cat(Cat(Cat(P, B), R), <<>>) = Cat(Cat(P, B), R)
    BY <1>1, CatEmpty
<1> QED BY <1>2 DEF Line

LEMMA LineWrites ==
    ASSUME NEW scr \in Chunks, NEW P \in Chunks, NEW B \in Chunks, NEW R \in Chunks, NEW K \in Chunks, NEW X \in Chunks
    PROVE  Line(Cat(scr, X), P, B, R, K) = Line(scr, Cat(X, P), B, R, K)
<1>1. /\ Cat(P, B) \in Chunks /\ Cat(Cat(P, B), R) \in Chunks /\ Cat(Cat(Cat(P, B), R), K) \in Chunks
    BY CatIs
<1>2. Cat(Cat(X, P), B) = Cat(X, Cat(P, B))
    BY CatAssoc
<1>3. Cat(Cat(X, Cat(P, B)), R) = Cat(X, Cat(Cat(P, B), R))
    BY <1>1, CatAssoc
<1>4. Cat(Cat(X, Cat(Cat(P, B), R)), K) = Cat(X, Cat(Cat(Cat(P, B), R), K))
    BY <1>1, CatAssoc
<1>5. Cat(Cat(scr, X), Cat(Cat(Cat(P, B), R), K)) = Cat(scr, Cat(X, Cat(Cat(Cat(P, B), R), K)))
    BY <1>1, CatAssoc
<1> QED BY <1>2, <1>3, <1>4, <1>5 DEF Line

\* The chunks of a sequence.
LEMMA SetOfCat == \A s, t \in Chunks : ToSet(Cat(s, t)) = ToSet(s) \cup ToSet(t)
<1> SUFFICES ASSUME NEW s \in Chunks, NEW t \in Chunks PROVE ToSet(Cat(s, t)) = ToSet(s) \cup ToSet(t)
    OBVIOUS
<1> DEFINE u == s \o t
<1>1. /\ Len(s) \in Nat /\ Len(t) \in Nat /\ DOMAIN s = 1 .. Len(s) /\ DOMAIN t = 1 .. Len(t)
      /\ DOMAIN u = 1 .. Len(s) + Len(t)
      /\ \A i \in 1 .. Len(s) + Len(t) : u[i] = IF i <= Len(s) THEN s[i] ELSE t[i - Len(s)]
    BY ConcatProperties, LenProperties DEF Chunks
<1> HIDE DEF u
<1>2. \A i \in DOMAIN u : u[i] \in ToSet(s) \cup ToSet(t)
  <2> TAKE i \in DOMAIN u
  <2>1. CASE i <= Len(s)
        BY <1>1, <2>1 DEF ToSet
  <2>2. CASE i > Len(s)
    <3>1. i - Len(s) \in 1 .. Len(t) /\ u[i] = t[i - Len(s)]
          BY <1>1, <2>2
    <3> QED BY <1>1, <3>1 DEF ToSet
  <2> QED BY <1>1, <2>1, <2>2
<1>3. \A i \in DOMAIN s : s[i] \in ToSet(u)
  <2> TAKE i \in DOMAIN s
  <2>1. i \in DOMAIN u /\ u[i] = s[i]
        BY <1>1
  <2> QED BY <2>1 DEF ToSet
<1>4. \A i \in DOMAIN t : t[i] \in ToSet(u)
  <2> TAKE i \in DOMAIN t
  <2>1. Len(s) + i \in 1 .. Len(s) + Len(t) /\ ~(Len(s) + i <= Len(s)) /\ (Len(s) + i) - Len(s) = i
        BY <1>1
  <2>2. Len(s) + i \in DOMAIN u /\ u[Len(s) + i] = t[i]
        BY <1>1, <2>1
  <2> QED BY <2>2 DEF ToSet
<1>5. ToSet(u) = ToSet(s) \cup ToSet(t)
    BY <1>2, <1>3, <1>4 DEF ToSet
<1> QED BY <1>5 DEF u, Cat

LEMMA SetOfSome == ToSet(<<>>) = {} /\ \A c : ToSet(<<c>>) = {c}
BY DEF ToSet

LEMMA SetOfFour ==
    ASSUME NEW P \in Chunks, NEW B \in Chunks, NEW R \in Chunks, NEW K \in Chunks
    PROVE  ToSet(Cat(Cat(Cat(P, B), R), K)) = ToSet(P) \cup ToSet(B) \cup ToSet(R) \cup ToSet(K)
<1>1. Cat(P, B) \in Chunks /\ Cat(Cat(P, B), R) \in Chunks
    BY CatIs
<1>2. ToSet(Cat(Cat(Cat(P, B), R), K)) = ToSet(Cat(Cat(P, B), R)) \cup ToSet(K)
    BY <1>1, SetOfCat
<1>3. ToSet(Cat(Cat(P, B), R)) = ToSet(Cat(P, B)) \cup ToSet(R)
    BY <1>1, SetOfCat
<1>4. ToSet(Cat(P, B)) = ToSet(P) \cup ToSet(B)
    BY SetOfCat
<1> QED BY <1>2, <1>3, <1>4

Rest == Beyond(warmupOutput, initialOutputWritten)

OutputTypeOK ==
    /\ late \subseteq {"commit", "listener", "reconnect", "stop"}
    /\ arrived \in [{1, 2} -> Nat]
    /\ capture \in {"array", "append", "stopped"}
    /\ captured \in Chunks /\ warmupOutput \in Chunks /\ initialOutput \in Chunks
    /\ outputPanel \in {"none", "mounted", "unmounted"}
    /\ outputListener \in {"none", "registered", "ready"}
    /\ startupBuffering \in BOOLEAN /\ startupBuffer \in Chunks /\ flushTimer \in BOOLEAN
    /\ initialOutputWritten \in Nat
    /\ shownSession \in {0, 1, 2} /\ activeRequest \in {1, 2} /\ outputReconnecting \in BOOLEAN
    /\ pendingOutput \in Chunks /\ scheduled \in BOOLEAN /\ writing \in BOOLEAN /\ disposed \in BOOLEAN
    /\ screen \in Chunks /\ owed \in Chunks

\* Before the panel is mounted, and after it is unmounted, nothing of it is at work.
PanelOK ==
    /\ capture = "array" => outputPanel = "none" /\ warmupOutput = <<>>
    /\ capture # "array" => captured = <<>>
    /\ outputPanel = "none" =>
          /\ outputListener = "none" /\ ~startupBuffering /\ startupBuffer = <<>> /\ ~flushTimer
          /\ initialOutputWritten = 0 /\ shownSession = 0 /\ activeRequest = 1 /\ ~outputReconnecting
          /\ pendingOutput = <<>> /\ ~scheduled
    /\ outputPanel = "unmounted" =>
          /\ disposed /\ capture = "stopped" /\ outputListener = "none"
          /\ ~startupBuffering /\ startupBuffer = <<>> /\ ~flushTimer

\* The hand-over: what the panel has taken of the tab's output, and who takes what comes next.
HandOverOK ==
    /\ outputPanel = "mounted" /\ ~startupBuffering => startupBuffer = <<>>
    /\ outputPanel = "mounted" /\ startupBuffering => flushTimer
    /\ outputPanel = "mounted" /\ (activeRequest = 1 \/ outputReconnecting) => initialOutputWritten <= Len(warmupOutput)
    /\ outputPanel = "mounted" => Len(initialOutput) <= initialOutputWritten
    /\ outputPanel = "mounted" /\ activeRequest = 2 => outputListener = "ready" /\ ~startupBuffering
    /\ activeRequest = 2 => shownSession # 1
    /\ outputReconnecting => activeRequest = 2
    /\ "stop" \notin late /\ capture = "stopped" =>
          outputPanel # "none" /\ (outputPanel = "mounted" => outputListener = "ready" /\ ~startupBuffering)
    /\ late = {} /\ outputPanel = "mounted" /\ ~startupBuffering =>
          capture = "stopped" /\ Len(warmupOutput) <= initialOutputWritten

InOrder ==
    late = {} /\ ~disposed => Line(screen, pendingOutput, startupBuffer, Rest, captured) = owed

\* After a reconnect nothing of the new session is in the capture.
NotLost ==
    "stop" \notin late /\ ~disposed =>
       IF activeRequest = 2 THEN ToSet(owed) \subseteq ToSet(screen) \cup ToSet(pendingOutput)
       ELSE ToSet(owed) \subseteq ToSet(screen) \cup ToSet(pendingOutput) \cup ToSet(startupBuffer)
                                    \cup ToSet(Rest) \cup ToSet(captured)

OutputInv == OutputTypeOK /\ PanelOK /\ HandOverOK /\ InOrder /\ NotLost /\ NothingIsStuck

LEMMA RestIs == OutputTypeOK => Rest \in Chunks
BY BeyondIs DEF OutputTypeOK, Rest

\* What a call of enqueue does to the queue.
LEMMA Enqueues ==
    ASSUME OutputTypeOK, NothingIsStuck, NEW data \in Chunks, QueueIs(enqueue(data))
    PROVE  /\ pendingOutput' \in Chunks /\ scheduled' \in BOOLEAN /\ writing' = writing /\ disposed' = disposed
           /\ ~disposed => pendingOutput' = Cat(pendingOutput, data)
           /\ NothingIsStuck'
<1>1. pendingOutput \in Chunks /\ scheduled \in BOOLEAN /\ writing \in BOOLEAN /\ disposed \in BOOLEAN
    BY DEF OutputTypeOK
<1>2. Cat(pendingOutput, data) \in Chunks /\ Cat(pendingOutput, <<>>) = pendingOutput
    BY <1>1, CatIs, CatEmpty
<1>3. CASE disposed \/ data = <<>>
  <2>1. pendingOutput' = pendingOutput /\ scheduled' = scheduled /\ writing' = writing /\ disposed' = disposed
        BY <1>3 DEF QueueIs, enqueue, OutputQueue
  <2> QED BY <1>1, <1>2, <1>3, <2>1 DEF NothingIsStuck
<1>4. CASE ~disposed /\ data # <<>>
  <2> DEFINE q == Cat(pendingOutput, data)
  <2>1. /\ pendingOutput' = q /\ writing' = writing /\ disposed' = disposed
        /\ scheduled' = (scheduled \/ (~disposed /\ ~writing /\ q # <<>>))
        BY <1>4 DEF QueueIs, enqueue, OutputQueue, scheduleNext, Cat
  <2> HIDE DEF q
  <2>2. scheduled' \in BOOLEAN /\ NothingIsStuck'
        BY <1>1, <2>1, Zenon DEF NothingIsStuck
  <2> QED BY <1>1, <1>2, <1>4, <2>1, <2>2 DEF q
<1> QED BY <1>3, <1>4

LEMMA ArrivesOK ==
    ASSUME OutputInv, NEW s \in {1, 2}, OutputArrives(s)
    PROVE  OutputInv'
<1> DEFINE c == <<s, arrived[s] + 1>>
<1>0. OutputTypeOK /\ PanelOK /\ HandOverOK /\ InOrder /\ NotLost /\ NothingIsStuck
    BY DEF OutputInv
<1>1. c \in Chunk
    BY <1>0 DEF OutputTypeOK, Chunk
<1>2. /\ late' \subseteq {"commit", "listener", "reconnect", "stop"} /\ late \subseteq late'
      /\ arrived' \in [{1, 2} -> Nat] /\ (s = 2 => activeRequest = 2)
      /\ capture' = capture /\ initialOutput' = initialOutput /\ outputPanel' = outputPanel
      /\ outputListener' = outputListener /\ startupBuffering' = startupBuffering /\ startupBuffer' = startupBuffer
      /\ flushTimer' = flushTimer /\ initialOutputWritten' = initialOutputWritten
      /\ shownSession' = shownSession /\ activeRequest' = activeRequest
      /\ outputReconnecting' = outputReconnecting /\ screen' = screen
    BY <1>0 DEF OutputArrives, LateWith, listenTerminalOutput, outputSessionVars, OutputTypeOK
<1>3. /\ captured' = IF s = 1 /\ capture = "array" THEN Append(captured, c) ELSE captured
      /\ warmupOutput' = IF s = 1 /\ capture = "append" THEN Append(warmupOutput, c) ELSE warmupOutput
      /\ owed' = IF matchesEvent(s) /\ outputPanel # "unmounted" THEN Append(owed, c) ELSE owed
      /\ IF outputListener # "none" /\ outputPanel = "mounted" /\ matchesEvent(s) /\ ~(startupBuffering /\ s = 1)
         THEN QueueIs(enqueue(<<c>>)) ELSE UNCHANGED queueVars
    BY DEF OutputArrives, appendTerminalWarmupOutput, listenTerminalOutput
<1> DEFINE X == <<c>>
<1>4. /\ X \in Chunks /\ X # <<>> /\ ToSet(X) = {c}
      /\ captured' = IF s = 1 /\ capture = "array" THEN Cat(captured, X) ELSE captured
      /\ warmupOutput' = IF s = 1 /\ capture = "append" THEN Cat(warmupOutput, X) ELSE warmupOutput
      /\ owed' = IF matchesEvent(s) /\ outputPanel # "unmounted" THEN Cat(owed, X) ELSE owed
  <2>1. captured \in Chunks /\ warmupOutput \in Chunks /\ owed \in Chunks
        BY <1>0 DEF OutputTypeOK
  <2>2. /\ Append(captured, c) = Cat(captured, X) /\ Append(warmupOutput, c) = Cat(warmupOutput, X)
        /\ Append(owed, c) = Cat(owed, X) /\ X \in Chunks /\ X # <<>>
        BY <1>1, <2>1, AppendIs
  <2>3. ToSet(X) = {c}
        BY SetOfSome
  <2> HIDE DEF c, X
  <2> QED BY <1>3, <2>2, <2>3
<1> HIDE DEF c, X
<1> DEFINE taken == outputListener # "none" /\ outputPanel = "mounted" /\ matchesEvent(s) /\ ~(startupBuffering /\ s = 1)
<1>5. /\ pendingOutput' \in Chunks /\ scheduled' \in BOOLEAN /\ writing' = writing /\ disposed' = disposed
      /\ ~taken => pendingOutput' = pendingOutput /\ scheduled' = scheduled
      /\ taken /\ ~disposed => pendingOutput' = Cat(pendingOutput, X)
      /\ NothingIsStuck'
  <2>1. CASE taken
    <3>1. QueueIs(enqueue(X))
          BY <1>3, <2>1 DEF X
    <3> QED BY <1>0, <1>4, <2>1, <3>1, Enqueues
  <2>2. CASE ~taken
    <3>1. UNCHANGED queueVars
          BY <1>3, <2>2
    <3> QED BY <1>0, <2>2, <3>1 DEF queueVars, OutputTypeOK, NothingIsStuck
  <2> QED BY <2>1, <2>2
<1> HIDE DEF taken
<1>6. /\ captured \in Chunks /\ warmupOutput \in Chunks /\ owed \in Chunks /\ pendingOutput \in Chunks
      /\ startupBuffer \in Chunks /\ screen \in Chunks /\ initialOutputWritten \in Nat /\ Rest \in Chunks
    BY <1>0, RestIs DEF OutputTypeOK
<1>7. Cat(captured, X) \in Chunks /\ Cat(warmupOutput, X) \in Chunks /\ Cat(owed, X) \in Chunks
    BY <1>4, <1>6, CatIs
<1>8. captured' \in Chunks /\ warmupOutput' \in Chunks /\ owed' \in Chunks
    BY <1>4, <1>6, <1>7
<1>9. OutputTypeOK'
    BY <1>0, <1>2, <1>5, <1>8 DEF OutputTypeOK
<1>10. Len(warmupOutput') \in Nat /\ Len(warmupOutput) \in Nat /\ Len(warmupOutput) <= Len(warmupOutput')
  <2>1. Len(Cat(warmupOutput, X)) = Len(warmupOutput) + Len(X) /\ Len(X) \in Nat /\ Len(warmupOutput) \in Nat
        BY <1>4, <1>6, LenOfCat, LenIs
  <2> QED BY <1>4, <2>1
<1>11. PanelOK'
  <2>1. outputPanel = "none" => ~taken
        BY DEF taken
  <2> QED BY <1>0, <1>2, <1>4, <1>5, <2>1 DEF PanelOK
<1>12. HandOverOK'
  <2>1. CASE warmupOutput' = warmupOutput
        BY <1>0, <1>2, <2>1 DEF HandOverOK
  <2>2. CASE capture = "append"
        BY <1>0, <1>2, <1>6, <1>10, <2>2 DEF HandOverOK
  <2> QED BY <1>4, <2>1, <2>2
<1>13. s = 1 /\ capture = "append" /\ initialOutputWritten <= Len(warmupOutput) => Rest' = Cat(Rest, X)
    BY <1>2, <1>4, <1>6, BeyondGrows DEF Rest
<1>14. ~(s = 1 /\ capture = "append") => Rest' = Rest
    BY <1>2, <1>4 DEF Rest
<1>15. outputPanel = "none" => initialOutputWritten <= Len(warmupOutput)
    BY <1>0, <1>10 DEF PanelOK
<1>16. matchesEvent(s) <=> (s = shownSession \/ s = activeRequest)
    BY DEF matchesEvent
<1>17. shownSession \in {0, 1, 2} /\ activeRequest \in {1, 2}
    BY <1>0 DEF OutputTypeOK
<1>18. outputPanel \in {"none", "mounted", "unmounted"} /\ capture \in {"array", "append", "stopped"}
    BY <1>0 DEF OutputTypeOK
<1>19. InOrder'
  <2> SUFFICES ASSUME late' = {}, ~disposed'
               PROVE  Line(screen', pendingOutput', startupBuffer', Rest', captured') = owed'
        BY DEF InOrder
  <2>1. late = {} /\ ~disposed /\ Line(screen, pendingOutput, startupBuffer, Rest, captured) = owed
        BY <1>0, <1>2, <1>5 DEF InOrder
  <2>2. outputPanel # "unmounted"
        BY <1>0, <2>1 DEF PanelOK
  <2>0. /\ Line(screen, pendingOutput, startupBuffer, Rest, Cat(captured, X))
              = Cat(Line(screen, pendingOutput, startupBuffer, Rest, captured), X)
        /\ Line(screen, pendingOutput, startupBuffer, Cat(Rest, X), <<>>)
              = Cat(Line(screen, pendingOutput, startupBuffer, Rest, <<>>), X)
        /\ Line(screen, Cat(pendingOutput, X), <<>>, <<>>, <<>>)
              = Cat(Line(screen, pendingOutput, <<>>, <<>>, <<>>), X)
    <3>1. X \in Chunks
          BY <1>4
    <3>2. Line(screen, pendingOutput, startupBuffer, Rest, Cat(captured, X))
              = Cat(Line(screen, pendingOutput, startupBuffer, Rest, captured), X)
      <4> DEFINE Q == Cat(Cat(pendingOutput, startupBuffer), Rest)
      <4>1. Q \in Chunks
            BY <1>6, CatIs
      <4> HIDE DEF Q
      <4>2. Cat(screen, Cat(Q, Cat(captured, X))) = Cat(Cat(screen, Cat(Q, captured)), X)
            BY <1>6, <3>1, <4>1, CatLast
      <4> QED BY <4>2 DEF Line, Q
    <3>3. Line(screen, pendingOutput, startupBuffer, Cat(Rest, X), <<>>)
              = Cat(Line(screen, pendingOutput, startupBuffer, Rest, <<>>), X)
          BY <1>6, <3>1, LineGrowsRest
    <3>4. Line(screen, Cat(pendingOutput, X), <<>>, <<>>, <<>>)
              = Cat(Line(screen, pendingOutput, <<>>, <<>>, <<>>), X)
          BY <1>6, <3>1, LineGrowsFirst
    <3> QED BY <3>2, <3>3, <3>4
  <2>3. CASE s = 1 /\ capture = "array"
    <3>1. outputPanel = "none" /\ activeRequest = 1 /\ pendingOutput' = pendingOutput
          BY <1>0, <1>5, <2>3 DEF PanelOK, taken
    <3>2. owed' = Cat(owed, X) /\ captured' = Cat(captured, X) /\ Rest' = Rest
          BY <1>4, <1>14, <1>16, <2>2, <2>3, <3>1
    <3> QED BY <1>2, <2>1, <2>0, <3>1, <3>2
  <2>4. CASE s = 1 /\ capture = "append"
    <3>1. captured = <<>> /\ captured' = <<>>
          BY <1>0, <1>4, <2>4 DEF PanelOK
    <3>2. outputPanel = "mounted" => startupBuffering /\ activeRequest = 1
          BY <1>0, <1>17, <2>1, <2>4 DEF HandOverOK
    <3>3. activeRequest = 1 /\ initialOutputWritten <= Len(warmupOutput)
          BY <1>0, <1>15, <1>18, <2>2, <3>2 DEF PanelOK, HandOverOK
    <3>4. pendingOutput' = pendingOutput
          BY <1>5, <1>18, <2>2, <2>4, <3>2 DEF taken
    <3>5. owed' = Cat(owed, X) /\ Rest' = Cat(Rest, X)
          BY <1>4, <1>13, <1>16, <2>2, <2>4, <3>3
    <3> QED BY <1>2, <2>1, <2>0, <3>1, <3>4, <3>5
  <2>5. CASE s = 2 \/ capture = "stopped"
    <3>1. outputPanel = "mounted"
          BY <1>0, <1>2, <1>18, <2>1, <2>2, <2>5 DEF PanelOK, HandOverOK
    <3>2. outputListener = "ready" /\ ~startupBuffering
          BY <1>0, <1>2, <2>1, <2>5, <3>1 DEF HandOverOK
    <3>3. capture = "stopped" /\ Len(warmupOutput) <= initialOutputWritten /\ startupBuffer = <<>>
          BY <1>0, <2>1, <3>1, <3>2 DEF HandOverOK
    <3>4. Rest = <<>> /\ Rest' = <<>> /\ captured = <<>> /\ captured' = <<>>
          BY <1>0, <1>4, <1>6, <1>14, <3>3, BeyondIs DEF Rest, PanelOK
    <3>5. taken <=> matchesEvent(s)
          BY <3>1, <3>2 DEF taken
    <3>6. CASE matchesEvent(s)
      <4>1. owed' = Cat(owed, X) /\ pendingOutput' = Cat(pendingOutput, X)
            BY <1>4, <1>5, <2>1, <2>2, <3>5, <3>6
      <4> QED BY <1>2, <2>1, <2>0, <3>3, <3>4, <4>1
    <3>7. CASE ~matchesEvent(s)
          BY <1>2, <1>4, <1>5, <2>1, <3>3, <3>4, <3>5, <3>7
    <3> QED BY <3>6, <3>7
  <2> QED BY <1>18, <2>3, <2>4, <2>5
<1>20. NotLost'
  <2> SUFFICES ASSUME "stop" \notin late', ~disposed'
               PROVE  IF activeRequest' = 2 THEN ToSet(owed') \subseteq ToSet(screen') \cup ToSet(pendingOutput')
                      ELSE ToSet(owed') \subseteq ToSet(screen') \cup ToSet(pendingOutput') \cup ToSet(startupBuffer')
                                                    \cup ToSet(Rest') \cup ToSet(captured')
        BY DEF NotLost
  <2>1. "stop" \notin late /\ ~disposed /\ outputPanel # "unmounted"
        BY <1>0, <1>2, <1>5 DEF PanelOK
  <2>2. /\ ToSet(Cat(owed, X)) = ToSet(owed) \cup {c} /\ ToSet(Cat(captured, X)) = ToSet(captured) \cup {c}
        /\ ToSet(Cat(pendingOutput, X)) = ToSet(pendingOutput) \cup {c} /\ ToSet(Cat(Rest, X)) = ToSet(Rest) \cup {c}
        BY <1>4, <1>6, SetOfCat
  <2>3. ToSet(pendingOutput) \subseteq ToSet(pendingOutput') /\ (taken => c \in ToSet(pendingOutput'))
        BY <1>5, <2>1, <2>2
  <2>4. matchesEvent(s) /\ outputPanel = "mounted" /\ ~startupBuffering /\ outputListener # "none" => taken
        BY DEF taken
  <2>5. ToSet(owed') \subseteq ToSet(owed) \cup {c} /\ (~matchesEvent(s) => owed' = owed)
        BY <1>4, <2>2
  <2>6. CASE activeRequest = 2
    <3>1. outputPanel = "mounted" /\ outputListener = "ready" /\ ~startupBuffering
          BY <1>0, <1>18, <2>1, <2>6 DEF PanelOK, HandOverOK
    <3>2. matchesEvent(s) => taken
          BY <2>4, <3>1
    <3>3. ToSet(owed) \subseteq ToSet(screen) \cup ToSet(pendingOutput)
          BY <1>0, <2>1, <2>6 DEF NotLost
    <3>4. ToSet(owed') \subseteq ToSet(screen) \cup ToSet(pendingOutput')
          BY <2>3, <2>5, <3>2, <3>3
    <3> QED BY <1>2, <2>6, <3>4
  <2>7. CASE activeRequest = 1
    <3>1. s = 1
          BY <1>2, <2>7
    <3>2. initialOutputWritten <= Len(warmupOutput)
          BY <1>0, <1>15, <1>18, <2>1, <2>7 DEF HandOverOK
    <3>3. ToSet(captured) \subseteq ToSet(captured') /\ ToSet(Rest) \subseteq ToSet(Rest')
          BY <1>4, <1>13, <1>14, <2>2, <3>2
    <3>4. c \in ToSet(pendingOutput') \cup ToSet(Rest') \cup ToSet(captured')
      <4>1. CASE capture = "array"
            BY <1>4, <2>2, <3>1, <4>1
      <4>2. CASE capture = "append"
            BY <1>13, <2>2, <3>1, <3>2, <4>2
      <4>3. CASE capture = "stopped"
        <5>1. outputPanel = "mounted" /\ outputListener = "ready" /\ ~startupBuffering
              BY <1>0, <1>18, <2>1, <4>3 DEF HandOverOK
        <5> QED BY <1>16, <2>3, <2>4, <2>7, <3>1, <5>1
      <4> QED BY <1>18, <4>1, <4>2, <4>3
    <3>5. ToSet(owed) \subseteq ToSet(screen) \cup ToSet(pendingOutput) \cup ToSet(startupBuffer)
                                  \cup ToSet(Rest) \cup ToSet(captured)
          BY <1>0, <2>1, <2>7 DEF NotLost
    <3>6. ToSet(owed') \subseteq ToSet(screen) \cup ToSet(pendingOutput') \cup ToSet(startupBuffer)
                                   \cup ToSet(Rest') \cup ToSet(captured')
          BY <2>3, <2>5, <3>3, <3>4, <3>5
    <3> QED BY <1>2, <2>7, <3>6
  <2> QED BY <1>17, <2>6, <2>7
<1> QED BY <1>5, <1>9, <1>11, <1>12, <1>19, <1>20 DEF OutputInv

LEMMA HandOffOK == ASSUME OutputInv, HandOffOutput PROVE OutputInv'
<1>0. OutputTypeOK /\ PanelOK /\ HandOverOK /\ InOrder /\ NotLost /\ NothingIsStuck
    BY DEF OutputInv
<1>types. /\ captured \in Chunks /\ warmupOutput \in Chunks /\ owed \in Chunks /\ pendingOutput \in Chunks
      /\ startupBuffer \in Chunks /\ screen \in Chunks /\ initialOutputWritten \in Nat /\ Rest \in Chunks
      /\ Len(warmupOutput) \in Nat /\ capture \in {"array", "append", "stopped"} /\ activeRequest \in {1, 2}
      /\ outputPanel \in {"none", "mounted", "unmounted"}
    BY <1>0, RestIs, LenIs DEF OutputTypeOK
<1>1. /\ capture = "array" /\ capture' = "append" /\ warmupOutput' = captured /\ captured' = <<>>
      /\ late' = late /\ arrived' = arrived /\ initialOutput' = initialOutput /\ outputPanel' = outputPanel
      /\ outputListener' = outputListener /\ startupBuffering' = startupBuffering /\ startupBuffer' = startupBuffer
      /\ flushTimer' = flushTimer /\ initialOutputWritten' = initialOutputWritten
      /\ shownSession' = shownSession /\ activeRequest' = activeRequest
      /\ outputReconnecting' = outputReconnecting /\ screen' = screen /\ owed' = owed
      /\ pendingOutput' = pendingOutput /\ scheduled' = scheduled /\ writing' = writing /\ disposed' = disposed
    BY DEF HandOffOutput, startupVars, outputSessionVars, queueVars
<1>2. OutputTypeOK'
    BY <1>0, <1>1, CatEmpty DEF OutputTypeOK
<1>3. outputPanel = "none" /\ warmupOutput = <<>> /\ initialOutputWritten = 0 /\ activeRequest = 1
    BY <1>0, <1>1 DEF PanelOK
<1>4. PanelOK' /\ HandOverOK' /\ NothingIsStuck'
    BY <1>0, <1>1, <1>3 DEF PanelOK, HandOverOK, NothingIsStuck
<1>5. Rest = <<>> /\ Rest' = captured
    BY <1>1, <1>3, <1>types, CatEmpty, BeyondAll DEF Rest
<1>6. InOrder'
  <2>1. Line(screen, pendingOutput, startupBuffer, captured, <<>>)
           = Line(screen, pendingOutput, startupBuffer, <<>>, captured)
        BY <1>types, LineSlides
  <2> QED BY <1>0, <1>1, <1>5, <2>1 DEF InOrder
<1>7. NotLost'
    BY <1>0, <1>1, <1>3, <1>5 DEF NotLost
<1> QED BY <1>2, <1>4, <1>6, <1>7 DEF OutputInv

LEMMA TimesOutOK == ASSUME OutputInv, CaptureTimesOut PROVE OutputInv'
<1>0. OutputTypeOK /\ PanelOK /\ HandOverOK /\ InOrder /\ NotLost /\ NothingIsStuck
    BY DEF OutputInv
<1>types. /\ captured \in Chunks /\ warmupOutput \in Chunks /\ owed \in Chunks /\ pendingOutput \in Chunks
      /\ startupBuffer \in Chunks /\ screen \in Chunks /\ initialOutputWritten \in Nat /\ Rest \in Chunks
      /\ Len(warmupOutput) \in Nat /\ capture \in {"array", "append", "stopped"} /\ activeRequest \in {1, 2}
      /\ outputPanel \in {"none", "mounted", "unmounted"}
    BY <1>0, RestIs, LenIs DEF OutputTypeOK
<1>1. /\ capture = "append" /\ capture' = "stopped" /\ "stop" \in late'
      /\ late' \subseteq {"commit", "listener", "reconnect", "stop"} /\ late \subseteq late'
      /\ captured' = captured /\ warmupOutput' = warmupOutput
      /\ arrived' = arrived /\ initialOutput' = initialOutput /\ outputPanel' = outputPanel
      /\ outputListener' = outputListener /\ startupBuffering' = startupBuffering /\ startupBuffer' = startupBuffer
      /\ flushTimer' = flushTimer /\ initialOutputWritten' = initialOutputWritten
      /\ shownSession' = shownSession /\ activeRequest' = activeRequest
      /\ outputReconnecting' = outputReconnecting /\ screen' = screen /\ owed' = owed
      /\ pendingOutput' = pendingOutput /\ scheduled' = scheduled /\ writing' = writing /\ disposed' = disposed
    BY <1>0 DEF CaptureTimesOut, LateWith, stopTerminalWarmupCapture, startupVars, outputSessionVars, queueVars, OutputTypeOK
<1>2. OutputTypeOK'
    BY <1>0, <1>1 DEF OutputTypeOK
<1>3. outputPanel # "unmounted"
    BY <1>0, <1>1 DEF PanelOK
<1>4. PanelOK' /\ HandOverOK' /\ NothingIsStuck'
    BY <1>0, <1>1, <1>3 DEF PanelOK, HandOverOK, NothingIsStuck
<1>5. InOrder' /\ NotLost'
    BY <1>1 DEF InOrder, NotLost
<1> QED BY <1>2, <1>4, <1>5 DEF OutputInv

LEMMA MountOK == ASSUME OutputInv, MountOutputPanel PROVE OutputInv'
<1>0. OutputTypeOK /\ PanelOK /\ HandOverOK /\ InOrder /\ NotLost /\ NothingIsStuck
    BY DEF OutputInv
<1>types. /\ captured \in Chunks /\ warmupOutput \in Chunks /\ owed \in Chunks /\ pendingOutput \in Chunks
      /\ startupBuffer \in Chunks /\ screen \in Chunks /\ initialOutputWritten \in Nat /\ Rest \in Chunks
      /\ Len(warmupOutput) \in Nat /\ capture \in {"array", "append", "stopped"} /\ activeRequest \in {1, 2}
      /\ outputPanel \in {"none", "mounted", "unmounted"}
    BY <1>0, RestIs, LenIs DEF OutputTypeOK
<1>1. /\ outputPanel = "none" /\ capture \in {"append", "stopped"} /\ outputPanel' = "mounted"
      /\ shownSession' = 1 /\ startupBuffering' = TRUE /\ flushTimer' = TRUE
      /\ initialOutput' = warmupOutput /\ startupBuffer' = warmupOutput /\ initialOutputWritten' = Len(warmupOutput)
      /\ capture' = capture /\ captured' = captured /\ warmupOutput' = warmupOutput
      /\ late' = late /\ arrived' = arrived
      /\ outputListener' = outputListener /\ activeRequest' = activeRequest
      /\ outputReconnecting' = outputReconnecting /\ screen' = screen /\ owed' = owed
      /\ pendingOutput' = pendingOutput /\ scheduled' = scheduled /\ writing' = writing /\ disposed' = disposed
    BY DEF MountOutputPanel, captureVars, queueVars
<1>2. OutputTypeOK'
    BY <1>0, <1>1, <1>types DEF OutputTypeOK
<1>3. captured = <<>> /\ startupBuffer = <<>> /\ initialOutputWritten = 0 /\ activeRequest = 1
    BY <1>0, <1>1 DEF PanelOK
<1>4. PanelOK' /\ HandOverOK' /\ NothingIsStuck'
    BY <1>0, <1>1, <1>3, <1>types DEF PanelOK, HandOverOK, NothingIsStuck
<1>5. Rest = warmupOutput /\ Rest' = <<>>
    BY <1>1, <1>3, <1>types, BeyondIs, BeyondAll DEF Rest
<1>6. InOrder'
  <2>1. Line(screen, pendingOutput, warmupOutput, <<>>, <<>>)
           = Line(screen, pendingOutput, <<>>, warmupOutput, <<>>)
        BY <1>types, LineSlides
  <2> QED BY <1>0, <1>1, <1>3, <1>5, <2>1 DEF InOrder
<1>7. NotLost'
    BY <1>0, <1>1, <1>3, <1>5 DEF NotLost
<1> QED BY <1>2, <1>4, <1>6, <1>7 DEF OutputInv

LEMMA RegistersOK == ASSUME OutputInv, ListenerRegisters PROVE OutputInv'
<1>0. OutputTypeOK /\ PanelOK /\ HandOverOK /\ InOrder /\ NotLost /\ NothingIsStuck
    BY DEF OutputInv
<1>types. /\ captured \in Chunks /\ warmupOutput \in Chunks /\ owed \in Chunks /\ pendingOutput \in Chunks
      /\ startupBuffer \in Chunks /\ screen \in Chunks /\ initialOutputWritten \in Nat /\ Rest \in Chunks
      /\ Len(warmupOutput) \in Nat /\ capture \in {"array", "append", "stopped"} /\ activeRequest \in {1, 2}
      /\ outputPanel \in {"none", "mounted", "unmounted"}
    BY <1>0, RestIs, LenIs DEF OutputTypeOK
<1>1. /\ outputPanel = "mounted" /\ outputListener = "none" /\ outputListener' = "registered"
      /\ capture' = capture /\ captured' = captured /\ warmupOutput' = warmupOutput
      /\ late' = late /\ arrived' = arrived /\ initialOutput' = initialOutput /\ outputPanel' = outputPanel
      /\ startupBuffering' = startupBuffering /\ startupBuffer' = startupBuffer
      /\ flushTimer' = flushTimer /\ initialOutputWritten' = initialOutputWritten
      /\ shownSession' = shownSession /\ activeRequest' = activeRequest
      /\ outputReconnecting' = outputReconnecting /\ screen' = screen /\ owed' = owed
      /\ pendingOutput' = pendingOutput /\ scheduled' = scheduled /\ writing' = writing /\ disposed' = disposed
    BY DEF ListenerRegisters, captureVars, startupVars, outputSessionVars, queueVars
<1>2. OutputTypeOK'
    BY <1>0, <1>1 DEF OutputTypeOK
<1>3. PanelOK' /\ NothingIsStuck'
    BY <1>0, <1>1 DEF PanelOK, NothingIsStuck
<1>4. HandOverOK'
    BY <1>0, <1>1 DEF HandOverOK
<1>5. InOrder' /\ NotLost'
    BY <1>0, <1>1 DEF InOrder, NotLost, Rest
<1> QED BY <1>2, <1>3, <1>4, <1>5 DEF OutputInv

LEMMA ReadyOK == ASSUME OutputInv, ListenerIsReady PROVE OutputInv'
<1>0. OutputTypeOK /\ PanelOK /\ HandOverOK /\ InOrder /\ NotLost /\ NothingIsStuck
    BY DEF OutputInv
<1>types. /\ captured \in Chunks /\ warmupOutput \in Chunks /\ owed \in Chunks /\ pendingOutput \in Chunks
      /\ startupBuffer \in Chunks /\ screen \in Chunks /\ initialOutputWritten \in Nat /\ Rest \in Chunks
      /\ Len(warmupOutput) \in Nat /\ capture \in {"array", "append", "stopped"} /\ activeRequest \in {1, 2}
      /\ outputPanel \in {"none", "mounted", "unmounted"}
    BY <1>0, RestIs, LenIs DEF OutputTypeOK
<1>1. /\ outputPanel = "mounted" /\ outputListener = "registered" /\ outputListener' = "ready"
      /\ late' \subseteq {"commit", "listener", "reconnect", "stop"} /\ late \subseteq late'
      /\ capture' = IF ~startupBuffering /\ capture = "append" THEN "stopped" ELSE capture
      /\ captured' = captured /\ warmupOutput' = warmupOutput
      /\ arrived' = arrived /\ initialOutput' = initialOutput /\ outputPanel' = outputPanel
      /\ startupBuffering' = startupBuffering /\ startupBuffer' = startupBuffer
      /\ flushTimer' = flushTimer /\ initialOutputWritten' = initialOutputWritten
      /\ shownSession' = shownSession /\ activeRequest' = activeRequest
      /\ outputReconnecting' = outputReconnecting /\ screen' = screen /\ owed' = owed
      /\ pendingOutput' = pendingOutput /\ scheduled' = scheduled /\ writing' = writing /\ disposed' = disposed
    BY <1>0 DEF ListenerIsReady, LateWith, stopTerminalWarmupCapture, startupVars, outputSessionVars, queueVars, OutputTypeOK
<1>2. OutputTypeOK'
    BY <1>0, <1>1 DEF OutputTypeOK
<1>3. PanelOK' /\ NothingIsStuck'
    BY <1>0, <1>1 DEF PanelOK, NothingIsStuck
<1>4. HandOverOK'
    BY <1>0, <1>1 DEF HandOverOK
<1>5. InOrder' /\ NotLost'
    BY <1>0, <1>1 DEF InOrder, NotLost, Rest
<1> QED BY <1>2, <1>3, <1>4, <1>5 DEF OutputInv

LEMMA UnmountOK == ASSUME OutputInv, UnmountOutputPanel PROVE OutputInv'
<1>0. OutputTypeOK /\ PanelOK /\ HandOverOK /\ InOrder /\ NotLost /\ NothingIsStuck
    BY DEF OutputInv
<1>types. /\ captured \in Chunks /\ warmupOutput \in Chunks /\ owed \in Chunks /\ pendingOutput \in Chunks
      /\ startupBuffer \in Chunks /\ screen \in Chunks /\ initialOutputWritten \in Nat /\ Rest \in Chunks
      /\ Len(warmupOutput) \in Nat /\ capture \in {"array", "append", "stopped"} /\ activeRequest \in {1, 2}
      /\ outputPanel \in {"none", "mounted", "unmounted"}
    BY <1>0, RestIs, LenIs DEF OutputTypeOK
<1>1. /\ outputPanel = "mounted" /\ outputPanel' = "unmounted" /\ outputListener' = "none"
      /\ startupBuffer' = <<>> /\ startupBuffering' = FALSE /\ flushTimer' = FALSE
      /\ capture' = IF capture = "append" THEN "stopped" ELSE capture
      /\ pendingOutput' = <<>> /\ scheduled' = FALSE /\ writing' = writing /\ disposed' = TRUE /\ owed' = <<>>
      /\ late' = late /\ captured' = captured /\ warmupOutput' = warmupOutput
      /\ arrived' = arrived /\ initialOutput' = initialOutput /\ initialOutputWritten' = initialOutputWritten
      /\ shownSession' = shownSession /\ activeRequest' = activeRequest
      /\ outputReconnecting' = outputReconnecting /\ screen' = screen
    BY DEF UnmountOutputPanel, stopTerminalWarmupCapture, QueueIs, dispose, clear, OutputQueue, outputSessionVars
<1>2. OutputTypeOK'
    BY <1>0, <1>1, CatEmpty DEF OutputTypeOK
<1>3. PanelOK' /\ HandOverOK'
    BY <1>0, <1>1, <1>types DEF PanelOK, HandOverOK
<1>4. NothingIsStuck' /\ InOrder' /\ NotLost'
    BY <1>1 DEF NothingIsStuck, InOrder, NotLost
<1> QED BY <1>2, <1>3, <1>4 DEF OutputInv

LEMMA ParsedOK == ASSUME OutputInv, onParsed PROVE OutputInv'
<1>0. OutputTypeOK /\ PanelOK /\ HandOverOK /\ InOrder /\ NotLost /\ NothingIsStuck
    BY DEF OutputInv
<1>types. /\ captured \in Chunks /\ warmupOutput \in Chunks /\ owed \in Chunks /\ pendingOutput \in Chunks
      /\ startupBuffer \in Chunks /\ screen \in Chunks /\ initialOutputWritten \in Nat /\ Rest \in Chunks
      /\ Len(warmupOutput) \in Nat /\ capture \in {"array", "append", "stopped"} /\ activeRequest \in {1, 2}
      /\ outputPanel \in {"none", "mounted", "unmounted"}
    BY <1>0, RestIs, LenIs DEF OutputTypeOK
<1>1. /\ pendingOutput' = pendingOutput /\ writing' = FALSE /\ disposed' = disposed
      /\ scheduled' = (scheduled \/ (~disposed /\ pendingOutput # <<>>))
      /\ late' = late /\ arrived' = arrived /\ capture' = capture /\ captured' = captured
      /\ warmupOutput' = warmupOutput /\ initialOutput' = initialOutput /\ outputPanel' = outputPanel
      /\ outputListener' = outputListener /\ startupBuffering' = startupBuffering /\ startupBuffer' = startupBuffer
      /\ flushTimer' = flushTimer /\ initialOutputWritten' = initialOutputWritten
      /\ shownSession' = shownSession /\ activeRequest' = activeRequest
      /\ outputReconnecting' = outputReconnecting /\ screen' = screen /\ owed' = owed
    BY DEF onParsed, QueueIs, scheduleNext, OutputQueue, Elsewhere, captureVars, startupVars, outputSessionVars
<1>2. scheduled' \in BOOLEAN /\ NothingIsStuck' /\ (outputPanel = "none" => ~scheduled')
  <2>1. disposed \in BOOLEAN /\ scheduled \in BOOLEAN /\ (outputPanel = "none" => ~scheduled /\ pendingOutput = <<>>)
        BY <1>0 DEF OutputTypeOK, PanelOK
  <2> QED BY <1>1, <2>1, Zenon DEF NothingIsStuck
<1>3. OutputTypeOK'
    BY <1>0, <1>1, <1>2 DEF OutputTypeOK
<1>4. PanelOK'
    BY <1>0, <1>1, <1>2 DEF PanelOK
<1>5. HandOverOK'
    BY <1>0, <1>1 DEF HandOverOK
<1>6. InOrder' /\ NotLost'
    BY <1>0, <1>1 DEF InOrder, NotLost, Rest
<1> QED BY <1>2, <1>3, <1>4, <1>5, <1>6 DEF OutputInv

LEMMA ChangesOK == ASSUME OutputInv, InitialOutputChanges PROVE OutputInv'
<1>0. OutputTypeOK /\ PanelOK /\ HandOverOK /\ InOrder /\ NotLost /\ NothingIsStuck
    BY DEF OutputInv
<1>types. /\ captured \in Chunks /\ warmupOutput \in Chunks /\ owed \in Chunks /\ pendingOutput \in Chunks
      /\ startupBuffer \in Chunks /\ screen \in Chunks /\ initialOutputWritten \in Nat /\ Rest \in Chunks
      /\ Len(warmupOutput) \in Nat /\ capture \in {"array", "append", "stopped"} /\ activeRequest \in {1, 2}
      /\ outputPanel \in {"none", "mounted", "unmounted"}
    BY <1>0, RestIs, LenIs DEF OutputTypeOK
<1>1. /\ outputPanel = "mounted" /\ initialOutput' = warmupOutput
      /\ late' = late /\ arrived' = arrived /\ capture' = capture /\ captured' = captured
      /\ warmupOutput' = warmupOutput /\ outputPanel' = outputPanel
      /\ outputListener' = outputListener /\ startupBuffering' = startupBuffering
      /\ flushTimer' = flushTimer /\ shownSession' = shownSession /\ activeRequest' = activeRequest
      /\ outputReconnecting' = outputReconnecting /\ screen' = screen /\ owed' = owed
    BY DEF InitialOutputChanges, Uncommitted, captureVars, outputSessionVars
<1>2. CASE Rest = <<>>
  <2>1. /\ startupBuffer' = startupBuffer /\ initialOutputWritten' = initialOutputWritten
        /\ pendingOutput' = pendingOutput /\ scheduled' = scheduled /\ writing' = writing /\ disposed' = disposed
        BY <1>2 DEF InitialOutputChanges, Rest, Beyond, queueVars
  <2>2. Len(warmupOutput) <= initialOutputWritten
        BY <1>2, <1>types, BeyondIs DEF Rest
  <2>3. OutputTypeOK'
        BY <1>0, <1>1, <2>1 DEF OutputTypeOK
  <2>4. PanelOK' /\ NothingIsStuck'
        BY <1>0, <1>1, <2>1 DEF PanelOK, NothingIsStuck
  <2>5. HandOverOK'
        BY <1>0, <1>1, <2>1, <2>2 DEF HandOverOK
  <2>6. InOrder' /\ NotLost'
        BY <1>0, <1>1, <2>1 DEF InOrder, NotLost, Rest
  <2> QED BY <2>3, <2>4, <2>5, <2>6 DEF OutputInv
<1>3. CASE Rest # <<>>
  <2>1. /\ initialOutputWritten' = Len(warmupOutput)
        /\ IF startupBuffering THEN startupBuffer' = Cat(startupBuffer, Rest) /\ UNCHANGED queueVars
           ELSE startupBuffer' = startupBuffer /\ QueueIs(enqueue(Rest))
        BY <1>3 DEF InitialOutputChanges, Rest, Beyond, Cat
  <2>2. Rest' = <<>>
        BY <1>1, <1>types, <2>1, BeyondIs DEF Rest
  <2>3. initialOutputWritten < Len(warmupOutput)
        BY <1>3, <1>types, BeyondIs DEF Rest
  <2>4. late = {} => startupBuffering
        BY <1>0, <1>1, <1>types, <2>3 DEF HandOverOK
  <2>5. captured = <<>>
        BY <1>0, <1>1 DEF PanelOK
  <2>6. CASE startupBuffering
    <3>1. /\ startupBuffer' = Cat(startupBuffer, Rest) /\ pendingOutput' = pendingOutput
          /\ scheduled' = scheduled /\ writing' = writing /\ disposed' = disposed
          BY <2>1, <2>6 DEF queueVars
    <3>2. startupBuffer' \in Chunks
          BY <1>types, <3>1, CatIs
    <3>3. OutputTypeOK'
          BY <1>0, <1>1, <1>types, <2>1, <3>1, <3>2 DEF OutputTypeOK
    <3>4. PanelOK' /\ NothingIsStuck'
          BY <1>0, <1>1, <2>1, <3>1 DEF PanelOK, NothingIsStuck
    <3>5. HandOverOK'
          BY <1>0, <1>1, <1>types, <2>1, <2>6, <3>1 DEF HandOverOK
    <3>6. Line(screen, pendingOutput, Cat(startupBuffer, Rest), <<>>, captured)
             = Line(screen, pendingOutput, startupBuffer, Rest, captured)
          BY <1>types, LineMoves
    <3>7. InOrder'
          BY <1>0, <1>1, <2>2, <3>1, <3>6 DEF InOrder
    <3>8. ToSet(startupBuffer') = ToSet(startupBuffer) \cup ToSet(Rest)
          BY <1>types, <3>1, SetOfCat
    <3>9. activeRequest = 1
          BY <1>0, <1>1, <1>types, <2>6 DEF HandOverOK
    <3>10. NotLost'
          BY <1>0, <1>1, <3>1, <3>8, <3>9 DEF NotLost
    <3> QED BY <3>3, <3>4, <3>5, <3>7, <3>10 DEF OutputInv
  <2>7. CASE ~startupBuffering
    <3>1. startupBuffer' = startupBuffer /\ startupBuffer = <<>> /\ QueueIs(enqueue(Rest))
          BY <1>0, <1>1, <2>1, <2>7 DEF HandOverOK
    <3>2. /\ pendingOutput' \in Chunks /\ scheduled' \in BOOLEAN /\ writing' = writing /\ disposed' = disposed
          /\ ~disposed => pendingOutput' = Cat(pendingOutput, Rest)
          /\ NothingIsStuck'
          BY <1>0, <1>types, <3>1, Enqueues
    <3>3. OutputTypeOK'
          BY <1>0, <1>1, <1>types, <2>1, <3>1, <3>2 DEF OutputTypeOK
    <3>4. PanelOK'
          BY <1>0, <1>1, <3>1 DEF PanelOK
    <3>5. HandOverOK'
          BY <1>0, <1>1, <1>types, <2>1, <2>4, <2>7, <3>1 DEF HandOverOK
    <3>6. InOrder'
          BY <1>1, <2>4, <2>7 DEF InOrder
    <3>7. ToSet(Cat(pendingOutput, Rest)) = ToSet(pendingOutput) \cup ToSet(Rest)
          BY <1>types, SetOfCat
    <3>8. ToSet(<<>>) = {}
          BY SetOfSome
    <3>9. NotLost'
          BY <1>0, <1>1, <2>2, <2>5, <3>1, <3>2, <3>7, <3>8 DEF NotLost
    <3> QED BY <3>2, <3>3, <3>4, <3>5, <3>6, <3>9 DEF OutputInv
  <2> QED BY <2>6, <2>7
<1> QED BY <1>2, <1>3

LEMMA FlushOK == ASSUME OutputInv, flushStartupOutput PROVE OutputInv'
<1>0. OutputTypeOK /\ PanelOK /\ HandOverOK /\ InOrder /\ NotLost /\ NothingIsStuck
    BY DEF OutputInv
<1>types. /\ captured \in Chunks /\ warmupOutput \in Chunks /\ owed \in Chunks /\ pendingOutput \in Chunks
      /\ startupBuffer \in Chunks /\ screen \in Chunks /\ initialOutputWritten \in Nat /\ Rest \in Chunks
      /\ Len(warmupOutput) \in Nat /\ capture \in {"array", "append", "stopped"} /\ activeRequest \in {1, 2}
      /\ outputPanel \in {"none", "mounted", "unmounted"}
    BY <1>0, RestIs, LenIs DEF OutputTypeOK
<1>1. /\ flushTimer /\ flushTimer' = FALSE /\ startupBuffer' = <<>> /\ startupBuffering' = FALSE
      /\ late' \subseteq {"commit", "listener", "reconnect", "stop"} /\ late \subseteq late'
      /\ late' = {} => outputListener = "ready" /\ ~Uncommitted
      /\ capture' = IF outputListener = "ready" /\ capture = "append" THEN "stopped" ELSE capture
      /\ captured' = captured /\ warmupOutput' = warmupOutput
      /\ arrived' = arrived /\ initialOutput' = initialOutput /\ outputPanel' = outputPanel
      /\ outputListener' = outputListener /\ initialOutputWritten' = initialOutputWritten
      /\ shownSession' = shownSession /\ activeRequest' = activeRequest
      /\ outputReconnecting' = outputReconnecting /\ screen' = screen /\ owed' = owed
    BY <1>0 DEF flushStartupOutput, LateWith, stopTerminalWarmupCapture, outputSessionVars, OutputTypeOK
<1>2. /\ pendingOutput' \in Chunks /\ scheduled' \in BOOLEAN /\ writing' = writing /\ disposed' = disposed
      /\ ~disposed => pendingOutput' = Cat(pendingOutput, startupBuffer)
      /\ NothingIsStuck'
    BY <1>0, <1>types, Enqueues DEF flushStartupOutput
<1>3. outputPanel = "mounted" /\ capture # "array"
    BY <1>0, <1>1, <1>types DEF PanelOK
<1>4. OutputTypeOK'
    BY <1>0, <1>1, <1>2, CatEmpty DEF OutputTypeOK
<1>5. PanelOK'
    BY <1>0, <1>1, <1>3 DEF PanelOK
<1>6. late' = {} => Len(warmupOutput) <= initialOutputWritten
    BY <1>0, <1>1, <1>3 DEF HandOverOK, Uncommitted
<1>7. HandOverOK'
    BY <1>0, <1>1, <1>3, <1>6, <1>types DEF HandOverOK
<1>8. Line(screen, Cat(pendingOutput, startupBuffer), <<>>, Rest, captured)
         = Line(screen, pendingOutput, startupBuffer, Rest, captured)
    BY <1>types, LineMoves
<1>9. Rest' = Rest
    BY <1>1 DEF Rest
<1>10. InOrder'
    BY <1>0, <1>1, <1>2, <1>8, <1>9 DEF InOrder
<1>11. ToSet(Cat(pendingOutput, startupBuffer)) = ToSet(pendingOutput) \cup ToSet(startupBuffer)
    BY <1>types, SetOfCat
<1>12. NotLost'
    BY <1>0, <1>1, <1>2, <1>9, <1>11 DEF NotLost
<1> QED BY <1>2, <1>4, <1>5, <1>7, <1>10, <1>12 DEF OutputInv

LEMMA ReconnectOK == ASSUME OutputInv, ReconnectOutput PROVE OutputInv'
<1>0. OutputTypeOK /\ PanelOK /\ HandOverOK /\ InOrder /\ NotLost /\ NothingIsStuck
    BY DEF OutputInv
<1>types. /\ captured \in Chunks /\ warmupOutput \in Chunks /\ owed \in Chunks /\ pendingOutput \in Chunks
      /\ startupBuffer \in Chunks /\ screen \in Chunks /\ initialOutputWritten \in Nat /\ Rest \in Chunks
      /\ Len(warmupOutput) \in Nat /\ capture \in {"array", "append", "stopped"} /\ activeRequest \in {1, 2}
      /\ outputPanel \in {"none", "mounted", "unmounted"}
    BY <1>0, RestIs, LenIs DEF OutputTypeOK
<1>1. /\ outputListener = "ready" /\ outputPanel = "mounted" /\ ~outputReconnecting /\ activeRequest = 1
      /\ late' \subseteq {"commit", "listener", "reconnect", "stop"} /\ late \subseteq late'
      /\ late' = {} => ~flushTimer
      /\ outputReconnecting' = TRUE /\ activeRequest' = 2 /\ shownSession' = 0
      /\ startupBuffer' = <<>> /\ startupBuffering' = FALSE /\ screen' = <<>> /\ owed' = <<>>
      /\ arrived' = arrived /\ capture' = capture /\ captured' = captured /\ warmupOutput' = warmupOutput
      /\ initialOutput' = initialOutput /\ outputPanel' = outputPanel
      /\ outputListener' = outputListener /\ flushTimer' = flushTimer /\ initialOutputWritten' = initialOutputWritten
    BY <1>0 DEF ReconnectOutput, LateWith, captureVars, OutputTypeOK
<1>2. pendingOutput' = <<>> /\ scheduled' = FALSE /\ writing' = writing /\ disposed' = disposed
    BY DEF ReconnectOutput, QueueIs, clear, OutputQueue
<1>3. OutputTypeOK'
    BY <1>0, <1>1, <1>2, CatEmpty DEF OutputTypeOK
<1>4. PanelOK' /\ NothingIsStuck'
    BY <1>0, <1>1, <1>2 DEF PanelOK, NothingIsStuck
<1>5. late' = {} => ~startupBuffering /\ late = {}
    BY <1>0, <1>1 DEF HandOverOK
<1>6. late' = {} => capture = "stopped" /\ Len(warmupOutput) <= initialOutputWritten
    BY <1>0, <1>1, <1>5 DEF HandOverOK
<1>7. HandOverOK'
    BY <1>0, <1>1, <1>6 DEF HandOverOK
<1>8. InOrder'
  <2> SUFFICES ASSUME late' = {} PROVE Line(<<>>, <<>>, <<>>, Rest', captured') = <<>>
        BY <1>1, <1>2 DEF InOrder
  <2>1. Rest' = <<>> /\ captured' = <<>>
        BY <1>0, <1>1, <1>6, <1>types, BeyondIs DEF Rest, PanelOK
  <2>2. Cat(<<>>, <<>>) = <<>>
        BY CatEmpty
  <2> QED BY <2>1, <2>2 DEF Line
<1>9. NotLost'
  <2>1. ToSet(<<>>) = {}
        BY SetOfSome
  <2> QED BY <1>1, <2>1 DEF NotLost
<1> QED BY <1>3, <1>4, <1>7, <1>8, <1>9 DEF OutputInv

LEMMA ReconnectedOK == ASSUME OutputInv, ReconnectOutputReturns PROVE OutputInv'
<1>0. OutputTypeOK /\ PanelOK /\ HandOverOK /\ InOrder /\ NotLost /\ NothingIsStuck
    BY DEF OutputInv
<1>types. /\ captured \in Chunks /\ warmupOutput \in Chunks /\ owed \in Chunks /\ pendingOutput \in Chunks
      /\ startupBuffer \in Chunks /\ screen \in Chunks /\ initialOutputWritten \in Nat /\ Rest \in Chunks
      /\ Len(warmupOutput) \in Nat /\ capture \in {"array", "append", "stopped"} /\ activeRequest \in {1, 2}
      /\ outputPanel \in {"none", "mounted", "unmounted"}
    BY <1>0, RestIs, LenIs DEF OutputTypeOK
<1>1. /\ outputReconnecting /\ outputReconnecting' = FALSE
      /\ late' \subseteq {"commit", "listener", "reconnect", "stop"} /\ late \subseteq late'
      /\ arrived' = arrived /\ capture' = capture /\ captured' = captured
      /\ initialOutput' = initialOutput /\ outputPanel' = outputPanel
      /\ outputListener' = outputListener /\ startupBuffering' = startupBuffering /\ startupBuffer' = startupBuffer
      /\ flushTimer' = flushTimer /\ initialOutputWritten' = initialOutputWritten
      /\ screen' = screen /\ owed' = owed
      /\ pendingOutput' = pendingOutput /\ scheduled' = scheduled /\ writing' = writing /\ disposed' = disposed
    BY <1>0 DEF ReconnectOutputReturns, LateWith, startupVars, queueVars, OutputTypeOK
<1>2. \/ outputPanel = "mounted" /\ shownSession' = 2 /\ warmupOutput' = <<>> /\ activeRequest' = activeRequest
      \/ outputPanel = "mounted" /\ shownSession' = 1 /\ activeRequest' = 1 /\ warmupOutput' = warmupOutput
      \/ /\ outputPanel = "unmounted" /\ shownSession' = shownSession /\ activeRequest' = activeRequest
         /\ warmupOutput' = warmupOutput
    BY DEF ReconnectOutputReturns
<1>3. OutputTypeOK'
    BY <1>0, <1>1, <1>2, CatEmpty DEF OutputTypeOK
<1>4. activeRequest = 2 /\ capture # "array" /\ captured = <<>>
    BY <1>0, <1>1, <1>2 DEF HandOverOK, PanelOK
<1>5. PanelOK' /\ NothingIsStuck'
    BY <1>0, <1>1, <1>2, <1>4 DEF PanelOK, NothingIsStuck
<1>6. Len(<<>>) = 0
    OBVIOUS
<1>7. HandOverOK'
    BY <1>0, <1>1, <1>2, <1>4, <1>6, <1>types DEF HandOverOK
<1>8. late = {} /\ outputPanel = "mounted" => Rest = <<>> /\ Rest' = <<>>
  <2>1. late = {} /\ outputPanel = "mounted" => Len(warmupOutput) <= initialOutputWritten
        BY <1>0, <1>4 DEF HandOverOK
  <2>2. Len(warmupOutput) <= initialOutputWritten => Rest = <<>>
        BY <1>types, BeyondIs DEF Rest
  <2>3. warmupOutput' = <<>> => Rest' = <<>>
        BY <1>1, <1>6, <1>types, CatEmpty, BeyondIs DEF Rest
  <2>4. warmupOutput' = warmupOutput => Rest' = Rest
        BY <1>1 DEF Rest
  <2> QED BY <1>2, <2>1, <2>2, <2>3, <2>4
<1>9. outputPanel = "unmounted" => disposed
    BY <1>0 DEF PanelOK
<1>10. InOrder'
    BY <1>0, <1>1, <1>2, <1>8, <1>9 DEF InOrder
<1>11. NotLost'
    BY <1>0, <1>1, <1>4 DEF NotLost
<1> QED BY <1>3, <1>5, <1>7, <1>10, <1>11 DEF OutputInv

LEMMA FlushNextOK == ASSUME OutputInv, flushNext PROVE OutputInv'
<1>0. OutputTypeOK /\ PanelOK /\ HandOverOK /\ InOrder /\ NotLost /\ NothingIsStuck
    BY DEF OutputInv
<1>types. /\ captured \in Chunks /\ warmupOutput \in Chunks /\ owed \in Chunks /\ pendingOutput \in Chunks
      /\ startupBuffer \in Chunks /\ screen \in Chunks /\ initialOutputWritten \in Nat /\ Rest \in Chunks
      /\ Len(warmupOutput) \in Nat /\ capture \in {"array", "append", "stopped"} /\ activeRequest \in {1, 2}
      /\ outputPanel \in {"none", "mounted", "unmounted"}
    BY <1>0, RestIs, LenIs DEF OutputTypeOK
<1> DEFINE n == IF Len(pendingOutput) < MaxBatch THEN Len(pendingOutput) ELSE MaxBatch
           X == SubSeq(pendingOutput, 1, n)
<1>1. /\ scheduled
      /\ late' = late /\ arrived' = arrived /\ capture' = capture /\ captured' = captured
      /\ warmupOutput' = warmupOutput /\ initialOutput' = initialOutput /\ outputPanel' = outputPanel
      /\ outputListener' = outputListener /\ startupBuffering' = startupBuffering /\ startupBuffer' = startupBuffer
      /\ flushTimer' = flushTimer /\ initialOutputWritten' = initialOutputWritten
      /\ shownSession' = shownSession /\ activeRequest' = activeRequest
      /\ outputReconnecting' = outputReconnecting /\ owed' = owed
    BY DEF flushNext, Elsewhere, captureVars, startupVars, outputSessionVars
<1>2. \/ /\ pendingOutput' = Beyond(pendingOutput, n) /\ scheduled' = FALSE /\ writing' = TRUE /\ disposed' = disposed
         /\ screen' = Cat(screen, X)
      \/ /\ pendingOutput' = <<>> /\ scheduled' = FALSE /\ writing' = writing /\ disposed' = TRUE
         /\ screen' = screen
    BY DEF flushNext, QueueIs, OutputQueue, dispose, clear, Beyond, Cat
<1>3. n \in Nat /\ n <= Len(pendingOutput)
    BY <1>types, LenIs, BatchAssumption
<1> HIDE DEF n
<1>4. X \in Chunks /\ pendingOutput = Cat(X, Beyond(pendingOutput, n)) /\ Beyond(pendingOutput, n) \in Chunks
    BY <1>types, <1>3, BeyondOfTaken, BeyondIs
<1> HIDE DEF X
<1>5. pendingOutput' \in Chunks /\ screen' \in Chunks
    BY <1>2, <1>4, <1>types, CatIs, CatEmpty
<1>6. scheduled' \in BOOLEAN /\ writing' \in BOOLEAN /\ disposed' \in BOOLEAN
    BY <1>0, <1>2 DEF OutputTypeOK
<1>7. OutputTypeOK'
    BY <1>0, <1>1, <1>5, <1>6 DEF OutputTypeOK
<1>8. outputPanel # "none"
    BY <1>0, <1>1 DEF PanelOK
<1>9. PanelOK' /\ NothingIsStuck'
    BY <1>0, <1>1, <1>2, <1>8 DEF PanelOK, NothingIsStuck
<1>10. HandOverOK'
    BY <1>0, <1>1 DEF HandOverOK
<1>11. Rest' = Rest
    BY <1>1 DEF Rest
<1>12. Line(Cat(screen, X), Beyond(pendingOutput, n), startupBuffer, Rest, captured)
         = Line(screen, Cat(X, Beyond(pendingOutput, n)), startupBuffer, Rest, captured)
  <2> DEFINE Y == Beyond(pendingOutput, n)
  <2>1. X \in Chunks /\ Y \in Chunks /\ screen \in Chunks /\ startupBuffer \in Chunks /\ Rest \in Chunks /\ captured \in Chunks
        BY <1>types, <1>4
  <2> HIDE DEF Y
  <2>2. Line(Cat(screen, X), Y, startupBuffer, Rest, captured) = Line(screen, Cat(X, Y), startupBuffer, Rest, captured)
        BY <2>1, LineWrites
  <2> QED BY <2>2 DEF Y
<1>13. InOrder'
    BY <1>0, <1>1, <1>2, <1>4, <1>11, <1>12 DEF InOrder
<1>14. ToSet(pendingOutput) = ToSet(X) \cup ToSet(Beyond(pendingOutput, n)) /\ ToSet(Cat(screen, X)) = ToSet(screen) \cup ToSet(X)
    BY <1>types, <1>4, SetOfCat
<1>15. NotLost'
    BY <1>0, <1>1, <1>2, <1>11, <1>14 DEF NotLost
<1> QED BY <1>7, <1>9, <1>10, <1>13, <1>15 DEF OutputInv

LEMMA OutputStart == OutputInit => OutputInv
<1> SUFFICES ASSUME OutputInit PROVE OutputInv
    OBVIOUS
<1>1. <<>> \in Chunks /\ Cat(<<>>, <<>>) = <<>> /\ Len(<<>>) = 0
    BY CatEmpty
<1>2. arrived \in [{1, 2} -> Nat]
    BY DEF OutputInit
<1>3. OutputTypeOK
    BY <1>1, <1>2 DEF OutputInit, OutputTypeOK
<1>4. PanelOK /\ HandOverOK /\ NothingIsStuck
    BY DEF OutputInit, PanelOK, HandOverOK, NothingIsStuck
<1>5. Rest = <<>>
    BY <1>1, BeyondIs DEF OutputInit, Rest
<1>6. InOrder
    BY <1>1, <1>5 DEF OutputInit, InOrder, Line
<1>7. NotLost
    BY SetOfSome DEF OutputInit, NotLost
<1> QED BY <1>3, <1>4, <1>6, <1>7 DEF OutputInv

LEMMA OutputStep == OutputInv /\ [OutputNext]_outputVars => OutputInv'
<1> SUFFICES ASSUME OutputInv, [OutputNext]_outputVars PROVE OutputInv'
    OBVIOUS
<1>1. CASE UNCHANGED outputVars
    BY <1>1 DEF outputVars, captureVars, startupVars, outputSessionVars, queueVars, OutputInv, OutputTypeOK, PanelOK,
                HandOverOK, InOrder, NotLost, NothingIsStuck, Rest
<1>2. CASE OutputNext
    BY <1>2, ArrivesOK, HandOffOK, TimesOutOK, MountOK, ChangesOK, RegistersOK, ReadyOK, FlushOK, ReconnectOK,
       ReconnectedOK, UnmountOK, FlushNextOK, ParsedOK DEF OutputNext
<1> QED BY <1>1, <1>2

(* When React and the listener are in time, what a host prints is shown    *)
(* once and in its order; unless the capture ends before the panel listens *)
(* no chunk is lost; and output that waits has a frame or a parsed batch   *)
(* to come: for any amount of output, any batch and any interleaving of    *)
(* mounting, listening, flushing, reconnecting and closing (TerminalPanel, *)
(* TerminalOutputQueue, appendTerminalWarmupOutput).                       *)
THEOREM OutputReachesTerminal == OutputSpec => []OutputIsShown
<1>1. OutputInv => OutputIsShown
  <2> SUFFICES ASSUME OutputInv PROVE OutputIsShown
        OBVIOUS
  <2>1. OutputTypeOK /\ InOrder /\ NotLost /\ NothingIsStuck
        BY DEF OutputInv
  <2>2. pendingOutput \in Chunks /\ startupBuffer \in Chunks /\ Rest \in Chunks /\ captured \in Chunks
        BY <2>1, RestIs DEF OutputTypeOK
  <2>3. Underway = Cat(Cat(Cat(pendingOutput, startupBuffer), Rest), captured)
        BY DEF Underway, Cat, Rest, Beyond
  <2>4. ToSet(Underway) = ToSet(pendingOutput) \cup ToSet(startupBuffer) \cup ToSet(Rest) \cup ToSet(captured)
        BY <2>2, <2>3, SetOfFour
  <2>5. NothingIsLost
        BY <2>1, <2>4 DEF NotLost, NothingIsLost
  <2>6. screen \o Underway = Line(screen, pendingOutput, startupBuffer, Rest, captured)
        BY <2>3 DEF Line, Cat
  <2>7. ShownInOrder
        BY <2>1, <2>6 DEF InOrder, ShownInOrder
  <2> QED BY <2>1, <2>5, <2>7 DEF OutputIsShown
<1> QED BY <1>1, OutputStart, OutputStep, PTL DEF OutputSpec
=============================================================================

--------------------------- MODULE RequestsProofs ---------------------------
(***************************************************************************)
(* Safety of the components whose work is a request that is answered       *)
(* later: "Connect all", the step of a connecting tab, the AI panel, the   *)
(* monitor, the logs of a container and the file panel.  Each section      *)
(* gives the inductive invariant of one component, the lemma that every    *)
(* step keeps it, and the theorem that the property the run checks         *)
(* follows, for every value of the constants.  What makes each property    *)
(* inductive is a fact about the requests on their way: what an answer     *)
(* will write is still right when it arrives, or it will be dropped.       *)
(***************************************************************************)
EXTENDS BatchConnect, ConnectionStep, AiChat, RemoteMonitor, DockerLogs, FilePanel,
        FiniteSetTheorems, WellFoundedInduction, TLAPS

-----------------------------------------------------------------------------
(* The step of a connecting tab.                                           *)

\* What a save will write back is a tab.  A tab whose step is being run shows so, unless a save
\* that returned has put an older one back.
SavedIsTab ==
    /\ saving = [t \in Tabs |-> saving[t]]
    /\ \A t \in Tabs : saving[t] # <<>> =>
          /\ saving[t][1] \in {"none", "prompt", "running", "waiting_host_key", "error",
                               "refused", "terminal", "closed"}
          /\ saving[t][2] \in BOOLEAN /\ saving[t][3] \in Keys \cup {NoKey}
          /\ saving[t][4] \in 0 .. MaxOpens
    /\ \A t \in Tabs \ rewound : run[t] # "none" => status[t] \in {"running", "closed"}

StepInv == StepTypeOK /\ LiveIsShown /\ SavedIsTab

LEMMA StepTypes ==
    ASSUME StepInv, [StepNext]_stepVars
    PROVE  StepTypeOK'
<1> USE StepAssumption DEF StepInv, StepTypeOK, SavedIsTab, connectingTabExists, Followed, tabVars
<1>1. ASSUME NEW t \in Tabs, startConnectionStep(t) PROVE StepTypeOK'
      BY <1>1 DEF startConnectionStep
<1>2. ASSUME NEW t \in Tabs, submitPromptCredential(t) PROVE StepTypeOK'
      BY <1>2 DEF submitPromptCredential, PromptForm, runConnectionStep
<1>3. ASSUME NEW t \in Tabs, retryConnectionStep(t) PROVE StepTypeOK'
      BY <1>3 DEF retryConnectionStep, ErrorWithRetry, runConnectionStep
<1>4. ASSUME NEW t \in Tabs, trustHostKeyAndRetry(t) PROVE StepTypeOK'
      BY <1>4 DEF trustHostKeyAndRetry, HostKeyQuestion
<1>5. ASSUME NEW t \in Tabs, closeTerminalTabs(t) PROVE StepTypeOK'
      BY <1>5 DEF closeTerminalTabs
<1>6. ASSUME NEW t \in Tabs, closeConnectionSessions(t) PROVE StepTypeOK'
      BY <1>6 DEF closeConnectionSessions
<1>7. ASSUME NEW t \in Tabs, CredentialsSet(t) PROVE StepTypeOK'
      BY <1>7 DEF CredentialsSet, updateConnectingTabStep
<1>8. ASSUME NEW t \in Tabs, HostKeyTrusted(t) PROVE StepTypeOK'
      BY <1>8 DEF HostKeyTrusted
<1>9. ASSUME NEW t \in Tabs, Connected(t) PROVE StepTypeOK'
  <2>1. opened[t] + 1 \in 1 .. MaxOpens
        BY <1>9 DEF Connected
  <2>2. opened' \in [Tabs -> 0 .. MaxOpens]
        BY <1>9, <2>1 DEF Connected
  <2>4. session' \in [Tabs -> 0 .. MaxOpens]
        BY <1>9, <2>1 DEF Connected
  <2>3. live' \subseteq Tabs \X (1 .. MaxOpens)
        BY <1>9, <2>1 DEF Connected
  <2> QED BY <1>9, <2>2, <2>3, <2>4 DEF Connected
<1>10. ASSUME NEW t \in Tabs, HostKeyUnknown(t) PROVE StepTypeOK'
      BY <1>10 DEF HostKeyUnknown, updateConnectingTabStep
<1>11. ASSUME NEW t \in Tabs, NEW s \in {"error", "refused", "prompt"}, StepFails(t, s) PROVE StepTypeOK'
  <2>1. status' \in [Tabs -> {"none", "prompt", "running", "waiting_host_key", "error", "refused",
                              "terminal", "closed"}]
        BY <1>11 DEF StepFails, updateConnectingTabStep
  <2> QED BY <1>11, <2>1 DEF StepFails
<1>12. ASSUME NEW t \in Tabs, Reconnects(t) PROVE StepTypeOK'
      BY <1>12 DEF Reconnects
<1>13. ASSUME NEW t \in Tabs, saveTemporaryQuickConnectTab(t) PROVE StepTypeOK'
      BY <1>13 DEF saveTemporaryQuickConnectTab
<1>14. ASSUME NEW t \in Tabs, SaveReturns(t) PROVE StepTypeOK'
  <2>1. UNCHANGED <<run, opened, live, context, known, server>>
        BY <1>14 DEF SaveReturns
  <2>2. rewound' = rewound \/ rewound' = rewound \cup {t}
        BY <1>14, Zenon DEF SaveReturns
  <2>3. \/ UNCHANGED tabVars
        \/ /\ status' = [status EXCEPT ![t] = saving[t][1]]
           /\ shown' = [shown EXCEPT ![t] = saving[t][3]]
           /\ session' = [session EXCEPT ![t] = saving[t][4]]
           /\ ready' = [ready EXCEPT ![t] = saving[t][2]]
        BY <1>14, Zenon DEF SaveReturns
  <2>4. ready' \in [Tabs -> BOOLEAN]
        BY <1>14, <2>3, Zenon DEF SaveReturns
  <2>5. status' \in [Tabs -> {"none", "prompt", "running", "waiting_host_key", "error",
                              "refused", "terminal", "closed"}]
        BY <1>14, <2>3 DEF SaveReturns
  <2>6. shown' \in [Tabs -> Keys \cup {NoKey}] /\ session' \in [Tabs -> 0 .. MaxOpens]
        BY <1>14, <2>3 DEF SaveReturns
  <2>7. rewound' \subseteq Tabs
        BY <2>2
  <2> QED BY <2>1, <2>4, <2>5, <2>6, <2>7, Zenon
<1>15. ASSUME NEW k \in Keys, KeyChanges(k) PROVE StepTypeOK'
      BY <1>15 DEF KeyChanges
<1>16. CASE UNCHANGED stepVars
      BY <1>16 DEF stepVars
<1> HIDE DEF StepTypeOK
<1> QED BY <1>1, <1>2, <1>3, <1>4, <1>5, <1>6, <1>7, <1>8, <1>9, <1>10, <1>11, <1>12, <1>13, <1>14,
           <1>15, <1>16 DEF StepNext, StepAnswers

LEMMA StepLive ==
    ASSUME StepInv, [StepNext]_stepVars
    PROVE  LiveIsShown'
<1> USE StepAssumption DEF StepInv, StepTypeOK, LiveIsShown, SavedIsTab, connectingTabExists, Followed, tabVars
<1>1. ASSUME NEW t \in Tabs, startConnectionStep(t) PROVE LiveIsShown'
      BY <1>1 DEF startConnectionStep
<1>2. ASSUME NEW t \in Tabs, submitPromptCredential(t) PROVE LiveIsShown'
      BY <1>2 DEF submitPromptCredential, PromptForm, runConnectionStep
<1>3. ASSUME NEW t \in Tabs, retryConnectionStep(t) PROVE LiveIsShown'
      BY <1>3 DEF retryConnectionStep, ErrorWithRetry, runConnectionStep
<1>4. ASSUME NEW t \in Tabs, trustHostKeyAndRetry(t) PROVE LiveIsShown'
      BY <1>4 DEF trustHostKeyAndRetry, HostKeyQuestion
<1>5. ASSUME NEW t \in Tabs, closeTerminalTabs(t) PROVE LiveIsShown'
      BY <1>5 DEF closeTerminalTabs
<1>6. ASSUME NEW t \in Tabs, closeConnectionSessions(t) PROVE LiveIsShown'
      BY <1>6 DEF closeConnectionSessions
<1>7. ASSUME NEW t \in Tabs, CredentialsSet(t) PROVE LiveIsShown'
  <2>1. t \in rewound \/ status[t] \in {"running", "closed"}
        BY <1>7 DEF CredentialsSet
  <2>2. \A u \in Tabs \ rewound : status[u] = "terminal" => status'[u] = "terminal"
        BY <1>7, <2>1 DEF CredentialsSet, updateConnectingTabStep
  <2>3. UNCHANGED <<live, session, rewound>>
        BY <1>7 DEF CredentialsSet
  <2> QED BY <2>2, <2>3
<1>8. ASSUME NEW t \in Tabs, HostKeyTrusted(t) PROVE LiveIsShown'
      BY <1>8 DEF HostKeyTrusted
<1>9. ASSUME NEW t \in Tabs, Connected(t) PROVE LiveIsShown'
      BY <1>9 DEF Connected
<1>10. ASSUME NEW t \in Tabs, HostKeyUnknown(t) PROVE LiveIsShown'
      BY <1>10 DEF HostKeyUnknown, updateConnectingTabStep
<1>11. ASSUME NEW t \in Tabs, NEW s \in {"error", "refused", "prompt"}, StepFails(t, s) PROVE LiveIsShown'
      BY <1>11 DEF StepFails, updateConnectingTabStep
<1>12. ASSUME NEW t \in Tabs, Reconnects(t) PROVE LiveIsShown'
      BY <1>12 DEF Reconnects
<1>13. ASSUME NEW t \in Tabs, saveTemporaryQuickConnectTab(t) PROVE LiveIsShown'
      BY <1>13 DEF saveTemporaryQuickConnectTab
<1>14. ASSUME NEW t \in Tabs, SaveReturns(t) PROVE LiveIsShown'
      BY <1>14 DEF SaveReturns
<1>15. ASSUME NEW k \in Keys, KeyChanges(k) PROVE LiveIsShown'
      BY <1>15 DEF KeyChanges
<1>16. CASE UNCHANGED stepVars
      BY <1>16 DEF stepVars
<1> HIDE DEF LiveIsShown
<1> QED BY <1>1, <1>2, <1>3, <1>4, <1>5, <1>6, <1>7, <1>8, <1>9, <1>10, <1>11, <1>12, <1>13, <1>14,
           <1>15, <1>16 DEF StepNext, StepAnswers

LEMMA StepSaved ==
    ASSUME StepInv, [StepNext]_stepVars
    PROVE  SavedIsTab'
<1> USE DEF StepInv, StepTypeOK, SavedIsTab, connectingTabExists, Followed, tabVars
<1>1. ASSUME NEW t \in Tabs, startConnectionStep(t) PROVE SavedIsTab'
      BY <1>1 DEF startConnectionStep
<1>2. ASSUME NEW t \in Tabs, submitPromptCredential(t) PROVE SavedIsTab'
      BY <1>2 DEF submitPromptCredential, PromptForm, runConnectionStep
<1>3. ASSUME NEW t \in Tabs, retryConnectionStep(t) PROVE SavedIsTab'
      BY <1>3 DEF retryConnectionStep, ErrorWithRetry, runConnectionStep
<1>4. ASSUME NEW t \in Tabs, trustHostKeyAndRetry(t) PROVE SavedIsTab'
      BY <1>4 DEF trustHostKeyAndRetry, HostKeyQuestion
<1>5. ASSUME NEW t \in Tabs, closeTerminalTabs(t) PROVE SavedIsTab'
      BY <1>5 DEF closeTerminalTabs
<1>6. ASSUME NEW t \in Tabs, closeConnectionSessions(t) PROVE SavedIsTab'
      BY <1>6 DEF closeConnectionSessions
<1>7. ASSUME NEW t \in Tabs, CredentialsSet(t) PROVE SavedIsTab'
      BY <1>7 DEF CredentialsSet, updateConnectingTabStep
<1>8. ASSUME NEW t \in Tabs, HostKeyTrusted(t) PROVE SavedIsTab'
      BY <1>8 DEF HostKeyTrusted
<1>9. ASSUME NEW t \in Tabs, Connected(t) PROVE SavedIsTab'
      BY <1>9 DEF Connected
<1>10. ASSUME NEW t \in Tabs, HostKeyUnknown(t) PROVE SavedIsTab'
      BY <1>10 DEF HostKeyUnknown, updateConnectingTabStep
<1>11. ASSUME NEW t \in Tabs, NEW s \in {"error", "refused", "prompt"}, StepFails(t, s) PROVE SavedIsTab'
      BY <1>11 DEF StepFails, updateConnectingTabStep
<1>12. ASSUME NEW t \in Tabs, Reconnects(t) PROVE SavedIsTab'
      BY <1>12 DEF Reconnects
<1>13. ASSUME NEW t \in Tabs, saveTemporaryQuickConnectTab(t) PROVE SavedIsTab'
      BY <1>13 DEF saveTemporaryQuickConnectTab
<1>14. ASSUME NEW t \in Tabs, SaveReturns(t) PROVE SavedIsTab'
  <2>1. saving' = [saving EXCEPT ![t] = <<>>] /\ UNCHANGED run
        BY <1>14 DEF SaveReturns
  <2>2. t \in rewound' \/ UNCHANGED status
        BY <1>14, Zenon DEF SaveReturns
  <2>3. \A u \in Tabs \ {t} : status'[u] = status[u]
        BY <1>14 DEF SaveReturns
  <2>4. rewound \subseteq rewound'
        BY <1>14, Zenon DEF SaveReturns
  <2>5. \A u \in Tabs \ rewound' : run'[u] # "none" => status'[u] \in {"running", "closed"}
        BY <2>1, <2>2, <2>3, <2>4
  <2> QED BY <2>1, <2>5
<1>15. ASSUME NEW k \in Keys, KeyChanges(k) PROVE SavedIsTab'
      BY <1>15 DEF KeyChanges
<1>16. CASE UNCHANGED stepVars
      BY <1>16 DEF stepVars
<1> HIDE DEF SavedIsTab
<1> QED BY <1>1, <1>2, <1>3, <1>4, <1>5, <1>6, <1>7, <1>8, <1>9, <1>10, <1>11, <1>12, <1>13, <1>14,
           <1>15, <1>16 DEF StepNext, StepAnswers

\* Every live session that a connecting tab has opened is shown by it, unless a save has put an older
\* tab back: the answer of runConnectionStep, a retry, a saved host key or a close leaves none behind.
THEOREM EverySessionIsShown == StepSpec => []LiveIsShown
<1>1. StepInit => StepInv
      BY StepAssumption DEF StepInit, StepInv, StepTypeOK, LiveIsShown, SavedIsTab
<1>2. StepInv => LiveIsShown
      BY DEF StepInv
<1>3. StepInv /\ [StepNext]_stepVars => StepInv'
      BY StepTypes, StepLive, StepSaved DEF StepInv
<1> QED BY <1>1, <1>2, <1>3, PTL DEF StepSpec

-----------------------------------------------------------------------------
(* "Connect all".                                                          *)

\* A tab of the run is named by its handle, which exists; a connection that no worker has
\* taken has no worker; one reported as cancelled is not being started, and its tab is gone.
TriesAreTabs == \A c \in Conns : \A i \in 1 .. try[c] : tabOf[<<c, i>>] # "none"
TakenOnce ==
    /\ \A c \in started : c \notin todo /\ try[c] > 0
    /\ \A c \in Conns : step[c] # "none" => c \in started
CancelledIsGone ==
    \A c \in started : item[c] = "cancelled" => step[c] # "starting" /\ tabOf[handle(c)] = "gone"

BatchInv == BatchTypeOK /\ TriesAreTabs /\ TakenOnce /\ CancelledIsGone

LEMMA TriesBounded ==
    ASSUME BatchInv, NEW c \in Conns, Cardinality({h \in Handles : tabOf[h] # "none"}) < MaxTabs
    PROVE  try[c] + 1 \in 1 .. MaxTabs
<1> DEFINE n == try[c]
           T == {h \in Handles : tabOf[h] # "none"}
           f == [i \in 1 .. n |-> <<c, i>>]
<1>1. n \in Nat /\ n <= MaxTabs /\ MaxTabs \in Nat
      BY BatchAssumption DEF BatchInv, BatchTypeOK
<1>2. IsFiniteSet(T)
  <2>1. IsFiniteSet(1 .. MaxTabs)
        BY <1>1, FS_Interval
  <2>2. IsFiniteSet(Handles)
        BY <2>1, BatchAssumption, FS_Product DEF Handles
  <2> QED BY <2>2, FS_Subset
<1>3. IsFiniteSet(1 .. n) /\ Cardinality(1 .. n) = n
  <2>1. 1 \in Int /\ n \in Int
        BY <1>1
  <2>2. IsFiniteSet(1 .. n) /\ Cardinality(1 .. n) = IF 1 > n THEN 0 ELSE n - 1 + 1
        BY <2>1, FS_Interval
  <2> QED BY <1>1, <2>2
<1>4. f \in Injection(1 .. n, T)
      BY <1>1 DEF BatchInv, BatchTypeOK, TriesAreTabs, Handles, Injection, IsInjective
<1>5. n <= Cardinality(T)
      BY <1>2, <1>3, <1>4, FS_Injection
<1> QED BY <1>1, <1>2, <1>5, FS_CardinalityType

LEMMA HandleStates ==
    \A c : batchWorkspaceHandleState(c) \in {"success", "failed", "waiting-user", "connecting"}
BY DEF batchWorkspaceHandleState

LEMMA TriesKept ==
    ASSUME BatchTypeOK, TriesAreTabs, try' = try,
           \A h \in Handles : tabOf[h] # "none" => tabOf'[h] # "none"
    PROVE  TriesAreTabs'
<1> SUFFICES ASSUME NEW c \in Conns, NEW i \in 1 .. try[c] PROVE tabOf'[<<c, i>>] # "none"
    BY DEF TriesAreTabs
<1>1. try[c] \in 0 .. MaxTabs
      BY DEF BatchTypeOK
<1>2. i \in 1 .. MaxTabs
      BY <1>1, BatchAssumption
<1>3. <<c, i>> \in Handles /\ tabOf[<<c, i>>] # "none"
      BY <1>2 DEF Handles, TriesAreTabs
<1> QED BY <1>3

\* A run begins: nothing is under way and nothing has been taken.
LEMMA LaunchStep ==
    ASSUME BatchInv, NEW S \in SUBSET Conns, launch(S), ~Executing,
           item' \in [Conns -> Finished \cup {"none", "queued", "connecting", "waiting-user"}]
    PROVE  BatchInv'
<1>1. \A c \in Conns : step[c] = "none"
      BY DEF Executing, Busy
<1> QED BY <1>1 DEF launch, BatchInv, BatchTypeOK, TriesAreTabs, TakenOnce, CancelledIsGone

LEMMA BatchStep == BatchInv /\ [BatchNext]_batchVars => BatchInv'
<1> SUFFICES ASSUME BatchInv, [BatchNext]_batchVars PROVE BatchInv'
    OBVIOUS
<1>1. ASSUME NEW S \in SUBSET Conns, start(S) PROVE BatchInv'
  <2>1. item' \in [Conns -> Finished \cup {"none", "queued", "connecting", "waiting-user"}]
        BY <1>1 DEF start
  <2> QED BY <1>1, <2>1, LaunchStep DEF start
<1>2. CASE retryFailed
  <2> DEFINE failed == {c \in Conns : item[c] = "failed"}
  <2>1. item' \in [Conns -> Finished \cup {"none", "queued", "connecting", "waiting-user"}]
        BY <1>2 DEF retryFailed, BatchInv, BatchTypeOK
  <2> QED BY <1>2, <2>1, LaunchStep DEF retryFailed
<1> USE DEF BatchInv, BatchTypeOK, TriesAreTabs, TakenOnce, CancelledIsGone, handle, Finished
<1>3. CASE dismiss
      BY <1>3 DEF dismiss
<1>4. CASE cancelRemaining
  <2>1. item' \in [Conns -> Finished \cup {"none", "queued", "connecting", "waiting-user"}]
        BY <1>4 DEF cancelRemaining
  <2>2. tabOf' \in [Handles -> DOMAIN TabMoves \cup {"none", "open", "retried", "gone"}]
        BY <1>4 DEF cancelRemaining
  <2>3. \A c \in Conns : try[c] > 0 => handle(c) \in Handles
        BY DEF Handles
  <2>4. \A c \in started : step[c] = "waiting" => tabOf'[handle(c)] = "gone"
        BY <1>4, <2>3 DEF cancelRemaining, Active
  <2>5. \A h \in Handles : tabOf[h] = "gone" => tabOf'[h] = "gone"
        BY <1>4 DEF cancelRemaining
  <2>6. \A h \in Handles : tabOf[h] # "none" => tabOf'[h] # "none"
        BY <1>4 DEF cancelRemaining
  <2>7. TriesAreTabs'
        BY <1>4, <2>6, TriesKept DEF cancelRemaining
  <2>8. ASSUME NEW c \in started, item'[c] = "cancelled"
        PROVE  step[c] # "starting" /\ tabOf'[handle(c)] = "gone"
    <3>1. handle(c) \in Handles /\ c \in Conns /\ c \notin todo
          BY <2>3
    <3> HIDE DEF handle
    <3>2. CASE item[c] = "cancelled"
          BY <2>5, <3>1, <3>2
    <3>3. CASE item[c] # "cancelled"
          BY <1>4, <2>4, <2>8, <3>1, <3>3 DEF cancelRemaining, Active
    <3> QED BY <3>2, <3>3
  <2>9. CancelledIsGone' /\ TakenOnce'
        BY <1>4, <2>8 DEF cancelRemaining
  <2>10. BatchTypeOK'
        BY <1>4, <2>1, <2>2 DEF cancelRemaining
  <2> QED BY <2>7, <2>9, <2>10 DEF BatchInv
<1>5. ASSUME NEW c \in Conns, Take(c) PROVE BatchInv'
  <2>1. try[c] + 1 \in 1 .. MaxTabs
        BY <1>5, TriesBounded DEF Take
  <2>2. PICK s \in {"connecting", "unseen"} : tabOf' = [tabOf EXCEPT ![<<c, try[c] + 1>>] = s]
        BY <1>5 DEF Take
  <2>3. tabOf' \in [Handles -> DOMAIN TabMoves \cup {"none", "open", "retried", "gone"}]
        BY <2>2 DEF TabMoves
  <2>4. TriesAreTabs'
    <3>1. ASSUME NEW d \in Conns, NEW i \in 1 .. try'[d] PROVE tabOf'[<<d, i>>] # "none"
      <4>0. try'[d] \in 0 .. MaxTabs
            BY <1>5, <2>1 DEF Take
      <4>1. <<d, i>> \in Handles
            BY <4>0, BatchAssumption DEF Handles
      <4>2. CASE <<d, i>> = <<c, try[c] + 1>>
            BY <2>2, <4>1, <4>2
      <4>3. CASE <<d, i>> # <<c, try[c] + 1>>
        <5>1. i \in 1 .. try[d]
              BY <1>5, <4>3, <3>1 DEF Take
        <5> QED BY <2>2, <4>1, <4>3, <5>1
      <4> QED BY <4>2, <4>3
    <3> QED BY <3>1
  <2>5. CancelledIsGone'
    <3>1. ASSUME NEW d \in started', item'[d] = "cancelled"
          PROVE  step'[d] # "starting" /\ tabOf'[<<d, try'[d]>>] = "gone"
      <4>1. d # c /\ d \in started /\ try'[d] = try[d] /\ item[d] = "cancelled" /\ step'[d] = step[d]
            BY <1>5, <3>1 DEF Take
      <4>2. <<d, try[d]>> # <<c, try[c] + 1>> /\ <<d, try[d]>> \in Handles
            BY <4>1 DEF Handles
      <4> QED BY <2>2, <4>1, <4>2
    <3> QED BY <3>1
  <2>6. try' \in [Conns -> 0 .. MaxTabs]
        BY <1>5, <2>1 DEF Take
  <2> QED BY <1>5, <2>3, <2>4, <2>5, <2>6 DEF Take
<1>6. ASSUME NEW c \in Conns, TakeMissing(c) PROVE BatchInv'
      BY <1>6 DEF TakeMissing
<1>7. ASSUME NEW c \in Conns, Started(c) PROVE BatchInv'
  <2>1. handle(c) \in Handles
        BY <1>7 DEF Started, Handles
  <2> HIDE DEF handle
  <2>2. /\ tabOf' \in [Handles -> DOMAIN TabMoves \cup {"none", "open", "retried", "gone"}]
        /\ \A h \in Handles : tabOf'[h] = tabOf[h] \/ tabOf'[h] = "gone"
        /\ canceling => tabOf'[handle(c)] = "gone"
        BY <1>7, <2>1 DEF Started
  <2>3. \A d \in Conns : handle(d)' = handle(d)
        BY <1>7 DEF Started, handle
  <2>4. \A d \in started : handle(d) \in Handles
        BY DEF Handles, handle
  <2>5. TriesAreTabs'
        BY <1>7, <2>2, TriesKept DEF Started
  <2>6. CancelledIsGone'
        BY <1>7, <2>2, <2>3, <2>4 DEF Started
  <2> QED BY <1>7, <2>2, <2>5, <2>6 DEF Started
<1>8. ASSUME NEW c \in Conns, Poll(c) PROVE BatchInv'
      BY <1>8, HandleStates DEF Poll
<1>9. ASSUME NEW h \in Handles, NEW s \in {"connecting", "asking", "open", "failed", "retried", "gone"},
             MoveTab(h, s)
      PROVE  BatchInv'
  <2>1. tabOf[h] # "gone" /\ tabOf[h] # "none"
        BY <1>9 DEF MoveTab, TabMoves
  <2>2. tabOf' \in [Handles -> DOMAIN TabMoves \cup {"none", "open", "retried", "gone"}]
        BY <1>9 DEF MoveTab, TabMoves
  <2> QED BY <1>9, <2>1, <2>2 DEF MoveTab, Handles
<1>10. CASE UNCHANGED batchVars
      BY <1>10 DEF batchVars
<1> HIDE DEF BatchInv
<1> QED BY <1>1, <1>2, <1>3, <1>4, <1>5, <1>6, <1>7, <1>8, <1>9, <1>10 DEF BatchNext, BatchUser, Work

\* Once a run of "connect all" is over, a connection it reports as cancelled has no tab left, whenever
\* the cancel came: before a worker took it, while its tab was started, or while it connected.
THEOREM CancelLeavesNoTab == BatchSpec => []CancelReleases
<1>1. BatchInit => BatchInv
  <2> SUFFICES ASSUME BatchInit PROVE BatchInv
      OBVIOUS
  <2>1. BatchTypeOK
    <3>1. 0 \in 0 .. MaxTabs
          BY BatchAssumption
    <3>2. canceling \in BOOLEAN
          BY DEF BatchInit
    <3>3. tabOf \in [Handles -> DOMAIN TabMoves \cup {"none", "open", "retried", "gone"}]
          BY DEF BatchInit
    <3>4. try \in [Conns -> 0 .. MaxTabs]
          BY <3>1 DEF BatchInit
    <3>5. item \in [Conns -> Finished \cup {"none", "queued", "connecting", "waiting-user"}]
          /\ step \in [Conns -> {"none", "starting", "waiting"}]
          BY DEF BatchInit
    <3> QED BY <3>2, <3>3, <3>4, <3>5 DEF BatchInit, BatchTypeOK
  <2>2. TriesAreTabs
        BY DEF BatchInit, TriesAreTabs
  <2> QED BY <2>1, <2>2 DEF BatchInit, BatchInv, TakenOnce, CancelledIsGone
<1>2. BatchInv => CancelReleases
      BY DEF BatchInv, CancelledIsGone, CancelReleases
<1> QED BY <1>1, <1>2, BatchStep, PTL DEF BatchSpec

-----------------------------------------------------------------------------
(* The monitor.                                                            *)

\* MonitorIsAwake is inductive but for the types it needs: an answer that is not the loop's
\* leaves the loop's request alone.
MonitorInv == pollRun \in Nat /\ visible \in BOOLEAN /\ MonitorIsAwake

LEMMA RefreshAsks ==
    ASSUME NEW c, NEW r, NEW processes, refresh(c, r, processes)
    PROVE  /\ pollRun' = r + 1 /\ inFlight' = r + 1
           /\ sampling \subseteq sampling'
           /\ \E q \in sampling' : q.pollRun = r + 1
<1> DEFINE asked == [pollRun |-> r + 1, of |-> c, processes |-> processes]
<1>1. asked \in sampling' /\ asked.pollRun = r + 1
      BY DEF refresh
<1> QED BY <1>1 DEF refresh

LEMMA PollAsks ==
    ASSUME NEW processes, pollRun \in Nat, MonitorIsAwake, pollRequest(processes)
    PROVE  /\ pollRun' \in Nat
           /\ loop' = "timer" \/ (loop' = "waits" /\ \E q \in sampling' : q.pollRun = loopRun')
           /\ inFlight' # 0 => \E q \in sampling' : q.pollRun = inFlight'
<1>1. CASE inFlight # 0
      BY <1>1 DEF pollRequest, Unasked, MonitorIsAwake
<1>2. CASE inFlight = 0
  <2>1. refresh(monitored, pollRun, processes) /\ loop' = "waits" /\ loopRun' = pollRun + 1
        BY <1>2 DEF pollRequest
  <2> QED BY <2>1, RefreshAsks
<1> QED BY <1>1, <1>2

LEMMA MonitorStep == MonitorInv /\ [MonitorNext]_monitorVars => MonitorInv'
<1> SUFFICES ASSUME MonitorInv, [MonitorNext]_monitorVars PROVE MonitorInv'
    OBVIOUS
<1>0. pollRun \in Nat /\ visible \in BOOLEAN /\ MonitorIsAwake
      BY DEF MonitorInv
<1>1. CASE setView
  <2>1. PICK processes \in BOOLEAN :
            IF visible THEN pollRequest(processes) ELSE Unasked /\ UNCHANGED loopVars
        BY <1>1 DEF setView
  <2> QED BY <1>0, <1>1, <2>1, PollAsks DEF setView, MonitorInv, MonitorIsAwake, Unasked, loopVars
<1>2. CASE handleVisibilityChange
      BY <1>0, <1>2, PollAsks DEF handleVisibilityChange, MonitorInv, MonitorIsAwake, Unasked
<1>3. CASE ConnectionIdChanges
  <2>1. CASE visible
    <3>1. refresh(2, pollRun + 1, processesShown) /\ loopRun' = pollRun + 2 /\ visible' = visible
          BY <1>3, <2>1 DEF ConnectionIdChanges
    <3>2. pollRun' = (pollRun + 1) + 1 /\ inFlight' = (pollRun + 1) + 1
          /\ \E q \in sampling' : q.pollRun = (pollRun + 1) + 1
          BY <3>1, RefreshAsks
    <3>3. loop' = "waits"
          BY <1>3, <2>1 DEF ConnectionIdChanges
    <3>4. (pollRun + 1) + 1 = pollRun + 2 /\ pollRun + 2 \in Nat
          BY <1>0
    <3> QED BY <1>0, <3>1, <3>2, <3>3, <3>4 DEF MonitorInv, MonitorIsAwake
  <2>2. CASE ~visible
        BY <1>0, <1>3, <2>2 DEF ConnectionIdChanges, MonitorInv, MonitorIsAwake
  <2> QED BY <2>1, <2>2
<1>4. CASE PollTimerFires
      BY <1>0, <1>4, PollAsks DEF PollTimerFires, MonitorInv, MonitorIsAwake
<1>5. ASSUME NEW q \in sampling, Settle(q) PROVE MonitorInv'
      BY <1>0, <1>5 DEF Settle, MonitorInv, MonitorIsAwake
<1>6. ASSUME NEW c, NEW processes, refresh(c, pollRun, processes), UNCHANGED <<visible, loopVars>>
      PROVE  MonitorInv'
  <2>1. /\ pollRun' = pollRun + 1 /\ inFlight' = pollRun + 1 /\ sampling \subseteq sampling'
        /\ \E q \in sampling' : q.pollRun = pollRun + 1
        BY <1>6, RefreshAsks
  <2> QED BY <1>0, <1>6, <2>1 DEF MonitorInv, MonitorIsAwake, loopVars
<1>7. CASE RefreshButton
      BY <1>6, <1>7 DEF RefreshButton
<1>8. CASE MonitorProcessView \/ signalProcess
      BY <1>0, <1>8 DEF MonitorProcessView, signalProcess, MonitorInv, MonitorIsAwake, Unasked, loopVars
<1>9. CASE SignalReturns
      BY <1>0, <1>6, <1>9 DEF SignalReturns, MonitorInv, MonitorIsAwake, Unasked, loopVars
<1>10. CASE UNCHANGED monitorVars
      BY <1>0, <1>10 DEF monitorVars, MonitorInv, MonitorIsAwake, loopVars
<1> QED BY <1>1, <1>2, <1>3, <1>4, <1>5, <1>7, <1>8, <1>9, <1>10
        DEF MonitorNext, SnapshotArrives, SnapshotFails

\* While the panel is shown the refresh loop has a timer set or waits for a request that is on its
\* way, whichever answers come late or out of order (refreshSnapshot and its pollRun token).
THEOREM MonitorStaysAwake == MonitorSpec => []MonitorIsAwake
<1>1. MonitorInit => MonitorInv
      BY DEF MonitorInit, MonitorInv, MonitorIsAwake
<1>2. MonitorInv => MonitorIsAwake
      BY DEF MonitorInv
<1> QED BY <1>1, <1>2, MonitorStep, PTL DEF MonitorSpec

-----------------------------------------------------------------------------
(* The AI panel.                                                           *)

\* While a question is on its way the panel shows the session it was asked in, or nothing:
\* the answer may be added to what is shown.
ChatInv ==
    /\ ShownInSession
    /\ chats \subseteq Chats
    /\ activeChat = NoChat => shownMessages = {}
    /\ Len(call) > 0 /\ call[1] = "send" =>
          /\ shownMessages = {} \/ call[2] = activeChat
          /\ call[3] = "done" => call[2] \in Chats

LEMMA ChatStep == ChatInv /\ [ChatNext]_chatVars => ChatInv'
<1> SUFFICES ASSUME ChatInv, [ChatNext]_chatVars PROVE ChatInv'
    OBVIOUS
<1> USE NoChatAssumption DEF ChatInv, ShownInSession, chatStore, panelVars, Idle, Unblocked
<1>1. CASE sendMessage BY <1>1 DEF sendMessage
<1>2. CASE stopStreaming BY <1>2 DEF stopStreaming
<1>3. CASE startNewSession BY <1>3 DEF startNewSession
<1>4. CASE clearCurrentSession BY <1>4 DEF clearCurrentSession
<1>5. ASSUME NEW c \in Chats, StreamStarts(c) PROVE ChatInv' BY <1>5 DEF StreamStarts
<1>6. ASSUME NEW c \in Chats, openSession(c) PROVE ChatInv' BY <1>6 DEF openSession
<1>7. ASSUME NEW c \in Chats, confirmDeleteSession(c) PROVE ChatInv' BY <1>7 DEF confirmDeleteSession
<1>8. ASSUME NEW x, StreamEnds(x) PROVE ChatInv' BY <1>8 DEF StreamEnds
<1>9. CASE SendReturns BY <1>9 DEF SendReturns
<1>10. CASE OpenReturns BY <1>10 DEF OpenReturns
<1>11. CASE CallFails BY <1>11 DEF CallFails
<1>12. CASE EventArrives BY <1>12 DEF EventArrives
<1>13. CASE DialogRuns BY <1>13 DEF DialogRuns
<1>14. CASE DeleteReturns BY <1>14 DEF DeleteReturns
<1>15. CASE ClearReturns \/ DialogFails BY <1>15 DEF ClearReturns, DialogFails
<1>16. CASE UNCHANGED chatVars BY <1>16 DEF chatVars
<1> QED BY <1>1, <1>2, <1>3, <1>4, <1>5, <1>6, <1>7, <1>8, <1>9, <1>10, <1>11, <1>12, <1>13,
           <1>14, <1>15, <1>16 DEF ChatNext, Answers

\* The panel never shows a message of another session than its own, although the answer to a
\* question arrives after the panel may have been moved to another session or cleared.
THEOREM NoForeignMessage == ChatSpec => []ShownInSession
<1>1. ChatInit => ChatInv
      BY DEF ChatInit, ChatInv, ShownInSession
<1>2. ChatInv => ShownInSession
      BY DEF ChatInv
<1> QED BY <1>1, <1>2, ChatStep, PTL DEF ChatSpec

-----------------------------------------------------------------------------
(* The logs of a container.                                                *)

Stages == {"connecting", "spawned", "open", "finished", "ended"}

LogStream == [of : Containers, st : Stages, missed : BOOLEAN]

LogsTypeOK ==
    /\ logStream \in Seq(LogStream)
    /\ logs \in [target : Containers \cup {NoContainer}, streamId : Nat,
                 loading : BOOLEAN, streaming : BOOLEAN, paused : BOOLEAN]

\* A stream that connects is already the dialog's, and is stopped like one that runs.
RunsFor(id) == id = logs.streamId \/ id \in stopping \/ logStream[id].missed

LogsInv ==
    /\ LogsTypeOK
    /\ LogsAreOfTarget
    /\ \A id \in DOMAIN logStream : logStream[id].st \in {"connecting", "spawned", "open"} => RunsFor(id)
    /\ logs.streamId # 0 => /\ logs.streamId \in DOMAIN logStream
                            /\ logs.target = logStream[logs.streamId].of
    /\ \A v \in logEvents : v.id \in DOMAIN logStream
    /\ \A a \in starting : a.id \in DOMAIN logStream /\ (~a.ok => logStream[a.id].st = "ended")
    /\ stopping \subseteq DOMAIN logStream

LEMMA LogsStart ==
    ASSUME LogsInv, NEW c \in Containers, NEW reset \in BOOLEAN, startLogsStream(c, reset),
           logs.target \in {NoContainer, c}
    PROVE  LogsInv'
<1> DEFINE n == Len(logStream)
           new == [of |-> c, st |-> "connecting", missed |-> FALSE]
<1>1. /\ n \in Nat /\ DOMAIN logStream = 1..n
      /\ logStream' = Append(logStream, new)
      /\ new \in LogStream
      BY DEF startLogsStream, LogsInv, LogsTypeOK, LogStream, Stages
<1>2. /\ logStream' \in Seq(LogStream)
      /\ DOMAIN logStream' = 1..(n + 1) /\ logStream'[n + 1] = new
      /\ \A i \in 1..n : logStream'[i] = logStream[i]
      BY <1>1 DEF LogsInv, LogsTypeOK
<1> HIDE DEF new
<1>3. /\ logs' = [target |-> c, streamId |-> n + 1, loading |-> TRUE, streaming |-> FALSE, paused |-> FALSE]
      /\ new.of = c
      BY DEF startLogsStream, NoLogs, new
<1>4. stopping' = stopping \cup ({logs.streamId} \ {0})
      BY DEF startLogsStream, dockerContainerLogsStop
<1>5. LogsTypeOK'
      BY <1>1, <1>2, <1>3 DEF LogsTypeOK
<1>6. LogsAreOfTarget'
      BY <1>3, NoContainerAssumption DEF startLogsStream, LogsInv, LogsAreOfTarget
<1>7. \A id \in DOMAIN logStream' : logStream'[id].st \in {"connecting", "spawned", "open"} => RunsFor(id)'
      BY <1>1, <1>2, <1>3, <1>4 DEF LogsInv, LogsTypeOK, RunsFor
<1>8. (stopping \subseteq DOMAIN logStream)'
      BY <1>1, <1>2, <1>4 DEF LogsInv, LogsTypeOK
<1> QED BY <1>1, <1>2, <1>3, <1>5, <1>6, <1>7, <1>8 DEF startLogsStream, LogsInv

\* The dialog is closed, left or paused: its stream is being stopped.
LEMMA LogsStopped ==
    ASSUME LogsInv, dockerContainerLogsStop, UNCHANGED <<logStream, logEvents, chunks>>,
           starting' \subseteq starting,
           \/ logs' = NoLogs /\ text' = {}
           \/ logs' = [NoLogs EXCEPT !.target = logs.target, !.paused = TRUE] /\ text' = text \cup buffer,
           buffer' = {}
    PROVE  LogsInv'
<1> USE DEF LogsInv, LogsTypeOK
<1>1. /\ logs' \in [target : Containers \cup {NoContainer}, streamId : Nat,
                    loading : BOOLEAN, streaming : BOOLEAN, paused : BOOLEAN]
      /\ logs'.streamId = 0 /\ logs'.target \in {NoContainer, logs.target}
  <2>1. CASE logs' = NoLogs
        BY <2>1 DEF NoLogs
  <2>2. CASE logs' = [NoLogs EXCEPT !.target = logs.target, !.paused = TRUE]
    <3>1. logs' = [target |-> logs.target, streamId |-> 0, loading |-> FALSE, streaming |-> FALSE, paused |-> TRUE]
          BY <2>2 DEF NoLogs
    <3> QED BY <3>1
  <2> QED BY <2>1, <2>2
<1>2. LogsAreOfTarget'
      BY DEF NoLogs, LogsAreOfTarget
<1>3. stopping' = stopping \cup ({logs.streamId} \ {0}) /\ stopping' \subseteq DOMAIN logStream
      BY DEF dockerContainerLogsStop
<1>4. \A id \in DOMAIN logStream : RunsFor(id) => RunsFor(id)'
      BY <1>3 DEF RunsFor
<1> QED BY <1>1, <1>2, <1>3, <1>4

LEMMA LogsStep == LogsInv /\ [LogsNext]_logsVars => LogsInv'
<1> SUFFICES ASSUME LogsInv, [LogsNext]_logsVars PROVE LogsInv'
    OBVIOUS
<1>1. ASSUME NEW c \in Containers, openLogs(c) PROVE LogsInv'
      BY <1>1, LogsStart DEF openLogs
<1>2. CASE restartLogs \/ enableLogStreaming
  <2>1. logs.target \in Containers
        BY <1>2 DEF restartLogs, enableLogStreaming, LogsDialog, LogsInv, LogsTypeOK
  <2> QED BY <1>2, <2>1, LogsStart DEF restartLogs, enableLogStreaming
<1>3. CASE closeLogs BY <1>3, LogsStopped DEF closeLogs, Backend
<1>4. CASE pauseLogStreaming BY <1>4, LogsStopped DEF pauseLogStreaming, Backend
<1>5. CASE LeaveConnection BY <1>5, LogsStopped DEF LeaveConnection
<1> USE DEF LogsInv, LogsTypeOK, RunsFor
<1>0. /\ Len(logStream) \in Nat /\ DOMAIN logStream = 1..Len(logStream)
      /\ \A i \in DOMAIN logStream : logStream[i] \in LogStream
      OBVIOUS
<1>6. CASE clearLogs BY <1>6 DEF clearLogs, Backend, LogsAreOfTarget
<1>7. CASE BufferFlushes BY <1>7 DEF BufferFlushes, Backend, LogsAreOfTarget
<1>8. ASSUME NEW a \in starting, StartReturns(a) PROVE LogsInv'
      BY <1>8 DEF StartReturns, LogsAreOfTarget
<1>9. ASSUME NEW v \in logEvents, LogEventArrives(v) PROVE LogsInv'
  <2>1. /\ logs' \in [target : Containers \cup {NoContainer}, streamId : Nat,
                      loading : BOOLEAN, streaming : BOOLEAN, paused : BOOLEAN]
        /\ logs'.streamId = logs.streamId /\ logs'.target = logs.target
        BY <1>9 DEF LogEventArrives
  <2>2. LogsAreOfTarget'
    <3>1. v.id # 0 /\ v.id \in DOMAIN logStream /\ logStream[v.id].of \in Containers
          BY <1>0 DEF LogStream
    <3> QED BY <1>9, <2>1, <3>1, NoContainerAssumption DEF LogEventArrives, LogsAreOfTarget
  <2> QED BY <1>9, <2>1, <2>2 DEF LogEventArrives
<1>10. ASSUME NEW id \in DOMAIN logStream, NEW from, NEW to \in Stages, StreamBecomes(id, from, to)
       PROVE  /\ logStream' \in Seq(LogStream)
              /\ DOMAIN logStream' = DOMAIN logStream
              /\ logStream[id].st = from /\ logStream'[id].st = to
              /\ \A i \in DOMAIN logStream : i # id => logStream'[i] = logStream[i]
              /\ \A i \in DOMAIN logStream : /\ logStream'[i].of = logStream[i].of
                                             /\ logStream'[i].missed = logStream[i].missed
  <2> DEFINE r == [logStream[id] EXCEPT !.st = to]
  <2>1. /\ r \in LogStream
        /\ r.st = to /\ r.of = logStream[id].of /\ r.missed = logStream[id].missed
    <3>1. logStream[id] \in LogStream
          BY <1>0
    <3> QED BY <3>1 DEF LogStream
  <2>2. logStream' = [logStream EXCEPT ![id] = r] /\ logStream[id].st = from
        BY <1>10 DEF StreamBecomes
  <2> HIDE DEF r
  <2> QED BY <2>1, <2>2
<1>11. ASSUME NEW id \in DOMAIN logStream, SessionConnects(id) PROVE LogsInv'
       BY <1>10, <1>11 DEF SessionConnects, Dialog, LogsAreOfTarget, Stages
<1>12. ASSUME NEW id \in DOMAIN logStream, HandleIsStored(id) PROVE LogsInv'
       BY <1>10, <1>12 DEF HandleIsStored, Dialog, LogsAreOfTarget, Stages
<1>13. ASSUME NEW id \in DOMAIN logStream, ChunkIsRead(id) PROVE LogsInv'
       BY <1>13 DEF ChunkIsRead, Emit, Dialog, LogsAreOfTarget, Stages
<1>14. ASSUME NEW id \in DOMAIN logStream, StreamFinishes(id) PROVE LogsInv'
       BY <1>10, <1>14 DEF StreamFinishes, Emit, Dialog, LogsAreOfTarget, Stages
<1>15. ASSUME NEW id \in DOMAIN logStream, stop_stream(id) PROVE LogsInv'
  <2> DEFINE r == [of |-> logStream[id].of,
                   st |-> IF logStream[id].st = "open" THEN "ended" ELSE logStream[id].st,
                   missed |-> logStream[id].st \in {"connecting", "spawned"}]
  <2>1. logStream' = [logStream EXCEPT ![id] = r]
        BY <1>15 DEF stop_stream
  <2>2. /\ r \in LogStream
        /\ r.of = logStream[id].of
        /\ r.st = IF logStream[id].st = "open" THEN "ended" ELSE logStream[id].st
        /\ logStream[id].st \in {"connecting", "spawned"} => r.missed
    <3>1. /\ logStream[id].of \in Containers /\ logStream[id].st \in Stages
          /\ (logStream[id].st \in {"connecting", "spawned"}) \in BOOLEAN
          BY <1>0 DEF LogStream
    <3>2. r \in LogStream
          BY <3>1 DEF LogStream, Stages
    <3>3. logStream[id].st \in {"connecting", "spawned"} => r.missed
          BY Zenon
    <3> QED BY <3>2, <3>3
  <2> HIDE DEF r
  <2>3. /\ logStream' \in Seq(LogStream)
        /\ DOMAIN logStream' = DOMAIN logStream /\ logStream'[id] = r
        /\ \A i \in DOMAIN logStream : i # id => logStream'[i] = logStream[i]
        /\ \A i \in DOMAIN logStream : logStream'[i].of = logStream[i].of
        BY <2>1, <2>2
  <2>4. \A i \in DOMAIN logStream' : logStream'[i].st \in {"connecting", "spawned", "open"} => RunsFor(i)'
        BY <1>15, <2>2, <2>3 DEF stop_stream, Dialog
  <2> QED BY <1>15, <2>2, <2>3, <2>4 DEF stop_stream, Dialog, LogsAreOfTarget
<1>16. CASE UNCHANGED logsVars BY <1>16 DEF logsVars, LogsAreOfTarget
<1> HIDE DEF LogsInv
<1> QED BY <1>1, <1>2, <1>3, <1>4, <1>5, <1>6, <1>7, <1>8, <1>9, <1>10, <1>11, <1>12, <1>13, <1>14,
           <1>15, <1>16 DEF LogsNext

\* Every log stream the backend runs is the dialog's or is being stopped (or the stop came before
\* the stream was registered), and what the dialog shows is of the container it is open for.
THEOREM LogsStayOwned == LogsSpec => []LogsAreOwned
<1>1. LogsInit => LogsInv
      BY DEF LogsInit, NoLogs, LogsInv, LogsTypeOK, LogsAreOfTarget
<1>2. LogsInv => LogsAreOwned
      BY DEF LogsInv, LogsAreOwned, StreamsAreStopped, RunsFor
<1> QED BY <1>1, <1>2, LogsStep, PTL DEF LogsSpec

-----------------------------------------------------------------------------
(* The file panel.  A handler of it is a composition of functions on its   *)
(* state (panel and view); a lemma XGood says that the function X keeps    *)
(* Good, and the actions follow.                                           *)

LEMMA SmallestOf ==
    ASSUME NEW S \in SUBSET Nat, S # {}
    PROVE  \E x \in S : \A y \in S : x <= y
<1> DEFINE R == OpToRel(<, Nat)
<1>1. R = {ss \in Nat \X Nat : ss[1] < ss[2]}
      BY DEF OpToRel
<1>2. \E x \in S : \A y \in S : <<y, x>> \notin R
      BY NatLessThanWellFounded, WFMin
<1>3. \A x, y \in Nat : <<y, x>> \in R <=> y < x
      BY <1>1
<1> HIDE DEF R
<1>4. PICK x \in S : \A y \in S : <<y, x>> \notin R
      BY <1>2
<1>5. \A y \in S : ~(y < x)
      BY <1>3, <1>4
<1> QED BY <1>4, <1>5

LEMMA MinIsIn == ASSUME NEW S \in SUBSET Nat, S # {} PROVE Min(S) \in S
BY SmallestOf DEF Min

\* Paths, requests and the state of the panel.
OptPath == 0..Depth
DirRequest == [path : Path, upto : Path, id : Nat, from : Nat, live : BOOLEAN]
InfoRequest == [path : Path, id : Nat, from : Nat, generation : Nat, live : BOOLEAN]
MountedPanel ==
    [mounted : BOOLEAN, active : BOOLEAN, restored : OptPath,
     latest : Nat, loading : OptPath, requests : SUBSET DirRequest,
     infos : Nat, meta : [Path -> Int], asked : [Path -> Nat], generation : [Path -> Nat],
     infoRequests : SUBSET InfoRequest, hover : OptPath, shown : OptPath,
     refreshed : [Path -> Nat], terminal : Path]
FileView ==
    [listing : [Path -> Int], expanded : SUBSET Path, dir : Path, located : OptPath,
     follow : BOOLEAN, cached : BOOLEAN]
PanelState == [panel : MountedPanel, view : FileView]

\* The request that the spinner waits for is on its way.
LoadingOK(P) ==
    P.loading # 0 => \E r \in P.requests : r.live /\ r.id = P.latest /\ r.path = P.loading

\* What is cached is no older than the last refresh; neither is what a request will bring that
\* is still of the current generation.  Such a request is the one its path has asked for, which
\* is why a refresh advances the generation of that path and disowns it.
Current(P, r) == r.live /\ r.generation = P.generation[r.path]
FreshOK(P) ==
    /\ \A p \in Path : P.refreshed[p] <= version[p]
    /\ \A p \in Path : P.meta[p] # Unlisted => P.meta[p] >= P.refreshed[p]
    /\ \A r \in P.infoRequests :
          /\ 1 <= r.id /\ r.id <= P.infos
          /\ r.live => r.generation <= P.generation[r.path]
          /\ Current(P, r) => P.asked[r.path] = r.id /\ r.from >= P.refreshed[r.path]
    /\ \A r, q \in P.infoRequests : r.id = q.id => r = q

Good(s) == s \in PanelState /\ s.panel.mounted /\ LoadingOK(s.panel) /\ FreshOK(s.panel)

FilesInv ==
    /\ version \in [Path -> Nat] /\ view \in FileView /\ tabHost \in {1, 2}
    /\ refreshRequest \in [tabHost : {1, 2}, path : OptPath]
    /\ locateRequest \in [tabHost : {1, 2}, path : OptPath]
    /\ panel # NoPanel => Good(Panel)
    /\ panel = NoPanel \/ panel.mounted

LEMMA PathFacts == Path \subseteq Nat /\ Path \subseteq OptPath /\ 0 \in OptPath /\ 1 \in Path /\ OptPath \ {0} = Path
BY FilesAssumption DEF Path, OptPath

\* FreshOK only depends on these fields.
LEMMA SameFresh ==
    ASSUME NEW P, NEW Q, FreshOK(P),
           Q.meta = P.meta, Q.refreshed = P.refreshed, Q.infoRequests = P.infoRequests,
           Q.infos = P.infos, Q.generation = P.generation, Q.asked = P.asked
    PROVE  FreshOK(Q)
BY DEF FreshOK, Current

LEMMA SameLoading ==
    ASSUME NEW P, NEW Q, LoadingOK(P),
           Q.loading = P.loading, Q.requests = P.requests, Q.latest = P.latest
    PROVE  LoadingOK(Q)
BY DEF LoadingOK

LEMMA CloseGood ==
    ASSUME NEW s, Good(s)
    PROVE  Good(closeRemoteFileInfo(s))
<1> DEFINE t == closeRemoteFileInfo(s)
<1>1. /\ t \in PanelState /\ t.panel.mounted = s.panel.mounted
      /\ t.panel.loading = s.panel.loading /\ t.panel.requests = s.panel.requests
      /\ t.panel.latest = s.panel.latest
      /\ t.panel.meta = s.panel.meta /\ t.panel.refreshed = s.panel.refreshed
      /\ t.panel.infoRequests = s.panel.infoRequests /\ t.panel.infos = s.panel.infos
      /\ t.panel.generation = s.panel.generation /\ t.panel.asked = s.panel.asked
      BY PathFacts DEF Good, PanelState, MountedPanel, closeRemoteFileInfo
<1> HIDE DEF t
<1>2. FreshOK(t.panel) /\ LoadingOK(t.panel)
      BY <1>1, SameFresh, SameLoading DEF Good
<1> QED BY <1>1, <1>2 DEF Good, t

LEMMA AskGood ==
    ASSUME NEW s, Good(s), NEW p \in Path, NEW upto \in Path, version \in [Path -> Nat]
    PROVE  Good(Ask(s, p, upto))
<1>1. PICK P \in MountedPanel : P = s.panel
      BY DEF Good, PanelState
<1>2. PICK new \in DirRequest :
        new = [path |-> p, upto |-> upto, id |-> P.latest + 1, from |-> version[p], live |-> TRUE]
  <2>1. P.latest + 1 \in Nat /\ version[p] \in Nat
        BY <1>1 DEF MountedPanel
  <2>2. [path |-> p, upto |-> upto, id |-> P.latest + 1, from |-> version[p], live |-> TRUE] \in DirRequest
        BY <2>1 DEF DirRequest
  <2> QED BY <2>2
<1>3. PICK R \in SUBSET DirRequest : R = P.requests \cup {new}
      BY <1>1 DEF MountedPanel
<1>4. PICK n \in Nat : n = P.latest + 1
      BY <1>1 DEF MountedPanel
<1>5. PICK Q : Q = [P EXCEPT !.latest = n, !.loading = p, !.requests = R]
      OBVIOUS
<1>6. /\ Q \in MountedPanel /\ Q.mounted = P.mounted
      /\ Q.loading = p /\ Q.requests = R /\ Q.latest = n
      /\ Q.meta = P.meta /\ Q.refreshed = P.refreshed /\ Q.infoRequests = P.infoRequests
      /\ Q.infos = P.infos /\ Q.generation = P.generation /\ Q.asked = P.asked
  <2>1. p \in OptPath
        BY PathFacts
  <2>2. P \in MountedPanel /\ n \in Nat /\ R \in SUBSET DirRequest
        BY <1>1, <1>3, <1>4
  <2> QED BY <1>5, <2>1, <2>2 DEF MountedPanel
<1>7. Ask(s, p, upto) = [s EXCEPT !.panel = Q]
      BY <1>1, <1>2, <1>3, <1>4, <1>5 DEF Ask, Good, PanelState, MountedPanel
<1>8. PICK t : t = Ask(s, p, upto)
      OBVIOUS
<1>9. t \in PanelState /\ t.panel = Q
      BY <1>6, <1>7, <1>8 DEF Good, PanelState
<1>10. new \in Q.requests /\ new.live /\ new.id = Q.latest /\ new.path = Q.loading
      BY <1>2, <1>3, <1>4, <1>6 DEF DirRequest
<1>11. LoadingOK(Q)
      BY <1>10 DEF LoadingOK
<1>12. FreshOK(Q)
      BY <1>1, <1>6, SameFresh DEF Good
<1> QED BY <1>1, <1>6, <1>8, <1>9, <1>11, <1>12 DEF Good

LEMMA LoadFromGood ==
    ASSUME NEW s, Good(s), NEW p \in Nat \ {0}, NEW upto \in Path, version \in [Path -> Nat]
    PROVE  Good(loadFrom(s, p, upto))
<1> DEFINE missing == {q \in p..upto : s.view.listing[q] = Unlisted}
<1>1. missing \subseteq Path
      BY FilesAssumption DEF Path
<1>2. missing # {} => Min(missing) \in Path
      BY <1>1, PathFacts, MinIsIn
<1> HIDE DEF missing
<1>3. loadFrom(s, p, upto) = IF missing = {} THEN s ELSE Ask(s, Min(missing), upto)
      BY DEF loadFrom, missing
<1> QED BY <1>2, <1>3, AskGood

\* A refresh of p: what is below is asked anew, and whatever was on its way is disowned.
LEMMA InvalidateGood ==
    ASSUME NEW s, Good(s), NEW p \in Path, version \in [Path -> Nat]
    PROVE  Good(invalidateRemoteFileMetadataCache(s, p))
<1>1. PICK P \in MountedPanel : P = s.panel
      BY DEF Good, PanelState
<1>0. /\ P.meta \in [Path -> Int] /\ P.asked \in [Path -> Nat]
      /\ P.generation \in [Path -> Nat] /\ P.refreshed \in [Path -> Nat]
      BY <1>1 DEF MountedPanel
<1>2. PICK affected \in SUBSET Path : affected = {q \in p..Depth : P.meta[q] # Unlisted \/ P.asked[q] # 0}
  <2>1. {q \in p..Depth : P.meta[q] # Unlisted \/ P.asked[q] # 0} \in SUBSET Path
        BY FilesAssumption DEF Path
  <2> QED BY <2>1
<1>3. PICK g \in [Path -> Nat] :
        g = [q \in Path |-> IF q \in affected THEN P.generation[q] + 1 ELSE P.generation[q]]
  <2>1. \A q \in Path : P.generation[q] \in Nat /\ P.generation[q] + 1 \in Nat
        BY <1>0
  <2>2. [q \in Path |-> IF q \in affected THEN P.generation[q] + 1 ELSE P.generation[q]] \in [Path -> Nat]
        BY <2>1
  <2> QED BY <2>2
<1>4. PICK m \in [Path -> Int] : m = [q \in Path |-> IF q \in affected THEN Unlisted ELSE P.meta[q]]
  <2>1. Unlisted \in Int
        BY DEF Unlisted
  <2> QED BY <1>0, <2>1
<1>5. PICK a \in [Path -> Nat] : a = [q \in Path |-> IF q \in affected THEN 0 ELSE P.asked[q]]
      BY <1>0
<1>6. PICK f \in [Path -> Nat] : f = [q \in Path |-> IF q >= p THEN version[q] ELSE P.refreshed[q]]
      BY <1>0
<1>7. PICK Q : Q = [P EXCEPT !.generation = g, !.meta = m, !.asked = a, !.refreshed = f]
      OBVIOUS
<1>8. /\ Q \in MountedPanel /\ Q.mounted = P.mounted
      /\ Q.loading = P.loading /\ Q.requests = P.requests /\ Q.latest = P.latest
      /\ Q.meta = m /\ Q.refreshed = f /\ Q.infoRequests = P.infoRequests
      /\ Q.infos = P.infos /\ Q.generation = g /\ Q.asked = a
      BY <1>7 DEF MountedPanel
<1>9. PICK t : t = [s EXCEPT !.panel = Q]
      OBVIOUS
<1>10. invalidateRemoteFileMetadataCache(s, p) =
         IF s.panel.hover >= p \/ s.panel.shown >= p THEN closeRemoteFileInfo(t) ELSE t
      BY <1>1, <1>2, <1>3, <1>4, <1>5, <1>6, <1>7, <1>9 DEF invalidateRemoteFileMetadataCache
<1>11. t \in PanelState /\ t.panel = Q
      BY <1>8, <1>9 DEF Good, PanelState
<1>12. FreshOK(P) /\ LoadingOK(P)
      BY <1>1 DEF Good
<1>13. LoadingOK(Q)
      BY <1>8, <1>12, SameLoading
<1>14. \A r \in P.infoRequests : r \in InfoRequest
      BY <1>1 DEF MountedPanel
<1>15. ASSUME NEW r \in P.infoRequests
       PROVE  /\ 1 <= r.id /\ r.id <= Q.infos
              /\ r.live => r.generation <= Q.generation[r.path]
              /\ Current(Q, r) => Q.asked[r.path] = r.id /\ r.from >= Q.refreshed[r.path]
  <2>1. /\ r.path \in Path /\ r.generation \in Nat /\ r.id \in Nat /\ r.from \in Nat
        BY <1>14 DEF InfoRequest
  <2>2. /\ 1 <= r.id /\ r.id <= P.infos
        /\ r.live => r.generation <= P.generation[r.path]
        /\ Current(P, r) => P.asked[r.path] = r.id /\ r.from >= P.refreshed[r.path]
        BY <1>12 DEF FreshOK
  <2>3. CASE r.path \in affected
    <3>1. g[r.path] = P.generation[r.path] + 1
          BY <1>0, <1>3, <2>1, <2>3
    <3>2. r.live => r.generation < g[r.path]
          BY <1>0, <2>1, <2>2, <3>1
    <3> QED BY <1>8, <1>3, <2>1, <2>2, <3>2 DEF Current
  <2>4. CASE r.path \notin affected
    <3>1. g[r.path] = P.generation[r.path] /\ a[r.path] = P.asked[r.path]
          BY <1>0, <1>3, <1>5, <2>1, <2>4
    <3>2. ASSUME Current(Q, r) PROVE r.path < p
      <4>1. P.asked[r.path] = r.id /\ r.id # 0
            BY <1>8, <2>1, <2>2, <3>1, <3>2 DEF Current
      <4>2. r.path \in p..Depth => r.path \in affected
            BY <1>2, <4>1
      <4>3. r.path \in Nat /\ r.path <= Depth /\ p \in Nat /\ Depth \in Nat
            BY <2>1, FilesAssumption DEF Path
      <4> QED BY <2>4, <4>2, <4>3
    <3>3. r.path < p => f[r.path] = P.refreshed[r.path]
      <4>1. r.path \in Nat /\ p \in Nat
            BY <2>1, PathFacts
      <4> QED BY <1>6, <2>1, <4>1
    <3> QED BY <1>8, <2>1, <2>2, <3>1, <3>2, <3>3 DEF Current
  <2> QED BY <2>3, <2>4
<1>16. ASSUME NEW q \in Path PROVE f[q] <= version[q] /\ (m[q] # Unlisted => m[q] >= f[q])
  <2>1. /\ P.refreshed[q] <= version[q] /\ (P.meta[q] # Unlisted => P.meta[q] >= P.refreshed[q])
        BY <1>12 DEF FreshOK
  <2>2. q >= p /\ P.meta[q] # Unlisted => q \in affected
        BY <1>2, FilesAssumption DEF Path
  <2>3. /\ m[q] = IF q \in affected THEN Unlisted ELSE P.meta[q]
        /\ f[q] = IF q >= p THEN version[q] ELSE P.refreshed[q]
        BY <1>4, <1>6
  <2>4. version[q] \in Nat /\ P.refreshed[q] \in Nat
        BY <1>0
  <2> QED BY <2>1, <2>2, <2>3, <2>4
<1>17. FreshOK(Q)
      BY <1>8, <1>12, <1>15, <1>16 DEF FreshOK
<1>18. Good(t)
      BY <1>1, <1>8, <1>11, <1>13, <1>17 DEF Good
<1> QED BY <1>10, <1>18, CloseGood

LEMMA ForceGood ==
    ASSUME NEW s, Good(s), NEW p \in Path, version \in [Path -> Nat]
    PROVE  Good(forceLoad(s, p))
BY AskGood, InvalidateGood DEF forceLoad

\* Nothing that is said of the panel depends on the view.
LEMMA ViewGood ==
    ASSUME NEW s, Good(s), NEW v \in FileView, NEW t, t = [s EXCEPT !.view = v]
    PROVE  Good(t)
BY DEF Good, PanelState

LEMMA RevealGood ==
    ASSUME NEW s, Good(s), NEW p \in Path, NEW markLocated \in BOOLEAN, version \in [Path -> Nat]
    PROVE  Good(revealDirectoryPath(s, p, markLocated))
<1>1. PICK v \in FileView : v = s.view
      BY DEF Good, PanelState
<1>2. PICK e \in SUBSET Path : e = v.expanded \cup 2..p
  <2>1. v.expanded \in SUBSET Path /\ 2..p \in SUBSET Path
        BY <1>1, FilesAssumption DEF FileView, Path
  <2> QED BY <2>1
<1>3. PICK l \in OptPath : l = IF markLocated THEN p ELSE 0
      BY PathFacts
<1>4. PICK w : w = [v EXCEPT !.dir = p, !.located = l, !.expanded = e]
      OBVIOUS
<1>5. w \in FileView
      BY <1>4 DEF FileView
<1>6. PICK t : t = [s EXCEPT !.view = w]
      OBVIOUS
<1>7. revealDirectoryPath(s, p, markLocated) = loadFrom(t, 1, p)
      BY <1>1, <1>2, <1>3, <1>4, <1>6 DEF revealDirectoryPath
<1>8. Good(t)
      BY <1>5, <1>6, ViewGood
<1> QED BY <1>7, <1>8, LoadFromGood

LEMMA FollowGood ==
    ASSUME NEW s, Good(s), version \in [Path -> Nat]
    PROVE  Good(FollowEffect(s))
<1>1. s.panel.terminal \in Path
      BY DEF Good, PanelState, MountedPanel
<1> QED BY <1>1, RevealGood DEF FollowEffect

\* The fields of the panel that no invariant is about.
LEMMA FieldGood ==
    ASSUME NEW s, Good(s), NEW P, P \in MountedPanel, P.mounted,
           P.loading = s.panel.loading, P.requests = s.panel.requests, P.latest = s.panel.latest,
           P.meta = s.panel.meta, P.refreshed = s.panel.refreshed, P.infoRequests = s.panel.infoRequests,
           P.infos = s.panel.infos, P.generation = s.panel.generation, P.asked = s.panel.asked,
           NEW t, t = [s EXCEPT !.panel = P]
    PROVE  Good(t)
<1>1. t \in PanelState /\ t.panel = P
      BY DEF Good, PanelState
<1>2. FreshOK(P) /\ LoadingOK(P)
      BY SameFresh, SameLoading DEF Good
<1> QED BY <1>1, <1>2 DEF Good

LEMMA LoadEffectGood ==
    ASSUME NEW s, Good(s), version \in [Path -> Nat]
    PROVE  Good(LoadEffect(s))
<1>1. s.panel \in MountedPanel
      BY DEF Good, PanelState
<1>2. PICK P : P = [s.panel EXCEPT !.restored = 0]
      OBVIOUS
<1>3. /\ P \in MountedPanel /\ P.mounted = s.panel.mounted
      /\ P.loading = s.panel.loading /\ P.requests = s.panel.requests /\ P.latest = s.panel.latest
      /\ P.meta = s.panel.meta /\ P.refreshed = s.panel.refreshed
      /\ P.infoRequests = s.panel.infoRequests /\ P.infos = s.panel.infos
      /\ P.generation = s.panel.generation /\ P.asked = s.panel.asked
      BY <1>1, <1>2, PathFacts DEF MountedPanel
<1>4. PICK t : t = [s EXCEPT !.panel = P]
      OBVIOUS
<1>5. t = [s EXCEPT !.panel.restored = 0]
      BY <1>1, <1>2, <1>4
<1>6. Good(t)
      BY <1>3, <1>4, FieldGood DEF Good
<1>7. s.panel.restored # 0 => s.panel.restored \in Path
      BY <1>1, PathFacts DEF MountedPanel
<1>8. CASE s.panel.restored # 0
      BY <1>5, <1>6, <1>7, <1>8, RevealGood DEF LoadEffect
<1>9. CASE s.panel.restored = 0
      BY <1>9, LoadFromGood, PathFacts DEF LoadEffect
<1> QED BY <1>8, <1>9

LEMMA EffectsGood ==
    ASSUME NEW s, Good(s), NEW h, FilesInv
    PROVE  Good(Effects(s, h))
<1>1. /\ version \in [Path -> Nat]
      /\ refreshRequest.path # 0 => refreshRequest.path \in Path
      /\ locateRequest.path # 0 => locateRequest.path \in Path
      BY PathFacts DEF FilesInv
<1>2. ASSUME NEW t, Good(t) PROVE Good(RefreshEffect(t, h))
      BY <1>1, <1>2, ForceGood DEF RefreshEffect
<1>3. ASSUME NEW t, Good(t) PROVE Good(LocateEffect(t, h))
      BY <1>1, <1>3, RevealGood DEF LocateEffect
<1>4. Good(LoadEffect(s))
      BY <1>1, LoadEffectGood
<1>5. Good(LocateEffect(RefreshEffect(LoadEffect(s), h), h))
      BY <1>2, <1>3, <1>4
<1> QED BY <1>1, <1>5, FollowGood DEF Effects

\* The panel becomes s, and nothing the invariant is about moves but it.
LEMMA BecomesGood ==
    ASSUME FilesInv, NEW s, Good(s), PanelIs(s), version' = version, tabHost' \in {1, 2},
           refreshRequest' \in [tabHost : {1, 2}, path : OptPath],
           locateRequest' \in [tabHost : {1, 2}, path : OptPath]
    PROVE  FilesInv'
<1>1. s \in PanelState /\ s = [panel |-> s.panel, view |-> s.view] /\ s.view \in FileView
      BY DEF Good, PanelState
<1>2. panel' = s.panel /\ view' = s.view /\ Panel' = s
      BY <1>1 DEF PanelIs, Panel
<1>3. Good(s)'
      BY DEF Good, FreshOK, LoadingOK, Current
<1>4. Good(Panel)'
      BY <1>2, <1>3
<1> QED BY <1>1, <1>2, <1>4 DEF FilesInv, Good

\* What an answer to an outstanding request for metadata does.
LEMMA InfoGood ==
    ASSUME FilesInv, NEW r \in panel.infoRequests, NEW answer \in r.from..version[r.path],
           InfoReturns(r, answer)
    PROVE  FilesInv'
<1>1. Good(Panel) /\ panel \in MountedPanel /\ view \in FileView /\ panel.mounted
      BY DEF FilesInv, InfoReturns, NoPanel, Good, PanelState, Panel
<1>2. PICK P \in MountedPanel : P = panel
      BY <1>1
<1>3. /\ P.meta \in [Path -> Int] /\ P.asked \in [Path -> Nat] /\ P.infoRequests \in SUBSET InfoRequest
      /\ P.refreshed \in [Path -> Nat] /\ P.generation \in [Path -> Nat] /\ r \in P.infoRequests
      BY <1>2 DEF MountedPanel
<1>4. r.path \in Path /\ r.id \in Nat /\ r.from \in Nat /\ r \in InfoRequest
      BY <1>3 DEF InfoRequest
<1>5. answer \in Int /\ answer >= r.from
      BY <1>4 DEF FilesInv
<1>6. PICK m \in [Path -> Int] : m = [P.meta EXCEPT ![r.path] = IF Current(P, r) THEN answer ELSE @]
      BY <1>3, <1>4, <1>5
<1>7. PICK a \in [Path -> Nat] : a = [P.asked EXCEPT ![r.path] = IF @ = r.id THEN 0 ELSE @]
      BY <1>3, <1>4
<1>8. PICK R \in SUBSET InfoRequest : R = P.infoRequests \ {r}
      BY <1>3
<1>9. PICK Q : Q = [P EXCEPT !.infoRequests = R, !.meta = m, !.asked = a]
      OBVIOUS
<1>10. /\ Q \in MountedPanel /\ Q.mounted = P.mounted
       /\ Q.loading = P.loading /\ Q.requests = P.requests /\ Q.latest = P.latest
       /\ Q.meta = m /\ Q.refreshed = P.refreshed /\ Q.infoRequests = R
       /\ Q.infos = P.infos /\ Q.generation = P.generation /\ Q.asked = a
       BY <1>9 DEF MountedPanel
<1>11. PICK t : t = [panel |-> Q, view |-> view]
       OBVIOUS
<1>12. PanelIs(t)
       BY <1>1, <1>2, <1>3, <1>4, <1>6, <1>7, <1>8, <1>9, <1>11
       DEF InfoReturns, Panel, MountedPanel, Current, PanelIs
<1>13. FreshOK(P) /\ LoadingOK(P)
       BY <1>1, <1>2 DEF Good, Panel
<1>14. LoadingOK(Q)
       BY <1>10, <1>13, SameLoading
<1>15. \A p \in Path : m[p] # Unlisted => m[p] >= P.refreshed[p]
       BY <1>3, <1>4, <1>5, <1>6, <1>13 DEF FreshOK
<1>16. \A q \in R : /\ Current(P, q) => a[q.path] = q.id /\ q.from >= P.refreshed[q.path]
       BY <1>3, <1>4, <1>7, <1>8, <1>13 DEF FreshOK
<1>17. FreshOK(Q)
       BY <1>8, <1>10, <1>13, <1>15, <1>16 DEF FreshOK, Current
<1>18. Good(t)
       BY <1>1, <1>2, <1>10, <1>11, <1>14, <1>17 DEF Good, PanelState
<1> QED BY <1>12, <1>18, BecomesGood DEF InfoReturns, Shell, FilesInv

LEMMA AskInfoGood ==
    ASSUME FilesInv, beginRemoteFileInfoLoad
    PROVE  FilesInv'
<1>1. Good(Panel) /\ panel \in MountedPanel /\ view \in FileView /\ panel.mounted
      BY DEF FilesInv, beginRemoteFileInfoLoad, Usable, NoPanel, Good, PanelState, Panel
<1>2. PICK P \in MountedPanel : P = panel
      BY <1>1
<1>3. /\ P.meta \in [Path -> Int] /\ P.asked \in [Path -> Nat] /\ P.infoRequests \in SUBSET InfoRequest
      /\ P.refreshed \in [Path -> Nat] /\ P.generation \in [Path -> Nat] /\ P.infos \in Nat
      BY <1>2 DEF MountedPanel
<1>4. PICK p \in Path : p = P.hover
      BY <1>2, PathFacts DEF beginRemoteFileInfoLoad, MountedPanel
<1>5. PICK s : s = [panel |-> [P EXCEPT !.hover = 0, !.shown = p], view |-> view]
      OBVIOUS
<1>6. [P EXCEPT !.hover = 0, !.shown = p] \in MountedPanel /\ s.panel = [P EXCEPT !.hover = 0, !.shown = p]
      BY <1>4, <1>5, PathFacts DEF MountedPanel
<1>7. /\ s \in PanelState /\ s.panel.mounted
      /\ s.panel.loading = P.loading /\ s.panel.requests = P.requests /\ s.panel.latest = P.latest
      /\ s.panel.meta = P.meta /\ s.panel.refreshed = P.refreshed /\ s.panel.infoRequests = P.infoRequests
      /\ s.panel.infos = P.infos /\ s.panel.generation = P.generation /\ s.panel.asked = P.asked
      BY <1>1, <1>2, <1>5, <1>6 DEF MountedPanel, PanelState
<1>8. Good(s)
  <2>1. FreshOK(P) /\ LoadingOK(P)
        BY <1>1, <1>2 DEF Good, Panel
  <2> QED BY <1>7, <2>1, SameFresh, SameLoading DEF Good
<1>10. CASE panel.meta[p] # Unlisted \/ panel.asked[p] # 0
  <2>1. PanelIs(s)
        BY <1>2, <1>4, <1>5, <1>10 DEF beginRemoteFileInfoLoad
  <2> QED BY <1>8, <2>1, BecomesGood DEF beginRemoteFileInfoLoad, Shell, FilesInv
<1>11. CASE ~(panel.meta[p] # Unlisted \/ panel.asked[p] # 0)
  <2>1. version[p] \in Nat /\ P.generation[p] \in Nat /\ P.infos + 1 \in Nat
        BY <1>3 DEF FilesInv
  <2>2. [path |-> p, id |-> P.infos + 1, from |-> version[p], generation |-> P.generation[p], live |-> TRUE]
          \in InfoRequest
        BY <2>1 DEF InfoRequest
  <2>3. PICK new \in InfoRequest : new = [path |-> p, id |-> P.infos + 1, from |-> version[p],
                                          generation |-> P.generation[p], live |-> TRUE]
        BY <2>2
  <2>4. PICK R \in SUBSET InfoRequest : R = P.infoRequests \cup {new}
        BY <1>3
  <2>5. PICK a \in [Path -> Nat] : a = [P.asked EXCEPT ![p] = P.infos + 1]
        BY <1>3, <2>1
  <2>6. PICK n \in Nat : n = P.infos + 1
        BY <2>1
  <2>7. PICK Q : Q = [s.panel EXCEPT !.infos = n, !.asked = a, !.infoRequests = R]
        OBVIOUS
  <2>8. s.panel \in MountedPanel
        BY <1>7 DEF PanelState
  <2>9. /\ Q \in MountedPanel /\ Q.mounted = s.panel.mounted
        /\ Q.loading = s.panel.loading /\ Q.requests = s.panel.requests /\ Q.latest = s.panel.latest
        /\ Q.meta = s.panel.meta /\ Q.refreshed = s.panel.refreshed /\ Q.infoRequests = R
        /\ Q.infos = n /\ Q.generation = s.panel.generation /\ Q.asked = a
        BY <2>7, <2>8 DEF MountedPanel
  <2>10. PICK t : t = [panel |-> Q, view |-> view]
        OBVIOUS
  <2>11. PanelIs(t)
        BY <1>2, <1>4, <1>6, <1>11, <2>3, <2>4, <2>5, <2>6, <2>7, <2>10 DEF beginRemoteFileInfoLoad
  <2>12. FreshOK(P) /\ LoadingOK(s.panel)
        BY <1>1, <1>2, <1>8 DEF Good, Panel
  <2>13. LoadingOK(Q)
        BY <2>9, <2>12, SameLoading
  <2>14. /\ new.path = p /\ new.id = n /\ new.from = version[p] /\ new.generation = P.generation[p]
         /\ new.live
        BY <2>3, <2>6
  <2>15. ASSUME NEW q \in R
         PROVE  /\ 1 <= q.id /\ q.id <= n
                /\ q.live => q.generation <= P.generation[q.path]
                /\ q.live /\ q.generation = P.generation[q.path] => a[q.path] = q.id /\ q.from >= P.refreshed[q.path]
    <3>1. CASE q = new
      <4>1. P.refreshed[p] <= version[p]
            BY <2>12 DEF FreshOK
      <4> QED BY <1>3, <2>1, <2>5, <2>6, <2>14, <3>1, <4>1
    <3>2. CASE q # new
      <4>1. q \in P.infoRequests /\ q.id \in Nat /\ q.path \in Path
            BY <1>3, <2>4, <3>2 DEF InfoRequest
      <4>2. /\ 1 <= q.id /\ q.id <= P.infos
            /\ q.live => q.generation <= P.generation[q.path]
            /\ q.live /\ q.generation = P.generation[q.path] => P.asked[q.path] = q.id /\ q.from >= P.refreshed[q.path]
            BY <2>12, <4>1 DEF FreshOK, Current
      <4>3. P.asked[p] = 0
            BY <1>2, <1>11
      <4> QED BY <1>3, <2>5, <2>6, <4>1, <4>2, <4>3
    <3> QED BY <3>1, <3>2
  <2>16. \A q, u \in R : q.id = u.id => q = u
    <3>1. \A q \in P.infoRequests : q.id <= P.infos /\ q.id \in Nat
          BY <1>3, <2>12 DEF FreshOK, InfoRequest
    <3>2. \A q \in P.infoRequests : q.id # new.id
          BY <1>3, <2>6, <2>14, <3>1
    <3>3. \A q, u \in P.infoRequests : q.id = u.id => q = u
          BY <2>12 DEF FreshOK
    <3> QED BY <2>4, <3>2, <3>3
  <2>17. FreshOK(Q)
        BY <1>7, <2>9, <2>12, <2>15, <2>16 DEF FreshOK, Current
  <2>18. Good(t)
        BY <1>1, <1>7, <2>9, <2>10, <2>13, <2>17 DEF Good, PanelState
  <2> QED BY <2>11, <2>18, BecomesGood DEF beginRemoteFileInfoLoad, Shell, FilesInv
<1> QED BY <1>10, <1>11

LEMMA ActiveGood ==
    ASSUME NEW s, Good(s), NEW on \in BOOLEAN
    PROVE  Good([s EXCEPT !.panel.active = on])
<1>1. PICK t : t = [s EXCEPT !.panel.active = on]
      OBVIOUS
<1>2. /\ t \in PanelState /\ t.panel.mounted = s.panel.mounted
      /\ t.panel.loading = s.panel.loading /\ t.panel.requests = s.panel.requests
      /\ t.panel.latest = s.panel.latest
      /\ t.panel.meta = s.panel.meta /\ t.panel.refreshed = s.panel.refreshed
      /\ t.panel.infoRequests = s.panel.infoRequests /\ t.panel.infos = s.panel.infos
      /\ t.panel.generation = s.panel.generation /\ t.panel.asked = s.panel.asked
      BY <1>1, PathFacts DEF Good, PanelState, MountedPanel
<1>3. FreshOK(t.panel) /\ LoadingOK(t.panel)
      BY <1>2, SameFresh, SameLoading DEF Good
<1> QED BY <1>1, <1>2, <1>3 DEF Good

LEMMA HoverGood ==
    ASSUME NEW s, Good(s), NEW p \in Path
    PROVE  Good([s EXCEPT !.panel.hover = p])
<1>1. PICK t : t = [s EXCEPT !.panel.hover = p]
      OBVIOUS
<1>2. /\ t \in PanelState /\ t.panel.mounted = s.panel.mounted
      /\ t.panel.loading = s.panel.loading /\ t.panel.requests = s.panel.requests
      /\ t.panel.latest = s.panel.latest
      /\ t.panel.meta = s.panel.meta /\ t.panel.refreshed = s.panel.refreshed
      /\ t.panel.infoRequests = s.panel.infoRequests /\ t.panel.infos = s.panel.infos
      /\ t.panel.generation = s.panel.generation /\ t.panel.asked = s.panel.asked
      BY <1>1, PathFacts DEF Good, PanelState, MountedPanel
<1>3. FreshOK(t.panel) /\ LoadingOK(t.panel)
      BY <1>2, SameFresh, SameLoading DEF Good
<1> QED BY <1>1, <1>2, <1>3 DEF Good

LEMMA TerminalGood ==
    ASSUME NEW s, Good(s), NEW p \in Path
    PROVE  Good([s EXCEPT !.panel.terminal = p])
<1>1. PICK t : t = [s EXCEPT !.panel.terminal = p]
      OBVIOUS
<1>2. /\ t \in PanelState /\ t.panel.mounted = s.panel.mounted
      /\ t.panel.loading = s.panel.loading /\ t.panel.requests = s.panel.requests
      /\ t.panel.latest = s.panel.latest
      /\ t.panel.meta = s.panel.meta /\ t.panel.refreshed = s.panel.refreshed
      /\ t.panel.infoRequests = s.panel.infoRequests /\ t.panel.infos = s.panel.infos
      /\ t.panel.generation = s.panel.generation /\ t.panel.asked = s.panel.asked
      BY <1>1, PathFacts DEF Good, PanelState, MountedPanel
<1>3. FreshOK(t.panel) /\ LoadingOK(t.panel)
      BY <1>2, SameFresh, SameLoading DEF Good
<1> QED BY <1>1, <1>2, <1>3 DEF Good


\* The connection id changes: every request is disowned, and what was cached is forgotten.
LEMMA ChangedGood ==
    ASSUME NEW s, Good(s)
    PROVE  Good(ConnectionChanged(s))
<1>1. PICK c : c = closeRemoteFileInfo(s)
      OBVIOUS
<1>2. Good(c)
      BY <1>1, CloseGood
<1>3. PICK P \in MountedPanel : P = c.panel
      BY <1>2 DEF Good, PanelState
<1>4. /\ P.requests \in SUBSET DirRequest /\ P.infoRequests \in SUBSET InfoRequest /\ P.latest \in Nat
      /\ P.refreshed \in [Path -> Nat]
      BY <1>3 DEF MountedPanel
<1>5. {[r EXCEPT !.live = FALSE] : r \in P.requests} \in SUBSET DirRequest
      BY <1>4 DEF DirRequest
<1>6. {[r EXCEPT !.live = FALSE] : r \in P.infoRequests} \in SUBSET InfoRequest
      BY <1>4 DEF InfoRequest
<1>7. PICK D \in SUBSET DirRequest : D = {[r EXCEPT !.live = FALSE] : r \in P.requests}
      BY <1>5
<1>8. PICK R \in SUBSET InfoRequest : R = {[r EXCEPT !.live = FALSE] : r \in P.infoRequests}
      BY <1>6
<1>9. PICK m \in [Path -> Int] : m = [p \in Path |-> Unlisted]
  <2>1. Unlisted \in Int
        BY DEF Unlisted
  <2> QED BY <2>1
<1>10. PICK z \in [Path -> Nat] : z = [p \in Path |-> 0]
       OBVIOUS
<1>11. PICK n \in Nat : n = P.latest + 1
       BY <1>4
<1>12. PICK Q : Q = [P EXCEPT !.latest = n, !.loading = 0, !.requests = D, !.infoRequests = R,
                              !.meta = m, !.asked = z, !.generation = z]
       OBVIOUS
<1>13. /\ Q \in MountedPanel /\ Q.mounted = P.mounted /\ Q.loading = 0
       /\ Q.meta = m /\ Q.refreshed = P.refreshed /\ Q.infoRequests = R /\ Q.infos = P.infos
       BY <1>12, PathFacts DEF MountedPanel
<1>14. PICK t : t = [c EXCEPT !.panel = Q]
       OBVIOUS
<1>15. ConnectionChanged(s) = t
       BY <1>1, <1>3, <1>7, <1>8, <1>9, <1>10, <1>11, <1>12, <1>14 DEF ConnectionChanged
<1>16. LoadingOK(Q)
       BY <1>13 DEF LoadingOK
<1>17. FreshOK(P)
       BY <1>2, <1>3 DEF Good
<1>18. \A q \in R : ~q.live /\ \E r \in P.infoRequests : r.id = q.id /\ q = [r EXCEPT !.live = FALSE]
       BY <1>4, <1>8 DEF InfoRequest
<1>19. \A q \in R : 1 <= q.id /\ q.id <= P.infos
       BY <1>17, <1>18 DEF FreshOK
<1>20. ASSUME NEW q \in R, NEW u \in R, q.id = u.id PROVE q = u
  <2>1. PICK r \in P.infoRequests : r.id = q.id /\ q = [r EXCEPT !.live = FALSE]
        BY <1>18
  <2>2. PICK w \in P.infoRequests : w.id = u.id /\ u = [w EXCEPT !.live = FALSE]
        BY <1>18
  <2>3. r = w
        BY <1>17, <1>20, <2>1, <2>2 DEF FreshOK
  <2> QED BY <2>1, <2>2, <2>3
<1>21. FreshOK(Q)
       BY <1>9, <1>13, <1>17, <1>18, <1>19, <1>20 DEF FreshOK, Current
<1>22. t \in PanelState /\ t.panel = Q /\ Q.mounted
       BY <1>2, <1>3, <1>13, <1>14 DEF Good, PanelState
<1> QED BY <1>15, <1>16, <1>21, <1>22 DEF Good

LEMMA MountGood ==
    ASSUME FilesInv, NEW on \in BOOLEAN, NEW restored \in OptPath, NEW s,
           s = [panel |-> FreshPanel(on, restored), view |-> [view EXCEPT !.cached = TRUE]]
    PROVE  Good(s)
<1>1. FreshPanel(on, restored) \in MountedPanel
      BY PathFacts DEF FreshPanel, MountedPanel, Unlisted
<1>2. [view EXCEPT !.cached = TRUE] \in FileView
      BY DEF FilesInv, FileView
<1>3. s \in PanelState /\ s.panel = FreshPanel(on, restored)
      BY <1>1, <1>2 DEF PanelState
<1>4. LoadingOK(FreshPanel(on, restored))
      BY DEF LoadingOK, FreshPanel
<1>5. FreshOK(FreshPanel(on, restored))
      BY DEF FreshOK, FreshPanel, FilesInv
<1>6. FreshPanel(on, restored).mounted
      BY DEF FreshPanel
<1> QED BY <1>3, <1>4, <1>5, <1>6 DEF Good

LEMMA ListingGood ==
    ASSUME FilesInv, NEW r \in panel.requests, NEW answer \in {Unlisted} \cup r.from..version[r.path],
           DirectoryReturns(r, answer)
    PROVE  FilesInv'
<1>1. Good(Panel) /\ panel \in MountedPanel /\ view \in FileView /\ panel.mounted /\ version \in [Path -> Nat]
      BY DEF FilesInv, DirectoryReturns, NoPanel, Good, PanelState, Panel
<1>2. PICK P \in MountedPanel : P = panel
      BY <1>1
<1>3. /\ P.requests \in SUBSET DirRequest /\ r \in DirRequest
      /\ view.listing \in [Path -> Int] /\ P.loading \in OptPath
      BY <1>1, <1>2 DEF MountedPanel, FileView
<1>4. r.path \in Path /\ r.upto \in Path /\ r.from \in Nat /\ r.id \in Nat /\ answer \in Int
  <2>1. r.path \in Path /\ r.upto \in Path /\ r.from \in Nat /\ r.id \in Nat
        BY <1>3 DEF DirRequest
  <2> QED BY <1>1, <2>1 DEF Unlisted
<1>5. PICK D \in SUBSET DirRequest : D = P.requests \ {r}
      BY <1>3
<1>6. PICK l \in OptPath : l = IF canApplyDirectoryResponse(r, TRUE) THEN 0 ELSE P.loading
      BY <1>3, PathFacts
<1>7. PICK f \in [Path -> Int] :
        f = [view.listing EXCEPT ![r.path] = IF answer # Unlisted /\ canApplyDirectoryResponse(r, FALSE)
                                             THEN answer ELSE @]
      BY <1>3, <1>4
<1>8. PICK Q : Q = [P EXCEPT !.requests = D, !.loading = l]
      OBVIOUS
<1>9. PICK v : v = [view EXCEPT !.listing = f]
      OBVIOUS
<1>10. v \in FileView
       BY <1>1, <1>9 DEF FileView
<1>11. /\ Q \in MountedPanel /\ Q.mounted = P.mounted
       /\ Q.loading = l /\ Q.requests = D /\ Q.latest = P.latest
       /\ Q.meta = P.meta /\ Q.refreshed = P.refreshed /\ Q.infoRequests = P.infoRequests
       /\ Q.infos = P.infos /\ Q.generation = P.generation /\ Q.asked = P.asked
       BY <1>8 DEF MountedPanel
<1>12. PICK s : s = [panel |-> Q, view |-> v]
       OBVIOUS
<1>14. FreshOK(P) /\ LoadingOK(P)
       BY <1>1, <1>2 DEF Good, Panel
<1>15. FreshOK(Q)
       BY <1>11, <1>14, SameFresh
<1>16. LoadingOK(Q)
       BY <1>2, <1>5, <1>6, <1>11, <1>14 DEF LoadingOK, canApplyDirectoryResponse
<1>17. Good(s)
       BY <1>1, <1>2, <1>10, <1>11, <1>12, <1>15, <1>16 DEF Good, PanelState
<1>18. r.path + 1 \in Nat \ {0}
  <2>1. r.path \in Nat
        BY <1>4, PathFacts
  <2> QED BY <2>1
<1>19. Good(loadFrom(s, r.path + 1, r.upto))
       BY <1>1, <1>4, <1>17, <1>18, LoadFromGood
<1>20. PanelIs(loadFrom(s, r.path + 1, r.upto))
       BY <1>2, <1>5, <1>6, <1>7, <1>8, <1>9, <1>12 DEF DirectoryReturns
<1> QED BY <1>19, <1>20, BecomesGood DEF DirectoryReturns, Shell, FilesInv

LEMMA FilesStep == FilesInv /\ [FilesNext]_filesVars => FilesInv'
<1> SUFFICES ASSUME FilesInv, [FilesNext]_filesVars PROVE FilesInv'
    OBVIOUS
<1>1. /\ version \in [Path -> Nat] /\ view \in FileView /\ tabHost \in {1, 2}
      /\ refreshRequest \in [tabHost : {1, 2}, path : OptPath]
      /\ locateRequest \in [tabHost : {1, 2}, path : OptPath]
      BY DEF FilesInv
<1>2. panel.mounted => Good(Panel) /\ panel.terminal \in Path
      BY DEF FilesInv, NoPanel, Good, PanelState, Panel, MountedPanel
<1>3. ASSUME NEW s, Good(s), PanelIs(s), Shell PROVE FilesInv'
      BY <1>1, <1>3, BecomesGood DEF Shell
<1>4. CASE MountPanel
  <2>1. PICK on \in BOOLEAN :
          PanelIs(Effects([panel |-> FreshPanel(on, IF view.cached THEN 0 ELSE RestoredPath),
                           view |-> [view EXCEPT !.cached = TRUE]], tabHost))
        BY <1>4 DEF MountPanel
  <2>2. PICK restored \in OptPath : restored = IF view.cached THEN 0 ELSE RestoredPath
        BY PathFacts, FilesAssumption DEF OptPath
  <2>3. PICK s : s = [panel |-> FreshPanel(on, restored), view |-> [view EXCEPT !.cached = TRUE]]
        OBVIOUS
  <2>4. Good(s)
        BY <2>2, <2>3, MountGood
  <2>5. Good(Effects(s, tabHost)) /\ PanelIs(Effects(s, tabHost))
        BY <2>1, <2>2, <2>3, <2>4, EffectsGood
  <2> QED BY <1>3, <1>4, <2>5 DEF MountPanel
<1>5. CASE UnmountPanel
      BY <1>1, <1>5 DEF UnmountPanel, Shell, FilesInv
<1>6. CASE ShowPanel
  <2>1. Good([Panel EXCEPT !.panel.active = TRUE])
        BY <1>2, <1>6, ActiveGood DEF ShowPanel
  <2>2. Good(Effects([Panel EXCEPT !.panel.active = TRUE], tabHost))
        BY <2>1, EffectsGood
  <2> QED BY <1>3, <1>6, <2>2 DEF ShowPanel
<1>7. CASE HidePanel
  <2>1. Good([closeRemoteFileInfo(Panel) EXCEPT !.panel.active = FALSE])
        BY <1>2, <1>7, CloseGood, ActiveGood DEF HidePanel, Usable
  <2> QED BY <1>3, <1>7, <2>1 DEF HidePanel
<1>8. CASE SaveTemporary
  <2>1. CASE panel.mounted
    <3>1. Good(Effects(ConnectionChanged(Panel), 2))
          BY <1>2, <2>1, ChangedGood, EffectsGood
    <3> QED BY <1>1, <1>8, <2>1, <3>1, BecomesGood DEF SaveTemporary
  <2>2. CASE ~panel.mounted
        BY <1>1, <1>8, <2>2 DEF SaveTemporary, FilesInv
  <2> QED BY <2>1, <2>2
<1>9. ASSUME NEW p \in Path, navigateToPath(p) PROVE FilesInv'
      BY <1>1, <1>2, <1>3, <1>9, RevealGood DEF navigateToPath, Usable
<1>10. CASE renderBlankMenu
  <2>1. view.dir \in Path
        BY <1>1 DEF FileView
  <2> QED BY <1>1, <1>2, <1>3, <1>10, <2>1, ForceGood DEF renderBlankMenu, Usable
<1>11. CASE revealTerminalDirectory
      BY <1>1, <1>2, <1>3, <1>11, RevealGood DEF revealTerminalDirectory, Usable
<1>12. CASE toggleFollow
  <2>1. PICK v \in FileView : v = [view EXCEPT !.follow = ~@]
        BY <1>1 DEF FileView
  <2>2. [Panel EXCEPT !.view = v] = [Panel EXCEPT !.view.follow = ~@]
        BY <2>1 DEF Panel
  <2>3. Good([Panel EXCEPT !.view.follow = ~@])
        BY <1>2, <1>12, <2>2, ViewGood DEF toggleFollow, Usable
  <2>4. Good(FollowEffect([Panel EXCEPT !.view.follow = ~@]))
        BY <1>1, <2>3, FollowGood
  <2> QED BY <1>3, <1>12, <2>4 DEF toggleFollow
<1>13. CASE collapseExpandedDirectories
  <2>1. PICK v \in FileView : v = [view EXCEPT !.expanded = {}, !.dir = 1]
        BY <1>1, PathFacts DEF FileView
  <2>2. [Panel EXCEPT !.view = v] = [Panel EXCEPT !.view.expanded = {}, !.view.dir = 1]
        BY <2>1 DEF Panel
  <2>3. Good([Panel EXCEPT !.view.expanded = {}, !.view.dir = 1])
        BY <1>2, <1>13, <2>2, ViewGood DEF collapseExpandedDirectories, Usable
  <2> QED BY <1>3, <1>13, <2>3 DEF collapseExpandedDirectories
<1>14. ASSUME NEW p \in Path, toggleDirectory(p) PROVE FilesInv'
  <2>1. PICK e \in SUBSET Path : e = IF p \in view.expanded THEN view.expanded \ {p} ELSE view.expanded \cup {p}
        BY <1>1 DEF FileView
  <2>2. PICK v \in FileView : v = [view EXCEPT !.dir = p, !.located = 0, !.expanded = e]
        BY <1>1, PathFacts DEF FileView
  <2>3. PICK s : s = [Panel EXCEPT !.view = v]
        OBVIOUS
  <2>4. s = [Panel EXCEPT !.view.dir = p, !.view.located = 0,
                          !.view.expanded = IF p \in @ THEN @ \ {p} ELSE @ \cup {p}]
        BY <2>1, <2>2, <2>3 DEF Panel
  <2>5. Good(s)
        BY <1>2, <1>14, <2>3, ViewGood DEF toggleDirectory, Usable
  <2>6. Good(loadFrom(s, p, p)) /\ PanelIs(IF p \in view.expanded THEN s ELSE loadFrom(s, p, p))
        BY <1>1, <1>14, <2>4, <2>5, LoadFromGood, PathFacts DEF toggleDirectory, Path
  <2> QED BY <1>3, <1>14, <2>5, <2>6 DEF toggleDirectory
<1>15. ASSUME NEW p \in Path, DirectoryMenu(p) PROVE FilesInv'
  <2>1. PICK e \in SUBSET Path : e = view.expanded \cup {p}
        BY <1>1 DEF FileView
  <2>2. PICK v \in FileView : v = [view EXCEPT !.expanded = e]
        BY <1>1 DEF FileView
  <2>3. PICK s : s = [Panel EXCEPT !.view = v]
        OBVIOUS
  <2>4. s = [Panel EXCEPT !.view.expanded = @ \cup {p}]
        BY <2>1, <2>2, <2>3 DEF Panel
  <2>5. Good(s)
        BY <1>2, <1>15, <2>3, ViewGood DEF DirectoryMenu, Usable
  <2>6. Good(forceLoad(s, p)) /\ PanelIs(forceLoad(s, p))
        BY <1>1, <1>15, <2>4, <2>5, ForceGood DEF DirectoryMenu
  <2> QED BY <1>3, <1>15, <2>6 DEF DirectoryMenu
<1>16. ASSUME NEW p \in Path, TerminalMoves(p) PROVE FilesInv'
  <2>1. Good([Panel EXCEPT !.panel.terminal = p])
        BY <1>2, <1>16, TerminalGood DEF TerminalMoves
  <2>2. Good(FollowEffect([Panel EXCEPT !.panel.terminal = p]))
        BY <1>1, <2>1, FollowGood
  <2> QED BY <1>3, <1>16, <2>1, <2>2 DEF TerminalMoves
<1>17. ASSUME NEW p \in Path, HostChanges(p) PROVE FilesInv'
  <2>1. /\ version' \in [Path -> Nat] /\ panel' = panel /\ view' = view
        /\ \A q \in Path : version[q] <= version'[q] /\ version[q] \in Nat /\ version'[q] \in Nat
        BY <1>1, <1>17 DEF HostChanges
  <2>2. ASSUME panel # NoPanel PROVE Good(Panel)'
    <3>1. Good(Panel) /\ panel.refreshed \in [Path -> Nat] /\ Panel' = Panel /\ Panel.panel = panel
          BY <2>1, <2>2 DEF FilesInv, Good, PanelState, MountedPanel, Panel
    <3>2. FreshOK(panel)'
          BY <2>1, <3>1 DEF Good, FreshOK, Current
    <3>3. LoadingOK(panel)' /\ panel'.mounted /\ (Panel \in PanelState)'
          BY <2>1, <3>1 DEF Good, LoadingOK
    <3> QED BY <3>1, <3>2, <3>3 DEF Good, Panel
  <2> QED BY <1>1, <1>17, <2>1, <2>2 DEF HostChanges, FilesInv
<1>18. ASSUME NEW p \in Path, triggerRemoteFileRefresh(p) PROVE FilesInv'
  <2>1. refreshRequest' \in [tabHost : {1, 2}, path : OptPath] /\ tabHost' \in {1, 2} /\ version' = version
        /\ locateRequest' = locateRequest
        BY <1>1, <1>18, PathFacts DEF triggerRemoteFileRefresh
  <2>2. CASE Usable
    <3>1. Good(forceLoad(Panel, p)) /\ PanelIs(forceLoad(Panel, p))
          BY <1>1, <1>2, <1>18, <2>2, ForceGood DEF triggerRemoteFileRefresh, Usable
    <3> QED BY <1>1, <2>1, <3>1, BecomesGood
  <2>3. CASE ~Usable
        BY <1>1, <1>18, <2>1, <2>3 DEF triggerRemoteFileRefresh, FilesInv, Good, FreshOK, LoadingOK, Current, Panel
  <2> QED BY <2>2, <2>3
<1>19. ASSUME NEW p \in Path, triggerRemoteFileLocate(p) PROVE FilesInv'
  <2>1. locateRequest' \in [tabHost : {1, 2}, path : OptPath] /\ tabHost' \in {1, 2} /\ version' = version
        /\ refreshRequest' = refreshRequest
        BY <1>1, <1>19, PathFacts DEF triggerRemoteFileLocate
  <2>2. CASE Usable
    <3>1. Good(revealDirectoryPath(Panel, p, FALSE)) /\ PanelIs(revealDirectoryPath(Panel, p, FALSE))
          BY <1>1, <1>2, <1>19, <2>2, RevealGood DEF triggerRemoteFileLocate, Usable
    <3> QED BY <1>1, <2>1, <3>1, BecomesGood
  <2>3. CASE ~Usable
        BY <1>1, <1>19, <2>1, <2>3 DEF triggerRemoteFileLocate, FilesInv, Good, FreshOK, LoadingOK, Current, Panel
  <2> QED BY <2>2, <2>3
<1>20. ASSUME NEW p \in Path, scheduleRemoteFileInfo(p) PROVE FilesInv'
      BY <1>2, <1>3, <1>20, HoverGood DEF scheduleRemoteFileInfo, Usable
<1>21. CASE CloseTooltip
      BY <1>2, <1>3, <1>21, CloseGood DEF CloseTooltip, Usable
<1>22. CASE UNCHANGED filesVars
      BY <1>1, <1>22 DEF filesVars, FilesInv, Good, FreshOK, LoadingOK, Current, Panel
<1>23. CASE FilesAnswer
      BY <1>23, AskInfoGood, ListingGood, InfoGood DEF FilesAnswer
<1> QED BY <1>4, <1>5, <1>6, <1>7, <1>8, <1>9, <1>10, <1>11, <1>12, <1>13, <1>14, <1>15, <1>16, <1>17,
           <1>18, <1>19, <1>20, <1>21, <1>22, <1>23 DEF FilesNext, FilesAct, Toolbar

\* A directory that is shown as loading has its request on its way, and metadata that is shown or
\* cached for a path is no older than the last refresh of that path, although requests are answered
\* in any order (the latest-request token and the generation of each path).
THEOREM FilesStayCurrent == FilesSpec => []FilesAreCurrent
<1>1. FilesInit => FilesInv
  <2> SUFFICES ASSUME FilesInit PROVE FilesInv
      OBVIOUS
  <2>1. Max({1, RestoredPath}) \in Path
    <3>1. 1 \in Int /\ RestoredPath \in Int /\ (1 >= RestoredPath \/ RestoredPath >= 1)
          BY FilesAssumption
    <3>2. Max({1, RestoredPath}) \in {1, RestoredPath} /\ Max({1, RestoredPath}) >= 1
          BY <3>1 DEF Max
    <3> QED BY <3>2, FilesAssumption DEF Path
  <2>2. view \in FileView
        BY <2>1, PathFacts DEF FilesInit, FileView, Unlisted
  <2> QED BY <2>2, PathFacts DEF FilesInit, FilesInv
<1>2. FilesInv => FilesAreCurrent
  <2> SUFFICES ASSUME FilesInv, panel.mounted PROVE FilesAreCurrent
      BY DEF FilesAreCurrent, LoadingIsAsked, MetadataIsFresh
  <2>1. LoadingOK(panel) /\ FreshOK(panel)
        BY DEF FilesInv, NoPanel, Good, Panel
  <2> QED BY <2>1 DEF FilesAreCurrent, LoadingIsAsked, MetadataIsFresh, LoadingOK, FreshOK
<1> QED BY <1>1, <1>2, FilesStep, PTL DEF FilesSpec
=============================================================================

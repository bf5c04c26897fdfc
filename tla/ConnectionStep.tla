--------------------------- MODULE ConnectionStep ---------------------------
(***************************************************************************)
(* The step a connecting tab goes through before it is a terminal: asks    *)
(* for credentials, runs, stops at an unknown host key or an error, is     *)
(* retried; and the temporary connections of Quick Connect, whose target   *)
(* and credentials live in a context of the backend that the last tab      *)
(* releases and that can be saved as a connection while it is in use.      *)
(*                                                                         *)
(* Every run of a step is a chain of awaits that goes on when its tab is   *)
(* closed.  Saving a temporary connection writes the tab back as it was    *)
(* when the command was chosen.                                            *)
(***************************************************************************)
EXTENDS Naturals

CONSTANTS
    Tabs,
    Temporary,  \* the tabs Quick Connect opens; the others ask for credentials
    Keys,       \* host keys of the server
    MaxOpens,   \* bound on the sessions opened for a tab
    NoKey

ASSUME StepAssumption == Temporary \subseteq Tabs /\ Keys # {} /\ MaxOpens \in Nat

VARIABLES
    status,     \* connectionStep.status, "terminal" once there is a session
    ready,      \* temporaryCredentialsReady
    shown,      \* connectionStep.hostKey
    run,        \* what the run in flight for the tab awaits
    session,    \* tab.sessionId, 0 for none
    opened,     \* sessions opened for the tab so far
    live,       \* the sessions the backend holds
    context,    \* the temporary context: none, asks, ready
    saving,     \* the tab a save in flight will write back
    rewound,    \* history: tabs whose newer state such a save has overwritten
    known,      \* the trusted key of the host
    server      \* the key the server presents

stepVars == <<status, ready, shown, run, session, opened, live, context, saving, rewound,
              known, server>>
tabVars == <<status, ready, shown, session>>

StepInit ==
    /\ status = [t \in Tabs |-> "none"] /\ ready = [t \in Tabs |-> FALSE]
    /\ shown = [t \in Tabs |-> NoKey] /\ run = [t \in Tabs |-> "none"]
    /\ session = [t \in Tabs |-> 0] /\ opened = [t \in Tabs |-> 0] /\ live = {}
    /\ context = [t \in Tabs |-> "none"] /\ saving = [t \in Tabs |-> <<>>]
    /\ rewound = {}
    /\ known = NoKey /\ server = (CHOOSE k \in Keys : TRUE)

updateConnectingTabStep(t, s) ==
    status' = [status EXCEPT ![t] = IF @ \in {"none", "closed"} THEN @ ELSE s]

\* A tab that a save has put back may show a step whose run is still in flight, so
\* that a second run can start beside it: such a tab is only closed from there on.
Followed(t) == t \notin rewound

connectingTabExists(t) == status[t] \notin {"none", "closed", "terminal"}

-----------------------------------------------------------------------------
(* Opening, and the buttons of the step panel.                             *)

\* A temporary connection gets its context first; both kinds ask.
startConnectionStep(t) ==
    /\ status[t] = "none"
    /\ status' = [status EXCEPT ![t] = "prompt"]
    /\ context' = [context EXCEPT ![t] = IF t \in Temporary THEN "asks" ELSE @]
    /\ UNCHANGED <<ready, shown, run, session, opened, live, saving, rewound, known, server>>

runConnectionStep(t) ==
    /\ status' = [status EXCEPT ![t] = "running"]
    /\ shown' = [shown EXCEPT ![t] = NoKey]
    /\ run' = [run EXCEPT ![t] = IF t \in Temporary /\ ~ready[t] THEN "credentials" ELSE "connect"]

\* What the step panel shows, and so lets the user do.
PromptForm(t) == status[t] = "prompt" /\ Followed(t)
HostKeyQuestion(t) == status[t] = "waiting_host_key" /\ Followed(t)
ErrorWithRetry(t) == status[t] \in {"error", "refused"} /\ Followed(t)

submitPromptCredential(t) ==
    /\ PromptForm(t)
    /\ runConnectionStep(t)
    /\ UNCHANGED <<ready, session, opened, live, context, saving, rewound, known, server>>

\* A temporary connection whose credentials were refused asks again.
retryConnectionStep(t) ==
    /\ ErrorWithRetry(t)
    /\ IF t \in Temporary /\ status[t] = "refused"
         THEN /\ status' = [status EXCEPT ![t] = "prompt"]
              /\ ready' = [ready EXCEPT ![t] = FALSE]
              /\ shown' = [shown EXCEPT ![t] = NoKey]
              /\ UNCHANGED run
         ELSE runConnectionStep(t) /\ UNCHANGED ready
    /\ UNCHANGED <<session, opened, live, context, saving, rewound, known, server>>

trustHostKeyAndRetry(t) ==
    /\ HostKeyQuestion(t)
    /\ status' = [status EXCEPT ![t] = "running"]
    /\ run' = [run EXCEPT ![t] = "trust"]
    /\ UNCHANGED <<ready, shown, session, opened, live, context, saving, rewound, known, server>>

\* closeTerminalTabs: the tab goes, its session is closed, and the context of a
\* temporary connection is released, whether or not it has been saved.
closeTerminalTabs(t) ==
    /\ connectingTabExists(t) \/ status[t] = "terminal"
    /\ status' = [status EXCEPT ![t] = "closed"]
    /\ session' = [session EXCEPT ![t] = 0]
    /\ live' = live \ {<<t, session[t]>>}
    /\ context' = [context EXCEPT ![t] = "none"]
    /\ UNCHANGED <<ready, shown, run, opened, saving, rewound, known, server>>

\* closeConnectionSessions, for a connection with open files, releases nothing.
closeConnectionSessions(t) ==
    /\ connectingTabExists(t) \/ status[t] = "terminal"
    /\ status' = [status EXCEPT ![t] = "closed"]
    /\ session' = [session EXCEPT ![t] = 0]
    /\ live' = live \ {<<t, session[t]>>}
    /\ UNCHANGED <<ready, shown, run, opened, context, saving, rewound, known, server>>

-----------------------------------------------------------------------------
(* The awaits of a run.                                                    *)

\* temporary_connection_set_credentials.
CredentialsSet(t) ==
    /\ run[t] = "credentials" /\ context[t] # "none"
    /\ context' = [context EXCEPT ![t] = "ready"]
    /\ ready' = [ready EXCEPT ![t] = TRUE]
    /\ run' = [run EXCEPT ![t] = "connect"]
    /\ updateConnectingTabStep(t, "running")
    /\ UNCHANGED <<shown, session, opened, live, saving, rewound, known, server>>

\* known_host_trust, and the run that follows it.
HostKeyTrusted(t) ==
    /\ run[t] = "trust"
    /\ known' = shown[t]
    /\ run' = [run EXCEPT ![t] = "connect"]
    /\ shown' = [shown EXCEPT ![t] = NoKey]
    /\ UNCHANGED <<status, ready, session, opened, live, context, saving, rewound, server>>

Resolved(t) == t \in Temporary => context[t] = "ready"

\* The session of an answer whose tab is gone is closed again.
Connected_Kept(t) ==
    /\ run[t] = "connect" /\ known = server /\ Resolved(t) /\ opened[t] < MaxOpens
    /\ run' = [run EXCEPT ![t] = "none"]
    /\ opened' = [opened EXCEPT ![t] = @ + 1]
    /\ live' = live \cup {<<t, opened[t] + 1>>}
    /\ IF connectingTabExists(t)
         THEN /\ status' = [status EXCEPT ![t] = "terminal"]
              /\ session' = [session EXCEPT ![t] = opened[t] + 1]
         ELSE UNCHANGED <<status, session>>
    /\ UNCHANGED <<ready, shown, context, saving, rewound, known, server>>

Connected(t) ==
    /\ run[t] = "connect" /\ known = server /\ Resolved(t) /\ opened[t] < MaxOpens
    /\ run' = [run EXCEPT ![t] = "none"]
    /\ opened' = [opened EXCEPT ![t] = @ + 1]
    /\ IF connectingTabExists(t)
         THEN /\ status' = [status EXCEPT ![t] = "terminal"]
              /\ session' = [session EXCEPT ![t] = opened[t] + 1]
              /\ live' = live \cup {<<t, opened[t] + 1>>}
         ELSE UNCHANGED <<status, session, live>>
    /\ UNCHANGED <<ready, shown, context, saving, rewound, known, server>>

HostKeyUnknown(t) ==
    /\ run[t] = "connect" /\ known # server
    /\ run' = [run EXCEPT ![t] = "none"]
    /\ IF connectingTabExists(t)
         THEN /\ updateConnectingTabStep(t, "waiting_host_key")
              /\ shown' = [shown EXCEPT ![t] = server]
         ELSE UNCHANGED <<status, shown>>
    /\ UNCHANGED <<ready, session, opened, live, context, saving, rewound, known, server>>

StepFails(t, s) ==
    /\ run[t] # "none"
    /\ s \in {"error"} \cup (IF run[t] = "trust" THEN {} ELSE {"refused"})
                       \cup (IF t \in Temporary THEN {} ELSE {"prompt"})
    /\ run' = [run EXCEPT ![t] = "none"]
    /\ IF connectingTabExists(t) THEN updateConnectingTabStep(t, s) ELSE UNCHANGED status
    /\ UNCHANGED <<ready, shown, session, opened, live, context, saving, rewound, known, server>>

-----------------------------------------------------------------------------
(* Around the step: reconnects, saving, and the server.                    *)

\* TerminalPanel reconnects in place: a new session for the tab.
Reconnects(t) ==
    /\ status[t] = "terminal" /\ Followed(t) /\ opened[t] < MaxOpens
    /\ opened' = [opened EXCEPT ![t] = @ + 1]
    /\ session' = [session EXCEPT ![t] = opened[t] + 1]
    /\ live' = (live \ {<<t, session[t]>>}) \cup {<<t, opened[t] + 1>>}
    /\ UNCHANGED <<status, ready, shown, run, context, saving, rewound, known, server>>

\* "Save session" in the menu of a temporary tab.
saveTemporaryQuickConnectTab(t) ==
    /\ t \in Temporary /\ saving[t] = <<>> /\ context[t] = "ready"
    /\ connectingTabExists(t) \/ status[t] = "terminal"
    /\ saving' = [saving EXCEPT ![t] = <<status[t], ready[t], shown[t], session[t]>>]
    /\ UNCHANGED <<tabVars, run, opened, live, context, rewound, known, server>>

\* The profile is stored and the tab rebound to it, as it was before the save.
SaveReturns(t) ==
    /\ saving[t] # <<>>
    /\ IF connectingTabExists(t) \/ status[t] = "terminal"
         THEN /\ status' = [status EXCEPT ![t] = saving[t][1]]
              /\ ready' = [ready EXCEPT ![t] = saving[t][2]]
              /\ shown' = [shown EXCEPT ![t] = saving[t][3]]
              /\ session' = [session EXCEPT ![t] = saving[t][4]]
              /\ rewound' = IF tabVars' = tabVars THEN rewound ELSE rewound \cup {t}
         ELSE UNCHANGED <<tabVars, rewound>>
    /\ saving' = [saving EXCEPT ![t] = <<>>]
    /\ UNCHANGED <<run, opened, live, context, known, server>>

\* The server is reinstalled, or another machine answers at its address.
KeyChanges(k) ==
    /\ server' = k
    /\ server # k
    /\ UNCHANGED <<tabVars, run, opened, live, context, saving, rewound, known>>

StepAnswers(t) ==
    \/ CredentialsSet(t) \/ HostKeyTrusted(t) \/ Connected(t) \/ HostKeyUnknown(t)
    \/ \E s \in {"error", "refused", "prompt"} : StepFails(t, s)

StepNext ==
    \/ \E t \in Tabs :
          \/ startConnectionStep(t) \/ submitPromptCredential(t) \/ retryConnectionStep(t)
          \/ trustHostKeyAndRetry(t) \/ closeTerminalTabs(t) \/ closeConnectionSessions(t)
          \/ StepAnswers(t)
          \/ Reconnects(t) \/ saveTemporaryQuickConnectTab(t) \/ SaveReturns(t)
    \/ \E k \in Keys : KeyChanges(k)

StepSpec == StepInit /\ [][StepNext]_stepVars
-----------------------------------------------------------------------------
StepTypeOK ==
    /\ status \in [Tabs -> {"none", "prompt", "running", "waiting_host_key", "error",
                            "refused", "terminal", "closed"}]
    /\ ready \in [Tabs -> BOOLEAN] /\ shown \in [Tabs -> Keys \cup {NoKey}]
    /\ run \in [Tabs -> {"none", "credentials", "trust", "connect"}]
    /\ session \in [Tabs -> 0 .. MaxOpens] /\ opened \in [Tabs -> 0 .. MaxOpens]
    /\ live \subseteq Tabs \X (1 .. MaxOpens)
    /\ context \in [Tabs -> {"none", "asks", "ready"}]
    /\ rewound \subseteq Tabs /\ known \in Keys \cup {NoKey} /\ server \in Keys

(* Every session the backend holds is the one its tab shows, so closing    *)
(* the tab closes it, through retries, reconnects, host key questions,     *)
(* tabs closed while they connect and temporary connections saved while    *)
(* they do, unless the save that returned put an older tab back.           *)
LiveIsShown == \A t \in Tabs \ rewound : \A n \in 1 .. MaxOpens :
    <<t, n>> \in live => status[t] = "terminal" /\ session[t] = n
=============================================================================

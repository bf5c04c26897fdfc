--------------------------- MODULE RemoteMonitor ---------------------------
(***************************************************************************)
(* The monitor panel of a connection: useRemoteMonitor.ts, MonitorPanel.   *)
(*                                                                         *)
(* One snapshot is asked for at a time.  A loop asks, waits for the answer *)
(* and sets a timer; it is replaced whenever the view, the visibility of   *)
(* the window or the connection changes.  A snapshot is the connection it  *)
(* is of and whether it lists processes; the figures in it, and what the   *)
(* panel draws of them, are left out.                                      *)
(***************************************************************************)
EXTENDS Naturals

CONSTANTS
    MaxPolls,       \* bound: requests made for one connection
    MaxTurns        \* bound: changes of view, visibility and connection

VARIABLES
    monitored,                      \* connection id of the panel: it changes when a temporary one is saved
    processesShown, visible,        \* view === "processes"; documentVisible
    pollRun, inFlight, polls,       \* requestRunRef; inFlightRunRef, or 0
    sampling,                       \* requests on their way
    snapshot, history,              \* NoSample or what was answered; connections of the history
    refreshing, loop,               \* loop: "none", "waits" for the request loopRun, "timer"
    loopRun,
    signal,                         \* <<>>, <<"confirm">>, or <<"sent", the connection, the view>> of the click
    turns

NoSample == [of |-> 0]

loopVars == <<loop, loopRun>>
monitorVars == <<monitored, processesShown, visible, pollRun, inFlight, polls, sampling, snapshot, history,
                 refreshing, loopVars, signal, turns>>

MonitorInit ==
    /\ monitored = 1 /\ processesShown = FALSE /\ visible = TRUE
    /\ pollRun = 1 /\ inFlight = 1 /\ polls = 1 /\ sampling = {[pollRun |-> 1, of |-> 1, processes |-> FALSE]}
    /\ snapshot = NoSample /\ history = {} /\ refreshing = TRUE
    /\ loop = "waits" /\ loopRun = 1 /\ signal = <<>> /\ turns = 0

\* refresh up to its await, asked for connection c; the caller guards the bound.
refresh(c, r, processes) ==
    /\ pollRun' = r + 1 /\ inFlight' = r + 1 /\ refreshing' = TRUE
    /\ sampling' = sampling \cup {[pollRun |-> r + 1, of |-> c, processes |-> processes]}

Unasked == UNCHANGED <<pollRun, inFlight, refreshing, sampling, polls>>

\* poll: a refresh that is refused because one is in flight ends at once.
pollRequest(processes) ==
    IF inFlight # 0 THEN Unasked /\ loop' = "timer" /\ UNCHANGED loopRun
    ELSE /\ polls < MaxPolls /\ polls' = polls + 1
         /\ refresh(monitored, pollRun, processes)
         /\ loop' = "waits" /\ loopRun' = pollRun + 1

Turn == turns < MaxTurns /\ turns' = turns + 1

-----------------------------------------------------------------------------
(* What replaces the loop *)

setView ==
    /\ Turn
    /\ \E processes \in BOOLEAN :
         /\ processesShown' = processes
         /\ IF visible THEN pollRequest(processes) ELSE Unasked /\ UNCHANGED loopVars
    /\ UNCHANGED <<monitored, visible, snapshot, history, signal>>

handleVisibilityChange ==
    /\ Turn /\ visible' = ~visible
    /\ IF visible THEN Unasked /\ loop' = "none" /\ UNCHANGED loopRun ELSE pollRequest(processesShown)
    /\ UNCHANGED <<monitored, processesShown, snapshot, history, signal>>

ConnectionIdChanges ==
    /\ Turn /\ monitored = 1 /\ monitored' = 2
    /\ snapshot' = NoSample /\ history' = {} /\ polls' = 1
    /\ IF visible
       THEN refresh(2, pollRun + 1, processesShown) /\ loop' = "waits" /\ loopRun' = pollRun + 2
       ELSE pollRun' = pollRun + 1 /\ inFlight' = 0 /\ refreshing' = FALSE /\ UNCHANGED <<sampling, loopVars>>
    /\ UNCHANGED <<processesShown, visible, signal>>

-----------------------------------------------------------------------------
(* The loop and its answers *)

PollTimerFires_Forgets ==
    /\ loop = "timer"
    /\ IF inFlight # 0 THEN Unasked /\ loop' = "none" /\ UNCHANGED loopRun ELSE pollRequest(processesShown)
    /\ UNCHANGED <<monitored, processesShown, visible, snapshot, history, signal, turns>>

PollTimerFires ==
    /\ loop = "timer" /\ pollRequest(processesShown)
    /\ UNCHANGED <<monitored, processesShown, visible, snapshot, history, signal, turns>>

Settle(q) ==
    /\ sampling' = sampling \ {q}
    /\ inFlight' = IF inFlight = q.pollRun THEN 0 ELSE inFlight
    /\ refreshing' = IF pollRun = q.pollRun THEN FALSE ELSE refreshing
    /\ loop' = IF loop = "waits" /\ loopRun = q.pollRun THEN "timer" ELSE loop
    /\ UNCHANGED <<monitored, processesShown, visible, pollRun, polls, loopRun, signal, turns>>

Show(q) ==
    /\ snapshot' = [of |-> q.of, processes |-> q.processes]
    /\ history' = history \cup {q.of}

SnapshotArrives(q) ==
    /\ q \in sampling /\ Settle(q)
    /\ IF pollRun = q.pollRun THEN Show(q) ELSE UNCHANGED <<snapshot, history>>

\* The last snapshot stays beside the error.
SnapshotFails(q) == q \in sampling /\ Settle(q) /\ UNCHANGED <<snapshot, history>>

-----------------------------------------------------------------------------
(* The buttons *)

\* The button, and the retry beside an error.
RefreshButton ==
    /\ inFlight = 0 /\ polls < MaxPolls /\ polls' = polls + 1
    /\ refresh(monitored, pollRun, processesShown)
    /\ UNCHANGED <<monitored, processesShown, visible, snapshot, history, loopVars, signal, turns>>

MonitorProcessView ==
    /\ signal = <<>> /\ signal' = <<"confirm">>
    /\ processesShown /\ snapshot # NoSample /\ snapshot.processes
    /\ Unasked
    /\ UNCHANGED <<monitored, processesShown, visible, snapshot, history, loopVars, turns>>

signalProcess ==
    /\ signal = <<"confirm">> /\ signal' = <<"sent", monitored, processesShown>> /\ Unasked
    /\ UNCHANGED <<monitored, processesShown, visible, snapshot, history, loopVars, turns>>

\* A signal that was delivered is followed by a silent refresh, of the connection and the view
\* that the click saw.
SignalReturns ==
    /\ signal # <<>> /\ signal[1] = "sent" /\ signal' = <<>>
    /\ \/ Unasked
       \/ /\ inFlight = 0 /\ polls < MaxPolls /\ polls' = polls + 1
          /\ refresh(signal[2], pollRun, signal[3])
    /\ UNCHANGED <<monitored, processesShown, visible, snapshot, history, loopVars, turns>>

MonitorNext ==
    \/ setView \/ handleVisibilityChange \/ ConnectionIdChanges
    \/ PollTimerFires \/ \E q \in sampling : SnapshotArrives(q) \/ SnapshotFails(q)
    \/ RefreshButton \/ MonitorProcessView \/ signalProcess \/ SignalReturns

MonitorSpec == MonitorInit /\ [][MonitorNext]_monitorVars

-----------------------------------------------------------------------------
\* A visible monitor never falls asleep: its loop waits for a request that is on its way or
\* for its timer, whatever turned while it asked; and a request that was answered or replaced
\* never stands in the way of the next.
MonitorIsAwake ==
    /\ visible => loop = "timer" \/ (loop = "waits" /\ \E q \in sampling : q.pollRun = loopRun)
    /\ inFlight # 0 => \E q \in sampling : q.pollRun = inFlight
=============================================================================

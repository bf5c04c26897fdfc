--------------------------- MODULE TerminalOutput ---------------------------
(***************************************************************************)
(* The output of a terminal from the host's events to xterm: the warm-up   *)
(* capture of WorkspaceShell, the startup buffer and the listener of       *)
(* TerminalPanel, and TerminalOutputQueue.                                 *)
(*                                                                         *)
(* Output is a sequence of chunks <<s, n>>, the n-th of session s: 1 is    *)
(* the session the tab was opened with, 2 the one a reconnect asks for.    *)
(* Until its panel listens, the output of session 1 reaches the terminal   *)
(* through tab.warmupOutput.  late keeps which delays have happened: React *)
(* showing an update after the next event ("commit"), the listener being   *)
(* ready after the startup buffer is flushed ("listener"), a reconnect     *)
(* coming before that ("reconnect"), and the panel being ready after the   *)
(* three seconds the capture lasts ("stop").  Decoding, the removal of     *)
(* repeated banners, OSC 7 and input are left out.                         *)
(***************************************************************************)
EXTENDS Naturals, Sequences, SequencesExt

CONSTANTS
    MaxOutput,      \* bound: chunks of each session
    MaxBatch        \* TERMINAL_OUTPUT_BATCH_MAX_CHARS, in chunks

ASSUME BatchAssumption == MaxBatch \in Nat \ {0}

VARIABLES
    late,                   \* delays so far
    arrived,                \* chunks of each session so far
    capture,                \* the warm-up listener: array, append, stopped
    captured,               \* warmupOutput of the run that connects
    warmupOutput,           \* of the tab, and of the panel's last render
    initialOutput,
    outputPanel,            \* none, mounted, unmounted
    outputListener,         \* none, registered, ready
    startupBuffering, startupBuffer,
    flushTimer,
    initialOutputWritten,
    shownSession,           \* sessionIdRef and activeRequestIdRef of the panel
    activeRequest, outputReconnecting,
    pendingOutput,          \* TerminalOutputQueue: chunks, scheduledCancel, writing, disposed
    scheduled, writing, disposed,
    screen,                 \* chunks written to xterm since the last reconnect
    owed                    \* chunks it is to show since then

captureVars == <<capture, captured, warmupOutput>>
startupVars == <<startupBuffering, startupBuffer, flushTimer, initialOutputWritten>>
outputSessionVars == <<shownSession, activeRequest, outputReconnecting>>
queueVars == <<pendingOutput, scheduled, writing, disposed>>
outputVars == <<late, arrived, captureVars, initialOutput, outputPanel, outputListener, startupVars,
                outputSessionVars, queueVars, screen, owed>>

OutputInit ==
    /\ late = {}
    /\ arrived = <<0, 0>>
    /\ capture = "array" /\ captured = <<>> /\ warmupOutput = <<>> /\ initialOutput = <<>>
    /\ outputPanel = "none" /\ outputListener = "none"
    /\ startupBuffering = FALSE /\ startupBuffer = <<>> /\ flushTimer = FALSE /\ initialOutputWritten = 0
    /\ shownSession = 0 /\ activeRequest = 1 /\ outputReconnecting = FALSE
    /\ pendingOutput = <<>> /\ scheduled = FALSE /\ writing = FALSE /\ disposed = FALSE
    /\ screen = <<>> /\ owed = <<>>

-----------------------------------------------------------------------------
(* TerminalOutputQueue *)

scheduleNext(q) == [q EXCEPT !.scheduled = @ \/ (~q.disposed /\ ~q.writing /\ q.pending # <<>>)]

OutputQueue == [pending |-> pendingOutput, scheduled |-> scheduled, writing |-> writing, disposed |-> disposed]
QueueIs(q) ==
    /\ pendingOutput' = q.pending /\ scheduled' = q.scheduled
    /\ writing' = q.writing /\ disposed' = q.disposed

enqueue(data) ==
    IF disposed \/ data = <<>> THEN OutputQueue
    ELSE scheduleNext([OutputQueue EXCEPT !.pending = @ \o data])

clear == [OutputQueue EXCEPT !.pending = <<>>, !.scheduled = FALSE]
dispose == [clear EXCEPT !.disposed = TRUE]

Elsewhere == UNCHANGED <<late, arrived, captureVars, initialOutput, outputPanel, outputListener, startupVars,
                         outputSessionVars, owed>>

\* A frame or a timer: at most one batch is being parsed.  A write that throws ends the queue.
flushNext ==
    /\ scheduled
    /\ LET n == IF Len(pendingOutput) < MaxBatch THEN Len(pendingOutput) ELSE MaxBatch
       IN \/ /\ QueueIs([OutputQueue EXCEPT !.pending = SubSeq(@, n + 1, Len(@)), !.scheduled = FALSE, !.writing = TRUE])
             /\ screen' = screen \o SubSeq(pendingOutput, 1, n)
          \/ QueueIs(dispose) /\ UNCHANGED screen
    /\ Elsewhere

onParsed ==
    /\ writing /\ QueueIs(scheduleNext([OutputQueue EXCEPT !.writing = FALSE]))
    /\ UNCHANGED screen /\ Elsewhere

-----------------------------------------------------------------------------
(* Where an event goes *)

matchesEvent(s) == s = shownSession \/ s = activeRequest

\* An update React has not shown yet.
Uncommitted == outputPanel = "mounted" /\ warmupOutput # initialOutput
LateWith(delays) == late' = late \cup delays \cup (IF Uncommitted THEN {"commit"} ELSE {})

\* The panel leaves what arrives during its startup buffer to the capture.
listenTerminalOutput_Both(s, c) ==
    IF outputListener # "none" /\ outputPanel = "mounted" /\ matchesEvent(s)
    THEN IF startupBuffering THEN startupBuffer' = Append(startupBuffer, c) /\ UNCHANGED queueVars
         ELSE UNCHANGED startupBuffer /\ QueueIs(enqueue(<<c>>))
    ELSE UNCHANGED <<startupBuffer, queueVars>>

listenTerminalOutput(s, c) ==
    /\ IF outputListener # "none" /\ outputPanel = "mounted" /\ matchesEvent(s) /\ ~(startupBuffering /\ s = 1)
       THEN QueueIs(enqueue(<<c>>))
       ELSE UNCHANGED queueVars
    /\ UNCHANGED startupBuffer

appendTerminalWarmupOutput(c) == warmupOutput' = Append(warmupOutput, c)

\* A chunk is emitted and dispatched to the listeners there are.
OutputArrives(s) ==
    /\ LateWith({}) /\ arrived[s] < MaxOutput /\ (s = 2 => activeRequest = 2)
    /\ arrived' = [arrived EXCEPT ![s] = @ + 1]
    /\ LET c == <<s, arrived[s] + 1>>
       IN /\ captured' = IF s = 1 /\ capture = "array" THEN Append(captured, c) ELSE captured
          /\ IF s = 1 /\ capture = "append" THEN appendTerminalWarmupOutput(c) ELSE UNCHANGED warmupOutput
          /\ listenTerminalOutput(s, c)
          /\ owed' = IF matchesEvent(s) /\ outputPanel # "unmounted" THEN Append(owed, c) ELSE owed
    /\ UNCHANGED <<capture, initialOutput, outputPanel, outputListener, startupBuffering, flushTimer,
                   initialOutputWritten, outputSessionVars, screen>>

-----------------------------------------------------------------------------
(* The tab *)

\* terminalConnect answers: the tab gets its session and what was captured, and later output is appended to it.
HandOffOutput ==
    /\ capture = "array" /\ capture' = "append"
    /\ warmupOutput' = captured /\ captured' = <<>>
    /\ UNCHANGED <<late, arrived, initialOutput, outputPanel, outputListener, startupVars, outputSessionVars,
                   queueVars, screen, owed>>

stopTerminalWarmupCapture == capture' = IF capture = "append" THEN "stopped" ELSE capture

\* Three seconds later the capture ends, whatever the panel does.
CaptureTimesOut ==
    /\ capture = "append" /\ LateWith({"stop"})
    /\ stopTerminalWarmupCapture
    /\ UNCHANGED <<arrived, captured, warmupOutput, initialOutput, outputPanel, outputListener, startupVars,
                   outputSessionVars, queueVars, screen, owed>>

-----------------------------------------------------------------------------
(* The panel *)

\* The panel is loaded on demand, so it may be mounted long after the hand-over.
MountOutputPanel ==
    /\ outputPanel = "none" /\ capture \in {"append", "stopped"}
    /\ outputPanel' = "mounted" /\ shownSession' = 1
    /\ startupBuffering' = TRUE /\ flushTimer' = TRUE
    /\ initialOutput' = warmupOutput /\ startupBuffer' = warmupOutput /\ initialOutputWritten' = Len(warmupOutput)
    /\ UNCHANGED <<late, arrived, captureVars, outputListener, activeRequest, outputReconnecting, queueVars, screen, owed>>

\* A render with another initialOutput: what is beyond the part already written.
InitialOutputChanges ==
    /\ Uncommitted /\ initialOutput' = warmupOutput
    /\ LET next == SubSeq(warmupOutput, initialOutputWritten + 1, Len(warmupOutput))
       IN IF next = <<>> THEN UNCHANGED <<startupBuffer, initialOutputWritten, queueVars>>
          ELSE /\ initialOutputWritten' = Len(warmupOutput)
               /\ IF startupBuffering THEN startupBuffer' = startupBuffer \o next /\ UNCHANGED queueVars
                  ELSE UNCHANGED startupBuffer /\ QueueIs(enqueue(next))
    /\ UNCHANGED <<late, arrived, captureVars, outputPanel, outputListener, startupBuffering, flushTimer,
                   outputSessionVars, screen, owed>>

ListenerRegisters ==
    /\ outputPanel = "mounted" /\ outputListener = "none" /\ outputListener' = "registered"
    /\ UNCHANGED <<late, arrived, captureVars, initialOutput, outputPanel, startupVars, outputSessionVars,
                   queueVars, screen, owed>>

ListenerIsReady ==
    /\ LateWith({}) /\ outputPanel = "mounted" /\ outputListener = "registered" /\ outputListener' = "ready"
    /\ IF startupBuffering THEN UNCHANGED capture ELSE stopTerminalWarmupCapture
    /\ UNCHANGED <<arrived, captured, warmupOutput, initialOutput, outputPanel, startupVars,
                   outputSessionVars, queueVars, screen, owed>>

flushStartupOutput ==
    /\ flushTimer /\ flushTimer' = FALSE
    /\ LateWith(IF outputListener = "ready" THEN {} ELSE {"listener"})
    /\ startupBuffer' = <<>> /\ startupBuffering' = FALSE
    /\ IF outputListener = "ready" THEN stopTerminalWarmupCapture ELSE UNCHANGED capture
    /\ QueueIs(enqueue(startupBuffer))
    /\ UNCHANGED <<arrived, captured, warmupOutput, initialOutput, outputPanel, outputListener,
                   initialOutputWritten, outputSessionVars, screen, owed>>

\* What has not been written yet is dropped; the timer of the startup buffer goes on.
ReconnectOutput ==
    /\ outputListener = "ready" /\ outputPanel = "mounted" /\ ~outputReconnecting /\ activeRequest = 1
    /\ LateWith(IF flushTimer THEN {"reconnect"} ELSE {})
    /\ outputReconnecting' = TRUE /\ activeRequest' = 2 /\ shownSession' = 0
    /\ QueueIs(clear) /\ startupBuffer' = <<>> /\ startupBuffering' = FALSE
    /\ screen' = <<>> /\ owed' = <<>>
    /\ UNCHANGED <<arrived, captureVars, initialOutput, outputPanel, outputListener, flushTimer, initialOutputWritten>>

\* The tab's output starts anew with the session; a failure goes back to the previous one.
ReconnectOutputReturns ==
    /\ LateWith({}) /\ outputReconnecting /\ outputReconnecting' = FALSE
    /\ \/ outputPanel = "mounted" /\ shownSession' = 2 /\ warmupOutput' = <<>> /\ UNCHANGED activeRequest
       \/ outputPanel = "mounted" /\ shownSession' = 1 /\ activeRequest' = 1 /\ UNCHANGED warmupOutput
       \/ outputPanel = "unmounted" /\ UNCHANGED <<shownSession, activeRequest, warmupOutput>>
    /\ UNCHANGED <<arrived, capture, captured, initialOutput, outputPanel, outputListener, startupVars,
                   queueVars, screen, owed>>

\* The tab is closed.
UnmountOutputPanel ==
    /\ outputPanel = "mounted" /\ outputPanel' = "unmounted" /\ outputListener' = "none"
    /\ startupBuffer' = <<>> /\ startupBuffering' = FALSE /\ flushTimer' = FALSE
    /\ stopTerminalWarmupCapture /\ QueueIs(dispose) /\ owed' = <<>>
    /\ UNCHANGED <<late, arrived, captured, warmupOutput, initialOutput, initialOutputWritten, outputSessionVars, screen>>

OutputNext ==
    \/ \E s \in {1, 2} : OutputArrives(s)
    \/ HandOffOutput \/ CaptureTimesOut \/ MountOutputPanel \/ InitialOutputChanges
    \/ ListenerRegisters \/ ListenerIsReady \/ flushStartupOutput
    \/ ReconnectOutput \/ ReconnectOutputReturns \/ UnmountOutputPanel
    \/ flushNext \/ onParsed

OutputSpec == OutputInit /\ [][OutputNext]_outputVars

-----------------------------------------------------------------------------
\* What still is to be written, in the order it will be.
Underway ==
    pendingOutput \o startupBuffer
      \o SubSeq(warmupOutput, initialOutputWritten + 1, Len(warmupOutput)) \o captured

\* No chunk falls between the capture and the panel's listener, in whatever order the panel is
\* mounted, listens and ends its startup buffer, unless the three seconds end first.
NothingIsLost ==
    "stop" \notin late /\ ~disposed => ToSet(owed) \subseteq ToSet(screen) \cup ToSet(Underway)

\* When React and the listener are in time, the output is shown once and in its order.
ShownInOrder == late = {} /\ ~disposed => screen \o Underway = owed

\* Output that waits has a batch being parsed or a frame asked for.
NothingIsStuck == ~disposed /\ pendingOutput # <<>> => scheduled \/ writing

\* All three: what a host prints reaches the terminal.
OutputIsShown == NothingIsLost /\ ShownInOrder /\ NothingIsStuck
=============================================================================

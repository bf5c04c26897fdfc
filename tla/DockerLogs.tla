----------------------------- MODULE DockerLogs -----------------------------
(***************************************************************************)
(* The log dialog of the Docker tools and the streams behind it:           *)
(* DockerToolPanel.tsx, bufferedTextFlush.ts and DockerLogStreamManager.   *)
(*                                                                         *)
(* Text is the container it came from: arrived text waits in a buffer and  *)
(* is shown when a timer or a handler flushes it.  A stream is a session   *)
(* of its own on the host; its task is spawned before its handle is in the *)
(* map that a stop looks at.  Copying, saving, scrolling, the size limits  *)
(* and error texts are left out.                                           *)
(***************************************************************************)
EXTENDS Naturals, Sequences

CONSTANTS
    Containers,
    NoContainer,
    MaxStreams,     \* bound: streams started
    MaxChunks       \* bound: chunks and ends emitted

ASSUME NoContainerAssumption == NoContainer \notin Containers

VARIABLES
    logs,           \* the dialog: target, streamId or 0, loading, streaming, paused
    text, buffer,   \* containers whose text is shown, and is about to be
    logStream,      \* of every stream started: container, state, whether a stop came too early
    starting,       \* starts whose answer is on its way: [id, ok]
    stopping,       \* streams a stop is on its way to
    logEvents,      \* events on their way: [id, kind]
    chunks

logsVars == <<logs, text, buffer, logStream, starting, stopping, logEvents, chunks>>

NoLogs == [target |-> NoContainer, streamId |-> 0, loading |-> FALSE, streaming |-> FALSE, paused |-> FALSE]

LogsInit ==
    /\ logs = NoLogs /\ text = {} /\ buffer = {}
    /\ logStream = <<>> /\ starting = {} /\ stopping = {} /\ logEvents = {} /\ chunks = 0

dockerContainerLogsStop == stopping' = stopping \cup ({logs.streamId} \ {0})

-----------------------------------------------------------------------------
(* The panel *)

startLogsStream_KeepsPrevious(c, resetContent) ==
    /\ Len(logStream) < MaxStreams
    /\ logStream' = Append(logStream, [of |-> c, st |-> "connecting", missed |-> FALSE])
    /\ logs' = [NoLogs EXCEPT !.target = c, !.streamId = Len(logStream) + 1, !.loading = TRUE]
    /\ text' = IF resetContent THEN {} ELSE text \cup buffer
    /\ buffer' = {}
    /\ UNCHANGED <<stopping, starting, logEvents, chunks>>

startLogsStream(c, resetContent) ==
    /\ Len(logStream) < MaxStreams
    /\ dockerContainerLogsStop
    /\ logStream' = Append(logStream, [of |-> c, st |-> "connecting", missed |-> FALSE])
    /\ logs' = [NoLogs EXCEPT !.target = c, !.streamId = Len(logStream) + 1, !.loading = TRUE]
    /\ text' = IF resetContent THEN {} ELSE text \cup buffer
    /\ buffer' = {}
    /\ UNCHANGED <<starting, logEvents, chunks>>

Backend == UNCHANGED <<logStream, starting, logEvents, chunks>>

\* The dialog is modal: another container's logs are opened once it is closed.
openLogs(c) == logs.target = NoContainer /\ startLogsStream(c, TRUE)

closeLogs ==
    /\ logs.target # NoContainer
    /\ dockerContainerLogsStop /\ logs' = NoLogs /\ text' = {} /\ buffer' = {}
    /\ Backend

\* What the open dialog offers: nothing but closing and clearing while it loads.
LogsDialog == logs.target # NoContainer /\ ~logs.loading

restartLogs == LogsDialog /\ startLogsStream(logs.target, TRUE)

pauseLogStreaming ==
    /\ LogsDialog /\ logs.streaming
    /\ dockerContainerLogsStop
    /\ logs' = [NoLogs EXCEPT !.target = logs.target, !.paused = TRUE]
    /\ text' = text \cup buffer /\ buffer' = {}
    /\ Backend

enableLogStreaming ==
    LogsDialog /\ ~logs.streaming /\ startLogsStream(logs.target, FALSE)

clearLogs ==
    /\ logs.target # NoContainer /\ text # {}
    /\ text' = {} /\ buffer' = {} /\ UNCHANGED <<logs, stopping>> /\ Backend

\* The panel moves to another connection, or is unmounted: answers to an unmounted panel's starts are lost.
LeaveConnection ==
    /\ logs.target # NoContainer
    /\ dockerContainerLogsStop /\ logs' = NoLogs /\ text' = {} /\ buffer' = {}
    /\ starting' \in {starting, {}}
    /\ UNCHANGED <<logStream, logEvents, chunks>>

BufferFlushes == buffer # {} /\ text' = text \cup buffer /\ buffer' = {} /\ UNCHANGED <<logs, stopping>> /\ Backend

\* Success is not checked against the stream shown.
StartReturns(a) ==
    /\ a \in starting /\ starting' = starting \ {a}
    /\ logs' = IF a.ok THEN [logs EXCEPT !.streaming = TRUE, !.loading = @ /\ logs.streamId # a.id]
               ELSE IF logs.streamId = a.id THEN [logs EXCEPT !.streamId = 0, !.paused = FALSE]
               ELSE logs
    /\ UNCHANGED <<text, buffer, logStream, stopping, logEvents, chunks>>

LogEventArrives(v) ==
    /\ v \in logEvents /\ logEvents' = logEvents \ {v}
    /\ IF v.id # logs.streamId THEN UNCHANGED <<logs, text, buffer>>
       ELSE /\ logs' = [logs EXCEPT !.loading = FALSE, !.streaming = v.kind = "chunk"]
            /\ IF v.kind = "chunk" THEN buffer' = buffer \cup {logStream[v.id].of} /\ UNCHANGED text
               ELSE buffer' = {} /\ text' = text \cup buffer
    /\ UNCHANGED <<logStream, starting, stopping, chunks>>

-----------------------------------------------------------------------------
(* The backend *)

StreamBecomes(id, from, to) == logStream[id].st = from /\ logStream' = [logStream EXCEPT ![id].st = to]
Dialog == UNCHANGED <<logs, text, buffer>>

SessionConnects(id) ==
    /\ \/ StreamBecomes(id, "connecting", "spawned") /\ UNCHANGED starting
       \/ StreamBecomes(id, "connecting", "ended") /\ starting' = starting \cup {[id |-> id, ok |-> FALSE]}
    /\ Dialog /\ UNCHANGED <<stopping, logEvents, chunks>>

\* A task that already ended leaves its handle behind.
HandleIsStored(id) ==
    /\ \/ StreamBecomes(id, "spawned", "open")
       \/ StreamBecomes(id, "finished", "ended")
    /\ starting' = starting \cup {[id |-> id, ok |-> TRUE]}
    /\ Dialog /\ UNCHANGED <<stopping, logEvents, chunks>>

Emit(id, kind) ==
    /\ chunks < MaxChunks /\ chunks' = chunks + 1
    /\ logEvents' = logEvents \cup {[id |-> id, kind |-> kind]}

ChunkIsRead(id) ==
    /\ logStream[id].st \in {"spawned", "open"} /\ Emit(id, "chunk")
    /\ Dialog /\ UNCHANGED <<logStream, starting, stopping>>

StreamFinishes(id) ==
    /\ StreamBecomes(id, "open", "ended") \/ StreamBecomes(id, "spawned", "finished")
    /\ Emit(id, "end")
    /\ Dialog /\ UNCHANGED <<starting, stopping>>

stop_stream(id) ==
    /\ id \in stopping /\ stopping' = stopping \ {id}
    /\ logStream' = [logStream EXCEPT ![id] =
                       [of |-> @.of, st |-> IF @.st = "open" THEN "ended" ELSE @.st,
                        missed |-> @.st \in {"connecting", "spawned"}]]
    /\ Dialog /\ UNCHANGED <<starting, logEvents, chunks>>

LogsNext ==
    \/ \E c \in Containers : openLogs(c)
    \/ closeLogs \/ restartLogs \/ pauseLogStreaming \/ enableLogStreaming \/ clearLogs
    \/ LeaveConnection \/ BufferFlushes
    \/ \E a \in starting : StartReturns(a)
    \/ \E v \in logEvents : LogEventArrives(v)
    \/ \E id \in DOMAIN logStream : SessionConnects(id) \/ HandleIsStored(id) \/ ChunkIsRead(id)
                                 \/ StreamFinishes(id) \/ stop_stream(id)

LogsSpec == LogsInit /\ [][LogsNext]_logsVars

-----------------------------------------------------------------------------
\* What is shown, or about to be, comes from the container the dialog names, although text of
\* an earlier stream may still be in the buffer or on its way when another is opened.
LogsAreOfTarget == text \cup buffer \subseteq {logs.target} \ {NoContainer}

\* Every stream that runs on the host is the one shown or is being stopped; the only ones left
\* running are those whose stop came before their handle was stored.
StreamsAreStopped ==
    \A id \in DOMAIN logStream :
        logStream[id].st \in {"spawned", "open"} => id = logs.streamId \/ id \in stopping \/ logStream[id].missed

\* Both: the dialog and the host agree on whose logs are being followed.
LogsAreOwned == LogsAreOfTarget /\ StreamsAreStopped
=============================================================================

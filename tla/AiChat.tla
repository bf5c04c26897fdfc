------------------------------ MODULE AiChat ------------------------------
(***************************************************************************)
(* The AI panel and the streams it starts: AiAssistantPanel.tsx with       *)
(* AiChatStreamManager of ai_assistant.rs.                                 *)
(*                                                                         *)
(* A command of the backend runs when it is called or later, and is        *)
(* answered later still; the events of a stream come by another way and    *)
(* may overtake the answer of the call that started it.  An exchange, a    *)
(* number, is a question and the message that answers it.  The text of     *)
(* messages and the commands found in it are left out.                     *)
(***************************************************************************)
EXTENDS Naturals, Sequences

CONSTANTS
    Chats,          \* ids of sessions, never given out again
    MaxExchanges,   \* bound: questions asked
    NoChat

ASSUME NoChatAssumption == NoChat \notin Chats

VARIABLES
    stored, chats, unusedChats,     \* exchanges stored of each session; existing ones
    activeChat, shownMessages,      \* activeSessionId; messages as <<session, exchange>>
    stream,                         \* streamState: <<session, exchange>> or <<>>
    call,                           \* the call under loadingRef: <<>>, or kind, session, step and exchange
    dialog,                         \* the confirmed dialog: <<>>, or kind, session, step, activeChat then
    streaming, streamEvents,        \* exchanges streamed; events on their way
    exchanges,
    overtaken                       \* history: streams whose end came before their start was answered

chatStore == <<stored, chats, unusedChats>>
panelVars == <<activeChat, shownMessages, stream, call, dialog>>
chatVars == <<chatStore, panelVars, streaming, streamEvents, exchanges, overtaken>>

ChatInit ==
    /\ stored = [c \in Chats |-> {}] /\ chats = {} /\ unusedChats = Chats
    /\ activeChat = NoChat /\ shownMessages = {} /\ stream = <<>> /\ call = <<>> /\ dialog = <<>>
    /\ streaming = {} /\ streamEvents = <<>> /\ exchanges = 0 /\ overtaken = {}

Idle == call = <<>>
Unblocked == dialog = <<>>      \* a confirmed dialog stays in front of the panel

-----------------------------------------------------------------------------
(* Asking *)

sendMessage ==
    /\ Unblocked /\ stream = <<>> /\ Idle
    /\ exchanges < MaxExchanges /\ exchanges' = exchanges + 1
    /\ call' = <<"send", activeChat, "asked", exchanges + 1>>
    /\ UNCHANGED <<chatStore, activeChat, shownMessages, stream, dialog, streaming, streamEvents, overtaken>>

\* prepare_stream, start: a session is created for the first question.
StreamStarts(c) ==
    /\ Len(call) > 0 /\ call[1] = "send" /\ call[3] = "asked"
    /\ IF call[2] = NoChat
       THEN c \in unusedChats /\ chats' = chats \cup {c} /\ unusedChats' = unusedChats \ {c}
       ELSE c = call[2] /\ c \in chats /\ UNCHANGED <<chats, unusedChats>>
    /\ stored' = [stored EXCEPT ![c] = @ \cup {call[4]}]
    /\ streaming' = streaming \cup {call[4]}
    /\ call' = <<"send", c, "done", call[4]>>
    /\ UNCHANGED <<activeChat, shownMessages, stream, dialog, streamEvents, exchanges, overtaken>>

SendReturns ==
    /\ Len(call) > 0 /\ call[1] = "send" /\ call[3] = "done"
    /\ activeChat' = call[2]
    /\ shownMessages' = shownMessages \cup {<<call[2], call[4]>>}
    /\ stream' = <<call[2], call[4]>>
    /\ call' = <<>>
    /\ UNCHANGED <<chatStore, dialog, streaming, streamEvents, exchanges, overtaken>>

\* The session was deleted meanwhile, or the key is missing.
CallFails ==
    /\ Len(call) > 0 /\ call[3] = "asked"
    /\ call' = <<>>
    /\ UNCHANGED <<chatStore, activeChat, shownMessages, stream, dialog, streaming, streamEvents, exchanges, overtaken>>

-----------------------------------------------------------------------------
(* The stream *)

\* The task ends: the message is stored, the event emitted, the handle removed.
StreamEnds(x) ==
    /\ x \in streaming
    /\ streaming' = streaming \ {x}
    /\ streamEvents' = Append(streamEvents, x)
    /\ UNCHANGED <<chatStore, panelVars, exchanges, overtaken>>

\* listenAiChatStream: an event of any other stream is dropped.
EventArrives ==
    /\ streamEvents # <<>> /\ streamEvents' = Tail(streamEvents)
    /\ stream' = IF Len(stream) > 0 /\ stream[2] = Head(streamEvents) THEN <<>> ELSE stream
    /\ overtaken' = IF Len(call) > 0 /\ call[1] = "send" /\ call[4] = Head(streamEvents)
                    THEN overtaken \cup {Head(streamEvents)} ELSE overtaken
    /\ UNCHANGED <<chatStore, activeChat, shownMessages, call, dialog, streaming, exchanges>>

stopStreaming_Silent ==
    /\ Unblocked /\ Len(stream) > 0 /\ stream[2] \in streaming
    /\ streaming' = streaming \ {stream[2]}
    /\ UNCHANGED <<chatStore, panelVars, streamEvents, exchanges, overtaken>>

\* Nothing happens when the stream is no longer in the manager.
stopStreaming ==
    /\ Unblocked /\ Len(stream) > 0 /\ stream[2] \in streaming
    /\ streaming' = streaming \ {stream[2]}
    /\ streamEvents' = Append(streamEvents, stream[2])
    /\ UNCHANGED <<chatStore, panelVars, exchanges, overtaken>>

-----------------------------------------------------------------------------
(* Changing the session shown *)

openSession(c) ==
    /\ Unblocked /\ stream = <<>> /\ Idle /\ c \in chats
    /\ call' = <<"open", c, "asked">>
    /\ UNCHANGED <<chatStore, activeChat, shownMessages, stream, dialog, streaming, streamEvents, exchanges, overtaken>>

OpenReturns ==
    /\ Len(call) > 0 /\ call[1] = "open" /\ call[2] \in chats
    /\ activeChat' = call[2]
    /\ shownMessages' = {<<call[2], x>> : x \in stored[call[2]]}
    /\ call' = <<>>
    /\ UNCHANGED <<chatStore, stream, dialog, streaming, streamEvents, exchanges, overtaken>>

startNewSession_KeepsMessages ==
    /\ Unblocked /\ stream = <<>> /\ activeChat # NoChat
    /\ activeChat' = NoChat
    /\ UNCHANGED <<chatStore, shownMessages, stream, call, dialog, streaming, streamEvents, exchanges, overtaken>>

\* The button asks for a stream only, not for a call on its way.
startNewSession ==
    /\ Unblocked /\ stream = <<>> /\ activeChat # NoChat
    /\ activeChat' = NoChat /\ shownMessages' = {}
    /\ UNCHANGED <<chatStore, stream, call, dialog, streaming, streamEvents, exchanges, overtaken>>

\* The dialog keeps the active session of the moment it was confirmed.
confirmDeleteSession(c) ==
    /\ Unblocked /\ c \in chats
    /\ IF Len(stream) > 0 /\ stream[1] = c
       THEN /\ streaming' = streaming \ {stream[2]} /\ stream' = <<>>
            /\ streamEvents' = IF stream[2] \in streaming THEN Append(streamEvents, stream[2]) ELSE streamEvents
       ELSE UNCHANGED <<streaming, stream, streamEvents>>
    /\ dialog' = <<"delete", c, "asked", activeChat>>
    /\ UNCHANGED <<chatStore, activeChat, shownMessages, call, exchanges, overtaken>>

clearCurrentSession ==
    /\ Unblocked /\ activeChat # NoChat /\ stream = <<>>
    /\ dialog' = <<"clear", activeChat, "asked", activeChat>>
    /\ UNCHANGED <<chatStore, activeChat, shownMessages, stream, call, streaming, streamEvents, exchanges, overtaken>>

\* ai_chat_session_delete, ai_chat_session_clear.
DialogRuns ==
    /\ Len(dialog) > 0 /\ dialog[3] = "asked"
    /\ stored' = [stored EXCEPT ![dialog[2]] = {}]
    /\ chats' = IF dialog[1] = "delete" THEN chats \ {dialog[2]} ELSE chats
    /\ dialog' = <<dialog[1], dialog[2], "done", dialog[4]>>
    /\ UNCHANGED <<unusedChats, activeChat, shownMessages, stream, call, streaming, streamEvents, exchanges, overtaken>>

DeleteReturns ==
    /\ Len(dialog) > 0 /\ dialog[1] = "delete" /\ dialog[3] = "done"
    /\ IF dialog[4] = dialog[2] THEN activeChat' = NoChat /\ shownMessages' = {}
       ELSE UNCHANGED <<activeChat, shownMessages>>
    /\ dialog' = <<>>
    /\ UNCHANGED <<chatStore, stream, call, streaming, streamEvents, exchanges, overtaken>>

\* What clear returns was read in the same command: no message.
ClearReturns ==
    /\ Len(dialog) > 0 /\ dialog[1] = "clear" /\ dialog[3] = "done"
    /\ shownMessages' = {}
    /\ dialog' = <<>>
    /\ UNCHANGED <<chatStore, activeChat, stream, call, streaming, streamEvents, exchanges, overtaken>>

DialogFails ==
    /\ Len(dialog) > 0 /\ dialog[3] = "asked"
    /\ dialog' = <<>>
    /\ UNCHANGED <<chatStore, activeChat, shownMessages, stream, call, streaming, streamEvents, exchanges, overtaken>>

Answers == SendReturns \/ OpenReturns \/ CallFails \/ EventArrives

ChatNext ==
    \/ sendMessage \/ stopStreaming \/ startNewSession \/ clearCurrentSession
    \/ \E c \in Chats : StreamStarts(c) \/ openSession(c) \/ confirmDeleteSession(c)
    \/ \E x \in 1..MaxExchanges : StreamEnds(x)
    \/ Answers \/ DialogRuns \/ DeleteReturns \/ ClearReturns \/ DialogFails

ChatSpec == ChatInit /\ [][ChatNext]_chatVars

\* An event that was emitted is delivered.  Nothing is assumed of the provider: the client
\* has no timeout and a stream may hang for ever.
ChatFairness == WF_chatVars(EventArrives)

-----------------------------------------------------------------------------
\* No message of one session is ever shown in another, whatever is asked, opened, deleted,
\* cleared or begun anew while an answer is on its way.
ShownInSession == \A m \in shownMessages : m[1] = activeChat

\* The panel is not left busy by a stream that is over, because the provider ended it, the user
\* stopped it (a hanging one too) or its session was deleted, also when it was over before its
\* start was answered.  Except a stream whose end event overtook that answer: the event was
\* dropped and stopping it does nothing.
PanelIsFreed ==
    (stream # <<>> /\ stream[2] \notin streaming \cup overtaken) ~> (stream = <<>>)
=============================================================================

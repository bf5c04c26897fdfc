------------------------------ MODULE MultiExec ------------------------------
(***************************************************************************)
(* One input to several terminals: multiExecReducer, the reconciliation    *)
(* effect of useTerminalSplitController, live fan-out (live.ts) and the    *)
(* command sender (send.ts, sendCommandTextToTargets).                     *)
(*                                                                         *)
(* A tab keeps its key over a reconnect.  lost and strays are history: the *)
(* targets that lost their session after the user picked them, and the     *)
(* writes that reached such a tab.                                         *)
(***************************************************************************)
EXTENDS Naturals, FiniteSets

CONSTANTS
    MultiTabs,
    MaxSends,       \* bound: live inputs and commands in flight at once
    MaxDrops        \* bound: sessions that end

VARIABLES
    status,     \* of a tab: "none", "up", or "down" with its session id kept
    mode,       \* MultiExecMode
    targets,    \* the picked keys
    inputs,     \* live inputs being delivered: tabs whose write has not returned, failed ones
    sends,      \* commands being sent: tabs still to be written, those found gone
    lost, strays,
    drops

multiVars == <<status, mode, targets, inputs, sends, lost, strays, drops>>

MultiInit ==
    /\ status = [t \in MultiTabs |-> "none"]
    /\ mode = "off" /\ targets = {}
    /\ inputs = {} /\ sends = {}
    /\ lost = {} /\ strays = {} /\ drops = 0

\* terminalSessionIdForBinding: what the effect takes for connected
ConnectedTabs(s) == {t \in MultiTabs : s[t] = "up"}
\* buildMultiExecTargets: what the lists offer and the senders resolve; a tab that lost its
\* session still has its id.
Offered(s) == {t \in MultiTabs : s[t] # "none"}

\* multiExec/setTargets: live ends with its last target.
setTargets(T) ==
    /\ targets' = T
    /\ mode' = IF mode = "live" /\ T = {} THEN "off" ELSE mode

targetsAvailable_NeverShrinks(s) == setTargets(targets)

\* multiExec/targetsAvailable, an effect of the connected tabs' keys
targetsAvailable(s) == setTargets(targets \cap ConnectedTabs(s))

TabMoves(t, to) ==
    /\ status' = [status EXCEPT ![t] = to]
    /\ targetsAvailable(status')
    /\ lost' = IF status[t] = "up" /\ t \in targets THEN lost \cup {t} ELSE lost
    /\ UNCHANGED <<inputs, sends, strays>>

Connects(t) == status[t] # "up" /\ TabMoves(t, "up") /\ UNCHANGED drops

Drops(t) == status[t] = "up" /\ drops < MaxDrops /\ drops' = drops + 1 /\ TabMoves(t, "down")

Closes(t) == status[t] # "none" /\ drops < MaxDrops /\ drops' = drops + 1 /\ TabMoves(t, "none")

\* setTerminalSplitSyncParticipant, toggleCommandSenderTarget
Pick(t) ==
    /\ t \in Offered(status) \ targets
    /\ setTargets(targets \cup {t})
    /\ lost' = lost \ {t}
    /\ UNCHANGED <<status, inputs, sends, strays, drops>>

Unpick(t) ==
    /\ t \in targets
    /\ setTargets(targets \ {t})
    /\ lost' = lost \ {t}
    /\ UNCHANGED <<status, inputs, sends, strays, drops>>

\* toggleCommandSenderAllTargets
PickAll ==
    /\ setTargets(IF Offered(status) \subseteq targets THEN {} ELSE Offered(status))
    /\ lost' = {}
    /\ UNCHANGED <<status, inputs, sends, strays, drops>>

\* setTerminalSplitSyncState; an effect of the mode reconciles the targets too.
setLive(on) ==
    /\ LET live == on /\ targets # {}
           left == targets \cap ConnectedTabs(status)
       IN IF (mode = "live") = live THEN mode' = (IF live THEN "live" ELSE "off") /\ UNCHANGED targets
          ELSE targets' = left /\ mode' = IF live /\ left # {} THEN "live" ELSE "off"
    /\ UNCHANGED <<status, inputs, sends, lost, strays, drops>>

\* handleMultiExecUserInput: a key typed in a connected terminal goes to the other targets.
UserInput(source) ==
    /\ mode = "live" /\ status[source] = "up" /\ Cardinality(inputs) + Cardinality(sends) < MaxSends
    /\ LET to == (targets \cap Offered(status)) \ {source}
       IN /\ inputs' = inputs \cup {to}
          /\ strays' = strays \cup {<<"live", t>> : t \in to \cap lost}
    /\ UNCHANGED <<status, mode, targets, sends, lost, drops>>

\* All writes of an input have returned; the targets that refused it are dropped.
InputDelivered(to, failed) ==
    /\ to \in inputs /\ failed \subseteq to
    /\ inputs' = inputs \ {to}
    /\ setTargets(targets \ failed)
    /\ lost' = lost \ failed
    /\ UNCHANGED <<status, sends, strays, drops>>

\* sendCommandTextToTargets: the keys are those of the moment of the click; the first is
\* written at once.
sendCommand(first) ==
    /\ first \in targets \cap Offered(status) /\ Cardinality(inputs) + Cardinality(sends) < MaxSends
    /\ sends' = sends \cup {[left |-> (targets \cap Offered(status)) \ {first}, gone |-> {}]}
    /\ mode' = "send"
    /\ targets' = IF mode = "send" THEN targets ELSE targets \cap ConnectedTabs(status)
    /\ UNCHANGED <<status, inputs, lost, strays, drops>>

\* writeMultiExecCommand takes the keys one after the other (here in any order) and looks
\* each up when its turn comes.
WriteNext(s, t) ==
    /\ s \in sends /\ t \in s.left
    /\ LET found == t \in Offered(status)
       IN /\ sends' = (sends \ {s}) \cup {[left |-> s.left \ {t}, gone |-> IF found THEN s.gone ELSE s.gone \cup {t}]}
          /\ strays' = IF status[t] = "up" /\ t \in lost THEN strays \cup {<<"send", t>>} ELSE strays
    /\ UNCHANGED <<status, mode, targets, inputs, lost, drops>>

SendEnds(s) ==
    /\ s \in sends /\ s.left = {}
    /\ sends' = sends \ {s}
    /\ setTargets(targets \ s.gone)
    /\ UNCHANGED <<status, inputs, lost, strays, drops>>

\* closeCommandSender and a file in front of the terminal leave the send mode.
LeaveSend ==
    /\ mode = "send"
    /\ mode' = "off" /\ targets' = targets \cap ConnectedTabs(status)
    /\ UNCHANGED <<status, inputs, sends, lost, strays, drops>>

MultiNext ==
    \/ \E t \in MultiTabs : Connects(t) \/ Drops(t) \/ Closes(t) \/ Pick(t) \/ Unpick(t) \/ UserInput(t) \/ sendCommand(t)
    \/ PickAll \/ setLive(TRUE) \/ setLive(FALSE) \/ LeaveSend
    \/ \E to \in inputs : \E failed \in SUBSET to : InputDelivered(to, failed)
    \/ \E s \in sends : SendEnds(s) \/ \E t \in s.left : WriteNext(s, t)

MultiSpec == MultiInit /\ [][MultiNext]_multiVars

-----------------------------------------------------------------------------
\* A terminal that lost its session gets no live input after its reconnect until the user
\* picks it again (WS-X04, WS-X06).
LiveToPicked == \A t \in MultiTabs : <<"live", t>> \notin strays

=============================================================================

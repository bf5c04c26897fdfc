----------------------------- MODULE SessionTabs -----------------------------
(***************************************************************************)
(* The instances of the workspace and which of them is shown: the          *)
(* collections of SSH, local, RDP and VNC instances and of remote file     *)
(* tabs in WorkspaceShell, the pointers of sessionPointerReducer, the      *)
(* decisions of closeDecision.ts, the close plans of itemClose.ts with     *)
(* their confirmation, and the follow-up activation that an effect runs    *)
(* after a close.  A handler dispatches several actions before React       *)
(* renders; it reads refs that are already new and a file list that is     *)
(* not.                                                                    *)
(*                                                                         *)
(* Left out: split panes (SplitPanes), the settings view on top of the     *)
(* workspace, and the tab remembered for the unified terminal/file layout, *)
(* which only rendering reads.                                             *)
(***************************************************************************)
EXTENDS Naturals, Sequences, SequencesExt, FiniteSets, Filter

CONSTANTS
    Ssh, Local, Rdp, Vnc, Files,    \* ids of instances and of file tabs
    Conn,                           \* the connection of an id
    Scopes,                         \* the close commands offered (CloseScope)
    MaxTabs,                        \* bound: instances open at once
    Nil

ASSUME KindsAssumption ==
    Ssh \cap Local = {} /\ (Ssh \cup Local) \cap (Rdp \cup Vnc) = {} /\ Rdp \cap Vnc = {}
ASSUME NilAssumption ==
    /\ Nil \notin Ssh \cup Local \cup Rdp \cup Vnc \cup Files
    /\ \A i \in Ssh \cup Rdp \cup Vnc \cup Files : Conn[i] # Nil

Kinds == {"ssh", "local", "rdp", "vnc"}
Ids == [ssh |-> Ssh, local |-> Local, rdp |-> Rdp, vnc |-> Vnc, file |-> Files]
Conns == {Conn[i] : i \in Ssh \cup Rdp \cup Vnc}
KindOf(i) == CHOOSE k \in Kinds : i \in Ids[k]

VARIABLES
    tabs,       \* the five collections, in order of creation
    ptr,        \* SessionPointerState
    used,       \* instance ids given out; ids are never given out again
    connecting, \* SSH tabs still in their connection steps
    dirty,      \* file tabs with unsaved changes
    pending,    \* the close request awaiting its confirmation
    mixed       \* history: a close command has taken several decisions

tabsVars == <<tabs, ptr, used, connecting, dirty, pending, mixed>>

Pointers ==
    [conn : Conns \cup {Nil}, tab : Ssh \cup {Nil}, local : Local \cup {Nil}, rdp : Rdp \cup {Nil},
     vnc : Vnc \cup {Nil}, file : Files \cup {Nil}, mode : Kinds \cup {"home"}, home : BOOLEAN,
     follow : Ssh \cup Local \cup Rdp \cup Vnc \cup {Nil},
     last : [Conns -> Ssh \cup {Nil}], order : Seq(Ssh \cup Local \cup Rdp \cup Vnc)]

TabsTypeOK ==
    /\ DOMAIN tabs = DOMAIN Ids
    /\ \A k \in DOMAIN Ids : tabs[k] \in Seq(Ids[k])
    /\ ptr \in Pointers
    /\ used \subseteq Ssh \cup Local \cup Rdp \cup Vnc
    /\ connecting \subseteq Ssh /\ dirty \subseteq Files
    /\ pending = Nil \/ pending \subseteq used
    /\ mixed \in BOOLEAN

TabsInit ==
    /\ tabs = [k \in DOMAIN Ids |-> <<>>]
    /\ ptr = [conn |-> Nil, tab |-> Nil, local |-> Nil, rdp |-> Nil, vnc |-> Nil, file |-> Nil,
              mode |-> "home", home |-> TRUE, follow |-> Nil, last |-> [c \in Conns |-> Nil], order |-> <<>>]
    /\ used = {} /\ connecting = {} /\ dirty = {} /\ pending = Nil /\ mixed = FALSE

First(s) == IF s = <<>> THEN Nil ELSE Head(s)
Without(s, S) == Among(s, ToSet(s) \ S)
Of(s, c) == Among(s, {i \in ToSet(s) : Conn[i] = c})
ConnOf(i) == IF i = Nil THEN Nil ELSE Conn[i]
Instances(s) == UNION {ToSet(s[k]) : k \in Kinds}
workspaceEmpty(s) == \A k \in DOMAIN s : s[k] = <<>>

-----------------------------------------------------------------------------
(* sessionPointerReducer: the activations *)

activateTerminal(p, t) ==
    [p EXCEPT !.mode = "ssh", !.home = FALSE, !.conn = Conn[t], !.tab = t, !.last[Conn[t]] = t]

activate(p, i) ==
    IF i \in Ssh THEN activateTerminal(p, i)
    ELSE IF i \in Local THEN [p EXCEPT !.mode = "local", !.home = FALSE, !.local = i]
    ELSE IF i \in Rdp THEN [p EXCEPT !.mode = "rdp", !.home = FALSE, !.conn = Conn[i], !.rdp = i]
    ELSE [p EXCEPT !.mode = "vnc", !.home = FALSE, !.conn = Conn[i], !.vnc = i]

preferredTabForConnection(p, c) ==
    IF p.last[c] \in ToSet(Of(tabs.ssh, c)) THEN p.last[c] ELSE First(Of(tabs.ssh, c))

\* activateRemoteFileTab: with a file its terminal becomes the active one.
activateFile(p, f) ==
    LET t == IF p.tab \in ToSet(Of(tabs.ssh, Conn[f])) THEN p.tab ELSE preferredTabForConnection(p, Conn[f])
        q == [p EXCEPT !.home = FALSE, !.mode = "ssh", !.conn = Conn[f], !.file = f]
    IN IF t = Nil THEN q ELSE [q EXCEPT !.tab = t, !.last[Conn[f]] = t]

-----------------------------------------------------------------------------
(* closeDecision.ts: the pointers after a removal, from the snapshot s of the collections
   that remain.  Every decision replaces the follow-up of the one before it. *)

HomePatch(p) == [p EXCEPT !.conn = Nil, !.tab = Nil, !.home = TRUE, !.mode = "home"]

fallbackRdpVncLocal(s) == First(s.rdp \o s.vnc \o s.local)

Forget(p, C) == [p EXCEPT !.last = [c \in Conns |-> IF c \in C THEN Nil ELSE @[c]]]

decideTerminalClose(p, closing, s) ==
    LET q == [(IF workspaceEmpty(s) THEN HomePatch(p) ELSE p) EXCEPT !.follow = Nil]
        OneOf(k, c) == First(Of(s[k], c) \o s[k])
    IN IF p.tab \in closing
       THEN LET c == Conn[p.tab]
                t == OneOf("ssh", c)
                f == OneOf("file", c)
            IN IF t # Nil THEN [q EXCEPT !.tab = t, !.conn = Conn[t], !.last[Conn[t]] = t]
               ELSE Forget([q EXCEPT !.tab = Nil, !.conn = ConnOf(f), !.file = IF f = Nil THEN @ ELSE f,
                                     !.follow = IF f = Nil THEN fallbackRdpVncLocal(s) ELSE Nil], {c})
       ELSE IF (\E t \in closing : Conn[t] = p.conn) /\ Of(s.ssh, p.conn) = <<>>
       THEN LET f == OneOf("file", p.conn)
            IN Forget([q EXCEPT !.conn = ConnOf(First(s.ssh \o <<f>>)),
                                !.follow = IF s.ssh = <<>> /\ f = Nil THEN fallbackRdpVncLocal(s) ELSE Nil],
                      {p.conn})
       ELSE q

decideConnectionClose(p, C, s, variant) ==
    LET q == [(IF workspaceEmpty(s) THEN HomePatch(p) ELSE p) EXCEPT !.follow = Nil]
        t == First(s.ssh)
        f == First(s.file)
    IN IF p.conn \in C
       THEN LET r == [q EXCEPT !.tab = t, !.conn = IF t # Nil THEN Conn[t] ELSE ConnOf(f)]
            IN IF f # Nil /\ (variant = "sessions" \/ t = Nil) THEN [r EXCEPT !.file = f]
               ELSE [r EXCEPT !.follow = IF t = Nil THEN fallbackRdpVncLocal(s) ELSE Nil]
       ELSE IF variant = "delete" /\ p.tab \notin ToSet(s.ssh) THEN [q EXCEPT !.tab = t]
       ELSE q

decideLocalClose_KeepsMode(p, closing, s) ==
    LET q == [p EXCEPT !.follow = Nil]
    IN IF p.local \notin closing THEN q
       ELSE IF s.local # <<>> THEN [q EXCEPT !.local = Head(s.local)]
       ELSE IF workspaceEmpty(s) THEN [q EXCEPT !.local = Nil, !.home = TRUE, !.mode = "home"]
       ELSE [q EXCEPT !.local = Nil, !.follow = IF s.ssh # <<>> THEN Nil ELSE First(s.rdp \o s.vnc)]

decideLocalClose(p, closing, s) ==
    LET q == [p EXCEPT !.follow = Nil]
    IN IF p.local \notin closing THEN q
       ELSE IF s.local # <<>> THEN [q EXCEPT !.local = Head(s.local)]
       ELSE IF workspaceEmpty(s) THEN [q EXCEPT !.local = Nil, !.home = TRUE, !.mode = "home"]
       ELSE IF s.ssh # <<>> THEN [q EXCEPT !.local = Nil, !.mode = "ssh"]
       ELSE [q EXCEPT !.local = Nil, !.follow = First(s.rdp \o s.vnc)]

\* k is the kind that is closed, "rdp" or "vnc".
decideRemoteDesktopRemove(k, p, closing, s) ==
    LET q == [p EXCEPT !.follow = Nil]
        other == IF k = "rdp" THEN "vnc" ELSE "rdp"
        next == First(Of(s[k], p.conn) \o s[k])
        follow == First(s[other] \o s.ssh \o s.local)
    IN IF ~(IF p[k] # Nil THEN p[k] \in closing ELSE p.mode = k) THEN q
       ELSE IF next # Nil THEN [activate(q, next) EXCEPT !.follow = Nil]
       ELSE IF follow # Nil THEN [q EXCEPT ![k] = Nil, !.follow = follow]
       ELSE HomePatch([q EXCEPT !.local = Nil, !.rdp = Nil, !.vnc = Nil])

pruneOrder(p, s) == [p EXCEPT !.order = Among(@, Instances(s))]

-----------------------------------------------------------------------------
(* The closes of WorkspaceShell.  x is the state a handler has built so far (refs and
   reducer), seen the file list of the last render. *)

State == [tabs |-> tabs, ptr |-> ptr]

closeTerminalTabs(x, S, seen) ==
    LET rest == [x.tabs EXCEPT !.ssh = Without(@, S)]
        s == [rest EXCEPT !.file = seen]
    IN [tabs |-> rest, ptr |-> pruneOrder(decideTerminalClose(x.ptr, S \cap ToSet(x.tabs.ssh), s), s)]

closeLocalTerminalTabs(x, S, seen) ==
    LET rest == [x.tabs EXCEPT !.local = Without(@, S)]
        s == [rest EXCEPT !.file = seen]
    IN [tabs |-> rest, ptr |-> pruneOrder(decideLocalClose(x.ptr, S, s), s)]

\* closeRdpSessions, closeVncSessions
closeDesktops(k, x, S, seen) ==
    LET rest == [x.tabs EXCEPT ![k] = Without(@, S)]
        s == [rest EXCEPT !.file = seen]
    IN IF S = {} THEN x
       ELSE [tabs |-> rest, ptr |-> pruneOrder(decideRemoteDesktopRemove(k, x.ptr, S, s), s)]

clearRemoteFileSessionState(x, C) ==
    LET files == Among(x.tabs.file, {f \in ToSet(x.tabs.file) : Conn[f] \notin C})
    IN [tabs |-> [x.tabs EXCEPT !.file = files],
        ptr |-> [x.ptr EXCEPT !.file = IF @ \in ToSet(files) THEN @ ELSE Nil]]

\* closeConnectionSessions ("sessions") and deleteConnection ("delete")
closeConnections(x, C, seen, variant) ==
    LET In(k) == {i \in ToSet(x.tabs[k]) : Conn[i] \in C}
        y == closeDesktops("vnc", closeDesktops("rdp", clearRemoteFileSessionState(x, C), In("rdp"), seen),
                           In("vnc"), seen)
        rest == [y.tabs EXCEPT !.ssh = Without(@, In("ssh"))]
    IN [tabs |-> rest, ptr |-> pruneOrder(decideConnectionClose(Forget(y.ptr, C), C, rest, variant), rest)]

\* planClose: connections that lose their last terminal while files are open close as a
\* whole.
Released(S) == {c \in Conns : Of(tabs.ssh, c) # <<>> /\ ToSet(Of(tabs.ssh, c)) \subseteq S}
Cascading_None(S) == {}

Cascading(S) == {c \in Released(S) : Of(tabs.file, c) # <<>>}

executeClosePlan(S) ==
    LET x == State
        C == Cascading(S)
        sshTabs == {t \in S \cap ToSet(tabs.ssh) : Conn[t] \notin C}
        locals == S \cap ToSet(tabs.local)
        a == IF C = {} THEN x ELSE closeConnections(x, C, tabs.file, "sessions")
        b == IF sshTabs = {} THEN a ELSE closeTerminalTabs(a, sshTabs, tabs.file)
        c == IF locals = {} THEN b ELSE closeLocalTerminalTabs(b, locals, tabs.file)
        d == closeDesktops("rdp", c, S \cap ToSet(tabs.rdp), tabs.file)
    IN closeDesktops("vnc", d, S \cap ToSet(tabs.vnc), tabs.file)

Becomes(x) ==
    /\ tabs' = x.tabs /\ ptr' = x.ptr
    /\ connecting' = connecting \cap ToSet(x.tabs.ssh)
    /\ dirty' = dirty \cap ToSet(x.tabs.file)

\* The plan of S takes one decision: its tabs are of one kind, and their connections are
\* closed either all as a whole or not at all.
OneDecision(S) ==
    /\ \E k \in Kinds : S \cap Instances(tabs) \subseteq ToSet(tabs[k])
    /\ Cascading(S) = {} \/ \A t \in S \cap ToSet(tabs.ssh) : Conn[t] \in Cascading(S)

CarryOut(S) ==
    /\ Becomes(executeClosePlan(S))
    /\ mixed' = (mixed \/ ~OneDecision(S))

-----------------------------------------------------------------------------
(* Handlers *)

\* A confirmation locks the workspace, and React flushes the effects of one user event
\* before it handles the next; events of the runner windows arrive at any time.
Unlocked == pending = Nil /\ ptr.follow = Nil

\* startConnectionStep, openTerminalInConnection, openLocalTerminalByProfile and the
\* openers of RDP and VNC sessions: a new instance, activated and (by an effect of
\* useSessionTabsController) entered at the end of the order.
Open(i) ==
    /\ Unlocked /\ i \notin used /\ Cardinality(Instances(tabs)) < MaxTabs
    /\ tabs' = [tabs EXCEPT ![KindOf(i)] = Append(@, i)]
    /\ ptr' = [activate(ptr, i) EXCEPT !.order = Append(@, i)]
    /\ used' = used \cup {i}
    /\ connecting' = IF i \in Ssh THEN connecting \cup {i} ELSE connecting
    /\ UNCHANGED <<dirty, pending, mixed>>

Connected(t) ==
    /\ t \in connecting
    /\ connecting' = connecting \ {t}
    /\ UNCHANGED <<tabs, ptr, used, dirty, pending, mixed>>

\* The cancel button of a connecting tab closes it without a plan.
CancelConnecting(t) ==
    /\ Unlocked /\ t \in connecting
    /\ Becomes(closeTerminalTabs(State, {t}, tabs.file))
    /\ UNCHANGED <<used, pending, mixed>>

\* openRemoteFile: from the Files panel of the active, connected SSH terminal.
OpenFile(f) ==
    /\ Unlocked /\ ptr.mode = "ssh" /\ ptr.conn = Conn[f] /\ f \notin ToSet(tabs.file)
    /\ ptr.tab \in ToSet(tabs.ssh) \ connecting
    /\ tabs' = [tabs EXCEPT !.file = Append(@, f)]
    /\ ptr' = activateFile(ptr, f)
    /\ UNCHANGED <<used, connecting, dirty, pending, mixed>>

Edit(f) ==
    /\ Unlocked /\ f \in ToSet(tabs.file) \ dirty /\ ptr.mode = "ssh" /\ ptr.conn = Conn[f]
    /\ dirty' = dirty \cup {f}
    /\ UNCHANGED <<tabs, ptr, used, connecting, pending, mixed>>

\* activateRemoteFileFallbackAfterRemoval, activateTerminalFallbackAfterFilesClose
AfterFileClose(p, f, rest) ==
    LET g == First(Of(rest, Conn[f]) \o rest)
        t == IF p.tab \in ToSet(tabs.ssh) THEN p.tab
             ELSE LET u == IF p.conn = Nil THEN Nil ELSE preferredTabForConnection(p, p.conn)
                  IN IF u # Nil THEN u ELSE First(tabs.ssh)
        r == IF p.rdp # Nil THEN First(Among(tabs.rdp, {p.rdp})) ELSE First(tabs.rdp)
        v == IF p.vnc # Nil THEN First(Among(tabs.vnc, {p.vnc})) ELSE First(tabs.vnc)
        q == [p EXCEPT !.file = Nil]
        i == First(Without(<<t, r, v>>, {Nil}))
    IN IF g # Nil THEN activateFile(p, g)
       ELSE IF i # Nil THEN activate(q, i)
       ELSE [q EXCEPT !.conn = Nil, !.mode = "home", !.home = TRUE]

\* closeRemoteFileTabsNow of one file, after its own question when it is dirty.
CloseFile(f) ==
    /\ Unlocked /\ f \in ToSet(tabs.file) /\ ptr.mode = "ssh" /\ ptr.conn = Conn[f]
    /\ LET rest == Without(tabs.file, {f})
       IN Becomes([tabs |-> [tabs EXCEPT !.file = rest],
                   ptr |-> IF ptr.file = f THEN AfterFileClose(ptr, f, rest) ELSE ptr])
    /\ UNCHANGED <<used, pending, mixed>>

\* selectWorkspaceItem
Select(i) ==
    /\ Unlocked /\ i \in Instances(tabs)
    /\ ptr' = activate(ptr, i)
    /\ UNCHANGED <<tabs, used, connecting, dirty, pending, mixed>>

SelectFile(f) ==
    /\ Unlocked /\ f \in ToSet(tabs.file) /\ ptr.mode = "ssh" /\ ptr.conn = Conn[f]
    /\ ptr' = activateFile(ptr, f)
    /\ UNCHANGED <<tabs, used, connecting, dirty, pending, mixed>>

openHome ==
    /\ Unlocked
    /\ ptr' = [ptr EXCEPT !.mode = "home", !.home = TRUE]
    /\ UNCHANGED <<tabs, used, connecting, dirty, pending, mixed>>

closeScopeItemIds(i, scope) ==
    LET at == CHOOSE n \in DOMAIN ptr.order : ptr.order[n] = i
    IN IF scope = "self" THEN {i}
       ELSE IF scope = "others" THEN ToSet(ptr.order) \ {i}
       ELSE IF scope = "right" THEN {ptr.order[n] : n \in at + 1 .. Len(ptr.order)}
       ELSE ToSet(ptr.order)

\* useCloseRequest.request: unsaved files and active transfers of a connection that is
\* released ask first.
RequestClose(i, scope, transfers) ==
    /\ Unlocked /\ i \in ToSet(ptr.order)
    /\ LET S == closeScopeItemIds(i, scope)
           asks == \/ \E f \in dirty : Conn[f] \in Cascading(S)
                   \/ transfers /\ Released(S) # {}
       IN /\ S # {}
          /\ transfers => asks
          /\ IF asks THEN pending' = S /\ UNCHANGED <<tabs, ptr, connecting, dirty, mixed>>
                     ELSE CarryOut(S) /\ UNCHANGED pending
    /\ UNCHANGED used

\* useCloseRequest.confirm plans again.
confirm ==
    /\ pending # Nil
    /\ CarryOut(pending)
    /\ pending' = Nil
    /\ UNCHANGED used

cancel ==
    /\ pending # Nil
    /\ pending' = Nil
    /\ UNCHANGED <<tabs, ptr, used, connecting, dirty, mixed>>

\* A runner window was closed, or its process ended: removed at any time.
RunnerEnds(k, i) ==
    /\ i \in ToSet(tabs[k])
    /\ Becomes(closeDesktops(k, State, {i}, tabs.file))
    /\ UNCHANGED <<used, pending, mixed>>

\* deleteConnection, after its awaits
deleteConnection(c) ==
    /\ Unlocked /\ \E i \in Instances(tabs) \ Local : Conn[i] = c
    /\ Becomes(closeConnections(State, {c}, tabs.file, "delete"))
    /\ UNCHANGED <<used, pending, mixed>>

\* The effect of useSessionTabsController hands the follow-up to the shell, which ignores
\* an instance that is gone.
FollowUp ==
    /\ ptr.follow # Nil
    /\ LET q == [ptr EXCEPT !.follow = Nil]
       IN ptr' = IF ptr.follow \in Instances(tabs) THEN activate(q, ptr.follow) ELSE q
    /\ UNCHANGED <<tabs, used, connecting, dirty, pending, mixed>>

TabsNext ==
    \/ \E i \in Ssh \cup Local \cup Rdp \cup Vnc : Open(i) \/ Select(i)
    \/ \E t \in Ssh : Connected(t) \/ CancelConnecting(t)
    \/ \E f \in Files : OpenFile(f) \/ Edit(f) \/ CloseFile(f) \/ SelectFile(f)
    \/ \E i \in used, scope \in Scopes, transfers \in BOOLEAN : RequestClose(i, scope, transfers)
    \/ confirm \/ cancel \/ openHome \/ FollowUp
    \/ \E k \in {"rdp", "vnc"} : \E i \in Ids[k] : RunnerEnds(k, i)
    \/ \E c \in Conns : deleteConnection(c)

TabsSpec == TabsInit /\ [][TabsNext]_tabsVars

-----------------------------------------------------------------------------
(* selectActiveItemId: what the workspace shows; Nil when nothing *)
Shown ==
    LET Desktop(k) == IF ptr[k] \in ToSet(tabs[k]) /\ (ptr.conn = Nil \/ Conn[ptr[k]] = ptr.conn)
                      THEN ptr[k] ELSE First(Of(tabs[k], ptr.conn))
    IN IF ptr.mode = "ssh" THEN IF ptr.tab \in ToSet(tabs.ssh) THEN ptr.tab ELSE Nil
       ELSE IF ptr.mode = "local" THEN IF ptr.local \in ToSet(tabs.local) THEN ptr.local ELSE Nil
       ELSE IF ptr.mode = "home" THEN Nil
       ELSE Desktop(ptr.mode)

showingHome == ptr.mode = "home" \/ (workspaceEmpty(tabs) /\ ptr.home)

\* What the workspace shows is an open instance or the home page, until a remote desktop is
\* opened or one command takes several decisions: closes and deletes, of one tab or of many,
\* leave the pointers, written by the decision and read with three different fallbacks,
\* naming an instance that is still there.  With desktops it fails: the close of a
\* background tab moves the active connection under the desktop that is shown.  It fails
\* after several decisions: the one on the local terminals drops the follow-up of the one
\* on the SSH terminals, and reads a file list from before it.  Files that a cancel left
\* without a terminal show no item.
ShownIsLive ==
    /\ ptr.follow = Nil /\ used \cap (Rdp \cup Vnc) = {} /\ ~mixed
    /\ \A f \in ToSet(tabs.file) : Of(tabs.ssh, Conn[f]) # <<>>
    => showingHome \/ Shown # Nil

\* A close never leaves open files without the terminal through which the editor is
\* reached, except that cancelling the connection of the last terminal does.
FilesKeepTerminal ==
    [][\A f \in ToSet(tabs'.file) :
          Of(tabs.ssh, Conn[f]) # <<>> /\ ~ToSet(Of(tabs.ssh, Conn[f])) \subseteq connecting
            => Of(tabs'.ssh, Conn[f]) # <<>>]_tabsVars

=============================================================================

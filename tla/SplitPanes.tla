----------------------------- MODULE SplitPanes -----------------------------
(***************************************************************************)
(* The split group of terminals: splitReducer with its normalisation, the  *)
(* two effects of useTerminalSplitController, and the split handlers of    *)
(* WorkspaceShell with the session picker of an empty pane.                *)
(*                                                                         *)
(* The layout tree is kept as the bindings of its panes in position order, *)
(* all that decisions read; a pane is named by its place instead of an id. *)
(* A split puts the new pane somewhere after the pane it divides, where    *)
(* depending on direction and ratios.  Which picker is open is rendering;  *)
(* which pane its cancelling removes is kept.                              *)
(***************************************************************************)
EXTENDS Naturals, Sequences, SequencesExt, FiniteSets, Filter

CONSTANTS
    Terminals,      \* tab ids, SSH and local
    Empty           \* no tab; the binding of an empty pane

ASSUME TerminalsAssumption == IsFiniteSet(Terminals) /\ Empty \notin Terminals

MaxPanes == 4       \* terminalSplitMaxPanes

VARIABLES
    open,       \* tabs in the collections
    unopened,   \* tabs not opened yet
    group       \* SplitState and terminalSplitPickerPendingPaneRef

splitVars == <<open, unopened, group>>

Bound(ps) == ToSet(ps) \ {Empty}
Place(ps, b) == CHOOSE i \in DOMAIN ps : ps[i] = b
FirstBound(ps) == IF Bound(ps) = {} THEN Empty ELSE Head(Among(ps, Bound(ps)))

NoGroup == [panes |-> <<>>, focus |-> 0, host |-> Empty, active |-> FALSE, pending |-> 0, collapsed |-> Empty]

SplitInit ==
    /\ open = {} /\ unopened = Terminals
    /\ group = NoGroup

\* closeTerminalSplitPane of the layout, for the panes at the places S; what names a pane
\* that is gone names none (0).
RemovePanes(g, S) ==
    LET kept == Among([i \in DOMAIN g.panes |-> i], DOMAIN g.panes \ S)
        Moved(i) == IF i \in ToSet(kept) THEN Place(kept, i) ELSE 0
    IN [g EXCEPT !.panes = [k \in DOMAIN kept |-> @[kept[k]]],
                 !.focus = Moved(@), !.pending = Moved(@)]

-----------------------------------------------------------------------------
(* The reducer *)

cleared(survivor) == [NoGroup EXCEPT !.collapsed = survivor]

resolveHost(host, ps) == IF host \in Bound(ps) THEN host ELSE FirstBound(ps)

normalize_HostKept(g) ==
    LET r == RemovePanes(g, {i \in DOMAIN g.panes : g.panes[i] \notin open \cup {Empty}})
    IN IF g.panes = <<>> THEN g
       ELSE IF Len(r.panes) < 2 THEN cleared(FirstBound(r.panes))
       ELSE [r EXCEPT !.focus = IF @ = 0 THEN 1 ELSE @]

\* More than MaxPanes panes never come to be: the rebuilding of such a layout is left out.
normalize(g) ==
    LET r == RemovePanes(g, {i \in DOMAIN g.panes : g.panes[i] \notin open \cup {Empty}})
    IN IF g.panes = <<>> THEN g
       ELSE IF Len(r.panes) < 2 THEN cleared(FirstBound(r.panes))
       ELSE [r EXCEPT !.host = resolveHost(@, r.panes), !.focus = IF @ = 0 THEN 1 ELSE @]

Normalize ==
    /\ normalize(group) # group
    /\ group' = normalize(group)
    /\ UNCHANGED <<open, unopened>>

\* The survivor of a group goes back to a tab of its own.
CollapseHandled ==
    /\ group.collapsed # Empty
    /\ group' = [group EXCEPT !.collapsed = Empty, !.pending = 0, !.active = FALSE]
    /\ UNCHANGED <<open, unopened>>

\* React runs the effects of one user event before the next.
SplitSettled == group.collapsed = Empty /\ normalize(group) = group

-----------------------------------------------------------------------------
(* Handlers *)

\* A tab opened on its own becomes the active item, in front of the group.
OpenTerminal(t) ==
    /\ t \in unopened
    /\ open' = open \cup {t} /\ unopened' = unopened \ {t}
    /\ group' = [group EXCEPT !.active = FALSE]

\* createSameSessionTerminalBinding: a new tab of the same session, or none when the
\* setting is off or the session cannot be opened again.
SameSession(t) ==
    \/ t = Empty /\ UNCHANGED <<open, unopened>>
    \/ t \in unopened /\ open' = open \cup {t} /\ unopened' = unopened \ {t}

\* A new pane is empty, holds a new tab of the session, or the tab that was not a member.
startTerminalSplitForBinding(b, t, at) ==
    /\ b \in open
    /\ LET ps == IF group.panes = <<>> THEN <<b>> ELSE group.panes
           member == b \in Bound(ps)
           divided == IF member THEN Place(ps, b) ELSE group.focus
           new == IF member THEN t ELSE b
       IN /\ Len(ps) < MaxPanes /\ at \in divided + 1 .. Len(ps) + 1
          /\ IF member THEN SameSession(t) ELSE t = Empty /\ UNCHANGED <<open, unopened>>
          /\ group' = [group EXCEPT !.panes = InsertAt(ps, at, new), !.focus = at, !.active = TRUE,
                                    !.host = IF group.panes = <<>> THEN b ELSE @,
                                    !.pending = IF new = Empty THEN at ELSE IF @ >= at THEN @ + 1 ELSE @]

\* createFourPane of the members, the tab and new sessions of it.
startTerminalFourPaneForBinding(b, T) ==
    /\ b \in open /\ T \subseteq unopened
    /\ LET current == Among(group.panes, Bound(group.panes))
           all == (IF b \in Bound(current) THEN current ELSE Append(current, b)) \o SetToSeq(T)
           ps == [i \in 1 .. MaxPanes |-> IF i <= Len(all) THEN all[i] ELSE Empty]
           full == Empty \notin ToSet(ps)
       IN /\ T = {} \/ Len(all) <= MaxPanes
          /\ group' = [group EXCEPT !.panes = ps, !.active = TRUE, !.host = IF @ = Empty THEN b ELSE @,
                                    !.focus = IF full THEN 1 ELSE Place(ps, Empty), !.pending = 0]
    /\ open' = open \cup T /\ unopened' = unopened \ T

\* assignTerminalSplitBinding: a tab that is in the group already changes places.
assign(g, n, b) ==
    [g EXCEPT !.panes = [i \in DOMAIN @ |-> IF i = n THEN b ELSE IF @[i] = b THEN @[n] ELSE @[i]],
              !.focus = n, !.pending = 0]

\* The picker of a pane, with an open tab or a new one
handleTerminalSplitSessionSelect(n, b) ==
    /\ group.active /\ b \in open \cup unopened
    /\ open' = open \cup {b} /\ unopened' = unopened \ {b}
    /\ group' = assign(group, n, b)

\* A picker closes without a choice: that of the pending pane takes the pane away.
handleTerminalSplitPickerOpenChange(n) ==
    /\ group.active /\ group.pending = n
    /\ LET g == RemovePanes(group, {n})
       IN group' = [g EXCEPT !.focus = IF @ = 0 /\ g.panes # <<>> THEN 1 ELSE @]
    /\ UNCHANGED <<open, unopened>>

focusTerminalSplitPane(n) ==
    /\ group.active /\ n # group.focus
    /\ group' = [group EXCEPT !.focus = n]
    /\ UNCHANGED <<open, unopened>>

\* activateTerminalTab: a member brings the group to the front, another tab itself.
activateTerminalTab(b) ==
    /\ b \in open
    /\ group' = IF b \in Bound(group.panes)
                THEN [group EXCEPT !.active = TRUE, !.focus = Place(group.panes, b)]
                ELSE [group EXCEPT !.active = FALSE]
    /\ UNCHANGED <<open, unopened>>

\* The plan of terminal.closePane: the pane and its tab.
closeTerminalSplitPane(n) ==
    /\ open' = open \ {group.panes[n]}
    /\ LET g == RemovePanes(group, {n})
       IN group' = [g EXCEPT !.focus = IF @ = 0 THEN 1 ELSE @]
    /\ UNCHANGED unopened

\* The plan of terminal.closeSplitGroup: resetTerminalSplitState and the members' tabs.
closeTerminalSplitGroup ==
    /\ group.panes # <<>>
    /\ group' = NoGroup
    /\ open' = open \ Bound(group.panes)
    /\ UNCHANGED unopened

\* A tab closed on its own, or with its connection once the connection was deleted.
TabGoes(t) ==
    /\ t \in open
    /\ open' = open \ {t}
    /\ UNCHANGED <<unopened, group>>

\* A handler runs when the effects of the one before it have; a tab may go at any time.
SplitHandler ==
    \/ closeTerminalSplitGroup
    \/ \E t \in Terminals : OpenTerminal(t) \/ activateTerminalTab(t)
    \/ \E b \in open, t \in unopened \cup {Empty}, at \in 1 .. MaxPanes : startTerminalSplitForBinding(b, t, at)
    \/ \E b \in open, T \in SUBSET unopened : startTerminalFourPaneForBinding(b, T)
    \/ \E n \in DOMAIN group.panes :
          \/ handleTerminalSplitPickerOpenChange(n) \/ focusTerminalSplitPane(n) \/ closeTerminalSplitPane(n)
          \/ \E b \in Terminals : handleTerminalSplitSessionSelect(n, b)

SplitNext ==
    \/ Normalize \/ CollapseHandled
    \/ SplitSettled /\ SplitHandler
    \/ \E t \in Terminals : TabGoes(t)

SplitSpec == SplitInit /\ [][SplitNext]_splitVars

-----------------------------------------------------------------------------
\* Once the effects have run, the group has two to four panes, shows each open tab at most
\* once and no closed one, and focus and host name members: what fan-out, closing and the
\* tab bar take for granted after any mix of splits, swaps, cancels and closes.
GroupIsSound ==
    SplitSettled /\ group.panes # <<>> =>
        /\ Len(group.panes) \in 2 .. MaxPanes
        /\ Bound(group.panes) \subseteq open
        /\ \A i, j \in DOMAIN group.panes :
              i # j => group.panes[i] # group.panes[j] \/ group.panes[i] = Empty
        /\ group.focus \in DOMAIN group.panes
        /\ group.host \in Bound(group.panes) \cup {Empty}

=============================================================================

----------------------------- MODULE FilePanel -----------------------------
(***************************************************************************)
(* The remote file panel of a terminal tab: RemoteFilePanel.tsx and        *)
(* remoteFileInstanceState.ts.                                             *)
(*                                                                         *)
(* Directories are one path, 1 the root and each next one inside the last. *)
(* What the host holds of a directory is the number of changes made to it, *)
(* and an answer holds any number between its question and now.  The panel *)
(* is one record, remounted when another tab is focused; the tab keeps     *)
(* what remoteFilePanelStateCache keeps.  Names, selection, drag and drop, *)
(* scrolling and the delayed spinner are left out.                         *)
(***************************************************************************)
EXTENDS Integers, FiniteSetsExt

CONSTANTS
    Depth,          \* directories on the path
    MaxVersion,     \* bound: changes of one directory
    MaxLoads,       \* bound: listings and metadata asked for by one mounted panel
    MaxActs,        \* bound: acts of the user and the shell
    RestoredPath    \* path the workspace snapshot kept, or 0

ASSUME FilesAssumption == Depth \in Nat \ {0} /\ RestoredPath \in 0..Depth

Path == 1..Depth
Unlisted == -1

VARIABLES
    version,                    \* changes made to each directory
    tabHost,                    \* connection id of the tab, 1 temporary or 2 saved
    view,                       \* what the cache keeps of the tab
    panel,                      \* the mounted panel, or NoPanel
    refreshRequest, locateRequest,  \* [host, path] the shell asked for last, path 0 for none
    acts

filesVars == <<version, tabHost, view, panel, refreshRequest, locateRequest, acts>>

NoPanel == [mounted |-> FALSE]

FreshPanel(active, restored) ==
    [mounted |-> TRUE, active |-> active, restored |-> restored,
     latest |-> 0, loading |-> 0, requests |-> {},
     infos |-> 0, meta |-> [p \in Path |-> Unlisted], asked |-> [p \in Path |-> 0],
     generation |-> [p \in Path |-> 0], infoRequests |-> {}, hover |-> 0, shown |-> 0,
     refreshed |-> [p \in Path |-> 0],   \* history: version of each path when it was last refreshed
     terminal |-> 1]

FilesInit ==
    /\ version = [p \in Path |-> 0]
    /\ tabHost = 1
    /\ view = [listing |-> [p \in Path |-> Unlisted], expanded |-> {}, dir |-> Max({1, RestoredPath}),
               located |-> 0, follow |-> FALSE, cached |-> FALSE]
    /\ panel = NoPanel /\ acts = 0
    /\ refreshRequest = [tabHost |-> 1, path |-> 0] /\ locateRequest = [tabHost |-> 1, path |-> 0]

-----------------------------------------------------------------------------
(* What the functions of the panel do to s, the panel with its view.       *)

Panel == [panel |-> panel, view |-> view]

closeRemoteFileInfo(s) == [s EXCEPT !.panel.hover = 0, !.panel.shown = 0]

\* The part of loadDirectory before its await; upto is where a reveal goes on to.
Ask(s, p, upto) ==
    [s EXCEPT !.panel.latest = @ + 1, !.panel.loading = p,
              !.panel.requests = @ \cup {[path |-> p, upto |-> upto, id |-> s.panel.latest + 1,
                                          from |-> version[p], live |-> TRUE]}]

\* loadRevealPath: directories already listed are passed over.
loadFrom(s, p, upto) ==
    LET missing == {q \in p..upto : s.view.listing[q] = Unlisted}
    IN IF missing = {} THEN s ELSE Ask(s, Min(missing), upto)

\* Only what is cached or asked for has a generation to advance.
invalidateRemoteFileMetadataCache(s, p) ==
    LET P == s.panel
        affected == {q \in p..Depth : P.meta[q] # Unlisted \/ P.asked[q] # 0}
        Q == [P EXCEPT
                !.generation = [q \in Path |-> IF q \in affected THEN P.generation[q] + 1 ELSE P.generation[q]],
                !.meta = [q \in Path |-> IF q \in affected THEN Unlisted ELSE P.meta[q]],
                !.asked = [q \in Path |-> IF q \in affected THEN 0 ELSE P.asked[q]],
                !.refreshed = [q \in Path |-> IF q >= p THEN version[q] ELSE P.refreshed[q]]]
        t == [s EXCEPT !.panel = Q]
    IN IF s.panel.hover >= p \/ s.panel.shown >= p THEN closeRemoteFileInfo(t) ELSE t

forceLoad(s, p) == Ask(invalidateRemoteFileMetadataCache(s, p), p, p)

revealDirectoryPath(s, p, markLocated) ==
    LET seen == [s.view EXCEPT !.dir = p, !.located = IF markLocated THEN p ELSE 0,
                               !.expanded = @ \cup 2..p]
    IN loadFrom([s EXCEPT !.view = seen], 1, p)

LoadEffect(s) ==
    IF s.panel.restored # 0
    THEN revealDirectoryPath([s EXCEPT !.panel.restored = 0], s.panel.restored, FALSE)
    ELSE loadFrom(s, 1, 1)
RefreshEffect(s, h) ==
    IF refreshRequest.path # 0 /\ refreshRequest.tabHost = h THEN forceLoad(s, refreshRequest.path) ELSE s
LocateEffect(s, h) ==
    IF locateRequest.path # 0 /\ locateRequest.tabHost = h THEN revealDirectoryPath(s, locateRequest.path, FALSE) ELSE s
FollowEffect(s) ==
    IF s.view.follow /\ s.view.located # s.panel.terminal
    THEN revealDirectoryPath(s, s.panel.terminal, TRUE) ELSE s

\* The effects that a mount, an activation and a change of connection run, in their order.
Effects(s, h) ==
    IF s.panel.active THEN FollowEffect(LocateEffect(RefreshEffect(LoadEffect(s), h), h)) ELSE s

PanelIs(s) ==
    /\ s.panel.latest <= MaxLoads
    /\ panel' = s.panel /\ view' = s.view

Shell == UNCHANGED <<version, tabHost, refreshRequest, locateRequest>>
Usable == panel.mounted /\ panel.active

-----------------------------------------------------------------------------
(* Mounting and hiding *)

\* The layout effect caches the view at once: a restored path is revealed once, if ever.
MountPanel ==
    /\ ~panel.mounted
    /\ \E active \in BOOLEAN :
         PanelIs(Effects([panel |-> FreshPanel(active, IF view.cached THEN 0 ELSE RestoredPath),
                         view |-> [view EXCEPT !.cached = TRUE]], tabHost))
    /\ Shell

UnmountPanel == panel.mounted /\ panel' = NoPanel /\ UNCHANGED view /\ Shell

ShowPanel ==
    /\ panel.mounted /\ ~panel.active
    /\ PanelIs(Effects([Panel EXCEPT !.panel.active = TRUE], tabHost))
    /\ Shell

HidePanel ==
    /\ Usable
    /\ PanelIs([closeRemoteFileInfo(Panel) EXCEPT !.panel.active = FALSE])
    /\ Shell

ConnectionChanged(s) ==
    [closeRemoteFileInfo(s) EXCEPT
        !.panel.latest = @ + 1, !.panel.loading = 0,
        !.panel.requests = {[r EXCEPT !.live = FALSE] : r \in @},
        !.panel.infoRequests = {[r EXCEPT !.live = FALSE] : r \in @},
        !.panel.meta = [p \in Path |-> Unlisted], !.panel.asked = [p \in Path |-> 0],
        !.panel.generation = [p \in Path |-> 0]]

\* A temporary connection is saved: its tab goes on with another connection id.
SaveTemporary ==
    /\ tabHost = 1 /\ tabHost' = 2
    /\ IF panel.mounted THEN PanelIs(Effects(ConnectionChanged(Panel), 2)) ELSE UNCHANGED <<panel, view>>
    /\ UNCHANGED <<version, refreshRequest, locateRequest>>

-----------------------------------------------------------------------------
(* The user and the shell *)

navigateToPath(p) == Usable /\ PanelIs(revealDirectoryPath(Panel, p, FALSE)) /\ Shell

revealTerminalDirectory == Usable /\ PanelIs(revealDirectoryPath(Panel, panel.terminal, TRUE)) /\ Shell

collapseExpandedDirectories ==
    /\ Usable /\ view.expanded # {}
    /\ PanelIs([Panel EXCEPT !.view.expanded = {}, !.view.dir = 1]) /\ Shell

toggleFollow ==
    /\ Usable
    /\ LET s == [Panel EXCEPT !.view.follow = ~@] IN PanelIs(FollowEffect(s))
    /\ Shell

renderBlankMenu == Usable /\ PanelIs(forceLoad(Panel, view.dir)) /\ Shell

\* The toolbar: each button asks for a connection, some for something to act on.
Toolbar ==
    \/ \E p \in Path : navigateToPath(p)
    \/ renderBlankMenu \/ revealTerminalDirectory \/ toggleFollow \/ collapseExpandedDirectories

Row(p) == p > 1 /\ view.listing[p - 1] # Unlisted /\ (p = 2 \/ p - 1 \in view.expanded)

toggleDirectory(p) ==
    /\ Usable /\ Row(p)
    /\ LET s == [Panel EXCEPT !.view.dir = p, !.view.located = 0,
                              !.view.expanded = IF p \in @ THEN @ \ {p} ELSE @ \cup {p}]
       IN PanelIs(IF p \in view.expanded THEN s ELSE loadFrom(s, p, p))
    /\ Shell

DirectoryMenu(p) ==
    /\ Usable /\ Row(p)
    /\ PanelIs(forceLoad([Panel EXCEPT !.view.expanded = @ \cup {p}], p))
    /\ Shell

TerminalMoves(p) ==
    /\ panel.mounted /\ p # panel.terminal
    /\ LET s == [Panel EXCEPT !.panel.terminal = p]
       IN PanelIs(IF panel.active THEN FollowEffect(s) ELSE s)
    /\ Shell

\* A request of an earlier connection id is still there after the tab's is saved.
triggerRemoteFileRefresh(p) ==
    /\ refreshRequest' = [tabHost |-> tabHost, path |-> p]
    /\ IF Usable THEN PanelIs(forceLoad(Panel, p)) ELSE UNCHANGED <<panel, view>>
    /\ UNCHANGED <<version, tabHost, locateRequest>>

triggerRemoteFileLocate(p) ==
    /\ locateRequest' = [tabHost |-> tabHost, path |-> p]
    /\ IF Usable THEN PanelIs(revealDirectoryPath(Panel, p, FALSE)) ELSE UNCHANGED <<panel, view>>
    /\ UNCHANGED <<version, tabHost, refreshRequest>>

HostChanges(p) ==
    /\ version[p] < MaxVersion /\ version' = [version EXCEPT ![p] = @ + 1]
    /\ UNCHANGED <<tabHost, view, panel, refreshRequest, locateRequest>>

-----------------------------------------------------------------------------
(* Answers *)

canApplyDirectoryResponse(r, latestOnly) == r.live /\ (latestOnly => r.id = panel.latest)

\* What follows the await of loadDirectory, then the next directory of a reveal, which is
\* asked for in the scope of now.
DirectoryReturns(r, answer) ==
    /\ panel.mounted /\ r \in panel.requests
    /\ LET settled == [panel EXCEPT
                         !.requests = @ \ {r},
                         !.loading = IF canApplyDirectoryResponse(r, TRUE) THEN 0 ELSE @]
           listing == [view.listing EXCEPT
                         ![r.path] = IF answer # Unlisted /\ canApplyDirectoryResponse(r, FALSE) THEN answer ELSE @]
       IN PanelIs(loadFrom([panel |-> settled, view |-> [view EXCEPT !.listing = listing]], r.path + 1, r.upto))
    /\ Shell

\* The pointer rests on a row: a tooltip opens with what is cached, or asks.
scheduleRemoteFileInfo(p) ==
    /\ Usable /\ Row(p)
    /\ PanelIs([Panel EXCEPT !.panel.hover = p])
    /\ Shell

beginRemoteFileInfoLoad ==
    /\ Usable /\ panel.hover # 0
    /\ LET p == panel.hover
           n == panel.infos + 1
           tip == [panel EXCEPT !.hover = 0, !.shown = p]
           new == [path |-> p, id |-> n, from |-> version[p], generation |-> panel.generation[p], live |-> TRUE]
       IN IF panel.meta[p] # Unlisted \/ panel.asked[p] # 0 THEN PanelIs([panel |-> tip, view |-> view])
          ELSE /\ panel.infos < MaxLoads
               /\ PanelIs([panel |-> [tip EXCEPT !.infos = n, !.asked = [panel.asked EXCEPT ![p] = n],
                                                 !.infoRequests = panel.infoRequests \cup {new}],
                           view |-> view])
    /\ Shell

InfoReturns_AnyGeneration(r, answer) ==
    /\ panel.mounted /\ r \in panel.infoRequests
    /\ PanelIs([Panel EXCEPT
         !.panel.infoRequests = @ \ {r},
         !.panel.meta[r.path] = IF r.live THEN answer ELSE @,
         !.panel.asked[r.path] = IF @ = r.id THEN 0 ELSE @])
    /\ Shell

\* An error is cached as an answer is.
InfoReturns(r, answer) ==
    /\ panel.mounted /\ r \in panel.infoRequests
    /\ PanelIs([Panel EXCEPT
         !.panel.infoRequests = @ \ {r},
         !.panel.meta[r.path] = IF r.live /\ panel.generation[r.path] = r.generation THEN answer ELSE @,
         !.panel.asked[r.path] = IF @ = r.id THEN 0 ELSE @])
    /\ Shell

CloseTooltip ==
    /\ Usable /\ (panel.hover # 0 \/ panel.shown # 0)
    /\ PanelIs(closeRemoteFileInfo(Panel)) /\ Shell

FilesAct ==
    \/ MountPanel \/ UnmountPanel \/ ShowPanel \/ HidePanel \/ SaveTemporary \/ Toolbar \/ CloseTooltip
    \/ \E p \in Path : \/ toggleDirectory(p) \/ DirectoryMenu(p) \/ TerminalMoves(p) \/ HostChanges(p)
                       \/ triggerRemoteFileRefresh(p) \/ triggerRemoteFileLocate(p) \/ scheduleRemoteFileInfo(p)

FilesAnswer ==
    \/ beginRemoteFileInfoLoad
    \/ /\ panel.mounted
       /\ \/ \E r \in panel.requests : \E a \in {Unlisted} \cup r.from..version[r.path] : DirectoryReturns(r, a)
          \/ \E r \in panel.infoRequests : \E a \in r.from..version[r.path] : InfoReturns(r, a)

FilesNext ==
    \/ acts < MaxActs /\ acts' = acts + 1 /\ FilesAct
    \/ UNCHANGED acts /\ FilesAnswer

FilesSpec == FilesInit /\ [][FilesNext]_filesVars

-----------------------------------------------------------------------------
\* A directory shown as loading is being loaded: the latest request is on its way and is the
\* one that will clear it, whatever reveals, refreshes and changes of the connection overlap.
LoadingIsAsked ==
    panel.mounted /\ panel.loading # 0 =>
        \E r \in panel.requests : r.live /\ r.id = panel.latest /\ r.path = panel.loading

\* Metadata shown or cached is never older than the last refresh of its directory, although
\* a request made before the refresh may be answered after it.
MetadataIsFresh ==
    panel.mounted => \A p \in Path : panel.meta[p] # Unlisted => panel.meta[p] >= panel.refreshed[p]

\* Both: what the panel says of the host is still being asked, or not yet out of date.
FilesAreCurrent == LoadingIsAsked /\ MetadataIsFresh
=============================================================================

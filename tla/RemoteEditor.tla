---------------------------- MODULE RemoteEditor ----------------------------
(***************************************************************************)
(* The tab of a remote file (WorkspaceShell.tsx, RemoteFileEditor.tsx),    *)
(* the reads and writes it has in flight, and the file on the host, which  *)
(* others change too.  A write is three steps on the host: the check of    *)
(* the expected version, the write, and the look at the new version        *)
(* (remote_files.rs, write_file).  Tabs of several files do not meet but   *)
(* when many are closed or deleted at once, so one file is modelled; its   *)
(* path, which a rename changes, is the id its tab is found by.            *)
(***************************************************************************)
EXTENDS Naturals, FiniteSets

CONSTANTS
    Paths,      \* the paths the file can have
    FirstPath,      \* the one it has at first
    Texts,      \* contents a user types or finds
    Blank,      \* the content of a tab whose load failed
    OthersTexts, \* of these, the ones others write to the file
    Versions,   \* versions of a file: its mtime in whole seconds and its size
    MaxReads,   \* bound on the reads in flight for a path
    MaxWrites,  \* bound on the writes in flight
    NoTab

ASSUME PathsAssumption == FirstPath \in Paths
ASSUME TextsAssumption == Blank \in Texts /\ OthersTexts \subseteq Texts
ASSUME BoundsAssumption == MaxReads \in Nat \ {0} /\ MaxWrites \in Nat \ {0}

VARIABLES
    name,       \* the path of the file; NoTab once deleted
    file,       \* its version and text
    foreign,    \* history: others changed it, outside any write, since the tab read it,
                \* and its version is none that the editor holds
    tab,        \* the tab of the file
    reads,      \* number of remote_file_read calls in flight by tab id
    writes,     \* remote_file_write calls in flight
    closing,    \* pendingRemoteFileCloseId
    conflict,   \* pendingRemoteFileConflictId
    renaming,   \* the path a rename in flight leads to, behind its dialog
    deleting,   \* the delete dialog; once confirmed, the tab it saw
    crossed     \* history: a rename or a delete overlapped a read or a write

host == <<name, file, foreign>>
dialogs == <<closing, conflict, renaming, deleting>>
editorVars == <<host, tab, reads, writes, dialogs, crossed>>

States == {"loading", "ready", "dirty", "saving", "saved", "conflict", "error"}
Tab == [id : Paths, content : Texts, saved : Texts, dirty : BOOLEAN, state : States,
        version : Versions \cup {NoTab}]
Write == [id : Paths, text : Texts, version : Versions, overwrite : BOOLEAN,
          step : {"check", "put", "stat"}]
Deletion == [confirmed : {FALSE}] \cup [confirmed : {TRUE}, seen : Tab \cup {NoTab}]

ASSUME NoTabAssumption == NoTab \notin Paths \cup Versions \cup Tab \cup Deletion

EditorInit ==
    /\ name = FirstPath /\ foreign = FALSE
    /\ \E v \in Versions, t \in Texts \ {Blank} : file = [version |-> v, text |-> t]
    /\ tab = NoTab
    /\ reads = [p \in Paths |-> 0] /\ writes = {}
    /\ closing = NoTab /\ conflict = NoTab /\ renaming = NoTab /\ deleting = NoTab
    /\ crossed = FALSE

HasTab == tab # NoTab
IsTab(p) == HasTab /\ tab.id = p

(* A response for a tab that is gone, or has another id, changes nothing.  *)
updateRemoteFileTab(p, t) == tab' = IF IsTab(p) THEN t ELSE tab

(* The dialogs are modal: behind one the editor takes no input.            *)
Modal == \/ HasTab /\ tab.id \in {closing, conflict}
         \/ renaming # NoTab
         \/ deleting # NoTab

-----------------------------------------------------------------------------
(* The editor. *)

openRemoteFile ==
    /\ ~Modal /\ ~HasTab /\ name # NoTab /\ reads[name] < MaxReads
    /\ tab' = [id |-> name, content |-> Blank, saved |-> Blank, dirty |-> FALSE,
               state |-> "loading", version |-> NoTab]
    /\ reads' = [reads EXCEPT ![name] = @ + 1]
    /\ UNCHANGED <<host, writes, dialogs>>

(* Monaco reports every change, in any state of the tab.                   *)
handleRemoteFileChange(text) ==
    /\ ~Modal /\ HasTab /\ text # tab.content
    /\ tab' = [tab EXCEPT !.content = text, !.dirty = text # tab.saved,
                          !.state = IF text = tab.saved THEN "ready" ELSE "dirty"]
    /\ UNCHANGED <<host, reads, writes, dialogs>>

(* The button asks for a dirty tab; the shortcut does not.                 *)
saveRemoteFile(overwrite) ==
    /\ tab.version # NoTab /\ tab.state # "saving"
    /\ Cardinality(writes) < MaxWrites
    /\ tab' = [tab EXCEPT !.state = "saving"]
    /\ writes' = writes \cup {[id |-> tab.id, text |-> tab.content, version |-> tab.version,
                               overwrite |-> overwrite, step |-> "check"]}

Save ==
    /\ ~Modal /\ HasTab
    /\ saveRemoteFile(FALSE)
    /\ UNCHANGED <<host, reads, dialogs>>

reloadRemoteFile ==
    /\ reads[tab.id] < MaxReads
    /\ tab' = [tab EXCEPT !.state = "loading"]
    /\ reads' = [reads EXCEPT ![tab.id] = @ + 1]

Reload ==
    /\ ~Modal /\ HasTab /\ tab.state \notin {"loading", "saving"}
    /\ reloadRemoteFile
    /\ UNCHANGED <<host, writes, dialogs>>

discardRemoteFileChanges ==
    /\ ~Modal /\ HasTab /\ tab.dirty /\ tab.state # "saving"
    /\ tab' = [tab EXCEPT !.content = tab.saved, !.dirty = FALSE, !.state = "ready"]
    /\ UNCHANGED <<host, reads, writes, dialogs>>

-----------------------------------------------------------------------------
(* Closing.  A clean tab goes, a dirty one is asked about; of many, those  *)
(* that are dirty stay.                                                    *)

closeRemoteFileTabs ==
    /\ ~Modal /\ HasTab
    /\ IF tab.dirty THEN closing' = tab.id /\ UNCHANGED tab
                    ELSE tab' = NoTab /\ UNCHANGED closing
    /\ UNCHANGED <<host, reads, writes, conflict, renaming, deleting>>

AnswerClose(discard) ==
    /\ HasTab /\ closing = tab.id
    /\ tab' = IF discard THEN NoTab ELSE tab
    /\ closing' = NoTab
    /\ UNCHANGED <<host, reads, writes, conflict, renaming, deleting>>

(* The connection's session closes, confirmed by its own dialog.           *)
clearRemoteFileSessionStateForConnections ==
    /\ ~Modal /\ HasTab
    /\ tab' = NoTab
    /\ closing' = NoTab /\ conflict' = NoTab
    /\ UNCHANGED <<host, reads, writes, renaming, deleting>>

AnswerConflict(choice) ==
    /\ HasTab /\ conflict = tab.id
    /\ \/ choice = "reload" /\ reloadRemoteFile /\ UNCHANGED writes
       \/ choice = "overwrite" /\ saveRemoteFile(TRUE) /\ UNCHANGED reads
       \/ choice = "cancel" /\ UNCHANGED <<tab, reads, writes>>
    /\ conflict' = NoTab
    /\ UNCHANGED <<host, closing, renaming, deleting>>

-----------------------------------------------------------------------------
(* Responses.  They reach the tab by the id it had when they were asked.   *)

ReadReturns(p) ==
    /\ reads[p] > 0 /\ p = name
    /\ reads' = [reads EXCEPT ![p] = @ - 1]
    /\ updateRemoteFileTab(p, [id |-> p, content |-> file.text, saved |-> file.text,
                               dirty |-> FALSE, state |-> "ready", version |-> file.version])
    /\ foreign' = (foreign /\ ~IsTab(p))
    /\ UNCHANGED <<name, file, writes, dialogs>>

ReadFails_Silent(p) ==
    /\ reads[p] > 0
    /\ reads' = [reads EXCEPT ![p] = @ - 1]
    /\ UNCHANGED <<host, tab, writes, dialogs>>

ReadFails(p) ==
    /\ reads[p] > 0
    /\ reads' = [reads EXCEPT ![p] = @ - 1]
    /\ updateRemoteFileTab(p, [tab EXCEPT !.content = Blank, !.dirty = FALSE, !.state = "error"])
    /\ UNCHANGED <<host, writes, dialogs>>

(* The host's version against the one the tab has.  A change within the    *)
(* same second that keeps the size, or one whose mtime was set back, is    *)
(* not seen.                                                               *)
check_write_version(w) == w.overwrite \/ file.version = w.version

WriteChecked(w) ==
    /\ w.step = "check" /\ w.id = name /\ check_write_version(w)
    /\ writes' = (writes \ {w}) \cup {[w EXCEPT !.step = "put"]}
    /\ UNCHANGED <<host, tab, reads, dialogs>>

(* A file that was moved away meanwhile is created again at the old path,  *)
(* where no tab looks for it.                                              *)
WritePut(w) ==
    /\ w.step = "put"
    /\ IF w.id = name
       THEN /\ \E v \in Versions : file' = [version |-> v, text |-> w.text]
            /\ foreign' = (foreign /\ ~w.overwrite)
       ELSE UNCHANGED <<file, foreign>>
    /\ writes' = (writes \ {w}) \cup {[w EXCEPT !.step = "stat"]}
    /\ UNCHANGED <<name, tab, reads, dialogs>>

(* The tab takes its current content for what was saved.                   *)
WriteReturns(w) ==
    /\ w.step = "stat"
    /\ updateRemoteFileTab(w.id, [tab EXCEPT !.dirty = FALSE, !.saved = tab.content,
                                             !.version = file.version, !.state = "saved"])
    /\ writes' = writes \ {w}
    /\ UNCHANGED <<host, reads, dialogs>>

WriteConflicts_NewVersion(w) ==
    /\ w.step = "check" /\ w.id = name /\ ~check_write_version(w)
    /\ updateRemoteFileTab(w.id, [tab EXCEPT !.state = "conflict", !.version = file.version])
    /\ conflict' = w.id
    /\ writes' = writes \ {w}
    /\ UNCHANGED <<host, reads, closing, renaming, deleting>>

WriteConflicts(w) ==
    /\ w.step = "check" /\ w.id = name /\ ~check_write_version(w)
    /\ updateRemoteFileTab(w.id, [tab EXCEPT !.state = "conflict"])
    /\ conflict' = w.id
    /\ writes' = writes \ {w}
    /\ UNCHANGED <<host, reads, closing, renaming, deleting>>

WriteFails(w) ==
    /\ updateRemoteFileTab(w.id, [tab EXCEPT !.state = "error"])
    /\ writes' = writes \ {w}
    /\ UNCHANGED <<host, reads, dialogs>>

-----------------------------------------------------------------------------
(* Rename and delete.  The rename keeps the tab's content under its new    *)
(* id, and what is in flight keeps the old one.  The dialog of a rename is *)
(* taken to stay open until it returns, and the file is renamed once.      *)

submitRename(p) ==
    /\ ~Modal /\ name = FirstPath /\ p # FirstPath
    /\ renaming' = p
    /\ UNCHANGED <<host, tab, reads, writes, closing, conflict, deleting>>

renameRemoteFileTabs ==
    /\ renaming # NoTab
    /\ name' = renaming
    /\ tab' = IF IsTab(name) THEN [tab EXCEPT !.id = renaming] ELSE tab
    /\ renaming' = NoTab
    /\ UNCHANGED <<file, foreign, reads, writes, closing, conflict, deleting>>

RenameFails ==
    /\ renaming # NoTab
    /\ renaming' = NoTab
    /\ UNCHANGED <<host, tab, reads, writes, closing, conflict, deleting>>

requestDeleteRemoteEntries ==
    /\ ~Modal /\ name # NoTab
    /\ deleting' = [confirmed |-> FALSE]
    /\ UNCHANGED <<host, tab, reads, writes, closing, conflict, renaming>>

(* Confirmed: the handler deletes the entries one after the other and goes *)
(* on with the tabs of the render it was made in.  The tab may be that of  *)
(* a deleted entry, or of another one.                                     *)
AnswerDelete(confirm) ==
    /\ deleting # NoTab /\ ~deleting.confirmed
    /\ deleting' = IF confirm THEN [confirmed |-> TRUE, seen |-> tab] ELSE NoTab
    /\ UNCHANGED <<host, tab, reads, writes, closing, conflict, renaming>>

confirmRemoteFileDelete(ours) ==
    /\ deleting # NoTab /\ deleting.confirmed
    /\ name' = IF ours THEN NoTab ELSE name
    /\ tab' = IF ours THEN NoTab ELSE deleting.seen
    /\ closing' = IF tab' = NoTab THEN NoTab ELSE closing
    /\ conflict' = IF tab' = NoTab THEN NoTab ELSE conflict
    /\ deleting' = NoTab
    /\ UNCHANGED <<file, foreign, reads, writes, renaming>>

(* An entry cannot be deleted: the error is logged, the dialog closes, and *)
(* the tabs stay, also those of entries deleted before it.                 *)
DeleteFails(ours) ==
    /\ deleting # NoTab /\ deleting.confirmed
    /\ name' = IF ours THEN NoTab ELSE name
    /\ deleting' = NoTab
    /\ UNCHANGED <<file, foreign, tab, reads, writes, closing, conflict, renaming>>

(* The versions the editor compares with: its tab's, that of the tab a     *)
(* delete may put back, and those of the writes in flight.                 *)
Compared(v) ==
    \/ HasTab /\ tab.version = v
    \/ deleting # NoTab /\ deleting.confirmed /\ deleting.seen # NoTab /\ deleting.seen.version = v
    \/ \E w \in writes : w.version = v

(* Someone else changes the file: its second may be that of an earlier     *)
(* change and its size the same, so that the version is an old one.        *)
OthersWrite(text) ==
    /\ name # NoTab
    /\ \E v \in Versions :
        /\ file' = [version |-> v, text |-> text]
        /\ foreign' = (~Compared(v) /\ (foreign \/ writes = {}))
    /\ UNCHANGED <<name, tab, reads, writes, dialogs>>

-----------------------------------------------------------------------------
Read(p) == ReadReturns(p) \/ ReadFails(p)
Written(w) == WriteChecked(w) \/ WritePut(w) \/ WriteReturns(w) \/ WriteConflicts(w) \/ WriteFails(w)
Renamed == renameRemoteFileTabs \/ RenameFails
Deleted == \E ours \in BOOLEAN : confirmRemoteFileDelete(ours) \/ DeleteFails(ours)

Moving == renaming # NoTab \/ (deleting # NoTab /\ deleting.confirmed)
InFlight == writes # {} \/ \E p \in Paths : reads[p] > 0

EditorNext ==
    /\ \/ openRemoteFile \/ Save \/ Reload \/ discardRemoteFileChanges
       \/ closeRemoteFileTabs \/ clearRemoteFileSessionStateForConnections
       \/ \E text \in Texts : handleRemoteFileChange(text)
       \/ \E text \in OthersTexts : OthersWrite(text)
       \/ \E p \in Paths : Read(p) \/ submitRename(p)
       \/ \E yes \in BOOLEAN : AnswerClose(yes) \/ AnswerDelete(yes)
       \/ \E choice \in {"reload", "overwrite", "cancel"} : AnswerConflict(choice)
       \/ \E w \in writes : Written(w)
       \/ requestDeleteRemoteEntries \/ Renamed \/ Deleted
    /\ crossed' = (crossed \/ (Moving' /\ InFlight'))

EditorSpec == EditorInit /\ [][EditorNext]_editorVars

-----------------------------------------------------------------------------
EditorTypeOK ==
    /\ name \in Paths \cup {NoTab} /\ file \in [version : Versions, text : Texts]
    /\ foreign \in BOOLEAN
    /\ tab \in Tab \cup {NoTab}
    /\ reads \in [Paths -> 0 .. MaxReads] /\ writes \subseteq Write
    /\ closing \in Paths \cup {NoTab} /\ conflict \in Paths \cup {NoTab}
    /\ renaming \in Paths \cup {NoTab} /\ deleting \in Deletion \cup {NoTab}
    /\ crossed \in BOOLEAN

(* A change someone else made while nothing was being written, and that    *)
(* the host's version tells from what the editor has, is never written     *)
(* over unless the user chose to, however saves, reloads, renames, deletes *)
(* and conflicts follow each other.                                        *)
NoBlindOverwrite ==
    [][\A w \in writes :
          w.step = "put" /\ w.id = name /\ ~w.overwrite /\ WritePut(w) => ~foreign]_editorVars

(* A tab in "loading" or "saving", where its buttons are dead, has a       *)
(* request in flight whose answer will find it, however reads, saves,      *)
(* conflicts and closes overlap.  Except once a rename, which changes the  *)
(* id the answer looks for, or a delete, which puts back the tabs as they  *)
(* were when it was confirmed, has overlapped a request.                   *)
WaitingIsServed ==
    HasTab /\ tab.state \in {"loading", "saving"} =>
        crossed \/ reads[tab.id] > 0 \/ \E w \in writes : w.id = tab.id

(* "so unsaved edits are not silently lost": where nobody else writes, a   *)
(* tab shown as saved, at the version the host has, shows the host's text. *)
SavedIsOnHost ==
    HasTab /\ tab.state = "saved" /\ tab.id = name /\ tab.version = file.version => tab.content = file.text
=============================================================================

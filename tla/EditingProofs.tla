---------------------------- MODULE EditingProofs ---------------------------
(***************************************************************************)
(* Safety of the two places where the user edits what is stored elsewhere: *)
(* the tab of a remote file and the dialog of a connection.  Each section  *)
(* gives the inductive invariant of one component, one lemma per kind of   *)
(* step, and its two theorems, for every value of the constants.           *)
(*                                                                         *)
(* The editor never waits for a call that is not on its way, and never     *)
(* writes over a change of the host that its user has not seen.            *)
(*                                                                         *)
(* The dialog never leaves a connection without the password it logs in    *)
(* with, and what its form shows, trimmed, is what a save stores.  The     *)
(* first needs that a row refers to a secret only when it logs in with one *)
(* (SecretsOK): a save without a text keeps a password only from a row     *)
(* that has one.  The second also needs that the vault holds trimmed texts *)
(* and ShownOK: a text the user has not touched is a stored secret that    *)
(* was revealed, until a save or a delete is done, whose answer closes the *)
(* dialog.                                                                 *)
(***************************************************************************)
EXTENDS RemoteEditor, ConnectionForm, TLAPS

-----------------------------------------------------------------------------
(* The remote editor.                                                      *)


Waiting(t) == t.state \in {"loading", "saving"}

\* x is the tab, or the tab as a delete under way saw it and may put it back.
Copy(x) == x = tab \/ (deleting # NoTab /\ deleting.confirmed /\ x = deleting.seen)

\* A rename or a delete that overlaps a request is remembered, and so is one that will put back
\* a tab that waits.
CrossedOK ==
    /\ Moving /\ InFlight => crossed
    /\ deleting # NoTab /\ deleting.confirmed /\ deleting.seen # NoTab /\ Waiting(deleting.seen) => crossed

\* Until it is renamed, the file has one path and everything about it carries that path; what
\* is in flight during the rename never matches the new one.
NamesOK ==
    /\ name = FirstPath => /\ \A x \in Tab : Copy(x) => x.id = FirstPath
                           /\ \A w \in writes : w.id = FirstPath
    /\ renaming # NoTab => name = FirstPath /\ renaming # FirstPath /\ deleting = NoTab

\* Once others changed the file visibly, no tab, shown or to be put back, has its version.
VersionsOK ==
    \A x \in Tab : Copy(x) /\ foreign /\ x.id = name => x.version # file.version

\* While such a change stands, a write that may go through was the user's choice, and the others
\* have their check before them and will fail it.
WritesOK ==
    foreign => \A w \in writes :
        w.id = name => /\ w.step # "stat"
                       /\ ~w.overwrite => w.step = "check" /\ w.version # file.version

EditorInv == EditorTypeOK /\ CrossedOK /\ NamesOK /\ VersionsOK /\ WritesOK /\ WaitingIsServed

LEMMA TabIs ==
    \A x \in Tab : /\ x.id \in Paths /\ x.content \in Texts /\ x.saved \in Texts /\ x.dirty \in BOOLEAN
                   /\ x.state \in States /\ x.version \in Versions \cup {NoTab}
BY DEF Tab

LEMMA WriteIs ==
    \A w \in Write : /\ w.id \in Paths /\ w.text \in Texts /\ w.version \in Versions /\ w.overwrite \in BOOLEAN
                     /\ w.step \in {"check", "put", "stat"}
BY DEF Write

\* A write goes on to its next step.
LEMMA WriteMoves ==
    ASSUME EditorTypeOK, NEW w \in writes, NEW st \in {"put", "stat"},
           writes' = (writes \ {w}) \cup {[w EXCEPT !.step = st]}
    PROVE  \E v \in Write : /\ writes' = (writes \ {w}) \cup {v}
                            /\ v.id = w.id /\ v.version = w.version /\ v.overwrite = w.overwrite /\ v.step = st
<1> DEFINE v == [w EXCEPT !.step = st]
<1>1. w \in Write
    BY DEF EditorTypeOK
<1>2. v \in Write /\ v.id = w.id /\ v.version = w.version /\ v.overwrite = w.overwrite /\ v.step = st
    BY <1>1 DEF Write
<1> HIDE DEF v
<1>3. writes' = (writes \ {w}) \cup {v}
    BY DEF v
<1> QED BY <1>2, <1>3

LEMMA DeletionIs ==
    /\ \A d \in Deletion : d.confirmed \in BOOLEAN /\ (d.confirmed => d.seen \in Tab \cup {NoTab})
    /\ [confirmed |-> FALSE] \in Deletion /\ ~[confirmed |-> FALSE].confirmed
    /\ \A x \in Tab \cup {NoTab} :
          /\ [confirmed |-> TRUE, seen |-> x] \in Deletion
          /\ [confirmed |-> TRUE, seen |-> x].confirmed /\ [confirmed |-> TRUE, seen |-> x].seen = x
BY DEF Deletion

\* What saveRemoteFile sends.
LEMMA SaveSends ==
    ASSUME EditorTypeOK, HasTab, NEW overwrite \in BOOLEAN, saveRemoteFile(overwrite)
    PROVE  /\ tab \in Tab /\ tab' \in Tab /\ tab.version \in Versions
           /\ tab'.id = tab.id /\ tab'.version = tab.version /\ tab'.state = "saving"
           /\ \E w \in Write : /\ writes' = writes \cup {w}
                               /\ w.id = tab.id /\ w.version = tab.version /\ w.overwrite = overwrite /\ w.step = "check"
<1>1. tab \in Tab /\ tab.version \in Versions
    BY TabIs DEF EditorTypeOK, HasTab, saveRemoteFile
<1>2. tab' \in Tab /\ tab'.id = tab.id /\ tab'.version = tab.version /\ tab'.state = "saving"
    BY <1>1 DEF saveRemoteFile, Tab, States
<1> DEFINE w == [id |-> tab.id, text |-> tab.content, version |-> tab.version, overwrite |-> overwrite, step |-> "check"]
<1>3. w \in Write
    BY <1>1, TabIs DEF Write
<1>4. writes' = writes \cup {w}
    BY DEF saveRemoteFile
<1>5. w.id = tab.id /\ w.version = tab.version /\ w.overwrite = overwrite /\ w.step = "check"
    OBVIOUS
<1> HIDE DEF w
<1> QED BY <1>1, <1>2, <1>3, <1>4, <1>5

\* A reload asks once more for the path of the tab.
LEMMA ReloadAsks ==
    ASSUME EditorTypeOK, HasTab, reloadRemoteFile
    PROVE  /\ tab \in Tab /\ tab' \in Tab
           /\ tab'.id = tab.id /\ tab'.version = tab.version
           /\ reads' \in [Paths -> 0 .. MaxReads] /\ reads'[tab.id] > 0
           /\ \A p \in Paths : reads'[p] >= reads[p]
<1>1. tab \in Tab /\ tab.id \in Paths
    BY TabIs DEF EditorTypeOK, HasTab
<1>2. tab' \in Tab /\ tab'.id = tab.id /\ tab'.version = tab.version
    BY <1>1 DEF reloadRemoteFile, Tab, States
<1>3. reads[tab.id] < MaxReads /\ reads' = [reads EXCEPT ![tab.id] = @ + 1] /\ reads \in [Paths -> 0 .. MaxReads]
    BY DEF reloadRemoteFile, EditorTypeOK
<1> QED BY <1>1, <1>2, <1>3, BoundsAssumption

LEMMA EditorType == EditorTypeOK /\ [EditorNext]_editorVars => EditorTypeOK'
<1> SUFFICES ASSUME EditorTypeOK, [EditorNext]_editorVars PROVE EditorTypeOK'
    OBVIOUS
<1> USE PathsAssumption, TextsAssumption, BoundsAssumption, NoTabAssumption DEF EditorTypeOK, host, dialogs, HasTab
<1>b. crossed' \in BOOLEAN
  <2>1. CASE UNCHANGED editorVars
        BY <2>1 DEF editorVars
  <2>2. CASE EditorNext
        BY <2>2, Zenon DEF EditorNext
  <2> QED BY <2>1, <2>2
<1>1. ASSUME openRemoteFile PROVE EditorTypeOK'
  <2>1. tab' \in Tab \cup {NoTab}
        BY <1>1 DEF openRemoteFile, Tab, States
  <2> QED BY <1>b, <1>1, <2>1 DEF openRemoteFile
<1>2. ASSUME Save PROVE EditorTypeOK'
  <2>1. saveRemoteFile(FALSE) /\ HasTab /\ UNCHANGED <<host, reads, dialogs>>
        BY <1>2 DEF Save
  <2> QED BY <1>b, <2>1, SaveSends
<1>3. ASSUME Reload PROVE EditorTypeOK'
  <2>1. reloadRemoteFile /\ HasTab /\ UNCHANGED <<host, writes, dialogs>>
        BY <1>3 DEF Reload
  <2> QED BY <1>b, <2>1, ReloadAsks
<1>4. ASSUME discardRemoteFileChanges PROVE EditorTypeOK'
  <2>1. tab' \in Tab \cup {NoTab}
        BY <1>4 DEF discardRemoteFileChanges, Tab, States
  <2> QED BY <1>b, <1>4, <2>1 DEF discardRemoteFileChanges
<1>5. ASSUME closeRemoteFileTabs PROVE EditorTypeOK'
    BY <1>b, <1>5, TabIs DEF closeRemoteFileTabs
<1>6. ASSUME clearRemoteFileSessionStateForConnections PROVE EditorTypeOK'
  <2>1. tab' \in Tab \cup {NoTab}
        BY <1>6 DEF clearRemoteFileSessionStateForConnections, Tab, States
  <2> QED BY <1>b, <1>6, <2>1 DEF clearRemoteFileSessionStateForConnections
<1>7. ASSUME NEW text \in Texts, handleRemoteFileChange(text) PROVE EditorTypeOK'
  <2>1. tab' \in Tab \cup {NoTab}
        BY <1>7 DEF handleRemoteFileChange, Tab, States
  <2> QED BY <1>b, <1>7, <2>1 DEF handleRemoteFileChange
<1>8. ASSUME NEW text \in Texts, OthersWrite(text) PROVE EditorTypeOK'
  <2>1. tab' \in Tab \cup {NoTab}
        BY <1>8 DEF OthersWrite, Tab, States
  <2> QED BY <1>b, <1>8, <2>1 DEF OthersWrite
<1>9. ASSUME NEW p \in Paths, ReadReturns(p) PROVE EditorTypeOK'
  <2>1. tab' \in Tab \cup {NoTab}
        BY <1>9 DEF ReadReturns, updateRemoteFileTab, IsTab, Tab, States
  <2> QED BY <1>b, <1>9, <2>1 DEF ReadReturns, updateRemoteFileTab, IsTab
<1>10. ASSUME NEW p \in Paths, ReadFails(p) PROVE EditorTypeOK'
  <2>1. tab' \in Tab \cup {NoTab}
        BY <1>10 DEF ReadFails, updateRemoteFileTab, IsTab, Tab, States
  <2> QED BY <1>b, <1>10, <2>1 DEF ReadFails, updateRemoteFileTab, IsTab
<1>11. ASSUME NEW p \in Paths, submitRename(p) PROVE EditorTypeOK'
  <2>1. tab' \in Tab \cup {NoTab}
        BY <1>11 DEF submitRename, Tab, States
  <2> QED BY <1>b, <1>11, <2>1 DEF submitRename
<1>12. ASSUME NEW yes \in BOOLEAN, AnswerClose(yes) PROVE EditorTypeOK'
  <2>1. tab' \in Tab \cup {NoTab}
        BY <1>12 DEF AnswerClose, Tab, States
  <2> QED BY <1>b, <1>12, <2>1 DEF AnswerClose
<1>13. ASSUME NEW yes \in BOOLEAN, AnswerDelete(yes) PROVE EditorTypeOK'
    BY <1>b, <1>13, DeletionIs DEF AnswerDelete
<1>14. ASSUME NEW choice \in {"reload", "overwrite", "cancel"}, AnswerConflict(choice) PROVE EditorTypeOK'
  <2>0. HasTab /\ conflict' = NoTab /\ UNCHANGED <<host, closing, renaming, deleting>>
        BY <1>14 DEF AnswerConflict
  <2>1. CASE reloadRemoteFile /\ UNCHANGED writes
        BY <1>b, <2>0, <2>1, ReloadAsks
  <2>2. CASE saveRemoteFile(TRUE) /\ UNCHANGED reads
        BY <1>b, <2>0, <2>2, SaveSends
  <2>3. CASE UNCHANGED <<tab, reads, writes>>
        BY <1>b, <2>0, <2>3
  <2> QED BY <1>14, <2>1, <2>2, <2>3 DEF AnswerConflict
<1>15. ASSUME NEW w \in writes, WriteChecked(w) PROVE EditorTypeOK'
  <2>1. writes' = (writes \ {w}) \cup {[w EXCEPT !.step = "put"]} /\ UNCHANGED <<host, tab, reads, dialogs>>
        BY <1>15 DEF WriteChecked
  <2>2. writes' \subseteq Write
        BY <2>1, WriteMoves
  <2> QED BY <1>b, <2>1, <2>2
<1>16. ASSUME NEW w \in writes, WritePut(w) PROVE EditorTypeOK'
  <2>1. file' \in [version : Versions, text : Texts]
    <3>1. w.text \in Texts
          BY WriteIs
    <3>2. w.id = name => \E v \in Versions : file' = [version |-> v, text |-> w.text]
          BY <1>16, Zenon DEF WritePut
    <3>3. w.id # name => file' = file
          BY <1>16, Zenon DEF WritePut
    <3> QED BY <3>1, <3>2, <3>3
  <2>2. foreign' \in BOOLEAN
        BY <1>16, Zenon DEF WritePut
  <2>3. writes' \subseteq Write
    <3>1. writes' = (writes \ {w}) \cup {[w EXCEPT !.step = "stat"]}
          BY <1>16 DEF WritePut
    <3> QED BY <3>1, WriteMoves
  <2>4. UNCHANGED <<name, tab, reads, dialogs>>
        BY <1>16 DEF WritePut
  <2> QED BY <1>b, <2>1, <2>2, <2>3, <2>4
<1>17. ASSUME NEW w \in writes, WriteReturns(w) PROVE EditorTypeOK'
  <2>1. tab' \in Tab \cup {NoTab}
        BY <1>17 DEF WriteReturns, updateRemoteFileTab, IsTab, Tab, States
  <2> QED BY <1>b, <1>17, <2>1 DEF WriteReturns, updateRemoteFileTab, IsTab
<1>18. ASSUME NEW w \in writes, WriteConflicts(w) PROVE EditorTypeOK'
  <2>1. tab' \in Tab \cup {NoTab}
        BY <1>18 DEF WriteConflicts, updateRemoteFileTab, IsTab, Tab, States
  <2> QED BY <1>b, <1>18, <2>1 DEF WriteConflicts, updateRemoteFileTab, IsTab
<1>19. ASSUME NEW w \in writes, WriteFails(w) PROVE EditorTypeOK'
  <2>1. tab' \in Tab \cup {NoTab}
        BY <1>19 DEF WriteFails, updateRemoteFileTab, IsTab, Tab, States
  <2> QED BY <1>b, <1>19, <2>1 DEF WriteFails, updateRemoteFileTab, IsTab
<1>20. ASSUME requestDeleteRemoteEntries PROVE EditorTypeOK'
    BY <1>b, <1>20, DeletionIs DEF requestDeleteRemoteEntries
<1>21. ASSUME renameRemoteFileTabs PROVE EditorTypeOK'
  <2>1. tab' \in Tab \cup {NoTab}
        BY <1>21 DEF renameRemoteFileTabs, IsTab, Tab, States
  <2> QED BY <1>b, <1>21, <2>1 DEF renameRemoteFileTabs, IsTab
<1>22. ASSUME RenameFails PROVE EditorTypeOK'
  <2>1. tab' \in Tab \cup {NoTab}
        BY <1>22 DEF RenameFails, Tab, States
  <2> QED BY <1>b, <1>22, <2>1 DEF RenameFails
<1>23. ASSUME NEW ours \in BOOLEAN, confirmRemoteFileDelete(ours) PROVE EditorTypeOK'
    BY <1>b, <1>23, DeletionIs DEF confirmRemoteFileDelete
<1>24. ASSUME NEW ours \in BOOLEAN, DeleteFails(ours) PROVE EditorTypeOK'
  <2>1. tab' \in Tab \cup {NoTab}
        BY <1>24 DEF DeleteFails, Tab, States
  <2> QED BY <1>b, <1>24, <2>1 DEF DeleteFails
<1>25. ASSUME UNCHANGED editorVars PROVE EditorTypeOK'
    BY <1>25 DEF editorVars
<1> HIDE DEF EditorTypeOK
<1> QED BY <1>1, <1>2, <1>3, <1>4, <1>5, <1>6, <1>7, <1>8, <1>9, <1>10, <1>11, <1>12, <1>13, <1>14, <1>15, <1>16, <1>17, <1>18, <1>19, <1>20, <1>21, <1>22, <1>23, <1>24, <1>25
        DEF EditorNext, Read, Written, Renamed, Deleted

-----------------------------------------------------------------------------
(* The steps.  Crossing is what every step adds to its action.             *)

Crossing == crossed' = (crossed \/ (Moving' /\ InFlight'))

\* A step that confirms no delete.
LEMMA CrossedStep ==
    ASSUME EditorInv, Crossing, deleting' = deleting \/ deleting' = NoTab \/ ~deleting'.confirmed
    PROVE  CrossedOK'
<1>1. (Moving /\ InFlight)' => crossed'
    BY Zenon DEF Crossing
<1>2. crossed => crossed'
    BY Zenon DEF Crossing
<1>3. (deleting # NoTab /\ deleting.confirmed /\ deleting.seen # NoTab /\ Waiting(deleting.seen))' => crossed'
    BY <1>2 DEF EditorInv, CrossedOK, Waiting
<1> QED BY <1>1, <1>3 DEF CrossedOK

\* The tab is edited or goes; nothing is asked and nothing answered.
LEMMA TabStep ==
    ASSUME EditorInv, EditorTypeOK', Crossing, UNCHANGED <<name, file, foreign, reads, writes, renaming, deleting>>,
           \/ tab' = NoTab
           \/ tab' = tab
           \/ /\ tab \in Tab /\ tab' \in Tab /\ tab'.id = tab.id /\ tab'.version = tab.version
              /\ ~Waiting(tab')
    PROVE  EditorInv'
<1> USE NoTabAssumption DEF EditorInv
<1>1. CrossedOK'
    BY CrossedStep
<1>2. NamesOK'
    BY DEF NamesOK, Copy
<1>3. VersionsOK'
    BY DEF VersionsOK, Copy
<1>4. WritesOK'
    BY DEF WritesOK
<1>5. crossed => crossed'
    BY Zenon DEF Crossing
<1>6. WaitingIsServed'
    BY <1>5 DEF WaitingIsServed, HasTab, Waiting
<1> QED BY <1>1, <1>2, <1>3, <1>4, <1>6

LEMMA SaveStep ==
    ASSUME EditorInv, EditorTypeOK', Crossing, HasTab, NEW overwrite \in BOOLEAN, saveRemoteFile(overwrite),
           UNCHANGED <<name, file, foreign, reads, renaming, deleting>>
    PROVE  EditorInv'
<1> USE NoTabAssumption DEF EditorInv
<1>0. /\ tab \in Tab /\ tab' \in Tab /\ tab.version \in Versions
      /\ tab'.id = tab.id /\ tab'.version = tab.version /\ tab'.state = "saving"
    BY SaveSends
<1>w. PICK w \in Write : /\ writes' = writes \cup {w}
                         /\ w.id = tab.id /\ w.version = tab.version /\ w.overwrite = overwrite /\ w.step = "check"
    BY SaveSends
<1>1. CrossedOK'
    BY CrossedStep
<1>2. NamesOK'
    BY <1>0, <1>w DEF NamesOK, Copy
<1>3. VersionsOK'
    BY <1>0 DEF VersionsOK, Copy
<1>4. foreign /\ w.id = name => w.version # file.version
  <2>1. tab.version # NoTab
        BY DEF saveRemoteFile
  <2>2. foreign /\ tab.id = name => tab.version # file.version
        BY <1>0, <2>1 DEF VersionsOK, Copy
  <2> QED BY <1>w, <2>2
<1>5. WritesOK'
    BY <1>w, <1>4 DEF WritesOK
<1>6. WaitingIsServed'
    BY <1>0, <1>w DEF WaitingIsServed
<1> QED BY <1>1, <1>2, <1>3, <1>5, <1>6

LEMMA ReloadStep ==
    ASSUME EditorInv, EditorTypeOK', Crossing, HasTab, reloadRemoteFile,
           UNCHANGED <<name, file, foreign, writes, renaming, deleting>>
    PROVE  EditorInv'
<1> USE NoTabAssumption DEF EditorInv
<1>0. tab \in Tab /\ tab' \in Tab /\ tab'.id = tab.id /\ tab'.version = tab.version /\ reads'[tab.id] > 0
    BY ReloadAsks
<1>1. CrossedOK'
    BY CrossedStep
<1>2. NamesOK'
    BY <1>0 DEF NamesOK, Copy
<1>3. VersionsOK'
    BY <1>0 DEF VersionsOK, Copy
<1>4. WritesOK'
    BY DEF WritesOK
<1>5. WaitingIsServed'
    BY <1>0 DEF WaitingIsServed
<1> QED BY <1>1, <1>2, <1>3, <1>4, <1>5

LEMMA OpenStep == ASSUME EditorInv, EditorTypeOK', Crossing, openRemoteFile PROVE EditorInv'
<1> USE NoTabAssumption DEF EditorInv
<1>0. UNCHANGED <<name, file, foreign, writes, renaming, deleting>> /\ name \in Paths
    BY DEF openRemoteFile, host, dialogs, EditorTypeOK
<1>t. tab'.id = name /\ tab'.version = NoTab /\ reads' = [reads EXCEPT ![name] = @ + 1]
    BY DEF openRemoteFile
<1>r. reads'[name] > 0
    BY <1>0, <1>t, BoundsAssumption DEF EditorTypeOK
<1>1. CrossedOK'
    BY <1>0, CrossedStep
<1>2. NamesOK'
    BY <1>0, <1>t DEF NamesOK, Copy
<1>3. VersionsOK'
  <2>1. file.version # NoTab
        BY DEF EditorTypeOK
  <2> QED BY <1>0, <1>t, <2>1 DEF VersionsOK, Copy
<1>4. WritesOK'
    BY <1>0 DEF WritesOK
<1>5. WaitingIsServed'
    BY <1>t, <1>r DEF WaitingIsServed
<1> QED BY <1>1, <1>2, <1>3, <1>4, <1>5

\* The answer of a read, or its error.
LEMMA ReadStep ==
    ASSUME EditorInv, EditorTypeOK', Crossing, NEW p \in Paths, ReadReturns(p) \/ ReadFails(p) PROVE EditorInv'
<1> USE NoTabAssumption DEF EditorInv
<1>0. UNCHANGED <<name, file, writes, renaming, deleting>> /\ reads' = [reads EXCEPT ![p] = @ - 1]
    BY DEF ReadReturns, ReadFails, host, dialogs
<1>t. ASSUME IsTab(p)
      PROVE  /\ tab \in Tab /\ tab' \in Tab /\ tab'.id = p /\ ~Waiting(tab')
             /\ \/ tab'.version = tab.version /\ foreign' = foreign
                \/ tab'.version = file.version /\ ~foreign'
  <2>1. tab \in Tab /\ tab.id = p
        BY <1>t DEF IsTab, HasTab, EditorTypeOK
  <2>2. CASE ReadReturns(p)
        BY <1>t, <2>1, <2>2 DEF ReadReturns, updateRemoteFileTab, EditorTypeOK, Waiting, Tab, States
  <2>3. CASE ReadFails(p)
        BY <1>t, <2>1, <2>3, TextsAssumption DEF ReadFails, updateRemoteFileTab, host, Waiting, Tab, States
  <2> QED BY <2>2, <2>3
<1>n. ASSUME ~IsTab(p) PROVE UNCHANGED <<tab, foreign>>
    BY <1>n DEF ReadReturns, ReadFails, updateRemoteFileTab, host, EditorTypeOK
<1>1. CrossedOK'
    BY <1>0, CrossedStep
<1>2. NamesOK'
    BY <1>0, <1>t, <1>n DEF NamesOK, Copy, IsTab
<1>3. VersionsOK'
  <2>1. CASE IsTab(p)
        BY <1>0, <1>t, <2>1 DEF VersionsOK, Copy, IsTab, EditorTypeOK
  <2>2. CASE ~IsTab(p)
        BY <1>0, <1>n, <2>2 DEF VersionsOK, Copy
  <2> QED BY <2>1, <2>2
<1>4. WritesOK'
    BY <1>0, <1>t, <1>n DEF WritesOK
<1>5. WaitingIsServed'
  <2>1. crossed => crossed'
        BY Zenon DEF Crossing
  <2>2. CASE IsTab(p)
        BY <1>t, <2>2 DEF WaitingIsServed, Waiting
  <2>3. CASE ~IsTab(p)
        BY <1>0, <1>n, <2>1, <2>3, TabIs DEF WaitingIsServed, IsTab, HasTab, EditorTypeOK
  <2> QED BY <2>2, <2>3
<1> QED BY <1>1, <1>2, <1>3, <1>4, <1>5

LEMMA CheckedStep ==
    ASSUME EditorInv, EditorTypeOK', Crossing, NEW w \in writes, WriteChecked(w) PROVE EditorInv'
<1> USE NoTabAssumption DEF EditorInv
<1>0. UNCHANGED <<name, file, foreign, tab, reads, renaming, deleting>>
    BY DEF WriteChecked, host, dialogs
<1>w. PICK v \in Write : /\ writes' = (writes \ {w}) \cup {v}
                         /\ v.id = w.id /\ v.version = w.version /\ v.overwrite = w.overwrite /\ v.step = "put"
    BY WriteMoves DEF WriteChecked
<1>1. CrossedOK'
    BY <1>0, CrossedStep
<1>2. NamesOK'
    BY <1>0, <1>w DEF NamesOK, Copy
<1>3. VersionsOK'
    BY <1>0 DEF VersionsOK, Copy
<1>4. foreign /\ w.id = name => w.overwrite
    BY WriteIs DEF WritesOK, WriteChecked, check_write_version, EditorTypeOK
<1>5. WritesOK'
    BY <1>0, <1>w, <1>4 DEF WritesOK
<1>6. WaitingIsServed'
  <2>1. crossed => crossed'
        BY Zenon DEF Crossing
  <2> QED BY <1>0, <1>w, <2>1 DEF WaitingIsServed, HasTab
<1> QED BY <1>1, <1>2, <1>3, <1>5, <1>6

LEMMA PutStep ==
    ASSUME EditorInv, EditorTypeOK', Crossing, NEW w \in writes, WritePut(w) PROVE EditorInv'
<1> USE NoTabAssumption DEF EditorInv
<1>0. UNCHANGED <<name, tab, reads, renaming, deleting>>
    BY DEF WritePut, dialogs
<1>w. PICK v \in Write : /\ writes' = (writes \ {w}) \cup {v}
                         /\ v.id = w.id /\ v.version = w.version /\ v.overwrite = w.overwrite /\ v.step = "stat"
    BY WriteMoves DEF WritePut
<1>o. foreign /\ w.id = name => w.overwrite
    BY DEF WritesOK, WritePut
<1>f. w.id = name => ~foreign'
  <2>1. w.id = name => foreign' = (foreign /\ ~w.overwrite)
        BY Zenon DEF WritePut
  <2> QED BY <1>o, <2>1, Zenon
<1>n. w.id # name => UNCHANGED <<file, foreign>>
    BY DEF WritePut
<1>1. CrossedOK'
    BY <1>0, CrossedStep
<1>2. NamesOK'
    BY <1>0, <1>w DEF NamesOK, Copy
<1>3. VersionsOK'
  <2>1. CASE w.id = name
        BY <1>0, <1>f, <2>1 DEF VersionsOK
  <2>2. CASE w.id # name
        BY <1>0, <1>n, <2>2 DEF VersionsOK, Copy
  <2> QED BY <2>1, <2>2
<1>4. WritesOK'
    BY <1>0, <1>w, <1>f, <1>n DEF WritesOK
<1>5. WaitingIsServed'
  <2>1. crossed => crossed'
        BY Zenon DEF Crossing
  <2> QED BY <1>0, <1>w, <2>1 DEF WaitingIsServed, HasTab
<1> QED BY <1>1, <1>2, <1>3, <1>4, <1>5

\* The answer of a write: saved, in conflict, or failed.
LEMMA WrittenStep ==
    ASSUME EditorInv, EditorTypeOK', Crossing, NEW w \in writes,
           WriteReturns(w) \/ WriteConflicts(w) \/ WriteFails(w)
    PROVE  EditorInv'
<1> USE NoTabAssumption DEF EditorInv
<1>0. UNCHANGED <<name, file, foreign, reads, renaming, deleting>> /\ writes' = writes \ {w}
    BY DEF WriteReturns, WriteConflicts, WriteFails, host, dialogs
<1>t. ASSUME IsTab(w.id)
      PROVE  /\ tab \in Tab /\ tab' \in Tab /\ tab'.id = tab.id /\ tab.id = w.id /\ ~Waiting(tab')
             /\ tab'.version = tab.version \/ (tab'.version = file.version /\ w.step = "stat")
  <2>1. tab \in Tab /\ tab.id = w.id
        BY <1>t DEF IsTab, HasTab, EditorTypeOK
  <2>2. CASE WriteReturns(w)
        BY <1>t, <2>1, <2>2 DEF WriteReturns, updateRemoteFileTab, EditorTypeOK, Waiting, Tab, States
  <2>3. CASE WriteConflicts(w) \/ WriteFails(w)
        BY <1>t, <2>1, <2>3 DEF WriteConflicts, WriteFails, updateRemoteFileTab, Waiting, Tab, States
  <2> QED BY <2>2, <2>3
<1>n. ASSUME ~IsTab(w.id) PROVE UNCHANGED tab
    BY <1>n DEF WriteReturns, WriteConflicts, WriteFails, updateRemoteFileTab
<1>1. CrossedOK'
    BY <1>0, CrossedStep
<1>2. NamesOK'
    BY <1>0, <1>t, <1>n DEF NamesOK, Copy
<1>3. VersionsOK'
  <2>1. CASE IsTab(w.id)
    <3>1. w.step = "stat" => ~(foreign /\ tab.id = name)
          BY <1>t, <2>1 DEF WritesOK
    <3> QED BY <1>0, <1>t, <2>1, <3>1 DEF VersionsOK, Copy, EditorTypeOK
  <2>2. CASE ~IsTab(w.id)
        BY <1>0, <1>n, <2>2 DEF VersionsOK, Copy
  <2> QED BY <2>1, <2>2
<1>4. WritesOK'
    BY <1>0 DEF WritesOK
<1>5. WaitingIsServed'
  <2>1. crossed => crossed'
        BY Zenon DEF Crossing
  <2>2. CASE IsTab(w.id)
        BY <1>t, <2>2 DEF WaitingIsServed, Waiting
  <2>3. CASE ~IsTab(w.id)
        BY <1>0, <1>n, <2>1, <2>3 DEF WaitingIsServed, IsTab, HasTab
  <2> QED BY <2>2, <2>3
<1> QED BY <1>1, <1>2, <1>3, <1>4, <1>5

\* A rename starts or fails.
LEMMA RenamingStep ==
    ASSUME EditorInv, EditorTypeOK', Crossing, RenameFails \/ \E p \in Paths : submitRename(p) PROVE EditorInv'
<1> USE NoTabAssumption DEF EditorInv
<1>0. UNCHANGED <<name, file, foreign, tab, reads, writes, deleting>>
    BY DEF RenameFails, submitRename, host
<1>r. renaming' # NoTab => name = FirstPath /\ renaming' # FirstPath /\ deleting = NoTab
    BY DEF RenameFails, submitRename, Modal
<1>1. CrossedOK'
    BY <1>0, CrossedStep
<1>2. NamesOK'
    BY <1>0, <1>r DEF NamesOK, Copy
<1>3. VersionsOK'
    BY <1>0 DEF VersionsOK, Copy
<1>4. WritesOK'
    BY <1>0 DEF WritesOK
<1>5. WaitingIsServed'
  <2>1. crossed => crossed'
        BY Zenon DEF Crossing
  <2> QED BY <1>0, <2>1 DEF WaitingIsServed, HasTab
<1> QED BY <1>1, <1>2, <1>3, <1>4, <1>5

LEMMA RenamedStep == ASSUME EditorInv, EditorTypeOK', Crossing, renameRemoteFileTabs PROVE EditorInv'
<1> USE NoTabAssumption DEF EditorInv
<1>0. UNCHANGED <<file, foreign, reads, writes, deleting>> /\ name' = renaming /\ renaming' = NoTab
    BY DEF renameRemoteFileTabs
<1>r. name = FirstPath /\ renaming \in Paths /\ renaming # FirstPath /\ deleting = NoTab
    BY DEF renameRemoteFileTabs, NamesOK, EditorTypeOK
<1>t. ASSUME HasTab
      PROVE  tab \in Tab /\ tab' \in Tab /\ tab.id = name /\ tab'.id = renaming /\ tab'.version = tab.version /\ tab'.state = tab.state
  <2>1. tab \in Tab
        BY <1>t DEF HasTab, EditorTypeOK
  <2>2. tab.id = name
        BY <1>r, <2>1 DEF NamesOK, Copy
  <2> QED BY <1>r, <1>t, <2>1, <2>2 DEF renameRemoteFileTabs, IsTab, Tab
<1>n. ASSUME ~HasTab PROVE tab' = NoTab
    BY <1>n DEF renameRemoteFileTabs, IsTab, HasTab
<1>1. CrossedOK'
    BY <1>0, CrossedStep
<1>2. NamesOK'
    BY <1>0, <1>r DEF NamesOK
<1>3. VersionsOK'
    BY <1>0, <1>r, <1>t, <1>n DEF VersionsOK, Copy
<1>4. WritesOK'
    BY <1>0, <1>r DEF WritesOK, NamesOK
<1>5. WaitingIsServed'
  <2>1. crossed => crossed'
        BY Zenon DEF Crossing
  <2>2. HasTab /\ Waiting(tab) => crossed
        BY <1>t, TabIs DEF WaitingIsServed, CrossedOK, Moving, InFlight, Waiting, renameRemoteFileTabs
  <2> QED BY <1>t, <1>n, <2>1, <2>2 DEF WaitingIsServed, HasTab, Waiting
<1> QED BY <1>1, <1>2, <1>3, <1>4, <1>5

LEMMA DeleteStep ==
    ASSUME EditorInv, EditorTypeOK', Crossing, requestDeleteRemoteEntries \/ \E yes \in BOOLEAN : AnswerDelete(yes)
    PROVE  EditorInv'
<1> USE NoTabAssumption DEF EditorInv
<1>0. UNCHANGED <<name, file, foreign, tab, reads, writes, renaming>>
    BY DEF requestDeleteRemoteEntries, AnswerDelete, host
<1>r. renaming = NoTab
    BY DEF requestDeleteRemoteEntries, AnswerDelete, Modal, NamesOK
<1>d. deleting' = NoTab \/ ~deleting'.confirmed \/ (deleting'.confirmed /\ deleting'.seen = tab)
    BY DeletionIs DEF requestDeleteRemoteEntries, AnswerDelete, EditorTypeOK
<1>c. crossed => crossed'
    BY Zenon DEF Crossing
<1>1. WaitingIsServed'
    BY <1>0, <1>c DEF WaitingIsServed, HasTab
<1>2. (Moving /\ InFlight)' => crossed'
    BY Zenon DEF Crossing
<1>3. CrossedOK'
  <2>1. CASE deleting' = NoTab \/ ~deleting'.confirmed
        BY <2>1, CrossedStep
  <2>2. CASE deleting'.confirmed /\ deleting'.seen = tab /\ deleting' # NoTab
    <3>1. tab # NoTab /\ Waiting(tab) => crossed \/ InFlight'
          BY <1>0, TabIs DEF WaitingIsServed, InFlight, Waiting, HasTab, EditorTypeOK
    <3>2. Moving'
          BY <2>2 DEF Moving
    <3> QED BY <1>2, <1>c, <2>2, <3>1, <3>2 DEF CrossedOK, Waiting
  <2> QED BY <1>d, <2>1, <2>2
<1>4. NamesOK'
    BY <1>0, <1>r, <1>d DEF NamesOK, Copy
<1>5. VersionsOK'
    BY <1>0, <1>d DEF VersionsOK, Copy
<1>6. WritesOK'
    BY <1>0 DEF WritesOK
<1> QED BY <1>1, <1>3, <1>4, <1>5, <1>6

\* The delete ends: the tab goes, comes back as it was seen, or stays.
LEMMA DeletedStep ==
    ASSUME EditorInv, EditorTypeOK', Crossing, NEW ours \in BOOLEAN,
           confirmRemoteFileDelete(ours) \/ DeleteFails(ours)
    PROVE  EditorInv'
<1> USE NoTabAssumption DEF EditorInv
<1>0. UNCHANGED <<file, foreign, reads, writes, renaming>> /\ deleting' = NoTab
    BY DEF confirmRemoteFileDelete, DeleteFails
<1>d. deleting # NoTab /\ deleting.confirmed /\ renaming = NoTab
    BY DEF confirmRemoteFileDelete, DeleteFails, NamesOK
<1>n. name' = NoTab \/ name' = name
    BY DEF confirmRemoteFileDelete, DeleteFails
<1>t. tab' = NoTab \/ Copy(tab')
    BY <1>d DEF confirmRemoteFileDelete, DeleteFails, Copy
<1>c. crossed => crossed'
    BY Zenon DEF Crossing
<1>1. CrossedOK'
    BY <1>0, CrossedStep
<1>2. NamesOK'
  <2>1. \A x \in Tab : Copy(x)' => Copy(x)
        BY <1>0, <1>t DEF Copy
  <2> QED BY <1>0, <1>d, <1>n, <2>1, PathsAssumption DEF NamesOK
<1>3. VersionsOK'
  <2>1. \A x \in Tab : Copy(x)' => Copy(x)
        BY <1>0, <1>t DEF Copy
  <2> QED BY <1>0, <1>n, <2>1, TabIs DEF VersionsOK
<1>4. WritesOK'
    BY <1>0, <1>n, WriteIs DEF WritesOK, EditorTypeOK
<1>5. WaitingIsServed'
  <2>1. tab' = NoTab \/ tab' = tab \/ (tab' = deleting.seen /\ deleting.seen # NoTab)
        BY <1>t DEF Copy
  <2> QED BY <1>0, <1>c, <1>d, <2>1 DEF WaitingIsServed, HasTab, CrossedOK, Waiting
<1> QED BY <1>1, <1>2, <1>3, <1>4, <1>5

LEMMA OthersStep ==
    ASSUME EditorInv, EditorTypeOK', Crossing, NEW text \in OthersTexts, OthersWrite(text) PROVE EditorInv'
<1> USE NoTabAssumption DEF EditorInv
<1>0. UNCHANGED <<name, tab, reads, writes, renaming, deleting>>
    BY DEF OthersWrite, dialogs
<1>f. PICK v \in Versions : file'.version = v /\ foreign' = (~Compared(v) /\ (foreign \/ writes = {}))
    BY DEF OthersWrite
<1>c. foreign' => ~Compared(v) /\ (foreign \/ writes = {})
    BY <1>f, Zenon
<1>1. CrossedOK'
    BY <1>0, CrossedStep
<1>2. NamesOK'
    BY <1>0 DEF NamesOK, Copy
<1>3. VersionsOK'
    BY <1>0, <1>c, <1>f DEF VersionsOK, Copy, Compared, HasTab
<1>4. WritesOK'
    BY <1>0, <1>c, <1>f DEF WritesOK, Compared
<1>5. WaitingIsServed'
  <2>1. crossed => crossed'
        BY Zenon DEF Crossing
  <2> QED BY <1>0, <2>1 DEF WaitingIsServed, HasTab
<1> QED BY <1>1, <1>2, <1>3, <1>4, <1>5

LEMMA EditorStep == EditorInv /\ [EditorNext]_editorVars => EditorInv'
<1> SUFFICES ASSUME EditorInv, [EditorNext]_editorVars PROVE EditorInv'
    OBVIOUS
<1>0. EditorTypeOK /\ EditorTypeOK'
    BY EditorType DEF EditorInv
<1>1. CASE UNCHANGED editorVars
    BY <1>1 DEF editorVars, host, dialogs, EditorInv, EditorTypeOK, CrossedOK, NamesOK, VersionsOK, WritesOK,
               WaitingIsServed, Moving, InFlight, Copy, HasTab
<1>2. CASE EditorNext
  <2>c. Crossing
        BY <1>2 DEF EditorNext, Crossing
  <2> USE DEF host, dialogs
  <2>1. CASE discardRemoteFileChanges \/ \E text \in Texts : handleRemoteFileChange(text)
    <3>1. UNCHANGED <<name, file, foreign, reads, writes, renaming, deleting>> /\ tab \in Tab
          BY <1>0, <2>1 DEF discardRemoteFileChanges, handleRemoteFileChange, HasTab, EditorTypeOK
    <3>2. tab' \in Tab /\ tab'.id = tab.id /\ tab'.version = tab.version /\ ~Waiting(tab')
          BY <2>1, <3>1 DEF discardRemoteFileChanges, handleRemoteFileChange, Waiting, Tab, States
    <3> QED BY <1>0, <2>c, <3>1, <3>2, TabStep
  <2>2. CASE closeRemoteFileTabs \/ clearRemoteFileSessionStateForConnections \/ \E yes \in BOOLEAN : AnswerClose(yes)
    <3>1. UNCHANGED <<name, file, foreign, reads, writes, renaming, deleting>> /\ tab' \in {tab, NoTab}
          BY <2>2 DEF closeRemoteFileTabs, clearRemoteFileSessionStateForConnections, AnswerClose
    <3> QED BY <1>0, <2>c, <3>1, TabStep
  <2>3. CASE Save
        BY <1>0, <2>c, <2>3, SaveStep DEF Save
  <2>4. CASE Reload
        BY <1>0, <2>c, <2>4, ReloadStep DEF Reload
  <2>5. ASSUME NEW choice \in {"reload", "overwrite", "cancel"}, AnswerConflict(choice) PROVE EditorInv'
    <3>0. HasTab /\ UNCHANGED <<name, file, foreign, renaming, deleting>>
          BY <2>5 DEF AnswerConflict
    <3>1. CASE reloadRemoteFile /\ UNCHANGED writes
          BY <1>0, <2>c, <3>0, <3>1, ReloadStep
    <3>2. CASE saveRemoteFile(TRUE) /\ UNCHANGED reads
          BY <1>0, <2>c, <3>0, <3>2, SaveStep
    <3>3. CASE UNCHANGED <<tab, reads, writes>>
          BY <1>0, <2>c, <3>0, <3>3, TabStep
    <3> QED BY <2>5, <3>1, <3>2, <3>3 DEF AnswerConflict
  <2> HIDE DEF host, dialogs
  <2> QED BY <1>0, <1>2, <2>c, <2>1, <2>2, <2>3, <2>4, <2>5, OpenStep, ReadStep, CheckedStep, PutStep, WrittenStep,
             RenamingStep, RenamedStep, DeleteStep, DeletedStep, OthersStep
          DEF EditorNext, Read, Written, Renamed, Deleted
<1> QED BY <1>1, <1>2

LEMMA EditorStart == EditorInit => EditorInv
<1> SUFFICES ASSUME EditorInit PROVE EditorInv
    OBVIOUS
<1> USE NoTabAssumption
<1>1. EditorTypeOK
  <2>1. file \in [version : Versions, text : Texts]
        BY DEF EditorInit
  <2>2. reads \in [Paths -> 0 .. MaxReads]
        BY BoundsAssumption DEF EditorInit
  <2> QED BY <2>1, <2>2, PathsAssumption DEF EditorInit, EditorTypeOK
<1>2. CrossedOK /\ NamesOK /\ VersionsOK /\ WritesOK /\ WaitingIsServed
    BY DEF EditorInit, CrossedOK, NamesOK, VersionsOK, WritesOK, WaitingIsServed, Moving, InFlight, Copy, HasTab
<1> QED BY <1>1, <1>2 DEF EditorInv

LEMMA EditorInvariant == EditorSpec => []EditorInv
BY EditorStart, EditorStep, PTL DEF EditorSpec

(* A tab that shows "loading" or "saving" has a request whose answer will  *)
(* find it, unless a rename or a delete overlapped one, for any number of  *)
(* reads and writes in flight (openRemoteFile, saveRemoteFile and the      *)
(* closes and dialogs around them).                                        *)
THEOREM WaitingStaysServed == EditorSpec => []WaitingIsServed
<1>1. EditorInv => WaitingIsServed
    BY DEF EditorInv
<1> QED BY <1>1, EditorInvariant, PTL

(* A write that the user did not choose as an overwrite never replaces a   *)
(* change that others made while nothing was being written, if the host's  *)
(* mtime and size tell it from what the editor holds (check_write_version  *)
(* and the version each tab sends).                                        *)
THEOREM NeverOverwritesBlindly == EditorSpec => NoBlindOverwrite
<1>1. EditorInv /\ [EditorNext]_editorVars =>
        [\A w \in writes : w.step = "put" /\ w.id = name /\ ~w.overwrite /\ WritePut(w) => ~foreign]_editorVars
    BY DEF EditorInv, WritesOK
<1> QED BY <1>1, EditorInvariant, PTL DEF EditorSpec, NoBlindOverwrite

-----------------------------------------------------------------------------
(* The connection dialog.                                                  *)

Text == SecretTexts

\* What trimming does.
LEMMA TrimIs ==
    /\ EmptyText \in Text /\ Trimmed[EmptyText] = EmptyText
    /\ \A x \in Text : Trimmed[x] \in Text /\ Trimmed[Trimmed[x]] = Trimmed[x]
BY FormAssumption DEF Text

LEMMA EmptyIsText == EmptyText \in SecretTexts /\ EmptyText \in Text
BY TrimIs DEF Text

USE EmptyIsText

Row == [protocol : Protocols \cup {"none"}, mode : Modes \cup {"none"}, kind : AuthKinds \cup {"none"},
        path : BOOLEAN, ref : BOOLEAN]
Form == [protocol : Protocols \cup {"none"}, mode : Modes \cup {"none"}, credential : BOOLEAN,
         kind : AuthKinds \cup {"none"}, password : Text, passwordTouched : BOOLEAN,
         path : BOOLEAN, passphrase : Text, passphraseTouched : BOOLEAN]
Dialog == [how : {"closed", "new", "edit", "duplicate"}, of : Profiles \cup {"none"}, from : Row, id : Nat]
Reveal == [step : {"none", "asked", "read"}, kind : AuthKinds \cup {"none"}, secret : Text]
Submit == [step : {"stopping", "sent", "done", "missing", "failed"}, what : {"save", "delete"}, by : Nat,
           to : Profiles, of : Profiles \cup {"none"}, input : Form]
Answer == [of : SUBSET Profiles, rows : [Profiles -> Row]]

FormTypeOK ==
    /\ rows \in [Profiles -> Row] /\ slots \in [Profiles \X AuthKinds -> Text]
    /\ connections \in [Profiles -> Row] /\ listing \subseteq Answer
    /\ dlg \in Dialog /\ form \in Form /\ revealing \in Reveal
    /\ submits \subseteq Submit /\ formTurns \in Nat
    /\ dlg.how \in {"edit", "duplicate"} => dlg.of \in Profiles
    /\ revealing.step # "none" => revealing.kind \in AuthKinds /\ dlg.how \in {"edit", "duplicate"}

\* A row refers to a secret of its own only when it logs in with one, and the vault holds
\* what trimming left.
SecretsOK ==
    /\ PasswordIsStored
    /\ \A p \in Profiles : rows[p].ref => rows[p].mode = "inline"
    /\ \A x \in Profiles \X AuthKinds : Trimmed[slots[x]] = slots[x]

LEMMA RowIs ==
    \A row \in Row : /\ row.mode \in Modes \cup {"none"} /\ row.kind \in AuthKinds \cup {"none"}
                     /\ row.path \in BOOLEAN /\ row.ref \in BOOLEAN /\ row.protocol \in Protocols \cup {"none"}
BY DEF Row

LEMMA FormIs ==
    \A f \in Form : /\ f.protocol \in Protocols \cup {"none"} /\ f.mode \in Modes \cup {"none"}
                    /\ f.kind \in AuthKinds \cup {"none"} /\ f.password \in Text /\ f.passphrase \in Text
                    /\ f.passwordTouched \in BOOLEAN /\ f.passphraseTouched \in BOOLEAN
                    /\ f.path \in BOOLEAN /\ f.credential \in BOOLEAN
BY DEF Form

LEMMA NoRowIs == NoRow \in Row
BY DEF NoRow, Row

LEMMA EmptyFormIs == emptyForm \in Form
BY FormAssumption DEF emptyForm, Form, Text, Modes, AuthKinds

\* A form as the dialog fills it: no secret in it, and none touched.
Clean(f) == f.password = EmptyText /\ f.passphrase = EmptyText /\ ~f.passwordTouched /\ ~f.passphraseTouched

LEMMA EmptyIsClean == Clean(emptyForm) /\ emptyForm.kind = "password"
BY DEF Clean, emptyForm

LEMMA FilledIs ==
    ASSUME NEW d \in Dialog
    PROVE  FilledForm(d) \in Form /\ Clean(FilledForm(d)) /\ FilledForm(d).kind \in AuthKinds
<1> DEFINE r == d.from
           g == formFromConnection(r)
<1>1. r \in Row
    BY DEF Dialog
<1>2. g \in Form /\ g.kind \in AuthKinds
    BY <1>1, EmptyFormIs, RowIs, ZenonT(40) DEF formFromConnection, Form, AuthKinds
<1>3. /\ g.password = emptyForm.password /\ g.passphrase = emptyForm.passphrase
      /\ g.passwordTouched = emptyForm.passwordTouched /\ g.passphraseTouched = emptyForm.passphraseTouched
    BY EmptyFormIs DEF formFromConnection, Form
<1>4. Clean(g)
    BY <1>3, EmptyIsClean DEF Clean
<1> HIDE DEF g, r
<1>5. CASE d.how = "new"
    BY <1>5, EmptyFormIs, EmptyIsClean DEF FilledForm, AuthKinds
<1>6. CASE d.how # "new"
    BY <1>2, <1>4, <1>6 DEF FilledForm, g, r
<1> QED BY <1>5, <1>6

\* What the edits do, field by field.
LEMMA CharacterInputIs ==
    ASSUME NEW f \in Form
    PROVE  CharacterInput(f) \in Form /\ CharacterInput(f).mode = "prompt"
<1> DEFINE g == [f EXCEPT !.mode = "prompt", !.credential = FALSE, !.kind = "none", !.password = EmptyText, !.passwordTouched = FALSE]
<1>1. g \in Form /\ g.mode = "prompt"
    BY DEF Form, Text, Modes
<1> HIDE DEF g
<1>2. WithoutKey(g) \in Form /\ WithoutKey(g).mode = g.mode
    BY <1>1 DEF WithoutKey, Form, Text
<1> QED BY <1>1, <1>2 DEF CharacterInput, g

LEMMA DesktopInputIs ==
    ASSUME NEW f \in Form
    PROVE  LET g == DesktopInput(f)
           IN  /\ g \in Form /\ g.mode = f.mode
               /\ g.kind = IF f.mode = "inline" THEN "password" ELSE "none"
               /\ g.password = IF f.mode = "inline" /\ f.passwordTouched THEN Trimmed[f.password] ELSE EmptyText
               /\ g.passwordTouched = (f.mode = "inline" /\ f.passwordTouched)
<1>1. DesktopInput(f) \in Form
  <2> DEFINE saved == f.mode = "saved" /\ f.credential
             kind == IF f.mode = "inline" THEN "password" ELSE "none"
             text == IF f.mode = "inline" /\ f.passwordTouched THEN Trimmed[f.password] ELSE EmptyText
             touched == f.mode = "inline" /\ f.passwordTouched
  <2>1. /\ saved \in BOOLEAN /\ kind \in AuthKinds \cup {"none"} /\ text \in Text /\ touched \in BOOLEAN
        /\ EmptyText \in Text
        BY FormIs, TrimIs DEF AuthKinds
  <2> HIDE DEF saved, kind, text, touched
  <2>2. [f EXCEPT !.credential = saved, !.kind = kind, !.password = text, !.passwordTouched = touched] \in Form
        BY <2>1 DEF Form
  <2>3. WithoutKey([f EXCEPT !.credential = saved, !.kind = kind, !.password = text, !.passwordTouched = touched]) \in Form
        BY <2>1, <2>2 DEF WithoutKey, Form
  <2> QED BY <2>3 DEF saved, kind, text, touched, DesktopInput
<1>2. LET g == DesktopInput(f)
      IN  /\ g.mode = f.mode
          /\ g.kind = IF f.mode = "inline" THEN "password" ELSE "none"
          /\ g.password = IF f.mode = "inline" /\ f.passwordTouched THEN Trimmed[f.password] ELSE EmptyText
          /\ g.passwordTouched = (f.mode = "inline" /\ f.passwordTouched)
    BY DEF DesktopInput, WithoutKey, Form
<1> QED BY <1>1, <1>2

LEMMA SshInputIs ==
    ASSUME NEW f \in Form
    PROVE  LET g == SshInput(f)
           IN  /\ g \in Form /\ g.mode = f.mode
               /\ g.kind = IF f.mode = "inline" THEN f.kind ELSE "none"
               /\ g.password = IF f.mode = "inline" /\ f.kind = "password" /\ f.passwordTouched THEN Trimmed[f.password] ELSE EmptyText
               /\ g.passwordTouched = (f.mode = "inline" /\ f.kind = "password" /\ f.passwordTouched)
               /\ g.passphrase = IF f.mode = "inline" /\ f.kind = "private_key" /\ f.passphraseTouched THEN Trimmed[f.passphrase] ELSE EmptyText
               /\ g.passphraseTouched = (f.mode = "inline" /\ f.kind = "private_key" /\ f.passphraseTouched)
<1> DEFINE g == SshInput(f)
<1>1. /\ g.mode = f.mode
      /\ g.kind = IF f.mode = "inline" THEN f.kind ELSE "none"
      /\ g.password = IF f.mode = "inline" /\ f.kind = "password" /\ f.passwordTouched THEN Trimmed[f.password] ELSE EmptyText
      /\ g.passwordTouched = (f.mode = "inline" /\ f.kind = "password" /\ f.passwordTouched)
      /\ g.passphrase = IF f.mode = "inline" /\ f.kind = "private_key" /\ f.passphraseTouched THEN Trimmed[f.passphrase] ELSE EmptyText
      /\ g.passphraseTouched = (f.mode = "inline" /\ f.kind = "private_key" /\ f.passphraseTouched)
    BY DEF SshInput, Form
<1>2. g \in Form
  <2> DEFINE password == IF f.mode = "inline" /\ f.kind = "password" /\ f.passwordTouched THEN Trimmed[f.password] ELSE EmptyText
             passphrase == IF f.mode = "inline" /\ f.kind = "private_key" /\ f.passphraseTouched THEN Trimmed[f.passphrase] ELSE EmptyText
  <2>1. password \in Text /\ passphrase \in Text
        BY FormIs, TrimIs
  <2> QED BY <2>1, FormIs DEF SshInput, Form
<1> QED BY <1>1, <1>2

LEMMA NormalizedIs ==
    ASSUME NEW f \in Form
    PROVE  normalizeForSubmit(f) \in Form /\ normalizeConnectionInput(f) \in Form
<1>1. CASE f.protocol \in Desktop
  <2>1. normalizeForSubmit(f) \in Form
    <3> DEFINE saved == f.mode = "saved" /\ f.credential
               kind == IF f.mode = "inline" THEN "password" ELSE "none"
               text == IF f.mode = "inline" THEN f.password ELSE EmptyText
               touched == f.mode = "inline" /\ f.passwordTouched
    <3>1. /\ saved \in BOOLEAN /\ kind \in AuthKinds \cup {"none"} /\ text \in Text /\ touched \in BOOLEAN
          /\ EmptyText \in Text
          BY FormIs DEF Text, AuthKinds
    <3> HIDE DEF saved, kind, text, touched
    <3>2. [f EXCEPT !.credential = saved, !.kind = kind, !.password = text, !.passwordTouched = touched] \in Form
          BY <3>1 DEF Form
    <3>3. WithoutKey([f EXCEPT !.credential = saved, !.kind = kind, !.password = text, !.passwordTouched = touched]) \in Form
          BY <3>1, <3>2 DEF WithoutKey, Form
    <3> QED BY <1>1, <3>3 DEF saved, kind, text, touched, normalizeForSubmit
  <2> QED BY <1>1, <2>1, DesktopInputIs DEF normalizeConnectionInput
<1>2. CASE f.protocol \notin Desktop
    BY <1>2, CharacterInputIs, SshInputIs DEF normalizeForSubmit, normalizeConnectionInput
<1> QED BY <1>1, <1>2

LEMMA TurnIs == ASSUME FormTypeOK, FormTurn PROVE formTurns' \in Nat
BY DEF FormTypeOK, FormTurn

\* An edit leaves everything but the form as it is.
LEMMA EditKeepsType ==
    ASSUME FormTypeOK, NEW f \in Form, NEW again, EditFormMarking(f, again)
    PROVE  FormTypeOK'
BY TurnIs DEF EditFormMarking, FormTypeOK

\* What the list shows once it has changed.
LEMMA RelistIs ==
    ASSUME NEW next \in [Profiles -> Row], dlg' \in Dialog, Relist(next)
    PROVE  connections' \in [Profiles -> Row] /\ form' \in Form /\ Clean(form') /\ form'.kind \in AuthKinds
<1>1. connections' = next
    BY DEF Relist
<1>2. CASE dlg'.how = "closed"
    BY <1>2, EmptyFormIs, EmptyIsClean DEF Relist, AuthKinds
<1>3. CASE dlg'.how # "closed"
    BY <1>3, FilledIs DEF Relist
<1> QED BY <1>1, <1>2, <1>3

LEMMA SubmitIs ==
    \A s \in Submit : /\ s.to \in Profiles /\ s.of \in Profiles \cup {"none"} /\ s.input \in Form /\ s.by \in Nat
                      /\ s.what \in {"save", "delete"}
                      /\ \A t \in {"stopping", "sent", "done", "missing", "failed"} : [s EXCEPT !.step = t] \in Submit
BY DEF Submit

LEMMA SourceIs ==
    ASSUME FormTypeOK, NEW p \in Profiles \cup {"none"}
    PROVE  SourceRow(p) \in Row /\ \A k \in AuthKinds : KeptSecret(p, k) \in Text
<1>1. SourceRow(p) \in Row
    BY NoRowIs DEF SourceRow, FormTypeOK
<1>2. SourceRow(p).ref => p \in Profiles
    BY DEF SourceRow, NoRow
<1> QED BY <1>1, <1>2 DEF KeptSecret, FormTypeOK, Text

LEMMA RefIs ==
    ASSUME NEW input \in Form, NEW row \in Row
    PROVE  /\ prepare_inline_secret(input, row).ref \in BOOLEAN
           /\ prepare_inline_secret(input, row).ref => input.mode = "inline"
           /\ prepare_inline_secret(input, row).ref /\ SecretText(input) = EmptyText =>
                row.mode = "inline" /\ row.kind = input.kind /\ row.ref
BY FormIs, RowIs DEF prepare_inline_secret, PreservedRef, NoRef, Refused

LEMMA SavedSecretIs ==
    ASSUME FormTypeOK, NEW input \in Form, NEW of \in Profiles \cup {"none"}, input.kind \in AuthKinds
    PROVE  SavedSecret(input, of) \in Text
<1>1. SecretText(input) \in Text
    BY FormIs, TrimIs DEF SecretText, SecretField
<1>2. KeptSecret(of, input.kind) \in Text
    BY SourceIs
<1> QED BY <1>1, <1>2 DEF SavedSecret, Text

\* The forms that a change of the credential mode and one of the protocol leave.
LEMMA ModeEditIs ==
    ASSUME form \in Form, NEW mode \in Modes
    PROVE  /\ [form EXCEPT !.mode = mode] \in Form
           /\ [form EXCEPT
                !.mode = mode, !.credential = mode = "saved" /\ form.credential, !.kind = "password",
                !.password = IF mode = "inline" THEN @ ELSE EmptyText,
                !.passwordTouched = mode = "inline" /\ @,
                !.path = FALSE, !.passphrase = EmptyText, !.passphraseTouched = FALSE] \in Form
<1> DEFINE saved == mode = "saved" /\ form.credential
           text == IF mode = "inline" THEN form.password ELSE EmptyText
           touched == mode = "inline" /\ form.passwordTouched
<1>1. saved \in BOOLEAN /\ touched \in BOOLEAN /\ text \in Text /\ EmptyText \in Text
    BY FormIs DEF Text
<1> HIDE DEF saved, text, touched
<1>2. [form EXCEPT !.mode = mode, !.credential = saved, !.kind = "password", !.password = text, !.passwordTouched = touched,
                   !.path = FALSE, !.passphrase = EmptyText, !.passphraseTouched = FALSE] \in Form
    BY <1>1 DEF Form, AuthKinds
<1>3. [form EXCEPT !.mode = mode] \in Form
    BY DEF Form
<1> QED BY <1>2, <1>3 DEF saved, text, touched

LEMMA ProtocolEditIs ==
    ASSUME form \in Form, NEW protocol \in Protocols
    PROVE  /\ WithoutKey([form EXCEPT
                !.protocol = protocol, !.credential = form.mode = "saved" /\ @, !.kind = "password",
                !.password = IF form.mode = "inline" THEN @ ELSE EmptyText,
                !.passwordTouched = form.mode = "inline" /\ @]) \in Form
           /\ WithoutKey([form EXCEPT
                !.protocol = protocol, !.mode = "prompt", !.credential = FALSE, !.kind = "none",
                !.password = EmptyText, !.passwordTouched = FALSE]) \in Form
           /\ [form EXCEPT
                !.protocol = protocol, !.mode = IF @ = "prompt" THEN "inline" ELSE @,
                !.kind = IF @ = "none" THEN "password" ELSE @] \in Form
<1>1. WithoutKey([form EXCEPT
                !.protocol = protocol, !.credential = form.mode = "saved" /\ @, !.kind = "password",
                !.password = IF form.mode = "inline" THEN @ ELSE EmptyText,
                !.passwordTouched = form.mode = "inline" /\ @]) \in Form
  <2> DEFINE saved == form.mode = "saved" /\ form.credential
             text == IF form.mode = "inline" THEN form.password ELSE EmptyText
             touched == form.mode = "inline" /\ form.passwordTouched
  <2>1. saved \in BOOLEAN /\ touched \in BOOLEAN /\ text \in Text /\ EmptyText \in Text
      BY FormIs DEF Text
  <2> HIDE DEF saved, text, touched
  <2>2. [form EXCEPT !.protocol = protocol, !.credential = saved, !.kind = "password", !.password = text,
                     !.passwordTouched = touched] \in Form
      BY <2>1 DEF Form, AuthKinds
  <2>3. WithoutKey([form EXCEPT !.protocol = protocol, !.credential = saved, !.kind = "password", !.password = text,
                                !.passwordTouched = touched]) \in Form
      BY <2>1, <2>2 DEF WithoutKey, Form
  <2> QED BY <2>3 DEF saved, text, touched
<1>2. WithoutKey([form EXCEPT
                !.protocol = protocol, !.mode = "prompt", !.credential = FALSE, !.kind = "none",
                !.password = EmptyText, !.passwordTouched = FALSE]) \in Form
    BY DEF WithoutKey, Form, Text, Modes
<1>3. [form EXCEPT
                !.protocol = protocol, !.mode = IF @ = "prompt" THEN "inline" ELSE @,
                !.kind = IF @ = "none" THEN "password" ELSE @] \in Form
    BY DEF Form, Modes, AuthKinds
<1> QED BY <1>1, <1>2, <1>3

LEMMA FormType == FormTypeOK /\ [FormNext]_formVars => FormTypeOK'
<1> SUFFICES ASSUME FormTypeOK, [FormNext]_formVars PROVE FormTypeOK'
    OBVIOUS
<1>0. form \in Form /\ dlg \in Dialog /\ revealing \in Reveal /\ formTurns \in Nat
    BY DEF FormTypeOK
<1>1. ASSUME NEW how \in {"new", "edit", "duplicate"}, NEW p \in Profiles, OpenDialog(how, p) PROVE FormTypeOK'
  <2>0. /\ dlg' = [how |-> how, of |-> IF how = "new" THEN "none" ELSE p,
                  from |-> IF how = "new" THEN NoRow ELSE connections[p], id |-> formTurns']
        /\ form' = FilledForm(dlg') /\ FormTurn /\ dlg.how = "closed"
        /\ UNCHANGED <<rows, slots, connections, revealing, submits, listing>>
        BY <1>1 DEF OpenDialog, DialogOpen
  <2>1. dlg' \in Dialog /\ dlg'.how = how /\ dlg'.of = IF how = "new" THEN "none" ELSE p
        BY <2>0, NoRowIs, TurnIs DEF FormTypeOK, Dialog
  <2>2. form' \in Form
        BY <2>0, <2>1, FilledIs
  <2>3. formTurns' \in Nat
        BY <2>0, TurnIs
  <2> QED BY <2>0, <2>1, <2>2, <2>3 DEF FormTypeOK
<1>2. CASE CloseDialog
  <2>1. Closed \in Dialog /\ Closed.how = "closed" /\ NoReveal \in Reveal /\ NoReveal.step = "none"
        BY NoRowIs DEF Closed, Dialog, NoReveal, Reveal, Text
  <2> QED BY <1>2, <2>1, EmptyFormIs DEF CloseDialog, FormTypeOK
<1>3. ASSUME NEW text \in SecretTexts, TypePassword(text) PROVE FormTypeOK'
  <2>1. [form EXCEPT !.kind = "password", !.password = text, !.passwordTouched = TRUE] \in Form
        BY <1>0 DEF Form, Text, AuthKinds
  <2> QED BY <1>3, <2>1, EditKeepsType DEF EditForm, TypePassword
<1>4. ASSUME NEW text \in SecretTexts, TypePassphrase(text) PROVE FormTypeOK'
  <2>1. [form EXCEPT !.passphrase = text, !.passphraseTouched = TRUE] \in Form
        BY <1>0 DEF Form, Text
  <2> QED BY <1>4, <2>1, EditKeepsType DEF EditForm, TypePassphrase
<1>5. CASE TypePath
  <2>1. [form EXCEPT !.path = ~form.path] \in Form
        BY <1>0 DEF Form
  <2> QED BY <1>5, <2>1, EditKeepsType DEF EditForm, TypePath
<1>6. ASSUME NEW mode \in Modes, changeCredentialMode(mode) PROVE FormTypeOK'
  <2> QED BY <1>0, <1>6, ModeEditIs, EditKeepsType DEF EditForm, changeCredentialMode
<1>7. CASE chooseCredential
  <2>1. /\ [form EXCEPT !.credential = TRUE, !.kind = "password", !.password = EmptyText, !.passwordTouched = FALSE] \in Form
        /\ [form EXCEPT !.credential = TRUE] \in Form
        BY <1>0 DEF Form, Text, AuthKinds
  <2> QED BY <1>7, <2>1, EditKeepsType DEF EditForm, chooseCredential
<1>8. ASSUME NEW protocol \in Protocols, changeProtocol(protocol) PROVE FormTypeOK'
  <2> QED BY <1>0, <1>8, ProtocolEditIs, EditKeepsType DEF EditForm, changeProtocol
<1>9. ASSUME NEW kind \in AuthKinds, changeInlineAuthKind(kind) PROVE FormTypeOK'
  <2>1. /\ WithoutKey([form EXCEPT !.kind = kind, !.passwordTouched = TRUE]) \in Form
        /\ [form EXCEPT !.kind = kind, !.password = EmptyText, !.passwordTouched = FALSE, !.passphraseTouched = FALSE] \in Form
        BY <1>0 DEF WithoutKey, Form, Text
  <2> QED BY <1>9, <2>1, EditKeepsType DEF EditForm, changeInlineAuthKind
<1>10. ASSUME NEW kind \in AuthKinds, revealInlineSecret(kind) PROVE FormTypeOK'
  <2>1. revealing' \in Reveal /\ revealing'.kind = kind
        BY <1>10 DEF revealInlineSecret, Reveal, Text
  <2>2. dlg.how \in {"edit", "duplicate"}
        BY <1>10, <1>0 DEF revealInlineSecret, DialogOpen, Dialog
  <2> QED BY <1>10, <2>1, <2>2 DEF revealInlineSecret, FormTypeOK
<1>11. CASE RevealReads
  <2>1. revealing.kind \in AuthKinds /\ dlg.how \in {"edit", "duplicate"} /\ dlg.of \in Profiles
        BY <1>11 DEF RevealReads, FormTypeOK
  <2>2. KeptSecret(dlg.of, revealing.kind) \in Text
        BY <2>1, SourceIs
  <2>3. revealing' \in Reveal /\ revealing'.kind \in AuthKinds \cup {"none"} /\ (revealing'.step # "none" => revealing'.kind \in AuthKinds)
        BY <1>0, <1>11, <2>1, <2>2 DEF RevealReads, Reveal, NoReveal, Text
  <2> QED BY <1>11, <2>1, <2>3 DEF RevealReads, FormTypeOK
<1>12. CASE RevealAnswers
  <2>1. form' \in Form
        BY <1>0, <1>12 DEF RevealAnswers, Form, Reveal
  <2>2. NoReveal \in Reveal /\ NoReveal.step = "none"
        BY DEF NoReveal, Reveal, Text
  <2> QED BY <1>12, <2>1, <2>2 DEF RevealAnswers, FormTypeOK
<1>13. CASE submitWithIntent
  <2>1. normalizeConnectionInput(normalizeForSubmit(form)) \in Form
        BY <1>0, NormalizedIs
  <2>2. \A to \in Profiles : [step |-> "sent", what |-> "save", by |-> dlg.id, to |-> to, of |-> dlg.of,
             input |-> normalizeConnectionInput(normalizeForSubmit(form))] \in Submit
        BY <1>0, <2>1 DEF Submit, Dialog
  <2>3. submits' \subseteq Submit
    <3>1. PICK to \in (IF dlg.how = "edit" THEN {dlg.of} ELSE {p \in Profiles : rows[p] = NoRow}) :
            submits' = submits \cup
              {[step |-> "sent", what |-> "save", by |-> dlg.id, to |-> to, of |-> dlg.of,
                input |-> normalizeConnectionInput(normalizeForSubmit(form))]}
          BY <1>13 DEF submitWithIntent
    <3>2. to \in Profiles
          BY <3>1 DEF FormTypeOK
    <3> QED BY <2>2, <3>1, <3>2 DEF FormTypeOK
  <2> QED BY <1>13, <2>3, TurnIs DEF submitWithIntent, FormTypeOK
<1>14. CASE remove
  <2>1. [step |-> "stopping", what |-> "delete", by |-> dlg.id, to |-> dlg.of, of |-> dlg.of, input |-> emptyForm] \in Submit
        BY <1>0, <1>14, EmptyFormIs DEF remove, Submit, Dialog, FormTypeOK
  <2>2. submits' \subseteq Submit
        BY <1>14, <2>1 DEF remove, FormTypeOK
  <2> QED BY <1>14, <2>2, TurnIs DEF remove, FormTypeOK
<1>15. ASSUME NEW s \in submits, TunnelsStopped(s) PROVE FormTypeOK'
  <2>1. s \in Submit
        BY DEF FormTypeOK
  <2>2. submits' \subseteq Submit /\ UNCHANGED <<rows, slots, dlg, revealing, listing, formTurns>>
        BY <1>15, <2>1, SubmitIs DEF TunnelsStopped, FormTypeOK
  <2>3. [connections EXCEPT ![s.to] = NoRow] \in [Profiles -> Row]
        BY <2>1, SubmitIs, NoRowIs DEF FormTypeOK
  <2>4. connections' \in [Profiles -> Row] /\ form' \in Form
        BY <1>15, <1>0, <2>2, <2>3, RelistIs DEF TunnelsStopped
  <2> QED BY <2>2, <2>4 DEF FormTypeOK
<1>16. ASSUME NEW s \in submits, TunnelsFail(s) PROVE FormTypeOK'
  <2>1. s \in Submit
        BY DEF FormTypeOK
  <2>2. submits' \subseteq Submit
        BY <1>16, <2>1, SubmitIs DEF TunnelsFail, FormTypeOK
  <2> QED BY <1>16, <2>2 DEF TunnelsFail, FormTypeOK
<1>17. ASSUME NEW s \in submits, connection_upsert(s) PROVE FormTypeOK'
  <2>1. s \in Submit
        BY DEF FormTypeOK
  <2>2. submits' \subseteq Submit
        BY <1>17, <2>1, SubmitIs DEF connection_upsert, FormTypeOK
  <2>3. UNCHANGED <<connections, dlg, form, busy, revealing, listing, formTurns>>
        BY <1>17 DEF connection_upsert
  <2> DEFINE ref == prepare_inline_secret(s.input, SourceRow(s.of)).ref
             v == SavedSecret(s.input, s.of)
  <2>4. ref \in BOOLEAN
        BY <2>1, SubmitIs, SourceIs, RefIs
  <2>5. RowOf(s.input, ref) \in Row
        BY <2>1, <2>4, SubmitIs, FormIs DEF RowOf, Row
  <2>6. s.input.kind \in AuthKinds => v \in Text
        BY <2>1, SubmitIs, SavedSecretIs
  <2>7. \/ UNCHANGED <<rows, slots>>
        \/ /\ rows' = [rows EXCEPT ![s.to] = RowOf(s.input, ref)]
           /\ slots' = slots \/ slots' = [slots EXCEPT ![<<s.to, s.input.kind>>] = v]
        BY <1>17 DEF connection_upsert
  <2> HIDE DEF ref, v
  <2>8. rows' \in [Profiles -> Row]
        BY <2>5, <2>7 DEF FormTypeOK
  <2>9. [slots EXCEPT ![<<s.to, s.input.kind>>] = v] \in [Profiles \X AuthKinds -> Text]
    <3> DEFINE x == <<s.to, s.input.kind>>
    <3>1. x \in Profiles \X AuthKinds => v \in Text
          BY <2>6
    <3>2. slots \in [Profiles \X AuthKinds -> Text]
          BY DEF FormTypeOK
    <3> HIDE DEF x
    <3>3. [slots EXCEPT ![x] = v] \in [Profiles \X AuthKinds -> Text]
          BY <3>1, <3>2
    <3> QED BY <3>3 DEF x
  <2>10. slots' \in [Profiles \X AuthKinds -> Text]
        BY <2>7, <2>9 DEF FormTypeOK
  <2> QED BY <2>2, <2>3, <2>8, <2>10 DEF FormTypeOK
<1>18. ASSUME NEW s \in submits, connection_delete(s) PROVE FormTypeOK'
  <2>1. s \in Submit
        BY DEF FormTypeOK
  <2>2. submits' \subseteq Submit
        BY <1>18, <2>1, SubmitIs DEF connection_delete, FormTypeOK
  <2>3. rows' \in [Profiles -> Row]
        BY <1>18, NoRowIs DEF connection_delete, FormTypeOK
  <2>4. [slots EXCEPT ![<<s.to, rows[s.to].kind>>] = EmptyText] \in [Profiles \X AuthKinds -> Text]
        BY DEF FormTypeOK, Text
  <2>5. slots' \in [Profiles \X AuthKinds -> Text]
        BY <1>18, <2>4 DEF connection_delete, FormTypeOK
  <2> QED BY <1>18, <2>2, <2>3, <2>5 DEF connection_delete, FormTypeOK
<1>19. ASSUME NEW s \in submits, SubmitAnswers(s) PROVE FormTypeOK'
  <2>1. s \in Submit /\ submits' \subseteq Submit /\ UNCHANGED <<rows, slots, formTurns>>
        BY <1>19 DEF SubmitAnswers, FormTypeOK
  <2>2. CASE s.step = "failed"
        BY <1>19, <2>1, <2>2 DEF SubmitAnswers, FormTypeOK
  <2>3. CASE s.step # "failed"
    <3> DEFINE next == IF s.what = "save" THEN [connections EXCEPT ![s.to] = rows[s.to]] ELSE connections
    <3>1. dlg' = Closed /\ revealing' = NoReveal /\ Relist(next)
          BY <1>19, <2>3 DEF SubmitAnswers
    <3>2. next \in [Profiles -> Row]
          BY <2>1, SubmitIs DEF FormTypeOK
    <3> HIDE DEF next
    <3>3. Closed \in Dialog /\ Closed.how = "closed" /\ NoReveal \in Reveal /\ NoReveal.step = "none"
          BY NoRowIs DEF Closed, Dialog, NoReveal, Reveal, Text
    <3>4. connections' \in [Profiles -> Row] /\ form' \in Form
          BY <3>1, <3>2, <3>3, RelistIs
    <3>5. [of |-> Profiles, rows |-> rows] \in Answer
          BY DEF Answer, FormTypeOK
    <3>6. listing' \subseteq Answer
          BY <1>19, <2>3, <3>5 DEF SubmitAnswers, FormTypeOK
    <3> QED BY <2>1, <3>1, <3>3, <3>4, <3>6 DEF FormTypeOK
  <2> QED BY <2>2, <2>3
<1>20. ASSUME NEW of \in SUBSET Profiles, ReadList(of) PROVE FormTypeOK'
  <2>1. [of |-> of, rows |-> rows] \in Answer
        BY DEF Answer, FormTypeOK
  <2>2. listing' \subseteq Answer
        BY <1>20, <2>1 DEF ReadList, FormTypeOK
  <2> QED BY <1>20, <2>2, TurnIs DEF ReadList, FormTypeOK
<1>21. ASSUME NEW l \in listing, ListAnswers(l) PROVE FormTypeOK'
  <2> DEFINE next == [p \in Profiles |->
                 IF l.of = Profiles THEN l.rows[p]
                 ELSE IF p \in l.of /\ connections[p] # NoRow THEN l.rows[p] ELSE connections[p]]
  <2>1. l \in Answer
        BY DEF FormTypeOK
  <2>2. next \in [Profiles -> Row]
        BY <2>1 DEF Answer, FormTypeOK
  <2>3. Relist(next) /\ listing' \subseteq Answer /\ UNCHANGED <<rows, slots, dlg, revealing, submits, formTurns>>
        BY <1>21 DEF ListAnswers, FormTypeOK
  <2> HIDE DEF next
  <2>4. connections' \in [Profiles -> Row] /\ form' \in Form
        BY <1>0, <2>2, <2>3, RelistIs
  <2> QED BY <2>3, <2>4 DEF FormTypeOK
<1>22. CASE UNCHANGED formVars
    BY <1>22 DEF formVars, FormTypeOK
<1> QED BY <1>1, <1>2, <1>3, <1>4, <1>5, <1>6, <1>7, <1>8, <1>9, <1>10, <1>11, <1>12, <1>13, <1>14, <1>15,
           <1>16, <1>17, <1>18, <1>19, <1>20, <1>21, <1>22 DEF FormNext

-----------------------------------------------------------------------------
(* The password of a connection.                                           *)

\* A save that is accepted with a password finds one: in the form, or with the row it keeps it from.
LEMMA PasswordIsFound ==
    ASSUME FormTypeOK, SecretsOK, NEW input \in Form, NEW of \in Profiles \cup {"none"},
           SaveAccepted(input, of), input.mode = "inline", input.kind = "password"
    PROVE  prepare_inline_secret(input, SourceRow(of)).ref /\ SavedSecret(input, of) # EmptyText
<1>1. SecretTouched(input) = input.passwordTouched
    BY DEF SecretTouched
<1>2. CASE SecretText(input) # EmptyText
    BY <1>1, <1>2 DEF prepare_inline_secret, SavedSecret
<1>3. CASE SecretText(input) = EmptyText
  <2>1. ~input.passwordTouched /\ ~prepare_inline_secret(input, SourceRow(of)).error
        BY <1>3 DEF SaveAccepted, Valid
  <2>2. prepare_inline_secret(input, SourceRow(of)) = PreservedRef(SourceRow(of), "password")
        BY <1>1, <1>3, <2>1 DEF prepare_inline_secret
  <2>3. SourceRow(of).mode = "inline" /\ SourceRow(of).kind = "password" /\ SourceRow(of).ref
        BY <2>1, <2>2 DEF PreservedRef, Refused, NoRef
  <2>4. of \in Profiles /\ SourceRow(of) = rows[of]
        BY <2>3 DEF SourceRow, NoRow
  <2>5. slots[<<of, "password">>] # EmptyText
        BY <2>3, <2>4 DEF SecretsOK, PasswordIsStored
  <2>6. prepare_inline_secret(input, SourceRow(of)).ref
        BY <2>2, <2>3 DEF PreservedRef
  <2>7. KeptSecret(of, "password") = slots[<<of, "password">>]
        BY <2>3 DEF KeptSecret
  <2> QED BY <1>1, <1>3, <2>5, <2>6, <2>7 DEF SavedSecret
<1> QED BY <1>2, <1>3

\* Only a save or a delete writes the table and the vault.
LEMMA StoreIsWritten ==
    ASSUME FormNext
    PROVE  \/ UNCHANGED <<rows, slots>>
           \/ \E s \in submits : connection_upsert(s) \/ connection_delete(s)
BY DEF FormNext, OpenDialog, CloseDialog, EditForm, EditFormMarking, TypePassword, TypePassphrase, TypePath, changeCredentialMode,
       chooseCredential, changeProtocol, changeInlineAuthKind, revealInlineSecret, RevealReads, RevealAnswers,
       submitWithIntent, remove, TunnelsStopped, TunnelsFail, SubmitAnswers, ReadList, ListAnswers

\* What a save that is accepted writes.
LEMMA UpsertIs ==
    ASSUME FormTypeOK, NEW s \in submits, connection_upsert(s)
    PROVE  LET ref == prepare_inline_secret(s.input, SourceRow(s.of)).ref
           IN  /\ s \in Submit /\ s.to \in Profiles /\ s.input \in Form /\ s.of \in Profiles \cup {"none"} /\ ref \in BOOLEAN
               /\ \/ UNCHANGED <<rows, slots>>
                  \/ /\ SaveAccepted(s.input, s.of)
                     /\ rows' = [rows EXCEPT ![s.to] = RowOf(s.input, ref)]
                     /\ ref => slots' = [slots EXCEPT ![<<s.to, s.input.kind>>] = SavedSecret(s.input, s.of)]
                     /\ ~ref => slots' = slots
<1>1. s \in Submit /\ s.to \in Profiles /\ s.input \in Form /\ s.of \in Profiles \cup {"none"}
    BY SubmitIs DEF FormTypeOK
<1>2. prepare_inline_secret(s.input, SourceRow(s.of)).ref \in BOOLEAN
    BY <1>1, SourceIs, RefIs
<1> QED BY <1>1, <1>2 DEF connection_upsert

LEMMA SavedIsTrimmed ==
    ASSUME FormTypeOK, SecretsOK, NEW input \in Form, NEW of \in Profiles \cup {"none"}, input.kind \in AuthKinds
    PROVE  LET v == SavedSecret(input, of)
           IN  prepare_inline_secret(input, SourceRow(of)).ref => v \in Text /\ Trimmed[v] = v
<1> SUFFICES ASSUME prepare_inline_secret(input, SourceRow(of)).ref
             PROVE  SavedSecret(input, of) \in Text /\ Trimmed[SavedSecret(input, of)] = SavedSecret(input, of)
    OBVIOUS
<1>1. CASE SecretText(input) # EmptyText
  <2>1. SavedSecret(input, of) = Trimmed[SecretField(input)] /\ SecretField(input) \in Text
        BY <1>1, FormIs DEF SavedSecret, SecretText, SecretField
  <2> QED BY <2>1, TrimIs
<1>2. CASE SecretText(input) = EmptyText
  <2>1. SourceRow(of) \in Row
        BY SourceIs
  <2>2. SourceRow(of).kind = input.kind /\ SourceRow(of).ref /\ SourceRow(of).mode = "inline"
        BY <1>2, <2>1, RefIs
  <2>3. of \in Profiles
        BY <2>2 DEF SourceRow, NoRow
  <2>4. SavedSecret(input, of) = KeptSecret(of, input.kind) /\ KeptSecret(of, input.kind) = slots[<<of, input.kind>>]
        BY <1>2, <2>2 DEF SavedSecret, KeptSecret
  <2> QED BY <2>3, <2>4 DEF SecretsOK, FormTypeOK
<1> QED BY <1>1, <1>2

LEMMA VaultStaysTrimmed ==
    ASSUME slots \in [Profiles \X AuthKinds -> Text], NEW y, NEW v, y \in Profiles \X AuthKinds => Trimmed[v] = v,
           \A x \in Profiles \X AuthKinds : Trimmed[slots[x]] = slots[x],
           slots' = slots \/ slots' = [slots EXCEPT ![y] = v]
    PROVE  \A x \in Profiles \X AuthKinds : Trimmed[slots'[x]] = slots'[x]
BY DEF Text

LEMMA SecretsStep == FormTypeOK /\ SecretsOK /\ [FormNext]_formVars => SecretsOK'
<1> SUFFICES ASSUME FormTypeOK, SecretsOK, [FormNext]_formVars PROVE SecretsOK'
    OBVIOUS
<1>0. rows \in [Profiles -> Row] /\ slots \in [Profiles \X AuthKinds -> Text]
    BY DEF FormTypeOK
<1>1. CASE UNCHANGED <<rows, slots>>
    BY <1>1 DEF SecretsOK, PasswordIsStored
<1>2. ASSUME NEW s \in submits, connection_upsert(s) PROVE SecretsOK'
  <2> DEFINE ref == prepare_inline_secret(s.input, SourceRow(s.of)).ref
             v == SavedSecret(s.input, s.of)
             new == RowOf(s.input, ref)
  <2>1. /\ s \in Submit /\ s.to \in Profiles /\ s.input \in Form /\ s.of \in Profiles \cup {"none"} /\ ref \in BOOLEAN
        /\ \/ UNCHANGED <<rows, slots>>
           \/ /\ SaveAccepted(s.input, s.of)
              /\ rows' = [rows EXCEPT ![s.to] = new]
              /\ ref => slots' = [slots EXCEPT ![<<s.to, s.input.kind>>] = v]
              /\ ~ref => slots' = slots
        BY <1>2, UpsertIs
  <2>3. ref /\ s.input.kind \in AuthKinds => Trimmed[v] = v
        BY <2>1, SavedIsTrimmed
  <2>2. CASE SaveAccepted(s.input, s.of) /\ rows' = [rows EXCEPT ![s.to] = new]
             /\ (ref => slots' = [slots EXCEPT ![<<s.to, s.input.kind>>] = v]) /\ (~ref => slots' = slots)
    <3>1. new.mode = s.input.mode /\ new.kind = s.input.kind /\ new.ref = ref
          BY DEF RowOf
    <3>2. s.input.mode = "inline" /\ s.input.kind = "password" => ref /\ v # EmptyText
          BY <2>1, <2>2, PasswordIsFound
    <3>3. ref => s.input.mode = "inline"
          BY <2>1, SourceIs, RefIs
    <3> HIDE DEF ref, v, new
    <3>4. ASSUME NEW p \in Profiles
          PROVE  /\ rows'[p].mode = "inline" /\ rows'[p].kind = "password" => rows'[p].ref /\ slots'[<<p, "password">>] # EmptyText
                 /\ rows'[p].ref => rows'[p].mode = "inline"
      <4>1. CASE p = s.to
        <5>1. rows'[p] = new
              BY <4>1, <1>0, <2>2
        <5>2. s.input.kind = "password" /\ ref => slots'[<<p, "password">>] = v
              BY <4>1, <1>0, <2>2 DEF AuthKinds
        <5> QED BY <3>1, <3>2, <3>3, <5>1, <5>2
      <4>2. CASE p # s.to
        <5>1. rows'[p] = rows[p]
              BY <4>2, <1>0, <2>2
        <5>2. <<p, "password">> # <<s.to, s.input.kind>> /\ <<p, "password">> \in Profiles \X AuthKinds
              BY <4>2 DEF AuthKinds
        <5>3. slots'[<<p, "password">>] = slots[<<p, "password">>]
              BY <1>0, <2>1, <2>2, <5>2
        <5> QED BY <5>1, <5>3 DEF SecretsOK, PasswordIsStored
      <4> QED BY <4>1, <4>2
    <3>5. \A x \in Profiles \X AuthKinds : Trimmed[slots'[x]] = slots'[x]
      <4>1. ref => (<<s.to, s.input.kind>> \in Profiles \X AuthKinds => Trimmed[v] = v)
            BY <2>3
      <4>2. \A x \in Profiles \X AuthKinds : Trimmed[slots[x]] = slots[x]
            BY DEF SecretsOK
      <4> DEFINE y == <<s.to, s.input.kind>>
      <4>3. (ref => (y \in Profiles \X AuthKinds => Trimmed[v] = v) /\ slots' = [slots EXCEPT ![y] = v]) /\ (~ref => slots' = slots)
            BY <2>2, <4>1
      <4> HIDE DEF y
      <4> QED BY <1>0, <4>2, <4>3, VaultStaysTrimmed
    <3> QED BY <3>4, <3>5 DEF SecretsOK, PasswordIsStored
  <2> QED BY <1>1, <2>1, <2>2
<1>3. ASSUME NEW s \in submits, connection_delete(s) PROVE SecretsOK'
  <2>1. s.to \in Profiles
        BY SubmitIs DEF FormTypeOK
  <2>2. /\ rows' = [rows EXCEPT ![s.to] = NoRow]
        /\ slots' = slots \/ slots' = [slots EXCEPT ![<<s.to, rows[s.to].kind>>] = EmptyText]
        BY <1>3 DEF connection_delete
  <2>3. NoRow.mode = "none" /\ ~NoRow.ref
        BY DEF NoRow
  <2>4. ASSUME NEW p \in Profiles, p # s.to PROVE rows'[p] = rows[p] /\ slots'[<<p, "password">>] = slots[<<p, "password">>]
    <3>1. rows'[p] = rows[p]
          BY <1>0, <2>2, <2>4
    <3>2. <<p, "password">> # <<s.to, rows[s.to].kind>> /\ <<p, "password">> \in Profiles \X AuthKinds
          BY <2>4 DEF AuthKinds
    <3> QED BY <1>0, <2>2, <3>1, <3>2
  <2>5. rows'[s.to] = NoRow
        BY <1>0, <2>1, <2>2
  <2>6. \A x \in Profiles \X AuthKinds : Trimmed[slots'[x]] = slots'[x]
        BY <1>0, <2>2, TrimIs, VaultStaysTrimmed DEF SecretsOK
  <2> QED BY <2>3, <2>4, <2>5, <2>6 DEF SecretsOK, PasswordIsStored
<1> QED BY <1>1, <1>2, <1>3, StoreIsWritten DEF formVars

LEMMA FormStart == FormInit => FormTypeOK /\ SecretsOK
<1> SUFFICES ASSUME FormInit PROVE FormTypeOK /\ SecretsOK
    OBVIOUS
<1> USE FormAssumption
<1>1. PICK row \in {StoredRow, KeyRow} :
        /\ rows = [p \in Profiles |-> IF p = Stored THEN row ELSE NoRow]
        /\ slots = [s \in Profiles \X AuthKinds |-> IF s = <<Stored, row.kind>> THEN StoredSecret ELSE EmptyText]
        /\ connections = rows
        /\ dlg = Closed /\ form = emptyForm /\ busy = FALSE
        /\ revealing = NoReveal /\ submits = {} /\ listing = {}
        /\ formTurns = 0 /\ rechosen = FALSE
    BY DEF FormInit
<1>2. row \in Row /\ row.mode = "inline" /\ row.ref = TRUE /\ row.kind \in AuthKinds
  <2>1. StoredRow \in Row /\ StoredRow.mode = "inline" /\ StoredRow.ref = TRUE /\ StoredRow.kind \in AuthKinds
        BY DEF StoredRow, Row, Modes, AuthKinds
  <2>2. KeyRow \in Row /\ KeyRow.mode = "inline" /\ KeyRow.ref = TRUE /\ KeyRow.kind \in AuthKinds
        BY <2>1 DEF KeyRow, Row, AuthKinds
  <2> QED BY <1>1, <2>1, <2>2
<1>3. Closed \in Dialog /\ Closed.how = "closed" /\ NoReveal \in Reveal /\ NoReveal.step = "none"
    BY NoRowIs DEF Closed, Dialog, NoReveal, Reveal, Text
<1>4. rows \in [Profiles -> Row]
    BY <1>1, <1>2, NoRowIs
<1>5. slots \in [Profiles \X AuthKinds -> Text]
    BY <1>1 DEF Text
<1>6. FormTypeOK
    BY <1>1, <1>3, <1>4, <1>5, EmptyFormIs DEF FormTypeOK
<1>7. NoRow.mode = "none" /\ NoRow.ref = FALSE
    BY DEF NoRow
<1>8. ASSUME NEW p \in Profiles
      PROVE  /\ rows[p].mode = "inline" /\ rows[p].kind = "password" => rows[p].ref /\ slots[<<p, "password">>] # EmptyText
             /\ rows[p].ref => rows[p].mode = "inline"
  <2>1. CASE p = Stored
        BY <1>1, <1>2, <2>1 DEF AuthKinds
  <2>2. CASE p # Stored
        BY <1>1, <1>7, <2>2
  <2> QED BY <2>1, <2>2
<1>9. \A x \in Profiles \X AuthKinds : Trimmed[slots[x]] = slots[x]
    BY <1>1, TrimIs
<1> QED BY <1>6, <1>8, <1>9 DEF SecretsOK, PasswordIsStored

(***************************************************************************)
(* A connection that logs in with a password of its own has one in the     *)
(* vault, for any number of connections and dialogs, edits and saves in    *)
(* any order (connection_upsert, prepare_inline_secret).                   *)
(***************************************************************************)
THEOREM PasswordStaysStored == FormSpec => []PasswordIsStored
<1> DEFINE Inv == FormTypeOK /\ SecretsOK
<1>1. FormInit => Inv
    BY FormStart
<1>2. Inv /\ [FormNext]_formVars => Inv'
    BY FormType, SecretsStep
<1>3. Inv => PasswordIsStored
    BY DEF SecretsOK
<1> QED BY <1>1, <1>2, <1>3, PTL DEF FormSpec

-----------------------------------------------------------------------------
(* What the form shows.                                                    *)

\* No save or delete has been done that the dialog has not heard of.
Quiet == \A s \in submits : s.step \notin {"done", "missing"}

\* The secret is the one that the connection of the dialog refers to.
Held(kind, secret) ==
    secret # EmptyText => /\ SourceRow(dlg.of).mode = "inline" /\ SourceRow(dlg.of).kind = kind /\ SourceRow(dlg.of).ref
                   /\ slots[<<dlg.of, kind>>] = secret

KindOK(f) ==
    /\ f.protocol \notin Character => f.kind \in AuthKinds
    /\ f.passphraseTouched => f.protocol = "ssh" /\ f.kind = "private_key"

\* A text the user has not touched is a stored secret that was revealed.
ShownOK ==
    /\ KindOK(form)
    /\ DialogOpen /\ Quiet =>
         /\ ~form.passwordTouched => Held("password", form.password)
         /\ ~form.passphraseTouched /\ ~rechosen => Held("private_key", form.passphrase)
         /\ revealing.step = "read" => Held(revealing.kind, revealing.secret)

FormInv == FormTypeOK /\ SecretsOK /\ ShownOK

LEMMA CleanIsOK ==
    ASSUME NEW f \in Form, Clean(f), f.kind \in AuthKinds
    PROVE  /\ KindOK(f)
           /\ f.password = EmptyText /\ f.passphrase = EmptyText
BY DEF Clean, KindOK

\* An edit makes no text untouched, and changes none that it leaves so.
LEMMA EditKeepsShown ==
    ASSUME FormTypeOK, ShownOK, NEW f \in Form, NEW again, EditFormMarking(f, again), KindOK(f),
           ~f.passwordTouched /\ f.password # EmptyText => ~form.passwordTouched /\ f.password = form.password,
           ~f.passphraseTouched /\ f.passphrase # EmptyText /\ ~again =>
              ~form.passphraseTouched /\ ~rechosen /\ f.passphrase = form.passphrase
    PROVE  ShownOK'
<1>1. form' = f /\ rechosen' = again /\ UNCHANGED <<rows, slots, dlg, revealing, submits>> /\ DialogOpen
    BY DEF EditFormMarking
<1>2. Quiet' = Quiet /\ DialogOpen' /\ KindOK(form')
    BY <1>1 DEF Quiet, DialogOpen
<1>3. \A k, x : Held(k, x)' = Held(k, x)
    BY <1>1 DEF Held, SourceRow
<1>4. Quiet => /\ ~form.passwordTouched => Held("password", form.password)
               /\ ~form.passphraseTouched /\ ~rechosen => Held("private_key", form.passphrase)
               /\ revealing.step = "read" => Held(revealing.kind, revealing.secret)
    BY <1>1 DEF ShownOK
<1>5. Quiet /\ ~f.passwordTouched => Held("password", f.password)
    BY <1>4 DEF Held
<1>6. Quiet /\ ~f.passphraseTouched /\ ~again => Held("private_key", f.passphrase)
    BY <1>4 DEF Held
<1> QED BY <1>1, <1>2, <1>3, <1>4, <1>5, <1>6 DEF ShownOK

LEMMA PlainEditKeepsShown ==
    ASSUME FormTypeOK, ShownOK, NEW f \in Form, EditForm(f), KindOK(f),
           ~f.passwordTouched /\ f.password # EmptyText => ~form.passwordTouched /\ f.password = form.password,
           ~f.passphraseTouched /\ f.passphrase # EmptyText => ~form.passphraseTouched /\ f.passphrase = form.passphrase
    PROVE  ShownOK'
BY EditKeepsShown DEF EditForm

\* A step that leaves the form and the dialog as they are, and the store too if it is quiet.
LEMMA QuietKeepsShown ==
        ASSUME ShownOK, UNCHANGED <<dlg, form, revealing, rechosen>>, Quiet' => Quiet /\ UNCHANGED <<rows, slots>>
    PROVE  ShownOK'
<1>1. Quiet' => \A k, x : Held(k, x)' = Held(k, x)
    BY DEF Held, SourceRow
<1> QED BY <1>1 DEF ShownOK, DialogOpen

\* A step after which the form is filled anew.
LEMMA FilledKeepsShown ==
    ASSUME ShownOK, form' \in Form, Clean(form'), form'.kind \in AuthKinds,
           \/ UNCHANGED <<dlg, revealing, rows, slots>> /\ (Quiet' => Quiet)
           \/ revealing'.step # "read"
    PROVE  ShownOK'
<1>1. KindOK(form') /\ form'.password = EmptyText /\ form'.passphrase = EmptyText
    BY CleanIsOK
<1>2. Held("password", form.password)' /\ Held("private_key", form.passphrase)'
    BY <1>1 DEF Held
<1>3. CASE revealing'.step # "read"
    BY <1>1, <1>2, <1>3 DEF ShownOK
<1>4. CASE UNCHANGED <<dlg, revealing, rows, slots>> /\ (Quiet' => Quiet)
  <2>1. \A k, x : Held(k, x)' = Held(k, x)
        BY <1>4 DEF Held, SourceRow
  <2> QED BY <1>1, <1>2, <1>4, <2>1 DEF ShownOK, DialogOpen
<1> QED BY <1>3, <1>4

LEMMA ShownStep ==
    ASSUME FormInv, [FormNext]_formVars
    PROVE  ShownOK'
<1>0. /\ FormTypeOK /\ ShownOK /\ KindOK(form)
      /\ form \in Form /\ dlg \in Dialog /\ revealing \in Reveal /\ submits \subseteq Submit
    BY DEF FormInv, ShownOK, FormTypeOK
<1>1. ASSUME NEW how \in {"new", "edit", "duplicate"}, NEW p \in Profiles, OpenDialog(how, p) PROVE ShownOK'
  <2>1. form' = FilledForm(dlg') /\ dlg.how = "closed" /\ revealing' = revealing
        BY <1>1 DEF OpenDialog, DialogOpen
  <2>2. dlg' \in Dialog
        BY <1>0, <1>1, FormType DEF FormTypeOK, FormNext
  <2>3. revealing'.step # "read"
        BY <1>0, <2>1 DEF FormTypeOK
  <2> QED BY <1>0, <2>1, <2>2, <2>3, FilledIs, FilledKeepsShown
<1>2. CASE CloseDialog
  <2>1. form' = emptyForm /\ revealing' = NoReveal
        BY <1>2 DEF CloseDialog
  <2>2. revealing'.step # "read" /\ "password" \in AuthKinds
        BY <2>1 DEF NoReveal, AuthKinds
  <2> QED BY <1>0, <2>1, <2>2, EmptyFormIs, EmptyIsClean, FilledKeepsShown
<1>3. ASSUME NEW text \in SecretTexts, TypePassword(text) PROVE ShownOK'
  <2> DEFINE f == [form EXCEPT !.kind = "password", !.password = text, !.passwordTouched = TRUE]
  <2>1. f \in Form
        BY <1>0 DEF Form, Text, AuthKinds
  <2>2. /\ f.protocol = form.protocol /\ f.kind = "password" /\ f.passwordTouched
        /\ f.passphrase = form.passphrase /\ f.passphraseTouched = form.passphraseTouched
        BY <1>0 DEF Form
  <2>3. EditForm(f) /\ (form.protocol = "ssh" => form.kind = "password")
        BY <1>3 DEF TypePassword, PasswordShown
  <2> HIDE DEF f
  <2>4. KindOK(f)
        BY <1>0, <2>2, <2>3 DEF KindOK, AuthKinds
  <2> QED BY <1>0, <2>1, <2>2, <2>3, <2>4, PlainEditKeepsShown
<1>4. ASSUME NEW text \in SecretTexts, TypePassphrase(text) PROVE ShownOK'
  <2> DEFINE f == [form EXCEPT !.passphrase = text, !.passphraseTouched = TRUE]
  <2>1. f \in Form
        BY <1>0 DEF Form, Text
  <2>2. /\ f.protocol = form.protocol /\ f.kind = form.kind /\ f.passphraseTouched
        /\ f.password = form.password /\ f.passwordTouched = form.passwordTouched
        BY <1>0 DEF Form
  <2>3. EditForm(f) /\ form.protocol = "ssh" /\ form.kind = "private_key"
        BY <1>4 DEF TypePassphrase, PassphraseShown
  <2> HIDE DEF f
  <2>4. KindOK(f)
        BY <2>2, <2>3 DEF KindOK, AuthKinds
  <2> QED BY <1>0, <2>1, <2>2, <2>3, <2>4, PlainEditKeepsShown
<1>5. CASE TypePath
  <2> DEFINE f == [form EXCEPT !.path = ~form.path]
  <2>1. f \in Form
        BY <1>0 DEF Form
  <2>2. /\ f.protocol = form.protocol /\ f.kind = form.kind
        /\ f.password = form.password /\ f.passwordTouched = form.passwordTouched
        /\ f.passphrase = form.passphrase /\ f.passphraseTouched = form.passphraseTouched
        BY <1>0 DEF Form
  <2>3. EditForm(f)
        BY <1>5 DEF TypePath
  <2> HIDE DEF f
  <2>4. KindOK(f)
        BY <1>0, <2>2 DEF KindOK
  <2> QED BY <1>0, <2>1, <2>2, <2>3, <2>4, PlainEditKeepsShown
<1>6. ASSUME NEW mode \in Modes, changeCredentialMode(mode) PROVE ShownOK'
  <2> DEFINE f == [form EXCEPT !.mode = mode]
             g == [form EXCEPT
                !.mode = mode, !.credential = mode = "saved" /\ form.credential, !.kind = "password",
                !.password = IF mode = "inline" THEN @ ELSE EmptyText,
                !.passwordTouched = mode = "inline" /\ @,
                !.path = FALSE, !.passphrase = EmptyText, !.passphraseTouched = FALSE]
  <2>1. f \in Form /\ g \in Form
        BY <1>0, ModeEditIs
  <2>2. /\ f.protocol = form.protocol /\ f.kind = form.kind
        /\ f.password = form.password /\ f.passwordTouched = form.passwordTouched
        /\ f.passphrase = form.passphrase /\ f.passphraseTouched = form.passphraseTouched
        BY <1>0 DEF Form
  <2>3. /\ g.kind = "password" /\ g.password = (IF mode = "inline" THEN form.password ELSE EmptyText)
        /\ g.passwordTouched = (mode = "inline" /\ form.passwordTouched)
        /\ g.passphrase = EmptyText /\ g.passphraseTouched = FALSE
        BY <1>0 DEF Form
  <2>4. EditForm(f) \/ EditForm(g)
        BY <1>6 DEF changeCredentialMode
  <2> HIDE DEF f, g
  <2>5. KindOK(f) /\ KindOK(g)
        BY <1>0, <2>2, <2>3 DEF KindOK, AuthKinds
  <2>6. ~g.passwordTouched /\ g.password # EmptyText => ~form.passwordTouched /\ g.password = form.password
        BY <2>3
  <2>7. CASE EditForm(f)
        BY <1>0, <2>1, <2>2, <2>5, <2>7, PlainEditKeepsShown
  <2>8. CASE EditForm(g)
        BY <1>0, <2>1, <2>3, <2>5, <2>6, <2>8, PlainEditKeepsShown
  <2> QED BY <2>4, <2>7, <2>8
<1>7. CASE chooseCredential
  <2> DEFINE f == [form EXCEPT !.credential = TRUE]
             g == [form EXCEPT !.credential = TRUE, !.kind = "password", !.password = EmptyText, !.passwordTouched = FALSE]
  <2>1. f \in Form /\ g \in Form
        BY <1>0 DEF Form, Text, AuthKinds
  <2>2. /\ f.protocol = form.protocol /\ f.kind = form.kind
        /\ f.password = form.password /\ f.passwordTouched = form.passwordTouched
        /\ f.passphrase = form.passphrase /\ f.passphraseTouched = form.passphraseTouched
        BY <1>0 DEF Form
  <2>3. /\ g.kind = "password" /\ g.password = EmptyText /\ g.protocol = form.protocol
        /\ g.passphrase = form.passphrase /\ g.passphraseTouched = form.passphraseTouched
        BY <1>0 DEF Form
  <2>4. EditForm(f) \/ (EditForm(g) /\ form.protocol \in Desktop)
        BY <1>7 DEF chooseCredential
  <2> HIDE DEF f, g
  <2>5. KindOK(f) /\ (form.protocol \in Desktop => KindOK(g))
        BY <1>0, <2>2, <2>3 DEF KindOK, AuthKinds, Desktop
  <2>7. CASE EditForm(f)
        BY <1>0, <2>1, <2>2, <2>5, <2>7, PlainEditKeepsShown
  <2>8. CASE EditForm(g) /\ form.protocol \in Desktop
        BY <1>0, <2>1, <2>3, <2>5, <2>8, PlainEditKeepsShown
  <2> QED BY <2>4, <2>7, <2>8
<1>8. ASSUME NEW protocol \in Protocols, changeProtocol(protocol) PROVE ShownOK'
  <2> DEFINE d == WithoutKey([form EXCEPT
                !.protocol = protocol, !.credential = form.mode = "saved" /\ @, !.kind = "password",
                !.password = IF form.mode = "inline" THEN @ ELSE EmptyText,
                !.passwordTouched = form.mode = "inline" /\ @])
             c == WithoutKey([form EXCEPT
                !.protocol = protocol, !.mode = "prompt", !.credential = FALSE, !.kind = "none",
                !.password = EmptyText, !.passwordTouched = FALSE])
             f == [form EXCEPT
                !.protocol = protocol, !.mode = IF @ = "prompt" THEN "inline" ELSE @,
                !.kind = IF @ = "none" THEN "password" ELSE @]
  <2>1. d \in Form /\ c \in Form
        BY <1>0, ProtocolEditIs
  <2>2. f \in Form
        BY <1>0, ProtocolEditIs
  <2>3. /\ d.kind = "password" /\ d.password = (IF form.mode = "inline" THEN form.password ELSE EmptyText)
        /\ d.passwordTouched = (form.mode = "inline" /\ form.passwordTouched)
        /\ d.passphrase = EmptyText /\ d.passphraseTouched = FALSE
        BY <1>0 DEF WithoutKey, Form
  <2>4. c.protocol = protocol /\ c.password = EmptyText /\ c.passphrase = EmptyText /\ c.passphraseTouched = FALSE
        BY <1>0 DEF WithoutKey, Form
  <2>5. /\ f.protocol = protocol /\ f.kind = (IF form.kind = "none" THEN "password" ELSE form.kind)
        /\ f.password = form.password /\ f.passwordTouched = form.passwordTouched
        /\ f.passphrase = form.passphrase /\ f.passphraseTouched = form.passphraseTouched
        BY <1>0 DEF Form
  <2>6. \/ EditForm(d)
        \/ EditForm(c) /\ protocol \in Character
        \/ EditForm(f) /\ protocol \notin Desktop \cup Character /\ protocol # form.protocol
        BY <1>8 DEF changeProtocol
  <2> HIDE DEF d, c, f
  <2>7. CASE EditForm(d)
    <3>1. KindOK(d)
          BY <2>3 DEF KindOK, AuthKinds
    <3>2. ~d.passwordTouched /\ d.password # EmptyText => ~form.passwordTouched /\ d.password = form.password
          BY <2>3
    <3> QED BY <1>0, <2>1, <2>3, <2>7, <3>1, <3>2, PlainEditKeepsShown
  <2>8. CASE EditForm(c) /\ protocol \in Character
    <3>1. KindOK(c)
          BY <2>4, <2>8 DEF KindOK
    <3> QED BY <1>0, <2>1, <2>4, <2>8, <3>1, PlainEditKeepsShown
  <2>9. CASE EditForm(f) /\ protocol \notin Desktop \cup Character /\ protocol # form.protocol
    <3>1. protocol = "ssh"
          BY <2>9, FormAssumption DEF Desktop, Character
    <3>2. f.kind \in AuthKinds /\ form.passphraseTouched = FALSE
          BY <1>0, <2>5, <2>9, <3>1, FormIs DEF AuthKinds, KindOK
    <3>3. KindOK(f)
          BY <2>5, <3>2 DEF KindOK
    <3> QED BY <1>0, <2>2, <2>5, <2>9, <3>3, PlainEditKeepsShown
  <2> QED BY <2>6, <2>7, <2>8, <2>9
<1>9. ASSUME NEW kind \in AuthKinds, changeInlineAuthKind(kind) PROVE ShownOK'
  <2> DEFINE f == WithoutKey([form EXCEPT !.kind = kind, !.passwordTouched = TRUE])
             g == [form EXCEPT !.kind = kind, !.password = EmptyText, !.passwordTouched = FALSE, !.passphraseTouched = FALSE]
  <2>1. f \in Form /\ g \in Form
        BY <1>0 DEF WithoutKey, Form, Text
  <2>2. f.kind = kind /\ f.passwordTouched = TRUE /\ f.passphrase = EmptyText /\ f.passphraseTouched = FALSE
        BY <1>0 DEF WithoutKey, Form
  <2>3. g.kind = kind /\ g.password = EmptyText /\ g.passphrase = form.passphrase /\ g.passphraseTouched = FALSE
        BY <1>0 DEF Form
  <2> DEFINE again == rechosen \/ (form.passphraseTouched /\ form.passphrase # EmptyText)
  <2>4. EditForm(f) \/ EditFormMarking(g, again)
        BY <1>9 DEF changeInlineAuthKind
  <2> HIDE DEF f, g
  <2>6. KindOK(f) /\ KindOK(g)
        BY <2>2, <2>3 DEF KindOK
  <2>7. CASE EditForm(f)
        BY <1>0, <2>1, <2>2, <2>6, <2>7, PlainEditKeepsShown
  <2>8. CASE EditFormMarking(g, again)
        BY <1>0, <2>1, <2>3, <2>6, <2>8, EditKeepsShown
  <2> QED BY <2>4, <2>7, <2>8
<1>10. ASSUME NEW kind \in AuthKinds, revealInlineSecret(kind) PROVE ShownOK'
  <2>1. revealing' = [step |-> "asked", kind |-> kind, secret |-> EmptyText] /\ UNCHANGED <<rows, slots, dlg, form, submits, rechosen>>
        BY <1>10 DEF revealInlineSecret
  <2>2. revealing'.step # "read"
        BY <2>1
  <2>3. \A k, x : Held(k, x)' = Held(k, x)
        BY <2>1 DEF Held, SourceRow
  <2> QED BY <1>0, <2>1, <2>2, <2>3 DEF ShownOK, DialogOpen, Quiet
<1>11. CASE RevealReads
  <2>1. revealing.kind \in AuthKinds /\ dlg.of \in Profiles /\ revealing.step = "asked"
        BY <1>0, <1>11 DEF RevealReads, FormTypeOK
  <2>2. UNCHANGED <<rows, slots, dlg, form, submits, rechosen>>
        BY <1>11 DEF RevealReads
  <2>3. SourceRow(dlg.of) = rows[dlg.of]
        BY <2>1, FormAssumption DEF SourceRow
  <2>4. revealing'.step = "read" => /\ rows[dlg.of].mode = "inline" /\ rows[dlg.of].kind = revealing'.kind
                                    /\ revealing'.secret = KeptSecret(dlg.of, revealing'.kind)
        BY <1>0, <1>11 DEF RevealReads, NoReveal, Reveal
  <2>5. revealing'.step = "read" => Held(revealing'.kind, revealing'.secret)
        BY <2>3, <2>4 DEF Held, KeptSecret
  <2>6. \A k, x : Held(k, x)' = Held(k, x)
        BY <2>2 DEF Held, SourceRow
  <2> QED BY <1>0, <2>2, <2>5, <2>6 DEF ShownOK, DialogOpen, Quiet
<1>12. CASE RevealAnswers
  <2>1. revealing.step = "read" /\ revealing' = NoReveal /\ UNCHANGED <<rows, slots, dlg, submits>>
        BY <1>12 DEF RevealAnswers
  <2>2. revealing'.step # "read"
        BY <2>1 DEF NoReveal
  <2>3. \A k, x : Held(k, x)' = Held(k, x)
        BY <2>1 DEF Held, SourceRow
  <2>4. Quiet' = Quiet /\ DialogOpen' = DialogOpen
        BY <2>1 DEF Quiet, DialogOpen
  <2>5. CASE revealing.kind = "password"
    <3>1. /\ form'.password = revealing.secret /\ form'.passphrase = form.passphrase
          /\ form'.passphraseTouched = form.passphraseTouched
          /\ form'.protocol = form.protocol /\ form'.kind = form.kind /\ (rechosen => rechosen')
          BY <1>0, <1>12, <2>5 DEF RevealAnswers, Form
    <3>2. KindOK(form')
          BY <1>0, <3>1 DEF KindOK
    <3> QED BY <1>0, <2>1, <2>2, <2>3, <2>4, <2>5, <3>1, <3>2 DEF ShownOK
  <2>6. CASE revealing.kind # "password"
    <3>1. /\ form'.passphrase = revealing.secret /\ form'.password = form.password
          /\ form'.passwordTouched = form.passwordTouched /\ form'.passphraseTouched = FALSE
          /\ form'.protocol = form.protocol /\ form'.kind = form.kind
          BY <1>0, <1>12, <2>6 DEF RevealAnswers, Form
    <3>2. KindOK(form')
          BY <1>0, <3>1 DEF KindOK
    <3>3. revealing.kind = "private_key"
          BY <1>0, <2>1, <2>6 DEF FormTypeOK, AuthKinds
    <3> QED BY <1>0, <2>1, <2>2, <2>3, <2>4, <3>1, <3>2, <3>3 DEF ShownOK
  <2> QED BY <2>5, <2>6
<1>13. CASE submitWithIntent \/ remove
  <2>1. submits \subseteq submits' /\ UNCHANGED <<dlg, form, revealing, rows, slots, rechosen>>
        BY <1>13 DEF submitWithIntent, remove
  <2> QED BY <1>0, <2>1, QuietKeepsShown DEF Quiet
<1>14. ASSUME NEW s \in submits, TunnelsStopped(s) PROVE ShownOK'
  <2>1. s \in Submit /\ s.step = "stopping" /\ submits' = (submits \ {s}) \cup {[s EXCEPT !.step = "sent"]}
        BY <1>0, <1>14 DEF TunnelsStopped
  <2>2. Quiet' => Quiet
        BY <2>1 DEF Quiet
  <2>3. UNCHANGED <<dlg, revealing, rows, slots>> /\ Relist([connections EXCEPT ![s.to] = NoRow])
        BY <1>14 DEF TunnelsStopped
  <2>4. [connections EXCEPT ![s.to] = NoRow] \in [Profiles -> Row]
        BY <1>0, <2>1, SubmitIs, NoRowIs DEF FormTypeOK
  <2>5. form' \in Form /\ Clean(form') /\ form'.kind \in AuthKinds
        BY <1>0, <2>3, <2>4, RelistIs
  <2> QED BY <1>0, <2>2, <2>3, <2>5, FilledKeepsShown
<1>15. ASSUME NEW s \in submits, TunnelsFail(s) PROVE ShownOK'
  <2>1. s.step = "stopping" /\ submits \ {s} \subseteq submits' /\ UNCHANGED <<dlg, form, revealing, rows, slots, rechosen>>
        BY <1>15 DEF TunnelsFail
  <2>2. Quiet' => Quiet
        BY <2>1 DEF Quiet
  <2> QED BY <1>0, <2>1, <2>2, QuietKeepsShown
<1>16. ASSUME NEW s \in submits, connection_upsert(s) PROVE ShownOK'
  <2> DEFINE done == [s EXCEPT !.step = "done"]
  <2>1. s.step = "sent" /\ submits \ {s} \subseteq submits' /\ UNCHANGED <<dlg, form, revealing, rechosen>>
        BY <1>16 DEF connection_upsert
  <2>2. UNCHANGED <<rows, slots>> \/ done \in submits'
        BY <1>16 DEF connection_upsert
  <2>3. done.step = "done"
        BY <1>0 DEF Submit
  <2> HIDE DEF done
  <2>4. Quiet' => Quiet /\ UNCHANGED <<rows, slots>>
        BY <2>1, <2>2, <2>3 DEF Quiet
  <2> QED BY <1>0, <2>1, <2>4, QuietKeepsShown
<1>17. ASSUME NEW s \in submits, connection_delete(s) PROVE ShownOK'
  <2>1. UNCHANGED <<dlg, form, revealing, rechosen>>
        BY <1>17 DEF connection_delete
  <2>2. \E t \in {"done", "missing"} : [s EXCEPT !.step = t] \in submits'
        BY <1>17 DEF connection_delete
  <2>3. \A t \in {"done", "missing"} : [s EXCEPT !.step = t].step = t
        BY <1>0 DEF Submit
  <2>4. ~Quiet'
        BY <2>2, <2>3 DEF Quiet
  <2> QED BY <1>0, <2>1, <2>4, QuietKeepsShown
<1>18. ASSUME NEW s \in submits, SubmitAnswers(s) PROVE ShownOK'
  <2>1. s \in Submit /\ s.step \in {"done", "missing", "failed"} /\ submits' = submits \ {s} /\ UNCHANGED <<rows, slots>>
        BY <1>0, <1>18 DEF SubmitAnswers
  <2>2. CASE s.step = "failed"
    <3>1. UNCHANGED <<dlg, form, revealing, rechosen>>
          BY <1>18, <2>2 DEF SubmitAnswers
    <3>2. Quiet' => Quiet
          BY <2>1, <2>2 DEF Quiet
    <3> QED BY <1>0, <2>1, <3>1, <3>2, QuietKeepsShown
  <2>3. CASE s.step # "failed"
    <3> DEFINE next == IF s.what = "save" THEN [connections EXCEPT ![s.to] = rows[s.to]] ELSE connections
    <3>1. dlg' = Closed /\ revealing' = NoReveal /\ Relist(next)
          BY <1>18, <2>3 DEF SubmitAnswers
    <3>2. next \in [Profiles -> Row]
          BY <1>0, <2>1, SubmitIs DEF FormTypeOK
    <3> HIDE DEF next
    <3>3. Closed \in Dialog /\ NoReveal.step # "read"
          BY NoRowIs DEF Closed, Dialog, NoReveal
    <3>4. form' \in Form /\ Clean(form') /\ form'.kind \in AuthKinds
          BY <3>1, <3>2, <3>3, RelistIs
    <3> QED BY <1>0, <3>1, <3>3, <3>4, FilledKeepsShown
  <2> QED BY <2>2, <2>3
<1>19. ASSUME NEW of \in SUBSET Profiles, ReadList(of) PROVE ShownOK'
  <2>1. UNCHANGED <<rows, slots, dlg, form, revealing, submits, rechosen>>
        BY <1>19 DEF ReadList
  <2> QED BY <1>0, <2>1, QuietKeepsShown DEF Quiet
<1>20. ASSUME NEW l \in listing, ListAnswers(l) PROVE ShownOK'
  <2> DEFINE next == [p \in Profiles |->
                 IF l.of = Profiles THEN l.rows[p]
                 ELSE IF p \in l.of /\ connections[p] # NoRow THEN l.rows[p] ELSE connections[p]]
  <2>1. next \in [Profiles -> Row]
        BY <1>0 DEF Answer, FormTypeOK
  <2>2. Relist(next) /\ UNCHANGED <<rows, slots, dlg, revealing, submits>>
        BY <1>20 DEF ListAnswers
  <2> HIDE DEF next
  <2>3. form' \in Form /\ Clean(form') /\ form'.kind \in AuthKinds
        BY <1>0, <2>1, <2>2, RelistIs
  <2>4. Quiet' => Quiet
        BY <2>2 DEF Quiet
  <2> QED BY <1>0, <2>2, <2>3, <2>4, FilledKeepsShown
<1>21. CASE UNCHANGED formVars
    BY <1>0, <1>21, QuietKeepsShown DEF formVars, Quiet
<1> QED BY <1>1, <1>2, <1>3, <1>4, <1>5, <1>6, <1>7, <1>8, <1>9, <1>10, <1>11, <1>12, <1>13, <1>14, <1>15,
           <1>16, <1>17, <1>18, <1>19, <1>20, <1>21 DEF FormNext

\* A secret of the same kind is kept when the field was left alone.
LEMMA RefIsKept ==
    ASSUME NEW input, NEW row, input.mode = "inline", SecretText(input) = EmptyText, ~SecretTouched(input),
           row.mode = "inline", row.kind = input.kind, row.ref
    PROVE  prepare_inline_secret(input, row).ref
<1>1. prepare_inline_secret(input, row) = PreservedRef(row, input.kind)
    BY DEF prepare_inline_secret
<1>2. PreservedRef(row, input.kind).ref
    BY DEF PreservedRef
<1> QED BY <1>1, <1>2

\* A save of a password that the form shows, or of an empty field left alone.
LEMMA PasswordSaved ==
    ASSUME FormTypeOK, SecretsOK, DialogOpen, ~form.passwordTouched => Held("password", form.password),
           NEW input \in Form, input.mode = "inline", input.kind = "password",
           input.password = (IF form.passwordTouched THEN Trimmed[form.password] ELSE EmptyText),
           input.passwordTouched = form.passwordTouched,
           SaveAccepted(input, dlg.of)
    PROVE  LET shown == Trimmed[form.password] IN
           /\ shown # EmptyText => SavedSecret(input, dlg.of) = shown
           /\ shown = EmptyText => /\ ~form.passwordTouched /\ SourceRow(dlg.of).mode = "inline"
                                  /\ SourceRow(dlg.of).kind = "password"
                                  /\ SavedSecret(input, dlg.of) = KeptSecret(dlg.of, "password")
<1>1. /\ SecretText(input) = Trimmed[input.password] /\ SecretTouched(input) = input.passwordTouched
      /\ form \in Form /\ form.password \in Text
    BY FormIs DEF SecretText, SecretField, SecretTouched, FormTypeOK
<1>2. CASE form.passwordTouched
  <2>1. SecretText(input) = Trimmed[form.password]
        BY <1>1, <1>2, TrimIs
  <2>2. SecretText(input) # EmptyText
        BY <1>2 DEF SaveAccepted, Valid
  <2> QED BY <2>1, <2>2 DEF SavedSecret
<1>3. CASE ~form.passwordTouched
  <2>1. SecretText(input) = EmptyText /\ ~input.passwordTouched
        BY <1>1, <1>3, TrimIs
  <2>2. prepare_inline_secret(input, SourceRow(dlg.of)) = PreservedRef(SourceRow(dlg.of), "password")
        BY <1>1, <2>1 DEF prepare_inline_secret
  <2>3. ~PreservedRef(SourceRow(dlg.of), "password").error
        BY <2>2 DEF SaveAccepted
  <2>4. SourceRow(dlg.of).mode = "inline" /\ SourceRow(dlg.of).kind = "password" /\ SourceRow(dlg.of).ref
        BY <2>3 DEF PreservedRef, Refused, NoRef
  <2>5. SavedSecret(input, dlg.of) = KeptSecret(dlg.of, "password") /\ KeptSecret(dlg.of, "password") = slots[<<dlg.of, "password">>]
    <3>1. prepare_inline_secret(input, SourceRow(dlg.of)).ref
          BY <1>1, <2>1, <2>4, RefIsKept
    <3>2. KeptSecret(dlg.of, "password") = slots[<<dlg.of, "password">>]
          BY <2>4 DEF KeptSecret
    <3> QED BY <2>1, <3>1, <3>2 DEF SavedSecret
  <2>6. dlg.of \in Profiles
        BY <2>4 DEF SourceRow, NoRow, FormTypeOK, Dialog
  <2>7. Trimmed[slots[<<dlg.of, "password">>]] = slots[<<dlg.of, "password">>]
        BY <2>6 DEF SecretsOK, AuthKinds
  <2>8. form.password # EmptyText => slots[<<dlg.of, "password">>] = form.password
        BY <1>3 DEF Held
  <2> QED BY <1>3, <2>4, <2>5, <2>7, <2>8, TrimIs
<1> QED BY <1>1, <1>2, <1>3, FormIs

LEMMA PassphraseSaved ==
    ASSUME FormTypeOK, SecretsOK, ~form.passphraseTouched => Held("private_key", form.passphrase),
           NEW input \in Form, input.mode = "inline", input.kind = "private_key",
           input.passphrase = (IF form.passphraseTouched THEN Trimmed[form.passphrase] ELSE EmptyText),
           input.passphraseTouched = form.passphraseTouched
    PROVE  LET shown == Trimmed[form.passphrase] IN
           /\ shown # EmptyText => SavedSecret(input, dlg.of) = shown
           /\ shown = EmptyText =>
                /\ form.passphraseTouched \/ SourceRow(dlg.of).kind # "private_key" => SavedSecret(input, dlg.of) = EmptyText
                /\ ~form.passphraseTouched /\ SourceRow(dlg.of).kind = "private_key" =>
                     SavedSecret(input, dlg.of) = KeptSecret(dlg.of, "private_key")
                /\ SourceRow(dlg.of).mode # "inline" => SavedSecret(input, dlg.of) = EmptyText
<1> DEFINE row == SourceRow(dlg.of)
           shown == Trimmed[form.passphrase]
<1>1. /\ SecretText(input) = Trimmed[input.passphrase] /\ SecretTouched(input) = input.passphraseTouched
      /\ form \in Form /\ form.passphrase \in Text
    BY FormIs DEF SecretText, SecretField, SecretTouched, FormTypeOK
<1>0. dlg.of \in Profiles \cup {"none"}
    BY DEF FormTypeOK, Dialog
<1>2. row.ref => row.mode = "inline"
    BY <1>0 DEF SourceRow, SecretsOK, NoRow
<1>3. CASE form.passphraseTouched
  <2>1. SecretText(input) = shown /\ input.passphraseTouched
        BY <1>1, <1>3, TrimIs
  <2>2. shown = EmptyText => ~prepare_inline_secret(input, row).ref
        BY <1>1, <2>1 DEF prepare_inline_secret, NoRef
  <2> QED BY <1>1, <1>3, <2>1, <2>2 DEF SavedSecret
<1>4. CASE ~form.passphraseTouched
  <2>1. SecretText(input) = EmptyText /\ ~input.passphraseTouched
        BY <1>1, <1>4, TrimIs
  <2>2. prepare_inline_secret(input, row) = PreservedRef(row, "private_key")
        BY <1>1, <2>1 DEF prepare_inline_secret
  <2>3. PreservedRef(row, "private_key").ref = (row.mode = "inline" /\ row.kind = "private_key" /\ row.ref)
    <3>1. row.ref \in BOOLEAN
          BY <1>0, SourceIs, RowIs
    <3> QED BY <3>1 DEF PreservedRef, NoRef
  <2>4. SavedSecret(input, dlg.of) =
          IF row.mode = "inline" /\ row.kind = "private_key" /\ row.ref THEN KeptSecret(dlg.of, "private_key") ELSE EmptyText
        BY <2>1, <2>2, <2>3 DEF SavedSecret
  <2>5. KeptSecret(dlg.of, "private_key") = IF row.ref THEN slots[<<dlg.of, "private_key">>] ELSE EmptyText
        BY DEF KeptSecret
  <2>6. row.ref => dlg.of \in Profiles
        BY <1>0 DEF SourceRow, NoRow
  <2>7. row.ref => Trimmed[slots[<<dlg.of, "private_key">>]] = slots[<<dlg.of, "private_key">>]
        BY <2>6 DEF SecretsOK, AuthKinds
  <2> HIDE DEF row
  <2>8. form.passphrase # EmptyText => /\ row.mode = "inline" /\ row.kind = "private_key" /\ row.ref
                                       /\ slots[<<dlg.of, "private_key">>] = form.passphrase
        BY <1>4 DEF Held, row
  <2>9. shown # EmptyText => form.passphrase # EmptyText
        BY TrimIs
  <2>10. form.passphrase # EmptyText => shown = form.passphrase
        BY <2>7, <2>8
  <2> HIDE DEF shown
  <2>11. /\ shown # EmptyText => SavedSecret(input, dlg.of) = shown
         /\ row.kind # "private_key" => SavedSecret(input, dlg.of) = EmptyText
         /\ row.kind = "private_key" => SavedSecret(input, dlg.of) = KeptSecret(dlg.of, "private_key")
         /\ row.mode # "inline" => SavedSecret(input, dlg.of) = EmptyText
        BY <1>2, <2>4, <2>5, <2>8, <2>9, <2>10
  <2> QED BY <1>4, <2>11 DEF row, shown
<1> QED BY <1>3, <1>4

\* What a desktop form sends.
LEMMA DesktopSentIs ==
    ASSUME NEW f \in Form, f.protocol \in Desktop
    PROVE  LET g == normalizeForSubmit(f)
           IN  /\ g.mode = f.mode /\ g.protocol = f.protocol
               /\ g.kind = IF f.mode = "inline" THEN "password" ELSE "none"
               /\ g.password = IF f.mode = "inline" THEN f.password ELSE EmptyText
               /\ g.passwordTouched = (f.mode = "inline" /\ f.passwordTouched)
BY DEF normalizeForSubmit, WithoutKey, Form

LEMMA ShownFollows == ASSUME FormInv PROVE ShownIsSaved
<1> DEFINE sent == normalizeForSubmit(form)
           input == normalizeConnectionInput(sent)
           shown == Trimmed[SecretField(sent)]
<1> SUFFICES ASSUME DialogOpen, submits = {}, ~rechosen, sent.mode = "inline", SaveAccepted(input, dlg.of)
             PROVE  /\ SavedSecret(input, dlg.of) =
                         IF shown # EmptyText THEN shown
                         ELSE IF SecretTouched(sent) \/ SourceRow(dlg.of).kind # sent.kind THEN EmptyText
                         ELSE KeptSecret(dlg.of, sent.kind)
                    /\ sent.protocol = "ssh" => TestedSecret(sent, dlg.of) = SavedSecret(input, dlg.of)
    BY DEF ShownIsSaved
<1>0. FormTypeOK /\ SecretsOK /\ form \in Form /\ KindOK(form) /\ sent \in Form /\ input \in Form
    BY NormalizedIs DEF FormInv, FormTypeOK, ShownOK
<1>1. /\ ~form.passwordTouched => Held("password", form.password)
      /\ ~form.passphraseTouched => Held("private_key", form.passphrase)
    BY DEF FormInv, ShownOK, Quiet
<1>2. form.protocol \notin Character
  <2> SUFFICES ASSUME form.protocol \in Character PROVE FALSE
      OBVIOUS
  <2>1. sent = CharacterInput(form)
        BY DEF normalizeForSubmit, Desktop, Character
  <2> QED BY <1>0, <2>1, CharacterInputIs
<1>3. CASE form.protocol \in Desktop
  <2>1. /\ form.mode = "inline" /\ sent.kind = "password" /\ sent.password = form.password
        /\ sent.passwordTouched = form.passwordTouched /\ sent.protocol = form.protocol
    <3>1. sent.mode = form.mode
          BY <1>0, <1>3, DesktopSentIs
    <3> QED BY <1>0, <1>3, <3>1, DesktopSentIs, FormIs
  <2>2. input = DesktopInput(sent)
        BY <1>3, <2>1 DEF normalizeConnectionInput
  <2>3. /\ input.mode = "inline" /\ input.kind = "password"
        /\ input.password = (IF form.passwordTouched THEN Trimmed[form.password] ELSE EmptyText)
        /\ input.passwordTouched = form.passwordTouched
    <3>1. /\ input.mode = sent.mode /\ input.kind = IF sent.mode = "inline" THEN "password" ELSE "none"
          /\ input.password = IF sent.mode = "inline" /\ sent.passwordTouched THEN Trimmed[sent.password] ELSE EmptyText
          /\ input.passwordTouched = (sent.mode = "inline" /\ sent.passwordTouched)
          BY <1>0, <2>2, DesktopInputIs, ZenonT(40)
    <3>2. form.passwordTouched \in BOOLEAN
          BY <1>0, FormIs
    <3> HIDE DEF sent, input
    <3> QED BY <2>1, <3>1, <3>2
  <2> HIDE DEF sent, input
  <2>4. /\ Trimmed[form.password] # EmptyText => SavedSecret(input, dlg.of) = Trimmed[form.password]
        /\ Trimmed[form.password] = EmptyText => /\ ~form.passwordTouched /\ SourceRow(dlg.of).kind = "password"
                                 /\ SavedSecret(input, dlg.of) = KeptSecret(dlg.of, "password")
        BY <1>0, <1>1, <2>3, PasswordSaved
  <2>5. shown = Trimmed[form.password] /\ SecretTouched(sent) = form.passwordTouched
        BY <2>1 DEF SecretField, SecretTouched
  <2>6. sent.protocol # "ssh"
        BY <1>3, <2>1 DEF Desktop
  <2> HIDE DEF shown
  <2> QED BY <2>1, <2>4, <2>5, <2>6
<1>4. CASE form.protocol \notin Desktop
  <2>1. sent = form /\ input = SshInput(form) /\ form.mode = "inline"
        BY <1>2, <1>4 DEF normalizeForSubmit, normalizeConnectionInput
  <2>2. form.kind \in AuthKinds
        BY <1>0, <1>2 DEF KindOK
  <2> HIDE DEF sent, input
  <2>3. CASE form.kind = "password"
    <3>1. /\ input.mode = "inline" /\ input.kind = "password"
          /\ input.password = (IF form.passwordTouched THEN Trimmed[form.password] ELSE EmptyText)
          /\ input.passwordTouched = form.passwordTouched
      <4>1. /\ input.mode = form.mode /\ input.kind = IF form.mode = "inline" THEN form.kind ELSE "none"
            /\ input.password = IF form.mode = "inline" /\ form.kind = "password" /\ form.passwordTouched THEN Trimmed[form.password] ELSE EmptyText
            /\ input.passwordTouched = (form.mode = "inline" /\ form.kind = "password" /\ form.passwordTouched)
            BY <1>0, <2>1, SshInputIs
      <4>2. form.passwordTouched \in BOOLEAN
            BY <1>0, FormIs
      <4> QED BY <2>1, <2>3, <4>1, <4>2
    <3>2. /\ Trimmed[form.password] # EmptyText => SavedSecret(input, dlg.of) = Trimmed[form.password]
          /\ Trimmed[form.password] = EmptyText => /\ ~form.passwordTouched /\ SourceRow(dlg.of).mode = "inline"
                                   /\ SourceRow(dlg.of).kind = "password"
                                   /\ SavedSecret(input, dlg.of) = KeptSecret(dlg.of, "password")
          BY <1>0, <1>1, <3>1, PasswordSaved
    <3>3. shown = Trimmed[form.password] /\ SecretTouched(sent) = form.passwordTouched /\ sent.kind = "password"
          BY <2>1, <2>3 DEF SecretField, SecretTouched
    <3>4. TestedSecret(sent, dlg.of) = SavedSecret(input, dlg.of)
          BY <3>2, <3>3 DEF TestedSecret, SecretText
    <3> HIDE DEF shown
    <3> QED BY <3>2, <3>3, <3>4
  <2>4. CASE form.kind = "private_key"
    <3>1. /\ input.mode = "inline" /\ input.kind = "private_key"
          /\ input.passphrase = (IF form.passphraseTouched THEN Trimmed[form.passphrase] ELSE EmptyText)
          /\ input.passphraseTouched = form.passphraseTouched
      <4>1. /\ input.mode = form.mode /\ input.kind = IF form.mode = "inline" THEN form.kind ELSE "none"
            /\ input.passphrase = IF form.mode = "inline" /\ form.kind = "private_key" /\ form.passphraseTouched THEN Trimmed[form.passphrase] ELSE EmptyText
            /\ input.passphraseTouched = (form.mode = "inline" /\ form.kind = "private_key" /\ form.passphraseTouched)
            BY <1>0, <2>1, SshInputIs
      <4>2. form.passphraseTouched \in BOOLEAN
            BY <1>0, FormIs
      <4> QED BY <2>1, <2>4, <4>1, <4>2
    <3>2. /\ Trimmed[form.passphrase] # EmptyText => SavedSecret(input, dlg.of) = Trimmed[form.passphrase]
          /\ Trimmed[form.passphrase] = EmptyText =>
               /\ form.passphraseTouched \/ SourceRow(dlg.of).kind # "private_key" => SavedSecret(input, dlg.of) = EmptyText
               /\ ~form.passphraseTouched /\ SourceRow(dlg.of).kind = "private_key" =>
                    SavedSecret(input, dlg.of) = KeptSecret(dlg.of, "private_key")
               /\ SourceRow(dlg.of).mode # "inline" => SavedSecret(input, dlg.of) = EmptyText
          BY <1>0, <1>1, <3>1, PassphraseSaved
    <3>3. shown = Trimmed[form.passphrase] /\ SecretTouched(sent) = form.passphraseTouched /\ sent.kind = "private_key"
          BY <2>1, <2>4 DEF SecretField, SecretTouched
    <3>4. TestedSecret(sent, dlg.of) = SavedSecret(input, dlg.of)
          BY <3>2, <3>3 DEF TestedSecret, SecretText
    <3> HIDE DEF shown
    <3> QED BY <3>2, <3>3, <3>4
  <2> QED BY <2>2, <2>3, <2>4 DEF AuthKinds
<1> QED BY <1>3, <1>4

(***************************************************************************)
(* The form is honest: what it shows, trimmed, is what a save stores and a *)
(* test connects with, and an untouched empty field keeps the secret there *)
(* was, unless the kind was chosen again over a typed passphrase.  It      *)
(* holds for any texts, number of connections, dialogs and edits, reveals  *)
(* that answer late and lists that refill the form (ConnectionDialog,      *)
(* normalizeForSubmit, normalizeConnectionInput, prepare_inline_secret).   *)
(***************************************************************************)
THEOREM ShownStaysSaved == FormSpec => []ShownIsSaved
<1>1. FormInit => FormInv
  <2> SUFFICES ASSUME FormInit PROVE ShownOK
      BY FormStart DEF FormInv
  <2>1. form = emptyForm /\ dlg = Closed
        BY DEF FormInit
  <2>2. KindOK(form) /\ ~DialogOpen
        BY <2>1, EmptyFormIs, EmptyIsClean, CleanIsOK DEF Closed, DialogOpen, AuthKinds
  <2> QED BY <2>2 DEF ShownOK
<1>2. FormInv /\ [FormNext]_formVars => FormInv'
    BY FormType, SecretsStep, ShownStep DEF FormInv
<1>3. FormInv => ShownIsSaved
    BY ShownFollows
<1> QED BY <1>1, <1>2, <1>3, PTL DEF FormSpec

=============================================================================

------------------------ MODULE TransferRecoveryProofs ------------------------
(***************************************************************************)
(* What the import's journal is for: stopping the program at any moment    *)
(* and unlocking gives the committed rows their secrets.  The invariants   *)
(* are stacked.  An import, the saves and the unlock of the program each   *)
(* need a vault that is open, or locked (Basic), and the id of an import   *)
(* is new (Fresh).  Until the MCP process crosses the program, the journal *)
(* and the copy say where an import or a recovery is (Phases), and memory, *)
(* file and copy agree on the slots no save has touched meanwhile          *)
(* (Compensated).  What may cross is recorded by Remember, so no theorem   *)
(* has a hypothesis.                                                       *)
(***************************************************************************)
EXTENDS TransferRecovery, TLAPS

Processes == {"app", "mcp"}

\* An import and a save work on an open vault, the program's unlock on a locked one, and only who
\* copies the vault back holds its content.
Basic ==
  /\ pc # "idle" \/ Editing # {} => mem # None
  /\ rec["app"] # "idle" => mem = None
  /\ rec["mcp"] # "open"
  /\ held["import"] # None <=> pc = "copying"
  /\ \A r \in Processes : held[r] # None <=> rec[r] = "copying"

\* The id of an import that is not committed is in no row and not the committed one.
Fresh ==
  /\ key # None => key <= clock
  /\ tx <= clock
  /\ \A s \in Slots : db[s] # None => db[s] <= clock
  /\ \A s \in Slots : saving[s] # None => saving[s] <= clock
  /\ pc \in {"copied", "begun", "secrets", "undo", "copying"} =>
        key # tx /\ \A s \in Slots : db[s] # tx /\ saving[s] # tx

\* Two vaults with the same secrets in the slots that were left alone.
Same(v, w) == \A s \in Slots \ touched : v[s] = w[s]

\* What the history variables have recorded of the present state.
Recorded ==
  /\ rec["mcp"] # "idle" => pc = "idle" /\ Editing = {} /\ rec["app"] = "idle"
  /\ rec["mcp"] = "dropped" /\ mem # None /\ vault # Torn => Same(vault, mem)
  /\ pc # "idle" \/ Pending => Editing \subseteq touched

\* What the files hold at each point of an import and of a recovery.
Phases ==
  /\ pc \in {"copied", "dropped"} => journal = None
  /\ pc \in {"begun", "secrets", "undo", "copying", "cleanup"} => journal = tx
  /\ pc = "copying" => held["import"] = backup
  /\ \A r \in Processes :
       /\ rec[r] \in {"restore", "copying"} => Pending
       /\ rec[r] = "copying" => held[r] = backup /\ vault = Torn
       /\ rec[r] = "cleanup" /\ Pending => vault = backup
       /\ rec[r] \in {"dropped", "open"} => journal = None

\* The vault v has the secret of every row that was left alone, but for a save that did not get to
\* its row.
Agree(v) ==
  v \in Contents /\ \A s \in Slots \ (dirty \cup touched) : db[s] # None => v[s] = db[s]

\* How memory, the vault and the copy differ while secrets are written or put back.
Compensated ==
  /\ Agree(NextVault)
  /\ pc = "idle" /\ mem # None /\ ~Pending => vault \in Contents /\ Same(vault, mem)
  /\ pc \in {"copied", "begun"} =>
        /\ vault \in Contents /\ Same(vault, mem)
        /\ backup \in Contents /\ Same(backup, mem)
        /\ undo = NoUndo /\ todo = ImportSlots
  /\ pc = "secrets" =>
        /\ vault \in Contents /\ Same(vault, mem)
        /\ DOMAIN undo = IF kind = "sync" THEN ImportSlots ELSE ImportSlots \ todo
        /\ \A s \in Slots \ touched : mem[s] = IF s \in ImportSlots \ todo THEN tx ELSE backup[s]
        /\ \A s \in DOMAIN undo \ touched : undo[s] = backup[s]
  /\ pc = "undo" =>
        /\ \A s \in Slots \ (touched \cup DOMAIN undo) : mem[s] = backup[s]
        /\ \A s \in DOMAIN undo \ touched : undo[s] = backup[s]
  /\ pc = "copying" => Same(mem, backup) /\ (vault # Torn => vault \in Contents /\ Same(vault, mem))
  /\ pc = "cleanup" /\ key # tx => Same(mem, backup)
  /\ pc \in {"cleanup", "dropped"} => vault \in Contents /\ Same(vault, mem)
  /\ \A s \in Slots \ touched : saving[s] # None => mem[s] = saving[s]
  /\ \A s \in deleting \ touched : db[s] = None /\ saving[s] = None

RecoveryInv == TypeOK /\ Basic /\ Fresh /\ (crossed = {} => Recorded /\ Phases /\ Compensated)

-----------------------------------------------------------------------------
(* One step of each action.                                                *)

LEMMA TypeStep ==
    ASSUME TypeOK, Basic, Step, Remember
    PROVE  TypeOK'
<1> USE ConstantsAssumption DEF TypeOK, Basic, Contents, Ids, Copiers, Processes, Editing, files,
        rows, import, edits, unlocks
<1>0. /\ touched' \subseteq Slots \/ ~(saving' \in [Slots -> Ids] /\ deleting' \subseteq Slots)
      /\ crossed' \subseteq {"overlap", "stale"}
      BY DEF Remember, AtRisk, Crossing
<1>a. \E D \in SUBSET ImportSlots : NoUndo \in [D -> Ids]
  <2>1. NoUndo \in [{} -> Ids]
        BY DEF NoUndo
  <2> QED BY <2>1
<1>1. ASSUME NEW k \in Kinds, Begin(k) PROVE TypeOK'
      BY <1>1, <1>0, <1>a DEF Begin
<1>2. CASE WriteJournal
      BY <1>2, <1>0 DEF WriteJournal
<1>3. CASE JournalFails
      BY <1>3, <1>0 DEF JournalFails
<1>4. CASE OpenTransaction
      BY <1>4, <1>0 DEF OpenTransaction
<1>5. CASE TransactionRefused
      BY <1>5, <1>0 DEF TransactionRefused
<1>6. CASE RowsFail
      BY <1>6, <1>0 DEF RowsFail
<1>7. CASE CollectBackups
      BY <1>7, <1>0 DEF CollectBackups
<1>8. ASSUME NEW s \in ImportSlots, WriteSecret(s) PROVE TypeOK'
  <2>1. mem \in Contents /\ tx \in Nat
        BY <1>8 DEF WriteSecret
  <2>2. mem' \in Contents
        BY <1>8, <2>1 DEF WriteSecret
  <2>3. \E D \in SUBSET ImportSlots : undo' \in [D -> Ids]
    <3>1. PICK D \in SUBSET ImportSlots : undo \in [D -> Ids]
          OBVIOUS
    <3>2. undo' \in [D -> Ids] \/ undo' \in [D \cup {s} -> Ids]
          BY <1>8, <2>1, <3>1 DEF WriteSecret, WithBackup
    <3> QED BY <3>2
  <2> QED BY <1>8, <1>0, <2>2, <2>3 DEF WriteSecret
<1>9. ASSUME NEW s \in ImportSlots, SecretFails(s) PROVE TypeOK'
      BY <1>9, <1>0 DEF SecretFails, WithBackup
<1>10. CASE Commit
      BY <1>10, <1>0 DEF Commit, ImportedRows
<1>11. CASE CommitFails
      BY <1>11, <1>0 DEF CommitFails
<1>12. ASSUME NEW s \in ImportSlots, UndoSecret(s) PROVE TypeOK'
  <2>1. PICK D \in SUBSET ImportSlots : undo \in [D -> Ids]
        OBVIOUS
  <2>2. mem \in Contents /\ undo[s] \in Ids
        BY <1>12, <2>1 DEF UndoSecret
  <2>3. mem' \in Contents
        BY <1>12, <2>2 DEF UndoSecret
  <2>4. undo' \in [D \ {s} -> Ids]
        BY <1>12, <2>1 DEF UndoSecret
  <2>5. \E E \in SUBSET ImportSlots : undo' \in [E -> Ids]
        BY <2>4
  <2> QED BY <1>12, <1>0, <2>3, <2>5 DEF UndoSecret
<1>13. ASSUME NEW s \in ImportSlots, UndoFails(s) PROVE TypeOK'
      BY <1>13, <1>0 DEF UndoFails
<1>14. CASE AbortCopy
      BY <1>14, <1>0 DEF AbortCopy
<1>15. CASE AbortFails
      BY <1>15, <1>0 DEF AbortFails
<1>16. CASE AbortCopied
      BY <1>16, <1>0 DEF AbortCopied, WhenCopied
<1>17. CASE DropJournal
      BY <1>17, <1>0 DEF DropJournal
<1>18. CASE DropBackup
      BY <1>18, <1>0 DEF DropBackup
<1>19. CASE CleanupFails
      BY <1>19, <1>0 DEF CleanupFails
<1>20. ASSUME NEW s \in Editable, SaveSecret(s) PROVE TypeOK'
      BY <1>20, <1>0 DEF SaveSecret, MayEdit
<1>21. ASSUME NEW s \in Editable, DeleteRow(s) PROVE TypeOK'
      BY <1>21, <1>0 DEF DeleteRow, MayEdit
<1>22. ASSUME NEW s \in Editable, SaveRow(s) PROVE TypeOK'
      BY <1>22, <1>0 DEF SaveRow
<1>23. ASSUME NEW s \in Editable, SaveRowFails(s) PROVE TypeOK'
      BY <1>23, <1>0 DEF SaveRowFails
<1>24. ASSUME NEW s \in Editable, DeleteSecret(s) PROVE TypeOK'
      BY <1>24, <1>0 DEF DeleteSecret
<1>25. ASSUME NEW r \in Recoverers, Unlock(r) PROVE TypeOK'
      BY <1>25, <1>0 DEF Unlock, MayUnlock
<1>26. ASSUME NEW r \in Recoverers, RestoreCopy(r) PROVE TypeOK'
      BY <1>26, <1>0 DEF RestoreCopy
<1>27. ASSUME NEW r \in Recoverers, RestoreCopied(r) PROVE TypeOK'
      BY <1>27, <1>0 DEF RestoreCopied, WhenCopied
<1>28. ASSUME NEW r \in Recoverers, RecoveryDropJournal(r) PROVE TypeOK'
      BY <1>28, <1>0 DEF RecoveryDropJournal
<1>29. ASSUME NEW r \in Recoverers, RecoveryDropBackup(r) PROVE TypeOK'
      BY <1>29, <1>0 DEF RecoveryDropBackup
<1>30. CASE OpenVault
      BY <1>30, <1>0 DEF OpenVault
<1>31. CASE Crash
      BY <1>31, <1>0, <1>a DEF Crash
<1>32. CASE McpExit
      BY <1>32, <1>0 DEF McpExit
<1> HIDE DEF TypeOK
<1> QED BY <1>1, <1>2, <1>3, <1>4, <1>5, <1>6, <1>7, <1>8, <1>9, <1>10, <1>11, <1>12, <1>13,
           <1>14, <1>15, <1>16, <1>17, <1>18, <1>19, <1>20, <1>21, <1>22, <1>23, <1>24, <1>25,
           <1>26, <1>27, <1>28, <1>29, <1>30, <1>31, <1>32
        DEF Step, ImportStep, EditStep, UnlockStep

LEMMA BasicStep ==
    ASSUME TypeOK, Basic, Step
    PROVE  Basic'
<1> USE ConstantsAssumption DEF TypeOK, Basic, Contents, Ids, Copiers, Processes, Editing, files,
        rows, import, edits, unlocks
<1>1. ASSUME NEW k \in Kinds, Begin(k) PROVE Basic'
      BY <1>1 DEF Begin
<1>2. CASE WriteJournal
      BY <1>2 DEF WriteJournal
<1>3. CASE JournalFails
      BY <1>3 DEF JournalFails
<1>4. CASE OpenTransaction
      BY <1>4 DEF OpenTransaction
<1>5. CASE TransactionRefused
      BY <1>5 DEF TransactionRefused
<1>6. CASE RowsFail
      BY <1>6 DEF RowsFail
<1>7. CASE CollectBackups
      BY <1>7 DEF CollectBackups
<1>8. ASSUME NEW s \in ImportSlots, WriteSecret(s) PROVE Basic'
      BY <1>8 DEF WriteSecret, WithBackup
<1>9. ASSUME NEW s \in ImportSlots, SecretFails(s) PROVE Basic'
      BY <1>9 DEF SecretFails, WithBackup
<1>10. CASE Commit
      BY <1>10 DEF Commit, ImportedRows
<1>11. CASE CommitFails
      BY <1>11 DEF CommitFails
<1>12. ASSUME NEW s \in ImportSlots, UndoSecret(s) PROVE Basic'
      BY <1>12 DEF UndoSecret
<1>13. ASSUME NEW s \in ImportSlots, UndoFails(s) PROVE Basic'
      BY <1>13 DEF UndoFails
<1>14. CASE AbortCopy
      BY <1>14 DEF AbortCopy
<1>15. CASE AbortFails
      BY <1>15 DEF AbortFails
<1>16. CASE AbortCopied
      BY <1>16 DEF AbortCopied, WhenCopied
<1>17. CASE DropJournal
      BY <1>17 DEF DropJournal
<1>18. CASE DropBackup
      BY <1>18 DEF DropBackup
<1>19. CASE CleanupFails
      BY <1>19 DEF CleanupFails
<1>20. ASSUME NEW s \in Editable, SaveSecret(s) PROVE Basic'
      BY <1>20 DEF SaveSecret, MayEdit
<1>21. ASSUME NEW s \in Editable, DeleteRow(s) PROVE Basic'
      BY <1>21 DEF DeleteRow, MayEdit
<1>22. ASSUME NEW s \in Editable, SaveRow(s) PROVE Basic'
      BY <1>22 DEF SaveRow
<1>23. ASSUME NEW s \in Editable, SaveRowFails(s) PROVE Basic'
      BY <1>23 DEF SaveRowFails
<1>24. ASSUME NEW s \in Editable, DeleteSecret(s) PROVE Basic'
      BY <1>24 DEF DeleteSecret
<1>25. ASSUME NEW r \in Recoverers, Unlock(r) PROVE Basic'
      BY <1>25 DEF Unlock, MayUnlock
<1>26. ASSUME NEW r \in Recoverers, RestoreCopy(r) PROVE Basic'
      BY <1>26 DEF RestoreCopy
<1>27. ASSUME NEW r \in Recoverers, RestoreCopied(r) PROVE Basic'
      BY <1>27 DEF RestoreCopied, WhenCopied
<1>28. ASSUME NEW r \in Recoverers, RecoveryDropJournal(r) PROVE Basic'
      BY <1>28 DEF RecoveryDropJournal
<1>29. ASSUME NEW r \in Recoverers, RecoveryDropBackup(r) PROVE Basic'
      BY <1>29 DEF RecoveryDropBackup
<1>30. CASE OpenVault
      BY <1>30 DEF OpenVault
<1>31. CASE Crash
      BY <1>31 DEF Crash
<1>32. CASE McpExit
      BY <1>32 DEF McpExit
<1> HIDE DEF Basic
<1> QED BY <1>1, <1>2, <1>3, <1>4, <1>5, <1>6, <1>7, <1>8, <1>9, <1>10, <1>11, <1>12, <1>13,
           <1>14, <1>15, <1>16, <1>17, <1>18, <1>19, <1>20, <1>21, <1>22, <1>23, <1>24, <1>25,
           <1>26, <1>27, <1>28, <1>29, <1>30, <1>31, <1>32
        DEF Step, ImportStep, EditStep, UnlockStep

LEMMA FreshStep ==
    ASSUME TypeOK, Basic, Fresh, Step
    PROVE  Fresh'
<1> USE ConstantsAssumption DEF TypeOK, Basic, Fresh, Contents, Ids, Copiers, Processes, Editing,
        files, rows, import, edits, unlocks
<1>1. ASSUME NEW k \in Kinds, Begin(k) PROVE Fresh'
      BY <1>1 DEF Begin
<1>2. CASE WriteJournal
      BY <1>2 DEF WriteJournal
<1>3. CASE JournalFails
      BY <1>3 DEF JournalFails
<1>4. CASE OpenTransaction
      BY <1>4 DEF OpenTransaction
<1>5. CASE TransactionRefused
      BY <1>5 DEF TransactionRefused
<1>6. CASE RowsFail
      BY <1>6 DEF RowsFail
<1>7. CASE CollectBackups
      BY <1>7 DEF CollectBackups
<1>8. ASSUME NEW s \in ImportSlots, WriteSecret(s) PROVE Fresh'
      BY <1>8 DEF WriteSecret, WithBackup
<1>9. ASSUME NEW s \in ImportSlots, SecretFails(s) PROVE Fresh'
      BY <1>9 DEF SecretFails, WithBackup
<1>10. CASE Commit
      BY <1>10 DEF Commit, ImportedRows
<1>11. CASE CommitFails
      BY <1>11 DEF CommitFails
<1>12. ASSUME NEW s \in ImportSlots, UndoSecret(s) PROVE Fresh'
      BY <1>12 DEF UndoSecret
<1>13. ASSUME NEW s \in ImportSlots, UndoFails(s) PROVE Fresh'
      BY <1>13 DEF UndoFails
<1>14. CASE AbortCopy
      BY <1>14 DEF AbortCopy
<1>15. CASE AbortFails
      BY <1>15 DEF AbortFails
<1>16. CASE AbortCopied
      BY <1>16 DEF AbortCopied, WhenCopied
<1>17. CASE DropJournal
      BY <1>17 DEF DropJournal
<1>18. CASE DropBackup
      BY <1>18 DEF DropBackup
<1>19. CASE CleanupFails
      BY <1>19 DEF CleanupFails
<1>20. ASSUME NEW s \in Editable, SaveSecret(s) PROVE Fresh'
      BY <1>20 DEF SaveSecret, MayEdit
<1>21. ASSUME NEW s \in Editable, DeleteRow(s) PROVE Fresh'
      BY <1>21 DEF DeleteRow, MayEdit
<1>22. ASSUME NEW s \in Editable, SaveRow(s) PROVE Fresh'
      BY <1>22 DEF SaveRow
<1>23. ASSUME NEW s \in Editable, SaveRowFails(s) PROVE Fresh'
      BY <1>23 DEF SaveRowFails
<1>24. ASSUME NEW s \in Editable, DeleteSecret(s) PROVE Fresh'
      BY <1>24 DEF DeleteSecret
<1>25. ASSUME NEW r \in Recoverers, Unlock(r) PROVE Fresh'
      BY <1>25 DEF Unlock, MayUnlock
<1>26. ASSUME NEW r \in Recoverers, RestoreCopy(r) PROVE Fresh'
      BY <1>26 DEF RestoreCopy
<1>27. ASSUME NEW r \in Recoverers, RestoreCopied(r) PROVE Fresh'
      BY <1>27 DEF RestoreCopied, WhenCopied
<1>28. ASSUME NEW r \in Recoverers, RecoveryDropJournal(r) PROVE Fresh'
      BY <1>28 DEF RecoveryDropJournal
<1>29. ASSUME NEW r \in Recoverers, RecoveryDropBackup(r) PROVE Fresh'
      BY <1>29 DEF RecoveryDropBackup
<1>30. CASE OpenVault
      BY <1>30 DEF OpenVault
<1>31. CASE Crash
      BY <1>31 DEF Crash
<1>32. CASE McpExit
      BY <1>32 DEF McpExit
<1> HIDE DEF Fresh
<1> QED BY <1>1, <1>2, <1>3, <1>4, <1>5, <1>6, <1>7, <1>8, <1>9, <1>10, <1>11, <1>12, <1>13,
           <1>14, <1>15, <1>16, <1>17, <1>18, <1>19, <1>20, <1>21, <1>22, <1>23, <1>24, <1>25,
           <1>26, <1>27, <1>28, <1>29, <1>30, <1>31, <1>32
        DEF Step, ImportStep, EditStep, UnlockStep

\* The history only grows, and has what the new state shows.
LEMMA RecordedStep ==
    ASSUME TypeOK, TypeOK', Remember, crossed' = {}
    PROVE  crossed = {} /\ touched \subseteq touched' /\ Recorded'
BY DEF TypeOK, Remember, AtRisk, Crossing, Recorded, Same, Editing, Contents

LEMMA PhasesStep ==
    ASSUME TypeOK, TypeOK', Basic, Fresh, Recorded, Recorded', Phases, Compensated,
           touched \subseteq touched', Step
    PROVE  Phases'
<1> USE ConstantsAssumption DEF TypeOK, Basic, Fresh, Recorded, Phases, Pending, Contents, Ids,
        Copiers, Processes, Editing, files, rows, import, edits, unlocks
<1>1. ASSUME NEW k \in Kinds, Begin(k) PROVE Phases'
      BY <1>1 DEF Begin
<1>2. CASE WriteJournal
      BY <1>2 DEF WriteJournal
<1>3. CASE JournalFails
      BY <1>3 DEF JournalFails
<1>4. CASE OpenTransaction
      BY <1>4 DEF OpenTransaction
<1>5. CASE TransactionRefused
      BY <1>5 DEF TransactionRefused
<1>6. CASE RowsFail
      BY <1>6 DEF RowsFail
<1>7. CASE CollectBackups
      BY <1>7 DEF CollectBackups
<1>8. ASSUME NEW s \in ImportSlots, WriteSecret(s) PROVE Phases'
      BY <1>8 DEF WriteSecret, WithBackup
<1>9. ASSUME NEW s \in ImportSlots, SecretFails(s) PROVE Phases'
      BY <1>9 DEF SecretFails, WithBackup
<1>10. CASE Commit
      BY <1>10 DEF Commit, ImportedRows
<1>11. CASE CommitFails
      BY <1>11 DEF CommitFails
<1>12. ASSUME NEW s \in ImportSlots, UndoSecret(s) PROVE Phases'
      BY <1>12 DEF UndoSecret
<1>13. ASSUME NEW s \in ImportSlots, UndoFails(s) PROVE Phases'
      BY <1>13 DEF UndoFails
<1>14. CASE AbortCopy
      BY <1>14 DEF AbortCopy
<1>15. CASE AbortFails
      BY <1>15 DEF AbortFails
<1>16. CASE AbortCopied
      BY <1>16 DEF AbortCopied, WhenCopied
<1>17. CASE DropJournal
      BY <1>17 DEF DropJournal
<1>18. CASE DropBackup
      BY <1>18 DEF DropBackup
<1>19. CASE CleanupFails
      BY <1>19 DEF CleanupFails
<1>20. ASSUME NEW s \in Editable, SaveSecret(s) PROVE Phases'
      BY <1>20 DEF SaveSecret, MayEdit
<1>21. ASSUME NEW s \in Editable, DeleteRow(s) PROVE Phases'
      BY <1>21 DEF DeleteRow, MayEdit
<1>22. ASSUME NEW s \in Editable, SaveRow(s) PROVE Phases'
      BY <1>22 DEF SaveRow
<1>23. ASSUME NEW s \in Editable, SaveRowFails(s) PROVE Phases'
      BY <1>23 DEF SaveRowFails
<1>24. ASSUME NEW s \in Editable, DeleteSecret(s) PROVE Phases'
      BY <1>24 DEF DeleteSecret
<1>25. ASSUME NEW r \in Recoverers, Unlock(r) PROVE Phases'
      BY <1>25 DEF Unlock, MayUnlock
<1>26. ASSUME NEW r \in Recoverers, RestoreCopy(r) PROVE Phases'
      BY <1>26 DEF RestoreCopy
<1>27. ASSUME NEW r \in Recoverers, RestoreCopied(r) PROVE Phases'
      BY <1>27 DEF RestoreCopied, WhenCopied
<1>28. ASSUME NEW r \in Recoverers, RecoveryDropJournal(r) PROVE Phases'
      BY <1>28 DEF RecoveryDropJournal
<1>29. ASSUME NEW r \in Recoverers, RecoveryDropBackup(r) PROVE Phases'
      BY <1>29 DEF RecoveryDropBackup
<1>30. CASE OpenVault
      BY <1>30 DEF OpenVault
<1>31. CASE Crash
      BY <1>31 DEF Crash
<1>32. CASE McpExit
      BY <1>32 DEF McpExit
<1> HIDE DEF Phases
<1> QED BY <1>1, <1>2, <1>3, <1>4, <1>5, <1>6, <1>7, <1>8, <1>9, <1>10, <1>11, <1>12, <1>13,
           <1>14, <1>15, <1>16, <1>17, <1>18, <1>19, <1>20, <1>21, <1>22, <1>23, <1>24, <1>25,
           <1>26, <1>27, <1>28, <1>29, <1>30, <1>31, <1>32
        DEF Step, ImportStep, EditStep, UnlockStep

LEMMA CompensatedStep ==
    ASSUME TypeOK, TypeOK', Basic, Basic', Fresh, Fresh', Recorded, Recorded', Phases, Phases',
           Compensated, touched \subseteq touched', Step
    PROVE  Compensated'
<1> USE ConstantsAssumption DEF TypeOK, Basic, Fresh, Recorded, Phases, Compensated, Same, Agree,
        Pending, NextVault, Stored, WhenCopied, Contents, Ids, Copiers, Processes, Editing, files,
        rows, import, edits, unlocks, NoUndo
<1>1. ASSUME NEW k \in Kinds, Begin(k) PROVE Compensated'
      BY <1>1 DEF Begin
<1>2. CASE WriteJournal
      BY <1>2 DEF WriteJournal
<1>3. CASE JournalFails
      BY <1>3 DEF JournalFails
<1>4. CASE OpenTransaction
      BY <1>4 DEF OpenTransaction
<1>5. CASE TransactionRefused
      BY <1>5 DEF TransactionRefused
<1>6. CASE RowsFail
      BY <1>6 DEF RowsFail
<1>7. CASE CollectBackups
      BY <1>7 DEF CollectBackups
<1>8. ASSUME NEW s \in ImportSlots, WriteSecret(s) PROVE Compensated'
  <2>1. s \notin Editing \/ s \in touched
        BY <1>8 DEF WriteSecret
  <2>2. mem \in Contents /\ mem' \in Contents /\ mem'[s] = tx
        /\ \A t \in Slots \ {s} : mem'[t] = mem[t]
        BY <1>8 DEF WriteSecret
  <2>3. DOMAIN undo' = DOMAIN undo \cup {s}
        BY <1>8 DEF WriteSecret, WithBackup
  <2>4. \A t \in DOMAIN undo' \ touched : undo'[t] = backup[t]
        BY <1>8 DEF WriteSecret, WithBackup
  <2>5. NextVault' = NextVault /\ NextVault = backup
        BY <1>8 DEF WriteSecret
  <2> QED BY <1>8, <2>1, <2>2, <2>3, <2>4, <2>5 DEF WriteSecret
<1>9. ASSUME NEW s \in ImportSlots, SecretFails(s) PROVE Compensated'
  <2>1. s \notin Editing \/ s \in touched
        BY <1>9 DEF SecretFails
  <2>2. mem \in Contents /\ mem' \in Contents /\ mem'[s] = tx
        /\ \A t \in Slots \ {s} : mem'[t] = mem[t]
        BY <1>9 DEF SecretFails
  <2>3. DOMAIN undo' = DOMAIN undo \cup {s}
        BY <1>9 DEF SecretFails, WithBackup
  <2>4. \A t \in DOMAIN undo' \ touched : undo'[t] = backup[t]
        BY <1>9 DEF SecretFails, WithBackup
  <2>5. NextVault' = NextVault /\ NextVault = backup
        BY <1>9 DEF SecretFails
  <2> QED BY <1>9, <2>1, <2>2, <2>3, <2>4, <2>5 DEF SecretFails
<1>10. CASE Commit
      BY <1>10 DEF Commit, ImportedRows
<1>11. CASE CommitFails
      BY <1>11 DEF CommitFails
<1>12. ASSUME NEW s \in ImportSlots, UndoSecret(s) PROVE Compensated'
      BY <1>12 DEF UndoSecret
<1>13. ASSUME NEW s \in ImportSlots, UndoFails(s) PROVE Compensated'
      BY <1>13 DEF UndoFails
<1>14. CASE AbortCopy
      BY <1>14 DEF AbortCopy
<1>15. CASE AbortFails
      BY <1>15 DEF AbortFails
<1>16. CASE AbortCopied
      BY <1>16 DEF AbortCopied, WhenCopied
<1>17. CASE DropJournal
      BY <1>17 DEF DropJournal
<1>18. CASE DropBackup
      BY <1>18 DEF DropBackup
<1>19. CASE CleanupFails
      BY <1>19 DEF CleanupFails
<1>20. ASSUME NEW s \in Editable, SaveSecret(s) PROVE Compensated'
      BY <1>20 DEF SaveSecret, MayEdit
<1>21. ASSUME NEW s \in Editable, DeleteRow(s) PROVE Compensated'
      BY <1>21 DEF DeleteRow, MayEdit
<1>22. ASSUME NEW s \in Editable, SaveRow(s) PROVE Compensated'
      BY <1>22 DEF SaveRow
<1>23. ASSUME NEW s \in Editable, SaveRowFails(s) PROVE Compensated'
      BY <1>23 DEF SaveRowFails
<1>24. ASSUME NEW s \in Editable, DeleteSecret(s) PROVE Compensated'
      BY <1>24 DEF DeleteSecret
<1>25. ASSUME NEW r \in Recoverers, Unlock(r) PROVE Compensated'
      BY <1>25 DEF Unlock, MayUnlock
<1>26. ASSUME NEW r \in Recoverers, RestoreCopy(r) PROVE Compensated'
      BY <1>26 DEF RestoreCopy
<1>27. ASSUME NEW r \in Recoverers, RestoreCopied(r) PROVE Compensated'
      BY <1>27 DEF RestoreCopied, WhenCopied
<1>28. ASSUME NEW r \in Recoverers, RecoveryDropJournal(r) PROVE Compensated'
      BY <1>28 DEF RecoveryDropJournal
<1>29. ASSUME NEW r \in Recoverers, RecoveryDropBackup(r) PROVE Compensated'
      BY <1>29 DEF RecoveryDropBackup
<1>30. CASE OpenVault
      BY <1>30 DEF OpenVault
<1>31. CASE Crash
      BY <1>31 DEF Crash
<1>32. CASE McpExit
      BY <1>32 DEF McpExit
<1> HIDE DEF Compensated
<1> QED BY <1>1, <1>2, <1>3, <1>4, <1>5, <1>6, <1>7, <1>8, <1>9, <1>10, <1>11, <1>12, <1>13,
           <1>14, <1>15, <1>16, <1>17, <1>18, <1>19, <1>20, <1>21, <1>22, <1>23, <1>24, <1>25,
           <1>26, <1>27, <1>28, <1>29, <1>30, <1>31, <1>32
        DEF Step, ImportStep, EditStep, UnlockStep

\* A step that changes nothing.
LEMMA Stutter == RecoveryInv /\ UNCHANGED vars => RecoveryInv'
BY DEF RecoveryInv, TypeOK, Basic, Fresh, Recorded, Phases, Compensated, Same, Agree, NextVault,
   Stored, WhenCopied, Pending, Editing, vars, state, files, rows, import, edits, unlocks

\* An import and a save work on an open vault, the id of an import is new, and, until the MCP process
\* crosses the program, journal, copy, file and memory are where the order of begin, the
\* compensation, abort and cleanup_recovery_files puts them.
THEOREM RecoveryInvariant == Spec => []RecoveryInv
<1>1. Init => RecoveryInv
  <2>1. \E D \in SUBSET ImportSlots : NoUndo \in [D -> Ids]
    <3>1. NoUndo \in [{} -> Ids]
          BY DEF NoUndo
    <3> QED BY <3>1
  <2> USE ConstantsAssumption DEF Init, Contents, Ids, Copiers, Processes
  <2>a. Init => touched \subseteq Slots /\ crossed \subseteq {"overlap", "stale"}
        OBVIOUS
  <2>b. Init => clock \in 0..MaxOps /\ crashes \in 0..MaxCrashes
        OBVIOUS
  <2>2. Init => TypeOK
    <3>1. Init => /\ vault \in Contents /\ backup = None /\ journal = None /\ key = None
                  /\ db \in [Slots -> Ids] /\ saving \in [Slots -> Ids]
          OBVIOUS
    <3>2. Init => /\ rec \in [{"app", "mcp"} -> {"idle"}] /\ held \in [Copiers -> {None}]
          OBVIOUS
    <3>3. Init => /\ pc = "idle" /\ kind \in {"transfer", "sync"} /\ tx \in Nat /\ todo = {}
                  /\ undo = NoUndo /\ deleting = {} /\ dirty = {} /\ mem = None
          OBVIOUS
    <3> QED BY <2>1, <2>a, <2>b, <3>1, <3>2, <3>3 DEF TypeOK
  <2>3. Init => Basic /\ Fresh
        BY DEF Basic, Fresh, Editing
  <2>4. Init => Recorded /\ Phases
        BY DEF Recorded, Phases, Pending, Editing
  <2>5. Init => Compensated
        BY DEF Compensated, Agree, NextVault, Pending, Stored
  <2> QED BY <2>2, <2>3, <2>4, <2>5 DEF RecoveryInv
<1>2. ASSUME RecoveryInv, [Next]_vars PROVE RecoveryInv'
  <2>1. CASE Step /\ Remember
    <3>1. TypeOK' /\ Basic' /\ Fresh'
          BY <1>2, <2>1, TypeStep, BasicStep, FreshStep DEF RecoveryInv
    <3>2. ASSUME crossed' = {} PROVE Recorded' /\ Phases' /\ Compensated'
      <4>1. crossed = {} /\ touched \subseteq touched' /\ Recorded'
            BY <1>2, <2>1, <3>1, <3>2, RecordedStep DEF RecoveryInv
      <4>2. Phases'
            BY <1>2, <2>1, <3>1, <4>1, PhasesStep DEF RecoveryInv
      <4> QED BY <1>2, <2>1, <3>1, <4>1, <4>2, CompensatedStep DEF RecoveryInv
    <3> QED BY <3>1, <3>2 DEF RecoveryInv
  <2>2. CASE UNCHANGED vars
        BY <1>2, <2>2, Stutter
  <2> QED BY <1>2, <2>1, <2>2 DEF Next
<1> QED BY <1>1, <1>2, PTL DEF Spec

-----------------------------------------------------------------------------
(* What the reader wants to know.                                          *)

\* Whichever step of an import, of its compensation, of its clean-up or of a recovery fails or is the
\* last before the program stops, the next unlock gives every row its secret, unless the secret was
\* saved or deleted while the import ran or its journal was left behind, or the MCP process crossed
\* the program: a vault that is half copied back still has its journal and its copy.
THEOREM SecretsStayKept == Spec => []SecretsAreKept
<1>1. RecoveryInv => SecretsAreKept
      BY ConstantsAssumption DEF RecoveryInv, Compensated, Agree, SecretsAreKept, Undisturbed, Kept,
         Contents
<1> QED BY <1>1, RecoveryInvariant, PTL

\* restore_secret_backups also puts back the plaintext: with the same exceptions, and when no import
\* runs or is left behind, memory has the secrets of the rows.
THEOREM MemoryAgrees == Spec => []LiveAgrees
<1>1. RecoveryInv => LiveAgrees
  <2> SUFFICES ASSUME RecoveryInv, mem # None, pc = "idle", ~Pending, crossed = {},
                      NEW s \in Slots \ (dirty \cup touched), s \notin Editing, db[s] # None
               PROVE  mem[s] = db[s]
      BY DEF LiveAgrees, Undisturbed
  <2>1. held["mcp"] = None
        BY DEF RecoveryInv, Basic, Phases, Processes
  <2>2. NextVault = vault
        BY <2>1 DEF NextVault, Stored
  <2> QED BY <2>2 DEF RecoveryInv, Compensated, Same, Agree
<1> QED BY <1>1, RecoveryInvariant, PTL
=============================================================================

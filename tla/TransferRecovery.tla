-------------------------- MODULE TransferRecovery --------------------------
(***************************************************************************)
(* Importing connections (connection_transfer.rs) or a sync snapshot       *)
(* (sync_import_transaction.rs) changes two stores: rows of the SQLite     *)
(* database and secrets of the encrypted vault file.  The database has     *)
(* transactions, the vault has none, so an import keeps a copy of the      *)
(* vault and a journal beside it (connection_transfer_recovery.rs):        *)
(*                                                                         *)
(*   copy the vault, write the journal with a fresh id, change the vault,  *)
(*   commit the rows together with the id, drop the journal, drop the copy *)
(*                                                                         *)
(* and every vault unlock first settles a journal it finds: the id is in   *)
(* the database, the vault stands; it is not, the copy goes back.          *)
(*                                                                         *)
(* The module has the import with each way it can fail, the commands that  *)
(* save and delete a secret meanwhile, the crash of the program anywhere,  *)
(* and the recovery, run by the program and by the MCP process, which      *)
(* unlocks the same files for each tool call (mcp.rs).  Secrets, rows and  *)
(* ids are numbers: the operation that wrote them.                         *)
(***************************************************************************)
EXTENDS Naturals, FiniteSets

CONSTANTS
  Slots,         \* the secrets of the vault, each with its database row
  Guarded,       \* those saved under the connection or the credential lock
  ImportSlots,   \* those an import brings
  Kinds,         \* the imports that are run: "transfer", "sync"
  Recoverers,    \* who unlocks the vault: "app", "mcp"
  McpOverlaps,   \* what a tool call may overlap: "edits", "unlock"
  Editable,      \* the slots the user saves and deletes
  Faults,        \* the steps that can fail
  MaxOps,        \* bound on imports and saves
  MaxCrashes,    \* bound on crashes of either process
  None,          \* no file, no row, no secret
  Torn           \* a file half copied

FaultKinds == {"journal", "begin", "rows", "commit", "persist", "undo",
               "abort", "cleanup", "row"}

ASSUME ConstantsAssumption ==
  /\ Guarded \subseteq Slots
  /\ ImportSlots \subseteq Slots
  /\ Editable \subseteq Slots
  /\ Kinds \subseteq {"transfer", "sync"}
  /\ Recoverers \subseteq {"app", "mcp"}
  /\ McpOverlaps \subseteq {"edits", "unlock"}
  /\ Faults \subseteq FaultKinds
  /\ MaxOps \in Nat
  /\ MaxCrashes \in Nat
  /\ None \notin Nat
  /\ Torn \notin [Slots -> Nat \cup {None}]
  /\ Torn # None
  /\ None \notin [Slots -> Nat \cup {None}]

VARIABLES
  vault,     \* secrets.enc on disk
  backup,    \* .connection-transfer-secrets.enc.bak, or None
  journal,   \* transaction_id of .connection-transfer-pending.json, or None
  db,        \* per slot, the operation that wrote the committed row, or None
  key,       \* app_settings[connection_transfer_last_commit], or None
  mem,       \* plaintext of the unlocked VaultSecretStore, None when locked
  pc,        \* where the running import is
  kind,      \* which import it is
  tx,        \* its transaction id
  todo,      \* secrets it has not written yet
  undo,      \* secret_backups: the slots to put back with their old secrets
  saving,    \* per slot, the secret a save wrote before its row, or None
  deleting,  \* slots whose row is deleted and whose secret is not yet
  rec,       \* where each process's unlock is
  held,      \* per copier, the content of the copy it is writing back
  dirty,     \* slots whose last save did not get to its row
  clock,     \* operations so far, the source of ids
  crashes,
  touched,   \* history: slots saved or deleted while an import ran or was pending
  crossed    \* history: what the MCP process did beside the program

files == <<vault, backup, journal>>
rows == <<db, key>>
import == <<pc, kind, tx, todo, undo>>
edits == <<saving, deleting, dirty>>
unlocks == <<rec, held>>
state == <<files, rows, mem, import, edits, unlocks, clock, crashes>>
vars == <<state, touched, crossed>>

Contents == [Slots -> Nat \cup {None}]
Ids == Nat \cup {None}
Copiers == {"import", "app", "mcp"}
NoUndo == [s \in {} |-> None]

TypeOK ==
  /\ vault \in Contents \cup {Torn}
  /\ backup \in Contents \cup {Torn, None}
  /\ journal \in Ids
  /\ db \in [Slots -> Ids]
  /\ key \in Ids
  /\ mem \in Contents \cup {None}
  /\ pc \in {"idle", "copied", "begun", "secrets", "undo", "copying",
             "cleanup", "dropped"}
  /\ kind \in {"transfer", "sync"}
  /\ tx \in Nat
  /\ todo \subseteq ImportSlots
  /\ \E D \in SUBSET ImportSlots : undo \in [D -> Ids]
  /\ saving \in [Slots -> Ids]
  /\ deleting \subseteq Slots
  /\ rec \in [{"app", "mcp"} -> {"idle", "restore", "copying", "cleanup",
                                 "dropped", "open"}]
  /\ held \in [Copiers -> Contents \cup {Torn, None}]
  /\ dirty \subseteq Slots
  /\ clock \in 0..MaxOps
  /\ crashes \in 0..MaxCrashes
  /\ touched \subseteq Slots
  /\ crossed \subseteq {"overlap", "stale"}

Init ==
  /\ vault = [s \in Slots |-> 0]
  /\ backup = None
  /\ journal = None
  /\ db = [s \in Slots |-> 0]
  /\ key = None
  /\ mem = None
  /\ pc = "idle" /\ kind \in Kinds /\ tx = 0 /\ todo = {} /\ undo = NoUndo
  /\ saving = [s \in Slots |-> None]
  /\ deleting = {}
  /\ rec = [r \in {"app", "mcp"} |-> "idle"]
  /\ held = [c \in Copiers |-> None]
  /\ dirty = {}
  /\ clock = 0
  /\ crashes = 0
  /\ touched = {}
  /\ crossed = {}

----------------------------------------------------------------------------
(* Locks                                                                   *)

Editing == {s \in Slots : saving[s] # None} \cup deleting

\* connection_transfer_import holds connection_store_lock and
\* credential_store_lock from before the copy until it returns; the WebDAV
\* download holds neither.
HoldsStoreLocks == pc # "idle" /\ kind = "transfer"

\* BEGIN IMMEDIATE .. COMMIT: no other command's row statement gets through.
DatabaseLocked == pc = "secrets" /\ kind = "transfer"

\* The timing assumption McpOverlaps stands for: nothing in the code keeps a
\* tool call of the MCP process away from the imports, the saves ("edits") or
\* the unlock ("unlock") of the program.
McpAway(what) == what \in McpOverlaps \/ rec["mcp"] = "idle"

\* fs::copy has written all it read.  The file is whole again unless another
\* copy still writes it; a vault saved meanwhile has replaced the file the copy
\* was written to (write_json_document renames over it).
WhenCopied(c) ==
  IF vault = Torn /\ \A d \in Copiers \ {c} : held[d] = None
  THEN held[c] ELSE vault

----------------------------------------------------------------------------
(* The import                                                              *)

\* ConnectionTransferRecovery::begin, first half: refused while a journal is
\* there, otherwise the vault is copied.
Begin(k) ==
  /\ pc = "idle" /\ mem # None /\ clock < MaxOps
  /\ McpAway("edits")
  /\ k = "transfer" => Editing \cap Guarded = {}
  /\ journal = None
  /\ backup' = vault
  /\ pc' = "copied" /\ kind' = k /\ tx' = clock + 1
  /\ todo' = ImportSlots /\ undo' = NoUndo
  /\ clock' = clock + 1
  /\ UNCHANGED <<vault, journal, rows, mem, edits, unlocks, crashes>>

\* begin, second half: the journal is written (temporary file and rename).
WriteJournal ==
  /\ pc = "copied"
  /\ journal' = tx
  /\ pc' = "begun"
  /\ UNCHANGED <<vault, backup, rows, mem, kind, tx, todo, undo, edits,
                 unlocks, clock, crashes>>

\* The journal cannot be written: begin removes the copy and returns.
JournalFails ==
  /\ pc = "copied" /\ "journal" \in Faults
  /\ backup' = None
  /\ pc' = "idle"
  /\ UNCHANGED <<vault, journal, rows, mem, kind, tx, todo, undo, edits,
                 unlocks, clock, crashes>>

\* apply_transfer_data: BEGIN IMMEDIATE, every row and the transaction id.
OpenTransaction ==
  /\ pc = "begun" /\ kind = "transfer"
  /\ pc' = "secrets"
  /\ UNCHANGED <<files, rows, mem, kind, tx, todo, undo, edits, unlocks,
                 clock, crashes>>

\* A query before the transaction, or BEGIN IMMEDIATE itself, fails (the
\* database stays busy): `?` returns with the journal in place.
TransactionRefused ==
  /\ pc = "begun" /\ kind = "transfer" /\ "begin" \in Faults
  /\ pc' = "idle"
  /\ UNCHANGED <<files, rows, mem, kind, tx, todo, undo, edits, unlocks,
                 clock, crashes>>

\* A row fails: ROLLBACK and abort.
RowsFail ==
  /\ pc = "begun" /\ kind = "transfer" /\ "rows" \in Faults
  /\ pc' = "undo"
  /\ UNCHANGED <<files, rows, mem, kind, tx, todo, undo, edits, unlocks,
                 clock, crashes>>

\* sync_import_transaction::apply: the old value of every secret first.
CollectBackups ==
  /\ pc = "begun" /\ kind = "sync"
  /\ undo' = [s \in ImportSlots |-> mem[s]]
  /\ pc' = "secrets"
  /\ UNCHANGED <<files, rows, mem, kind, tx, todo, edits, unlocks, clock,
                 crashes>>

\* The backup of one secret; the sync import has it already.
WithBackup(s) ==
  IF kind = "sync" THEN undo
  ELSE [t \in DOMAIN undo \cup {s} |-> IF t = s THEN mem[s] ELSE undo[t]]

\* set_secret: the plaintext in memory, then the whole vault to disk.
WriteSecret(s) ==
  /\ pc = "secrets" /\ s \in todo
  /\ undo' = WithBackup(s)
  /\ mem' = [mem EXCEPT ![s] = tx]
  /\ vault' = mem'
  /\ todo' = todo \ {s}
  /\ UNCHANGED <<backup, journal, rows, pc, kind, tx, edits, unlocks, clock,
                 crashes>>

\* The vault cannot be written; memory has the new secret all the same.
SecretFails(s) ==
  /\ pc = "secrets" /\ s \in todo /\ "persist" \in Faults
  /\ undo' = WithBackup(s)
  /\ mem' = [mem EXCEPT ![s] = tx]
  /\ pc' = "undo"
  /\ UNCHANGED <<files, rows, kind, tx, todo, edits, unlocks, clock, crashes>>

\* The rows an import leaves: a transfer merges, a sync snapshot replaces.
ImportedRows ==
  [s \in Slots |-> IF s \in ImportSlots THEN tx
                   ELSE IF kind = "transfer" THEN db[s] ELSE None]

\* COMMIT: rows and transaction id become visible together.
Commit ==
  /\ pc = "secrets" /\ todo = {}
  /\ db' = ImportedRows
  /\ key' = tx
  /\ dirty' = dirty \ ImportSlots
  /\ pc' = "cleanup"
  /\ UNCHANGED <<files, mem, kind, tx, todo, undo, saving, deleting, unlocks,
                 clock, crashes>>

\* Mutant: only the file is restored, the plaintext in memory is not.
CommitFails_FileOnly ==
  /\ pc = "secrets" /\ todo = {} /\ "commit" \in Faults
  /\ pc' = "undo" /\ undo' = NoUndo
  /\ UNCHANGED <<files, rows, mem, kind, tx, todo, edits, unlocks, clock,
                 crashes>>

CommitFails ==
  /\ pc = "secrets" /\ todo = {} /\ "commit" \in Faults
  /\ pc' = "undo"
  /\ UNCHANGED <<files, rows, mem, kind, tx, todo, undo, edits, unlocks,
                 clock, crashes>>

\* restore_secret_backups: one secret goes back, in memory and on disk.
UndoSecret(s) ==
  /\ pc = "undo" /\ s \in DOMAIN undo
  /\ mem' = [mem EXCEPT ![s] = undo[s]]
  /\ vault' = mem'
  /\ undo' = [t \in DOMAIN undo \ {s} |-> undo[t]]
  /\ UNCHANGED <<backup, journal, rows, pc, kind, tx, todo, edits, unlocks,
                 clock, crashes>>

\* Mutant: the failed compensation is ignored and the files are cleaned up.
UndoFails_CleansUp(s) ==
  /\ pc = "undo" /\ s \in DOMAIN undo /\ "undo" \in Faults
  /\ mem' = [mem EXCEPT ![s] = undo[s]]
  /\ pc' = "cleanup"
  /\ UNCHANGED <<files, rows, kind, tx, todo, undo, edits, unlocks, clock,
                 crashes>>

\* The vault still cannot be written: `?` returns before the abort.
UndoFails(s) ==
  /\ pc = "undo" /\ s \in DOMAIN undo /\ "undo" \in Faults
  /\ mem' = [mem EXCEPT ![s] = undo[s]]
  /\ pc' = "idle"
  /\ UNCHANGED <<files, rows, kind, tx, todo, undo, edits, unlocks, clock,
                 crashes>>

\* abort: restore_vault_backup reads the journal and starts the copy.
AbortCopy ==
  /\ pc = "undo" /\ DOMAIN undo = {}
  /\ journal # None /\ backup # None
  /\ vault' = Torn
  /\ held' = [held EXCEPT !["import"] = backup]
  /\ pc' = "copying"
  /\ UNCHANGED <<backup, journal, rows, mem, kind, tx, todo, undo, edits, rec,
                 clock, crashes>>

\* abort finds no journal or no copy, or the copy fails before or midway.
AbortFails ==
  /\ pc = "undo" /\ DOMAIN undo = {}
  /\ \/ (journal = None \/ backup = None) /\ vault' = vault
     \/ "abort" \in Faults /\ vault' \in {vault, Torn}
  /\ pc' = "idle"
  /\ UNCHANGED <<backup, journal, rows, mem, kind, tx, todo, undo, edits,
                 unlocks, clock, crashes>>

AbortCopied ==
  /\ pc = "copying"
  /\ vault' = WhenCopied("import")
  /\ held' = [held EXCEPT !["import"] = None]
  /\ pc' = "cleanup"
  /\ UNCHANGED <<backup, journal, rows, mem, kind, tx, todo, undo, edits, rec,
                 clock, crashes>>

\* cleanup_recovery_files after a commit or an abort: the journal first.
DropJournal ==
  /\ pc = "cleanup"
  /\ journal' = None
  /\ pc' = "dropped"
  /\ UNCHANGED <<vault, backup, rows, mem, kind, tx, todo, undo, edits,
                 unlocks, clock, crashes>>

DropBackup ==
  /\ pc = "dropped"
  /\ backup' = None
  /\ pc' = "idle"
  /\ UNCHANGED <<vault, journal, rows, mem, kind, tx, todo, undo, edits,
                 unlocks, clock, crashes>>

\* A file cannot be removed: the rest of the clean-up is skipped.
CleanupFails ==
  /\ pc \in {"cleanup", "dropped"}
  /\ (IF key = tx THEN "cleanup" ELSE "abort") \in Faults
  /\ pc' = "idle"
  /\ UNCHANGED <<files, rows, mem, kind, tx, todo, undo, edits, unlocks,
                 clock, crashes>>

ImportStep ==
  \/ WriteJournal \/ JournalFails
  \/ OpenTransaction \/ TransactionRefused \/ RowsFail \/ CollectBackups
  \/ \E s \in ImportSlots : WriteSecret(s) \/ SecretFails(s)
  \/ Commit \/ CommitFails
  \/ \E s \in ImportSlots : UndoSecret(s) \/ UndoFails(s)
  \/ AbortCopy \/ AbortFails \/ AbortCopied
  \/ DropJournal \/ DropBackup \/ CleanupFails

----------------------------------------------------------------------------
(* Saving and deleting one secret (connection_upsert, credential_upsert,   *)
(* connection_delete, credential_delete; the WebDAV and AI settings save   *)
(* theirs without a lock).                                                 *)

MayEdit(s) ==
  /\ mem # None /\ s \in Editable \ Editing /\ McpAway("edits")
  /\ s \in Guarded => ~HoldsStoreLocks

\* The secret first.
SaveSecret(s) ==
  /\ MayEdit(s) /\ clock < MaxOps
  /\ mem' = [mem EXCEPT ![s] = clock + 1]
  /\ vault' = mem'
  /\ saving' = [saving EXCEPT ![s] = clock + 1]
  /\ dirty' = dirty \cup {s}
  /\ clock' = clock + 1
  /\ UNCHANGED <<backup, journal, rows, import, deleting, unlocks, crashes>>

\* Then the row; the command has succeeded.
SaveRow(s) ==
  /\ saving[s] # None /\ ~DatabaseLocked
  /\ db' = [db EXCEPT ![s] = saving[s]]
  /\ saving' = [saving EXCEPT ![s] = None]
  /\ dirty' = dirty \ {s}
  /\ UNCHANGED <<files, key, mem, import, deleting, unlocks, clock, crashes>>

\* The row statement fails; the secret stays.
SaveRowFails(s) ==
  /\ saving[s] # None /\ "row" \in Faults
  /\ saving' = [saving EXCEPT ![s] = None]
  /\ UNCHANGED <<files, rows, mem, import, deleting, dirty, unlocks, clock,
                 crashes>>

\* The row goes first, then its secret.
DeleteRow(s) ==
  /\ MayEdit(s) /\ db[s] # None /\ ~DatabaseLocked
  /\ db' = [db EXCEPT ![s] = None]
  /\ deleting' = deleting \cup {s}
  /\ UNCHANGED <<files, key, mem, import, saving, dirty, unlocks, clock,
                 crashes>>

DeleteSecret(s) ==
  /\ s \in deleting
  /\ mem' = [mem EXCEPT ![s] = None]
  /\ vault' = mem'
  /\ deleting' = deleting \ {s}
  /\ UNCHANGED <<backup, journal, rows, import, saving, dirty, unlocks, clock,
                 crashes>>

EditStep ==
  \E s \in Editable : SaveRow(s) \/ SaveRowFails(s) \/ DeleteSecret(s)

----------------------------------------------------------------------------
(* Unlocking                                                               *)

\* The program unlocks a locked vault, the MCP process at each tool call.
MayUnlock(r) ==
  /\ r \in Recoverers /\ rec[r] = "idle"
  /\ IF r = "app" THEN mem = None /\ McpAway("unlock")
     ELSE /\ "edits" \in McpOverlaps \/ (pc = "idle" /\ Editing = {})
          /\ "unlock" \in McpOverlaps \/ rec["app"] = "idle"

\* Mutant: the committed id is not looked at.
Unlock_AlwaysRestores(r) ==
  /\ MayUnlock(r)
  /\ r = "mcp" => journal # None
  /\ rec' = [rec EXCEPT ![r] = IF journal = None THEN "open" ELSE "restore"]
  /\ UNCHANGED <<files, rows, mem, import, edits, held, clock, crashes>>

\* recover_pending_connection_transfer: the journal and the committed id are
\* read.  Without a journal the MCP process only reads the vault.
Unlock(r) ==
  /\ MayUnlock(r)
  /\ r = "mcp" => journal # None
  /\ rec' = [rec EXCEPT ![r] = IF journal = None THEN "open"
                               ELSE IF key = journal THEN "cleanup"
                               ELSE "restore"]
  /\ UNCHANGED <<files, rows, mem, import, edits, held, clock, crashes>>

\* restore_vault_backup_with_state; without the copy the unlock fails.
RestoreCopy(r) ==
  /\ rec[r] = "restore"
  /\ IF backup = None
     THEN rec' = [rec EXCEPT ![r] = "idle"] /\ UNCHANGED <<vault, held>>
     ELSE /\ rec' = [rec EXCEPT ![r] = "copying"]
          /\ vault' = Torn
          /\ held' = [held EXCEPT ![r] = backup]
  /\ UNCHANGED <<backup, journal, rows, mem, import, edits, clock, crashes>>

RestoreCopied(r) ==
  /\ rec[r] = "copying"
  /\ vault' = WhenCopied(r)
  /\ held' = [held EXCEPT ![r] = None]
  /\ rec' = [rec EXCEPT ![r] = "cleanup"]
  /\ UNCHANGED <<backup, journal, rows, mem, import, edits, clock, crashes>>

\* Mutant: the copy is removed before the journal.
RecoveryDropJournal_BackupFirst(r) ==
  /\ rec[r] = "cleanup"
  /\ backup' = None
  /\ rec' = [rec EXCEPT ![r] = "dropped"]
  /\ UNCHANGED <<vault, journal, rows, mem, import, edits, held, clock, crashes>>

RecoveryDropJournal(r) ==
  /\ rec[r] = "cleanup"
  /\ journal' = None
  /\ rec' = [rec EXCEPT ![r] = "dropped"]
  /\ UNCHANGED <<vault, backup, rows, mem, import, edits, held, clock, crashes>>

RecoveryDropBackup(r) ==
  /\ rec[r] = "dropped"
  /\ backup' = None
  /\ rec' = [rec EXCEPT ![r] = IF r = "app" THEN "open" ELSE "idle"]
  /\ UNCHANGED <<vault, journal, rows, mem, import, edits, held, clock, crashes>>

\* VaultSecretStore::open_existing; a half copied file cannot be parsed.
OpenVault ==
  /\ rec["app"] = "open"
  /\ mem' = IF vault = Torn THEN None ELSE vault
  /\ rec' = [rec EXCEPT !["app"] = "idle"]
  /\ UNCHANGED <<files, rows, import, edits, held, clock, crashes>>

UnlockStep(r) ==
  \/ Unlock(r) \/ RestoreCopy(r) \/ RestoreCopied(r)
  \/ RecoveryDropJournal(r) \/ RecoveryDropBackup(r)

----------------------------------------------------------------------------
(* Crashes                                                                 *)

\* The program dies: memory is gone, an open transaction is rolled back.
Crash ==
  /\ crashes < MaxCrashes
  /\ mem # None \/ rec["app"] # "idle"
  /\ mem' = None
  /\ pc' = "idle" /\ todo' = {} /\ undo' = NoUndo
  /\ saving' = [s \in Slots |-> None] /\ deleting' = {}
  /\ rec' = [rec EXCEPT !["app"] = "idle"]
  /\ held' = [held EXCEPT !["import"] = None, !["app"] = None]
  /\ crashes' = crashes + 1
  /\ UNCHANGED <<files, rows, kind, tx, dirty, clock>>

\* The client ends the MCP process.
McpExit ==
  /\ crashes < MaxCrashes /\ rec["mcp"] # "idle"
  /\ rec' = [rec EXCEPT !["mcp"] = "idle"]
  /\ held' = [held EXCEPT !["mcp"] = None]
  /\ crashes' = crashes + 1
  /\ UNCHANGED <<files, rows, mem, import, edits, clock>>

----------------------------------------------------------------------------
(* History                                                                 *)

\* A journal that the next unlock answers by putting the copy back.
Pending == journal # None /\ key # journal

\* Slots whose save or delete has an import around it, or one that failed and
\* left its journal: the copy the import may put back does not have it.
AtRisk == IF pc # "idle" \/ Pending THEN Editing ELSE {}

\* Nothing keeps a tool call of the MCP process away from the program: it may
\* settle a journal during an import, a save or an unlock of the program
\* ("overlap"), or put the file back under a program whose memory keeps the
\* secrets of the import that failed ("stale").
Crossing ==
  (IF rec["mcp"] # "idle" /\ (pc # "idle" \/ Editing # {} \/ rec["app"] # "idle")
   THEN {"overlap"} ELSE {})
  \cup
  (IF rec["mcp"] = "dropped" /\ mem # None /\ vault # Torn
        /\ \E s \in Slots \ touched : vault[s] # mem[s]
   THEN {"stale"} ELSE {})

Remember == touched' = touched \cup AtRisk' /\ crossed' = crossed \cup Crossing'

Step ==
  \/ \E k \in Kinds : Begin(k)
  \/ ImportStep
  \/ \E s \in Editable : SaveSecret(s) \/ DeleteRow(s)
  \/ EditStep
  \/ \E r \in Recoverers : UnlockStep(r)
  \/ OpenVault
  \/ Crash \/ McpExit

Next == Step /\ Remember

Spec == Init /\ [][Next]_vars

\* The import is one call without a wait for the user, and so is an unlock;
\* the program unlocks the vault when it starts.
FairSpec ==
  /\ Spec
  /\ WF_vars(ImportStep /\ Remember) /\ WF_vars(EditStep /\ Remember)
  /\ WF_vars(OpenVault /\ Remember)
  /\ \A r \in Recoverers : WF_vars(UnlockStep(r) /\ Remember)

----------------------------------------------------------------------------
(* Properties                                                              *)

\* The vault file, with the copy the MCP process is writing finished.
Stored == IF held["mcp"] # None THEN WhenCopied("mcp") ELSE vault

\* The vault the next unlock opens, were the program to stop now.
NextVault ==
  IF Pending THEN backup ELSE Stored

\* That vault has the secret the committed row was written with.
Kept(s) == NextVault \notin {Torn, None} /\ NextVault[s] = db[s]

\* A committed import keeps its secrets: at every moment of the import, of
\* its clean-up and of a recovery, stopping now and unlocking gives the rows
\* of the last committed import (recover_pending_connection_transfer compares
\* the journal with the committed id) the secrets that came with them.
CommittedIsKept ==
  \A s \in Slots : key # None /\ db[s] = key /\ s \notin dirty => Kept(s)

\* Whatever an import does or fails to do, the secret of a row it did not
\* write is the one the row was saved with: a crash or a failure of the import
\* puts nothing older and nothing newer in its place.
SavedIsKept ==
  \A s \in Slots : db[s] # None /\ db[s] # key /\ s \notin dirty => Kept(s)

\* The rows nothing of that kind has happened to.
Undisturbed == IF crossed = {} THEN Slots \ (dirty \cup touched) ELSE {}

\* Whatever step of an import, of its compensation, of its clean-up or of a
\* recovery fails or is the last before a crash, every row keeps the secret it
\* was saved or imported with, but for the secrets saved or deleted while the
\* import ran or its journal was left behind, and for what the MCP process does
\* at the same time: those are all the ways to lose one.
SecretsAreKept == \A s \in Undisturbed : db[s] # None => Kept(s)

\* A failed import leaves the running program with the secrets its rows were
\* saved with: restore_secret_backups undoes the plaintext in memory too.
LiveAgrees ==
  mem # None /\ pc = "idle" /\ ~Pending =>
    \A s \in Undisturbed \ Editing : db[s] # None => mem[s] = db[s]

\* Every start of the program ends with an unlocked vault: no crash leaves
\* files that recover_pending_connection_transfer refuses for ever.
Unlocks == (mem = None) ~> (mem # None)

=============================================================================

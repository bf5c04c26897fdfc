---------------------------- MODULE FileTransfer ----------------------------
(***************************************************************************)
(* The queue of remote file transfers: the store behind the transfer panel *)
(* (remoteFileTransferStore.ts), the controller that runs at most `limit`  *)
(* tasks (useRemoteFileTransferController.ts), the tasks WorkspaceShell    *)
(* enqueues, their single conflict prompt, and the cancel tokens of the    *)
(* backend (remote_files.rs).  Bytes, speeds and stages are left out: a    *)
(* progress event only changes those, and only on a running row.           *)
(***************************************************************************)
EXTENDS Naturals, Sequences, FiniteSets, SequencesExt, Filter

CONSTANTS
    Transfers,      \* transfer ids, each made at most once
    Kind,           \* how a transfer moves its data
    Limits,         \* values of settings.fileTransfer.concurrentTransfers
    History,        \* maxFinishedTransferHistory and maxErrorTransferHistory
    NoTransfer

ASSUME KindAssumption == Kind \in [Transfers -> {"direct", "cached", "archived"}]
ASSUME LimitsAssumption == Limits \subseteq Nat \ {0} /\ Limits # {}
ASSUME HistoryAssumption == History \in Nat \ {0}
ASSUME NoneAssumption == NoTransfer \notin Transfers

VARIABLES
    items,      \* rows of the store, newest first
    rowStatus,     \* their status; "none" before, "gone" after
    retry,      \* rows that carry what a retry needs
    asks,       \* transfers whose next attempt runs under the policy "ask"
    queue, tasks, running, limit,   \* the controller's refs
    pc,         \* where the task of a transfer is
    prompt,     \* transferConflictPrompt: the transfer it resolves
    cancelling, \* remote_file_cancel_transfer calls not yet served
    token       \* cancel tokens of the backend

transferVars == <<items, rowStatus, retry, asks, queue, tasks, running, limit, pc, prompt,
          cancelling, token>>

FinishedStatuses == {"success", "skipped", "canceled"}
ActiveStatuses == {"queued", "running"}
Absent == {"none", "gone"}

TransferInit ==
    /\ items = <<>>
    /\ rowStatus = [t \in Transfers |-> "none"]
    /\ retry = {} /\ asks = {}
    /\ queue = <<>> /\ tasks = {} /\ running = {} /\ limit \in Limits
    /\ pc = [t \in Transfers |-> "idle"]
    /\ prompt = NoTransfer
    /\ cancelling = {} /\ token = [t \in Transfers |-> "none"]

-----------------------------------------------------------------------------
(* The store. *)

(* A missing row is left alone. *)
updateRemoteFileTransfer(st, t, s) == IF st[t] \in Absent THEN st ELSE [st EXCEPT ![t] = s]

(* Of the finished rows, and of the failed ones, the newest History stay;  *)
(* an active row always does.                                              *)
Class(s) == IF s = "error" THEN {"error"} ELSE FinishedStatuses
Newer(rows, t) == {rows[i] : i \in {j \in DOMAIN rows : \A k \in 1 .. j : rows[k] # t}}
Kept(rows, st, t) ==
    \/ st[t] \in ActiveStatuses
    \/ Cardinality({u \in Newer(rows, t) : st[u] \in Class(st[t])}) < History

trimTransferHistory(rows, st) == Among(rows, {t \in ToSet(rows) : Kept(rows, st, t)})

(* The store once the statuses of rows became st. *)
SetRows(rows, st) ==
    LET kept == trimTransferHistory(rows, st)
    IN  /\ items' = kept
        /\ rowStatus' = [t \in Transfers |->
                        IF t \in ToSet(rows) \ ToSet(kept) THEN "gone" ELSE st[t]]

isTransferNoLongerActive(t) == rowStatus[t] \in {"canceled", "error"}

failTransfer_Always(st, t, s) == updateRemoteFileTransfer(st, t, s)

(* A canceled row stays canceled when its task fails. *)
failTransfer(st, t, s) == IF st[t] = "canceled" THEN st ELSE updateRemoteFileTransfer(st, t, s)

finishTransfer(st, t, s) == IF isTransferNoLongerActive(t) THEN st ELSE updateRemoteFileTransfer(st, t, s)

-----------------------------------------------------------------------------
(* The controller.  c collects what a handler has done so far.             *)

Now == [queue |-> queue, tasks |-> tasks, running |-> running, limit |-> limit,
        rowStatus |-> rowStatus, pc |-> pc, asks |-> asks, retry |-> retry]

(* Once its policy is known the task stores what a retry needs and goes on *)
(* to write the local cache, or straight to the command.                   *)
Transmit(c, t) ==
    [c EXCEPT !.retry = @ \cup {t},
              !.asks = @ \ {t},
              !.rowStatus = updateRemoteFileTransfer(@, t, "running"),
              !.pc[t] = IF Kind[t] = "direct" THEN "invoked" ELSE "caching"]

(* A task runs at once to its first await. *)
StartTask(c, t) == IF t \in c.asks THEN [c EXCEPT !.pc[t] = "checking"] ELSE Transmit(c, t)

drainOne(c, t) ==
    IF Cardinality(c.running) >= c.limit THEN [c EXCEPT !.queue = Append(@, t)]
    ELSE IF t \notin c.tasks \/ c.rowStatus[t] \notin Absent \cup {"queued"}
         THEN [c EXCEPT !.tasks = @ \ {t}]
         ELSE StartTask([c EXCEPT !.running = @ \cup {t},
                                  !.rowStatus = updateRemoteFileTransfer(@, t, "running")], t)

drainTransferQueue(c) ==
    LET drained[n \in 0 .. Len(c.queue)] ==
            IF n = 0 THEN [c EXCEPT !.queue = <<>>] ELSE drainOne(drained[n - 1], c.queue[n])
    IN  drained[Len(c.queue)]

(* The handler ends: the state is what c says, on the given rows. *)
Become(c, rows) ==
    /\ queue' = c.queue /\ tasks' = c.tasks /\ running' = c.running /\ limit' = c.limit
    /\ pc' = c.pc /\ asks' = c.asks /\ retry' = c.retry
    /\ SetRows(rows, c.rowStatus)

enqueueRemoteFileTransfer(c, t) ==
    drainTransferQueue(
        [c EXCEPT !.tasks = @ \cup {t},
                  !.queue = IF t \in ToSet(@) \cup c.running THEN @ ELSE Append(@, t)])

dropQueuedTransfer(c, t) ==
    [c EXCEPT !.queue = Among(@, Transfers \ {t}), !.tasks = @ \ {t}]

(* The task returns with its row at st; the next queued ones may start.    *)
TaskEnds(t, st) ==
    Become(drainTransferQueue([Now EXCEPT !.rowStatus = st, !.pc[t] = "idle",
                                          !.running = @ \ {t}, !.tasks = @ \ {t}]), items)

-----------------------------------------------------------------------------
(* The user. *)

(* An upload or a download is requested; ask: the policy of the settings.  *)
AddTransfer(t, ask) ==
    /\ rowStatus[t] = "none"
    /\ Become(enqueueRemoteFileTransfer([Now EXCEPT !.rowStatus[t] = "queued",
                                           !.asks = IF ask THEN @ \cup {t} ELSE @], t),
              <<t>> \o items)
    /\ UNCHANGED <<prompt, cancelling, token>>

(* The picker of an upload fails: a row that only shows the error. *)
showTransferPickerError(t) ==
    /\ rowStatus[t] = "none"
    /\ SetRows(<<t>> \o items, [rowStatus EXCEPT ![t] = "error"])
    /\ UNCHANGED <<retry, asks, queue, tasks, running, limit, pc, prompt, cancelling, token>>

(* The row's cancel button, or the close of the connection's last tab.     *)
requestCancelTransfer(t) ==
    /\ rowStatus[t] \in ActiveStatuses
    /\ IF rowStatus[t] = "queued"
       THEN /\ Become([dropQueuedTransfer(Now, t) EXCEPT !.rowStatus[t] = "canceled"], items)
            /\ UNCHANGED cancelling
       ELSE /\ Become([Now EXCEPT !.rowStatus[t] = "canceled"], items)
            /\ cancelling' = cancelling \cup {t}
    /\ UNCHANGED <<prompt, token>>

retryRemoteFileTransfer(t) ==
    /\ rowStatus[t] = "error" /\ t \in retry
    /\ Become(enqueueRemoteFileTransfer([Now EXCEPT !.rowStatus[t] = "queued"], t), items)
    /\ UNCHANGED <<prompt, cancelling, token>>

removeTransfer(t) ==
    /\ rowStatus[t] \in FinishedStatuses \cup {"error"}
    /\ LET c == dropQueuedTransfer(Now, t)
       IN  queue' = c.queue /\ tasks' = c.tasks
    /\ items' = Among(items, Transfers \ {t})
    /\ rowStatus' = [rowStatus EXCEPT ![t] = "gone"]
    /\ UNCHANGED <<retry, asks, running, limit, pc, prompt, cancelling, token>>

clearFinishedTransfers ==
    /\ \E t \in Transfers : rowStatus[t] \in FinishedStatuses
    /\ items' = Among(items, {t \in Transfers : rowStatus[t] \notin FinishedStatuses})
    /\ rowStatus' = [t \in Transfers |-> IF rowStatus[t] \in FinishedStatuses THEN "gone" ELSE rowStatus[t]]
    /\ UNCHANGED <<retry, asks, queue, tasks, running, limit, pc, prompt, cancelling, token>>

SetLimit(n) ==
    /\ n # limit
    /\ Become(drainTransferQueue([Now EXCEPT !.limit = n]), items)
    /\ UNCHANGED <<prompt, cancelling, token>>

-----------------------------------------------------------------------------
(* The tasks. *)

(* The check of the target returns: nothing there, or the user is asked.   *)
(* The prompt is one slot: a second one takes the place of the first.      *)
ResolvedPolicy(t) ==
    /\ IF isTransferNoLongerActive(t)
       THEN TaskEnds(t, rowStatus)
       ELSE Become(Transmit(Now, t), items)
    /\ UNCHANGED <<cancelling, token>>

TargetIsFree(t) ==
    /\ pc[t] = "checking"
    /\ ResolvedPolicy(t)
    /\ UNCHANGED prompt

TargetExists(t) ==
    /\ pc[t] = "checking"
    /\ pc' = [pc EXCEPT ![t] = "asking"]
    /\ prompt' = t
    /\ UNCHANGED <<items, rowStatus, retry, asks, queue, tasks, running, limit, cancelling, token>>

CheckFails(t) ==
    /\ pc[t] = "checking"
    /\ TaskEnds(t, failTransfer(rowStatus, t, "error"))
    /\ UNCHANGED <<prompt, cancelling, token>>

settleTransferConflictPrompt_Unresolved(policy) ==
    /\ prompt # NoTransfer
    /\ prompt' = NoTransfer
    /\ IF policy THEN ResolvedPolicy(prompt)
                 ELSE UNCHANGED <<items, rowStatus, retry, asks, queue, tasks, running, limit, pc,
                                  cancelling, token>>

settleTransferConflictPrompt(policy) ==
    /\ prompt # NoTransfer
    /\ prompt' = NoTransfer
    /\ IF policy THEN ResolvedPolicy(prompt)
                 ELSE /\ TaskEnds(prompt, updateRemoteFileTransfer(rowStatus, prompt, "canceled"))
                      /\ UNCHANGED <<cancelling, token>>

(* Writing the cache reports through setTransferProgress, which sets the   *)
(* status too; so does the call that follows, with no look at the row.     *)
CacheProgress(t) ==
    /\ pc[t] = "caching"
    /\ Become([Now EXCEPT !.rowStatus = updateRemoteFileTransfer(@, t, "running")], items)
    /\ UNCHANGED <<prompt, cancelling, token>>

CacheWritten(t) ==
    /\ pc[t] = "caching"
    /\ Become([Now EXCEPT !.rowStatus = updateRemoteFileTransfer(@, t, "running"),
                          !.pc[t] = "invoked"], items)
    /\ UNCHANGED <<prompt, cancelling, token>>

CacheFails(t) ==
    /\ pc[t] = "caching"
    /\ TaskEnds(t, failTransfer(rowStatus, t, "error"))
    /\ UNCHANGED <<prompt, cancelling, token>>

(* The timer behind the upload of an archive sets the status while the     *)
(* command runs.                                                           *)
startTransferProgressPulse(t) ==
    /\ Kind[t] = "archived" /\ pc[t] \in {"invoked", "moving"}
    /\ Become([Now EXCEPT !.rowStatus = updateRemoteFileTransfer(@, t, "running")], items)
    /\ UNCHANGED <<prompt, cancelling, token>>

-----------------------------------------------------------------------------
(* The backend: a command registers its token once its arguments are       *)
(* resolved; a cancel that comes earlier finds no token and is lost.       *)

register_transfer(t) ==
    /\ pc[t] = "invoked"
    /\ pc' = [pc EXCEPT ![t] = "moving"]
    /\ token' = [token EXCEPT ![t] = "live"]
    /\ UNCHANGED <<items, rowStatus, retry, asks, queue, tasks, running, limit, prompt, cancelling>>

cancel_transfer(t) ==
    /\ t \in cancelling
    /\ cancelling' = cancelling \ {t}
    /\ token' = [token EXCEPT ![t] = IF @ = "live" THEN "canceled" ELSE @]
    /\ UNCHANGED <<items, rowStatus, retry, asks, queue, tasks, running, limit, pc, prompt>>

CommandReturns(t, result) ==
    /\ pc[t] = "moving"
    /\ token' = [token EXCEPT ![t] = "none"]
    /\ TaskEnds(t, finishTransfer(rowStatus, t, result))
    /\ UNCHANGED <<prompt, cancelling>>

CommandFails(t) ==
    /\ pc[t] \in {"invoked", "moving"}
    /\ token' = [token EXCEPT ![t] = "none"]
    /\ TaskEnds(t, failTransfer(rowStatus, t, IF token[t] = "canceled" THEN "canceled" ELSE "error"))
    /\ UNCHANGED <<prompt, cancelling>>

-----------------------------------------------------------------------------
User(t) ==
    \/ \E ask \in BOOLEAN : AddTransfer(t, ask)
    \/ showTransferPickerError(t)
    \/ requestCancelTransfer(t)
    \/ retryRemoteFileTransfer(t)
    \/ removeTransfer(t)

Check(t) == TargetIsFree(t) \/ TargetExists(t) \/ CheckFails(t)
Cache(t) == CacheWritten(t) \/ CacheFails(t)
Command(t) == CommandFails(t) \/ \E r \in {"success", "skipped"} : CommandReturns(t, r)
Answer == \E policy \in BOOLEAN : settleTransferConflictPrompt(policy)

TransferNext ==
    \/ \E t \in Transfers :
         \/ User(t) \/ Check(t) \/ CacheProgress(t) \/ Cache(t)
         \/ startTransferProgressPulse(t)
         \/ register_transfer(t) \/ cancel_transfer(t) \/ Command(t)
    \/ Answer
    \/ clearFinishedTransfers
    \/ \E n \in Limits : SetLimit(n)

TransferSpec == TransferInit /\ [][TransferNext]_transferVars

(* Backend calls return and the modal prompt is answered.                  *)
TransferFairness ==
    /\ \A t \in Transfers : WF_transferVars(Check(t)) /\ WF_transferVars(Cache(t))
                            /\ WF_transferVars(register_transfer(t)) /\ WF_transferVars(Command(t))
    /\ WF_transferVars(Answer)

-----------------------------------------------------------------------------
TransferTypeOK ==
    /\ items \in Seq(Transfers)
    /\ rowStatus \in [Transfers -> FinishedStatuses \cup ActiveStatuses \cup Absent \cup {"error"}]
    /\ retry \subseteq Transfers /\ asks \subseteq Transfers
    /\ queue \in Seq(Transfers) /\ tasks \subseteq Transfers /\ running \subseteq Transfers
    /\ limit \in Limits
    /\ pc \in [Transfers -> {"idle", "checking", "asking", "caching", "invoked", "moving"}]
    /\ prompt \in Transfers \cup {NoTransfer}
    /\ cancelling \subseteq Transfers
    /\ token \in [Transfers -> {"none", "live", "canceled"}]

(* The row goes through its life as the panel promises; only an upload     *)
(* that writes a local cache can come back from "canceled".                *)
Rows == INSTANCE TransferRow WITH row <- rowStatus,
            Revivable <- {t \in Transfers : Kind[t] # "direct"}
RowLife == Rows!Spec

(* Every queued or running transfer ends while one slot is configured or    *)
(* nothing is asked.  With two slots and the policy "ask" it need not: the *)
(* prompt of a second transfer takes the place of one that is still open,  *)
(* whose task then waits for ever and keeps its slot.                      *)
TransfersEnd ==
    [](limit = 1 \/ asks = {}) =>
        \A t \in Transfers : rowStatus[t] \in ActiveStatuses ~> rowStatus[t] \notin ActiveStatuses
=============================================================================

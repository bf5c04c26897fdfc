# A TLA+ model of NexaTerm

NexaTerm is a desktop SSH workspace: a Tauri program whose Rust backend
(`src/src-tauri/src`) keeps SSH sessions, tunnels, transfers, the SQLite database
and the encrypted vault, and whose React frontend (`src/src`) keeps the tabs,
panels, forms and queues that use them. A second executable, the MCP server
(`mcp.rs`), opens the same database and vault files on behalf of an AI client.

The parts are hard to get right for the same few reasons: every backend command is
an async task on a multi-threaded runtime and takes its locks one after another;
the frontend learns what happened through answers and events that overtake one
another, and reads state from before an `await` after it; React applies some updates
later than the handler that made them; and the vault is a file without transactions
beside a database that has them. The modules here keep the control of that code, one
action for what runs between two awaits (or between two writes to disk), and reduce
the data to what the properties tell apart.

| module | models | checked in | theorems |
|---|---|---|---|
| `RemoteExecPool` | pool of reusable SSH exec sessions | `pool_reuse`, `pool_live` | `RemoteExecPoolProofs` |
| `TunnelManager` | port forwarding tunnels | `tunnel_rules`, `tunnel_overlap` | `TunnelManagerProofs` |
| `TerminalSession` | terminal sessions from tab to PTY | `terminal_tabs` | `TerminalSessionProofs` |
| `TransferRecovery` | imports into vault and database, their recovery | `recovery_crash`, `recovery_faults`, `recovery_busy` | `TransferRecoveryProofs` |
| `TransferRow` | what the transfer panel promises of one row (abstract) | `requests` | |
| `FileTransfer` | transfer queue, prompts, cancel tokens; implements `TransferRow` | `requests` | `ListProofs` |
| `BatchConnect` | "connect all": workers, polling, cancel | `requests` | `RequestsProofs` |
| `ConnectionStep` | the step of a connecting tab; temporary connections | `requests` | `RequestsProofs` |
| `AiChat` | AI panel, its sessions and streams | `requests` | `RequestsProofs` |
| `RemoteMonitor` | polling loop of the monitor panel | `requests` | `RequestsProofs` |
| `DockerLogs` | log dialog and log streams | `requests` | `RequestsProofs` |
| `FilePanel` | remote file panel | `requests` | `RequestsProofs` |
| `SessionTabs` | tabs of every kind, what is shown, closes | `workspace` | `ListProofs` |
| `SplitPanes`, `MultiExec` | split group; one input to several terminals | `workspace` | `ListProofs`, `WorkspaceProofs` |
| `RemoteEditor` | the tab of a remote file | `editing`, `editor_saved` | `EditingProofs` |
| `WorkspaceSnapshot` | layout over restarts | `workspace` | `WorkspaceProofs` |
| `RemoteDesktop` | RDP and VNC tabs, runner window | `editing` | `WorkspaceProofs` |
| `DockerPanel` | Docker lists, calls, engine configuration | `editing` | `WorkspaceProofs` |
| `TerminalOutput` | output from events to xterm | `workspace` | `WorkspaceProofs` |
| `ConnectionForm` | connection dialog, list and stored secret | `editing` | `EditingProofs` |
| `Filter` | `Array.prototype.filter`, used by `SessionTabs`, `SplitPanes`, `FileTransfer` | `workspace`, `requests` | `ListProofs` |

`MCRequests` and `MCWorkspace` compose modules that are checked under one
configuration. Their parts share no variable, so an interleaving of two parts shows
nothing that each does not show alone: a variable `part`, chosen by `Init`, says which
one runs, and the state spaces add up instead of multiplying (`Parts` of `MCWorkspace` names
the ones a run looks at). Where parts do share
state, one module holds both sides (`TerminalSession` the shell, the panel and the
manager; `FileTransfer` the store, the controller and the token registry; and so on).
The other `MC*` modules only add the symmetry sets and the constant functions a `.cfg`
cannot write.

History variables. The code has timings under which a promise fails: two commands on one
rule, an update React runs late, a save beside an import, a second process. None of
them is assumed away. The model takes the step, and a variable that no guard reads
remembers of what it happened (`crossed`, `cut`, `lost`, `abandoned`, `touched`, `rewound`,
`mixed`, `rechosen`, `overtaken`, ...). A property then says that nothing but those is
affected, which is more than the same property under the assumption that they never
happen: the rest must hold while and after they do. The one guard that reads such a variable is
`Followed` of `ConnectionStep`: a tab whose step a save has put back is only closed from
there on.

Definitions named `X_Something` beside a definition `X` are variants of it with one
plausible bug; they are used by nothing, and `PROJECT.json` names the property that
each of them breaks. `PROJECT.json` also has the source lines of every definition, the
components with what is left out of each, and the hazards the properties are for.

## Inventory

State, operations and interactions of each part; "hard" is what a test hardly
reaches, "right" what would make the part correct.

**Remote exec session pool** (`remote_exec_pool.rs`; used by Docker tools, scheduled
tasks, network tools, MCP). State: a map from connection id to an open session with
its signature, its time of last use and a count of uses in flight; one mutex per
session. Operations: run a command with or without one reconnect, run one with
streamed output, warm a session, invalidate a connection; a delayed idle-prune task
per use. Hard: two tasks connecting the same connection, a cleanup that acts on a
handle read earlier, the MCP timeout that drops a call at any await. Right: no
closed session is handed out, none leaks, the bound holds, every call returns.

**SSH tunnels** (`tunnels.rs`). State: stored rules, status and client count per
rule, a map of running runtimes, one accept-loop task per local or dynamic rule.
Operations: start, stop, stop all of a connection, delete, edit; clients and
forwarded-connection events. Hard: three locks never held together, a runtime that
serves before it is registered, an accept loop that fails at any time, abort of a
task that ends later, an SSH session that breaks unseen. Right: a rule shown as down has
nothing at work, what is shown as running nobody took down, nothing is left without an
owner.

**Terminal sessions** (`terminal/manager.rs` and its session kinds,
`WorkspaceShell.tsx`, `TerminalPanel.tsx`). State: the backend's session map and
reader tasks; the shell's tab collection; each panel's session and request id.
Operations: open a tab, hand the session over, reconnect in place, close; the reader
emits one event when it ends. Hard: three copies of "which session", answers and
events out of order, React applying updates late. Right: no session without somebody
who closes it, the copies agree, a stale event is ignored.

**Terminal output** (`terminalOutputFlow.ts`, `terminalStartupOutput.ts`,
`TerminalPanel.tsx`, the warm-up capture of `WorkspaceShell.tsx`). State: captured
chunks, a startup buffer, the write queue. Hard: one stream reaches the panel by two
paths whose hand-over depends on timers. Right: each chunk once and in order.

**Import and its recovery** (`connection_transfer.rs`,
`connection_transfer_recovery.rs`, `sync_import_transaction.rs`,
`storage_vault.rs`, `mcp.rs`). State: vault file, its copy, the journal, the rows,
the committed id, the plaintext in memory. Operations: import a transfer bundle or
a sync snapshot, save and delete a connection, unlock. Hard: a crash between any two
writes, a failure in the middle of several, another process settling the journal.
Right: at any moment, stopping and unlocking gives each row its secret.

**Connection dialog and list** (`ConnectionDialog.tsx`, `useConnections.ts`,
`storage_repository.rs`, `connections/mod.rs`). State: the form with a "touched" flag
per secret, the list, the rows and their references into the vault. Operations: open,
edit, duplicate, change protocol, mode and kind, reveal, save, test, delete; answers
about the list. Hard: long sequences of changes that carry text and flag apart, late
answers that refill the form. Right: a save stores what the field shows, an untouched
field keeps the secret, and every password connection has a password.

**Connection steps, temporary connections, known hosts** (`WorkspaceShell.tsx`,
`temporary_connections.rs`, `known_hosts/mod.rs`). State: the step of a connecting
tab, the context of a temporary connection, the known key. Hard: a tab closed while
its chain of awaits goes on, a save that writes back an old tab. Right: every session
is the one its tab shows.

**Session tabs** (`workspace/sessionTabs`): collections of terminal, local, RDP, VNC
and file tabs, the pointers to the shown one, close plans and their confirmation, the
follow-up activation after a close. Right: what is shown exists, files never outlive
the terminal they are reached through.

**Split panes and MultiExec** (`workspace/split`, `workspace/multiExec`,
`terminalSplitLayout.ts`): a tree of panes with one normalisation after every change,
the set of terminals that receive live input or a command. Hard: targets kept across
disconnect, reconnect and late answers. Right: the group is sound, live input goes to
the picked sessions and to no other.

**File transfers** (`remoteFileTransferStore.ts`, its controller, `remote_files.rs`):
rows, a queue with a concurrency limit, one conflict prompt; a registry of
cancellation tokens behind it. Hard: a cancel before the token exists, progress after
the cancel, two prompts. Right: a row ends once and stays so, every transfer ends.

**Remote file editor** (`WorkspaceShell.tsx`, `RemoteFileEditor.tsx`,
`remote_files.rs`): a tab with its content, version and state, reads and writes in
flight, conflict and close dialogs, renames and deletes. Hard: the file changes on the
host between any two steps. Right: nobody's change is overwritten unasked.

**Remote file panel** (`RemoteFilePanel.tsx`): listings per directory, expanded
directories, a metadata cache, one cached state per tab. Hard: overlapping reveals,
refreshes and remounts. Right: what is shown as loading is asked for, cached metadata
is as new as its listing.

**Batch connect** (`batchConnectExecutor.ts` and its controller): a bounded number of
workers that open tabs and poll them. Hard: a cancel while a worker awaits the start.
Right: what a cancel reports cancelled is closed.

**Workspace snapshot** (`workspace_snapshot.rs`, `workspace/restore`): two slots, a
debounced save, a queue of saves, the restore plan. Right: at rest the stored layout
is the shown one.

**RDP and VNC** (`WorkspaceShell.tsx`, `VncRunnerWindowApp.tsx`, `rdp.rs`, `vnc.rs`):
tabs, backend sessions, one runner window and events between the two windows. Right:
every session has a tab or is closed.

**Docker tools** (`DockerToolPanel.tsx`, `docker_tools.rs`): lists with one read each
in flight, calls, an edited configuration, log streams. Right: no answer replaces an
edited draft, no stream goes on unowned.

**Remote monitor** (`useRemoteMonitor.ts`, `MonitorPanel.tsx`): one request in flight,
a loop replaced at every change of view. Right: a visible monitor keeps asking.

**AI assistant** (`AiAssistantPanel.tsx`, `ai_assistant.rs`): sessions, one question,
a stream with events. Right: messages appear in their own session, the panel is freed.

**Secret vault, MCP server, WebDAV synchronisation**: unlock, set, delete, persist,
the MCP deadline and per-call unlock, and the import half of the synchronisation are
modelled with the parts they touch. **Storage migration, vault gate, settings, tunnel
panel, command library, scheduled tasks, diagnostics, network tools, X11 forwarding,
foreign imports** are not modelled; see the end.

## RemoteExecPool

State and code. `cache` is the pool's `sessions` map; `sess`, `sconn`, `ssig` are a
`RemoteExecSessionHandle`; `pc`, `ret` and the other per-task variables are the locals of a
call. `expired` abstracts `last_used_ms` to the one question asked of it. `armed`,
`reap` and `closing` are the idle-prune tasks. `abandoned` is a ghost: sessions whose
closer the MCP timeout dropped.

| action | code |
|---|---|
| `Begin`, `PruneIdle` | entry of a call, `prune_idle_sessions` |
| `LookupHandle`, `InvalidateHandle`, `CloseHandle` | reuse, `invalidate_handle`, closing what it removed |
| `Connect`, `PruneExtra`, `Store` | `connect_and_store` with the limit and the insert race |
| `BeginUse`, `LockSession`, `ExecOk`, `ExecErr`, `MarkUsed` | `run_exec`, `exec_with_stdout_chunks`, the one retry |
| `InvalidateConnection`, `McpTimeout` | the entry point; the deadline in `mcp.rs` |
| `Expire`, `IdlePruneWakes`, `IdlePruneDrops`, `IdlePruneCloses` | time and the delayed task |

Runs.
- `pool_reuse`: two tasks, one connection with two signatures, three sessions, with
  retries, streaming and expulsion. Reuse hands out only open sessions of the right
  configuration (`CachedOpen`, `HandleMatchesConfig`), and a session that left the
  cache never comes back (`NoResurrection`).
- `pool_live`: MCP calls that may hang and be dropped anywhere beside streaming calls
  and expulsions. No session leaks (`OpenAccounted`), every call returns
  (`RequestReturns`), and none stays idle in the cache for ever (`IdleReclaimed`).

Bounds. Every race of the code is between two tasks on one connection, or between one
task and one idle-prune task; a third session is needed so that a replacement can be
replaced. Sessions are not recycled: a task that finds none left cannot connect, it
only fails. The `exec` entry point takes the steps of `retry` without the retry.

Fairness (`FairSpec`). The runtime runs each task that can go on (weak fairness);
tokio mutexes queue their waiters (strong fairness for taking one). Commands outside
MCP must end: the code has no deadline for them. MCP calls have one.

## TunnelManager

State and code. `stored`, `status`/`active` and `running` are what `store_lock`,
`states` and `running` guard. A runtime (`Sids`) is an SSH session with its listener:
`sess`, `port`, `loop`, `aborted`, `clients`. `started`/`finished` count the
`RemoteForwardEvent`s whose own tasks have not run yet. A rule is its port.

| actions | code |
|---|---|
| `BeginStart`, `Load` .. `Insert`, `Discard*`, `Forget`, `Fail` | `start_rule` with every early return |
| `BeginStop`, `Remove`, `Close`, `LoadStopped`, `SetStopped` | `stop`, `stop_running` and the closing of a runtime |
| `BeginStopConnection`, `ListRules`, `NextRule` | `stop_connection` |
| `BeginDelete`, `Erase`, `EraseState` | `delete` |
| `BeginUpsert`, `EditCheck`, `EditStatus`, `Save` | `upsert` |
| `AcceptClient`, `ClientEnds`, `AcceptFails`, `Loop*`, `AbortLands` | the accept loop and its clients |
| `ForwardStarts`, `ForwardEnds`, `ApplyStarted`, `ApplyFinished` | remote forwards and their events |
| `SessionLost` | the server or russh's keepalive (`session.rs:914`) ends the session; nothing in `tunnels.rs` watches it |

Timing. Two commands may work on one rule at a time: the panel disables the buttons of the
one rule it is busy with (`busyRuleId`), but the shell calls `stop_connection` without
looking at it and a call for another rule takes its place. `Overlaps`, the rules on
which this is explored, is a bound of the runs; the theorems hold for all its values.
`crossed` remembers the rules on which it happened. `cut` remembers the rules whose
stop or delete took the runtime down and then failed in the store, which leaves "running"
behind. A session that broke by itself is "lost": the accept loop goes on, the status
stays, and the clients it accepts end at once. `AbortsLanded`: an aborted accept loop is
dropped before a later SSH handshake ends. `StoreFaults` are the steps at which the
rule store may fail.

Runs.
- `tunnel_rules`: a local and a remote rule on one port, a client, sessions that break,
  failing reads and erases, and every interleaving of starts, stops and deletes of different rules. What the
  panel shows as down is released (`DownIsReleased`), what it shows as running nobody
  took down (`RunningIsServing`). That the session behind it still works is not
  promised, because the code does not look.
- `tunnel_overlap`: two commands on one rule in any order, edits and `stop_connection` included, with the store
  failing under load, stop, delete and save. No session and no port is ever without somebody who will
  close it (`RuntimeIsOwned`), nothing deadlocks, and what was stopped or failed is
  released (`Released`).

Bounds. Two tasks, because each hazard is a pair of commands; two runtimes, so that a
rule can be replaced while the old one is being closed; one port, so that binding
conflicts occur between a rule and its own previous runtime. Clients are bounded
through `MayAccept`, and the edit, which only ever meets an idle rule otherwise, is in the overlap run. A runtime is reused once
nothing refers to it, so runs are not cut short.

Fairness. Each step of a command and each accept loop goes on; a step that needs the
store lock gets it if it is free again and again. Users, clients and failures owe
nothing.

## TerminalSession

State and code. A session is named by the connect request that opened it. `pc` is the
`terminal_connect` command, `stored` the manager's map, `reader` the reader tasks,
`events` emitted and undelivered events; `tab`, `sid` the shell's
`terminalTabsRef`, `pend` an updater React has not run, `lost` the sessions whose updater
was dropped; `psid`, `preq`, `recon`,
`prev`, `prevReq` the refs and locals of `TerminalPanel`.

| actions | code |
|---|---|
| `SessionOpens`, `OpenFails`, `InsertSession`, `SpawnReader` | `TerminalManager::connect*` |
| `RemoteEnds`, `ReaderEnds`, `ManagerClose`, `SessionCloses` | reader tasks, `close` |
| `OpenTab`, `HandOff`, `OpenTabFails`, `CloseTab`, `Commit` | `WorkspaceShell` |
| `Mount`, `ListenersReady`, `DeliverClosed` | panel mount, listeners, `terminal:state_changed` |
| `Reconnect`, `ReconnectSucceeds`, `ReconnectFails`, `OrphanAnswer` | reconnect in place |

Timing. React runs an updater at once only when no other update of the tabs waits, and
else at the next render (`UpToDate`, `UpdateRuntimeSession`, `Commit`); a handler that sets a list it
computed from `terminalTabsRef` overwrites what waiting updaters of any tab would have
recorded (`SetTabs`). Both are always possible. A session whose update is dropped that way
is in `lost`. `EarlyEnds`: may a session end before its panel listens?

Runs.
- `terminal_tabs`: two tabs (one with a profile to reconnect) and three requests. No session
  is lost but those in `lost` (`OpenIsOwned`), tab and panel name the same session
  (`PanelAndTabAgree`), and a closed tab releases every other session ever opened for it
  (`ClosedTabReleases`). No dead entry stays in the map (`StoredIsRead`); the event of a
  replaced session does not disconnect the panel (`StaleCloseIgnored`).

Bounds. A reconnect that replaces a session that replaced another needs three
requests; tabs share only the request names, so two suffice. Sessions are used once;
when they run out nothing can be opened any more, so deadlock is not checked. Liveness
then speaks of what is already under way, which is what the properties ask about.

Fairness. Backend steps, answers, events, rendering. An opener ends because each has
a timeout. The user and the remote owe nothing.

## TransferRecovery

State and code. `vault`, `backup`, `journal` are the three files, `db` the rows with
the operation that wrote each, `key` the committed id, `mem` the unlocked plaintext;
`pc` .. `undo` the import, `saving`/`deleting` the two halves of a save and a delete,
`rec`/`held` an unlock that settles a journal; `touched` and `crossed` remember what was saved
beside an import and what the MCP process did beside the program. `Torn` is a file `fs::copy` has
truncated and not finished.

| actions | code |
|---|---|
| `Begin`, `WriteJournal`, `JournalFails` | `ConnectionTransferRecovery::begin` |
| `OpenTransaction`, `TransactionRefused`, `RowsFail`, `CollectBackups`, `WriteSecret`, `SecretFails`, `Commit`, `CommitFails` | `apply_transfer_data`, the sync import |
| `UndoSecret`, `UndoFails`, `AbortCopy`, `AbortFails`, `AbortCopied` | compensation and `abort` |
| `DropJournal`, `DropBackup`, `CleanupFails` | `cleanup_recovery_files` |
| `SaveSecret`, `SaveRow`, `SaveRowFails`, `DeleteRow`, `DeleteSecret` | the connection and credential commands |
| `Unlock`, `RestoreCopy`, `RestoreCopied`, `RecoveryDrop*`, `OpenVault` | `recover_pending_connection_transfer`, unlock |
| `Crash`, `McpExit` | either process ends anywhere |

Timing. `Guarded` slots are saved under the locks a transfer holds; AI keys and the WebDAV
password are saved without, and the sync import holds none. `McpOverlaps` says what a tool
call of the MCP process may overlap; nothing in the code forbids either, and the theorems hold
for every value. `touched` are the slots saved or deleted while an import ran, or one that
failed had left its journal (`AtRisk`): the copy that may be put back does not have them.
`crossed` says whether the MCP process settled a journal beside an import, a save or an
unlock of the program ("overlap"), or put the file back under a program whose
memory keeps the secrets of the failed import ("stale").
A rename is atomic (`write_json_document` writes beside the file and renames);
`fs::copy` is not. One import at a time.

Runs.
- `recovery_crash`: both imports, saves with and without the locks beside them, the MCP
  process, every failure and two crashes anywhere, in the recovery too. The only secrets lost
  are the ones the history variables name (`SecretsAreKept`); with the same exceptions memory
  agrees with the rows whenever no import runs or is pending (`LiveAgrees`).
- `recovery_faults`: both imports, every failure, compensation and abort
  included, both processes, while nothing else is saved. A committed import keeps its
  secrets (`CommittedIsKept`), every start gets to an unlocked vault (`Unlocks`).
- `recovery_busy`: see the findings.

Bounds. Three slots: two an import brings (so that it can stop between them) and one it does
not touch. Two crashes: one in the import and one in its recovery. The operation
counter is the source of ids, hence its bound: every row exists at the start, so two operations
are an import with a save beside or after it, or two imports; three, with one crash, were
checked once (5.4 million states) with the same result.

Fairness. An import and an unlock are calls without a wait for the user; the program
unlocks when it starts. Crashes are bounded, so the liveness properties say that
progress follows the last one.

## Requests: FileTransfer, BatchConnect, ConnectionStep, AiChat, RemoteMonitor, DockerLogs, FilePanel

One run, `requests`; the names of actions are those of the functions they model.

**FileTransfer** and **TransferRow**. `items`, `rowStatus`, `retry` are the store,
`queue`, `tasks`, `running`, `limit` the controller, `pc` the task of a transfer,
`prompt` the one conflict dialog, `token` the registry of the backend. Starting,
ending, cancelling or removing a transfer drains the queue in the same step, as the
controller does. `TransferRow` is what the panel promises of a row: it ends once, and
nothing but a retry or a removal takes it out of an end. `RowLife` is the refinement,
`rowStatus` for `row`; uploads that write a cache first are `Revivable`, because their
progress puts a cancelled row back to running (see the counterexamples).
`TransfersEnd`: with one slot, or nothing to ask, every transfer ends.

**BatchConnect**. `item`, `todo`, `started`, `step`, `canceling` are the executor,
`tabOf` the tabs it opened. A tab may be seen late (`Late`) because it enters
`terminalTabsRef` inside a React updater. `CancelReleases`: once a run is over, what it
reports as cancelled has no tab.

**ConnectionStep**. `status`, `ready`, `shown`, `run` are a tab's step and its chain of
awaits, `live` the sessions, `context` a temporary connection, `known`/`server` the
host key. `LiveIsShown`: each session is the one its tab shows, unless a save of its
temporary connection has put back the tab as it was when the save began (`rewound`).

**AiChat**. `chats`, `messages` are stored, `activeChat`, `shownMessages`, `stream`,
`call`, `dialog` the panel, `streaming`, `streamEvents` the stream manager.
`ShownInSession`: the panel shows messages of its own session. `PanelIsFreed`: a
stream that is over, because the provider ended it, the user stopped it or its session was
deleted, frees the panel, also when it was over before the call that started it was answered.
The client has no timeout (`ai_assistant.rs:1315`), so a stream that never ends keeps the panel busy until it
is stopped. `overtaken` marks the ends whose event came before that answer.

**RemoteMonitor**. One request, the loop that asks it, the view, the visibility and
the connection, which is replaced when a temporary one is saved. `MonitorIsAwake`: the
loop of a visible monitor waits for its timer or for a request that is on its way.

**DockerLogs**. The dialog, the buffer of arrived text, and per stream what the backend
has of it (connecting, running, in the map). `LogsAreOwned`: text belongs to the
container shown, and a stream that nobody shows is being stopped, or its stop came
before the backend had stored its handle.

**FilePanel**. Directories are one path; what the host holds of one is a number of
changes; an answer may hold any number between its question and now. The panel is one
record and its effects are one operator, run after every change as React does.
`FilesAreCurrent`: what is marked loading is asked for, cached metadata is not older
than the listing it belongs to.

Bounds. Two of whatever competes (transfers, connections, tabs, sessions, containers),
so that one can overtake the other; a third tab in a batch so that a retry can fail
again; three questions, so that an answer of the first can meet the third; two
directories, because reveals and refreshes compare a directory with its parent.
Deadlock is not checked: with the bounds used up, a panel at rest has no step.

Fairness. For transfers: the controller's steps, answers of commands, and the answer to
a prompt that is open; for the AI panel: an emitted event is delivered, and nothing of
the provider. Users owe nothing else.

## Workspace: the parts of the shell

Two runs, `workspace` (tabs, split, MultiExec, restarts, output) and `editing`
(editor, desktops, Docker, form): together they would exceed the time of one.

**SessionTabs**. `tabs` are the five collections, `ptr` the pointers of
`sessionPointerReducer`, `follow` the activation an effect runs later. Handlers
dispatch several decisions before React renders; each reads collections that are
already new and a file list that is not (`seen`). `ShownIsLive`: until a remote desktop is
opened, or one command has taken several decisions (`mixed`), what is shown exists, for
every scope of a close; the counterexamples below say what several decisions do.
`FilesKeepTerminal`: no close takes the terminal from under an open file.

**SplitPanes**. The tree is kept as the bindings of its panes in position order.
`normalize` runs after every handler, as in the reducer. `GroupIsSound`: a settled
group has two to four panes, each terminal once, a focus and a host among them.

**MultiExec**. `LiveToPicked`: a terminal that lost its session gets no live input
until the user picks it again.

**RemoteEditor**. One file, its tab, reads and writes in flight, the three steps of a
write on the host, other writers, rename, delete and the dialogs. A version is what
`check_write_version` compares, the mtime in whole seconds and the size: any write may get
any version, an old one too. `NoBlindOverwrite`: a change of others made while nothing was
being written, and whose version is none that the editor holds (`foreign`), is never
overwritten unasked. `WaitingIsServed`: a tab shown as loading or saving has a request
whose answer finds it, unless a rename or delete crossed one. `SavedIsOnHost` is that of the finding.

**WorkspaceSnapshot**. The shell's layout, the lifecycle with its timer and queue, and
the two slots; a restart at any moment, and slots that cannot be read. `IdleIsStored`:
at rest, with no timer and no save, the stored layout is the shown one; `undone` marks
the one exception, a change taken back while a save was under way.

**RemoteDesktop**. Tabs, launches, backend sessions, the runner window and the events
in both directions. `queued` is a session that an updater React has not run yet stores in a
tab: the ref is written inside the updater, and a close reads the ref. `SessionsAreOwned`: a session is known to an
open tab, to a waiting update of one or to a launch that has yet to hand it over, or was
forgotten by a retry or by a close that came before the update (`abandoned`, see below).

**DockerPanel**. Each list has at most one read in flight; a second asks for a refresh
to follow. `DraftIsKept`: an edited configuration is replaced only by typing, by
the answer to a save, by the user's own reload or with the connection.

**TerminalOutput**. `capture` .. `initialOutput` are the warm-up capture,
`startupBuffer` and the listener the panel, `pendingOutput` .. `disposed` the queue.
`late` records which delays happened. `OutputIsShown`: without such a delay every chunk
is shown or on its way, once and in order, and the queue never stalls.

**ConnectionForm**. `rows` and `slots` are the table and the vault, `connections` the
list, `form` the open dialog, `submits` saves and deletes under way, `listing` answers
about the list. The two normalisations, which trim every secret, and the merge in the
repository are operators; `Trimmed` says what is left of a text.
`PasswordIsStored`: a password connection has a password in the vault.
`ShownIsSaved`: while no save is under way, a save would store what the field shows without
the spaces around it, a blanked field clears the secret, an untouched one keeps the
secret it had, and the test uses the same secret, unless the kind of the passphrase shown was chosen
again after it was typed (`rechosen`).

Bounds. Three SSH tabs on two hosts, a local tab, a desktop and a file are the least
that gives every fallback of a close a choice; at most three are open at once (VNC tabs take
the same branches as RDP tabs). Two versions of a file tell a seen change from an unseen one; one
read and one write in flight meet every dialog. The texts of a secret are two that
stay, one with a space and a blank one. Three
terminals fill a group that a fourth, empty, pane completes. Three starts: one that saves, one
that restores and saves, one that restores that. Four form turns reach each pair of
changes between opening and saving. Deadlock is not checked, as above.

## Findings

Two runs are kept that TLC refutes.

1. `recovery_busy` (`connection_transfer.rs:282`). When the transaction cannot
   begin, the `?` returns without `abort`: the journal stays and the next unlock rolls
   back every secret saved since. The contract (`tauri-command-contracts.md:3143`,
   backend) says "Roll back and compensate".
2. `editor_saved` (`WorkspaceShell.tsx:2992`). Text typed while a save is in flight is
   marked saved by its answer, although it was never written; closing the tab then
   loses it without a question. The contract (frontend, lines 654 and 685) says unsaved
   edits are not silently lost.

Further counterexamples. The models contain the steps of all of these but the ones said to be
excluded; a history variable, or the wording of a property, names the exception. TLC
showed each when the exception was taken away, unless marked (r), which were met while
modelling.

| part | what happens |
|---|---|
| Pool (`mcp.rs:991`) | the MCP deadline drops a call that has removed a session and not closed it: it stays open, `abandoned` |
| Tunnels (`tunnels.rs:555`) | a stop, or a delete, between the publishing of "running" and the registration of the runtime finds nothing and shows "stopped" while the tunnel goes on (contracts, line 1431); `crossed` |
| Tunnels (`tunnels.rs:323`) | a stop tears the runtime down, cannot read the rule and leaves "running"; `cut` |
| Tunnels (`tunnels.rs:633`) | the SSH session breaks: the rule stays "running", every client ends at once |
| Terminal (`TerminalPanel.tsx:516`) | a session that ends before the panel listens stays "connected" (`docs/ARCHITECTURE.md:101`) |
| Terminal (`WorkspaceShell.tsx:7476`) | a tab closed before the late update that gives it its session leaves the session, and so does the close or the opening of another tab, which writes a list without it; `lost` |
| Terminal (`TerminalPanel.tsx:931`) | a failed reconnect puts back a session that ended meanwhile |
| Recovery (`mcp.rs:808`) | the MCP process settles the journal of a running import (`McpOverlaps = {"edits"}`), or restores the file under a program whose memory keeps the failed import; `crossed` |
| Recovery (`connection_transfer.rs:461`, `commands.rs:1145`) | a failed abort, or a save during a sync import, is rolled back at the next unlock; `touched` |
| Recovery (`connection_transfer_recovery.rs:131`) | two processes restore the copy at once; `Unlocks` with `McpOverlaps = {"unlock"}` |
| Transfers (`WorkspaceShell.tsx:3715`) | a cancelled upload is shown running again by the progress of its cache |
| Transfers (`WorkspaceShell.tsx:2767`) | a second conflict prompt replaces an open one, whose task and slot are lost |
| Transfers (`remote_files.rs:573`) | a cancel that arrives before the token is registered is lost; a row cancelled and removed goes on |
| Batch (`batchConnectWorkspaceRuntime.ts:101`) | a tab not yet in the ref counts as failed, so more attempts run than the limit |
| Steps (`WorkspaceShell.tsx:5150`) | saving a temporary connection writes back the tab as it was: a reconnect meanwhile is undone and its session is shown nowhere; `rewound` |
| Steps | the context of a temporary connection outlives its tab when its sessions are closed through the connection |
| Tabs (`closeDecision.ts:126`) | closing a background SSH tab while a remote desktop is shown blanks the workspace |
| Tabs (`reducer.ts:114`) | deleting the connection of a shown desktop overwrites the follow-up of the first close |
| Tabs (`reducer.ts:112`) | "close to the right" of a local terminal, with another local and an SSH terminal behind it: the SSH decision asks to activate the first local terminal, the local decision that follows drops that request and keeps the mode, and nothing is shown although a terminal is open; `mixed` (the dropping is called correct in `.trellis/tasks/09-23-wf-00b-close-lifecycle/implement.md:63`) |
| Tabs (`closeDecision.ts:235`) | "close all" with a file open: the decision on the local terminals still sees the file in the rendered list, so the workspace is empty and not home; `mixed` (`design.md:17` of the same task: an empty workspace returns home) |
| Tabs | cancelling the last connecting terminal leaves files without a terminal |
| MultiExec (`WorkspaceShell.tsx:4783`) | a late failure of an old write unselects a target picked again; the command sender writes to terminals that reconnected and were not picked again (`docs/WORKFLOW_SPEC.md:84`) |
| Editor (`metadata.rs:108`) | a change by others within the same second that keeps the size, or with its mtime set back, is overwritten unasked; so is one that comes between the check and the write |
| Editor | a failed reload leaves an empty text that Ctrl+S writes; a rename or a delete across a request leaves a tab loading; text typed during a load is overwritten |
| Snapshot (`useWorkspaceSnapshotLifecycle.ts:86`) | a change undone during a save leaves the undone layout stored |
| Snapshot | tabs opened before the load returns are replaced by the restore |
| Desktops (`WorkspaceShell.tsx:6680`, 7020) | a retry never closes the previous backend session |
| Desktops (`WorkspaceShell.tsx:6801`, 7154) | a close before the late update that gives a tab its session leaves the session; `abandoned` |
| Desktops (`WorkspaceShell.tsx:6970`) | a windowed tab opened while the runner window loads loses its payload |
| AI (`AiAssistantPanel.tsx:192`) | an end event that overtakes the answer of the start leaves the panel busy; stop does nothing |
| AI (`ai_assistant.rs:1432`) | a provider that hangs keeps the panel busy until the user stops it: there is no timeout |
| AI | a new chat begun while a question is on its way is undone by the answer |
| Files | an older listing answered late replaces a newer one; only the last refresh is replayed when the panel is shown again; showing it again jumps to the last located path (against the comment at `RemoteFilePanel.tsx:439`) |
| Monitor | the refresh behind a confirmed signal uses the connection of the click (r) |
| Docker (`docker_tools.rs:530`) | a stop sent while a log stream still connects is lost and the stream goes on |
| Docker | a configuration read begun before a save and answered after it restores the old text; text typed during the first load or a save is overwritten (r) |
| Output (`WorkspaceShell.tsx:7509`) | the capture stops after a fixed time instead of when the panel is ready (contracts, line 226): a chunk is lost; the other delays of `late` show a chunk twice or out of order |
| Form (`ConnectionDialog.tsx:2873`) | choosing the kind "private key" again clears the flag and keeps the text: the test uses it, the save drops it; `rechosen` |
| Form (`useConnections.ts:586`, `mod.rs:1222`) | spaces around a secret are lost, and a blank passphrase clears the stored one |
| Form (`storage_repository.rs:935`) | a change of mode, kind or protocol leaves the old secret in the vault; a delete removes only the current one |
| Form (`ConnectionDialog.tsx:421`) | an answer about the list refills an open form and discards what was typed; a save's late answer closes whatever dialog is open (r) |

## Theorems

A theorem `Spec => []Inv` is proved for every value of the constants, under the named
`ASSUME` of the modules, which TLC evaluates on every run: sets that are counted are
finite, a null value is no member of the set it stands beside (`None`, `NoTab`,
`NoChat`, ...), bounds are numbers, a batch is not empty, and the constant sets that
select what is modelled (`Kinds`, `Faults`, `Commands`, `Protocols`) are subsets of what the
code has. No theorem has a hypothesis of its own: a timing under which a property
fails is a step of the model that a history variable records, and the property
says what holds of the rest.

| module | theorem | states |
|---|---|---|
| `RemoteExecPoolProofs` | `TypeCorrect`, `CacheBounded` | types; the cache exceeds its limit by fewer than the tasks |
| | `NeverReuseClosed`, `RightSession`, `NeverResurrected`, `NoSessionLeaks` | `CachedOpen`, `HandleMatchesConfig`, `NoResurrection`, `OpenAccounted` |
| `TunnelManagerProofs` | `TypeCorrect`, `EveryRuntimeIsOwned` | types, `RuntimeIsOwned` |
| | `DownLeavesNothing`, `RunningIsServed` | `DownIsReleased`, `RunningIsServing` |
| `TerminalSessionProofs` | `TypeCorrect`, `NoDeadEntry`, `StaleCloseNeverDisconnects` | types, `StoredIsRead`, `StaleCloseIgnored` |
| | `NoSessionLost`, `PanelShowsTabSession` | `OpenIsOwned`, `PanelAndTabAgree` |
| `TransferRecoveryProofs` | `RecoveryInvariant` | where journal, copy, file and memory are at each point |
| | `SecretsStayKept`, `MemoryAgrees` | `SecretsAreKept`, `LiveAgrees` |
| `RequestsProofs` | `EverySessionIsShown`, `CancelLeavesNoTab`, `MonitorStaysAwake` | `LiveIsShown`, `CancelReleases`, `MonitorIsAwake` |
| | `NoForeignMessage`, `LogsStayOwned`, `FilesStayCurrent` | `ShownInSession`, `LogsAreOwned`, `FilesAreCurrent` |
| `WorkspaceProofs` | `LiveGoesToPicked`, `SessionsStayOwned`, `ShownIsStored`, `DraftStaysKept`, `OutputReachesTerminal` | `LiveToPicked`, `SessionsAreOwned`, `IdleIsStored`, `DraftIsKept`, `OutputIsShown` |
| `EditingProofs` | `WaitingStaysServed`, `NeverOverwritesBlindly` | `WaitingIsServed`, `NoBlindOverwrite` |
| | `PasswordStaysStored`, `ShownStaysSaved` | `PasswordIsStored`, `ShownIsSaved` |
| `ListProofs` | `SplitGroupIsSound` | `GroupIsSound` |
| | `TransferTypes`, `TransferKeepsRowLife` | types; `RowLife`, that `FileTransfer` implements `TransferRow` |
| | `TabsShownIsLive`, `TabsFilesKeepTerminal` | `ShownIsLive`, `FilesKeepTerminal`, for every scope of a close |

Each proof has the same shape: an inductive invariant, checked by TLC before it was
proved; one lemma, or one step, per action; and a last step that combines them. What
follows says what the invariants add to the properties, and why.

**RemoteExecPoolProofs.** `CachedOpen` is not inductive: a session is closed by whoever
removed it, long after it left the cache, and stored by whoever connected it.
The inductive invariant `IInv` therefore says who owns a session:
- `Control`: where a task may go on from each label;
- `Handed`: a task that was given a session has one of its connection and signature;
- `Keyed`: a cached session is under its own connection;
- `Owned`: a session to be stored is open and nobody else has it;
- `Doomed`: a session to be closed has left the cache.

`NeverResurrected` follows because only a session that some task has yet to store can
enter the cache. `CacheBounded` is an induction of its own: the check for room and the
insert are in different critical sections, so the limit can be exceeded, by less than the
number of tasks and no more; a step that grows the cache counted with the pending
stores has just made room, and every other task pends at most one.

**TunnelManagerProofs.** `RuntimeInv` says for a runtime which command builds it, in
which stage, and who holds it then (`TaskInv`, `BuiltInv`, `StageInv`, `HolderInv`): this
needs no assumption on overlapping commands and gives `RuntimeIsOwned`. A rule that is not
`crossed` has one command (`SoleInv`), and its runtimes are the one in the map and the
ones about to go (`AloneInv`): that is `DownIsReleased`. `ShownInv` adds what the status
says at each step of a command; a rule in `cut` may say "running" with nothing behind it, and
leaves `cut` when its status changes.

**TerminalSessionProofs.** The invariants are stacked: `TypeOK`; `BackInv`, what a
request's state says of its session; `PanelInv`, that a panel's session and request
id name one session and that a reconnecting panel shows none; `OwnInv`, who holds a
session. Between them `ShellInv`: a tab waits for one request and has no update waiting
while it does. In `OwnInv` the session a tab holds is the one its waiting update will
record (`Held`); a session whose update is dropped enters `lost` in that step.

**TransferRecoveryProofs.** `RecoveryInv` is stacked. `Basic`: an import and a save work on
an open vault, the program's unlock on a locked one. `Fresh`: the id of an import that is
not committed is in no row. These hold whatever the MCP process does. Until it crosses the
program (`Recorded`), journal and copy are where `begin`, `abort` and
`cleanup_recovery_files` put them (`Phases`), and memory, vault and copy differ on the
slots that are not `touched` only by what the undo list and the import's remaining secrets
say (`Compensated`), so that a failed import ends where it began: either its undo puts
memory and file back, or, when that fails too, the journal stays and the next unlock
puts the copy back. `Agree(NextVault)`, that the vault the next unlock opens has the secret of
every row left alone, is the part that gives `SecretsAreKept`; a half copied vault counts
as repairable because journal and copy are then still there.

**RequestsProofs.** `StepInv`: what a save writes back is a tab, and a tab whose step is being
run shows so, unless it is in `rewound`. `BatchInv`: a connection
is taken once, its tries are its tabs, and one reported as cancelled is not being started.
`MonitorIsAwake` is inductive but for types. `ChatInv`: while a question is on its way the
panel shows its session or nothing. `LogsInv` adds the same for starts whose answer and
events that are still to come. For `FilePanel` the invariant is stated of the panel as a record and carried through each
operator the handlers are composed of, since a handler runs several before React
renders: each loading directory has a live request, and a live answer of the current
generation is as new as the last refresh.

**WorkspaceProofs.** `MultiInv`, `DesktopInv` and `DockerInv` add types and who is to act.
`SnapshotInv`: until the load has returned nothing is saved (`QuietUntilReady`), and the
newest of what the timer waits with, what the queue will write and what was saved is the
shown layout (`NewestIsShown`). `DraftIsKept` is an action property; each action is shown to leave the
draft alone or to be one of the four that may replace it. For `TerminalOutput`, output
is a sequence cut into the pieces that wait in the capture, the tab, the startup buffer
and the queue: `InOrder` says that their concatenation behind the screen is what is owed,
`HandOverOK` what the panel has taken of the tab's output at each point of the
hand-over, `NotLost` the same for sets of chunks once delays are allowed. The lemmas on
`Cat`, `Beyond` and `Line` are the algebra of moving, taking and appending pieces.

**EditingProofs.** In `RemoteEditor` a tab waits for a call made under its name (`NamesOK`), unless a
rename or delete crossed one (`CrossedOK`); while a visible change of others stands (`foreign`),
no copy of the tab has the version of the file (`VersionsOK`), the copy that a
confirmed delete writes back included, and each write the user did not choose has its check
before it and will fail it (`WritesOK`). In `ConnectionForm`, `SecretsOK`: a row has a reference only in mode "inline", and a
row that logs in with a password has one under its kind. `ShownOK`: a text the
user has not touched is a stored secret that was revealed, through each change of
protocol, mode and kind, unless it was `rechosen`; the two normalisations and the
repository's merge are shown to keep what the field shows, trimmed.

**ListProofs.** The three components filter lists, and two of them define an operator by
recursion. The library's induction rules take a predicate, which the provers cannot be
given, but `WFMin` takes a set: a set of numbers up to N that is not all of them leaves
out a least one (`Smallest`), and the step that leads there is a contradiction (`UpTo`).
`AmongIs` and `AmongOnce` say by that rule what a filter returns, for a list of any
length; `Filter` exists because `SelectSeq` and the folds are opaque to the provers.

- `SplitPanes`. `SplitInv` is about a group between two effects: it may have lost its
  focus, its host or all but one pane, but it has at most four and shows no terminal
  twice (`GroupOK`). Each operator (insertion, removal, swap, `normalize`) is
  shown to keep that, and `normalize` to restore the rest.
- `FileTransfer`. `TransferInv`: the row of a task under way is running, cancelled or
  gone, only an upload that writes a cache is ever caching, what is queued has had a row,
  and the prompt belongs to a task that waits for it or whose row is gone. `Drained` says
  what one drain of the queue may do to a row, by induction over the places it fills;
  then each action changes a row only by steps of `TransferRow`.
- `SessionTabs`. `TabsInv`: as long as no desktop was opened and no command took several
  decisions (`mixed`), the pointers fit the
  collections (`View`): if the active connection has terminals the active tab is one of
  them, if it has only files the active file is one of them, it has one of the two when
  any terminal is open, a follow-up names an open local terminal, and the mode shows
  something open unless only files are left. `ShownIsLive` alone is not inductive: a
  close in the background reads all pointers, not just the shown one. Each decision of
  `closeDecision.ts` has its lemma. `FilesKeepTerminal` needs none of that: a plan keeps
  one terminal of each connection it does not close with its files (`PlanKeeps`).

Only model-checked. Liveness under fairness and what needs `ENABLED` is beyond the prover:
`RequestReturns`, `IdleReclaimed`, `Released`, `ClosedTabReleases`, `Unlocks`,
`TransfersEnd`, `PanelIsFreed`. `CommittedIsKept`, for which nothing else is saved
(`Editable = {}`), and which also holds where memory and file went apart, is left to TLC. Every
other invariant and action property of a passing run is a theorem as well.

## Not modelled

Bytes and formats: SSH, SOCKS5, SFTP, RDP and VNC wire protocols, encryption, parsing
of command output, terminal emulation. Most lines of the frontend are rendering (the
cards, dialogs, menus and settings pages as JSX), tables of colour schemes and
translations, types, and settings written straight through: they have no state that
another part depends on and nothing to interleave with.

- Settings, application update, vault gate, tunnel panel, command library: forms and
  lists with one request at a time behind disabled buttons, over plain CRUD inside one
  SQLite transaction.
- Storage migration (`storage_migration.rs:173`): a failing vault write returns before
  the transaction and leaves the secrets written so far.
- WebDAV upload (`webdav_sync.rs:359`): data, secrets and manifest one after another,
  and two devices.
- Scheduled tasks, diagnostics, network tools, X11 forwarding, foreign imports: they
  build commands, parse or copy bytes.
- Of the modelled parts: the child process of a local terminal and its lock
  (`local.rs:155`), two imports at once (`connection_transfer_recovery.rs:29`),
  rekeying the vault (`storage_vault.rs:375`), the options of the protocols in the
  connection form, favourites and groups, selection and drag and drop in the file
  panel, ratios of panes, wording of messages.

## Plan

Proofs: type correctness of `SessionTabs` with desktops; `CommittedIsKept`.

Models: `StorageMigration`, `WebDavSync` (two devices) and the rekeying of the vault.

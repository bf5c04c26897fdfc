------------------------- MODULE WorkspaceSnapshot -------------------------
(***************************************************************************)
(* The workspace over restarts: useWorkspaceSnapshotLifecycle (load, the   *)
(* debounced save, the queue of saves), toSnapshot and its codec, the      *)
(* restore plan with the hydration of the shell, and the two slots of the  *)
(* database.                                                               *)
(*                                                                         *)
(* A snapshot keeps what decisions depend on: the instances, which of them *)
(* go to temporary connections, the shown item, the panes and the browsed  *)
(* directories.  Which item is shown after a close is SessionTabs' matter. *)
(***************************************************************************)
EXTENDS Naturals, Sequences, FiniteSets

CONSTANTS
    InstanceIds,      \* ids of terminals; ids are never given out again
    BlankPane,      \* an empty pane
    MaxChanges,     \* bound: changes of the workspace
    MaxStarts,      \* bound: starts of the program
    NoSnapshot,
    Unreadable      \* what decodeWorkspaceSnapshot refuses

\* WorkspaceSnapshotV1, as far as decisions read it
Snapshot ==
    [instances : SUBSET InstanceIds, temporary : SUBSET InstanceIds, directories : SUBSET InstanceIds,
     activeItem : InstanceIds \cup {"home", "split"}, panes : SUBSET (InstanceIds \cup {BlankPane})]

ASSUME SnapshotAssumption == NoSnapshot \notin Snapshot

VARIABLES
    instances, unborn,          \* open; never opened
    temporaries, targetRefs,    \* temporary by this run's connections, by the restored snapshot
    directories,                \* navigationByStateKey: instances with a directory
    activeItem, panes,
    retried,                    \* restored instances that reconnect by themselves
    phase,                      \* "starting", "loading" or "ready"
    lastSaved, timer, saveQueue,
    current, backup,            \* the row of workspace_snapshots
    changes, starts,
    \* history: opened as temporary; changed back during a save, or a save failed; this run saved
    bornTemporary, undone, hasSaved

shellVars == <<instances, unborn, temporaries, targetRefs, directories, activeItem, panes, retried>>
lifecycleVars == <<phase, lastSaved, timer, saveQueue>>
snapshotVars == <<shellVars, lifecycleVars, current, backup, changes, starts, bornTemporary, undone, hasSaved>>

\* copyTargetRef: what the restored snapshot said of an instance is said again.
TemporaryTargets == instances \cap (temporaries \cup targetRefs)

toSnapshot ==
    [instances |-> instances, temporary |-> TemporaryTargets,
     directories |-> instances \cap directories, activeItem |-> activeItem, panes |-> panes]

SnapshotInit ==
    /\ instances = {} /\ unborn = InstanceIds /\ temporaries = {} /\ targetRefs = {} /\ directories = {}
    /\ activeItem = "home" /\ panes = {} /\ retried = {}
    /\ phase = "starting" /\ lastSaved = NoSnapshot /\ timer = NoSnapshot /\ saveQueue = <<>>
    /\ current = NoSnapshot /\ backup = NoSnapshot
    /\ changes = 0 /\ starts = 1 /\ bornTemporary = {} /\ undone = FALSE /\ hasSaved = FALSE

\* The effect of every change: nothing to do when the content is the saved one, else the
\* debounce starts again.
Debounced ==
    timer' = IF phase' # "ready" \/ toSnapshot' = lastSaved' THEN NoSnapshot ELSE toSnapshot'

-----------------------------------------------------------------------------
(* The user changes the workspace, before the restore too. *)

Changes ==
    /\ changes < MaxChanges /\ changes' = changes + 1
    /\ UNCHANGED <<phase, lastSaved, saveQueue, current, backup, starts, hasSaved>>
    /\ Debounced
    /\ undone' = (undone \/ (saveQueue # <<>> /\ phase = "ready" /\ toSnapshot' = lastSaved))

OpenInstance(i, temporary) ==
    /\ i \in unborn
    /\ instances' = instances \cup {i} /\ unborn' = unborn \ {i}
    /\ temporaries' = IF temporary THEN temporaries \cup {i} ELSE temporaries
    /\ bornTemporary' = IF temporary THEN bornTemporary \cup {i} ELSE bornTemporary
    /\ activeItem' = i
    /\ UNCHANGED <<targetRefs, directories, panes, retried>>
    /\ Changes

CloseInstance(i, next) ==
    /\ i \in instances
    /\ instances' = instances \ {i}
    /\ panes' = IF Cardinality(panes \ {i}) < 2 THEN {} ELSE panes \ {i}
    /\ activeItem' = next /\ next \in instances' \cup {"home"} \cup (IF panes' = {} THEN {} ELSE {"split"})
    /\ retried' = retried \ {i}
    /\ UNCHANGED <<unborn, temporaries, targetRefs, directories, bornTemporary>>
    /\ Changes

ShowItem(i) ==
    /\ i \in instances \cup {"home"} /\ i # activeItem
    /\ activeItem' = i
    /\ UNCHANGED <<instances, unborn, temporaries, targetRefs, directories, panes, retried, bornTemporary>>
    /\ Changes

SplitInto(P) ==
    /\ P \subseteq instances \cup {BlankPane} /\ Cardinality(P) > 1 /\ P # panes
    /\ panes' = P /\ activeItem' = "split"
    /\ UNCHANGED <<instances, unborn, temporaries, targetRefs, directories, retried, bornTemporary>>
    /\ Changes

publishWorkspaceRemoteFileNavigation(i) ==
    /\ i \in instances \ directories
    /\ directories' = directories \cup {i}
    /\ UNCHANGED <<instances, unborn, temporaries, targetRefs, activeItem, panes, retried, bornTemporary>>
    /\ Changes

-----------------------------------------------------------------------------
(* Start and restore *)

Ready(saved) == phase' = "ready" /\ lastSaved' = saved /\ Debounced

\* Storage, connections and profiles are there; the setting decides whether to load.
Enabled(restoreOnLaunch) ==
    /\ phase = "starting"
    /\ UNCHANGED shellVars
    /\ IF restoreOnLaunch THEN phase' = "loading" /\ UNCHANGED <<lastSaved, timer>> ELSE Ready(toSnapshot)
    /\ UNCHANGED <<saveQueue, current, backup, changes, starts, bornTemporary, undone, hasSaved>>

\* A list is loaded again, or the setting changes: the answer of the load is dropped.
Disposed ==
    /\ phase = "loading"
    /\ phase' = "starting"
    /\ UNCHANGED <<shellVars, lastSaved, timer, saveQueue, current, backup, changes, starts, bornTemporary, undone, hasSaved>>

decodable(s) == s \notin {NoSnapshot, Unreadable}

selectWorkspaceSnapshot ==
    IF decodable(current) THEN current ELSE IF decodable(backup) THEN backup ELSE NoSnapshot

restorePane(s) == s.panes \cap (s.instances \cup {BlankPane})

\* A split with no terminal in it is not shown.
restoreActive(s) ==
    IF s.activeItem \in s.instances \cup {"home"} \/ (s.activeItem = "split" /\ restorePane(s) \cap s.instances # {})
    THEN s.activeItem ELSE "home"

\* Instances of profiles that still exist reconnect, when the setting asks for it.
autoReconnect(s, reachable) == (s.instances \ s.temporary) \cap reachable

\* The collections are replaced by those of the snapshot.
restoreWorkspaceShell(s, reachable) ==
    /\ instances' = s.instances /\ targetRefs' = s.temporary
    /\ directories' = directories \cup s.directories
    /\ panes' = restorePane(s) /\ activeItem' = restoreActive(s)
    /\ retried' = autoReconnect(s, reachable)

LoadReturns(reachable) ==
    /\ phase = "loading"
    /\ LET s == selectWorkspaceSnapshot
       IN IF s = NoSnapshot THEN UNCHANGED shellVars /\ Ready(toSnapshot)
          ELSE /\ restoreWorkspaceShell(s, reachable)
               /\ UNCHANGED <<unborn, temporaries>>
               /\ Ready(s)
    /\ UNCHANGED <<saveQueue, current, backup, changes, starts, bornTemporary, undone, hasSaved>>

LoadFails ==
    /\ phase = "loading"
    /\ UNCHANGED shellVars
    /\ Ready(toSnapshot)
    /\ UNCHANGED <<saveQueue, current, backup, changes, starts, bornTemporary, undone, hasSaved>>

-----------------------------------------------------------------------------
(* Saving *)

TimerFires ==
    /\ timer # NoSnapshot
    /\ saveQueue' = Append(saveQueue, timer) /\ timer' = NoSnapshot
    /\ UNCHANGED <<shellVars, phase, lastSaved, current, backup, changes, starts, bornTemporary, undone, hasSaved>>

NextSave_Unordered(n) == n \in DOMAIN saveQueue

\* Saves are chained: one runs at a time, in the order of their timers.
NextSave(n) == n = 1 /\ saveQueue # <<>>

Dequeued(n) == saveQueue' = SubSeq(saveQueue, 1, n - 1) \o SubSeq(saveQueue, n + 1, Len(saveQueue))

SaveReturns(n) ==
    /\ NextSave(n)
    /\ current' = saveQueue[n] /\ backup' = current
    /\ lastSaved' = saveQueue[n]
    /\ Dequeued(n)
    /\ hasSaved' = TRUE
    /\ UNCHANGED <<shellVars, phase, timer, changes, starts, bornTemporary, undone>>

\* Nothing retries a save that failed; the next change does.
SaveFails(n) ==
    /\ NextSave(n)
    /\ Dequeued(n)
    /\ undone' = TRUE
    /\ UNCHANGED <<shellVars, phase, lastSaved, timer, current, backup, changes, starts, bornTemporary, hasSaved>>

\* The program ends at any moment and is started again, perhaps after another version of it
\* has written the row.
Restart(readable) ==
    /\ starts < MaxStarts /\ starts' = starts + 1
    /\ instances' = {} /\ temporaries' = {} /\ targetRefs' = {} /\ directories' = {}
    /\ activeItem' = "home" /\ panes' = {} /\ retried' = {}
    /\ phase' = "starting" /\ lastSaved' = NoSnapshot /\ timer' = NoSnapshot /\ saveQueue' = <<>>
    /\ undone' = FALSE /\ hasSaved' = FALSE
    /\ IF readable THEN UNCHANGED <<current, backup>> ELSE current' = Unreadable /\ backup' = current
    /\ UNCHANGED <<unborn, changes, bornTemporary>>

Saves == \E n \in DOMAIN saveQueue : SaveReturns(n) \/ SaveFails(n)
Loads == LoadFails \/ \E reachable \in SUBSET InstanceIds : LoadReturns(reachable)

SnapshotNext ==
    \/ \E i \in InstanceIds :
          \/ \E temporary \in BOOLEAN : OpenInstance(i, temporary)
          \/ \E next \in InstanceIds \cup {"home", "split"} : CloseInstance(i, next)
          \/ publishWorkspaceRemoteFileNavigation(i)
    \/ \E i \in InstanceIds \cup {"home"} : ShowItem(i)
    \/ \E P \in SUBSET (InstanceIds \cup {BlankPane}) : SplitInto(P)
    \/ \E b \in BOOLEAN : Enabled(b) \/ Restart(b)
    \/ Disposed \/ Loads \/ TimerFires \/ Saves

SnapshotSpec == SnapshotInit /\ [][SnapshotNext]_snapshotVars

-----------------------------------------------------------------------------
\* Once nothing is pending, what the next start will restore is what the user sees, and
\* not an older layout whose save came late: the saves of one run are chained for that.
\* Except after a failed save, or after a change back to the saved content while a save of
\* something else was under way: that is taken for saved and the save then replaces it.
IdleIsStored ==
    phase = "ready" /\ timer = NoSnapshot /\ saveQueue = <<>> /\ ~undone =>
        lastSaved = toSnapshot /\ (hasSaved => current = toSnapshot)

=============================================================================

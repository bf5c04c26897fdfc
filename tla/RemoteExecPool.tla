--------------------------- MODULE RemoteExecPool ---------------------------
(***************************************************************************)
(* The pool of reusable SSH exec sessions behind the Docker, scheduled     *)
(* task, network diagnostic and MCP commands                               *)
(* (src-tauri/src/remote_exec_pool.rs).                                    *)
(*                                                                         *)
(* Every request is a task of its own on a multi-threaded runtime; the     *)
(* map of cached sessions is locked only for single lookups and updates,   *)
(* and each session has a mutex of its own, held while a command runs on   *)
(* it and while it is closed.  One action is one critical section of the   *)
(* code: everything between two .await points that matters to another      *)
(* task.                                                                   *)
(*                                                                         *)
(* Time is abstracted to the one question the code asks of it, whether     *)
(* last_used_ms is more than idle_timeout_ms in the past: `expired' holds  *)
(* the cached sessions of which that is true now, and a task's `stale'     *)
(* those of which it was true when the task read now_ms.  The clock of a   *)
(* session that has left the cache is not kept: it never returns to it     *)
(* (NoResurrection), and whoever finds it expired then removes nothing.    *)
(***************************************************************************)
EXTENDS Integers, FiniteSets

CONSTANTS
    Callers,     \* tasks that call the pool
    Conns,       \* saved connection ids; numbers, so that they can be sorted
    Sigs,        \* values of ResolvedSshConfig::signature()
    Sessions,    \* identities of the SSH sessions the tasks open (bound)
    EntryPoints, \* the entry points the owner of this pool calls
    MaxCached,   \* options.max_cached_sessions
    None         \* no session

(***************************************************************************)
(* Entry points.  "exec": RemoteExecRetry::None; "retry": ReconnectOnce;   *)
(* "mcp": ReconnectOnce under the timeout of mcp::execute_command;         *)
(* "chunks": exec_with_stdout_chunks; "warm": warm_with_context;           *)
(* "expel": invalidate_connection.                                         *)
(***************************************************************************)
Kinds == {"exec", "retry", "mcp", "chunks", "warm", "expel"}
Retries(k) == k \in {"retry", "mcp"}

ASSUME PoolAssumption ==
    /\ IsFiniteSet(Callers)
    /\ Conns \subseteq Nat /\ IsFiniteSet(Conns) /\ Conns # {}
    /\ Sigs # {}
    /\ None \notin Sessions
    /\ EntryPoints \subseteq Kinds
    /\ MaxCached \in Nat

VARIABLES
    cache,      \* sessions: the session cached for each connection, or None
    expired,    \* cached sessions idle for longer than idle_timeout_ms
    armed,      \* cached sessions whose newest idle-prune task is still asleep
    sess,       \* the life of each session
    sconn,      \* handle.connection_id
    ssig,       \* handle.signature
    reap,       \* sessions an idle-prune task has decided to invalidate
    closing,    \* sessions an idle-prune task removed and must still close
    abandoned,  \* sessions whose owner was cancelled before it closed them
    kind,       \* of each task: the entry point it runs
    conn, sig,  \* config.connection_id and config.signature()
    stale,      \* the sessions expired at its now_ms
    todo,       \* handles prune_idle_sessions has still to look at
    attempt,    \* 2 once exec_with_connector has reconnected
    pc,         \* what it does next
    ret,        \* where it goes on after closing its victims
    probe,      \* argument of its last invalidate_handle
    handle,     \* the session it uses, or has just connected
    victims     \* sessions it removed (or lost) and must still close

pool     == <<cache, expired, armed>>
sessions == <<sess, sconn, ssig>>
reaper   == <<reap, closing>>
request  == <<kind, conn, sig>>
scan     == <<stale, todo>>
control  == <<pc, ret, probe, handle, victims>>
vars     == <<cache, expired, armed, sess, sconn, ssig, reap, closing, abandoned,
              kind, conn, sig, stale, todo, attempt, pc, ret, probe, handle, victims>>

Labels == {"idle", "prune", "lookup", "drop", "close", "connect", "evict",
           "store", "use", "lock", "exec", "mark", "expel"}

Cached == {k \in Conns : cache[k] # None}
IsCached(s) == \E k \in Conns : cache[k] = s

\* The mutex of session s is held by the task whose command runs on it.
Locked_UntilReturn(s) ==
    \E c \in Callers : /\ handle[c] = s
                       /\ \/ pc[c] = "exec"
                          \/ probe[c] = s /\ pc[c] \in {"drop", "close"}
Locked(s) == \E c \in Callers : pc[c] = "exec" /\ handle[c] = s

(***************************************************************************)
(* handle_is_busy: in_flight counts the RemoteExecUseGuards.  run_exec     *)
(* drops its guard with the result; exec_with_stdout_chunks keeps it until *)
(* it returns.                                                             *)
(***************************************************************************)
HoldsGuard(c) ==
    \/ pc[c] \in {"lock", "exec"}
    \/ kind[c] = "chunks" /\ ( \/ pc[c] = "mark"
                               \/ pc[c] \in {"drop", "close"} /\ ret[c] = "idle" )
handle_is_busy(s) == \E c \in Callers : handle[c] = s /\ HoldsGuard(c)

SomeConn == CHOOSE k \in Conns : TRUE
SomeSig == CHOOSE g \in Sigs : TRUE

Init ==
    /\ cache = [k \in Conns |-> None] /\ expired = {} /\ armed = {}
    /\ sess = [s \in Sessions |-> "none"]
    /\ sconn = [s \in Sessions |-> SomeConn] /\ ssig = [s \in Sessions |-> SomeSig]
    /\ reap = {} /\ closing = {} /\ abandoned = {}
    /\ kind = [c \in Callers |-> "exec"]
    /\ conn = [c \in Callers |-> SomeConn] /\ sig = [c \in Callers |-> SomeSig]
    /\ stale = [c \in Callers |-> {}] /\ todo = [c \in Callers |-> {}]
    /\ attempt = [c \in Callers |-> 1]
    /\ pc = [c \in Callers |-> "idle"] /\ ret = [c \in Callers |-> "idle"]
    /\ probe = [c \in Callers |-> None] /\ handle = [c \in Callers |-> None]
    /\ victims = [c \in Callers |-> {}]
-----------------------------------------------------------------------------
Goto(c, l) == pc' = [pc EXCEPT ![c] = l]

\* The request of task c is over; it leaves nothing behind.
Return(c) ==
    /\ Goto(c, "idle")
    /\ kind' = [kind EXCEPT ![c] = "exec"]
    /\ conn' = [conn EXCEPT ![c] = SomeConn]
    /\ sig' = [sig EXCEPT ![c] = SomeSig]
    /\ attempt' = [attempt EXCEPT ![c] = 1]
    /\ ret' = [ret EXCEPT ![c] = "idle"]
    /\ probe' = [probe EXCEPT ![c] = None]
    /\ handle' = [handle EXCEPT ![c] = None]
    /\ victims' = [victims EXCEPT ![c] = {}]

\* Task c goes on after invalidate_handle or close_handle.
Resume(c) ==
    IF ret[c] = "idle" THEN Return(c)
    ELSE /\ Goto(c, ret[c])
         /\ ret' = [ret EXCEPT ![c] = "idle"]
         /\ probe' = [probe EXCEPT ![c] = IF attempt[c] = 2 THEN @ ELSE None]
         /\ victims' = [victims EXCEPT ![c] = {}]
         /\ UNCHANGED <<request, attempt, handle>>

\* The connections in K lose their cached sessions.
Uncache(K) ==
    LET gone == {cache[k] : k \in K}
    IN /\ cache' = [k \in Conns |-> IF k \in K THEN None ELSE cache[k]]
       /\ expired' = expired \ gone
       /\ armed' = armed \ gone
-----------------------------------------------------------------------------
(***************************************************************************)
(* The steps of one task.                                                  *)
(***************************************************************************)

\* A call of the pool.  All but invalidate_connection begin by reading the
\* clock and the handles that prune_idle_sessions will look at; those not
\* expired by then it only passes over.
Begin(c) ==
    /\ pc[c] = "idle"
    /\ \E k \in Conns, g \in Sigs, kd \in EntryPoints :
          /\ kind' = [kind EXCEPT ![c] = kd]
          /\ conn' = [conn EXCEPT ![c] = k]
          /\ sig' = [sig EXCEPT ![c] = g]
          /\ \/ /\ kd = "expel"
                /\ Goto(c, "expel")
                /\ UNCHANGED scan
             \/ /\ kd # "expel"
                /\ Goto(c, IF expired = {} THEN "lookup" ELSE "prune")
                /\ stale' = [stale EXCEPT ![c] = expired]
                /\ todo' = [todo EXCEPT ![c] = expired]
    /\ UNCHANGED <<pool, sessions, reaper, abandoned, attempt, ret, probe, handle,
                   victims>>

\* prune_idle_sessions, in the order of a hash map: a busy handle and one
\* used since are passed over, the others are invalidated, in a later
\* critical section.
PruneIdle(c) ==
    /\ pc[c] = "prune"
    /\ \E s \in todo[c] :
          LET next == IF todo[c] = {s} THEN "lookup" ELSE "prune"
          IN /\ todo' = [todo EXCEPT ![c] = @ \ {s}]
             /\ IF handle_is_busy(s) \/ s \notin stale[c]
                THEN Goto(c, next) /\ UNCHANGED <<ret, probe>>
                ELSE /\ probe' = [probe EXCEPT ![c] = s]
                     /\ ret' = [ret EXCEPT ![c] = next]
                     /\ Goto(c, "drop")
    /\ UNCHANGED <<pool, sessions, reaper, abandoned, request, stale, attempt,
                   handle, victims>>

\* can_reuse_remote_exec_session
can_reuse_AnySignature(c, s) == s \notin stale[c]
can_reuse(c, s) == ssig[s] = sig[c] /\ s \notin stale[c]

\* What a task does with the handle it was given: warm_with_context only
\* marks it used, the others run a command on it.
AfterHandle(c) == IF kind[c] = "warm" THEN "mark" ELSE "use"

\* session_handle_with_connector: connect, reuse, or invalidate and connect.
LookupHandle(c) ==
    /\ pc[c] = "lookup"
    /\ LET s == cache[conn[c]] IN
       \/ /\ s = None
          /\ Goto(c, "connect")
          /\ UNCHANGED <<ret, probe, handle>>
       \/ /\ s # None /\ can_reuse(c, s)
          /\ handle' = [handle EXCEPT ![c] = s]
          /\ Goto(c, AfterHandle(c))
          /\ UNCHANGED <<ret, probe>>
       \/ /\ s # None /\ ~can_reuse(c, s)
          /\ probe' = [probe EXCEPT ![c] = s]
          /\ ret' = [ret EXCEPT ![c] = "connect"]
          /\ Goto(c, "drop")
          /\ UNCHANGED handle
    /\ stale' = [stale EXCEPT ![c] = {}]
    /\ UNCHANGED <<pool, sessions, reaper, abandoned, request, todo, attempt, victims>>

StillCached(s) == cache[sconn[s]] = s

InvalidateHandle(c) ==
    /\ pc[c] = "drop"
    /\ LET k == sconn[probe[c]] IN
       IF StillCached(probe[c])
       THEN /\ victims' = [victims EXCEPT ![c] = {cache[k]}]
            /\ Goto(c, "close")
            /\ Uncache({k})
            /\ UNCHANGED <<request, attempt, ret, probe, handle>>
       ELSE /\ Resume(c)
            /\ UNCHANGED pool
    /\ UNCHANGED <<sessions, reaper, abandoned, scan>>

\* close_handle, for each victim in turn, waits for the session's mutex.
Close(s) ==
    /\ ~Locked(s)
    /\ sess' = [sess EXCEPT ![s] = "closed"]
    /\ UNCHANGED <<sconn, ssig>>

CloseHandle(c) ==
    /\ pc[c] = "close"
    /\ \E s \in victims[c] :
          /\ \A x \in victims[c] : sconn[s] <= sconn[x]
          /\ Close(s)
          /\ IF victims[c] = {s}
             THEN Resume(c)
             ELSE /\ victims' = [victims EXCEPT ![c] = @ \ {s}]
                  /\ UNCHANGED <<request, attempt, pc, ret, probe, handle>>
    /\ UNCHANGED <<pool, reaper, abandoned, scan>>

\* connect(): a new session, or an error that ends the request.
Connect(c) ==
    /\ pc[c] = "connect"
    /\ \/ /\ \E s \in Sessions :
                /\ sess[s] = "none"
                /\ sess' = [sess EXCEPT ![s] = "open"]
                /\ sconn' = [sconn EXCEPT ![s] = conn[c]]
                /\ ssig' = [ssig EXCEPT ![s] = sig[c]]
                /\ handle' = [handle EXCEPT ![c] = s]
          /\ Goto(c, "evict")
          /\ UNCHANGED <<request, attempt, ret, probe, victims>>
       \/ /\ Return(c)
          /\ UNCHANGED sessions
    /\ UNCHANGED <<pool, reaper, abandoned, scan>>

(***************************************************************************)
(* prune_extra_sessions: with max_cached_sessions or more cached, make     *)
(* room for one, taking the lowest ids first and sparing the connection    *)
(* about to be stored.  Whether a handle is busy is not asked here.        *)
(***************************************************************************)
RemoveCount == IF MaxCached = 0 \/ Cardinality(Cached) < MaxCached
               THEN 0 ELSE Cardinality(Cached) - (MaxCached - 1)

\* E is the first n members of the sorted set K, or all of them.
IsFirst(E, n, K) ==
    /\ E \subseteq K
    /\ \A x \in E, y \in K \ E : x < y
    /\ Cardinality(E) = n \/ (E = K /\ Cardinality(E) <= n)

PruneExtra(c) ==
    /\ pc[c] = "evict"
    /\ \E E \in SUBSET Conns :
          /\ IsFirst(E, RemoveCount, Cached \ {conn[c]})
          /\ Uncache(E)
          /\ victims' = [victims EXCEPT ![c] = {cache[k] : k \in E}]
          /\ ret' = [ret EXCEPT ![c] = IF E = {} THEN "idle" ELSE "store"]
          /\ Goto(c, IF E = {} THEN "store" ELSE "close")
    /\ UNCHANGED <<sessions, reaper, abandoned, request, scan, attempt, probe, handle>>

(***************************************************************************)
(* connect_and_store: another task may have stored a session meanwhile.    *)
(* One of the same signature wins, and the new one is closed; any other is *)
(* replaced, and closed.                                                   *)
(***************************************************************************)
Wins(old, new) == old # None /\ ssig[old] = ssig[new]
Loser_Swapped(old, new) == IF Wins(old, new) THEN old ELSE new
Loser_Kept(old, new) == IF Wins(old, new) THEN None ELSE old
Loser(old, new) == IF Wins(old, new) THEN new ELSE old

Store(c) ==
    /\ pc[c] = "store"
    /\ LET old  == cache[conn[c]]
           kept == IF Wins(old, handle[c]) THEN old ELSE handle[c]
           lost == Loser(old, handle[c])
       IN /\ cache' = [cache EXCEPT ![conn[c]] = kept]
          /\ expired' = expired \ {lost}
          /\ armed' = armed \ {lost}
          /\ handle' = [handle EXCEPT ![c] = kept]
          /\ \/ /\ lost = None
                /\ Goto(c, AfterHandle(c))
                /\ UNCHANGED <<ret, victims>>
             \/ /\ lost # None
                /\ victims' = [victims EXCEPT ![c] = {lost}]
                /\ ret' = [ret EXCEPT ![c] = AfterHandle(c)]
                /\ Goto(c, "close")
    /\ UNCHANGED <<sessions, reaper, abandoned, request, scan, attempt, probe>>

\* begin_handle_use, then the wait for the session's mutex.
BeginUse(c) ==
    /\ pc[c] = "use"
    /\ Goto(c, "lock")
    /\ UNCHANGED <<pool, sessions, reaper, abandoned, request, scan, attempt, ret,
                   probe, handle, victims>>

LockSession(c) ==
    /\ pc[c] = "lock"
    /\ ~Locked(handle[c])
    /\ Goto(c, "exec")
    /\ UNCHANGED <<pool, sessions, reaper, abandoned, request, scan, attempt, ret,
                   probe, handle, victims>>

\* The command succeeds, which it cannot on a session closed meanwhile.
ExecOk(c) ==
    /\ pc[c] = "exec"
    /\ sess[handle[c]] = "open"
    /\ Goto(c, "mark")
    /\ UNCHANGED <<pool, sessions, reaper, abandoned, request, scan, attempt, ret,
                   probe, handle, victims>>

RetryFrom == "connect"

ExecErr(c) ==
    /\ pc[c] = "exec"
    /\ probe' = [probe EXCEPT ![c] = handle[c]]
    /\ \/ /\ Retries(kind[c]) /\ attempt[c] = 1
          /\ attempt' = [attempt EXCEPT ![c] = 2]
          /\ ret' = [ret EXCEPT ![c] = RetryFrom]
       \/ /\ ~(Retries(kind[c]) /\ attempt[c] = 1)
          /\ ret' = [ret EXCEPT ![c] = "idle"]
          /\ UNCHANGED attempt
    /\ Goto(c, "drop")
    /\ UNCHANGED <<pool, sessions, reaper, abandoned, request, scan, handle, victims>>

\* mark_handle_used: the clock of the session starts again, and a task is
\* spawned that will look at it once idle_timeout_ms and a second are over.
Rearm_Never(s) == armed
Rearm(s) == IF IsCached(s) THEN armed \cup {s} ELSE armed

MarkUsed_Reinserts(c) ==
    /\ pc[c] = "mark"
    /\ cache' = [cache EXCEPT ![conn[c]] = handle[c]]
    /\ expired' = expired \ {handle[c]}
    /\ armed' = armed \cup {handle[c]}
    /\ Return(c)
    /\ UNCHANGED <<sessions, reaper, abandoned, scan>>
MarkUsed(c) ==
    /\ pc[c] = "mark"
    /\ expired' = expired \ {handle[c]}
    /\ armed' = Rearm(handle[c])
    /\ stale' = [x \in Callers |-> stale[x] \ {handle[c]}]
    /\ Return(c)
    /\ UNCHANGED <<cache, sessions, reaper, abandoned, todo>>

Expelled(k) == {cache[k]} \ {None}

InvalidateConnection(c) ==
    /\ pc[c] = "expel"
    /\ Uncache({conn[c]})
    /\ IF Expelled(conn[c]) = {}
       THEN Return(c)
       ELSE /\ victims' = [victims EXCEPT ![c] = Expelled(conn[c])]
            /\ Goto(c, "close")
            /\ UNCHANGED <<request, attempt, ret, probe, handle>>
    /\ UNCHANGED <<sessions, reaper, abandoned, scan>>

\* The session a task has connected and not yet stored.
Unstored(c) ==
    IF pc[c] \in {"evict", "store"} \/ (pc[c] = "close" /\ ret[c] = "store")
    THEN {handle[c]} ELSE {}

(***************************************************************************)
(* mcp::execute_command: the timeout drops the exec future wherever it is. *)
(* What it had still to close is closed by nobody, and goes when its last  *)
(* reference does.  The connection is invalidated next.                    *)
(***************************************************************************)
AfterTimeout == "expel"

UnderTimeout(c) == kind[c] = "mcp" /\ pc[c] # "idle"

McpTimeout(c) ==
    /\ UnderTimeout(c)
    /\ abandoned' = abandoned \cup victims[c] \cup Unstored(c)
    /\ Goto(c, AfterTimeout)
    /\ kind' = [kind EXCEPT ![c] = "expel"]
    /\ stale' = [stale EXCEPT ![c] = {}]
    /\ todo' = [todo EXCEPT ![c] = {}]
    /\ attempt' = [attempt EXCEPT ![c] = 1]
    /\ ret' = [ret EXCEPT ![c] = "idle"]
    /\ probe' = [probe EXCEPT ![c] = None]
    /\ handle' = [handle EXCEPT ![c] = None]
    /\ victims' = [victims EXCEPT ![c] = {}]
    /\ UNCHANGED <<pool, sessions, reaper, conn, sig>>
-----------------------------------------------------------------------------
(***************************************************************************)
(* Time, and the tasks that schedule_idle_prune spawns.  The newest one of *)
(* a session wakes up after the session has expired; the older ones find   *)
(* it used since, or do what the newest would.                             *)
(***************************************************************************)
Expire(s) ==
    /\ IsCached(s) /\ s \notin expired
    /\ expired' = expired \cup {s}
    /\ UNCHANGED <<cache, armed, sessions, reaper, abandoned, request, scan, attempt, control>>

IdlePruneWakes(s) ==
    /\ s \in armed \cap expired
    /\ armed' = armed \ {s}
    /\ reap' = IF handle_is_busy(s) THEN reap ELSE reap \cup {s}
    /\ UNCHANGED <<cache, expired, sessions, closing, abandoned, request, scan, attempt, control>>

IdlePruneDrops(s) ==
    /\ s \in reap
    /\ reap' = reap \ {s}
    /\ IF StillCached(s)
       THEN /\ closing' = closing \cup {cache[sconn[s]]}
            /\ Uncache({sconn[s]})
       ELSE UNCHANGED <<closing, pool>>
    /\ UNCHANGED <<sessions, abandoned, request, scan, attempt, control>>

IdlePruneCloses(s) ==
    /\ s \in closing
    /\ Close(s)
    /\ closing' = closing \ {s}
    /\ UNCHANGED <<pool, reap, abandoned, request, scan, attempt, control>>
-----------------------------------------------------------------------------
CallerStep(c) ==
    \/ Begin(c) \/ PruneIdle(c) \/ LookupHandle(c) \/ InvalidateHandle(c)
    \/ CloseHandle(c) \/ Connect(c) \/ PruneExtra(c) \/ Store(c)
    \/ BeginUse(c) \/ LockSession(c) \/ ExecOk(c) \/ ExecErr(c)
    \/ MarkUsed(c) \/ InvalidateConnection(c) \/ McpTimeout(c)

SessionStep(s) ==
    Expire(s) \/ IdlePruneWakes(s) \/ IdlePruneDrops(s) \/ IdlePruneCloses(s)

Next == (\E c \in Callers : CallerStep(c)) \/ (\E s \in Sessions : SessionStep(s))

Spec == Init /\ [][Next]_vars

(***************************************************************************)
(* Fairness.  The runtime runs every task that can go on (WF).  tokio      *)
(* mutexes are first-in first-out, so a task that waits for a session gets *)
(* it if the session is released again and again (SF).  Time passes, and   *)
(* the idle-prune tasks run.                                               *)
(***************************************************************************)
GoesOn(c) ==
    \/ PruneIdle(c) \/ LookupHandle(c) \/ InvalidateHandle(c) \/ Connect(c)
    \/ PruneExtra(c) \/ Store(c) \/ BeginUse(c) \/ MarkUsed(c)
    \/ InvalidateConnection(c)
GetsMutex(c) == LockSession(c) \/ CloseHandle(c)
CommandEnds(c) == ExecOk(c) \/ ExecErr(c)
TimePasses(s) == Expire(s) \/ IdlePruneWakes(s) \/ IdlePruneDrops(s)

RuntimeFairness ==
    /\ \A c \in Callers : WF_vars(GoesOn(c)) /\ SF_vars(GetsMutex(c))
    /\ \A s \in Sessions : WF_vars(TimePasses(s))

\* The commands of the Docker and scheduled-task pools have no deadline and
\* must end.  One of the MCP pool may hang, but its call has a deadline.
FairSpec ==
    /\ Spec /\ RuntimeFairness
    /\ \A c \in Callers :
          /\ WF_vars(kind[c] # "mcp" /\ CommandEnds(c))
          /\ WF_vars(McpTimeout(c))
-----------------------------------------------------------------------------
\* Every variable has the shape its declaration says.
TypeOK ==
    /\ cache \in [Conns -> Sessions \cup {None}]
    /\ expired \subseteq Sessions /\ armed \subseteq Sessions
    /\ sess \in [Sessions -> {"none", "open", "closed"}]
    /\ sconn \in [Sessions -> Conns] /\ ssig \in [Sessions -> Sigs]
    /\ reap \subseteq Sessions /\ closing \subseteq Sessions
    /\ abandoned \subseteq Sessions
    /\ kind \in [Callers -> Kinds]
    /\ conn \in [Callers -> Conns] /\ sig \in [Callers -> Sigs]
    /\ stale \in [Callers -> SUBSET Sessions]
    /\ todo \in [Callers -> SUBSET Sessions]
    /\ attempt \in [Callers -> {1, 2}]
    /\ pc \in [Callers -> Labels] /\ ret \in [Callers -> Labels]
    /\ probe \in [Callers -> Sessions \cup {None}]
    /\ handle \in [Callers -> Sessions \cup {None}]
    /\ victims \in [Callers -> SUBSET Sessions]

\* A lookup never finds a session that the pool has closed, whichever of
\* the five places that close sessions runs beside it.
CachedOpen == \A k \in Conns : cache[k] # None => sess[cache[k]] = "open"

\* A command runs on a session of its own connection, opened with exactly
\* the host, user and credentials of its request: neither reuse nor losing
\* the race in connect_and_store hands out another one.
HandleMatchesConfig ==
    \A c \in Callers :
       pc[c] \in {"use", "lock", "exec", "mark"} =>
          sconn[handle[c]] = conn[c] /\ ssig[handle[c]] = sig[c]

\* No SSH session leaks: one that is open is cached, or some task or
\* idle-prune task still has to store or close it, or the task that would
\* have closed it was cancelled by the MCP timeout.
OpenAccounted ==
    \A s \in Sessions :
       sess[s] = "open" =>
          \/ IsCached(s) \/ s \in closing \cup abandoned
          \/ \E c \in Callers : s \in victims[c] \cup Unstored(c)

\* Tasks make room before they connect and store much later, so several may
\* store after each made room for one: the cache outgrows
\* max_cached_sessions, but by no more than the number of other tasks.
PendingConns == {conn[c] : c \in {x \in Callers :
                    \/ pc[x] = "store"
                    \/ pc[x] = "close" /\ ret[x] = "store"}}
CacheBound ==
    MaxCached # 0 =>
       Cardinality(Cached \cup PendingConns) <= MaxCached - 1 + Cardinality(Callers)

\* A session that left the cache, or lost the race to enter it, never
\* (re-)enters it, so nobody is given a session that is being closed.
NoResurrection ==
    [][\A s \in Sessions :
          /\ sess[s] # "none" /\ ~IsCached(s)
          /\ \A c \in Callers : s \notin Unstored(c)
          => ~IsCached(s)']_vars

\* Every request returns: no cycle of tasks waits for sessions that the
\* others hold, and a task never waits for a session it holds itself.
RequestReturns == \A c \in Callers : pc[c] # "idle" ~> pc[c] = "idle"

\* No session stays cached, unused, for ever.
IdleReclaimed ==
    \A s \in Sessions :
       []<>(~IsCached(s) \/ \E c \in Callers : handle[c] = s)
=============================================================================

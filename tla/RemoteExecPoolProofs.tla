------------------------ MODULE RemoteExecPoolProofs ------------------------
(***************************************************************************)
(* Theorems about the exec session pool, for any number of tasks,          *)
(* connections, signatures and sessions and any max_cached_sessions.       *)
(***************************************************************************)
EXTENDS RemoteExecPool, FiniteSetTheorems, TLAPS

(***************************************************************************)
(* The inductive invariant.  CachedOpen is not inductive: a session is     *)
(* closed by whoever removed it, and stored by whoever connected it, long  *)
(* after.  So each session has one owner at a time, the cache, a task that *)
(* must still store it, or a task that must close it, and what a task does *)
(* later is laid down by its labels.                                       *)
(***************************************************************************)

\* Where a task may go on from each label, and that it has what it needs.
Control ==
    \A c \in Callers :
       /\ pc[c] \notin {"drop", "close"} => ret[c] = "idle"
       /\ pc[c] = "drop" => /\ ret[c] \in {"prune", "lookup", "connect", "idle"}
                            /\ probe[c] \in Sessions
       /\ pc[c] = "close" => ret[c] \in {"prune", "lookup", "connect", "idle",
                                         "store", "use", "mark"}

\* The task has been given a session to use.
Settled(c) == \/ pc[c] \in {"use", "lock", "exec", "mark"}
              \/ pc[c] = "close" /\ ret[c] \in {"use", "mark"}

Handed ==
    \A c \in Callers : Settled(c) => /\ handle[c] \in Sessions
                                     /\ sess[handle[c]] # "none"
                                     /\ sconn[handle[c]] = conn[c]
                                     /\ ssig[handle[c]] = sig[c]

Keyed == \A k \in Conns : cache[k] # None => sconn[cache[k]] = k

\* A session to be stored is open, and nobody else has it.
Owned ==
    \A c \in Callers : \A s \in Unstored(c) :
       /\ s \in Sessions
       /\ sess[s] = "open" /\ sconn[s] = conn[c] /\ ssig[s] = sig[c]
       /\ ~IsCached(s) /\ s \notin closing
       /\ \A d \in Callers : s \notin victims[d] /\ (d # c => s \notin Unstored(d))

\* A session to be closed has left the cache.
Doomed ==
    /\ \A c \in Callers : \A s \in victims[c] : sess[s] # "none" /\ ~IsCached(s)
    /\ \A s \in closing : sess[s] # "none" /\ ~IsCached(s)

IInv == TypeOK /\ Control /\ Handed /\ Keyed /\ CachedOpen /\ Owned /\ Doomed
-----------------------------------------------------------------------------
\* The values of an idle task's fields exist.
LEMMA Defaults == SomeConn \in Conns /\ SomeSig \in Sigs
  BY PoolAssumption DEF SomeConn, SomeSig

\* The local state of the tasks that Return and Resume assign.
LocalType ==
    /\ kind \in [Callers -> Kinds]
    /\ conn \in [Callers -> Conns] /\ sig \in [Callers -> Sigs]
    /\ attempt \in [Callers -> {1, 2}]
    /\ pc \in [Callers -> Labels] /\ ret \in [Callers -> Labels]
    /\ probe \in [Callers -> Sessions \cup {None}]
    /\ handle \in [Callers -> Sessions \cup {None}]
    /\ victims \in [Callers -> SUBSET Sessions]

\* A request that returns leaves its task well formed.
LEMMA ReturnType ==
  ASSUME TypeOK, NEW c \in Callers, Return(c) PROVE LocalType'
  BY Defaults DEF TypeOK, LocalType, Return, Goto, Labels, Kinds

\* Going on after a cleanup leaves the task well formed.
LEMMA ResumeType ==
  ASSUME TypeOK, NEW c \in Callers, Resume(c) PROVE LocalType'
  <1>1. CASE ret[c] = "idle" BY <1>1, ReturnType DEF Resume
  <1>2. CASE ret[c] # "idle"
    BY <1>2 DEF Resume, TypeOK, LocalType, Goto, Labels, Kinds, request
  <1>3. QED BY <1>1, <1>2

\* Removing sessions leaves the cache well formed.
LEMMA UncacheType ==
  ASSUME TypeOK, NEW K \in SUBSET Conns, Uncache(K)
  PROVE  /\ cache' \in [Conns -> Sessions \cup {None}]
         /\ expired' \subseteq Sessions /\ armed' \subseteq Sessions
  BY DEF TypeOK, Uncache

\* A new request owns nothing yet.
LEMMA BeginStep ==
  ASSUME IInv, NEW c \in Callers, Begin(c) PROVE IInv'
  <1>1. TypeOK'
    BY PoolAssumption DEF IInv, Begin, Goto, pool, sessions, reaper, scan,
       TypeOK, Labels, Kinds
  <1>2. Control'
    BY PoolAssumption DEF IInv, Begin, Goto, pool, sessions, reaper, scan,
       Control, TypeOK
  <1>3. Handed'
    BY PoolAssumption DEF IInv, Begin, Goto, pool, sessions, reaper, scan,
       Handed, Settled, TypeOK
  <1>4. Keyed'
    BY PoolAssumption DEF IInv, Begin, Goto, pool, sessions, reaper, scan,
       Keyed, TypeOK
  <1>5. CachedOpen'
    BY PoolAssumption DEF IInv, Begin, Goto, pool, sessions, reaper, scan,
       CachedOpen, TypeOK
  <1>6. Owned'
    BY PoolAssumption DEF IInv, Begin, Goto, pool, sessions, reaper, scan,
       Owned, Unstored, IsCached, TypeOK
  <1>7. Doomed'
    BY PoolAssumption DEF IInv, Begin, Goto, pool, sessions, reaper, scan,
       Doomed, IsCached, TypeOK
  <1>8. QED BY <1>1, <1>2, <1>3, <1>4, <1>5, <1>6, <1>7 DEF IInv

\* Looking for idle sessions changes only what the task will do next.
LEMMA PruneIdleStep ==
  ASSUME IInv, NEW c \in Callers, PruneIdle(c) PROVE IInv'
  <1>1. TypeOK'
    BY PoolAssumption DEF IInv, PruneIdle, Goto, pool, sessions, reaper,
       request, TypeOK, Labels, Kinds
  <1>2. Control'
    BY PoolAssumption DEF IInv, PruneIdle, Goto, pool, sessions, reaper,
       request, Control, TypeOK
  <1>3. Handed'
    BY PoolAssumption DEF IInv, PruneIdle, Goto, pool, sessions, reaper,
       request, Handed, Settled, TypeOK
  <1>4. Keyed'
    BY PoolAssumption DEF IInv, PruneIdle, Goto, pool, sessions, reaper,
       request, Keyed, TypeOK
  <1>5. CachedOpen'
    BY PoolAssumption DEF IInv, PruneIdle, Goto, pool, sessions, reaper,
       request, CachedOpen, TypeOK
  <1>6. Owned'
    BY PoolAssumption DEF IInv, PruneIdle, Goto, pool, sessions, reaper,
       request, Owned, Unstored, IsCached, TypeOK
  <1>7. Doomed'
    BY PoolAssumption DEF IInv, PruneIdle, Goto, pool, sessions, reaper,
       request, Doomed, IsCached, TypeOK
  <1>8. QED BY <1>1, <1>2, <1>3, <1>4, <1>5, <1>6, <1>7 DEF IInv

\* A session found in the cache is open and has the key it was found under.
LEMMA LookupHandleStep ==
  ASSUME IInv, NEW c \in Callers, LookupHandle(c) PROVE IInv'
  <1>1. TypeOK'
    <2>1. AfterHandle(c) \in Labels /\ cache[conn[c]] \in Sessions \cup {None}
      BY DEF IInv, TypeOK, AfterHandle, Labels
    <2>2. pc' \in [Callers -> Labels] /\ ret' \in [Callers -> Labels]
      BY <2>1 DEF IInv, TypeOK, LookupHandle, Goto, pool, sessions,
         reaper, request, Labels
    <2>3. /\ probe' \in [Callers -> Sessions \cup {None}]
          /\ handle' \in [Callers -> Sessions \cup {None}]
      BY <2>1 DEF IInv, TypeOK, LookupHandle, Goto, pool, sessions,
         reaper, request
    <2>4. QED BY <2>2, <2>3 DEF IInv, TypeOK, LookupHandle, Goto, pool,
       sessions, reaper, request
  <1>2. Control'
    <2>1. AfterHandle(c) \in {"use", "mark"} /\ cache[conn[c]] \in Sessions \cup {None}
      BY DEF IInv, TypeOK, AfterHandle
    <2>2. CASE cache[conn[c]] = None
      BY <2>2 DEF IInv, TypeOK, Control, LookupHandle, Goto, pool,
         sessions, reaper, request
    <2>3. CASE cache[conn[c]] # None /\ can_reuse(c, cache[conn[c]])
      BY <2>1, <2>3 DEF IInv, TypeOK, Control, LookupHandle, Goto, pool,
         sessions, reaper, request
    <2>4. CASE cache[conn[c]] # None /\ ~can_reuse(c, cache[conn[c]])
      BY <2>1, <2>4 DEF IInv, TypeOK, Control, LookupHandle, Goto, pool,
         sessions, reaper, request
    <2>5. QED BY <2>2, <2>3, <2>4
  <1>3. Handed'
    <2>1. AfterHandle(c) \in {"use", "mark"} /\ cache[conn[c]] \in Sessions \cup {None}
      BY DEF IInv, TypeOK, AfterHandle
    <2>2. CASE cache[conn[c]] = None
      BY <2>2 DEF IInv, TypeOK, Handed, Settled, LookupHandle, Goto,
         pool, sessions, reaper, request
    <2>3. CASE cache[conn[c]] # None /\ can_reuse(c, cache[conn[c]])
      <3>1. sess[cache[conn[c]]] = "open" /\ sconn[cache[conn[c]]] = conn[c]
        BY <2>3 DEF IInv, TypeOK, CachedOpen, Keyed
      <3>2. QED BY <2>1, <2>3, <3>1 DEF IInv, TypeOK, Handed, Settled,
         can_reuse, LookupHandle, Goto, pool, sessions, reaper, request
    <2>4. CASE cache[conn[c]] # None /\ ~can_reuse(c, cache[conn[c]])
      BY <2>1, <2>4 DEF IInv, TypeOK, Handed, Settled, LookupHandle,
         Goto, pool, sessions, reaper, request
    <2>5. QED BY <2>2, <2>3, <2>4
  <1>4. Keyed'
    BY PoolAssumption DEF IInv, LookupHandle, Goto, pool, sessions,
       reaper, request, AfterHandle, can_reuse, Keyed, TypeOK
  <1>5. CachedOpen'
    BY PoolAssumption DEF IInv, LookupHandle, Goto, pool, sessions,
       reaper, request, AfterHandle, can_reuse, CachedOpen, TypeOK
  <1>6. Owned'
    BY PoolAssumption DEF IInv, LookupHandle, Goto, pool, sessions,
       reaper, request, AfterHandle, can_reuse, Owned, Unstored, IsCached,
       TypeOK
  <1>7. Doomed'
    BY PoolAssumption DEF IInv, LookupHandle, Goto, pool, sessions,
       reaper, request, AfterHandle, can_reuse, Doomed, IsCached, TypeOK
  <1>8. QED BY <1>1, <1>2, <1>3, <1>4, <1>5, <1>6, <1>7 DEF IInv

\* Removing the probed session makes it the task's to close.
LEMMA InvalidateHandleStep ==
  ASSUME IInv, NEW c \in Callers, InvalidateHandle(c) PROVE IInv'
  <1>1. TypeOK'
    BY PoolAssumption, ResumeType, UncacheType DEF IInv, InvalidateHandle,
       Goto, pool, sessions, reaper, request, scan, StillCached, TypeOK,
       Labels, Kinds, Control, LocalType
  <1>2. Control'
    BY PoolAssumption DEF IInv, InvalidateHandle, Goto, pool, sessions,
       reaper, request, scan, Uncache, Resume, Return, StillCached,
       Control, TypeOK
  <1>3. Handed'
    BY PoolAssumption DEF IInv, InvalidateHandle, Goto, pool, sessions,
       reaper, request, scan, Uncache, Resume, Return, StillCached,
       Handed, Settled, TypeOK, Control
  <1>4. Keyed'
    BY PoolAssumption DEF IInv, InvalidateHandle, Goto, pool, sessions,
       reaper, request, scan, Uncache, Resume, Return, StillCached, Keyed,
       TypeOK
  <1>5. CachedOpen'
    BY PoolAssumption DEF IInv, InvalidateHandle, Goto, pool, sessions,
       reaper, request, scan, Uncache, Resume, Return, StillCached,
       CachedOpen, TypeOK
  <1>6. Owned'
    BY PoolAssumption DEF IInv, InvalidateHandle, Goto, pool, sessions,
       reaper, request, scan, Uncache, Resume, Return, StillCached, Owned,
       Unstored, IsCached, TypeOK, Control
  <1>7. Doomed'
    BY PoolAssumption DEF IInv, InvalidateHandle, Goto, pool, sessions,
       reaper, request, scan, Uncache, Resume, Return, StillCached,
       Doomed, IsCached, TypeOK, Control, Keyed, CachedOpen
  <1>8. QED BY <1>1, <1>2, <1>3, <1>4, <1>5, <1>6, <1>7 DEF IInv

\* A session that is being closed is neither cached nor about to be.
LEMMA CloseHandleStep ==
  ASSUME IInv, NEW c \in Callers, CloseHandle(c) PROVE IInv'
  <1>1. TypeOK'
    BY PoolAssumption, ResumeType DEF IInv, CloseHandle, Goto, pool,
       reaper, request, scan, Close, TypeOK, Labels, Kinds, LocalType
  <1>2. Control'
    BY PoolAssumption DEF IInv, CloseHandle, Goto, pool, reaper, request,
       scan, Close, Resume, Return, Control, TypeOK
  <1>3. Handed'
    BY PoolAssumption DEF IInv, CloseHandle, Goto, pool, reaper, request,
       scan, Close, Resume, Return, Handed, Settled, TypeOK, Control
  <1>4. Keyed'
    BY PoolAssumption DEF IInv, CloseHandle, Goto, pool, reaper, request,
       scan, Close, Resume, Return, Keyed, TypeOK
  <1>5. CachedOpen'
    BY PoolAssumption DEF IInv, CloseHandle, Goto, pool, reaper, request,
       scan, Close, Resume, Return, CachedOpen, TypeOK, Doomed, IsCached
  <1>6. Owned'
    BY PoolAssumption DEF IInv, CloseHandle, Goto, pool, reaper, request,
       scan, Close, Resume, Return, Owned, Unstored, IsCached, TypeOK,
       Control
  <1>7. Doomed'
    BY PoolAssumption DEF IInv, CloseHandle, Goto, pool, reaper, request,
       scan, Close, Resume, Return, Doomed, IsCached, TypeOK
  <1>8. QED BY <1>1, <1>2, <1>3, <1>4, <1>5, <1>6, <1>7 DEF IInv

\* A new session belongs to the task that opened it, and to nobody else.
LEMMA ConnectStep ==
  ASSUME IInv, NEW c \in Callers, Connect(c) PROVE IInv'
  <1>1. TypeOK'
    <2>1. CASE Return(c) /\ UNCHANGED sessions
      BY <2>1, ReturnType DEF IInv, TypeOK, LocalType, Connect, pool,
         reaper, scan, sessions
    <2>2. CASE ~(Return(c) /\ UNCHANGED sessions)
      <3>1. PICK n \in Sessions :
               /\ sess' = [sess EXCEPT ![n] = "open"]
               /\ sconn' = [sconn EXCEPT ![n] = conn[c]]
               /\ ssig' = [ssig EXCEPT ![n] = sig[c]]
               /\ handle' = [handle EXCEPT ![c] = n]
        BY <2>2 DEF Connect
      <3>2. /\ pc' = [pc EXCEPT ![c] = "evict"]
            /\ UNCHANGED <<pool, reaper, abandoned, scan, request, attempt, ret,
                           probe, victims>>
        BY <2>2 DEF Connect, Goto
      <3>3. QED
        BY <3>1, <3>2 DEF IInv, TypeOK, pool, reaper, scan, request, Labels
    <2>3. QED BY <2>1, <2>2
  <1>2. Control'
    BY PoolAssumption DEF IInv, Connect, Goto, pool, sessions, reaper,
       request, scan, Return, Control, TypeOK
  <1>3. Handed'
    BY PoolAssumption DEF IInv, Connect, Goto, pool, sessions, reaper,
       request, scan, Return, Handed, Settled, TypeOK
  <1>4. Keyed'
    BY PoolAssumption DEF IInv, Connect, Goto, pool, sessions, reaper,
       request, scan, Return, Keyed, TypeOK, CachedOpen
  <1>5. CachedOpen'
    BY PoolAssumption DEF IInv, Connect, Goto, pool, sessions, reaper,
       request, scan, Return, CachedOpen, TypeOK
  <1>6. Owned'
    <2>1. CASE Return(c) /\ UNCHANGED sessions
      BY <2>1 DEF IInv, TypeOK, Owned, Unstored, IsCached, Connect,
         pool, reaper, scan, sessions, Return, Goto
    <2>2. CASE ~(Return(c) /\ UNCHANGED sessions)
      <3>1. PICK n \in Sessions :
               /\ sess[n] = "none"
               /\ sess' = [sess EXCEPT ![n] = "open"]
               /\ sconn' = [sconn EXCEPT ![n] = conn[c]]
               /\ ssig' = [ssig EXCEPT ![n] = sig[c]]
               /\ handle' = [handle EXCEPT ![c] = n]
        BY <2>2 DEF Connect
      <3>2. /\ UNCHANGED <<cache, closing, victims, ret, conn, sig>>
            /\ pc' = [pc EXCEPT ![c] = "evict"]
        BY <2>2 DEF Connect, pool, reaper, scan, request, Goto
      <3>3. /\ ~IsCached(n) /\ n \notin closing
            /\ \A d \in Callers : n \notin victims[d] /\ n \notin Unstored(d)
        BY <3>1, PoolAssumption DEF IInv, TypeOK, CachedOpen, Doomed,
           Owned, IsCached
      <3>4. Unstored(c)' = {n} /\ \A d \in Callers \ {c} : Unstored(d)' = Unstored(d)
        BY <3>1, <3>2 DEF IInv, TypeOK, Unstored
      <3>5. \A s \in Sessions : IsCached(s)' <=> IsCached(s)
        BY <3>2 DEF IsCached
      <3>6. QED BY <3>1, <3>2, <3>3, <3>4, <3>5 DEF IInv, TypeOK, Owned
    <2>3. QED BY <2>1, <2>2
  <1>7. Doomed'
    BY PoolAssumption DEF IInv, Connect, Goto, pool, sessions, reaper,
       request, scan, Return, Doomed, IsCached, TypeOK
  <1>8. QED BY <1>1, <1>2, <1>3, <1>4, <1>5, <1>6, <1>7 DEF IInv

\* Evicted sessions are the evicting task's to close.
LEMMA PruneExtraStep ==
  ASSUME IInv, NEW c \in Callers, PruneExtra(c) PROVE IInv'
  <1>1. TypeOK'
    BY PoolAssumption DEF IInv, PruneExtra, Goto, sessions, reaper,
       request, scan, Uncache, IsFirst, Cached, TypeOK, Labels, Kinds
  <1>2. Control'
    BY PoolAssumption DEF IInv, PruneExtra, Goto, sessions, reaper,
       request, scan, Uncache, IsFirst, Cached, Control, TypeOK
  <1>3. Handed'
    BY PoolAssumption DEF IInv, PruneExtra, Goto, sessions, reaper,
       request, scan, Uncache, IsFirst, Cached, Handed, Settled, TypeOK
  <1>4. Keyed'
    BY PoolAssumption DEF IInv, PruneExtra, Goto, sessions, reaper,
       request, scan, Uncache, IsFirst, Cached, Keyed, TypeOK
  <1>5. CachedOpen'
    BY PoolAssumption DEF IInv, PruneExtra, Goto, sessions, reaper,
       request, scan, Uncache, IsFirst, Cached, CachedOpen, TypeOK
  <1>6. Owned'
    BY PoolAssumption DEF IInv, PruneExtra, Goto, sessions, reaper,
       request, scan, Uncache, IsFirst, Cached, Owned, Unstored, IsCached,
       TypeOK
  <1>7. Doomed'
    BY PoolAssumption DEF IInv, PruneExtra, Goto, sessions, reaper,
       request, scan, Uncache, IsFirst, Cached, Doomed, IsCached, TypeOK,
       Keyed, CachedOpen
  <1>8. QED BY <1>1, <1>2, <1>3, <1>4, <1>5, <1>6, <1>7 DEF IInv

\* Exactly one of the two sessions of a connection stays; the loser is closed.
LEMMA StoreStep ==
  ASSUME IInv, NEW c \in Callers, Store(c) PROVE IInv'
  <1>1. TypeOK'
    <2> DEFINE old == cache[conn[c]]
               new == handle[c]
    <2>1. /\ new \in Sessions /\ sess[new] = "open" /\ ~IsCached(new)
          /\ sconn[new] = conn[c] /\ ssig[new] = sig[c]
          /\ new \notin closing /\ \A d \in Callers : new \notin victims[d]
          /\ \A d \in Callers \ {c} : new \notin Unstored(d)
      BY DEF IInv, Owned, Unstored, Store
    <2>2. /\ old \in Sessions \cup {None} /\ old # new
          /\ old # None => sess[old] = "open" /\ sconn[old] = conn[c]
      BY <2>1 DEF IInv, TypeOK, Keyed, CachedOpen, IsCached
    <2>3. AfterHandle(c) \in {"use", "mark"}
      BY DEF AfterHandle
    <2>4. CASE Wins(old, new)
      BY <2>1, <2>2, <2>3, <2>4, PoolAssumption DEF IInv, TypeOK, Loser,
         Labels, Store, sessions, reaper, request, scan, Goto
    <2>5. CASE ~Wins(old, new)
      <3>1. /\ cache' = [cache EXCEPT ![conn[c]] = new]
            /\ handle' = [handle EXCEPT ![c] = new]
            /\ expired' \subseteq expired /\ armed' \subseteq armed
        BY <2>5 DEF Store
      <3>2. pc' \in [Callers -> Labels] /\ ret' \in [Callers -> Labels]
        BY <2>3 DEF IInv, TypeOK, Labels, Store, Goto
      <3>3. victims' \in [Callers -> SUBSET Sessions]
        BY <2>2, <2>5 DEF IInv, TypeOK, Loser, Store, sessions,
           reaper, request, scan, Goto
      <3>4. QED BY <2>1, <3>1, <3>2, <3>3 DEF IInv, TypeOK, Store,
         sessions, reaper, request, scan, Goto
    <2>6. QED BY <2>4, <2>5
  <1>2. Control'
    BY PoolAssumption DEF IInv, Store, Goto, sessions, reaper, request,
       scan, AfterHandle, Wins, Loser, Control, TypeOK
  <1>3. Handed'
    <2> DEFINE old == cache[conn[c]]
               new == handle[c]
    <2>1. /\ new \in Sessions /\ sess[new] = "open" /\ ~IsCached(new)
          /\ sconn[new] = conn[c] /\ ssig[new] = sig[c]
          /\ new \notin closing /\ \A d \in Callers : new \notin victims[d]
          /\ \A d \in Callers \ {c} : new \notin Unstored(d)
      BY DEF IInv, Owned, Unstored, Store
    <2>2. /\ old \in Sessions \cup {None} /\ old # new
          /\ old # None => sess[old] = "open" /\ sconn[old] = conn[c]
      BY <2>1 DEF IInv, TypeOK, Keyed, CachedOpen, IsCached
    <2>3. AfterHandle(c) \in {"use", "mark"}
      BY DEF AfterHandle
    <2>4. CASE Wins(old, new)
      BY <2>1, <2>2, <2>3, <2>4, PoolAssumption DEF IInv, TypeOK, Wins,
         Loser, Handed, Settled, Store, sessions, reaper, request, scan,
         Goto
    <2>5. CASE ~Wins(old, new)
      BY <2>1, <2>2, <2>3, <2>5 DEF IInv, TypeOK, Loser, Handed,
         Settled, Store, sessions, reaper, request, scan, Goto
    <2>6. QED BY <2>4, <2>5
  <1>4. Keyed'
    BY PoolAssumption DEF IInv, Store, Goto, sessions, reaper, request,
       scan, AfterHandle, Wins, Loser, Keyed, TypeOK, Owned, Unstored
  <1>5. CachedOpen'
    BY PoolAssumption DEF IInv, Store, Goto, sessions, reaper, request,
       scan, AfterHandle, Wins, Loser, CachedOpen, TypeOK, Owned, Unstored
  <1>6. Owned'
    <2> DEFINE old == cache[conn[c]]
               new == handle[c]
    <2>1. /\ new \in Sessions /\ sess[new] = "open" /\ ~IsCached(new)
          /\ sconn[new] = conn[c] /\ ssig[new] = sig[c]
          /\ new \notin closing /\ \A d \in Callers : new \notin victims[d]
          /\ \A d \in Callers \ {c} : new \notin Unstored(d)
      BY DEF IInv, Owned, Unstored, Store
    <2>2. /\ old \in Sessions \cup {None} /\ old # new
          /\ old # None => sess[old] = "open" /\ sconn[old] = conn[c]
      BY <2>1 DEF IInv, TypeOK, Keyed, CachedOpen, IsCached
    <2>3. AfterHandle(c) \in {"use", "mark"}
      BY DEF AfterHandle
    <2>4. Unstored(c)' = {} /\ \A d \in Callers \ {c} : Unstored(d)' = Unstored(d)
      BY <2>1, <2>3 DEF IInv, TypeOK, Control, Unstored, Store,
         sessions, reaper, request, scan, Goto
    <2>5. \A s \in Sessions : s # new /\ IsCached(s)' => IsCached(s)
      BY <2>1, <2>2 DEF IInv, TypeOK, IsCached, Wins, Store, sessions,
         reaper, request, scan, Goto
    <2>6. \A d \in Callers : \A s \in victims[d]' : s \in victims[d] \/ s \in {old, new}
      BY <2>1, <2>2 DEF IInv, TypeOK, Loser, Store, sessions, reaper,
         request, scan, Goto
    <2>7. \A d \in Callers : \A s \in Unstored(d) : s # old
      <3> SUFFICES ASSUME NEW d \in Callers, NEW s \in Unstored(d), s = old
                   PROVE  FALSE
        OBVIOUS
      <3>1. s \in Sessions /\ ~IsCached(s)
        BY DEF IInv, Owned
      <3>2. conn[c] \in Conns
        BY DEF IInv, TypeOK
      <3>3. QED BY <3>1, <3>2 DEF IsCached
    <2>8. UNCHANGED <<sess, sconn, ssig, conn, sig, closing>>
      BY DEF Store, sessions, reaper, request
    <2>9. SUFFICES ASSUME NEW d \in Callers \ {c}, NEW s \in Unstored(d)
                   PROVE  /\ s \in Sessions
                          /\ sess[s] = "open" /\ sconn[s] = conn[d] /\ ssig[s] = sig[d]
                          /\ ~IsCached(s)' /\ s \notin closing
                          /\ \A e \in Callers : s \notin victims[e]' /\ (e # d => s \notin Unstored(e)')
      BY <2>4, <2>8 DEF Owned
    <2>10. s # new /\ s # old
      BY <2>1, <2>7
    <2>11. QED BY <2>4, <2>5, <2>6, <2>10 DEF IInv, Owned
  <1>7. Doomed'
    <2> DEFINE old == cache[conn[c]]
               new == handle[c]
    <2>1. /\ new \in Sessions /\ sess[new] = "open" /\ ~IsCached(new)
          /\ sconn[new] = conn[c] /\ ssig[new] = sig[c]
          /\ new \notin closing /\ \A d \in Callers : new \notin victims[d]
          /\ \A d \in Callers \ {c} : new \notin Unstored(d)
      BY DEF IInv, Owned, Unstored, Store
    <2>2. /\ old \in Sessions \cup {None} /\ old # new
          /\ old # None => sess[old] = "open" /\ sconn[old] = conn[c]
      BY <2>1 DEF IInv, TypeOK, Keyed, CachedOpen, IsCached
    <2>3. AfterHandle(c) \in {"use", "mark"}
      BY DEF AfterHandle
    <2>4. CASE Wins(old, new)
      <3>1. cache' = cache /\ closing' = closing /\ sess' = sess
        BY <2>2, <2>4 DEF IInv, TypeOK, Store, sessions, reaper,
           request, scan, Goto
      <3>2. victims' = [victims EXCEPT ![c] = {new}]
        BY <2>1, <2>4, PoolAssumption DEF Loser, Store, sessions,
           reaper, request, scan, Goto
      <3>3. QED BY <2>1, <3>1, <3>2 DEF IInv, TypeOK, Doomed, IsCached
    <2>5. CASE ~Wins(old, new)
      <3>1. /\ cache' = [cache EXCEPT ![conn[c]] = new] /\ closing' = closing
            /\ sess' = sess
        BY <2>5 DEF Store, sessions, reaper, request, scan, Goto
      <3>2. \A d \in Callers : \A s \in victims'[d] : s \in victims[d] \/ (s = old /\ old # None)
        BY <2>5 DEF IInv, TypeOK, Loser, Store, sessions, reaper,
           request, scan, Goto
      <3>3. \A s \in Sessions : s # new /\ ~IsCached(s) => ~IsCached(s)'
        BY <3>1 DEF IInv, TypeOK, IsCached
      <3>4. old # None => \A k \in Conns : cache'[k] # old
        <4> SUFFICES ASSUME old # None, NEW k \in Conns, cache'[k] = old PROVE FALSE
          OBVIOUS
        <4>1. k # conn[c] /\ cache[k] = old
          BY <2>2, <3>1 DEF IInv, TypeOK
        <4>2. sconn[old] = k /\ sconn[old] = conn[c]
          BY <2>2, <4>1 DEF IInv, Keyed
        <4>3. QED BY <4>1, <4>2
      <3>5. QED BY <2>1, <2>2, <3>1, <3>2, <3>3, <3>4 DEF IInv, TypeOK,
         Doomed, IsCached
    <2>6. QED BY <2>4, <2>5
  <1>8. QED BY <1>1, <1>2, <1>3, <1>4, <1>5, <1>6, <1>7 DEF IInv

\* Taking a use guard touches no session.
LEMMA BeginUseStep ==
  ASSUME IInv, NEW c \in Callers, BeginUse(c) PROVE IInv'
  <1>1. TypeOK'
    BY PoolAssumption DEF IInv, BeginUse, Goto, pool, sessions, reaper,
       request, scan, TypeOK, Labels, Kinds
  <1>2. Control'
    BY PoolAssumption DEF IInv, BeginUse, Goto, pool, sessions, reaper,
       request, scan, Control, TypeOK
  <1>3. Handed'
    BY PoolAssumption DEF IInv, BeginUse, Goto, pool, sessions, reaper,
       request, scan, Handed, Settled, TypeOK
  <1>4. Keyed'
    BY PoolAssumption DEF IInv, BeginUse, Goto, pool, sessions, reaper,
       request, scan, Keyed, TypeOK
  <1>5. CachedOpen'
    BY PoolAssumption DEF IInv, BeginUse, Goto, pool, sessions, reaper,
       request, scan, CachedOpen, TypeOK
  <1>6. Owned'
    BY PoolAssumption DEF IInv, BeginUse, Goto, pool, sessions, reaper,
       request, scan, Owned, Unstored, IsCached, TypeOK
  <1>7. Doomed'
    BY PoolAssumption DEF IInv, BeginUse, Goto, pool, sessions, reaper,
       request, scan, Doomed, IsCached, TypeOK
  <1>8. QED BY <1>1, <1>2, <1>3, <1>4, <1>5, <1>6, <1>7 DEF IInv

\* Taking the session's mutex touches no other state.
LEMMA LockSessionStep ==
  ASSUME IInv, NEW c \in Callers, LockSession(c) PROVE IInv'
  <1>1. TypeOK'
    BY PoolAssumption DEF IInv, LockSession, Goto, pool, sessions, reaper,
       request, scan, TypeOK, Labels, Kinds
  <1>2. Control'
    BY PoolAssumption DEF IInv, LockSession, Goto, pool, sessions, reaper,
       request, scan, Control, TypeOK
  <1>3. Handed'
    BY PoolAssumption DEF IInv, LockSession, Goto, pool, sessions, reaper,
       request, scan, Handed, Settled, TypeOK
  <1>4. Keyed'
    BY PoolAssumption DEF IInv, LockSession, Goto, pool, sessions, reaper,
       request, scan, Keyed, TypeOK
  <1>5. CachedOpen'
    BY PoolAssumption DEF IInv, LockSession, Goto, pool, sessions, reaper,
       request, scan, CachedOpen, TypeOK
  <1>6. Owned'
    BY PoolAssumption DEF IInv, LockSession, Goto, pool, sessions, reaper,
       request, scan, Owned, Unstored, IsCached, TypeOK
  <1>7. Doomed'
    BY PoolAssumption DEF IInv, LockSession, Goto, pool, sessions, reaper,
       request, scan, Doomed, IsCached, TypeOK
  <1>8. QED BY <1>1, <1>2, <1>3, <1>4, <1>5, <1>6, <1>7 DEF IInv

\* A command that ends changes no ownership.
LEMMA ExecOkStep ==
  ASSUME IInv, NEW c \in Callers, ExecOk(c) PROVE IInv'
  <1>1. TypeOK'
    BY PoolAssumption DEF IInv, ExecOk, Goto, pool, sessions, reaper,
       request, scan, TypeOK, Labels, Kinds
  <1>2. Control'
    BY PoolAssumption DEF IInv, ExecOk, Goto, pool, sessions, reaper,
       request, scan, Control, TypeOK
  <1>3. Handed'
    BY PoolAssumption DEF IInv, ExecOk, Goto, pool, sessions, reaper,
       request, scan, Handed, Settled, TypeOK
  <1>4. Keyed'
    BY PoolAssumption DEF IInv, ExecOk, Goto, pool, sessions, reaper,
       request, scan, Keyed, TypeOK
  <1>5. CachedOpen'
    BY PoolAssumption DEF IInv, ExecOk, Goto, pool, sessions, reaper,
       request, scan, CachedOpen, TypeOK
  <1>6. Owned'
    BY PoolAssumption DEF IInv, ExecOk, Goto, pool, sessions, reaper,
       request, scan, Owned, Unstored, IsCached, TypeOK
  <1>7. Doomed'
    BY PoolAssumption DEF IInv, ExecOk, Goto, pool, sessions, reaper,
       request, scan, Doomed, IsCached, TypeOK
  <1>8. QED BY <1>1, <1>2, <1>3, <1>4, <1>5, <1>6, <1>7 DEF IInv

\* A failed command probes the very session it ran on.
LEMMA ExecErrStep ==
  ASSUME IInv, NEW c \in Callers, ExecErr(c) PROVE IInv'
  <1>1. TypeOK'
    BY PoolAssumption DEF IInv, ExecErr, Goto, pool, sessions, reaper,
       request, scan, RetryFrom, TypeOK, Labels, Kinds
  <1>2. Control'
    BY PoolAssumption DEF IInv, ExecErr, Goto, pool, sessions, reaper,
       request, scan, RetryFrom, Control, TypeOK, Handed, Settled
  <1>3. Handed'
    BY PoolAssumption DEF IInv, ExecErr, Goto, pool, sessions, reaper,
       request, scan, RetryFrom, Handed, Settled, TypeOK
  <1>4. Keyed'
    BY PoolAssumption DEF IInv, ExecErr, Goto, pool, sessions, reaper,
       request, scan, RetryFrom, Keyed, TypeOK
  <1>5. CachedOpen'
    BY PoolAssumption DEF IInv, ExecErr, Goto, pool, sessions, reaper,
       request, scan, RetryFrom, CachedOpen, TypeOK
  <1>6. Owned'
    BY PoolAssumption DEF IInv, ExecErr, Goto, pool, sessions, reaper,
       request, scan, RetryFrom, Owned, Unstored, IsCached, TypeOK
  <1>7. Doomed'
    BY PoolAssumption DEF IInv, ExecErr, Goto, pool, sessions, reaper,
       request, scan, RetryFrom, Doomed, IsCached, TypeOK
  <1>8. QED BY <1>1, <1>2, <1>3, <1>4, <1>5, <1>6, <1>7 DEF IInv

\* Restarting a session's clock ends the request.
LEMMA MarkUsedStep ==
  ASSUME IInv, NEW c \in Callers, MarkUsed(c) PROVE IInv'
  <1>1. TypeOK'
    <2>1. handle[c] \in Sessions
      BY DEF IInv, Handed, Settled, MarkUsed
    <2>2. LocalType'
      BY ReturnType DEF IInv, MarkUsed
    <2>3. QED
      BY <2>1, <2>2 DEF IInv, TypeOK, LocalType, MarkUsed, Rearm,
         sessions, reaper
  <1>2. Control'
    BY PoolAssumption DEF IInv, MarkUsed, Goto, sessions, reaper, Return,
       Rearm, Control, TypeOK
  <1>3. Handed'
    BY PoolAssumption DEF IInv, MarkUsed, Goto, sessions, reaper, Return,
       Rearm, Handed, Settled, TypeOK
  <1>4. Keyed'
    BY PoolAssumption DEF IInv, MarkUsed, Goto, sessions, reaper, Return,
       Rearm, Keyed, TypeOK
  <1>5. CachedOpen'
    BY PoolAssumption DEF IInv, MarkUsed, Goto, sessions, reaper, Return,
       Rearm, CachedOpen, TypeOK
  <1>6. Owned'
    BY PoolAssumption DEF IInv, MarkUsed, Goto, sessions, reaper, Return,
       Rearm, Owned, Unstored, IsCached, TypeOK
  <1>7. Doomed'
    BY PoolAssumption DEF IInv, MarkUsed, Goto, sessions, reaper, Return,
       Rearm, Doomed, IsCached, TypeOK
  <1>8. QED BY <1>1, <1>2, <1>3, <1>4, <1>5, <1>6, <1>7 DEF IInv

\* An expelled session is the expelling task's to close.
LEMMA InvalidateConnectionStep ==
  ASSUME IInv, NEW c \in Callers, InvalidateConnection(c) PROVE IInv'
  <1>1. TypeOK'
    BY ReturnType, UncacheType DEF IInv, InvalidateConnection, Goto,
       sessions, reaper, request, scan, Expelled, TypeOK, Labels, Kinds,
       LocalType
  <1>2. Control'
    BY PoolAssumption DEF IInv, InvalidateConnection, Goto, sessions,
       reaper, request, scan, Uncache, Return, Expelled, Control, TypeOK
  <1>3. Handed'
    BY PoolAssumption DEF IInv, InvalidateConnection, Goto, sessions,
       reaper, request, scan, Uncache, Return, Expelled, Handed, Settled,
       TypeOK, Control
  <1>4. Keyed'
    BY PoolAssumption DEF IInv, InvalidateConnection, Goto, sessions,
       reaper, request, scan, Uncache, Return, Expelled, Keyed, TypeOK
  <1>5. CachedOpen'
    BY PoolAssumption DEF IInv, InvalidateConnection, Goto, sessions,
       reaper, request, scan, Uncache, Return, Expelled, CachedOpen,
       TypeOK
  <1>6. Owned'
    BY PoolAssumption DEF IInv, InvalidateConnection, Goto, sessions,
       reaper, request, scan, Uncache, Return, Expelled, Owned, Unstored,
       IsCached, TypeOK, Control
  <1>7. Doomed'
    BY PoolAssumption DEF IInv, InvalidateConnection, Goto, sessions,
       reaper, request, scan, Uncache, Return, Expelled, Doomed, IsCached,
       TypeOK, Keyed, CachedOpen
  <1>8. QED BY <1>1, <1>2, <1>3, <1>4, <1>5, <1>6, <1>7 DEF IInv

\* A cancelled request gives up all it owned.
LEMMA McpTimeoutStep ==
  ASSUME IInv, NEW c \in Callers, McpTimeout(c) PROVE IInv'
  <1>1. TypeOK'
    BY PoolAssumption DEF IInv, McpTimeout, Goto, pool, sessions, reaper,
       AfterTimeout, TypeOK, Labels, Kinds, Unstored, Owned
  <1>2. Control'
    BY PoolAssumption DEF IInv, McpTimeout, Goto, pool, sessions, reaper,
       AfterTimeout, Control, TypeOK
  <1>3. Handed'
    BY PoolAssumption DEF IInv, McpTimeout, Goto, pool, sessions, reaper,
       AfterTimeout, Handed, Settled, TypeOK
  <1>4. Keyed'
    BY PoolAssumption DEF IInv, McpTimeout, Goto, pool, sessions, reaper,
       AfterTimeout, Keyed, TypeOK
  <1>5. CachedOpen'
    BY PoolAssumption DEF IInv, McpTimeout, Goto, pool, sessions, reaper,
       AfterTimeout, CachedOpen, TypeOK
  <1>6. Owned'
    BY PoolAssumption DEF IInv, McpTimeout, Goto, pool, sessions, reaper,
       AfterTimeout, Owned, Unstored, IsCached, TypeOK
  <1>7. Doomed'
    BY PoolAssumption DEF IInv, McpTimeout, Goto, pool, sessions, reaper,
       AfterTimeout, Doomed, IsCached, TypeOK
  <1>8. QED BY <1>1, <1>2, <1>3, <1>4, <1>5, <1>6, <1>7 DEF IInv

\* Time touches no session.
LEMMA ExpireStep ==
  ASSUME IInv, NEW s \in Sessions, Expire(s) PROVE IInv'
  <1>1. TypeOK'
    BY PoolAssumption DEF IInv, Expire, sessions, reaper, request, scan,
       control, TypeOK, Labels, Kinds
  <1>2. Control'
    BY PoolAssumption DEF IInv, Expire, sessions, reaper, request, scan,
       control, Control, TypeOK
  <1>3. Handed'
    BY PoolAssumption DEF IInv, Expire, sessions, reaper, request, scan,
       control, Handed, Settled, TypeOK
  <1>4. Keyed'
    BY PoolAssumption DEF IInv, Expire, sessions, reaper, request, scan,
       control, Keyed, TypeOK
  <1>5. CachedOpen'
    BY PoolAssumption DEF IInv, Expire, sessions, reaper, request, scan,
       control, CachedOpen, TypeOK
  <1>6. Owned'
    BY PoolAssumption DEF IInv, Expire, sessions, reaper, request, scan,
       control, Owned, Unstored, IsCached, TypeOK
  <1>7. Doomed'
    BY PoolAssumption DEF IInv, Expire, sessions, reaper, request, scan,
       control, Doomed, IsCached, TypeOK
  <1>8. QED BY <1>1, <1>2, <1>3, <1>4, <1>5, <1>6, <1>7 DEF IInv

\* An idle-prune task that wakes up only decides.
LEMMA IdlePruneWakesStep ==
  ASSUME IInv, NEW s \in Sessions, IdlePruneWakes(s) PROVE IInv'
  <1>1. TypeOK'
    BY PoolAssumption DEF IInv, IdlePruneWakes, sessions, request, scan,
       control, TypeOK, Labels, Kinds
  <1>2. Control'
    BY PoolAssumption DEF IInv, IdlePruneWakes, sessions, request, scan,
       control, Control, TypeOK
  <1>3. Handed'
    BY PoolAssumption DEF IInv, IdlePruneWakes, sessions, request, scan,
       control, Handed, Settled, TypeOK
  <1>4. Keyed'
    BY PoolAssumption DEF IInv, IdlePruneWakes, sessions, request, scan,
       control, Keyed, TypeOK
  <1>5. CachedOpen'
    BY PoolAssumption DEF IInv, IdlePruneWakes, sessions, request, scan,
       control, CachedOpen, TypeOK
  <1>6. Owned'
    BY PoolAssumption DEF IInv, IdlePruneWakes, sessions, request, scan,
       control, Owned, Unstored, IsCached, TypeOK
  <1>7. Doomed'
    BY PoolAssumption DEF IInv, IdlePruneWakes, sessions, request, scan,
       control, Doomed, IsCached, TypeOK
  <1>8. QED BY <1>1, <1>2, <1>3, <1>4, <1>5, <1>6, <1>7 DEF IInv

\* A session an idle-prune task removes is the task's to close.
LEMMA IdlePruneDropsStep ==
  ASSUME IInv, NEW s \in Sessions, IdlePruneDrops(s) PROVE IInv'
  <1>1. TypeOK'
    BY PoolAssumption DEF IInv, IdlePruneDrops, sessions, request, scan,
       control, pool, Uncache, StillCached, TypeOK, Labels, Kinds
  <1>2. Control'
    BY PoolAssumption DEF IInv, IdlePruneDrops, sessions, request, scan,
       control, pool, Uncache, StillCached, Control, TypeOK
  <1>3. Handed'
    BY PoolAssumption DEF IInv, IdlePruneDrops, sessions, request, scan,
       control, pool, Uncache, StillCached, Handed, Settled, TypeOK
  <1>4. Keyed'
    BY PoolAssumption DEF IInv, IdlePruneDrops, sessions, request, scan,
       control, pool, Uncache, StillCached, Keyed, TypeOK
  <1>5. CachedOpen'
    BY PoolAssumption DEF IInv, IdlePruneDrops, sessions, request, scan,
       control, pool, Uncache, StillCached, CachedOpen, TypeOK
  <1>6. Owned'
    BY PoolAssumption DEF IInv, IdlePruneDrops, sessions, request, scan,
       control, pool, Uncache, StillCached, Owned, Unstored, IsCached,
       TypeOK
  <1>7. Doomed'
    BY PoolAssumption DEF IInv, IdlePruneDrops, sessions, request, scan,
       control, pool, Uncache, StillCached, Doomed, IsCached, TypeOK,
       Keyed, CachedOpen
  <1>8. QED BY <1>1, <1>2, <1>3, <1>4, <1>5, <1>6, <1>7 DEF IInv

\* An idle-prune task closes only what it removed.
LEMMA IdlePruneClosesStep ==
  ASSUME IInv, NEW s \in Sessions, IdlePruneCloses(s) PROVE IInv'
  <1>1. TypeOK'
    BY PoolAssumption DEF IInv, IdlePruneCloses, pool, request, scan,
       control, Close, TypeOK, Labels, Kinds
  <1>2. Control'
    BY PoolAssumption DEF IInv, IdlePruneCloses, pool, request, scan,
       control, Close, Control, TypeOK
  <1>3. Handed'
    BY PoolAssumption DEF IInv, IdlePruneCloses, pool, request, scan,
       control, Close, Handed, Settled, TypeOK
  <1>4. Keyed'
    BY PoolAssumption DEF IInv, IdlePruneCloses, pool, request, scan,
       control, Close, Keyed, TypeOK
  <1>5. CachedOpen'
    BY PoolAssumption DEF IInv, IdlePruneCloses, pool, request, scan,
       control, Close, CachedOpen, TypeOK, Doomed, IsCached
  <1>6. Owned'
    BY PoolAssumption DEF IInv, IdlePruneCloses, pool, request, scan,
       control, Close, Owned, Unstored, IsCached, TypeOK
  <1>7. Doomed'
    BY PoolAssumption DEF IInv, IdlePruneCloses, pool, request, scan,
       control, Close, Doomed, IsCached, TypeOK
  <1>8. QED BY <1>1, <1>2, <1>3, <1>4, <1>5, <1>6, <1>7 DEF IInv
-----------------------------------------------------------------------------
(***************************************************************************)
(* The theorems.                                                           *)
(***************************************************************************)

\* The invariant holds of the empty pool.
LEMMA InitInv == Init => IInv
  <1> SUFFICES ASSUME Init PROVE IInv
    OBVIOUS
  <1>1. TypeOK
    BY Defaults DEF Init, TypeOK, Labels, Kinds
  <1>2. Control /\ Handed /\ Keyed /\ CachedOpen /\ Owned /\ Doomed
    BY DEF Init, Control, Handed, Settled, Keyed, CachedOpen, Owned, Unstored, Doomed
  <1>3. QED BY <1>1, <1>2 DEF IInv

\* Every step of every task keeps it.
LEMMA NextInv == IInv /\ [Next]_vars => IInv'
  <1> SUFFICES ASSUME IInv, [Next]_vars PROVE IInv'
    OBVIOUS
  <1>1. ASSUME NEW c \in Callers, CallerStep(c) PROVE IInv'
    BY <1>1, BeginStep, PruneIdleStep, LookupHandleStep, InvalidateHandleStep,
       CloseHandleStep, ConnectStep, PruneExtraStep, StoreStep, BeginUseStep,
       LockSessionStep, ExecOkStep, ExecErrStep, MarkUsedStep,
       InvalidateConnectionStep, McpTimeoutStep
       DEF CallerStep
  <1>2. ASSUME NEW s \in Sessions, SessionStep(s) PROVE IInv'
    BY <1>2, ExpireStep, IdlePruneWakesStep, IdlePruneDropsStep,
       IdlePruneClosesStep
       DEF SessionStep
  <1>3. CASE UNCHANGED vars
    BY <1>3 DEF vars, IInv, TypeOK, Control, Handed, Settled, Keyed, CachedOpen,
       Owned, Unstored, Doomed, IsCached
  <1>4. QED BY <1>1, <1>2, <1>3 DEF Next

\* The inductive invariant is an invariant of the pool.
THEOREM Invariance == Spec => []IInv
  BY InitInv, NextInv, PTL DEF Spec

\* Every reachable state has the declared shape.
THEOREM TypeCorrect == Spec => []TypeOK
  <1>1. IInv => TypeOK
    BY DEF IInv
  <1>2. QED BY Invariance, <1>1, PTL

\* However many tasks connect, evict, replace, expel and prune at once,
\* lookup_handle never returns a session that the pool has closed.
THEOREM NeverReuseClosed == Spec => []CachedOpen
  <1>1. IInv => CachedOpen
    BY DEF IInv
  <1>2. QED BY Invariance, <1>1, PTL

\* Every command runs on a session of its own connection and credentials.
THEOREM RightSession == Spec => []HandleMatchesConfig
  <1>1. IInv => HandleMatchesConfig
    BY DEF IInv, Handed, Settled, HandleMatchesConfig
  <1>2. QED BY Invariance, <1>1, PTL

\* Only connect_and_store puts sessions into the cache, and only those their
\* task has just connected.
LEMMA OnlyUnstoredEnter ==
  ASSUME IInv, [Next]_vars, NEW k \in Conns
  PROVE  \/ cache'[k] \in {cache[k], None}
         \/ \E c \in Callers : cache'[k] \in Unstored(c)
  <1>1. ASSUME NEW c \in Callers, Store(c)
        PROVE  cache'[k] = cache[k] \/ cache'[k] \in Unstored(c)
    BY <1>1 DEF Store, Unstored, IInv, TypeOK
  <1>2. ASSUME NEW K, Uncache(K) PROVE cache'[k] \in {cache[k], None}
    BY <1>2 DEF Uncache
  <1>3. ASSUME NEW c \in Callers, CallerStep(c), ~Store(c)
        PROVE  cache'[k] \in {cache[k], None}
    BY <1>2, <1>3
       DEF CallerStep, Begin, PruneIdle, LookupHandle, InvalidateHandle,
           CloseHandle, Connect, PruneExtra, BeginUse, LockSession, ExecOk,
           ExecErr, MarkUsed, InvalidateConnection, McpTimeout, pool
  <1>4. ASSUME NEW s \in Sessions, SessionStep(s)
        PROVE  cache'[k] \in {cache[k], None}
    BY <1>2, <1>4
       DEF SessionStep, Expire, IdlePruneWakes, IdlePruneDrops,
           IdlePruneCloses, pool
  <1>5. QED BY <1>1, <1>3, <1>4 DEF Next, vars

\* A session that left the cache, or lost the race to enter it, never comes
\* back, whatever the other tasks do.
THEOREM NeverResurrected == Spec => NoResurrection
  <1>1. ASSUME IInv, [Next]_vars
        PROVE  \A s \in Sessions :
                  /\ sess[s] # "none" /\ ~IsCached(s)
                  /\ \A c \in Callers : s \notin Unstored(c)
                  => ~IsCached(s)'
    BY <1>1, OnlyUnstoredEnter, PoolAssumption DEF IsCached
  <1>2. QED BY <1>1, Invariance, PTL DEF Spec, NoResurrection
-----------------------------------------------------------------------------
(***************************************************************************)
(* How far the cache can outgrow max_cached_sessions.  Counted with the    *)
(* connections of the tasks that have made room and not yet stored, the    *)
(* cache grows only in PruneExtra, and there it has just been cut down.    *)
(***************************************************************************)
Pending == {c \in Callers : pc[c] = "store" \/ (pc[c] = "close" /\ ret[c] = "store")}

Counted == Cached \cup PendingConns

\* Every step but PruneExtra leaves at most the connections counted before.
LEMMA CountedShrinks ==
  ASSUME IInv, [Next]_vars, \A c \in Callers : ~PruneExtra(c)
  PROVE  Counted' \subseteq Counted
  <1> USE DEF Counted, Cached, PendingConns, IInv, TypeOK, Control
  <1>1. ASSUME NEW c \in Callers, Store(c) PROVE Counted' \subseteq Counted
    BY <1>1 DEF Store, Goto, request, AfterHandle
  <1>2. ASSUME NEW c \in Callers,
               \/ Begin(c) \/ PruneIdle(c) \/ LookupHandle(c) \/ BeginUse(c)
               \/ LockSession(c) \/ ExecOk(c) \/ ExecErr(c) \/ McpTimeout(c)
        PROVE  Counted' \subseteq Counted
    BY <1>2 DEF Begin, PruneIdle, LookupHandle, BeginUse, LockSession, ExecOk,
       ExecErr, McpTimeout, Goto, request, pool, AfterHandle, AfterTimeout
  <1>3. ASSUME NEW c \in Callers, InvalidateHandle(c) PROVE Counted' \subseteq Counted
    BY <1>3 DEF InvalidateHandle, Resume, Return, Goto, request, pool, Uncache
  <1>4. ASSUME NEW c \in Callers, CloseHandle(c) PROVE Counted' \subseteq Counted
    BY <1>4 DEF CloseHandle, Resume, Return, Goto, request, pool
  <1>5. ASSUME NEW c \in Callers, Connect(c) \/ MarkUsed(c) PROVE Counted' \subseteq Counted
    BY <1>5 DEF Connect, MarkUsed, Return, Goto, request, pool
  <1>6. ASSUME NEW c \in Callers, InvalidateConnection(c) PROVE Counted' \subseteq Counted
    BY <1>6 DEF InvalidateConnection, Return, Goto, request, Uncache
  <1>7. ASSUME NEW s \in Sessions, SessionStep(s) PROVE Counted' \subseteq Counted
    BY <1>7 DEF SessionStep, Expire, IdlePruneWakes, IdlePruneDrops,
       IdlePruneCloses, control, request, pool, Uncache
  <1>8. CASE UNCHANGED vars
    BY <1>8 DEF vars
  <1>9. QED BY <1>1, <1>2, <1>3, <1>4, <1>5, <1>6, <1>7, <1>8 DEF Next, CallerStep

\* prune_extra_sessions leaves fewer than max_cached_sessions connections
\* besides the one about to be stored.
LEMMA RoomMade ==
  ASSUME MaxCached # 0, NEW K \in SUBSET Cached, NEW E, IsFirst(E, RemoveCount, K)
  PROVE  IsFiniteSet(K \ E) /\ Cardinality(K \ E) <= MaxCached - 1
  <1>1. IsFiniteSet(Cached)
    BY PoolAssumption, FS_Subset DEF Cached
  <1>2. IsFiniteSet(K) /\ Cardinality(K) <= Cardinality(Cached)
    BY <1>1, FS_Subset
  <1>3. /\ IsFiniteSet(K \ E)
        /\ Cardinality(K \ E) = Cardinality(K) - Cardinality(K \cap E)
    BY <1>2, FS_Difference
  <1>4. Cardinality(K \cap E) = Cardinality(E)
    <2>1. K \cap E = E
      BY DEF IsFirst
    <2>2. QED BY <2>1
  <1>5. Cardinality(K) \in Nat /\ Cardinality(Cached) \in Nat
    BY <1>1, <1>2, FS_CardinalityType
  <1>6. CASE E = K
    <2>1. K \ E = {}
      BY <1>6
    <2>2. QED BY <2>1, FS_EmptySet, PoolAssumption
  <1>7. CASE Cardinality(E) = RemoveCount
    BY <1>2, <1>3, <1>4, <1>5, <1>7, PoolAssumption DEF RemoveCount
  <1>8. QED BY <1>3, <1>6, <1>7 DEF IsFirst

\* There are no more pending connections than tasks.
LEMMA PendingFewer ==
  IsFiniteSet(PendingConns) /\ Cardinality(PendingConns) <= Cardinality(Callers)
  <1> DEFINE f == [c \in Pending |-> conn[c]]
  <1>1. IsFiniteSet(Pending) /\ Cardinality(Pending) <= Cardinality(Callers)
    BY PoolAssumption, FS_Subset DEF Pending
  <1>2. f \in Surjection(Pending, PendingConns)
    BY DEF Surjection, Pending, PendingConns
  <1>3. /\ IsFiniteSet(PendingConns)
        /\ Cardinality(PendingConns) <= Cardinality(Pending)
    BY <1>1, <1>2, FS_Surjection
  <1>4. /\ Cardinality(PendingConns) \in Nat /\ Cardinality(Pending) \in Nat
        /\ Cardinality(Callers) \in Nat
    BY <1>1, <1>3, PoolAssumption, FS_CardinalityType
  <1>5. QED BY <1>1, <1>3, <1>4

\* Concurrent stores exceed max_cached_sessions by fewer connections than
\* there are tasks.
THEOREM CacheBounded == Spec => []CacheBound
  <1>1. Init => CacheBound
    <2> SUFFICES ASSUME Init, MaxCached # 0
                 PROVE  Cardinality(Cached \cup PendingConns)
                           <= MaxCached - 1 + Cardinality(Callers)
      BY DEF CacheBound
    <2>1. Cached \cup PendingConns = {}
      BY DEF Init, Cached, PendingConns
    <2>2. Cardinality(Callers) \in Nat
      BY PoolAssumption, FS_CardinalityType
    <2>3. Cardinality(Cached \cup PendingConns) = 0
      BY <2>1, FS_EmptySet
    <2>4. QED BY <2>2, <2>3, PoolAssumption
  <1>2. IInv /\ CacheBound /\ [Next]_vars => CacheBound'
    <2> SUFFICES ASSUME IInv, CacheBound, [Next]_vars, MaxCached # 0
                 PROVE  Cardinality(Counted') <= MaxCached - 1 + Cardinality(Callers)
      BY DEF CacheBound, Counted
    <2>1. /\ Cardinality(Callers) \in Nat
          /\ IsFiniteSet(Counted) /\ Cardinality(Counted) \in Nat
      <3>1. Counted \subseteq Conns
        BY DEF Counted, Cached, PendingConns, IInv, TypeOK
      <3>2. QED BY <3>1, PoolAssumption, FS_Subset, FS_CardinalityType
    <2>2. CASE \A c \in Callers : ~PruneExtra(c)
      <3>1. Counted' \subseteq Counted
        BY <2>2, CountedShrinks
      <3>2. IsFiniteSet(Counted') /\ Cardinality(Counted') <= Cardinality(Counted)
        BY <2>1, <3>1, FS_Subset
      <3>3. Cardinality(Counted') \in Nat
        BY <3>2, FS_CardinalityType
      <3>4. Cardinality(Counted) <= MaxCached - 1 + Cardinality(Callers)
        BY DEF CacheBound, Counted
      <3>5. QED BY <2>1, <3>2, <3>3, <3>4, PoolAssumption
    <2>3. ASSUME NEW c \in Callers, PruneExtra(c)
          PROVE  Cardinality(Counted') <= MaxCached - 1 + Cardinality(Callers)
      <3> DEFINE K == Cached \ {conn[c]}
      <3>1. PICK E \in SUBSET Conns : IsFirst(E, RemoveCount, K) /\ Uncache(E)
        BY <2>3 DEF PruneExtra
      <3>2. IsFiniteSet(K \ E) /\ Cardinality(K \ E) <= MaxCached - 1
        BY <3>1, RoomMade
      <3>3. IsFiniteSet(PendingConns') /\ Cardinality(PendingConns') <= Cardinality(Callers)
        <4>1. (IsFiniteSet(PendingConns) /\ Cardinality(PendingConns) <= Cardinality(Callers))'
          BY PendingFewer, PTL
        <4>2. QED BY <4>1
      <3>4. conn[c] \in PendingConns'
        BY <2>3 DEF PruneExtra, Goto, PendingConns, IInv, TypeOK, request
      <3>5. Cached' \subseteq (K \ E) \cup {conn[c]}
        BY <3>1 DEF Cached, Uncache, IInv, TypeOK
      <3>6. Counted' = (K \ E) \cup PendingConns'
        <4>1. (K \ E) \subseteq Cached'
          BY <3>1 DEF Cached, Uncache, IInv, TypeOK
        <4>2. QED BY <3>4, <3>5, <4>1 DEF Counted
      <3>7. Cardinality(Counted') <= Cardinality(K \ E) + Cardinality(PendingConns')
        <4>1. Cardinality((K \ E) \cap PendingConns') \in Nat
          BY <3>2, FS_Intersection, FS_CardinalityType
        <4>2. Cardinality(K \ E) \in Nat /\ Cardinality(PendingConns') \in Nat
          BY <3>2, <3>3, FS_CardinalityType
        <4>3. Cardinality((K \ E) \cup PendingConns') = Cardinality(K \ E)
                 + Cardinality(PendingConns') - Cardinality((K \ E) \cap PendingConns')
          BY <3>2, <3>3, FS_Union
        <4>4. Cardinality(Counted') = Cardinality((K \ E) \cup PendingConns')
          BY <3>6
        <4>5. QED BY <4>1, <4>2, <4>3, <4>4
      <3>8. Cardinality(K \ E) \in Nat /\ Cardinality(PendingConns') \in Nat
            /\ Cardinality(Counted') \in Nat
        <4>1. IsFiniteSet(Counted')
          BY <3>2, <3>3, <3>6, FS_Union
        <4>2. QED BY <4>1, <3>2, <3>3, FS_CardinalityType
      <3>9. QED BY <2>1, <3>2, <3>3, <3>7, <3>8, PoolAssumption
    <2>4. QED BY <2>2, <2>3
  <1>3. QED BY <1>1, <1>2, Invariance, PTL DEF Spec
-----------------------------------------------------------------------------
(***************************************************************************)
(* No session leaks.  A task overwrites its victims when it removes others *)
(* from the cache, so it matters that it has closed them by then: only a   *)
(* task at "close" has any.                                                *)
(***************************************************************************)
NoneLeft == \A c \in Callers : pc[c] # "close" => victims[c] = {}

LEMMA AccountStep ==
  ASSUME IInv, NoneLeft, OpenAccounted, [Next]_vars
  PROVE  NoneLeft' /\ OpenAccounted'
  <1> USE PoolAssumption DEF IInv, TypeOK, Control, Owned, NoneLeft, OpenAccounted, Unstored, IsCached,
          Goto, pool, sessions, reaper, request, scan, control
  <1>1. ASSUME NEW c \in Callers, Begin(c) PROVE NoneLeft' /\ OpenAccounted'
    BY <1>1 DEF Begin
  <1>2. ASSUME NEW c \in Callers, PruneIdle(c) PROVE NoneLeft' /\ OpenAccounted'
    BY <1>2 DEF PruneIdle
  <1>3. ASSUME NEW c \in Callers, LookupHandle(c) PROVE NoneLeft' /\ OpenAccounted'
    <2>1. NoneLeft'
      BY <1>3 DEF LookupHandle, AfterHandle
    <2>2. /\ pc[c] \notin {"evict", "store", "close"} /\ pc'[c] \notin {"evict", "store", "close"}
          /\ \A d \in Callers \ {c} : pc'[d] = pc[d] /\ ret'[d] = ret[d] /\ handle'[d] = handle[d]
      BY <1>3 DEF LookupHandle, AfterHandle
    <2>3. \A d \in Callers : Unstored(d)' = Unstored(d)
      BY <2>2
    <2>4. UNCHANGED <<cache, sess, closing, abandoned, victims>>
      BY <1>3 DEF LookupHandle, AfterHandle
    <2> HIDE DEF Unstored, IsCached, NoneLeft, IInv, TypeOK
    <2>5. \A s \in Sessions : IsCached(s)' = IsCached(s)
      BY <2>4 DEF IsCached
    <2> QED BY <2>1, <2>3, <2>4, <2>5
  <1>4. ASSUME NEW c \in Callers, InvalidateHandle(c) PROVE NoneLeft' /\ OpenAccounted'
    <2>1. NoneLeft'
      BY <1>4 DEF InvalidateHandle, StillCached, Uncache, Resume, Return
    <2>2. /\ pc[c] \notin {"evict", "store", "close"} /\ victims[c] = {}
          /\ \A d \in Callers \ {c} :
                pc'[d] = pc[d] /\ ret'[d] = ret[d] /\ handle'[d] = handle[d] /\ victims'[d] = victims[d]
      BY <1>4 DEF InvalidateHandle, StillCached, Uncache, Resume, Return
    <2>3. \A d \in Callers : Unstored(d) \subseteq Unstored(d)' /\ victims[d] \subseteq victims'[d]
      BY <2>2
    <2>4. UNCHANGED <<sess, closing, abandoned>>
      BY <1>4 DEF InvalidateHandle, StillCached, Uncache, Resume, Return
    <2>5. \A s \in Sessions : IsCached(s) => IsCached(s)' \/ s \in victims'[c]
      BY <1>4 DEF InvalidateHandle, StillCached, Uncache, Resume, Return
    <2> HIDE DEF Unstored, IsCached, NoneLeft, IInv, TypeOK
    <2> QED BY <2>1, <2>3, <2>4, <2>5
  <1>5. ASSUME NEW c \in Callers, CloseHandle(c) PROVE NoneLeft' /\ OpenAccounted'
    BY <1>5 DEF CloseHandle, Close, Resume, Return
  <1>6. ASSUME NEW c \in Callers, Connect(c) PROVE NoneLeft' /\ OpenAccounted'
    BY <1>6 DEF Connect, Return
  <1>7. ASSUME NEW c \in Callers, PruneExtra(c) PROVE NoneLeft' /\ OpenAccounted'
    BY <1>7 DEF PruneExtra, Uncache
  <1>8. ASSUME NEW c \in Callers, Store(c) PROVE NoneLeft' /\ OpenAccounted'
    <2>1. NoneLeft'
      BY <1>8 DEF Store, Wins, Loser, AfterHandle
    <2>2. \A d \in Callers \ {c} : Unstored(d)' = Unstored(d) /\ victims'[d] = victims[d]
      BY <1>8 DEF Store, Wins, Loser, AfterHandle
    <2>3. UNCHANGED <<sess, closing, abandoned>> /\ Unstored(c) = {handle[c]} /\ victims[c] = {}
      BY <1>8 DEF Store, Wins, Loser, AfterHandle
    <2>4. \A k \in Conns : k # conn[c] => cache'[k] = cache[k]
      BY <1>8 DEF Store, Wins, Loser, AfterHandle
    <2>5. \A s \in Sessions : s \in {cache[conn[c]], handle[c]} => s = cache'[conn[c]] \/ s \in victims'[c]
      BY <1>8 DEF Store, Wins, Loser, AfterHandle
    <2>6. conn[c] \in Conns
      OBVIOUS
    <2>7. \A s \in Sessions : IsCached(s) \/ s = handle[c] => IsCached(s)' \/ s \in victims'[c]
      BY <2>4, <2>5, <2>6
    <2> HIDE DEF Unstored, IsCached, NoneLeft, IInv, TypeOK
    <2> QED BY <2>1, <2>2, <2>3, <2>7
  <1>9. ASSUME NEW c \in Callers, BeginUse(c) PROVE NoneLeft' /\ OpenAccounted'
    BY <1>9 DEF BeginUse
  <1>10. ASSUME NEW c \in Callers, LockSession(c) PROVE NoneLeft' /\ OpenAccounted'
    BY <1>10 DEF LockSession
  <1>11. ASSUME NEW c \in Callers, ExecOk(c) PROVE NoneLeft' /\ OpenAccounted'
    BY <1>11 DEF ExecOk
  <1>12. ASSUME NEW c \in Callers, ExecErr(c) PROVE NoneLeft' /\ OpenAccounted'
    <2>1. NoneLeft'
      BY <1>12 DEF ExecErr, RetryFrom
    <2>2. /\ pc[c] \notin {"evict", "store", "close"} /\ pc'[c] \notin {"evict", "store", "close"}
          /\ \A d \in Callers \ {c} : pc'[d] = pc[d] /\ ret'[d] = ret[d] /\ handle'[d] = handle[d]
      BY <1>12 DEF ExecErr, RetryFrom
    <2>3. \A d \in Callers : Unstored(d)' = Unstored(d)
      BY <2>2
    <2>4. UNCHANGED <<cache, sess, closing, abandoned, victims>>
      BY <1>12 DEF ExecErr, RetryFrom
    <2> HIDE DEF Unstored, IsCached, NoneLeft, IInv, TypeOK
    <2>5. \A s \in Sessions : IsCached(s)' = IsCached(s)
      BY <2>4 DEF IsCached
    <2> QED BY <2>1, <2>3, <2>4, <2>5
  <1>13. ASSUME NEW c \in Callers, MarkUsed(c) PROVE NoneLeft' /\ OpenAccounted'
    BY <1>13 DEF MarkUsed, Return
  <1>14. ASSUME NEW c \in Callers, InvalidateConnection(c) PROVE NoneLeft' /\ OpenAccounted'
    <2>1. NoneLeft'
      BY <1>14 DEF InvalidateConnection, Uncache, Expelled, Return
    <2>2. /\ pc[c] \notin {"evict", "store", "close"} /\ victims[c] = {}
          /\ \A d \in Callers \ {c} :
                pc'[d] = pc[d] /\ ret'[d] = ret[d] /\ handle'[d] = handle[d] /\ victims'[d] = victims[d]
      BY <1>14 DEF InvalidateConnection, Uncache, Expelled, Return
    <2>3. \A d \in Callers : Unstored(d) \subseteq Unstored(d)' /\ victims[d] \subseteq victims'[d]
      BY <2>2
    <2>4. UNCHANGED <<sess, closing, abandoned>>
      BY <1>14 DEF InvalidateConnection, Uncache, Expelled, Return
    <2>5. \A s \in Sessions : IsCached(s) => IsCached(s)' \/ s \in victims'[c]
      BY <1>14 DEF InvalidateConnection, Uncache, Expelled, Return
    <2> HIDE DEF Unstored, IsCached, NoneLeft, IInv, TypeOK
    <2> QED BY <2>1, <2>3, <2>4, <2>5
  <1>15. ASSUME NEW c \in Callers, McpTimeout(c) PROVE NoneLeft' /\ OpenAccounted'
    BY <1>15 DEF McpTimeout, UnderTimeout, AfterTimeout
  <1>16. ASSUME NEW s \in Sessions, Expire(s) PROVE NoneLeft' /\ OpenAccounted'
    BY <1>16 DEF Expire
  <1>17. ASSUME NEW s \in Sessions, IdlePruneWakes(s) PROVE NoneLeft' /\ OpenAccounted'
    BY <1>17 DEF IdlePruneWakes
  <1>18. ASSUME NEW s \in Sessions, IdlePruneDrops(s) PROVE NoneLeft' /\ OpenAccounted'
    BY <1>18 DEF IdlePruneDrops, StillCached, Uncache
  <1>19. ASSUME NEW s \in Sessions, IdlePruneCloses(s) PROVE NoneLeft' /\ OpenAccounted'
    BY <1>19 DEF IdlePruneCloses, Close
  <1>20. CASE UNCHANGED vars
    BY <1>20 DEF vars
  <1> HIDE DEF NoneLeft, OpenAccounted
  <1> QED BY <1>1, <1>2, <1>3, <1>4, <1>5, <1>6, <1>7, <1>8, <1>9, <1>10, <1>11,
             <1>12, <1>13, <1>14, <1>15, <1>16, <1>17, <1>18, <1>19, <1>20
       DEF Next, CallerStep, SessionStep

\* Every open session is cached, or a task or an idle-prune task has still to store or close it, or
\* its owner was cancelled by the MCP timeout: eviction, the race in connect_and_store, the retry and
\* invalidate_connection lose none.
THEOREM NoSessionLeaks == Spec => []OpenAccounted
  <1>1. Init => NoneLeft /\ OpenAccounted
    BY DEF Init, NoneLeft, OpenAccounted
  <1>2. IInv /\ NoneLeft /\ OpenAccounted /\ [Next]_vars => NoneLeft' /\ OpenAccounted'
    BY AccountStep
  <1>3. QED BY <1>1, <1>2, Invariance, PTL DEF Spec
=============================================================================

------------------------- MODULE TunnelManagerProofs -------------------------
(***************************************************************************)
(* Proofs about TunnelManager for every set of rules, commands in progress *)
(* and runtimes.                                                           *)
(*                                                                         *)
(* The invariants are stacked.  TypeOK comes first.  RuntimeInv says who   *)
(* holds each runtime and holds however commands overlap; it gives         *)
(* RuntimeIsOwned.  SoleInv, AloneInv and ShownInv say what the status of  *)
(* a rule means as long as no two commands worked on it at the same time   *)
(* (it is not in crossed); they give DownIsReleased and RunningIsServing.  *)
(***************************************************************************)
EXTENDS TunnelManager, TLAPS

\* Steps of start_rule after the handshake, and after a failure.
Dialled == {"reload", "recheck", "request", "publish", "insert"}
Undoing == {"discard_gone", "discard_surplus", "discard_refused", "forget", "fail"}
OtherSteps == {"load_stopped", "set_stopped", "erase", "erase_state", "list_rules", "next_rule",
               "edit_check", "edit_status", "save"}

\* Which command is at which step, and what it holds there.
TaskInv ==
    \A t \in Tasks :
        /\ pc[t] = "idle" => new[t] = None /\ old[t] = None /\ op[t] = "start"
        /\ pc[t] # "idle" => rule[t] \in Rules
        /\ pc[t] \in StartSteps => op[t] = "start"
        /\ pc[t] \in OtherSteps => op[t] # "start"
        /\ pc[t] \in {"remove", "close", "list_rules", "next_rule"} => op[t] # "upsert"
        /\ pc[t] = "bind" => rule[t] \notin RemoteRules
        /\ pc[t] # "idle" /\ op[t] = "start" => new[t] # None
        /\ new[t] # None => op[t] = "start" /\ of[new[t]] = rule[t]
        /\ pc[t] = "close" => old[t] # None /\ of[old[t]] = rule[t]
        /\ pc[t] \notin {"idle", "load"} /\ op[t] = "start" => loaded[t] # None

\* A runtime that is being built belongs to one command and is known to nobody else.
BuiltInv ==
    \A t \in Tasks : new[t] # None =>
        /\ \A u \in Tasks : u # t => new[u] # new[t]
        /\ \A u \in Tasks : old[u] # new[t]
        /\ \A r \in Rules : running[r] # new[t]

\* What a command has built when it is at a step.
StageInv ==
    \A t \in Tasks : new[t] # None =>
        LET s == new[t] IN
        /\ ~aborted[s]
        /\ sess[s] = "open" => pc[t] \in Dialled \cup {"discard_gone", "discard_surplus", "discard_refused"}
        /\ pc[t] \in Dialled \ {"insert"} => sess[s] # "closed"
        /\ loop[s] # "none" => pc[t] = "insert"
        /\ port[s] # None => IF rule[t] \in RemoteRules THEN pc[t] \in {"publish", "insert"}
                             ELSE pc[t] \in {"connect", "reload", "recheck", "publish", "insert",
                                             "discard_gone", "discard_surplus", "forget"}
        /\ port[s] # None /\ rule[t] \in RemoteRules => sess[s] = "open"
        /\ pc[t] = "insert" => IF rule[t] \in RemoteRules THEN sess[s] # "closed"
                               ELSE loop[s] # "none" \/ (sess[s] # "open" /\ port[s] = None)

\* The command that took s from running has not closed it yet.
BeingClosed(s) == \E t \in Tasks : pc[t] = "close" /\ old[t] = s

Built(s) == \E t \in Tasks : new[t] = s

\* What holds the session and the port of a runtime that is no longer being built.
HolderInv ==
    /\ \A r \in Rules : running[r] # None => of[running[r]] = r
    /\ \A t \in Tasks : old[t] # None /\ pc[t] # "close" => sess[old[t]] # "open"
    /\ \A s \in Sids :
        /\ aborted[s] => loop[s] # "none" /\ (sess[s] # "open" \/ BeingClosed(s))
        /\ loop[s] # "none" => ~IsRemote(s)
        /\ ~Built(s) /\ ~IsRemote(s) /\ loop[s] = "none" =>
                port[s] = None /\ (sess[s] # "open" \/ BeingClosed(s))
        /\ ~Built(s) /\ IsRemote(s) =>
                /\ port[s] # None => sess[s] = "open"
                /\ sess[s] = "open" => BeingClosed(s) \/ \E r \in Rules : running[r] = s

RuntimeInv == TaskInv /\ BuiltInv /\ StageInv /\ HolderInv

-----------------------------------------------------------------------------
\* The command at such a step has seen or made running[rule[t]] empty.
Cleared == {"set_starting", "resolve", "bind", "connect"} \cup Dialled \cup (Undoing \ {"discard_surplus"})
           \cup {"close", "load_stopped", "set_stopped", "erase", "erase_state"}

\* One command at a time works on a rule that is not crossed.
SoleInv ==
    \A r \in Rules : r \notin crossed => \A t, u \in Tasks : Works(t, r) /\ Works(u, r) => t = u

\* A session that nobody closed and a listener that serve the rule they were started for; the
\* server's listener of a remote rule goes with a session that broke.
Up(s) ==
    /\ sess[s] # "closed"
    /\ port[s] # None \/ (IsRemote(s) /\ sess[s] = "lost")
    /\ IsRemote(s) \/ loop[s] \in {"accepting", "failing"}

\* The accept loop will still act on the status and the map entry of its rule.
Unsettled(s) == loop[s] \in {"accepting", "failing", "cleaning"}

\* A registered runtime is alone for its rule, and the status says so: as a command sees it, ...
AloneTask ==
    \A t \in Tasks : rule[t] \notin crossed =>
        /\ pc[t] \in Cleared => running[rule[t]] = None
        /\ pc[t] # "discard_surplus"
        /\ pc[t] = "publish" \/ (pc[t] \in {"connect", "reload", "recheck"} /\ rule[t] \notin RemoteRules)
              => port[new[t]] # None \/ (IsRemote(new[t]) /\ sess[new[t]] = "lost")
        /\ pc[t] = "insert" /\ (IsRemote(new[t]) \/ loop[new[t]] \in {"accepting", "failing"})
              => Up(new[t]) /\ status[rule[t]] = "running"

\* ... as its accept loop does, ...
LoopAlone(s) ==
    of[s] \notin crossed =>
        /\ Unsettled(s) => aborted[s] \/ Built(s) \/ running[of[s]] = s
        /\ aborted[s] => running[of[s]] = None /\ \A t \in Tasks : rule[t] = of[s] => pc[t] \notin Dialled
AloneLoop == \A s \in Sids : LoopAlone(s)

\* ... and as the map of running tunnels does.
AloneRule ==
    \A r \in Rules : r \notin crossed =>
        LET s == running[r] IN
        s # None /\ (IsRemote(s) \/ loop[s] \in {"accepting", "failing"}) => Up(s) /\ status[r] = "running"

AloneInv == AloneTask /\ AloneLoop /\ AloneRule

\* A status of "starting" or "running" always has somebody behind it.
ShownTask ==
    \A t \in Tasks : rule[t] \notin crossed =>
        /\ pc[t] \in {"recheck", "request", "publish", "insert"} => stored[rule[t]] # None
        /\ pc[t] \in {"remove", "close"} /\ op[t] = "start" => should_replace_existing_runtime(status[rule[t]])

StartingInv ==
    \A r \in Rules : r \notin crossed /\ status[r] = "starting" =>
        \E t \in Tasks :
            /\ rule[t] = r
            /\ pc[t] \in {"resolve", "bind", "connect"} \cup (Dialled \ {"insert"}) \cup (Undoing \ {"discard_surplus"})

\* The command that stopped the runtime of its rule is about to say so.
Stopping(t) ==
    /\ old[t] # None /\ op[t] # "start"
    /\ pc[t] \in {"close", "load_stopped", "set_stopped", "erase", "erase_state"}

RunningAt(r) ==
    \/ r \in cut
    \/ running[r] # None /\ Up(running[r])
    \/ \E t \in Tasks : rule[t] = r /\ (Stopping(t) \/ (pc[t] = "insert" /\ Up(new[t])))
RunningInv == \A r \in Rules : r \notin crossed /\ status[r] = "running" => RunningAt(r)

StoredInv ==
    \A r \in Rules : r \notin crossed /\ status[r] = "running" =>
        stored[r] # None \/ \E t \in Tasks : rule[t] = r /\ pc[t] = "erase_state"

ShownInv == ShownTask /\ StartingInv /\ RunningInv /\ StoredInv

-----------------------------------------------------------------------------
(* Type correctness.                                                       *)

LEMMA LabelsAre ==
    /\ "idle" \in Labels /\ "edit_check" \in Labels /\ "edit_status" \in Labels /\ "save" \in Labels
    /\ "load" \in Labels /\ "check" \in Labels /\ "check_status" \in Labels /\ "set_starting" \in Labels
    /\ "resolve" \in Labels /\ "bind" \in Labels /\ "connect" \in Labels /\ "reload" \in Labels
    /\ "recheck" \in Labels /\ "request" \in Labels /\ "publish" \in Labels /\ "insert" \in Labels
    /\ "discard_gone" \in Labels /\ "discard_surplus" \in Labels /\ "discard_refused" \in Labels /\ "forget" \in Labels
    /\ "fail" \in Labels /\ "remove" \in Labels /\ "close" \in Labels /\ "load_stopped" \in Labels
    /\ "set_stopped" \in Labels /\ "erase" \in Labels /\ "erase_state" \in Labels /\ "list_rules" \in Labels
    /\ "next_rule" \in Labels
BY DEF Labels, StartSteps, StopSteps

\* The type invariant in parts: Boolean and set-valued functions need leaves of their own.
TodoOK == todo \in [Tasks -> SUBSET Rules]
AbortedOK == aborted \in [Sids -> BOOLEAN]
FlatOK ==
    /\ \A t \in Tasks : pc[t] # "idle" => rule[t] \in Rules
    /\ stored \in [Rules -> Ports \cup {None}]
    /\ status \in [Rules -> Statuses]
    /\ active \in [Rules -> Nat]
    /\ running \in [Rules -> Sids \cup {None}]
    /\ of \in [Sids -> Rules \cup {None}]
    /\ sess \in [Sids -> {"open", "lost", "closed"}]
    /\ port \in [Sids -> Ports \cup {None}]
    /\ loop \in [Sids -> LoopStates]
    /\ clients \in [Sids -> Nat]
    /\ started \in [Rules -> Nat]
    /\ finished \in [Rules -> Nat]
    /\ op \in [Tasks -> Kinds]
    /\ pc \in [Tasks -> Labels]
    /\ rule \in [Tasks -> Rules \cup {None}]
    /\ loaded \in [Tasks -> Ports \cup {None}]
    /\ new \in [Tasks -> Sids \cup {None}]
    /\ old \in [Tasks -> Sids \cup {None}]

LEMMA TodoStep == TypeOK /\ [Next]_vars => TodoOK'
<1> SUFFICES ASSUME TypeOK, [Next]_vars PROVE TodoOK'
    OBVIOUS
<1> USE DEF TypeOK, TodoOK, dataVars, taskVars, Goto, Return
<1>1. ASSUME NEW t \in Tasks, Command(t) PROVE TodoOK'
      BY <1>1 DEF Command, Begin, BeginStart, BeginStop, BeginDelete, BeginStopConnection, BeginUpsert
<1>2. ASSUME NEW t \in Tasks, ListRules(t) PROVE TodoOK'
      BY <1>2 DEF ListRules, rules_for_connection
<1>3. ASSUME NEW t \in Tasks, NextRule(t) PROVE TodoOK'
      BY <1>3 DEF NextRule
<1>4. ASSUME NEW t \in Tasks, StoreStep(t) \/ Step(t), ~ListRules(t), ~NextRule(t) PROVE TodoOK'
  <2>1. UNCHANGED todo \/ todo' = [todo EXCEPT ![t] = {}]
        BY <1>4 DEF StoreStep, Step, Load, Reload, LoadStopped, Erase, Save, Check, CheckStatus, SetStarting,
                    Resolve, Bind, Connect, Recheck, Request, Publish, Insert, DiscardGone, DiscardSurplus,
                    DiscardRefused, Forget, Fail, Remove, Close, SetStopped, EraseState, EditCheck, EditStatus
  <2>2. QED BY <2>1
<1>5. ASSUME \/ \E s \in Sids : AcceptClient(s) \/ ClientEnds(s) \/ AcceptFails(s) \/ LoopStep(s)
                                \/ ForwardStarts(s) \/ ForwardEnds(s) \/ SessionLost(s)
             \/ \E r \in Rules : ApplyStarted(r) \/ ApplyFinished(r)
             \/ UNCHANGED vars
      PROVE  TodoOK'
      BY <1>5 DEF AcceptClient, ClientEnds, AcceptFails, LoopStep, LoopFails, LoopRemoves, LoopCloses, AbortLands,
                  ForwardStarts, ForwardEnds, SessionLost, ApplyStarted, ApplyFinished, vars
<1>6. QED BY <1>1, <1>2, <1>3, <1>4, <1>5 DEF Next, StoreStep, Step

LEMMA AbortedStep == TypeOK /\ [Next]_vars => AbortedOK'
<1> SUFFICES ASSUME TypeOK, [Next]_vars PROVE AbortedOK'
    OBVIOUS
<1>1. \/ UNCHANGED aborted
      \/ \E s \in Sids : aborted' = [aborted EXCEPT ![s] = FALSE]
      \/ \E t \in Tasks : Remove(t)
  <2> USE DEF sidVars
  <2>1. ASSUME NEW t \in Tasks, Command(t) \/ StoreStep(t) \/ Step(t), ~Remove(t) PROVE UNCHANGED aborted
        BY <2>1 DEF Command, Begin, BeginStart, BeginStop, BeginDelete, BeginStopConnection, BeginUpsert,
                    StoreStep, Step, Load, Reload, LoadStopped, Erase, ListRules, Save, Check, CheckStatus,
                    SetStarting, Resolve, Bind, Connect, Recheck, Request, Publish, Insert, DiscardGone,
                    DiscardSurplus, DiscardRefused, CloseNew, Forget, Fail, Close, SetStopped, EraseState,
                    NextRule, EditCheck, EditStatus
  <2>2. QED BY <2>1 DEF Next, AcceptClient, ClientEnds, AcceptFails, LoopStep, LoopFails, LoopRemoves, LoopCloses,
                  AbortLands, LoopEnds, ForwardStarts, ForwardEnds, SessionLost, ApplyStarted, ApplyFinished, vars
<1>2. ASSUME NEW t \in Tasks, Remove(t) PROVE AbortedOK'
      BY <1>2 DEF Remove, Abort, TypeOK, AbortedOK
<1>3. QED BY <1>1, <1>2 DEF TypeOK, AbortedOK

HistoryOK == crossed \subseteq Rules /\ cut \subseteq Rules

LEMMA HistoryStep == TypeOK /\ [Next]_vars => HistoryOK'
<1>1. TypeOK /\ Remember => HistoryOK'
      BY DEF TypeOK, Remember, HistoryOK
<1>2. TypeOK /\ UNCHANGED vars => HistoryOK'
      BY DEF TypeOK, vars, historyVars, HistoryOK
<1>3. QED BY <1>1, <1>2 DEF Next

TypeInv == TodoOK /\ AbortedOK /\ HistoryOK /\ FlatOK

LEMMA FlatStep == TypeInv /\ [Next]_vars => FlatOK'
<1> SUFFICES ASSUME TypeInv, [Next]_vars PROVE FlatOK'
    OBVIOUS
<1> USE TunnelAssumption, LabelsAre DEF TypeInv, FlatOK, Kinds, Statuses, LoopStates,
        ruleVars, sidVars, eventVars, dataVars, taskVars, Goto, set_state, Return
<1>1. ASSUME NEW t \in Tasks, Command(t) PROVE FlatOK'
      BY <1>1 DEF Command, Begin, BeginStart, BeginStop, BeginDelete, BeginStopConnection, BeginUpsert
<1>2. ASSUME NEW t \in Tasks, StoreStep(t) PROVE FlatOK'
  <2>1. CASE Load(t)
        BY <2>1 DEF Load
  <2>2. CASE Reload(t)
        BY <2>2 DEF Reload
  <2>3. CASE LoadStopped(t)
        BY <2>3 DEF LoadStopped
  <2>4. CASE Erase(t)
        BY <2>4 DEF Erase
  <2>5. CASE ListRules(t)
        BY <2>5 DEF ListRules
  <2>6. CASE Save(t)
        BY <2>6 DEF Save
  <2>7. QED BY <1>2, <2>1, <2>2, <2>3, <2>4, <2>5, <2>6 DEF StoreStep
<1>3. ASSUME NEW t \in Tasks, Step(t) PROVE FlatOK'
  <2>1. CASE Check(t)
        BY <2>1 DEF Check
  <2>2. CASE CheckStatus(t)
        BY <2>2 DEF CheckStatus
  <2>3. CASE SetStarting(t)
        BY <2>3 DEF SetStarting
  <2>4. CASE Resolve(t)
        BY <2>4, SMTT(30) DEF Resolve
  <2>5. CASE Bind(t)
        BY <2>5 DEF Bind
  <2>6. CASE Connect(t)
        BY <2>6, SMTT(30) DEF Connect, DropListener
  <2>7. CASE Recheck(t)
        BY <2>7 DEF Recheck
  <2>8. CASE Request(t)
        BY <2>8 DEF Request
  <2>9. CASE Publish(t)
        BY <2>9 DEF Publish
  <2>10. CASE Insert(t)
        BY <2>10 DEF Insert, DropEntry, CloseRemote
  <2>11. CASE DiscardGone(t)
        BY <2>11 DEF DiscardGone, CloseNew
  <2>12. CASE DiscardSurplus(t)
        BY <2>12 DEF DiscardSurplus, CloseNew, DropListener
  <2>13. CASE DiscardRefused(t)
        BY <2>13 DEF DiscardRefused, CloseNew
  <2>14. CASE Forget(t)
        BY <2>14 DEF Forget, DropListener
  <2>15. CASE Fail(t)
        BY <2>15 DEF Fail
  <2>16. CASE Remove(t)
        BY <2>16 DEF Remove, AfterStop
  <2>17. CASE Close(t)
        BY <2>17 DEF Close, CloseRemote, AfterStop
  <2>18. CASE SetStopped(t)
        BY <2>18, SMTT(30) DEF SetStopped
  <2>19. CASE EraseState(t)
        BY <2>19 DEF EraseState
  <2>20. CASE NextRule(t)
        BY <2>20, SMTT(30) DEF NextRule, TodoOK
  <2>21. CASE EditCheck(t)
        BY <2>21 DEF EditCheck
  <2>22. CASE EditStatus(t)
        BY <2>22 DEF EditStatus
  <2>23. QED BY <1>3, <2>1, <2>2, <2>3, <2>4, <2>5, <2>6, <2>7, <2>8, <2>9, <2>10, <2>11, <2>12,
                <2>13, <2>14, <2>15, <2>16, <2>17, <2>18, <2>19, <2>20, <2>21, <2>22 DEF Step
<1>4. ASSUME NEW s \in Sids, AcceptClient(s) \/ ClientEnds(s) \/ AcceptFails(s) \/ LoopStep(s) PROVE FlatOK'
  <2>1. CASE AcceptClient(s) \/ ClientEnds(s)
        BY <2>1 DEF AcceptClient, ClientEnds, Incremented, Decremented
  <2>2. CASE AcceptFails(s) \/ LoopFails(s) \/ LoopRemoves(s)
        BY <2>2 DEF AcceptFails, LoopFails, LoopRemoves
  <2>3. CASE LoopCloses(s) \/ AbortLands(s)
        BY <2>3 DEF LoopCloses, AbortLands, LoopEnds
  <2>4. QED BY <1>4, <2>1, <2>2, <2>3 DEF LoopStep
<1>5. ASSUME NEW s \in Sids, ForwardStarts(s) \/ ForwardEnds(s) \/ SessionLost(s) PROVE FlatOK'
      BY <1>5 DEF ForwardStarts, ForwardEnds, SessionLost
<1>6. ASSUME NEW r \in Rules, ApplyStarted(r) \/ ApplyFinished(r) PROVE FlatOK'
      BY <1>6 DEF ApplyStarted, ApplyFinished, Incremented, Decremented
<1>7. CASE UNCHANGED vars
      BY <1>7 DEF vars
<1>8. QED BY <1>1, <1>2, <1>3, <1>4, <1>5, <1>6, <1>7 DEF Next

LEMMA TypeStep == TypeInv /\ [Next]_vars => TypeInv'
<1>1. TypeInv => TypeOK
      BY DEF TypeInv, TypeOK, TodoOK, AbortedOK, HistoryOK, FlatOK
<1>2. QED BY <1>1, TodoStep, AbortedStep, HistoryStep, FlatStep DEF TypeInv

LEMMA TypeInvInit == Init => TypeInv
BY TunnelAssumption, LabelsAre DEF Init, TypeInv, TodoOK, AbortedOK, HistoryOK, FlatOK, Kinds, Statuses, LoopStates

\* Every variable keeps its type for any rules, tasks and runtimes; active_connections in
\* particular never wraps below zero (decrement_active_connections).
THEOREM TypeCorrect == Spec => []TypeOK
<1>1. TypeInv => TypeOK
      BY DEF TypeInv, TypeOK, TodoOK, AbortedOK, HistoryOK, FlatOK
<1>2. QED BY <1>1, TypeInvInit, TypeStep, PTL DEF Spec

-----------------------------------------------------------------------------
(* Who holds a runtime.                                                    *)

LEMMA TaskStep == TypeInv /\ RuntimeInv /\ [Next]_vars => TaskInv'
<1> SUFFICES ASSUME TypeInv, RuntimeInv, [Next]_vars PROVE TaskInv'
    OBVIOUS
<1> USE TunnelAssumption DEF TypeInv, FlatOK, ruleVars, sidVars, eventVars, dataVars, taskVars, Goto, set_state, Return,
        RuntimeInv, TaskInv, Kinds, StartSteps, OtherSteps
<1>1. ASSUME NEW t \in Tasks, NEW r \in Rules, BeginStart(t, r) PROVE TaskInv'
      BY <1>1 DEF BeginStart, Begin, Unused
<1>2. ASSUME NEW t \in Tasks, NEW r \in Rules, BeginStop(t, r) PROVE TaskInv'
      BY <1>2 DEF BeginStop, Begin
<1>3. ASSUME NEW t \in Tasks, NEW r \in Rules, BeginDelete(t, r) PROVE TaskInv'
      BY <1>3 DEF BeginDelete, Begin
<1>4. ASSUME NEW t \in Tasks, NEW r \in Rules, BeginStopConnection(t, r) PROVE TaskInv'
      BY <1>4 DEF BeginStopConnection
<1>5. ASSUME NEW t \in Tasks, NEW r \in Rules, BeginUpsert(t, r) PROVE TaskInv'
      BY <1>5 DEF BeginUpsert, Begin
<1>6. ASSUME NEW t \in Tasks, Load(t) PROVE TaskInv'
      BY <1>6 DEF Load
<1>7. ASSUME NEW t \in Tasks, Reload(t) PROVE TaskInv'
      BY <1>7 DEF Reload
<1>8. ASSUME NEW t \in Tasks, LoadStopped(t) PROVE TaskInv'
      BY <1>8 DEF LoadStopped
<1>9. ASSUME NEW t \in Tasks, Erase(t) PROVE TaskInv'
      BY <1>9 DEF Erase
<1>10. ASSUME NEW t \in Tasks, ListRules(t) PROVE TaskInv'
      BY <1>10 DEF ListRules
<1>11. ASSUME NEW t \in Tasks, Save(t) PROVE TaskInv'
      BY <1>11 DEF Save
<1>12. ASSUME NEW t \in Tasks, Check(t) PROVE TaskInv'
      BY <1>12 DEF Check
<1>13. ASSUME NEW t \in Tasks, CheckStatus(t) PROVE TaskInv'
      BY <1>13 DEF CheckStatus
<1>14. ASSUME NEW t \in Tasks, SetStarting(t) PROVE TaskInv'
      BY <1>14 DEF SetStarting
<1>15. ASSUME NEW t \in Tasks, Resolve(t) PROVE TaskInv'
      BY <1>15 DEF Resolve
<1>16. ASSUME NEW t \in Tasks, Bind(t) PROVE TaskInv'
      BY <1>16 DEF Bind
<1>17. ASSUME NEW t \in Tasks, Connect(t) PROVE TaskInv'
      BY <1>17 DEF Connect, DropListener, AbortsLanded
<1>18. ASSUME NEW t \in Tasks, Recheck(t) PROVE TaskInv'
      BY <1>18 DEF Recheck
<1>19. ASSUME NEW t \in Tasks, Request(t) PROVE TaskInv'
      BY <1>19 DEF Request
<1>20. ASSUME NEW t \in Tasks, Publish(t) PROVE TaskInv'
      BY <1>20 DEF Publish
<1>21. ASSUME NEW t \in Tasks, Insert(t) PROVE TaskInv'
      BY <1>21 DEF Insert, DropEntry, CloseRemote
<1>22. ASSUME NEW t \in Tasks, DiscardGone(t) PROVE TaskInv'
      BY <1>22 DEF DiscardGone, CloseNew
<1>23. ASSUME NEW t \in Tasks, DiscardSurplus(t) PROVE TaskInv'
      BY <1>23 DEF DiscardSurplus, CloseNew, DropListener
<1>24. ASSUME NEW t \in Tasks, DiscardRefused(t) PROVE TaskInv'
      BY <1>24 DEF DiscardRefused, CloseNew
<1>25. ASSUME NEW t \in Tasks, Forget(t) PROVE TaskInv'
      BY <1>25 DEF Forget, DropListener
<1>26. ASSUME NEW t \in Tasks, Fail(t) PROVE TaskInv'
      BY <1>26 DEF Fail
<1>27. ASSUME NEW t \in Tasks, Remove(t) PROVE TaskInv'
      BY <1>27, SMTT(30) DEF Remove, AfterStop, Abort, HolderInv
<1>28. ASSUME NEW t \in Tasks, Close(t) PROVE TaskInv'
      BY <1>28 DEF Close, CloseRemote, AfterStop
<1>29. ASSUME NEW t \in Tasks, SetStopped(t) PROVE TaskInv'
      BY <1>29 DEF SetStopped
<1>30. ASSUME NEW t \in Tasks, EraseState(t) PROVE TaskInv'
      BY <1>30 DEF EraseState
<1>31. ASSUME NEW t \in Tasks, NextRule(t) PROVE TaskInv'
  <2>1. \A r \in todo[t] : r \in Rules
        BY DEF TodoOK
  <2>2. QED BY <1>31, <2>1 DEF NextRule
<1>32. ASSUME NEW t \in Tasks, EditCheck(t) PROVE TaskInv'
      BY <1>32 DEF EditCheck
<1>33. ASSUME NEW t \in Tasks, EditStatus(t) PROVE TaskInv'
      BY <1>33 DEF EditStatus
<1>34. ASSUME NEW s \in Sids, AcceptFails(s) PROVE TaskInv'
      BY <1>34 DEF AcceptFails
<1>35. ASSUME NEW s \in Sids, LoopFails(s) PROVE TaskInv'
      BY <1>35 DEF LoopFails
<1>36. ASSUME NEW s \in Sids, LoopRemoves(s) PROVE TaskInv'
      BY <1>36 DEF LoopRemoves
<1>37. ASSUME NEW s \in Sids, LoopCloses(s) PROVE TaskInv'
      BY <1>37 DEF LoopCloses, LoopEnds
<1>38. ASSUME NEW s \in Sids, AbortLands(s) PROVE TaskInv'
      BY <1>38 DEF AbortLands, LoopEnds
<1>39. ASSUME NEW s \in Sids, SessionLost(s) PROVE TaskInv'
      BY <1>39 DEF SessionLost, IsRemote
<1>40. ASSUME UNCHANGED <<running, of, sess, port, loop, aborted, taskVars>>
      PROVE  TaskInv'
      BY <1>40 DEF TaskInv
<1> HIDE DEF RuntimeInv, TaskInv, TypeInv, FlatOK
<1>41. QED
      BY <1>1, <1>2, <1>3, <1>4, <1>5, <1>6, <1>7, <1>8, <1>9, <1>10, <1>11, <1>12, <1>13, <1>14,
         <1>15, <1>16, <1>17, <1>18, <1>19, <1>20, <1>21, <1>22, <1>23, <1>24, <1>25, <1>26, <1>27, <1>28,
         <1>29, <1>30, <1>31, <1>32, <1>33, <1>34, <1>35, <1>36, <1>37, <1>38, <1>39, <1>40
      DEF Next, Command, StoreStep, Step, LoopStep, AcceptClient, ClientEnds, ForwardStarts, ForwardEnds,
          ApplyStarted, ApplyFinished, vars

LEMMA BuiltStep == TypeInv /\ RuntimeInv /\ [Next]_vars => BuiltInv'
<1> SUFFICES ASSUME TypeInv, RuntimeInv, [Next]_vars PROVE BuiltInv'
    OBVIOUS
<1> USE TunnelAssumption DEF TypeInv, FlatOK, ruleVars, sidVars, eventVars, dataVars, taskVars, Goto, set_state, Return,
        RuntimeInv, TaskInv, BuiltInv, StartSteps
<1>1. ASSUME NEW t \in Tasks, NEW r \in Rules, BeginStart(t, r) PROVE BuiltInv'
      BY <1>1 DEF BeginStart, Begin, Unused
<1>2. ASSUME NEW t \in Tasks, NEW r \in Rules, BeginStop(t, r) PROVE BuiltInv'
      BY <1>2 DEF BeginStop, Begin
<1>3. ASSUME NEW t \in Tasks, NEW r \in Rules, BeginDelete(t, r) PROVE BuiltInv'
      BY <1>3 DEF BeginDelete, Begin
<1>4. ASSUME NEW t \in Tasks, NEW r \in Rules, BeginStopConnection(t, r) PROVE BuiltInv'
      BY <1>4 DEF BeginStopConnection
<1>5. ASSUME NEW t \in Tasks, NEW r \in Rules, BeginUpsert(t, r) PROVE BuiltInv'
      BY <1>5 DEF BeginUpsert, Begin
<1>6. ASSUME NEW t \in Tasks, Load(t) PROVE BuiltInv'
      BY <1>6 DEF Load
<1>7. ASSUME NEW t \in Tasks, Reload(t) PROVE BuiltInv'
      BY <1>7 DEF Reload
<1>8. ASSUME NEW t \in Tasks, LoadStopped(t) PROVE BuiltInv'
      BY <1>8 DEF LoadStopped
<1>9. ASSUME NEW t \in Tasks, Erase(t) PROVE BuiltInv'
      BY <1>9 DEF Erase
<1>10. ASSUME NEW t \in Tasks, ListRules(t) PROVE BuiltInv'
      BY <1>10 DEF ListRules
<1>11. ASSUME NEW t \in Tasks, Save(t) PROVE BuiltInv'
      BY <1>11 DEF Save
<1>12. ASSUME NEW t \in Tasks, Check(t) PROVE BuiltInv'
      BY <1>12 DEF Check
<1>13. ASSUME NEW t \in Tasks, CheckStatus(t) PROVE BuiltInv'
      BY <1>13 DEF CheckStatus
<1>14. ASSUME NEW t \in Tasks, SetStarting(t) PROVE BuiltInv'
      BY <1>14 DEF SetStarting
<1>15. ASSUME NEW t \in Tasks, Resolve(t) PROVE BuiltInv'
      BY <1>15 DEF Resolve
<1>16. ASSUME NEW t \in Tasks, Bind(t) PROVE BuiltInv'
      BY <1>16 DEF Bind
<1>17. ASSUME NEW t \in Tasks, Connect(t) PROVE BuiltInv'
      BY <1>17 DEF Connect, DropListener, AbortsLanded
<1>18. ASSUME NEW t \in Tasks, Recheck(t) PROVE BuiltInv'
      BY <1>18 DEF Recheck
<1>19. ASSUME NEW t \in Tasks, Request(t) PROVE BuiltInv'
      BY <1>19 DEF Request
<1>20. ASSUME NEW t \in Tasks, Publish(t) PROVE BuiltInv'
      BY <1>20 DEF Publish
<1>21. ASSUME NEW t \in Tasks, Insert(t) PROVE BuiltInv'
      BY <1>21 DEF Insert, DropEntry, CloseRemote
<1>22. ASSUME NEW t \in Tasks, DiscardGone(t) PROVE BuiltInv'
      BY <1>22 DEF DiscardGone, CloseNew
<1>23. ASSUME NEW t \in Tasks, DiscardSurplus(t) PROVE BuiltInv'
      BY <1>23 DEF DiscardSurplus, CloseNew, DropListener
<1>24. ASSUME NEW t \in Tasks, DiscardRefused(t) PROVE BuiltInv'
      BY <1>24 DEF DiscardRefused, CloseNew
<1>25. ASSUME NEW t \in Tasks, Forget(t) PROVE BuiltInv'
      BY <1>25 DEF Forget, DropListener
<1>26. ASSUME NEW t \in Tasks, Fail(t) PROVE BuiltInv'
      BY <1>26 DEF Fail
<1>27. ASSUME NEW t \in Tasks, Remove(t) PROVE BuiltInv'
      BY <1>27 DEF Remove, AfterStop, Abort
<1>28. ASSUME NEW t \in Tasks, Close(t) PROVE BuiltInv'
      BY <1>28 DEF Close, CloseRemote, AfterStop
<1>29. ASSUME NEW t \in Tasks, SetStopped(t) PROVE BuiltInv'
      BY <1>29 DEF SetStopped
<1>30. ASSUME NEW t \in Tasks, EraseState(t) PROVE BuiltInv'
      BY <1>30 DEF EraseState
<1>31. ASSUME NEW t \in Tasks, NextRule(t) PROVE BuiltInv'
      BY <1>31 DEF NextRule, TodoOK
<1>32. ASSUME NEW t \in Tasks, EditCheck(t) PROVE BuiltInv'
      BY <1>32 DEF EditCheck
<1>33. ASSUME NEW t \in Tasks, EditStatus(t) PROVE BuiltInv'
      BY <1>33 DEF EditStatus
<1>34. ASSUME NEW s \in Sids, AcceptFails(s) PROVE BuiltInv'
      BY <1>34 DEF AcceptFails
<1>35. ASSUME NEW s \in Sids, LoopFails(s) PROVE BuiltInv'
      BY <1>35 DEF LoopFails
<1>36. ASSUME NEW s \in Sids, LoopRemoves(s) PROVE BuiltInv'
      BY <1>36 DEF LoopRemoves
<1>37. ASSUME NEW s \in Sids, LoopCloses(s) PROVE BuiltInv'
      BY <1>37 DEF LoopCloses, LoopEnds
<1>38. ASSUME NEW s \in Sids, AbortLands(s) PROVE BuiltInv'
      BY <1>38 DEF AbortLands, LoopEnds
<1>39. ASSUME NEW s \in Sids, SessionLost(s) PROVE BuiltInv'
      BY <1>39 DEF SessionLost, IsRemote
<1>40. ASSUME UNCHANGED <<running, of, sess, port, loop, aborted, taskVars>>
      PROVE  BuiltInv'
      BY <1>40 DEF BuiltInv
<1> HIDE DEF RuntimeInv, TaskInv, BuiltInv, TypeInv, FlatOK
<1>41. QED
      BY <1>1, <1>2, <1>3, <1>4, <1>5, <1>6, <1>7, <1>8, <1>9, <1>10, <1>11, <1>12, <1>13, <1>14,
         <1>15, <1>16, <1>17, <1>18, <1>19, <1>20, <1>21, <1>22, <1>23, <1>24, <1>25, <1>26, <1>27, <1>28,
         <1>29, <1>30, <1>31, <1>32, <1>33, <1>34, <1>35, <1>36, <1>37, <1>38, <1>39, <1>40
      DEF Next, Command, StoreStep, Step, LoopStep, AcceptClient, ClientEnds, ForwardStarts, ForwardEnds,
          ApplyStarted, ApplyFinished, vars

LEMMA StageStep == TypeInv /\ RuntimeInv /\ [Next]_vars => StageInv'
<1> SUFFICES ASSUME TypeInv, RuntimeInv, [Next]_vars PROVE StageInv'
    OBVIOUS
<1> USE TunnelAssumption DEF TypeInv, FlatOK, ruleVars, sidVars, eventVars, dataVars, taskVars, Goto, set_state, Return,
        RuntimeInv, TaskInv, BuiltInv, StageInv, Dialled, StartSteps
<1>1. ASSUME NEW t \in Tasks, NEW r \in Rules, BeginStart(t, r) PROVE StageInv'
      BY <1>1, SMTT(30) DEF BeginStart, Begin, Unused, AbortedOK, HolderInv
<1>2. ASSUME NEW t \in Tasks, NEW r \in Rules, BeginStop(t, r) PROVE StageInv'
      BY <1>2 DEF BeginStop, Begin
<1>3. ASSUME NEW t \in Tasks, NEW r \in Rules, BeginDelete(t, r) PROVE StageInv'
      BY <1>3 DEF BeginDelete, Begin
<1>4. ASSUME NEW t \in Tasks, NEW r \in Rules, BeginStopConnection(t, r) PROVE StageInv'
      BY <1>4 DEF BeginStopConnection
<1>5. ASSUME NEW t \in Tasks, NEW r \in Rules, BeginUpsert(t, r) PROVE StageInv'
      BY <1>5 DEF BeginUpsert, Begin
<1>6. ASSUME NEW t \in Tasks, Load(t) PROVE StageInv'
      BY <1>6 DEF Load
<1>7. ASSUME NEW t \in Tasks, Reload(t) PROVE StageInv'
      BY <1>7 DEF Reload
<1>8. ASSUME NEW t \in Tasks, LoadStopped(t) PROVE StageInv'
      BY <1>8 DEF LoadStopped
<1>9. ASSUME NEW t \in Tasks, Erase(t) PROVE StageInv'
      BY <1>9 DEF Erase
<1>10. ASSUME NEW t \in Tasks, ListRules(t) PROVE StageInv'
      BY <1>10 DEF ListRules
<1>11. ASSUME NEW t \in Tasks, Save(t) PROVE StageInv'
      BY <1>11 DEF Save
<1>12. ASSUME NEW t \in Tasks, Check(t) PROVE StageInv'
      BY <1>12 DEF Check
<1>13. ASSUME NEW t \in Tasks, CheckStatus(t) PROVE StageInv'
      BY <1>13 DEF CheckStatus
<1>14. ASSUME NEW t \in Tasks, SetStarting(t) PROVE StageInv'
      BY <1>14 DEF SetStarting
<1>15. ASSUME NEW t \in Tasks, Resolve(t) PROVE StageInv'
      BY <1>15 DEF Resolve
<1>16. ASSUME NEW t \in Tasks, Bind(t) PROVE StageInv'
      BY <1>16, SMTT(30) DEF Bind
<1>17. ASSUME NEW t \in Tasks, Connect(t) PROVE StageInv'
      BY <1>17 DEF Connect, DropListener, AbortsLanded
<1>18. ASSUME NEW t \in Tasks, Recheck(t) PROVE StageInv'
      BY <1>18 DEF Recheck
<1>19. ASSUME NEW t \in Tasks, Request(t) PROVE StageInv'
      BY <1>19 DEF Request
<1>20. ASSUME NEW t \in Tasks, Publish(t) PROVE StageInv'
      BY <1>20 DEF Publish
<1>21. ASSUME NEW t \in Tasks, Insert(t) PROVE StageInv'
      BY <1>21 DEF Insert, DropEntry, CloseRemote
<1>22. ASSUME NEW t \in Tasks, DiscardGone(t) PROVE StageInv'
      BY <1>22 DEF DiscardGone, CloseNew
<1>23. ASSUME NEW t \in Tasks, DiscardSurplus(t) PROVE StageInv'
      BY <1>23 DEF DiscardSurplus, CloseNew, DropListener
<1>24. ASSUME NEW t \in Tasks, DiscardRefused(t) PROVE StageInv'
      BY <1>24 DEF DiscardRefused, CloseNew
<1>25. ASSUME NEW t \in Tasks, Forget(t) PROVE StageInv'
      BY <1>25 DEF Forget, DropListener
<1>26. ASSUME NEW t \in Tasks, Fail(t) PROVE StageInv'
      BY <1>26 DEF Fail
<1>27. ASSUME NEW t \in Tasks, Remove(t) PROVE StageInv'
      BY <1>27, SMTT(30) DEF Remove, AfterStop, Abort, AbortedOK
<1>28. ASSUME NEW t \in Tasks, Close(t) PROVE StageInv'
      BY <1>28 DEF Close, CloseRemote, AfterStop
<1>29. ASSUME NEW t \in Tasks, SetStopped(t) PROVE StageInv'
      BY <1>29 DEF SetStopped
<1>30. ASSUME NEW t \in Tasks, EraseState(t) PROVE StageInv'
      BY <1>30 DEF EraseState
<1>31. ASSUME NEW t \in Tasks, NextRule(t) PROVE StageInv'
      BY <1>31 DEF NextRule, TodoOK
<1>32. ASSUME NEW t \in Tasks, EditCheck(t) PROVE StageInv'
      BY <1>32 DEF EditCheck
<1>33. ASSUME NEW t \in Tasks, EditStatus(t) PROVE StageInv'
      BY <1>33 DEF EditStatus
<1>34. ASSUME NEW s \in Sids, AcceptFails(s) PROVE StageInv'
      BY <1>34 DEF AcceptFails
<1>35. ASSUME NEW s \in Sids, LoopFails(s) PROVE StageInv'
      BY <1>35 DEF LoopFails
<1>36. ASSUME NEW s \in Sids, LoopRemoves(s) PROVE StageInv'
      BY <1>36 DEF LoopRemoves
<1>37. ASSUME NEW s \in Sids, LoopCloses(s) PROVE StageInv'
      BY <1>37, SMTT(30) DEF LoopCloses, LoopEnds, AbortedOK, HolderInv, IsRemote
<1>38. ASSUME NEW s \in Sids, AbortLands(s) PROVE StageInv'
      BY <1>38 DEF AbortLands, LoopEnds
<1>39. ASSUME NEW s \in Sids, SessionLost(s) PROVE StageInv'
      BY <1>39 DEF SessionLost, IsRemote
<1>40. ASSUME UNCHANGED <<running, of, sess, port, loop, aborted, taskVars>>
      PROVE  StageInv'
      BY <1>40 DEF StageInv
<1> HIDE DEF RuntimeInv, TaskInv, BuiltInv, StageInv, TypeInv, FlatOK
<1>41. QED
      BY <1>1, <1>2, <1>3, <1>4, <1>5, <1>6, <1>7, <1>8, <1>9, <1>10, <1>11, <1>12, <1>13, <1>14,
         <1>15, <1>16, <1>17, <1>18, <1>19, <1>20, <1>21, <1>22, <1>23, <1>24, <1>25, <1>26, <1>27, <1>28,
         <1>29, <1>30, <1>31, <1>32, <1>33, <1>34, <1>35, <1>36, <1>37, <1>38, <1>39, <1>40
      DEF Next, Command, StoreStep, Step, LoopStep, AcceptClient, ClientEnds, ForwardStarts, ForwardEnds,
          ApplyStarted, ApplyFinished, vars

LEMMA HolderStep == TypeInv /\ RuntimeInv /\ [Next]_vars => HolderInv'
<1> SUFFICES ASSUME TypeInv, RuntimeInv, [Next]_vars PROVE HolderInv'
    OBVIOUS
<1> USE TunnelAssumption DEF TypeInv, FlatOK, ruleVars, sidVars, eventVars, dataVars, taskVars, Goto, set_state, Return,
        RuntimeInv, TaskInv, BuiltInv, StageInv, HolderInv, BeingClosed, Built, IsRemote, Dialled, StartSteps
<1>1. ASSUME NEW t \in Tasks, NEW r \in Rules, BeginStart(t, r) PROVE HolderInv'
      BY <1>1, SMTT(30) DEF BeginStart, Begin, Unused
<1>2. ASSUME NEW t \in Tasks, NEW r \in Rules, BeginStop(t, r) PROVE HolderInv'
      BY <1>2, SMTT(30) DEF BeginStop, Begin
<1>3. ASSUME NEW t \in Tasks, NEW r \in Rules, BeginDelete(t, r) PROVE HolderInv'
      BY <1>3, SMTT(30) DEF BeginDelete, Begin
<1>4. ASSUME NEW t \in Tasks, NEW r \in Rules, BeginStopConnection(t, r) PROVE HolderInv'
      BY <1>4, SMTT(30) DEF BeginStopConnection
<1>5. ASSUME NEW t \in Tasks, NEW r \in Rules, BeginUpsert(t, r) PROVE HolderInv'
      BY <1>5, SMTT(30) DEF BeginUpsert, Begin
<1>6. ASSUME NEW t \in Tasks, Load(t) PROVE HolderInv'
      BY <1>6, SMTT(30) DEF Load
<1>7. ASSUME NEW t \in Tasks, Reload(t) PROVE HolderInv'
      BY <1>7, SMTT(30) DEF Reload
<1>8. ASSUME NEW t \in Tasks, LoadStopped(t) PROVE HolderInv'
      BY <1>8, SMTT(30) DEF LoadStopped
<1>9. ASSUME NEW t \in Tasks, Erase(t) PROVE HolderInv'
      BY <1>9, SMTT(30) DEF Erase
<1>10. ASSUME NEW t \in Tasks, ListRules(t) PROVE HolderInv'
      BY <1>10, SMTT(30) DEF ListRules
<1>11. ASSUME NEW t \in Tasks, Save(t) PROVE HolderInv'
      BY <1>11, SMTT(30) DEF Save
<1>12. ASSUME NEW t \in Tasks, Check(t) PROVE HolderInv'
      BY <1>12, SMTT(30) DEF Check
<1>13. ASSUME NEW t \in Tasks, CheckStatus(t) PROVE HolderInv'
      BY <1>13, SMTT(30) DEF CheckStatus
<1>14. ASSUME NEW t \in Tasks, SetStarting(t) PROVE HolderInv'
      BY <1>14, SMTT(30) DEF SetStarting
<1>15. ASSUME NEW t \in Tasks, Resolve(t) PROVE HolderInv'
      BY <1>15, SMTT(60) DEF Resolve
<1>16. ASSUME NEW t \in Tasks, Bind(t) PROVE HolderInv'
      BY <1>16, SMTT(30) DEF Bind
<1>17. ASSUME NEW t \in Tasks, Connect(t) PROVE HolderInv'
      BY <1>17, SMTT(30) DEF Connect, DropListener, AbortsLanded
<1>18. ASSUME NEW t \in Tasks, Recheck(t) PROVE HolderInv'
      BY <1>18, SMTT(30) DEF Recheck
<1>19. ASSUME NEW t \in Tasks, Request(t) PROVE HolderInv'
      BY <1>19, SMTT(30) DEF Request
<1>20. ASSUME NEW t \in Tasks, Publish(t) PROVE HolderInv'
      BY <1>20, SMTT(30) DEF Publish
<1>21. ASSUME NEW t \in Tasks, Insert(t) PROVE HolderInv'
      BY <1>21, SMTT(60) DEF Insert, DropEntry, CloseRemote
<1>22. ASSUME NEW t \in Tasks, DiscardGone(t) PROVE HolderInv'
      BY <1>22, SMTT(30) DEF DiscardGone, CloseNew
<1>23. ASSUME NEW t \in Tasks, DiscardSurplus(t) PROVE HolderInv'
      BY <1>23, SMTT(30) DEF DiscardSurplus, CloseNew, DropListener
<1>24. ASSUME NEW t \in Tasks, DiscardRefused(t) PROVE HolderInv'
      BY <1>24, SMTT(30) DEF DiscardRefused, CloseNew
<1>25. ASSUME NEW t \in Tasks, Forget(t) PROVE HolderInv'
      BY <1>25, SMTT(30) DEF Forget, DropListener
<1>26. ASSUME NEW t \in Tasks, Fail(t) PROVE HolderInv'
      BY <1>26, SMTT(30) DEF Fail
<1>27. ASSUME NEW t \in Tasks, Remove(t) PROVE HolderInv'
      BY <1>27, SMTT(30) DEF Remove, AfterStop, Abort, AbortedOK
<1>28. ASSUME NEW t \in Tasks, Close(t) PROVE HolderInv'
      BY <1>28, SMTT(30) DEF Close, CloseRemote, AfterStop
<1>29. ASSUME NEW t \in Tasks, SetStopped(t) PROVE HolderInv'
      BY <1>29, SMTT(30) DEF SetStopped
<1>30. ASSUME NEW t \in Tasks, EraseState(t) PROVE HolderInv'
      BY <1>30, SMTT(30) DEF EraseState
<1>31. ASSUME NEW t \in Tasks, NextRule(t) PROVE HolderInv'
      BY <1>31, SMTT(30) DEF NextRule, TodoOK
<1>32. ASSUME NEW t \in Tasks, EditCheck(t) PROVE HolderInv'
      BY <1>32, SMTT(60) DEF EditCheck
<1>33. ASSUME NEW t \in Tasks, EditStatus(t) PROVE HolderInv'
      BY <1>33, SMTT(30) DEF EditStatus
<1>34. ASSUME NEW s \in Sids, AcceptFails(s) PROVE HolderInv'
      BY <1>34, SMTT(30) DEF AcceptFails
<1>35. ASSUME NEW s \in Sids, LoopFails(s) PROVE HolderInv'
      BY <1>35, SMTT(30) DEF LoopFails
<1>36. ASSUME NEW s \in Sids, LoopRemoves(s) PROVE HolderInv'
      BY <1>36, SMTT(30) DEF LoopRemoves
<1>37. ASSUME NEW s \in Sids, LoopCloses(s) PROVE HolderInv'
      BY <1>37, SMTT(30) DEF LoopCloses, LoopEnds, AbortedOK
<1>38. ASSUME NEW s \in Sids, AbortLands(s) PROVE HolderInv'
      BY <1>38, SMTT(30) DEF AbortLands, LoopEnds, AbortedOK
<1>39. ASSUME NEW s \in Sids, SessionLost(s) PROVE HolderInv'
      BY <1>39, SMTT(30) DEF SessionLost, IsRemote
<1>40. ASSUME UNCHANGED <<running, of, sess, port, loop, aborted, taskVars>>
      PROVE  HolderInv'
      BY <1>40 DEF HolderInv
<1> HIDE DEF RuntimeInv, TaskInv, BuiltInv, StageInv, HolderInv, TypeInv, FlatOK
<1>41. QED
      BY <1>1, <1>2, <1>3, <1>4, <1>5, <1>6, <1>7, <1>8, <1>9, <1>10, <1>11, <1>12, <1>13, <1>14,
         <1>15, <1>16, <1>17, <1>18, <1>19, <1>20, <1>21, <1>22, <1>23, <1>24, <1>25, <1>26, <1>27, <1>28,
         <1>29, <1>30, <1>31, <1>32, <1>33, <1>34, <1>35, <1>36, <1>37, <1>38, <1>39, <1>40
      DEF Next, Command, StoreStep, Step, LoopStep, AcceptClient, ClientEnds, ForwardStarts, ForwardEnds,
          ApplyStarted, ApplyFinished, vars

LEMMA RuntimeInit == Init => RuntimeInv
BY TunnelAssumption DEF Init, RuntimeInv, TaskInv, BuiltInv, StageInv, HolderInv, StartSteps, OtherSteps

LEMMA RuntimeAlways == Spec => [](TypeInv /\ RuntimeInv)
<1>1. Init => TypeInv /\ RuntimeInv
      BY TypeInvInit, RuntimeInit
<1>2. TypeInv /\ RuntimeInv /\ [Next]_vars => TypeInv' /\ RuntimeInv'
      BY TypeStep, TaskStep, BuiltStep, StageStep, HolderStep DEF RuntimeInv
<1>3. QED BY <1>1, <1>2, PTL DEF Spec

\* However many commands overlap, no SSH session and no port is left without somebody who will
\* close it: a command, the map of running tunnels or an accept loop (stop_running, start_rule).
THEOREM EveryRuntimeIsOwned == Spec => []RuntimeIsOwned
<1>1. TypeInv /\ RuntimeInv => RuntimeIsOwned
  <2> SUFFICES ASSUME TypeInv, RuntimeInv, NEW s \in Sids, sess[s] = "open" \/ port[s] # None
               PROVE  \/ \E t \in Tasks : pc[t] # "idle" /\ (new[t] = s \/ old[t] = s)
                      \/ \E r \in Rules : running[r] = s
                      \/ loop[s] # "none"
      BY DEF RuntimeIsOwned
  <2>1. CASE Built(s)
        BY <2>1, TunnelAssumption DEF Built, RuntimeInv, TaskInv
  <2>2. CASE ~Built(s)
        BY <2>2 DEF RuntimeInv, HolderInv, BeingClosed
  <2>3. QED BY <2>1, <2>2
<1>2. QED BY <1>1, RuntimeAlways, PTL

-----------------------------------------------------------------------------
(* What holds of a rule on which no two commands worked at the same time.  *)

LEMMA FlagSet ==
    ASSUME NEW S, NEW f \in [S -> BOOLEAN], NEW x \in S, NEW b \in BOOLEAN
    PROVE  [f EXCEPT ![x] = b][x] = b
OBVIOUS

\* What a step adds to the history.
Recorded ==
    /\ \A r \in crossed : r \in crossed'
    /\ \A r \in Rules : r \in cut /\ status'[r] = "running" => r \in cut'
    /\ \A t \in Tasks : rule[t] \in Rules /\ CutShort(t) /\ status'[rule[t]] = "running" => rule[t] \in cut'

LEMMA HistoryIsKept == [Next]_vars => Recorded
<1>1. Remember => Recorded
      BY DEF Remember, Recorded
<1>2. UNCHANGED vars => Recorded
      BY DEF vars, historyVars, ruleVars, taskVars, Recorded, CutShort
<1>3. QED BY <1>1, <1>2 DEF Next

LEMMA SoleStep == SoleInv /\ [Next]_vars => SoleInv'
<1>1. Remember => SoleInv'
      BY DEF Remember, SoleInv
<1>2. SoleInv /\ UNCHANGED vars => SoleInv'
      BY DEF vars, historyVars, taskVars, dataVars, SoleInv, Works
<1>3. QED BY <1>1, <1>2 DEF Next

LEMMA AloneStep == TypeInv /\ RuntimeInv /\ SoleInv /\ AloneInv /\ [Next]_vars => AloneInv'
<1> SUFFICES ASSUME TypeInv, RuntimeInv, SoleInv, AloneInv, [Next]_vars PROVE AloneInv'
    OBVIOUS
<1>0. \A r \in crossed : r \in crossed'
      BY HistoryIsKept DEF Recorded
<1> USE TunnelAssumption, <1>0 DEF TypeInv, FlatOK, ruleVars, sidVars, eventVars, dataVars, taskVars, Goto, set_state, Return,
        RuntimeInv, TaskInv, BuiltInv, StageInv, HolderInv, SoleInv, AloneInv, AloneTask, AloneLoop, LoopAlone, AloneRule, Works, Up, Unsettled, Built, IsRemote, Cleared, Dialled, Undoing, StartSteps, OtherSteps
<1>1. ASSUME NEW t \in Tasks, NEW r \in Rules, BeginStart(t, r) PROVE AloneInv'
      BY <1>1, SMTT(30) DEF BeginStart, Begin, Unused
<1>2. ASSUME NEW t \in Tasks, NEW r \in Rules, BeginStop(t, r) PROVE AloneInv'
      BY <1>2, SMTT(30) DEF BeginStop, Begin
<1>3. ASSUME NEW t \in Tasks, NEW r \in Rules, BeginDelete(t, r) PROVE AloneInv'
      BY <1>3, SMTT(30) DEF BeginDelete, Begin
<1>4. ASSUME NEW t \in Tasks, NEW r \in Rules, BeginStopConnection(t, r) PROVE AloneInv'
      BY <1>4, SMTT(30) DEF BeginStopConnection
<1>5. ASSUME NEW t \in Tasks, NEW r \in Rules, BeginUpsert(t, r) PROVE AloneInv'
      BY <1>5, SMTT(30) DEF BeginUpsert, Begin
<1>6. ASSUME NEW t \in Tasks, Load(t) PROVE AloneInv'
  <2>1. AloneTask'
        BY <1>6, SMTT(30) DEF Load
  <2>2. AloneLoop'
        BY <1>6, SMTT(30) DEF Load
  <2>3. AloneRule'
        BY <1>6, SMTT(30) DEF Load
  <2>4. QED BY <2>1, <2>2, <2>3
<1>7. ASSUME NEW t \in Tasks, Reload(t) PROVE AloneInv'
      BY <1>7, SMTT(30) DEF Reload
<1>8. ASSUME NEW t \in Tasks, LoadStopped(t) PROVE AloneInv'
  <2>1. AloneTask'
        BY <1>8, SMTT(30) DEF LoadStopped
  <2>2. AloneLoop'
        BY <1>8, SMTT(30) DEF LoadStopped
  <2>3. AloneRule'
        BY <1>8, SMTT(30) DEF LoadStopped
  <2>4. QED BY <2>1, <2>2, <2>3
<1>9. ASSUME NEW t \in Tasks, Erase(t) PROVE AloneInv'
      BY <1>9, SMTT(30) DEF Erase
<1>10. ASSUME NEW t \in Tasks, ListRules(t) PROVE AloneInv'
  <2>1. AloneTask'
        BY <1>10, SMTT(30) DEF ListRules
  <2>2. AloneLoop'
        BY <1>10, SMTT(30) DEF ListRules
  <2>3. AloneRule'
        BY <1>10, SMTT(30) DEF ListRules
  <2>4. QED BY <2>1, <2>2, <2>3
<1>11. ASSUME NEW t \in Tasks, Save(t) PROVE AloneInv'
      BY <1>11, SMTT(30) DEF Save
<1>12. ASSUME NEW t \in Tasks, Check(t) PROVE AloneInv'
      BY <1>12, SMTT(30) DEF Check
<1>13. ASSUME NEW t \in Tasks, CheckStatus(t) PROVE AloneInv'
  <2>1. AloneTask'
        BY <1>13, SMTT(30) DEF CheckStatus
  <2>2. AloneLoop'
        BY <1>13, SMTT(30) DEF CheckStatus
  <2>3. AloneRule'
        BY <1>13, SMTT(30) DEF CheckStatus
  <2>4. QED BY <2>1, <2>2, <2>3
<1>14. ASSUME NEW t \in Tasks, SetStarting(t) PROVE AloneInv'
      BY <1>14, SMTT(30) DEF SetStarting
<1>15. ASSUME NEW t \in Tasks, Resolve(t) PROVE AloneInv'
  <2>1. AloneTask'
        BY <1>15, SMTT(30) DEF Resolve
  <2>2. AloneLoop'
        BY <1>15, SMTT(30) DEF Resolve
  <2>3. AloneRule'
        BY <1>15, SMTT(30) DEF Resolve
  <2>4. QED BY <2>1, <2>2, <2>3
<1>16. ASSUME NEW t \in Tasks, Bind(t) PROVE AloneInv'
      BY <1>16, SMTT(30) DEF Bind
<1>17. ASSUME NEW t \in Tasks, Connect(t) PROVE AloneInv'
  <2>1. AloneTask'
        BY <1>17, SMTT(30) DEF Connect, DropListener, AbortsLanded
  <2>2. AloneLoop'
        BY <1>17, SMTT(30) DEF Connect, DropListener, AbortsLanded
  <2>3. AloneRule'
        BY <1>17, SMTT(30) DEF Connect, DropListener, AbortsLanded
  <2>4. QED BY <2>1, <2>2, <2>3
<1>18. ASSUME NEW t \in Tasks, Recheck(t) PROVE AloneInv'
      BY <1>18, SMTT(30) DEF Recheck
<1>19. ASSUME NEW t \in Tasks, Request(t) PROVE AloneInv'
      BY <1>19, SMTT(30) DEF Request
<1>20. ASSUME NEW t \in Tasks, Publish(t) PROVE AloneInv'
      BY <1>20, SMTT(30) DEF Publish
<1>21. ASSUME NEW t \in Tasks, Insert(t) PROVE AloneInv'
      BY <1>21, SMTT(30) DEF Insert, DropEntry, CloseRemote
<1>22. ASSUME NEW t \in Tasks, DiscardGone(t) PROVE AloneInv'
      BY <1>22, SMTT(30) DEF DiscardGone, CloseNew
<1>23. ASSUME NEW t \in Tasks, DiscardSurplus(t) PROVE AloneInv'
      BY <1>23, SMTT(30) DEF DiscardSurplus, CloseNew, DropListener
<1>24. ASSUME NEW t \in Tasks, DiscardRefused(t) PROVE AloneInv'
      BY <1>24, SMTT(30) DEF DiscardRefused, CloseNew
<1>25. ASSUME NEW t \in Tasks, Forget(t) PROVE AloneInv'
      BY <1>25, SMTT(30) DEF Forget, DropListener
<1>26. ASSUME NEW t \in Tasks, Fail(t) PROVE AloneInv'
      BY <1>26, SMTT(30) DEF Fail
<1>27. ASSUME NEW t \in Tasks, Remove(t) PROVE AloneInv'
  <2>1. AloneTask'
        BY <1>27, SMTT(30) DEF Remove, AfterStop, Abort
  <2>2. AloneLoop'
    <3>1. CASE running[rule[t]] = None
          BY <1>27, <3>1, SMTT(30) DEF Remove, AfterStop
    <3>2. CASE running[rule[t]] # None
      <4>0. PICK x \in Sids : running[rule[t]] = x
            BY <1>27, <3>2 DEF Remove
      <4>1. /\ of[x] = rule[t] /\ running' = [running EXCEPT ![rule[t]] = None]
            /\ pc' = [pc EXCEPT ![t] = "close"] /\ rule[t] \in Rules
            /\ UNCHANGED <<loop, of, rule, new>>
            BY <1>27, <3>2, <4>0 DEF Remove
      <4>2. rule[t] \notin crossed => \A u \in Tasks : Works(u, rule[t]) => u = t
            BY <1>27, <4>1 DEF Remove
      <4>3. aborted' = [aborted EXCEPT ![x] = loop[x] # "none"]
            BY <1>27, <3>2, <4>0 DEF Remove, Abort
      <4>4. ASSUME NEW s \in Sids, s # x PROVE LoopAlone(s)'
            BY <1>27, <4>0, <4>1, <4>2, <4>3, <4>4, SMTT(30) DEF AbortedOK, Remove
      <4>5. LoopAlone(x)'
        <5>1. aborted'[x] = (loop[x] # "none")
              BY ONLY <4>0, <4>3, AbortedOK, FlagSet, Zenon DEF AbortedOK
        <5>2. of[x] \notin crossed =>
                /\ running'[of'[x]] = None
                /\ \A u \in Tasks : rule'[u] = of'[x] => pc'[u] \notin Dialled
              BY <4>1, <4>2
        <5>3. QED BY <4>1, <5>1, <5>2
      <4>6. QED BY <4>4, <4>5
    <3>3. QED BY <3>1, <3>2
  <2>3. AloneRule'
        BY <1>27, SMTT(30) DEF Remove, AfterStop, Abort
  <2>4. QED BY <2>1, <2>2, <2>3
<1>28. ASSUME NEW t \in Tasks, Close(t) PROVE AloneInv'
      BY <1>28, SMTT(30) DEF Close, CloseRemote, AfterStop
<1>29. ASSUME NEW t \in Tasks, SetStopped(t) PROVE AloneInv'
  <2>1. AloneTask'
        BY <1>29, SMTT(30) DEF SetStopped
  <2>2. AloneLoop'
        BY <1>29, SMTT(30) DEF SetStopped
  <2>3. AloneRule'
        BY <1>29, SMTT(30) DEF SetStopped
  <2>4. QED BY <2>1, <2>2, <2>3
<1>30. ASSUME NEW t \in Tasks, EraseState(t) PROVE AloneInv'
      BY <1>30, SMTT(30) DEF EraseState
<1>31. ASSUME NEW t \in Tasks, NextRule(t) PROVE AloneInv'
  <2>1. AloneTask'
        BY <1>31, SMTT(30) DEF NextRule
  <2>2. AloneLoop'
    <3>1. new[t] = None /\ pc'[t] \in {"idle", "remove"}
          BY <1>31 DEF NextRule
    <3>2. /\ \A u \in Tasks : u # t => pc'[u] = pc[u] /\ rule'[u] = rule[u]
          /\ UNCHANGED <<new, loop, aborted, running, of>>
          BY <1>31, <3>1 DEF NextRule
    <3>3. QED BY <3>1, <3>2
  <2>3. AloneRule'
        BY <1>31, SMTT(30) DEF NextRule
  <2>4. QED BY <2>1, <2>2, <2>3
<1>32. ASSUME NEW t \in Tasks, EditCheck(t) PROVE AloneInv'
  <2>1. AloneTask'
        BY <1>32, SMTT(30) DEF EditCheck
  <2>2. AloneLoop'
        BY <1>32, SMTT(30) DEF EditCheck
  <2>3. AloneRule'
        BY <1>32, SMTT(30) DEF EditCheck
  <2>4. QED BY <2>1, <2>2, <2>3
<1>33. ASSUME NEW t \in Tasks, EditStatus(t) PROVE AloneInv'
  <2>1. AloneTask'
        BY <1>33, SMTT(30) DEF EditStatus
  <2>2. AloneLoop'
        BY <1>33, SMTT(30) DEF EditStatus
  <2>3. AloneRule'
        BY <1>33, SMTT(30) DEF EditStatus
  <2>4. QED BY <2>1, <2>2, <2>3
<1>34. ASSUME NEW s \in Sids, AcceptFails(s) PROVE AloneInv'
      BY <1>34, SMTT(30) DEF AcceptFails
<1>35. ASSUME NEW s \in Sids, LoopFails(s) PROVE AloneInv'
      BY <1>35, SMTT(30) DEF LoopFails
<1>36. ASSUME NEW s \in Sids, LoopRemoves(s) PROVE AloneInv'
      BY <1>36, SMTT(30) DEF LoopRemoves
<1>37. ASSUME NEW s \in Sids, LoopCloses(s) PROVE AloneInv'
      BY <1>37, SMTT(30) DEF LoopCloses, LoopEnds, AbortedOK
<1>38. ASSUME NEW s \in Sids, AbortLands(s) PROVE AloneInv'
      BY <1>38, SMTT(30) DEF AbortLands, LoopEnds, AbortedOK
<1>39. ASSUME NEW s \in Sids, SessionLost(s) PROVE AloneInv'
      BY <1>39, SMTT(30) DEF SessionLost, IsRemote
<1>40. ASSUME UNCHANGED <<running, status, stored, of, sess, port, loop, aborted, taskVars>>
      PROVE  AloneInv'
      BY <1>40 DEF AloneInv, AloneTask, AloneLoop, AloneRule
<1> HIDE DEF RuntimeInv, TypeInv, FlatOK, TaskInv, BuiltInv, StageInv, HolderInv, SoleInv, AloneInv, AloneTask, AloneLoop, LoopAlone, AloneRule, Works, Up, Unsettled, Built, IsRemote, Cleared, Dialled, Undoing, StartSteps, OtherSteps
<1>41. QED
      BY <1>1, <1>2, <1>3, <1>4, <1>5, <1>6, <1>7, <1>8, <1>9, <1>10, <1>11, <1>12, <1>13, <1>14,
         <1>15, <1>16, <1>17, <1>18, <1>19, <1>20, <1>21, <1>22, <1>23, <1>24, <1>25, <1>26, <1>27, <1>28,
         <1>29, <1>30, <1>31, <1>32, <1>33, <1>34, <1>35, <1>36, <1>37, <1>38, <1>39, <1>40
      DEF Next, Command, StoreStep, Step, LoopStep, AcceptClient, ClientEnds, ForwardStarts, ForwardEnds,
          ApplyStarted, ApplyFinished, vars

LEMMA ShownTaskStep == TypeInv /\ RuntimeInv /\ SoleInv /\ AloneInv /\ ShownInv /\ [Next]_vars => ShownTask'
<1> SUFFICES ASSUME TypeInv, RuntimeInv, SoleInv, AloneInv, ShownInv, [Next]_vars PROVE ShownTask'
    OBVIOUS
<1>0. SoleInv' /\ Recorded
      BY SoleStep, HistoryIsKept
<1> USE TunnelAssumption, <1>0 DEF Recorded, ruleVars, sidVars, eventVars, dataVars, taskVars, Goto, set_state, Return,
        TypeInv, FlatOK, RuntimeInv, TaskInv, HolderInv, SoleInv, Works, ShownInv, ShownTask, StartSteps, OtherSteps, Kinds, should_replace_existing_runtime
<1>1. ASSUME NEW t \in Tasks, NEW r \in Rules, BeginStart(t, r) PROVE ShownTask'
      BY <1>1 DEF BeginStart, Begin, Unused
<1>2. ASSUME NEW t \in Tasks, NEW r \in Rules, BeginStop(t, r) PROVE ShownTask'
      BY <1>2 DEF BeginStop, Begin
<1>3. ASSUME NEW t \in Tasks, NEW r \in Rules, BeginDelete(t, r) PROVE ShownTask'
      BY <1>3 DEF BeginDelete, Begin
<1>4. ASSUME NEW t \in Tasks, NEW r \in Rules, BeginStopConnection(t, r) PROVE ShownTask'
      BY <1>4 DEF BeginStopConnection
<1>5. ASSUME NEW t \in Tasks, NEW r \in Rules, BeginUpsert(t, r) PROVE ShownTask'
      BY <1>5 DEF BeginUpsert, Begin
<1>6. ASSUME NEW t \in Tasks, Load(t) PROVE ShownTask'
      BY <1>6 DEF Load
<1>7. ASSUME NEW t \in Tasks, Reload(t) PROVE ShownTask'
      BY <1>7 DEF Reload
<1>8. ASSUME NEW t \in Tasks, LoadStopped(t) PROVE ShownTask'
      BY <1>8 DEF LoadStopped
<1>9. ASSUME NEW t \in Tasks, Erase(t) PROVE ShownTask'
      BY <1>9 DEF Erase
<1>10. ASSUME NEW t \in Tasks, ListRules(t) PROVE ShownTask'
      BY <1>10 DEF ListRules
<1>11. ASSUME NEW t \in Tasks, Save(t) PROVE ShownTask'
      BY <1>11 DEF Save
<1>12. ASSUME NEW t \in Tasks, Check(t) PROVE ShownTask'
      BY <1>12 DEF Check
<1>13. ASSUME NEW t \in Tasks, CheckStatus(t) PROVE ShownTask'
      BY <1>13 DEF CheckStatus
<1>14. ASSUME NEW t \in Tasks, SetStarting(t) PROVE ShownTask'
      BY <1>14 DEF SetStarting
<1>15. ASSUME NEW t \in Tasks, Resolve(t) PROVE ShownTask'
      BY <1>15 DEF Resolve
<1>16. ASSUME NEW t \in Tasks, Bind(t) PROVE ShownTask'
      BY <1>16 DEF Bind
<1>17. ASSUME NEW t \in Tasks, Connect(t) PROVE ShownTask'
      BY <1>17 DEF Connect, DropListener, AbortsLanded
<1>18. ASSUME NEW t \in Tasks, Recheck(t) PROVE ShownTask'
      BY <1>18 DEF Recheck
<1>19. ASSUME NEW t \in Tasks, Request(t) PROVE ShownTask'
      BY <1>19 DEF Request
<1>20. ASSUME NEW t \in Tasks, Publish(t) PROVE ShownTask'
      BY <1>20 DEF Publish
<1>21. ASSUME NEW t \in Tasks, Insert(t) PROVE ShownTask'
      BY <1>21 DEF Insert, DropEntry, CloseRemote
<1>22. ASSUME NEW t \in Tasks, DiscardGone(t) PROVE ShownTask'
      BY <1>22 DEF DiscardGone, CloseNew
<1>23. ASSUME NEW t \in Tasks, DiscardSurplus(t) PROVE ShownTask'
      BY <1>23 DEF DiscardSurplus, CloseNew, DropListener
<1>24. ASSUME NEW t \in Tasks, DiscardRefused(t) PROVE ShownTask'
      BY <1>24 DEF DiscardRefused, CloseNew
<1>25. ASSUME NEW t \in Tasks, Forget(t) PROVE ShownTask'
      BY <1>25 DEF Forget, DropListener
<1>26. ASSUME NEW t \in Tasks, Fail(t) PROVE ShownTask'
      BY <1>26 DEF Fail
<1>27. ASSUME NEW t \in Tasks, Remove(t) PROVE ShownTask'
      BY <1>27 DEF Remove, AfterStop, Abort
<1>28. ASSUME NEW t \in Tasks, Close(t) PROVE ShownTask'
      BY <1>28 DEF Close, CloseRemote, AfterStop
<1>29. ASSUME NEW t \in Tasks, SetStopped(t) PROVE ShownTask'
      BY <1>29 DEF SetStopped
<1>30. ASSUME NEW t \in Tasks, EraseState(t) PROVE ShownTask'
      BY <1>30 DEF EraseState
<1>31. ASSUME NEW t \in Tasks, NextRule(t) PROVE ShownTask'
      BY <1>31, SMTT(30) DEF NextRule
<1>32. ASSUME NEW t \in Tasks, EditCheck(t) PROVE ShownTask'
      BY <1>32 DEF EditCheck
<1>33. ASSUME NEW t \in Tasks, EditStatus(t) PROVE ShownTask'
      BY <1>33 DEF EditStatus
<1>34. ASSUME NEW s \in Sids, AcceptFails(s) PROVE ShownTask'
      BY <1>34 DEF AcceptFails
<1>35. ASSUME NEW s \in Sids, LoopFails(s) PROVE ShownTask'
      BY <1>35 DEF LoopFails
<1>36. ASSUME NEW s \in Sids, LoopRemoves(s) PROVE ShownTask'
      BY <1>36 DEF LoopRemoves
<1>37. ASSUME NEW s \in Sids, LoopCloses(s) PROVE ShownTask'
      BY <1>37 DEF LoopCloses, LoopEnds
<1>38. ASSUME NEW s \in Sids, AbortLands(s) PROVE ShownTask'
      BY <1>38 DEF AbortLands, LoopEnds
<1>39. ASSUME NEW s \in Sids, SessionLost(s) PROVE ShownTask'
      BY <1>39 DEF SessionLost, IsRemote
<1>40. ASSUME UNCHANGED <<running, status, stored, of, sess, port, loop, aborted, taskVars>>
      PROVE  ShownTask'
      BY <1>40 DEF ShownTask
<1> HIDE DEF TypeInv, FlatOK, RuntimeInv, TaskInv, HolderInv, SoleInv, Works, ShownInv, ShownTask, StartSteps, OtherSteps, Kinds, should_replace_existing_runtime
<1>41. QED
      BY <1>1, <1>2, <1>3, <1>4, <1>5, <1>6, <1>7, <1>8, <1>9, <1>10, <1>11, <1>12, <1>13, <1>14,
         <1>15, <1>16, <1>17, <1>18, <1>19, <1>20, <1>21, <1>22, <1>23, <1>24, <1>25, <1>26, <1>27, <1>28,
         <1>29, <1>30, <1>31, <1>32, <1>33, <1>34, <1>35, <1>36, <1>37, <1>38, <1>39, <1>40
      DEF Next, Command, StoreStep, Step, LoopStep, AcceptClient, ClientEnds, ForwardStarts, ForwardEnds,
          ApplyStarted, ApplyFinished, vars

LEMMA StartingStep == TypeInv /\ RuntimeInv /\ SoleInv /\ AloneInv /\ ShownInv /\ [Next]_vars => StartingInv'
<1> SUFFICES ASSUME TypeInv, RuntimeInv, SoleInv, AloneInv, ShownInv, [Next]_vars PROVE StartingInv'
    OBVIOUS
<1>0. SoleInv' /\ Recorded
      BY SoleStep, HistoryIsKept
<1> USE TunnelAssumption, <1>0 DEF Recorded, ruleVars, sidVars, eventVars, dataVars, taskVars, Goto, set_state, Return,
        TypeInv, FlatOK, AloneInv, AloneTask, ShownInv, StartingInv, Cleared, Dialled, Undoing
<1>1. ASSUME NEW t \in Tasks, NEW r \in Rules, BeginStart(t, r) PROVE StartingInv'
      BY <1>1 DEF BeginStart, Begin, Unused
<1>2. ASSUME NEW t \in Tasks, NEW r \in Rules, BeginStop(t, r) PROVE StartingInv'
      BY <1>2 DEF BeginStop, Begin
<1>3. ASSUME NEW t \in Tasks, NEW r \in Rules, BeginDelete(t, r) PROVE StartingInv'
      BY <1>3 DEF BeginDelete, Begin
<1>4. ASSUME NEW t \in Tasks, NEW r \in Rules, BeginStopConnection(t, r) PROVE StartingInv'
      BY <1>4 DEF BeginStopConnection
<1>5. ASSUME NEW t \in Tasks, NEW r \in Rules, BeginUpsert(t, r) PROVE StartingInv'
      BY <1>5 DEF BeginUpsert, Begin
<1>6. ASSUME NEW t \in Tasks, Load(t) PROVE StartingInv'
      BY <1>6 DEF Load
<1>7. ASSUME NEW t \in Tasks, Reload(t) PROVE StartingInv'
      BY <1>7 DEF Reload
<1>8. ASSUME NEW t \in Tasks, LoadStopped(t) PROVE StartingInv'
      BY <1>8 DEF LoadStopped
<1>9. ASSUME NEW t \in Tasks, Erase(t) PROVE StartingInv'
      BY <1>9 DEF Erase
<1>10. ASSUME NEW t \in Tasks, ListRules(t) PROVE StartingInv'
      BY <1>10 DEF ListRules
<1>11. ASSUME NEW t \in Tasks, Save(t) PROVE StartingInv'
      BY <1>11 DEF Save
<1>12. ASSUME NEW t \in Tasks, Check(t) PROVE StartingInv'
      BY <1>12 DEF Check
<1>13. ASSUME NEW t \in Tasks, CheckStatus(t) PROVE StartingInv'
      BY <1>13 DEF CheckStatus
<1>14. ASSUME NEW t \in Tasks, SetStarting(t) PROVE StartingInv'
      BY <1>14 DEF SetStarting
<1>15. ASSUME NEW t \in Tasks, Resolve(t) PROVE StartingInv'
      BY <1>15 DEF Resolve
<1>16. ASSUME NEW t \in Tasks, Bind(t) PROVE StartingInv'
      BY <1>16 DEF Bind
<1>17. ASSUME NEW t \in Tasks, Connect(t) PROVE StartingInv'
      BY <1>17 DEF Connect, DropListener, AbortsLanded
<1>18. ASSUME NEW t \in Tasks, Recheck(t) PROVE StartingInv'
      BY <1>18 DEF Recheck
<1>19. ASSUME NEW t \in Tasks, Request(t) PROVE StartingInv'
      BY <1>19 DEF Request
<1>20. ASSUME NEW t \in Tasks, Publish(t) PROVE StartingInv'
      BY <1>20 DEF Publish
<1>21. ASSUME NEW t \in Tasks, Insert(t) PROVE StartingInv'
      BY <1>21 DEF Insert, DropEntry, CloseRemote
<1>22. ASSUME NEW t \in Tasks, DiscardGone(t) PROVE StartingInv'
      BY <1>22 DEF DiscardGone, CloseNew
<1>23. ASSUME NEW t \in Tasks, DiscardSurplus(t) PROVE StartingInv'
      BY <1>23 DEF DiscardSurplus, CloseNew, DropListener
<1>24. ASSUME NEW t \in Tasks, DiscardRefused(t) PROVE StartingInv'
      BY <1>24 DEF DiscardRefused, CloseNew
<1>25. ASSUME NEW t \in Tasks, Forget(t) PROVE StartingInv'
      BY <1>25 DEF Forget, DropListener
<1>26. ASSUME NEW t \in Tasks, Fail(t) PROVE StartingInv'
      BY <1>26 DEF Fail
<1>27. ASSUME NEW t \in Tasks, Remove(t) PROVE StartingInv'
      BY <1>27 DEF Remove, AfterStop, Abort
<1>28. ASSUME NEW t \in Tasks, Close(t) PROVE StartingInv'
      BY <1>28 DEF Close, CloseRemote, AfterStop
<1>29. ASSUME NEW t \in Tasks, SetStopped(t) PROVE StartingInv'
      BY <1>29 DEF SetStopped
<1>30. ASSUME NEW t \in Tasks, EraseState(t) PROVE StartingInv'
      BY <1>30 DEF EraseState
<1>31. ASSUME NEW t \in Tasks, NextRule(t) PROVE StartingInv'
      BY <1>31 DEF NextRule
<1>32. ASSUME NEW t \in Tasks, EditCheck(t) PROVE StartingInv'
      BY <1>32 DEF EditCheck
<1>33. ASSUME NEW t \in Tasks, EditStatus(t) PROVE StartingInv'
      BY <1>33 DEF EditStatus
<1>34. ASSUME NEW s \in Sids, AcceptFails(s) PROVE StartingInv'
      BY <1>34 DEF AcceptFails
<1>35. ASSUME NEW s \in Sids, LoopFails(s) PROVE StartingInv'
      BY <1>35 DEF LoopFails
<1>36. ASSUME NEW s \in Sids, LoopRemoves(s) PROVE StartingInv'
      BY <1>36 DEF LoopRemoves
<1>37. ASSUME NEW s \in Sids, LoopCloses(s) PROVE StartingInv'
      BY <1>37 DEF LoopCloses, LoopEnds
<1>38. ASSUME NEW s \in Sids, AbortLands(s) PROVE StartingInv'
      BY <1>38 DEF AbortLands, LoopEnds
<1>39. ASSUME NEW s \in Sids, SessionLost(s) PROVE StartingInv'
      BY <1>39 DEF SessionLost, IsRemote
<1>40. ASSUME UNCHANGED <<running, status, stored, of, sess, port, loop, aborted, taskVars>>
      PROVE  StartingInv'
      BY <1>40 DEF StartingInv
<1> HIDE DEF TypeInv, FlatOK, AloneInv, AloneTask, ShownInv, StartingInv, Cleared, Dialled, Undoing
<1>41. QED
      BY <1>1, <1>2, <1>3, <1>4, <1>5, <1>6, <1>7, <1>8, <1>9, <1>10, <1>11, <1>12, <1>13, <1>14,
         <1>15, <1>16, <1>17, <1>18, <1>19, <1>20, <1>21, <1>22, <1>23, <1>24, <1>25, <1>26, <1>27, <1>28,
         <1>29, <1>30, <1>31, <1>32, <1>33, <1>34, <1>35, <1>36, <1>37, <1>38, <1>39, <1>40
      DEF Next, Command, StoreStep, Step, LoopStep, AcceptClient, ClientEnds, ForwardStarts, ForwardEnds,
          ApplyStarted, ApplyFinished, vars

\* A step of the command t leaves what it does not touch behind the status of the other rules.
LEMMA Elsewhere ==
    ASSUME TypeInv, RuntimeInv, RunningInv, NEW t \in Tasks, NEW q \in Rules, rule[t] # q, q \notin crossed,
           q \in cut => q \in cut', status[q] = "running", running'[q] = running[q],
           \A u \in Tasks : u # t => /\ pc'[u] = pc[u] /\ rule'[u] = rule[u] /\ op'[u] = op[u]
                                     /\ new'[u] = new[u] /\ old'[u] = old[u],
           \A x \in Sids : of[x] = q =>
                of'[x] = of[x] /\ sess'[x] = sess[x] /\ port'[x] = port[x] /\ loop'[x] = loop[x]
    PROVE  RunningAt(q)'
<1> USE TunnelAssumption DEF TypeInv, FlatOK, RuntimeInv, TaskInv, HolderInv, RunningInv, RunningAt, Up, IsRemote
<1>1. CASE running[q] # None /\ Up(running[q])
      BY <1>1
<1>2. ASSUME NEW u \in Tasks, rule[u] = q, Stopping(u) PROVE RunningAt(q)'
      BY <1>2 DEF Stopping
<1>3. ASSUME NEW u \in Tasks, rule[u] = q, pc[u] = "insert", Up(new[u]) PROVE RunningAt(q)'
      BY <1>3 DEF StartSteps
<1>4. QED BY <1>1, <1>2, <1>3

LEMMA RunningStep == TypeInv /\ RuntimeInv /\ SoleInv /\ AloneInv /\ ShownInv /\ [Next]_vars => RunningInv'
<1> SUFFICES ASSUME TypeInv, RuntimeInv, SoleInv, AloneInv, ShownInv, [Next]_vars PROVE RunningInv'
    OBVIOUS
<1>0. SoleInv' /\ Recorded
      BY SoleStep, HistoryIsKept
<1> USE TunnelAssumption, <1>0 DEF Recorded, ruleVars, sidVars, eventVars, dataVars, taskVars, Goto, set_state, Return,
        TypeInv, FlatOK, RuntimeInv, TaskInv, BuiltInv, StageInv, HolderInv, SoleInv, Works, AloneInv, AloneTask, AloneLoop, LoopAlone, AloneRule, Unsettled, Built, Cleared, ShownInv, ShownTask, RunningInv, RunningAt, StoredInv, Stopping, Up, IsRemote, Dialled, Undoing, StartSteps, OtherSteps, should_replace_existing_runtime
<1>1. ASSUME NEW t \in Tasks, NEW r \in Rules, BeginStart(t, r) PROVE RunningInv'
      BY <1>1, SMTT(30) DEF BeginStart, Begin, Unused
<1>2. ASSUME NEW t \in Tasks, NEW r \in Rules, BeginStop(t, r) PROVE RunningInv'
      BY <1>2, SMTT(30) DEF BeginStop, Begin
<1>3. ASSUME NEW t \in Tasks, NEW r \in Rules, BeginDelete(t, r) PROVE RunningInv'
      BY <1>3, SMTT(30) DEF BeginDelete, Begin
<1>4. ASSUME NEW t \in Tasks, NEW r \in Rules, BeginStopConnection(t, r) PROVE RunningInv'
      BY <1>4, SMTT(30) DEF BeginStopConnection
<1>5. ASSUME NEW t \in Tasks, NEW r \in Rules, BeginUpsert(t, r) PROVE RunningInv'
      BY <1>5, SMTT(30) DEF BeginUpsert, Begin
<1>6. ASSUME NEW t \in Tasks, Load(t) PROVE RunningInv'
      BY <1>6, SMTT(30) DEF Load
<1>7. ASSUME NEW t \in Tasks, Reload(t) PROVE RunningInv'
      BY <1>7, SMTT(30) DEF Reload
<1>8. ASSUME NEW t \in Tasks, LoadStopped(t) PROVE RunningInv'
  <2> SUFFICES ASSUME NEW q \in Rules, q \notin crossed', status'[q] = "running" PROVE RunningAt(q)'
      OBVIOUS
  <2>1. /\ rule[t] \in Rules
        /\ rule[t] \notin crossed => \A u \in Tasks : Works(u, rule[t]) => u = t
        BY <1>8 DEF LoadStopped
  <2>2. CASE q = rule[t]
    <3>1. CASE Return(t) /\ old[t] # None
      <4>1. CutShort(t)
            BY <1>8, <3>1 DEF LoadStopped, CutShort
      <4>2. QED BY <2>1, <2>2, <4>1
    <3>2. CASE Return(t) /\ old[t] = None
      <4>1. /\ running[q] = None /\ status[q] = "running" /\ q \notin crossed
            /\ pc[t] = "load_stopped"
            BY <1>8, <2>2 DEF LoadStopped
      <4>2. q \in cut
            BY <2>1, <2>2, <3>2, <4>1
      <4>3. QED BY <4>2
    <3>3. CASE Goto(t, "set_stopped") /\ UNCHANGED dataVars
      <4>1. /\ running[q] = None /\ status[q] = "running" /\ q \notin crossed
            /\ pc[t] = "load_stopped" /\ op[t] # "start" /\ pc'[t] = "set_stopped"
            BY <1>8, <2>2, <3>3 DEF LoadStopped
      <4>2. q \in cut \/ old[t] # None
            BY <2>1, <2>2, <4>1
      <4>3. QED BY <2>2, <3>3, <4>1, <4>2
    <3>4. QED BY <1>8, <3>1, <3>2, <3>3 DEF LoadStopped
  <2>3. CASE q # rule[t]
    <3>1. /\ status[q] = "running" /\ running'[q] = running[q]
          /\ \A u \in Tasks : u # t => /\ pc'[u] = pc[u] /\ rule'[u] = rule[u] /\ op'[u] = op[u]
                                      /\ new'[u] = new[u] /\ old'[u] = old[u]
          BY <1>8, <2>3 DEF LoadStopped
    <3>2. \A x \in Sids : of[x] = q =>
              of'[x] = of[x] /\ sess'[x] = sess[x] /\ port'[x] = port[x] /\ loop'[x] = loop[x]
          BY <1>8 DEF LoadStopped
    <3> HIDE DEF TypeInv, FlatOK, RuntimeInv, TaskInv, BuiltInv, StageInv, HolderInv, SoleInv, AloneInv,
                 AloneTask, AloneLoop, AloneRule, ShownTask, RunningInv, RunningAt, StoredInv, Up
    <3>3. QED BY <2>3, <3>1, <3>2, Elsewhere DEF ShownInv
  <2>4. QED BY <2>2, <2>3
<1>9. ASSUME NEW t \in Tasks, Erase(t) PROVE RunningInv'
  <2> SUFFICES ASSUME NEW q \in Rules, q \notin crossed', status'[q] = "running" PROVE RunningAt(q)'
      OBVIOUS
  <2>1. /\ rule[t] \in Rules
        /\ rule[t] \notin crossed => \A u \in Tasks : Works(u, rule[t]) => u = t
        BY <1>9 DEF Erase
  <2>2. CASE q = rule[t]
    <3>0. /\ running[q] = None /\ status[q] = "running" /\ q \notin crossed
          /\ pc[t] = "erase" /\ op[t] # "start"
          BY <1>9, <2>2 DEF Erase
    <3>1. stored[q] # None
          BY <2>1, <2>2, <3>0
    <3>2. q \in cut \/ old[t] # None
          BY <2>1, <2>2, <3>0
    <3>3. CASE q \in cut
          BY <3>3
    <3>4. CASE Return(t) /\ old[t] # None
      <4>1. CutShort(t)
            BY <2>2, <3>0, <3>1, <3>4 DEF CutShort
      <4>2. QED BY <2>1, <2>2, <4>1
    <3>5. CASE Goto(t, "erase_state") /\ UNCHANGED dataVars /\ old[t] # None
          BY <2>2, <3>0, <3>5
    <3>6. QED BY <1>9, <3>2, <3>3, <3>4, <3>5 DEF Erase
  <2>3. CASE q # rule[t]
    <3>1. /\ status[q] = "running" /\ running'[q] = running[q]
          /\ \A u \in Tasks : u # t => /\ pc'[u] = pc[u] /\ rule'[u] = rule[u] /\ op'[u] = op[u]
                                      /\ new'[u] = new[u] /\ old'[u] = old[u]
          BY <1>9, <2>3 DEF Erase
    <3>2. \A x \in Sids : of[x] = q =>
              of'[x] = of[x] /\ sess'[x] = sess[x] /\ port'[x] = port[x] /\ loop'[x] = loop[x]
          BY <1>9 DEF Erase
    <3> HIDE DEF TypeInv, FlatOK, RuntimeInv, TaskInv, BuiltInv, StageInv, HolderInv, SoleInv, AloneInv,
                 AloneTask, AloneLoop, AloneRule, ShownTask, RunningInv, RunningAt, StoredInv, Up
    <3>3. QED BY <2>3, <3>1, <3>2, Elsewhere DEF ShownInv
  <2>4. QED BY <2>2, <2>3
<1>10. ASSUME NEW t \in Tasks, ListRules(t) PROVE RunningInv'
      BY <1>10, SMTT(30) DEF ListRules
<1>11. ASSUME NEW t \in Tasks, Save(t) PROVE RunningInv'
      BY <1>11, SMTT(30) DEF Save
<1>12. ASSUME NEW t \in Tasks, Check(t) PROVE RunningInv'
      BY <1>12, SMTT(30) DEF Check
<1>13. ASSUME NEW t \in Tasks, CheckStatus(t) PROVE RunningInv'
      BY <1>13, SMTT(30) DEF CheckStatus
<1>14. ASSUME NEW t \in Tasks, SetStarting(t) PROVE RunningInv'
      BY <1>14, SMTT(30) DEF SetStarting
<1>15. ASSUME NEW t \in Tasks, Resolve(t) PROVE RunningInv'
      BY <1>15, SMTT(30) DEF Resolve
<1>16. ASSUME NEW t \in Tasks, Bind(t) PROVE RunningInv'
      BY <1>16, SMTT(30) DEF Bind
<1>17. ASSUME NEW t \in Tasks, Connect(t) PROVE RunningInv'
  <2> SUFFICES ASSUME NEW q \in Rules, q \notin crossed', status'[q] = "running" PROVE RunningAt(q)'
      OBVIOUS
  <2>1. /\ rule[t] \in Rules
        /\ rule[t] \notin crossed => \A u \in Tasks : Works(u, rule[t]) => u = t
        BY <1>17 DEF Connect
  <2>2. CASE q = rule[t]
        BY <1>17, <2>1, <2>2, SMTT(30) DEF Connect, DropListener, AbortsLanded
  <2>3. CASE q # rule[t]
    <3>1. /\ status[q] = "running" /\ running'[q] = running[q]
          /\ \A u \in Tasks : u # t => /\ pc'[u] = pc[u] /\ rule'[u] = rule[u] /\ op'[u] = op[u]
                                      /\ new'[u] = new[u] /\ old'[u] = old[u]
          BY <1>17, <2>3 DEF Connect, DropListener, AbortsLanded
    <3>2. \A x \in Sids : of[x] = q =>
              of'[x] = of[x] /\ sess'[x] = sess[x] /\ port'[x] = port[x] /\ loop'[x] = loop[x]
          BY <1>17, <2>1, <2>3, SMTT(30) DEF Connect, DropListener, AbortsLanded
    <3> HIDE DEF TypeInv, FlatOK, RuntimeInv, TaskInv, BuiltInv, StageInv, HolderInv, SoleInv, AloneInv,
                 AloneTask, AloneLoop, AloneRule, ShownTask, RunningInv, RunningAt, StoredInv, Up
    <3>3. QED BY <2>3, <3>1, <3>2, Elsewhere DEF ShownInv
  <2>4. QED BY <2>2, <2>3
<1>18. ASSUME NEW t \in Tasks, Recheck(t) PROVE RunningInv'
      BY <1>18, SMTT(30) DEF Recheck
<1>19. ASSUME NEW t \in Tasks, Request(t) PROVE RunningInv'
      BY <1>19, SMTT(30) DEF Request
<1>20. ASSUME NEW t \in Tasks, Publish(t) PROVE RunningInv'
      BY <1>20, SMTT(30) DEF Publish
<1>21. ASSUME NEW t \in Tasks, Insert(t) PROVE RunningInv'
  <2> SUFFICES ASSUME NEW q \in Rules, q \notin crossed', status'[q] = "running" PROVE RunningAt(q)'
      OBVIOUS
  <2>1. /\ rule[t] \in Rules
        /\ rule[t] \notin crossed => \A u \in Tasks : Works(u, rule[t]) => u = t
        BY <1>21 DEF Insert
  <2>2. CASE q = rule[t]
        BY <1>21, <2>1, <2>2, SMTT(30) DEF Insert, DropEntry, CloseRemote
  <2>3. CASE q # rule[t]
    <3>1. /\ status[q] = "running" /\ running'[q] = running[q]
          /\ \A u \in Tasks : u # t => /\ pc'[u] = pc[u] /\ rule'[u] = rule[u] /\ op'[u] = op[u]
                                      /\ new'[u] = new[u] /\ old'[u] = old[u]
          BY <1>21, <2>3 DEF Insert, DropEntry, CloseRemote
    <3>2. \A x \in Sids : of[x] = q =>
              of'[x] = of[x] /\ sess'[x] = sess[x] /\ port'[x] = port[x] /\ loop'[x] = loop[x]
          BY <1>21, <2>1, <2>3, SMTT(30) DEF Insert, DropEntry, CloseRemote
    <3> HIDE DEF TypeInv, FlatOK, RuntimeInv, TaskInv, BuiltInv, StageInv, HolderInv, SoleInv, AloneInv,
                 AloneTask, AloneLoop, AloneRule, ShownTask, RunningInv, RunningAt, StoredInv, Up
    <3>3. QED BY <2>3, <3>1, <3>2, Elsewhere DEF ShownInv
  <2>4. QED BY <2>2, <2>3
<1>22. ASSUME NEW t \in Tasks, DiscardGone(t) PROVE RunningInv'
      BY <1>22, SMTT(30) DEF DiscardGone, CloseNew
<1>23. ASSUME NEW t \in Tasks, DiscardSurplus(t) PROVE RunningInv'
      BY <1>23, SMTT(30) DEF DiscardSurplus, CloseNew, DropListener
<1>24. ASSUME NEW t \in Tasks, DiscardRefused(t) PROVE RunningInv'
      BY <1>24, SMTT(30) DEF DiscardRefused, CloseNew
<1>25. ASSUME NEW t \in Tasks, Forget(t) PROVE RunningInv'
  <2> SUFFICES ASSUME NEW q \in Rules, q \notin crossed', status'[q] = "running" PROVE RunningAt(q)'
      OBVIOUS
  <2>1. /\ rule[t] \in Rules
        /\ rule[t] \notin crossed => \A u \in Tasks : Works(u, rule[t]) => u = t
        BY <1>25 DEF Forget
  <2>2. CASE q = rule[t]
        BY <1>25, <2>1, <2>2, SMTT(30) DEF Forget, DropListener
  <2>3. CASE q # rule[t]
    <3>1. /\ status[q] = "running" /\ running'[q] = running[q]
          /\ \A u \in Tasks : u # t => /\ pc'[u] = pc[u] /\ rule'[u] = rule[u] /\ op'[u] = op[u]
                                      /\ new'[u] = new[u] /\ old'[u] = old[u]
          BY <1>25, <2>3 DEF Forget, DropListener
    <3>2. \A x \in Sids : of[x] = q =>
              of'[x] = of[x] /\ sess'[x] = sess[x] /\ port'[x] = port[x] /\ loop'[x] = loop[x]
          BY <1>25, <2>1, <2>3, SMTT(30) DEF Forget, DropListener
    <3> HIDE DEF TypeInv, FlatOK, RuntimeInv, TaskInv, BuiltInv, StageInv, HolderInv, SoleInv, AloneInv,
                 AloneTask, AloneLoop, AloneRule, ShownTask, RunningInv, RunningAt, StoredInv, Up
    <3>3. QED BY <2>3, <3>1, <3>2, Elsewhere DEF ShownInv
  <2>4. QED BY <2>2, <2>3
<1>26. ASSUME NEW t \in Tasks, Fail(t) PROVE RunningInv'
      BY <1>26, SMTT(30) DEF Fail
<1>27. ASSUME NEW t \in Tasks, Remove(t) PROVE RunningInv'
  <2> SUFFICES ASSUME NEW q \in Rules, q \notin crossed', status'[q] = "running" PROVE RunningAt(q)'
      OBVIOUS
  <2>1. /\ rule[t] \in Rules
        /\ rule[t] \notin crossed => \A u \in Tasks : Works(u, rule[t]) => u = t
        BY <1>27 DEF Remove
  <2>2. CASE q = rule[t]
    <3>1. CASE running[q] = None
          BY <1>27, <2>1, <2>2, <3>1 DEF Remove
    <3>2. CASE running[q] # None
      <4>0. pc[t] = "remove" /\ rule[t] \notin crossed /\ status[rule[t]] = "running"
            BY <1>27, <2>2 DEF Remove
      <4>1. status[rule[t]] = "running" /\ op[t] # "start"
            BY <4>0
      <4>2. pc' = [pc EXCEPT ![t] = "close"] /\ old' = [old EXCEPT ![t] = running[q]] /\ UNCHANGED <<op, rule>>
            BY <1>27, <2>2, <3>2 DEF Remove
      <4>3. QED BY <2>1, <2>2, <3>2, <4>1, <4>2
    <3>3. QED BY <3>1, <3>2
  <2>3. CASE q # rule[t]
    <3>1. /\ status[q] = "running" /\ running'[q] = running[q]
          /\ \A u \in Tasks : u # t => /\ pc'[u] = pc[u] /\ rule'[u] = rule[u] /\ op'[u] = op[u]
                                      /\ new'[u] = new[u] /\ old'[u] = old[u]
          BY <1>27, <2>3 DEF Remove, AfterStop
    <3>2. \A x \in Sids : of[x] = q =>
              of'[x] = of[x] /\ sess'[x] = sess[x] /\ port'[x] = port[x] /\ loop'[x] = loop[x]
          BY <1>27, <2>1, <2>3, SMTT(30) DEF Remove, AfterStop
    <3> HIDE DEF TypeInv, FlatOK, RuntimeInv, TaskInv, BuiltInv, StageInv, HolderInv, SoleInv, AloneInv,
                 AloneTask, AloneLoop, AloneRule, ShownTask, RunningInv, RunningAt, StoredInv, Up
    <3>3. QED BY <2>3, <3>1, <3>2, Elsewhere DEF ShownInv
  <2>4. QED BY <2>2, <2>3
<1>28. ASSUME NEW t \in Tasks, Close(t) PROVE RunningInv'
  <2> SUFFICES ASSUME NEW q \in Rules, q \notin crossed', status'[q] = "running" PROVE RunningAt(q)'
      OBVIOUS
  <2>1. /\ rule[t] \in Rules
        /\ rule[t] \notin crossed => \A u \in Tasks : Works(u, rule[t]) => u = t
        BY <1>28 DEF Close
  <2>2. CASE q = rule[t]
        BY <1>28, <2>1, <2>2, SMTT(30) DEF Close, CloseRemote, AfterStop, Kinds
  <2>3. CASE q # rule[t]
    <3>1. /\ status[q] = "running" /\ running'[q] = running[q]
          /\ \A u \in Tasks : u # t => /\ pc'[u] = pc[u] /\ rule'[u] = rule[u] /\ op'[u] = op[u]
                                      /\ new'[u] = new[u] /\ old'[u] = old[u]
          BY <1>28, <2>3 DEF Close, CloseRemote, AfterStop
    <3>2. \A x \in Sids : of[x] = q =>
              of'[x] = of[x] /\ sess'[x] = sess[x] /\ port'[x] = port[x] /\ loop'[x] = loop[x]
          BY <1>28, <2>1, <2>3, SMTT(30) DEF Close, CloseRemote, AfterStop
    <3> HIDE DEF TypeInv, FlatOK, RuntimeInv, TaskInv, BuiltInv, StageInv, HolderInv, SoleInv, AloneInv,
                 AloneTask, AloneLoop, AloneRule, ShownTask, RunningInv, RunningAt, StoredInv, Up
    <3>3. QED BY <2>3, <3>1, <3>2, Elsewhere DEF ShownInv
  <2>4. QED BY <2>2, <2>3
<1>29. ASSUME NEW t \in Tasks, SetStopped(t) PROVE RunningInv'
      BY <1>29, SMTT(30) DEF SetStopped
<1>30. ASSUME NEW t \in Tasks, EraseState(t) PROVE RunningInv'
      BY <1>30, SMTT(30) DEF EraseState
<1>31. ASSUME NEW t \in Tasks, NextRule(t) PROVE RunningInv'
      BY <1>31, SMTT(30) DEF NextRule
<1>32. ASSUME NEW t \in Tasks, EditCheck(t) PROVE RunningInv'
      BY <1>32, SMTT(30) DEF EditCheck
<1>33. ASSUME NEW t \in Tasks, EditStatus(t) PROVE RunningInv'
      BY <1>33, SMTT(30) DEF EditStatus
<1>34. ASSUME NEW s \in Sids, AcceptFails(s) PROVE RunningInv'
      BY <1>34, SMTT(30) DEF AcceptFails
<1>35. ASSUME NEW s \in Sids, LoopFails(s) PROVE RunningInv'
      BY <1>35, SMTT(30) DEF LoopFails
<1>36. ASSUME NEW s \in Sids, LoopRemoves(s) PROVE RunningInv'
  <2> SUFFICES ASSUME NEW q \in Rules, q \notin crossed', status'[q] = "running" PROVE RunningAt(q)'
      OBVIOUS
  <2>1. CASE q # of[s]
        BY <1>36, <2>1, SMTT(30) DEF LoopRemoves
  <2>2. CASE q = of[s]
    <3>1. running[q] = None \/ ~Up(running[q])
      <4>1. Unsettled(s) /\ ~Up(s)
            BY <1>36 DEF LoopRemoves
      <4>2. Built(s) => running[q] = None
            BY <1>36, <2>2 DEF LoopRemoves
      <4>3. aborted[s] => running[q] = None
            BY <2>2
      <4>4. QED BY <2>2, <4>1, <4>2, <4>3
    <3>2. ASSUME NEW u \in Tasks, rule[u] = q, Stopping(u) \/ (pc[u] = "insert" /\ Up(new[u]))
          PROVE  RunningAt(q)'
          BY <1>36, <3>2, SMTT(30) DEF LoopRemoves
    <3>3. q \notin crossed /\ status[q] = "running"
          BY <1>36 DEF LoopRemoves
    <3>4. QED BY <3>1, <3>2, <3>3
  <2>3. QED BY <2>1, <2>2
<1>37. ASSUME NEW s \in Sids, LoopCloses(s) PROVE RunningInv'
      BY <1>37, SMTT(30) DEF LoopCloses, LoopEnds
<1>38. ASSUME NEW s \in Sids, AbortLands(s) PROVE RunningInv'
      BY <1>38, SMTT(30) DEF AbortLands, LoopEnds
<1>39. ASSUME NEW s \in Sids, SessionLost(s) PROVE RunningInv'
      BY <1>39, SMTT(30) DEF SessionLost, IsRemote
<1>40. ASSUME UNCHANGED <<running, status, stored, of, sess, port, loop, aborted, taskVars>>
      PROVE  RunningInv'
      BY <1>40 DEF RunningInv
<1> HIDE DEF TypeInv, FlatOK, RuntimeInv, TaskInv, BuiltInv, StageInv, HolderInv, SoleInv, Works, AloneInv, AloneTask, AloneLoop, LoopAlone, AloneRule, Unsettled, Built, Cleared, ShownInv, ShownTask, RunningInv, RunningAt, StoredInv, Stopping, Up, IsRemote, Dialled, Undoing, StartSteps, OtherSteps, should_replace_existing_runtime
<1>41. QED
      BY <1>1, <1>2, <1>3, <1>4, <1>5, <1>6, <1>7, <1>8, <1>9, <1>10, <1>11, <1>12, <1>13, <1>14,
         <1>15, <1>16, <1>17, <1>18, <1>19, <1>20, <1>21, <1>22, <1>23, <1>24, <1>25, <1>26, <1>27, <1>28,
         <1>29, <1>30, <1>31, <1>32, <1>33, <1>34, <1>35, <1>36, <1>37, <1>38, <1>39, <1>40
      DEF Next, Command, StoreStep, Step, LoopStep, AcceptClient, ClientEnds, ForwardStarts, ForwardEnds,
          ApplyStarted, ApplyFinished, vars

LEMMA StoredStep == TypeInv /\ RuntimeInv /\ SoleInv /\ AloneInv /\ ShownInv /\ [Next]_vars => StoredInv'
<1> SUFFICES ASSUME TypeInv, RuntimeInv, SoleInv, AloneInv, ShownInv, [Next]_vars PROVE StoredInv'
    OBVIOUS
<1>0. SoleInv' /\ Recorded
      BY SoleStep, HistoryIsKept
<1> USE TunnelAssumption, <1>0 DEF Recorded, ruleVars, sidVars, eventVars, dataVars, taskVars, Goto, set_state, Return,
        TypeInv, FlatOK, RuntimeInv, TaskInv, SoleInv, Works, ShownInv, ShownTask, StoredInv, StartSteps, OtherSteps
<1>1. ASSUME NEW t \in Tasks, NEW r \in Rules, BeginStart(t, r) PROVE StoredInv'
      BY <1>1 DEF BeginStart, Begin, Unused
<1>2. ASSUME NEW t \in Tasks, NEW r \in Rules, BeginStop(t, r) PROVE StoredInv'
      BY <1>2 DEF BeginStop, Begin
<1>3. ASSUME NEW t \in Tasks, NEW r \in Rules, BeginDelete(t, r) PROVE StoredInv'
      BY <1>3 DEF BeginDelete, Begin
<1>4. ASSUME NEW t \in Tasks, NEW r \in Rules, BeginStopConnection(t, r) PROVE StoredInv'
      BY <1>4 DEF BeginStopConnection
<1>5. ASSUME NEW t \in Tasks, NEW r \in Rules, BeginUpsert(t, r) PROVE StoredInv'
      BY <1>5 DEF BeginUpsert, Begin
<1>6. ASSUME NEW t \in Tasks, Load(t) PROVE StoredInv'
      BY <1>6 DEF Load
<1>7. ASSUME NEW t \in Tasks, Reload(t) PROVE StoredInv'
      BY <1>7 DEF Reload
<1>8. ASSUME NEW t \in Tasks, LoadStopped(t) PROVE StoredInv'
      BY <1>8 DEF LoadStopped
<1>9. ASSUME NEW t \in Tasks, Erase(t) PROVE StoredInv'
  <2> SUFFICES ASSUME NEW q \in Rules, q \notin crossed', status'[q] = "running"
               PROVE  stored'[q] # None \/ \E u \in Tasks : rule'[u] = q /\ pc'[u] = "erase_state"
      OBVIOUS
  <2>1. /\ rule[t] \in Rules
        /\ rule[t] \notin crossed => \A u \in Tasks : Works(u, rule[t]) => u = t
        BY <1>9 DEF Erase
  <2>2. CASE q = rule[t]
        BY <1>9, <2>1, <2>2 DEF Erase
  <2>3. CASE q # rule[t]
    <3>1. status[q] = "running" /\ \A u \in Tasks : u # t => pc'[u] = pc[u] /\ rule'[u] = rule[u]
          BY <1>9, <2>3 DEF Erase
    <3>2. stored'[q] = stored[q]
          BY <1>9, <2>3 DEF Erase
    <3>3. CASE stored[q] # None
          BY <3>2, <3>3
    <3>4. ASSUME NEW u \in Tasks, rule[u] = q, pc[u] = "erase_state"
          PROVE  rule'[u] = q /\ pc'[u] = "erase_state"
          BY <2>3, <3>1, <3>4
    <3>5. QED BY <3>1, <3>3, <3>4
  <2>4. QED BY <2>2, <2>3
<1>10. ASSUME NEW t \in Tasks, ListRules(t) PROVE StoredInv'
      BY <1>10 DEF ListRules
<1>11. ASSUME NEW t \in Tasks, Save(t) PROVE StoredInv'
      BY <1>11 DEF Save
<1>12. ASSUME NEW t \in Tasks, Check(t) PROVE StoredInv'
      BY <1>12 DEF Check
<1>13. ASSUME NEW t \in Tasks, CheckStatus(t) PROVE StoredInv'
      BY <1>13 DEF CheckStatus
<1>14. ASSUME NEW t \in Tasks, SetStarting(t) PROVE StoredInv'
      BY <1>14 DEF SetStarting
<1>15. ASSUME NEW t \in Tasks, Resolve(t) PROVE StoredInv'
      BY <1>15, SMTT(30) DEF Resolve
<1>16. ASSUME NEW t \in Tasks, Bind(t) PROVE StoredInv'
  <2> SUFFICES ASSUME NEW q \in Rules, q \notin crossed', status'[q] = "running"
               PROVE  stored'[q] # None \/ \E u \in Tasks : rule'[u] = q /\ pc'[u] = "erase_state"
      OBVIOUS
  <2>1. /\ rule[t] \in Rules
        /\ rule[t] \notin crossed => \A u \in Tasks : Works(u, rule[t]) => u = t
        BY <1>16 DEF Bind
  <2>2. CASE q = rule[t]
        BY <1>16, <2>1, <2>2 DEF Bind
  <2>3. CASE q # rule[t]
    <3>1. status[q] = "running" /\ \A u \in Tasks : u # t => pc'[u] = pc[u] /\ rule'[u] = rule[u]
          BY <1>16, <2>3 DEF Bind
    <3>2. stored'[q] = stored[q]
          BY <1>16, <2>3 DEF Bind
    <3>3. CASE stored[q] # None
          BY <3>2, <3>3
    <3>4. ASSUME NEW u \in Tasks, rule[u] = q, pc[u] = "erase_state"
          PROVE  rule'[u] = q /\ pc'[u] = "erase_state"
          BY <2>3, <3>1, <3>4
    <3>5. QED BY <3>1, <3>3, <3>4
  <2>4. QED BY <2>2, <2>3
<1>17. ASSUME NEW t \in Tasks, Connect(t) PROVE StoredInv'
  <2> SUFFICES ASSUME NEW q \in Rules, q \notin crossed', status'[q] = "running"
               PROVE  stored'[q] # None \/ \E u \in Tasks : rule'[u] = q /\ pc'[u] = "erase_state"
      OBVIOUS
  <2>1. /\ rule[t] \in Rules
        /\ rule[t] \notin crossed => \A u \in Tasks : Works(u, rule[t]) => u = t
        BY <1>17 DEF Connect
  <2>2. CASE q = rule[t]
        BY <1>17, <2>1, <2>2 DEF Connect
  <2>3. CASE q # rule[t]
    <3>1. status[q] = "running" /\ \A u \in Tasks : u # t => pc'[u] = pc[u] /\ rule'[u] = rule[u]
          BY <1>17, <2>3 DEF Connect
    <3>2. stored'[q] = stored[q]
          BY <1>17, <2>3 DEF Connect
    <3>3. CASE stored[q] # None
          BY <3>2, <3>3
    <3>4. ASSUME NEW u \in Tasks, rule[u] = q, pc[u] = "erase_state"
          PROVE  rule'[u] = q /\ pc'[u] = "erase_state"
          BY <2>3, <3>1, <3>4
    <3>5. QED BY <3>1, <3>3, <3>4
  <2>4. QED BY <2>2, <2>3
<1>18. ASSUME NEW t \in Tasks, Recheck(t) PROVE StoredInv'
      BY <1>18 DEF Recheck
<1>19. ASSUME NEW t \in Tasks, Request(t) PROVE StoredInv'
      BY <1>19 DEF Request
<1>20. ASSUME NEW t \in Tasks, Publish(t) PROVE StoredInv'
      BY <1>20 DEF Publish
<1>21. ASSUME NEW t \in Tasks, Insert(t) PROVE StoredInv'
      BY <1>21 DEF Insert, DropEntry, CloseRemote
<1>22. ASSUME NEW t \in Tasks, DiscardGone(t) PROVE StoredInv'
      BY <1>22 DEF DiscardGone, CloseNew
<1>23. ASSUME NEW t \in Tasks, DiscardSurplus(t) PROVE StoredInv'
      BY <1>23 DEF DiscardSurplus, CloseNew, DropListener
<1>24. ASSUME NEW t \in Tasks, DiscardRefused(t) PROVE StoredInv'
      BY <1>24 DEF DiscardRefused, CloseNew
<1>25. ASSUME NEW t \in Tasks, Forget(t) PROVE StoredInv'
      BY <1>25 DEF Forget, DropListener
<1>26. ASSUME NEW t \in Tasks, Fail(t) PROVE StoredInv'
      BY <1>26 DEF Fail
<1>27. ASSUME NEW t \in Tasks, Remove(t) PROVE StoredInv'
      BY <1>27 DEF Remove, AfterStop, Abort
<1>28. ASSUME NEW t \in Tasks, Close(t) PROVE StoredInv'
      BY <1>28 DEF Close, CloseRemote, AfterStop
<1>29. ASSUME NEW t \in Tasks, SetStopped(t) PROVE StoredInv'
      BY <1>29 DEF SetStopped
<1>30. ASSUME NEW t \in Tasks, EraseState(t) PROVE StoredInv'
      BY <1>30 DEF EraseState
<1>31. ASSUME NEW t \in Tasks, NextRule(t) PROVE StoredInv'
      BY <1>31 DEF NextRule
<1>32. ASSUME NEW t \in Tasks, EditCheck(t) PROVE StoredInv'
      BY <1>32 DEF EditCheck
<1>33. ASSUME NEW t \in Tasks, EditStatus(t) PROVE StoredInv'
      BY <1>33 DEF EditStatus
<1>34. ASSUME NEW s \in Sids, AcceptFails(s) PROVE StoredInv'
      BY <1>34 DEF AcceptFails
<1>35. ASSUME NEW s \in Sids, LoopFails(s) PROVE StoredInv'
      BY <1>35 DEF LoopFails
<1>36. ASSUME NEW s \in Sids, LoopRemoves(s) PROVE StoredInv'
      BY <1>36 DEF LoopRemoves
<1>37. ASSUME NEW s \in Sids, LoopCloses(s) PROVE StoredInv'
      BY <1>37 DEF LoopCloses, LoopEnds
<1>38. ASSUME NEW s \in Sids, AbortLands(s) PROVE StoredInv'
      BY <1>38 DEF AbortLands, LoopEnds
<1>39. ASSUME NEW s \in Sids, SessionLost(s) PROVE StoredInv'
      BY <1>39 DEF SessionLost, IsRemote
<1>40. ASSUME UNCHANGED <<running, status, stored, of, sess, port, loop, aborted, taskVars>>
      PROVE  StoredInv'
      BY <1>40 DEF StoredInv
<1> HIDE DEF TypeInv, FlatOK, RuntimeInv, TaskInv, SoleInv, Works, ShownInv, ShownTask, StoredInv, StartSteps, OtherSteps
<1>41. QED
      BY <1>1, <1>2, <1>3, <1>4, <1>5, <1>6, <1>7, <1>8, <1>9, <1>10, <1>11, <1>12, <1>13, <1>14,
         <1>15, <1>16, <1>17, <1>18, <1>19, <1>20, <1>21, <1>22, <1>23, <1>24, <1>25, <1>26, <1>27, <1>28,
         <1>29, <1>30, <1>31, <1>32, <1>33, <1>34, <1>35, <1>36, <1>37, <1>38, <1>39, <1>40
      DEF Next, Command, StoreStep, Step, LoopStep, AcceptClient, ClientEnds, ForwardStarts, ForwardEnds,
          ApplyStarted, ApplyFinished, vars

LEMMA SoleInit == Init => SoleInv /\ AloneInv /\ ShownInv
BY TunnelAssumption DEF Init, SoleInv, Works, AloneInv, AloneTask, AloneLoop, LoopAlone, AloneRule, Unsettled, Cleared,
        Dialled, Undoing, ShownInv, ShownTask, StartingInv, RunningInv, StoredInv

LEMMA AloneAlways == Spec => [](TypeInv /\ RuntimeInv /\ SoleInv /\ AloneInv)
<1>1. Init => SoleInv /\ AloneInv
      BY SoleInit
<1>2. TypeInv /\ RuntimeInv /\ SoleInv /\ AloneInv /\ [Next]_vars => SoleInv' /\ AloneInv'
      BY SoleStep, AloneStep
<1>3. QED BY <1>1, <1>2, RuntimeAlways, PTL DEF Spec

\* A rule that is shown as down has nothing left at work, whatever stop, delete, stop_connection, a
\* failed start, a failing accept loop and a store that fails interleave, unless two commands have
\* worked on that very rule at the same time.
THEOREM DownLeavesNothing == Spec => []DownIsReleased
<1>1. TypeInv /\ RuntimeInv /\ SoleInv /\ AloneInv => DownIsReleased
  <2> SUFFICES ASSUME TypeInv, RuntimeInv, SoleInv, AloneInv, NEW r \in Rules, r \notin crossed, Idle(r),
                      status[r] \notin {"starting", "running"}, NEW s \in Sids, of[s] = r, Serving(s)
               PROVE  FALSE
      BY DEF DownIsReleased
  <2> USE TunnelAssumption DEF TypeInv, FlatOK, RuntimeInv, Idle, Works
  <2>1. ~Built(s) /\ ~BeingClosed(s)
        BY DEF Built, BeingClosed, TaskInv, OtherSteps
  <2>2. CASE IsRemote(s)
    <3>1. running[r] = s
          BY <2>1, <2>2 DEF HolderInv, Serving
    <3>2. QED BY <2>2, <3>1 DEF AloneInv, AloneRule
  <2>3. CASE ~IsRemote(s) /\ loop[s] \in {"accepting", "failing"}
    <3>1. ~aborted[s]
          BY <2>1, <2>3 DEF HolderInv, Serving
    <3>2. running[r] = s
          BY <2>1, <2>3, <3>1 DEF AloneInv, AloneLoop, LoopAlone, Unsettled
    <3>3. QED BY <2>3, <3>2 DEF AloneInv, AloneRule
  <2>4. CASE ~IsRemote(s) /\ loop[s] = "none"
        BY <2>1, <2>4 DEF HolderInv, Serving
  <2>5. QED BY <2>2, <2>3, <2>4 DEF LoopStates, Serving
<1>2. QED BY <1>1, AloneAlways, PTL

\* And a rule that is shown as running has a runtime that nobody took down, and none is left
\* "starting": unless two commands have worked on it at the same time, or the store failed under the
\* stop or the delete that took the runtime down.
THEOREM RunningIsServed == Spec => []RunningIsServing
<1>1. TypeInv /\ RuntimeInv /\ SoleInv /\ AloneInv /\ ShownInv => RunningIsServing
  <2> SUFFICES ASSUME TypeInv, RuntimeInv, SoleInv, AloneInv, ShownInv, NEW r \in Rules, r \notin crossed, Idle(r)
               PROVE  /\ status[r] # "starting"
                      /\ status[r] = "running" /\ r \notin cut =>
                          \E s \in Sids :
                              /\ running[r] = s /\ sess[s] # "closed" /\ ~aborted[s]
                              /\ IF IsRemote(s) THEN port[s] # None \/ sess[s] = "lost"
                                 ELSE port[s] # None /\ loop[s] \in {"accepting", "failing"}
      BY DEF RunningIsServing
  <2> USE DEF Idle, Works
  <2>1. status[r] # "starting"
        BY DEF ShownInv, StartingInv, Dialled, Undoing
  <2>2. ASSUME status[r] = "running", r \notin cut
        PROVE  running[r] \in Sids /\ Up(running[r]) /\ ~aborted[running[r]]
    <3>1. running[r] # None /\ Up(running[r])
          BY <2>2 DEF ShownInv, RunningInv, RunningAt, Stopping
    <3>2. running[r] \in Sids /\ of[running[r]] = r
          BY <3>1 DEF TypeInv, FlatOK, RuntimeInv, HolderInv
    <3>3. QED BY <3>1, <3>2 DEF AloneInv, AloneLoop, LoopAlone
  <2>3. QED BY <2>1, <2>2 DEF Up
<1>2. Init => ShownInv
      BY SoleInit
<1>3. TypeInv /\ RuntimeInv /\ SoleInv /\ AloneInv /\ ShownInv /\ [Next]_vars => ShownInv'
      BY ShownTaskStep, StartingStep, RunningStep, StoredStep DEF ShownInv
<1>4. QED BY <1>1, <1>2, <1>3, AloneAlways, PTL DEF Spec
=============================================================================

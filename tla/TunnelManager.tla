---------------------------- MODULE TunnelManager ----------------------------
(***************************************************************************)
(* The SSH port forwarding tunnels (src-tauri/src/tunnels.rs).             *)
(*                                                                         *)
(* TunnelManager keeps three things under three locks: the stored rules    *)
(* (store_lock), the status shown for each rule (states) and the live      *)
(* runtimes (running).  Every command is an async task that takes the      *)
(* locks one after another, never two together except in delete; between   *)
(* two of them any other command, any accept loop and any forwarded client *)
(* may run.  One action is the code between two awaits.                    *)
(*                                                                         *)
(* A runtime (a member of Sids) is one SSH session together with the       *)
(* listener it serves: a local socket with its accept-loop task for local  *)
(* and dynamic rules, a tcpip-forward on the server for remote rules.  A   *)
(* rule is abstracted to the port it listens on, which an edit changes.    *)
(***************************************************************************)
EXTENDS Integers, FiniteSets

CONSTANTS
    Rules,        \* rule ids
    RemoteRules,  \* those of kind Remote; the others are Local or Dynamic
    Ports,        \* ports a rule may listen on
    Connection,   \* rule.connection_id of each rule
    Commands,     \* the commands the panel and the shell call
    Tasks,        \* commands in progress at a time (bound)
    Sids,         \* runtimes alive at a time (bound)
    MaxClients,   \* clients connected to a listener at a time (bound)
    Overlaps,     \* the rules on which two commands may work at the same time (bound)
    StoreFaults,  \* the steps at which the rule store may fail to open, read or write
    None          \* no rule, no port, no runtime

Kinds == {"start", "stop", "stop_connection", "delete", "upsert"}
Statuses == {"none", "stopped", "starting", "running", "failed", "credential_required"}
StartSteps == {"load", "check", "check_status", "set_starting", "resolve", "bind",
               "connect", "reload", "recheck", "request", "publish", "insert",
               "discard_gone", "discard_surplus", "discard_refused",
               "forget", "fail"}
StopSteps == {"remove", "close", "load_stopped", "set_stopped", "erase", "erase_state",
              "list_rules", "next_rule"}
Labels == {"idle", "edit_check", "edit_status", "save"} \cup StartSteps \cup StopSteps
LoopStates == {"none", "accepting", "failing", "cleaning", "closing"}

ASSUME TunnelAssumption ==
    /\ RemoteRules \subseteq Rules
    /\ DOMAIN Connection = Rules
    /\ None \notin Rules /\ None \notin Ports /\ None \notin Sids
    /\ Commands \subseteq Kinds
    /\ MaxClients \in Nat
    /\ StoreFaults \subseteq Labels

VARIABLES
    stored,   \* the tunnels table: the port each rule listens on, or None
    status,   \* states[rule].status, "none" when there is no entry
    active,   \* states[rule].active_connections
    running,  \* running[rule]: the registered runtime, or None
    of,       \* of each runtime: the rule it was started for
    sess,     \*   its SSH session: "open", "closed", or "lost" when it broke by itself
    port,     \*   the port it listens on, None before and after it does
    loop,     \*   its accept-loop task (local and dynamic rules), if there is one
    aborted,  \*   has task.abort() been called on that task?
    clients,  \*   its connected clients
    started, finished, \* RemoteForwardEvents of each rule not applied yet
    op, pc,   \* of each task: its command and its next step
    rule,     \*   the rule it works on
    loaded,   \*   the port of the rule it loaded
    new,      \*   the runtime it is building
    old,      \*   the runtime it took from running
    todo,     \*   stop_connection: rules still to be stopped
    crossed,  \* history: rules on which two commands have worked at the same time
    cut       \* history: rules shown as running because the store failed under their last stop

ruleVars == <<stored, status, active>>
sidVars  == <<of, sess, port, loop, aborted, clients>>
eventVars == <<started, finished>>
dataVars == <<op, rule, loaded, new, old, todo>>
taskVars == <<pc, dataVars>>
historyVars == <<crossed, cut>>
vars == <<ruleVars, running, sidVars, eventVars, taskVars, historyVars>>

IsRemote(s) == of[s] \in RemoteRules

\* Task t is a command that works on rule r; stop_connection does so for one rule at a time.
Works(t, r) == rule[t] = r /\ pc[t] \notin {"idle", "list_rules", "next_rule"}
Idle(r) == \A t \in Tasks : ~Works(t, r)
MayWorkOn(r) == r \in Overlaps \/ Idle(r)

\* No task, map entry, accept loop or event refers to the runtime any more.
Unused(s) ==
    /\ sess[s] = "closed" /\ port[s] = None /\ loop[s] = "none"
    /\ \A r \in Rules : running[r] # s
    /\ \A t \in Tasks : new[t] # s /\ old[t] # s

\* Another runtime listens on port p where rule r would: on this machine, or on
\* the SSH server for a remote rule.
PortTaken(r, p) ==
    \E s \in Sids : port[s] = p /\ (IsRemote(s) <=> r \in RemoteRules)

\* delete holds store_lock until it has removed the state as well.
StoreFree == \A t \in Tasks : pc[t] # "erase_state"

Init ==
    /\ stored \in [Rules -> Ports \cup {None}]
    /\ status = [r \in Rules |-> "none"]
    /\ active = [r \in Rules |-> 0]
    /\ running = [r \in Rules |-> None]
    /\ of = [s \in Sids |-> None]
    /\ port = [s \in Sids |-> None]
    /\ sess = [s \in Sids |-> "closed"]
    /\ loop = [s \in Sids |-> "none"]
    /\ aborted = [s \in Sids |-> FALSE]
    /\ clients = [s \in Sids |-> 0]
    /\ started = [r \in Rules |-> 0]
    /\ finished = [r \in Rules |-> 0]
    /\ op = [t \in Tasks |-> "start"]
    /\ pc = [t \in Tasks |-> "idle"]
    /\ rule = [t \in Tasks |-> None]
    /\ loaded = [t \in Tasks |-> None]
    /\ new = [t \in Tasks |-> None]
    /\ old = [t \in Tasks |-> None]
    /\ todo = [t \in Tasks |-> {}]
    /\ crossed = {} /\ cut = {}

-----------------------------------------------------------------------------
(* Steps common to the commands. *)

Goto(t, l) == pc' = [pc EXCEPT ![t] = l]

\* set_state replaces the whole entry, active_connections included.
set_state(r, v) ==
    /\ status' = [status EXCEPT ![r] = v]
    /\ active' = [active EXCEPT ![r] = 0]

\* The command returns: what it still holds is dropped, a listener it bound and
\* did not hand to an accept loop included.
Return(t) ==
    /\ pc' = [pc EXCEPT ![t] = "idle"]
    /\ rule' = [rule EXCEPT ![t] = None]
    /\ loaded' = [loaded EXCEPT ![t] = None]
    /\ new' = [new EXCEPT ![t] = None]
    /\ old' = [old EXCEPT ![t] = None]
    /\ op' = [op EXCEPT ![t] = "start"]
    /\ todo' = [todo EXCEPT ![t] = {}]

DropListener(t) == port' = [port EXCEPT ![new[t]] = None]

\* A command begins.  TunnelPanel disables the buttons of a rule while a command
\* of its own runs; tunnel_autostart and tunnel_stop_connection do not ask it, and
\* nothing in TunnelManager keeps two commands off one rule (Overlaps is a bound).
Begin(t, k, r) ==
    /\ k \in Commands
    /\ pc[t] = "idle" /\ MayWorkOn(r)
    /\ op' = [op EXCEPT ![t] = k]
    /\ rule' = [rule EXCEPT ![t] = r]
    /\ UNCHANGED <<ruleVars, running, eventVars, loaded, old, todo>>

-----------------------------------------------------------------------------
(* start, and each task that autostart spawns: start_rule. *)

\* The identity of the runtime is reserved here; it is built in Bind or Connect.
BeginStart(t, r) ==
    /\ Begin(t, "start", r)
    /\ Goto(t, "load")
    /\ \E s \in Sids :
        /\ Unused(s)
        /\ new' = [new EXCEPT ![t] = s]
        /\ of' = [of EXCEPT ![s] = r]
    /\ UNCHANGED <<sess, port, loop, aborted, clients>>

Load(t) ==
    /\ pc[t] = "load" /\ StoreFree
    /\ UNCHANGED <<ruleVars, running, sidVars, eventVars>>
    /\ \/ /\ stored[rule[t]] # None
          /\ loaded' = [loaded EXCEPT ![t] = stored[rule[t]]]
          /\ Goto(t, "check")
          /\ UNCHANGED <<op, rule, new, old, todo>>
       \/ /\ stored[rule[t]] = None \/ "load" \in StoreFaults
          /\ Return(t)

Check(t) ==
    /\ pc[t] = "check"
    /\ Goto(t, IF running[rule[t]] # None THEN "check_status" ELSE "set_starting")
    /\ UNCHANGED <<ruleVars, running, sidVars, eventVars, dataVars>>

should_replace_existing_runtime(st) ==
    st \in {"failed", "credential_required", "stopped"}

CheckStatus(t) ==
    /\ pc[t] = "check_status"
    /\ UNCHANGED <<ruleVars, running, sidVars, eventVars>>
    /\ \/ /\ should_replace_existing_runtime(status[rule[t]])
          /\ Goto(t, "remove")
          /\ UNCHANGED dataVars
       \/ /\ ~should_replace_existing_runtime(status[rule[t]])
          /\ Return(t)

SetStarting(t) ==
    /\ pc[t] = "set_starting"
    /\ set_state(rule[t], "starting")
    /\ Goto(t, "resolve")
    /\ UNCHANGED <<stored, running, sidVars, eventVars, dataVars>>

\* resolve_saved_connection: the saved connection and its credentials.
Resolve(t) ==
    /\ pc[t] = "resolve"
    /\ UNCHANGED <<stored, running, sidVars, eventVars>>
    /\ \/ /\ Goto(t, IF rule[t] \in RemoteRules THEN "connect" ELSE "bind")
          /\ UNCHANGED <<status, active, dataVars>>
       \/ /\ \E v \in {"credential_required", "failed"} : set_state(rule[t], v)
          /\ Return(t)

Bind(t) ==
    /\ pc[t] = "bind"
    /\ UNCHANGED <<stored, running, eventVars, of, sess, loop, aborted, clients>>
    /\ \/ /\ ~PortTaken(rule[t], loaded[t])
          /\ port' = [port EXCEPT ![new[t]] = loaded[t]]
          /\ Goto(t, "connect")
          /\ UNCHANGED <<status, active, dataVars>>
       \/ /\ set_state(rule[t], "failed")
          /\ Return(t)
          /\ UNCHANGED port

\* An aborted accept loop still ends the poll it is in before it is dropped (see
\* LoopStep).  That takes no longer than an SSH handshake does.
AbortsLanded == \A s \in Sids : ~aborted[s]

Connect(t) ==
    /\ pc[t] = "connect"
    /\ UNCHANGED <<stored, running, eventVars, of, loop, aborted, clients>>
    /\ \/ /\ AbortsLanded
          /\ sess' = [sess EXCEPT ![new[t]] = "open"]
          /\ Goto(t, "reload")
          /\ UNCHANGED <<status, active, port, dataVars>>
       \/ /\ set_state(rule[t], "failed")
          /\ DropListener(t)
          /\ Return(t)
          /\ UNCHANGED sess

\* load_rule after the handshake: was the rule deleted meanwhile?
Reload(t) ==
    /\ pc[t] = "reload" /\ StoreFree
    /\ \/ stored[rule[t]] # None /\ Goto(t, "recheck")
       \/ (stored[rule[t]] = None \/ "reload" \in StoreFaults) /\ Goto(t, "discard_gone")
    /\ UNCHANGED <<ruleVars, running, sidVars, eventVars, dataVars>>

\* Did another command start the rule meanwhile?
Recheck(t) ==
    /\ pc[t] = "recheck"
    /\ Goto(t, IF running[rule[t]] # None THEN "discard_surplus"
               ELSE IF rule[t] \in RemoteRules THEN "request" ELSE "publish")
    /\ UNCHANGED <<ruleVars, running, sidVars, eventVars, dataVars>>

\* set_remote_forward_target and request_remote_forward.
Request(t) ==
    /\ pc[t] = "request"
    /\ \/ /\ sess[new[t]] = "open" /\ ~PortTaken(rule[t], loaded[t])
          /\ port' = [port EXCEPT ![new[t]] = loaded[t]]
          /\ Goto(t, "publish")
       \/ /\ Goto(t, "discard_refused")
          /\ UNCHANGED port
    /\ UNCHANGED <<ruleVars, running, eventVars, of, sess, loop, aborted, clients, dataVars>>

\* set_state(running), then the accept loop is spawned.  A remote rule has a task
\* that never does anything.
Publish(t) ==
    /\ pc[t] = "publish"
    /\ set_state(rule[t], "running")
    /\ loop' = IF rule[t] \in RemoteRules THEN loop
               ELSE [loop EXCEPT ![new[t]] = "accepting"]
    /\ Goto(t, "insert")
    /\ UNCHANGED <<stored, running, of, port, sess, aborted, clients, eventVars, dataVars>>

\* The end of the session of a remote rule: the server stops listening, and the
\* forwarded channels end.
CloseRemote(s) ==
    /\ sess' = [sess EXCEPT ![s] = "closed"]
    /\ port' = [port EXCEPT ![s] = None]
    /\ clients' = [clients EXCEPT ![s] = 0]

\* The session of a remote rule lives as long as its map entry; that of a local
\* rule is also held by its accept loop, which a dropped JoinHandle detaches.
DropEntry(s) ==
    IF s # None /\ IsRemote(s) THEN CloseRemote(s) ELSE UNCHANGED <<sess, port, clients>>

Insert(t) ==
    /\ pc[t] = "insert"
    /\ running' = [running EXCEPT ![rule[t]] = new[t]]
    /\ DropEntry(running[rule[t]])
    /\ Return(t)
    /\ UNCHANGED <<ruleVars, eventVars, of, loop, aborted>>

CloseNew_Forgotten(t) ==
    UNCHANGED <<ruleVars, running, eventVars, of, sess, loop, aborted, clients>>

\* session.close() of a session that was not published.
CloseNew(t) ==
    /\ sess' = [sess EXCEPT ![new[t]] = "closed"]
    /\ UNCHANGED <<ruleVars, running, eventVars, of, loop, aborted, clients>>

DiscardGone(t) ==
    /\ pc[t] = "discard_gone"
    /\ CloseNew(t)
    /\ Goto(t, "forget")
    /\ UNCHANGED <<port, dataVars>>

DiscardSurplus(t) ==
    /\ pc[t] = "discard_surplus"
    /\ CloseNew(t)
    /\ DropListener(t)
    /\ Return(t)

DiscardRefused(t) ==
    /\ pc[t] = "discard_refused"
    /\ CloseNew(t)
    /\ Goto(t, "fail")
    /\ UNCHANGED <<port, dataVars>>

\* After discard_gone: states.remove(rule_id).
Forget(t) ==
    /\ pc[t] = "forget"
    /\ set_state(rule[t], "none")
    /\ DropListener(t)
    /\ Return(t)
    /\ UNCHANGED <<stored, running, eventVars, of, sess, loop, aborted, clients>>

\* After discard_refused: set_state(failed).
Fail(t) ==
    /\ pc[t] = "fail"
    /\ set_state(rule[t], "failed")
    /\ Return(t)
    /\ UNCHANGED <<stored, running, sidVars, eventVars>>

-----------------------------------------------------------------------------
(* stop_running, which start, stop, delete and stop_connection share. *)

AfterStop(k) ==
    IF k = "start" THEN "set_starting"
    ELSE IF k = "stop" THEN "load_stopped"
    ELSE IF k = "delete" THEN "erase"
    ELSE IF k = "stop_connection" THEN "set_stopped"
    ELSE "idle"

Abort_Detaches(s) == UNCHANGED aborted

\* task.abort(), on the accept loop if it has not ended.
Abort(s) == aborted' = [aborted EXCEPT ![s] = loop[s] # "none"]

Remove(t) ==
    /\ pc[t] = "remove"
    /\ LET s == running[rule[t]] IN
       \/ /\ s = None
          /\ Goto(t, AfterStop(op[t]))
          /\ UNCHANGED <<running, old, aborted>>
       \/ /\ s # None
          /\ running' = [running EXCEPT ![rule[t]] = None]
          /\ old' = [old EXCEPT ![t] = s]
          /\ Abort(s)
          /\ Goto(t, "close")
    /\ UNCHANGED <<ruleVars, eventVars, of, port, sess, loop, clients>>
    /\ UNCHANGED <<op, rule, loaded, new, todo>>

\* cancel_remote_forward and clear_remote_forward_target for a remote rule, then
\* session.close(): its forwarded clients end with it.
Close(t) ==
    /\ pc[t] = "close"
    /\ IF IsRemote(old[t])
       THEN CloseRemote(old[t])
       ELSE sess' = [sess EXCEPT ![old[t]] = "closed"] /\ UNCHANGED <<port, clients>>
    /\ Goto(t, AfterStop(op[t]))
    /\ UNCHANGED <<ruleVars, running, eventVars, of, loop, aborted, dataVars>>

-----------------------------------------------------------------------------
(* stop, delete, stop_connection, upsert. *)

BeginStop(t, r) ==
    /\ Begin(t, "stop", r) /\ Goto(t, "remove") /\ UNCHANGED <<sidVars, new>>

\* resolve_stopped_rule: a missing rule is no error when a runtime was stopped.
LoadStopped(t) ==
    /\ pc[t] = "load_stopped" /\ StoreFree
    /\ UNCHANGED <<ruleVars, running, sidVars, eventVars>>
    /\ \/ /\ stored[rule[t]] # None \/ old[t] # None
          /\ Goto(t, "set_stopped")
          /\ UNCHANGED dataVars
       \/ /\ (stored[rule[t]] = None /\ old[t] = None) \/ "load_stopped" \in StoreFaults
          /\ Return(t)

\* stop returns after set_state(stopped), stop_connection goes on to its next rule.
SetStopped(t) ==
    /\ pc[t] = "set_stopped"
    /\ set_state(rule[t], "stopped")
    /\ \/ /\ op[t] = "stop" /\ Return(t)
       \/ /\ op[t] = "stop_connection" /\ Goto(t, "next_rule")
          /\ UNCHANGED dataVars
    /\ UNCHANGED <<stored, running, sidVars, eventVars>>

BeginDelete(t, r) ==
    /\ Begin(t, "delete", r) /\ Goto(t, "remove") /\ UNCHANGED <<sidVars, new>>

Erase(t) ==
    /\ pc[t] = "erase" /\ StoreFree
    /\ UNCHANGED <<status, active, running, sidVars, eventVars>>
    /\ \/ /\ stored[rule[t]] # None
          /\ stored' = [stored EXCEPT ![rule[t]] = None]
          /\ Goto(t, "erase_state")
          /\ UNCHANGED dataVars
       \/ /\ stored[rule[t]] = None \/ "erase" \in StoreFaults
          /\ Return(t)
          /\ UNCHANGED stored

EraseState(t) ==
    /\ pc[t] = "erase_state"
    /\ set_state(rule[t], "none")
    /\ Return(t)
    /\ UNCHANGED <<stored, running, sidVars, eventVars>>

rules_for_connection(c) == {r \in Rules : stored[r] # None /\ Connection[r] = c}

\* r only names the connection whose session is being closed.
BeginStopConnection(t, r) ==
    /\ "stop_connection" \in Commands
    /\ pc[t] = "idle"
    /\ op' = [op EXCEPT ![t] = "stop_connection"]
    /\ rule' = [rule EXCEPT ![t] = r]
    /\ Goto(t, "list_rules")
    /\ UNCHANGED <<ruleVars, running, sidVars, eventVars, loaded, new, old, todo>>

ListRules(t) ==
    /\ pc[t] = "list_rules" /\ StoreFree
    /\ \/ /\ todo' = [todo EXCEPT ![t] = rules_for_connection(Connection[rule[t]])]
          /\ Goto(t, "next_rule")
          /\ UNCHANGED <<op, rule, loaded, new, old>>
       \/ /\ "list_rules" \in StoreFaults
          /\ Return(t)
    /\ UNCHANGED <<ruleVars, running, sidVars, eventVars>>

\* The rules are stopped one after another; in which order makes no difference.
NextRule(t) ==
    /\ pc[t] = "next_rule"
    /\ UNCHANGED <<ruleVars, running, sidVars, eventVars>>
    /\ \/ /\ todo[t] = {} /\ Return(t)
       \/ \E r \in todo[t] :
            /\ MayWorkOn(r)
            /\ rule' = [rule EXCEPT ![t] = r]
            /\ todo' = [todo EXCEPT ![t] = @ \ {r}]
            /\ old' = [old EXCEPT ![t] = None]
            /\ Goto(t, "remove")
            /\ UNCHANGED <<op, loaded, new>>

BeginUpsert(t, r) ==
    /\ Begin(t, "upsert", r) /\ Goto(t, "edit_check") /\ UNCHANGED <<sidVars, new>>

EditCheck(t) ==
    /\ pc[t] = "edit_check"
    /\ UNCHANGED <<ruleVars, running, sidVars, eventVars>>
    /\ \/ /\ running[rule[t]] = None
          /\ Goto(t, "edit_status")
          /\ UNCHANGED dataVars
       \/ running[rule[t]] # None /\ Return(t)

EditBarred(st) == st \in {"starting", "running"}

EditStatus(t) ==
    /\ pc[t] = "edit_status"
    /\ UNCHANGED <<ruleVars, running, sidVars, eventVars>>
    /\ \/ /\ ~EditBarred(status[rule[t]])
          /\ Goto(t, "save")
          /\ UNCHANGED dataVars
       \/ EditBarred(status[rule[t]]) /\ Return(t)

\* tunnel_upsert inserts the rule when it does not exist, whoever deleted it.
Save(t) ==
    /\ pc[t] = "save" /\ StoreFree
    /\ \/ \E p \in Ports : stored' = [stored EXCEPT ![rule[t]] = p]
       \/ "save" \in StoreFaults /\ UNCHANGED stored
    /\ Return(t)
    /\ UNCHANGED <<status, active, running, sidVars, eventVars>>

-----------------------------------------------------------------------------
(* run_tunnel_accept_loop and the forwarded clients. *)

\* The SSH session breaks: the server is gone, or the keepalive of russh finds it so.
\* Nothing watches it: an accept loop goes on, the clients it accepts end at once, and the
\* status stays.  The server's listener of a remote rule goes with the session.
SessionLost(s) ==
    /\ sess[s] = "open"
    /\ sess' = [sess EXCEPT ![s] = "lost"]
    /\ port' = IF IsRemote(s) THEN [port EXCEPT ![s] = None] ELSE port
    /\ UNCHANGED <<ruleVars, running, of, loop, aborted, clients, eventVars, taskVars>>

\* Bounds the clients, and active_connections, which a lost Finished event lets grow.
MayAccept ==
    /\ \A s \in Sids : clients[s] < MaxClients
    /\ \A r \in Rules : active[r] + started[r] < MaxClients

\* increment_active_connections and decrement_active_connections: only if the
\* rule has a state entry, and never below zero.
Incremented(r) == IF status[r] = "none" THEN active ELSE [active EXCEPT ![r] = @ + 1]
Decremented(r) == IF status[r] = "none" \/ active[r] = 0 THEN active
                  ELSE [active EXCEPT ![r] = @ - 1]

AcceptClient(s) ==
    /\ loop[s] = "accepting" /\ ~aborted[s]
    /\ MayAccept
    /\ clients' = [clients EXCEPT ![s] = @ + 1]
    /\ active' = Incremented(of[s])
    /\ UNCHANGED <<stored, status, running, of, port, sess, loop, aborted, eventVars, taskVars>>

ClientEnds(s) ==
    /\ loop[s] = "accepting" /\ clients[s] > 0
    /\ clients' = [clients EXCEPT ![s] = @ - 1]
    /\ active' = Decremented(of[s])
    /\ UNCHANGED <<stored, status, running, of, port, sess, loop, aborted, eventVars, taskVars>>

AcceptFails(s) ==
    /\ loop[s] = "accepting" /\ ~aborted[s]
    /\ loop' = [loop EXCEPT ![s] = "failing"]
    /\ UNCHANGED <<ruleVars, running, of, port, sess, aborted, clients, eventVars, taskVars>>

LoopFails_Silently(s) ==
    /\ loop[s] = "failing"
    /\ loop' = [loop EXCEPT ![s] = "cleaning"]
    /\ clients' = [clients EXCEPT ![s] = 0]
    /\ UNCHANGED <<ruleVars, running, of, port, sess, aborted, eventVars, taskVars>>

\* set_failed_state, then client_tasks.abort_all.
LoopFails(s) ==
    /\ loop[s] = "failing"
    /\ set_state(of[s], "failed")
    /\ loop' = [loop EXCEPT ![s] = "cleaning"]
    /\ clients' = [clients EXCEPT ![s] = 0]
    /\ UNCHANGED <<stored, running, of, port, sess, aborted, eventVars, taskVars>>

\* The loop removes the entry of its rule, whichever runtime that is.
LoopRemoves(s) ==
    /\ loop[s] = "cleaning"
    /\ running' = [running EXCEPT ![of[s]] = None]
    /\ loop' = [loop EXCEPT ![s] = "closing"]
    /\ UNCHANGED <<ruleVars, of, port, sess, aborted, clients, eventVars, taskVars>>

\* The task is dropped, with its listener and its JoinSet of clients.
LoopEnds(s) ==
    /\ loop' = [loop EXCEPT ![s] = "none"]
    /\ aborted' = [aborted EXCEPT ![s] = FALSE]
    /\ port' = [port EXCEPT ![s] = None]
    /\ clients' = [clients EXCEPT ![s] = 0]

LoopCloses_LeavesSession(s) ==
    /\ loop[s] = "closing"
    /\ LoopEnds(s)
    /\ UNCHANGED <<ruleVars, running, of, sess, eventVars, taskVars>>

\* session.close(), and then the task is over.
LoopCloses(s) ==
    /\ loop[s] = "closing"
    /\ sess' = [sess EXCEPT ![s] = "closed"]
    /\ LoopEnds(s)
    /\ UNCHANGED <<ruleVars, running, of, eventVars, taskVars>>

\* The runtime drops an aborted task between two polls.
AbortLands(s) ==
    /\ aborted[s]
    /\ LoopEnds(s)
    /\ UNCHANGED <<ruleVars, running, of, sess, eventVars, taskVars>>

\* handle_forwarded_tcpip of a remote rule.  Both events are applied by tasks of
\* their own, in any order.
ForwardStarts(s) ==
    /\ of[s] \in RemoteRules /\ sess[s] = "open" /\ port[s] # None /\ MayAccept
    /\ clients' = [clients EXCEPT ![s] = @ + 1]
    /\ started' = [started EXCEPT ![of[s]] = @ + 1]
    /\ UNCHANGED <<ruleVars, running, of, port, sess, loop, aborted, finished, taskVars>>

ForwardEnds(s) ==
    /\ of[s] \in RemoteRules /\ clients[s] > 0 /\ finished[of[s]] < MaxClients
    /\ clients' = [clients EXCEPT ![s] = @ - 1]
    /\ finished' = [finished EXCEPT ![of[s]] = @ + 1]
    /\ UNCHANGED <<ruleVars, running, of, port, sess, loop, aborted, started, taskVars>>

ApplyStarted(r) ==
    /\ started[r] > 0
    /\ started' = [started EXCEPT ![r] = @ - 1]
    /\ active' = Incremented(r)
    /\ UNCHANGED <<stored, status, running, sidVars, finished, taskVars>>

ApplyFinished(r) ==
    /\ finished[r] > 0
    /\ finished' = [finished EXCEPT ![r] = @ - 1]
    /\ active' = Decremented(r)
    /\ UNCHANGED <<stored, status, running, sidVars, started, taskVars>>

-----------------------------------------------------------------------------
(* The history a step adds to. *)

\* The stop or the delete t has taken the runtime of its rule, and returns before it wrote
\* the status because the store failed.
CutShort(t) ==
    /\ old[t] # None /\ pc'[t] = "idle"
    /\ pc[t] = "load_stopped" \/ (pc[t] = "erase" /\ stored[rule[t]] # None)

Remember ==
    /\ crossed' = crossed \cup {r \in Rules : \E t, u \in Tasks : t # u /\ Works(t, r)' /\ Works(u, r)'}
    /\ cut' = {r \in Rules : status'[r] = "running" /\ (r \in cut \/ \E t \in Tasks : rule[t] = r /\ CutShort(t))}

-----------------------------------------------------------------------------
StoreStep(t) ==
    \/ Load(t) \/ Reload(t) \/ LoadStopped(t) \/ Erase(t) \/ ListRules(t) \/ Save(t)

Step(t) ==
    \/ Check(t) \/ CheckStatus(t) \/ SetStarting(t) \/ Resolve(t) \/ Bind(t)
    \/ Connect(t) \/ Recheck(t) \/ Request(t) \/ Publish(t) \/ Insert(t)
    \/ DiscardGone(t) \/ DiscardSurplus(t) \/ DiscardRefused(t) \/ Forget(t) \/ Fail(t)
    \/ Remove(t) \/ Close(t) \/ SetStopped(t) \/ EraseState(t) \/ NextRule(t)
    \/ EditCheck(t) \/ EditStatus(t)

LoopStep(s) == LoopFails(s) \/ LoopRemoves(s) \/ LoopCloses(s) \/ AbortLands(s)

Command(t) ==
    \E r \in Rules :
        \/ BeginStart(t, r) \/ BeginStop(t, r) \/ BeginDelete(t, r)
        \/ BeginStopConnection(t, r) \/ BeginUpsert(t, r)

Next ==
    \/ \E t \in Tasks : (Command(t) \/ StoreStep(t) \/ Step(t)) /\ Remember
    \/ \E s \in Sids :
        /\ \/ AcceptClient(s) \/ ClientEnds(s) \/ AcceptFails(s) \/ LoopStep(s)
           \/ ForwardStarts(s) \/ ForwardEnds(s) \/ SessionLost(s)
        /\ Remember
    \/ \E r \in Rules : (ApplyStarted(r) \/ ApplyFinished(r)) /\ Remember

Spec == Init /\ [][Next]_vars

\* Every await of a command ends: the lock is granted in turn (tokio mutexes are
\* first come first served), the socket answers or the SSH call times out.  The
\* runtime polls every task that can go on and drops every aborted one.
FairSpec ==
    /\ Spec
    /\ \A t \in Tasks : WF_vars(Step(t) /\ Remember) /\ SF_vars(StoreStep(t) /\ Remember)
    /\ \A s \in Sids : WF_vars(LoopStep(s) /\ Remember)

-----------------------------------------------------------------------------
(* Properties. *)

\* Every variable keeps its type; in particular active_connections never wraps
\* below zero whatever events arrive late or twice (decrement_active_connections).
TypeOK ==
    /\ stored \in [Rules -> Ports \cup {None}]
    /\ status \in [Rules -> Statuses]
    /\ active \in [Rules -> Nat]
    /\ running \in [Rules -> Sids \cup {None}]
    /\ of \in [Sids -> Rules \cup {None}]
    /\ sess \in [Sids -> {"open", "lost", "closed"}]
    /\ port \in [Sids -> Ports \cup {None}]
    /\ loop \in [Sids -> LoopStates]
    /\ aborted \in [Sids -> BOOLEAN]
    /\ clients \in [Sids -> Nat]
    /\ started \in [Rules -> Nat]
    /\ finished \in [Rules -> Nat]
    /\ op \in [Tasks -> Kinds]
    /\ pc \in [Tasks -> Labels]
    /\ rule \in [Tasks -> Rules \cup {None}]
    /\ loaded \in [Tasks -> Ports \cup {None}]
    /\ new \in [Tasks -> Sids \cup {None}]
    /\ old \in [Tasks -> Sids \cup {None}]
    /\ todo \in [Tasks -> SUBSET Rules]
    /\ crossed \subseteq Rules /\ cut \subseteq Rules

\* A runtime that is at work: its session is up or its port is bound, and neither
\* its accept loop's own cleanup nor an abort is about to end it.
Serving(s) ==
    /\ sess[s] = "open" \/ (port[s] # None /\ ~aborted[s])
    /\ loop[s] \notin {"cleaning", "closing"}

\* When no command works on a rule and its status says it is down, no SSH session
\* and no listener started for it is still at work: stop, stop_connection, delete
\* and the failure paths of start_rule leave nothing behind, whatever the store does.
\* Excepted are the rules on which two commands once worked at the same time: a stop
\* that finds a start between its set_state(running) and its insert takes nothing down.
DownIsReleased ==
    \A r \in Rules \ crossed : Idle(r) /\ status[r] \notin {"starting", "running"} =>
        \A s \in Sids : of[s] = r => ~Serving(s)

\* When no command works on a rule, "running" means that its registered runtime has not
\* been taken down: nobody closed its session, and a local rule has its port and an
\* accept loop that has not ended, a remote rule its port unless the session broke by
\* itself; and no rule is left "starting".  Excepted are rules on which two commands
\* once worked at the same time, and those whose last stop or delete took the runtime
\* down and could not read or write the store.  That the session still works is not
\* promised: nothing watches it (SessionLost).
RunningIsServing ==
    \A r \in Rules \ crossed : Idle(r) =>
        /\ status[r] # "starting"
        /\ status[r] = "running" /\ r \notin cut =>
            \E s \in Sids :
                /\ running[r] = s /\ sess[s] # "closed" /\ ~aborted[s]
                /\ IF IsRemote(s) THEN port[s] # None \/ sess[s] = "lost"
                   ELSE port[s] # None /\ loop[s] \in {"accepting", "failing"}

\* However commands overlap, every open SSH session and every bound port still has
\* somebody who will close it: the command that opened or removed it, the map of
\* registered runtimes, or an accept loop that has not ended.
RuntimeIsOwned ==
    \A s \in Sids : sess[s] = "open" \/ port[s] # None =>
        \/ \E t \in Tasks : pc[t] # "idle" /\ (new[t] = s \/ old[t] = s)
        \/ \E r \in Rules : running[r] = s
        \/ loop[s] # "none"

\* A runtime that was stopped, or whose accept loop failed, lets go of its port and
\* its session.
Released ==
    \A s \in Sids :
        (aborted[s] \/ loop[s] = "failing") ~> (port[s] = None /\ sess[s] # "open")
=============================================================================

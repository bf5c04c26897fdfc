---------------------------- MODULE BatchConnect ----------------------------
(***************************************************************************)
(* "Connect all": the executor that opens the connections of a group with  *)
(* a bounded number of workers, the controller that owns one run of it at  *)
(* a time, and the workspace tabs the run opens.  A worker asks the        *)
(* workspace for a tab (adapter.start), then polls that tab until it is    *)
(* open or failed (adapter.wait).  The tab lives on its own: its step asks *)
(* for passwords and host keys, the user retries or closes it.             *)
(*                                                                         *)
(* start is a promise in the executor's interface, so a cancel may arrive  *)
(* before it answers.  An SSH tab enters terminalTabsRef inside a React    *)
(* updater: at once, or at the next render when an update of the shell is  *)
(* already pending (the run's own status report is one).  Workers carry no *)
(* identity: those not busy with a connection look for the next one.       *)
(***************************************************************************)
EXTENDS Naturals, FiniteSets

CONSTANTS
    Conns,     \* the connections of the group
    Late,      \* the ones whose tab may reach terminalTabsRef at a later render
    Limit,     \* batchConnectMaxConcurrentAttempts
    MaxNew,    \* batchConnectMaxNewSessions
    MaxTabs    \* bound on the tabs ever opened

ASSUME BatchAssumption == IsFiniteSet(Conns) /\ MaxTabs \in Nat

VARIABLES
    item,      \* run.items: the status of each connection, "none" outside the run
    todo,      \* the part of the queue no worker has taken
    started,   \* the connections taken in this run
    step,      \* what a worker is doing about a connection
    canceling, \* cancelRequested
    tabOf,       \* the tabs opened for a connection, one per try
    try        \* tries so far: the handle names the last tab

batchVars == <<item, todo, started, step, canceling, tabOf, try>>

Finished == {"success", "failed", "cancelled"}
Handles == Conns \X (1 .. MaxTabs)
handle(c) == <<c, try[c]>>

BatchInit ==
    /\ item = [c \in Conns |-> "none"]
    /\ todo = {} /\ started = {} /\ step = [c \in Conns |-> "none"] /\ canceling = FALSE
    /\ tabOf = [h \in Handles |-> "none"] /\ try = [c \in Conns |-> 0]

Busy == {c \in Conns : step[c] # "none"}

\* executionRef is cleared once every worker has returned.
Executing == Busy # {} \/ (todo # {} /\ ~canceling)

active == \E c \in Conns : item[c] \in {"queued", "connecting", "waiting-user"}

-----------------------------------------------------------------------------
(* The controller and its two panels.                                      *)

launch(S) ==
    /\ todo' = S /\ started' = {} /\ canceling' = FALSE
    /\ UNCHANGED <<step, tabOf, try>>

\* The preview selects what is not open yet, up to the limit; the user may add
\* and remove candidates.
Selectable(S) == S # {} /\ Cardinality(S) <= MaxNew

start(S) ==
    /\ ~active /\ ~Executing
    /\ Selectable(S)
    /\ item' = [c \in Conns |-> IF c \in S THEN "queued" ELSE "none"]
    /\ launch(S)

retryFailed ==
    LET failed == {c \in Conns : item[c] = "failed"} IN
    /\ ~active /\ ~Executing
    /\ failed # {}
    /\ item' = [c \in Conns |-> IF c \in failed THEN "queued" ELSE item[c]]
    /\ launch(failed)

dismiss ==
    /\ ~active /\ ~Executing
    /\ \E c \in Conns : item[c] # "none"
    /\ item' = [c \in Conns |-> "none"]
    /\ UNCHANGED <<todo, started, step, canceling, tabOf, try>>

Active == {c \in Conns : step[c] = "waiting"}

cancelRemaining ==
    /\ active /\ ~canceling
    /\ canceling' = TRUE
    /\ item' = [c \in Conns |-> IF c \in todo \/ (c \in Active /\ item[c] \notin Finished)
                                  THEN "cancelled" ELSE item[c]]
    /\ tabOf' = [h \in Handles |-> IF h[1] \in Active /\ h = handle(h[1])
                                   THEN "gone" ELSE tabOf[h]]
    /\ todo' = {}
    /\ UNCHANGED <<started, step, try>>

-----------------------------------------------------------------------------
(* A worker.                                                               *)

\* The next connection: the workspace opens a tab for it.
Take(c) ==
    /\ c \in todo /\ ~canceling /\ Cardinality(Busy) < Limit
    /\ Cardinality({h \in Handles : tabOf[h] # "none"}) < MaxTabs
    /\ todo' = todo \ {c}
    /\ started' = started \cup {c}
    /\ item' = [item EXCEPT ![c] = "connecting"]
    /\ step' = [step EXCEPT ![c] = "starting"]
    /\ try' = [try EXCEPT ![c] = @ + 1]
    /\ \E s \in {"connecting"} \cup (IF c \in Late THEN {"unseen"} ELSE {}) :
          tabOf' = [tabOf EXCEPT ![<<c, try[c] + 1>>] = s]
    /\ UNCHANGED canceling

\* The connection was deleted since the preview.
TakeMissing(c) ==
    /\ c \in todo /\ ~canceling /\ Cardinality(Busy) < Limit
    /\ todo' = todo \ {c}
    /\ item' = [item EXCEPT ![c] = "failed"]
    /\ UNCHANGED <<started, step, canceling, tabOf, try>>

\* start has answered; a cancel that came before is carried out now.
Started_NotClosed(c) ==
    /\ step[c] = "starting"
    /\ step' = [step EXCEPT ![c] = IF canceling THEN "none" ELSE "waiting"]
    /\ item' = IF canceling THEN [item EXCEPT ![c] = "cancelled"] ELSE item
    /\ UNCHANGED <<tabOf, todo, started, canceling, try>>

Started(c) ==
    /\ step[c] = "starting"
    /\ IF canceling
         THEN /\ step' = [step EXCEPT ![c] = "none"]
              /\ item' = [item EXCEPT ![c] = "cancelled"]
              /\ tabOf' = [tabOf EXCEPT ![handle(c)] = "gone"]
         ELSE /\ step' = [step EXCEPT ![c] = "waiting"]
              /\ UNCHANGED <<item, tabOf>>
    /\ UNCHANGED <<todo, started, canceling, try>>

\* What the poll makes of the tab: one that is not in the collection counts as
\* closed.
batchWorkspaceHandleState(c) ==
    CASE tabOf[handle(c)] = "open" -> "success"
      [] tabOf[handle(c)] \in {"failed", "gone", "unseen"} -> "failed"
      [] tabOf[handle(c)] = "asking" -> "waiting-user"
      [] OTHER -> "connecting"

Poll(c) ==
    LET s == batchWorkspaceHandleState(c) IN
    /\ step[c] = "waiting"
    /\ step' = IF s \in Finished THEN [step EXCEPT ![c] = "none"] ELSE step
    /\ item' = IF item[c] = "cancelled" THEN item ELSE [item EXCEPT ![c] = s]
    /\ UNCHANGED <<todo, started, canceling, tabOf, try>>

-----------------------------------------------------------------------------
(* The tabs, as their steps, their users and React move them.              *)

\* Next states of a tab: the connect answers, asks for a credential or a host
\* key, is answered; a tab that connects may be closed, a failed one retried by
\* the user.  What becomes of a tab that is open or in the user's hands is no
\* longer the run's.
TabMoves == [unseen |-> {"connecting"},
             connecting |-> {"open", "failed", "asking", "gone"},
             asking |-> {"connecting", "gone"},
             failed |-> {"retried"}]

MoveTab(h, s) ==
    /\ tabOf[h] \in DOMAIN TabMoves /\ s \in TabMoves[tabOf[h]]
    /\ tabOf' = [tabOf EXCEPT ![h] = s]
    /\ UNCHANGED <<item, todo, started, step, canceling, try>>

BatchUser == (\E S \in SUBSET Conns : start(S)) \/ retryFailed \/ dismiss \/ cancelRemaining

Work(c) == Take(c) \/ TakeMissing(c) \/ Started(c) \/ Poll(c)

BatchNext ==
    \/ BatchUser
    \/ \E c \in Conns : Work(c)
    \/ \E h \in Handles : \E s \in {"connecting", "asking", "open", "failed", "retried", "gone"} :
          MoveTab(h, s)

BatchSpec == BatchInit /\ [][BatchNext]_batchVars
-----------------------------------------------------------------------------
BatchTypeOK ==
    /\ item \in [Conns -> Finished \cup {"none", "queued", "connecting", "waiting-user"}]
    /\ todo \subseteq Conns /\ started \subseteq Conns /\ canceling \in BOOLEAN
    /\ step \in [Conns -> {"none", "starting", "waiting"}]
    /\ tabOf \in [Handles -> DOMAIN TabMoves \cup {"none", "open", "retried", "gone"}]
    /\ try \in [Conns -> 0 .. MaxTabs]

(* Once a cancelled run is over, no tab it opened for a connection it      *)
(* reports as cancelled is left, whenever the cancel came.                 *)
CancelReleases ==
    ~Executing => \A c \in started : item[c] = "cancelled" => tabOf[handle(c)] = "gone"
=============================================================================

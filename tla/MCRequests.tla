----------------------------- MODULE MCRequests -----------------------------
(***************************************************************************)
(* What the workspace asks of the backend, one kind of request at a time:  *)
(* two transfers, one whose command is called at once and one that writes  *)
(* and packs a local cache first; "connect all" over two connections, one  *)
(* of them an SSH tab that may be seen late, opened up to three times; the *)
(* steps of a temporary and of a saved tab to one host; a panel that asks  *)
(* the AI up to three questions in up to two sessions; the monitor and the *)
(* file panel of a temporary connection that is saved; and the logs of two *)
(* containers.                                                             *)
(***************************************************************************)
EXTENDS FileTransfer, BatchConnect, ConnectionStep, AiChat, RemoteMonitor, DockerLogs, FilePanel

CONSTANTS x1, x2, c1, c2, t1, t2, k1, k2, h1, h2

DirectAndArchived == (x1 :> "direct") @@ (x2 :> "archived")

VARIABLE part

vars == <<part, transferVars, batchVars, stepVars, chatVars, monitorVars, logsVars, filesVars>>

\* One limit is enough where no transfers run.
Init ==
    /\ part \in {"transfers", "batch", "steps", "chat", "monitor", "logs", "files"}
    /\ TransferInit /\ BatchInit /\ StepInit /\ ChatInit /\ MonitorInit /\ LogsInit /\ FilesInit
    /\ part = "transfers" \/ limit = 1

Next ==
    \/ /\ part = "transfers" /\ TransferNext
       /\ UNCHANGED <<part, batchVars, stepVars, chatVars, monitorVars, logsVars, filesVars>>
    \/ /\ part = "batch" /\ BatchNext
       /\ UNCHANGED <<part, transferVars, stepVars, chatVars, monitorVars, logsVars, filesVars>>
    \/ /\ part = "steps" /\ StepNext
       /\ UNCHANGED <<part, transferVars, batchVars, chatVars, monitorVars, logsVars, filesVars>>
    \/ /\ part = "chat" /\ ChatNext
       /\ UNCHANGED <<part, transferVars, batchVars, stepVars, monitorVars, logsVars, filesVars>>
    \/ /\ part = "monitor" /\ MonitorNext
       /\ UNCHANGED <<part, transferVars, batchVars, stepVars, chatVars, logsVars, filesVars>>
    \/ /\ part = "logs" /\ LogsNext
       /\ UNCHANGED <<part, transferVars, batchVars, stepVars, chatVars, monitorVars, filesVars>>
    \/ /\ part = "files" /\ FilesNext
       /\ UNCHANGED <<part, transferVars, batchVars, stepVars, chatVars, monitorVars, logsVars>>

\* A part that does not run has no request in flight: its fairness asks nothing.
Spec == Init /\ [][Next]_vars /\ TransferFairness /\ ChatFairness
=============================================================================

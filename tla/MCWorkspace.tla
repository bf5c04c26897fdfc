---------------------------- MODULE MCWorkspace ----------------------------
(***************************************************************************)
(* What the workspace shows, one part at a time: the tabs of two SSH       *)
(* hosts, a local shell and two remote desktops; a split group of three    *)
(* terminals; one input to three terminals; the tab of a remote file; two  *)
(* terminals over three starts; a windowed VNC tab and two RDP tabs; the   *)
(* Docker lists of a temporary connection that is saved; the output of a   *)
(* terminal; the dialog of a stored connection, of a duplicate of it and   *)
(* of a new one.                                                           *)
(***************************************************************************)
EXTENDS SessionTabs, SplitPanes, MultiExec, RemoteEditor, WorkspaceSnapshot, RemoteDesktop,
        DockerPanel, TerminalOutput, ConnectionForm

CONSTANTS a1, a2, b1, l1, r1, v1, fa, A, B, R, V, s1, s2, s3, p1, p2, i1, i2, d1, d2, d3

HostOf == (a1 :> A) @@ (a2 :> A) @@ (b1 :> B) @@ (r1 :> R) @@ (v1 :> V) @@ (fa :> A)

TrimOf == ("" :> "") @@ ("a" :> "a") @@ ("b" :> "b") @@ (" b" :> "b") @@ (" " :> "")

CONSTANT Parts      \* the parts this run looks at

VARIABLE part

vars == <<part, tabsVars, splitVars, multiVars, editorVars, snapshotVars, desktopVars, dockerVars, outputVars, formVars>>

\* Where no form is filled in, one stored connection is enough; which version a file starts
\* with makes no difference.
Init ==
    /\ part \in Parts
    /\ TabsInit /\ SplitInit /\ MultiInit /\ EditorInit /\ SnapshotInit
    /\ DesktopInit /\ DockerInit /\ OutputInit /\ FormInit
    /\ file.version = 1
    /\ part = "form" \/ rows[p1] = StoredRow

Next ==
    \/ /\ part = "tabs" /\ TabsNext
       /\ UNCHANGED <<part, splitVars, multiVars, editorVars, snapshotVars, desktopVars, dockerVars, outputVars, formVars>>
    \/ /\ part = "split" /\ SplitNext
       /\ UNCHANGED <<part, tabsVars, multiVars, editorVars, snapshotVars, desktopVars, dockerVars, outputVars, formVars>>
    \/ /\ part = "multi" /\ MultiNext
       /\ UNCHANGED <<part, tabsVars, splitVars, editorVars, snapshotVars, desktopVars, dockerVars, outputVars, formVars>>
    \/ /\ part = "editor" /\ EditorNext
       /\ UNCHANGED <<part, tabsVars, splitVars, multiVars, snapshotVars, desktopVars, dockerVars, outputVars, formVars>>
    \/ /\ part = "restarts" /\ SnapshotNext
       /\ UNCHANGED <<part, tabsVars, splitVars, multiVars, editorVars, desktopVars, dockerVars, outputVars, formVars>>
    \/ /\ part = "desktops" /\ DesktopNext
       /\ UNCHANGED <<part, tabsVars, splitVars, multiVars, editorVars, snapshotVars, dockerVars, outputVars, formVars>>
    \/ /\ part = "docker" /\ DockerNext
       /\ UNCHANGED <<part, tabsVars, splitVars, multiVars, editorVars, snapshotVars, desktopVars, outputVars, formVars>>
    \/ /\ part = "output" /\ OutputNext
       /\ UNCHANGED <<part, tabsVars, splitVars, multiVars, editorVars, snapshotVars, desktopVars, dockerVars, formVars>>
    \/ /\ part = "form" /\ FormNext
       /\ UNCHANGED <<part, tabsVars, splitVars, multiVars, editorVars, snapshotVars, desktopVars, dockerVars, outputVars>>

Spec == Init /\ [][Next]_vars
=============================================================================

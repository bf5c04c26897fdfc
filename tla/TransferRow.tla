---------------------------- MODULE TransferRow ----------------------------
(***************************************************************************)
(* What the transfer panel promises about a row, whatever the queue, the   *)
(* tasks and the backend do: a row begins queued (or as the error of a     *)
(* picker), runs, and ends once; only a retry takes it out of "error", and *)
(* nothing takes it out of "success", "skipped" or "canceled" but its      *)
(* removal.  Rows of Revivable transfers, the uploads that write a local   *)
(* cache first, are allowed to go from "canceled" back to "running".       *)
(***************************************************************************)
CONSTANTS Transfers, Revivable

VARIABLE row

Ended == {"success", "skipped", "error", "canceled"}

Init == row = [t \in Transfers |-> "none"]

(* A handler may start a row it has just queued, or end one it has just    *)
(* started, before anything else is seen.                                  *)
Begin == {"none", "error"} \X {"queued", "running", "error"}
Finish == {"queued", "running"} \X (Ended \cup {"running"})
Forget == Ended \X {"gone"}
Drop == {"queued", "running"} \X {"gone"}
Life == Begin \cup Finish \cup Forget \cup Drop

(* One step of the panel may move several rows, each along its life.       *)
Next ==
    /\ row' \in [Transfers -> Ended \cup {"none", "queued", "running", "gone"}]
    /\ \A t \in Transfers : \/ row'[t] = row[t]
                            \/ <<row[t], row'[t]>> \in Life
                            \/ t \in Revivable /\ row[t] = "canceled" /\ row'[t] = "running"

Spec == Init /\ [][Next]_row
=============================================================================

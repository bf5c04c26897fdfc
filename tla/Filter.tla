------------------------------- MODULE Filter -------------------------------
(***************************************************************************)
(* Array.prototype.filter, by which the workspace takes tabs, panes, rows  *)
(* and queued tasks out of their lists.  SelectSeq is the same function,   *)
(* but the provers know nothing of it and cannot be given a predicate; a   *)
(* set and a recursive function they can reason about.                     *)
(***************************************************************************)
EXTENDS Naturals, Sequences

\* The entries of s that are in S, in their order.
Among(s, S) ==
    LET kept[n \in 0 .. Len(s)] ==
            IF n = 0 THEN <<>>
            ELSE IF s[n] \in S THEN Append(kept[n - 1], s[n]) ELSE kept[n - 1]
    IN  kept[Len(s)]
=============================================================================

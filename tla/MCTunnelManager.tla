-------------------------- MODULE MCTunnelManager --------------------------
(* Instances of TunnelManager for TLC. *)
EXTENDS TunnelManager, TLC

\* All rules belong to one saved connection.
OneConnection == [r \in Rules |-> "c1"]

Symmetry == Permutations(Tasks) \cup Permutations(Sids)
=============================================================================

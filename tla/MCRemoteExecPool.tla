-------------------------- MODULE MCRemoteExecPool --------------------------
EXTENDS RemoteExecPool, TLC

\* Tasks and session identities are interchangeable; connection ids are
\* ordered and are not.
Symmetry == Permutations(Callers) \cup Permutations(Sessions)
=============================================================================

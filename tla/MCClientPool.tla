---------------------------- MODULE MCClientPool ----------------------------
\* The instance of ClientPool that TLC checks.
EXTENDS ClientPool, TLC

\* Callers are alike, and so are the names of clients.
Alike == Permutations(Callers) \cup Permutations(Clients)
=============================================================================

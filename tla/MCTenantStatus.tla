--------------------------- MODULE MCTenantStatus ---------------------------
(* TLC instance of TenantStatus: replicas and handlers are interchangeable. *)
EXTENDS TenantStatus, TLC
Symmetry == Permutations(Processes) \cup Permutations(Handlers)
=============================================================================

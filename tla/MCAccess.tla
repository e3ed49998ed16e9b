------------------------------ MODULE MCAccess ------------------------------
(* TLC instance of Access: a reader that declares no action and a writer,  *)
(* which shares its scope, or has one of its own, or none.  Editors and    *)
(* replicas are interchangeable.                                           *)
EXTENDS Access, TLC
CONSTANTS rd, wr
MCCatalogs == {[t \in {rd, wr} |-> IF t = rd THEN [action |-> "unset", scopes |-> {"data", "readonly"}]
                                             ELSE [action |-> "write", scopes |-> S]]
                 : S \in {{"data"}, {}}}
MCPolicies == {OpenPolicy, [off |-> {rd}, only |-> {wr}]}
Symmetry == Permutations(Editors) \cup Permutations(Replicas)
=============================================================================

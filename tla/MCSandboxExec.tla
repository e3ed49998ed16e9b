--------------------------- MODULE MCSandboxExec ---------------------------
(* An instance of SandboxExec: one slot for all and siblings, one slot for  *)
(* the tenant, and two runs that call one upstream host at the same time.   *)
EXTENDS SandboxExec, TLC

MCSettings ==
  {[global |-> 1, tenant |-> 2, bridges |-> {"db", "tool"}, asks |-> 2, faults |-> 2],
   [global |-> 0, tenant |-> 1, bridges |-> {"http"}, asks |-> 1, faults |-> 2],
   [global |-> 0, tenant |-> 2, bridges |-> {"db", "http"}, asks |-> 1, faults |-> 1]}
=============================================================================

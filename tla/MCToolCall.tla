----------------------------- MODULE MCToolCall -----------------------------
(* An instance of ToolCall with three kinds of traffic: two calls of one    *)
(* gated tool at once; one call of it while requests expire; one call of a  *)
(* cacheable code tool across the turn of a month.                          *)
EXTENDS ToolCall

CONSTANTS c1, c2, u1, u2, del, run

MCLoads ==
  {[callers |-> {c1, c2}, users |-> {u1}, targets |-> {del}, surfaces |-> {"rpc"},
    clock |-> FALSE, billing |-> FALSE],
   [callers |-> {c1}, users |-> {u1, u2}, targets |-> {del}, surfaces |-> {"rpc", "mcp"},
    clock |-> TRUE, billing |-> FALSE],
   [callers |-> {c1}, users |-> {u1}, targets |-> {run}, surfaces |-> {"rpc", "mcp"},
    clock |-> FALSE, billing |-> TRUE]}
=============================================================================

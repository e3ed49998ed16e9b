---------------------------- MODULE SandboxExec ----------------------------
(***************************************************************************)
(* One run of a code tool from end to end: WasmExecutor.run                *)
(* (services/sandbox_executor.py), the throwaway worker process            *)
(* (services/sandbox_worker.py) and the bridges through which the guest    *)
(* reaches the database, sibling tools and the network                     *)
(* (services/sandbox_{db,tool,http}_bridge.py).                            *)
(*                                                                         *)
(* Three kinds of actors interleave: the host tasks, which share one event *)
(* loop (a step is the code between two awaits), the worker's main thread, *)
(* and the guest thread inside it.  Guest and worker talk through files    *)
(* (req-n, resp-n), worker and host through two pipes.  A run and the      *)
(* sibling run it is waiting for are one asyncio task, so a cancellation   *)
(* strikes the innermost of them.                                          *)
(***************************************************************************)
EXTENDS Naturals, FiniteSets, Sequences

CONSTANTS
  Runs,         \* executions, each used once: a request's own or a sibling's
  Tenants,
  Settings,     \* configurations, each with the bounds it is explored to: its slots in all
                \* (0: no limit) and per tenant, its bridges, the bridge calls of a guest,
                \* and the timers that fire, processes that die and reads that go wrong
  MaxDepth,     \* sandbox_tool_call_max_depth
  MaxCalls,     \* sandbox_*_max_calls_per_invocation
  MaxFailures,  \* sandbox_http_breaker_failures
  Reset,        \* sandbox_http_breaker_reset_seconds, in ticks
  HttpLimit,    \* sandbox_http_max_concurrency_per_tenant
  HttpGlobal,   \* sandbox_http_max_global_concurrency, 0 for no limit
  MaxAsks,      \* the largest of the bounds on bridge calls
  MaxTime       \* bound on the clock

Nil == "none"
Kinds == {"db", "tool", "http"}
Asks == 1..MaxAsks
NoFrame == [kind |-> Nil, id |-> 0, call |-> 0]
NoLine == [kind |-> Nil, ok |-> FALSE]
Shutdown == [kind |-> "shutdown", ok |-> FALSE]

ASSUME ExecAssumption ==
  /\ Settings \subseteq [global : Nat, tenant : Nat \ {0}, bridges : SUBSET Kinds,
                        asks : 0..MaxAsks, faults : Nat]
  /\ MaxDepth \in Nat /\ MaxCalls \in Nat \ {0} /\ MaxFailures \in Nat \ {0}
  /\ Reset \in Nat /\ HttpLimit \in Nat \ {0} /\ HttpGlobal \in Nat /\ MaxAsks \in Nat \ {0}
  /\ MaxTime \in Nat /\ Nil \notin Runs \cup Tenants /\ IsFiniteSet(Runs)

VARIABLES
  settings,  \* the deployment's configuration
  host,      \* a run: idle, global, tenant, stage, pump, serve, reap or done
  tenant,    \* request.tenant_id
  caller,    \* the run whose guest called this one
  ancestors, \* that run, the one whose guest called it, and so on
  child,     \* the run its guest's call is waiting for
  fate,      \* how the run ends: ok, failed (SandboxError) or cancelled
  timer,     \* the wait_for over the run has fired
  garbled,   \* the host could not read one of its worker's frames
  used,      \* bridge.calls of the run's bridges
  work,      \* the worker process: none, boot, loop, ask (reads stdin), write (of a frame
             \* longer than the pipe and the host's reader hold) or gone
  guest,     \* its guest: run, wait (for resp-n) or done
  calls,     \* the kinds of the bridge calls the guest has made
  req,       \* the req-n files: which call is in them, 0 when there is none
  resp,      \* the resp-n files
  stdout,        \* the frame in the worker's stdout, or being served
  stdin,      \* the lines in its stdin
  served,    \* the calls the host answered with success
  seen,      \* the calls the guest was told had succeeded
  http,      \* a context.http call: no, queued, held (its global slot) or sent
  stale,     \* history: its breaker opened after the call had passed it
  failures, openUntil,  \* the breaker of a tenant and the upstream host
  now, faults

request == <<tenant, caller, ancestors>>
hosts == <<host, request, child, fate, timer, garbled, used>>
files == <<calls, req, resp, seen>>
workers == <<work, guest, files>>
pipes == <<stdout, stdin>>
egress == <<http, stale, failures, openUntil>>
evars == <<settings, hosts, workers, pipes, served, egress, now, faults>>

EInit ==
  /\ settings \in Settings
  /\ host = [r \in Runs |-> "idle"]
  /\ tenant = [r \in Runs |-> Nil] /\ caller = [r \in Runs |-> Nil]
  /\ ancestors = [r \in Runs |-> {}]
  /\ child = [r \in Runs |-> Nil] /\ fate = [r \in Runs |-> Nil]
  /\ timer = [r \in Runs |-> FALSE] /\ garbled = [r \in Runs |-> FALSE]
  /\ used = [r \in Runs |-> [k \in Kinds |-> 0]]
  /\ work = [r \in Runs |-> "none"] /\ guest = [r \in Runs |-> "run"]
  /\ calls = [r \in Runs |-> <<>>]
  /\ req = [r \in Runs |-> [n \in Asks |-> 0]]
  /\ resp = [r \in Runs |-> [n \in Asks |-> NoLine]]
  /\ stdout = [r \in Runs |-> NoFrame] /\ stdin = [r \in Runs |-> <<>>]
  /\ served = [r \in Runs |-> {}]
  /\ seen = [r \in Runs |-> {}]
  /\ http = [r \in Runs |-> "no"] /\ stale = [r \in Runs |-> FALSE]
  /\ failures = [t \in Tenants |-> 0] /\ openUntil = [t \in Tenants |-> 0]
  /\ now = 0 /\ faults = 0

Fault == faults < settings.faults /\ faults' = faults + 1

Nested(r) == caller[r] # Nil
Depth(r) == Cardinality(ancestors[r])
Enabled(r) == settings.bridges \ (IF Depth(r) >= MaxDepth THEN {"tool"} ELSE {})

-----------------------------------------------------------------------------
(* The host: slots, staging and the spawn                                  *)

Holding == {r \in Runs : ~Nested(r) /\ host[r] \in {"stage", "pump", "serve", "reap"}}
InGlobal == Holding \cup {r \in Runs : ~Nested(r) /\ host[r] = "tenant"}

GlobalFree == settings.global = 0 \/ Cardinality(InGlobal) < settings.global
TenantFree(t) == Cardinality({r \in Holding : tenant[r] = t}) < settings.tenant

Goto(r, pc) == host' = [host EXCEPT ![r] = pc]

\* executor.run is awaited under wait_for for a request of its own.
Begin(r, t) ==
  /\ host[r] = "idle"
  /\ Goto(r, "global")
  /\ tenant' = [tenant EXCEPT ![r] = t]
  /\ UNCHANGED <<settings, caller, ancestors, child, fate, timer, garbled, used, workers, pipes,
                 served, egress, now, faults>>

\* Mutant: a sibling run queues for a slot its caller already holds.
EnterGlobalAgain(r) ==
  /\ host[r] = "global"
  /\ GlobalFree
  /\ Goto(r, "tenant")
  /\ UNCHANGED <<settings, request, child, fate, timer, garbled, used, workers, pipes,
                 served, egress, now, faults>>

\* _global_guard; a nested run passes both gates.
EnterGlobal(r) ==
  /\ host[r] = "global"
  /\ Nested(r) \/ GlobalFree
  /\ Goto(r, "tenant")
  /\ UNCHANGED <<settings, request, child, fate, timer, garbled, used, workers, pipes,
                 served, egress, now, faults>>

\* _tenant_semaphore
EnterTenant(r) ==
  /\ host[r] = "tenant"
  /\ Nested(r) \/ TenantFree(tenant[r])
  /\ Goto(r, "stage")
  /\ UNCHANGED <<settings, request, child, fate, timer, garbled, used, workers, pipes,
                 served, egress, now, faults>>

\* _stage_requirements refuses, fails or runs out of time, or no process starts.
StageFails(r) ==
  /\ host[r] = "stage" /\ Fault
  /\ Goto(r, "done")
  /\ fate' = [fate EXCEPT ![r] = "failed"]
  /\ UNCHANGED <<settings, request, child, timer, garbled, used, workers, pipes, served,
                 egress, now>>

\* The requirements are staged, job.json is written and the worker spawned.
SpawnWorker(r) ==
  /\ host[r] = "stage"
  /\ Goto(r, "pump")
  /\ work' = [work EXCEPT ![r] = "boot"]
  /\ UNCHANGED <<settings, request, child, fate, timer, garbled, used, guest, files,
                 pipes, served, egress, now, faults>>

-----------------------------------------------------------------------------
(* The worker and its guest                                                *)

\* The module is loaded, from the cache or compiled, and the guest started.
Boot(r) ==
  /\ work[r] = "boot"
  /\ work' = [work EXCEPT ![r] = "loop"]
  /\ UNCHANGED <<settings, hosts, guest, files, pipes, served, egress, now, faults>>

\* The last frame of a worker, and its exit.
Emit(r, kind) ==
  /\ work' = [work EXCEPT ![r] = "gone"]
  /\ stdout' = [stdout EXCEPT ![r] = [kind |-> kind, id |-> 0, call |-> 0]]

\* main(): no interpreter, no job file, or a module that does not load.
BootFails(r) ==
  /\ work[r] = "boot" /\ host[r] # "done" /\ Fault
  /\ Emit(r, "error")
  /\ UNCHANGED <<settings, hosts, guest, files, stdin, served, egress, now>>

Live(r) == work[r] \in {"boot", "loop", "ask", "write"}

\* The process is killed by the system, or by its own limits, before it emits a frame.
Dies(r) ==
  /\ Live(r) /\ Fault
  /\ work' = [work EXCEPT ![r] = "gone"]
  /\ UNCHANGED <<settings, hosts, guest, files, pipes, served, egress, now>>

\* A worker with its job directory: process and run are both there.
Executing(r) == work[r] \in {"loop", "ask", "write"} /\ host[r] # "done"

\* Mutant: the counter of the guest's requests is never advanced.
RpcIdFixed(n) == 1

\* The name of the guest's n-th request and response file.
RpcId(n) == n

\* The worker only looks for requests with the database or the tool bridge on.
Relaying(r) == Enabled(r) \cap {"db", "tool"} # {}

\* _bridge_call: the guest writes req-n and waits for resp-n.  (A bridge that is off
\* refuses in the guest.)
Ask(r, k) ==
  /\ Executing(r) /\ guest[r] = "run" /\ Len(calls[r]) < settings.asks
  /\ k \in Enabled(r) /\ Relaying(r)
  /\ calls' = [calls EXCEPT ![r] = Append(@, k)]
  /\ req' = [req EXCEPT ![r][RpcId(Len(calls[r]) + 1)] = Len(calls[r]) + 1]
  /\ guest' = [guest EXCEPT ![r] = "wait"]
  /\ UNCHANGED <<settings, hosts, work, resp, seen, pipes, served, egress, now, faults>>

\* context.db, context.tools and context.http
AskDb(r) == Ask(r, "db")
AskTool(r) == Ask(r, "tool")
AskHttp(r) == Ask(r, "http")

Current(r) == Len(calls[r])
Learn(r, ok) ==
  /\ seen' = [seen EXCEPT ![r] = @ \cup (IF ok THEN {Current(r)} ELSE {})]
  /\ guest' = [guest EXCEPT ![r] = "run"]

\* The guest reads its response, or only part of it, and removes both files.
TakeAnswer(r) ==
  LET n == RpcId(Current(r)) IN
  /\ Executing(r) /\ guest[r] = "wait" /\ resp[r][n] # NoLine
  /\ \/ Learn(r, resp[r][n].ok) /\ UNCHANGED faults
     \/ Learn(r, FALSE) /\ Fault
  /\ req' = [req EXCEPT ![r][n] = 0]
  /\ resp' = [resp EXCEPT ![r][n] = NoLine]
  /\ UNCHANGED <<settings, hosts, work, calls, pipes, served, egress, now>>

\* The guest gives up waiting; its request stays where it is.
GiveUp(r) ==
  /\ Executing(r) /\ guest[r] = "wait" /\ resp[r][RpcId(Current(r))] = NoLine
  /\ Fault
  /\ Learn(r, FALSE)
  /\ UNCHANGED <<settings, hosts, work, calls, req, resp, pipes, served, egress, now>>

Ends(r, how) ==
  /\ guest' = [guest EXCEPT ![r] = how]
  /\ UNCHANGED <<settings, hosts, work, files, pipes, served, egress, now, faults>>

\* The tool's function returned or raised, and the bootstrap wrote what came of it.
GuestReturns(r) == Executing(r) /\ guest[r] = "run" /\ Ends(r, "done")

\* The guest's fuel has run out, or its epoch timer fires, which stands still only
\* while a request of its own is with the host.
GuestStopped(r) ==
  /\ Executing(r) /\ (guest[r] = "run" \/ (guest[r] = "wait" /\ work[r] = "loop"))
  /\ Ends(r, "stopped")

Pending(r) == {n \in Asks : req[r][n] # 0}

\* The worker relays the first request; one read half-written goes to the database bridge.
RelayRequest(r) == \E n \in Pending(r) :
  LET frame(k) == [id |-> n, call |-> req[r][n], kind |-> k] IN
  /\ Executing(r) /\ work[r] = "loop" /\ Relaying(r)
  /\ \A m \in Pending(r) : n <= m
  /\ work' = [work EXCEPT ![r] = "ask"]
  /\ \/ stdout' = [stdout EXCEPT ![r] = frame(calls[r][req[r][n]])] /\ UNCHANGED faults
     \/ stdout' = [stdout EXCEPT ![r] = frame("torn")] /\ Fault
  /\ UNCHANGED <<settings, hosts, guest, files, stdin, served, egress, now>>

\* A line on stdin answers the request in hand, whatever the line is.
Answer(r) ==
  /\ Executing(r) /\ work[r] = "ask" /\ stdin[r] # <<>>
  /\ work' = [work EXCEPT ![r] = "loop"]
  /\ resp' = [resp EXCEPT ![r][stdout[r].id] = Head(stdin[r])]
  /\ req' = [req EXCEPT ![r][stdout[r].id] = 0]
  /\ stdout' = [stdout EXCEPT ![r] = NoFrame]
  /\ stdin' = [stdin EXCEPT ![r] = Tail(@)]
  /\ UNCHANGED <<settings, hosts, guest, calls, seen, served, egress, now, faults>>

\* The guest is done and nothing is left to relay.
Finished(r) == guest[r] \in {"done", "stopped"} /\ Pending(r) = {}

\* The result, or the trap that ended the guest, in a frame the pipe and the host's
\* reader hold: the worker need not wait for the host.
EmitResult(r) ==
  /\ Executing(r) /\ work[r] = "loop" /\ Finished(r)
  /\ Emit(r, IF guest[r] = "done" THEN "result" ELSE "error")
  /\ UNCHANGED <<settings, hosts, guest, files, stdin, served, egress, now, faults>>

\* A result or a request in a frame they do not hold (the frame budget is ten times the
\* reader's limit): the worker is in its write until the host has read enough of it.
WriteLong(r) ==
  /\ Executing(r) /\ work[r] = "loop" /\ Fault
  /\ Finished(r) \/ (Relaying(r) /\ Pending(r) # {})
  /\ work' = [work EXCEPT ![r] = "write"]
  /\ stdout' = [stdout EXCEPT ![r] = [kind |-> "long", id |-> 0, call |-> 0]]
  /\ UNCHANGED <<settings, hosts, guest, files, stdin, served, egress, now>>

\* A worker whose run has left it finds its directory removed at the next file it
\* touches, or its pipe closed, unless it is waiting for a line.
Orphaned(r) ==
  /\ host[r] = "done" /\ Live(r)
  /\ work[r] = "ask" => stdin[r] # <<>>
  /\ work' = [work EXCEPT ![r] = "gone"]
  /\ stdin' = [stdin EXCEPT ![r] = <<>>]
  /\ UNCHANGED <<settings, hosts, guest, files, stdout, served, egress, now, faults>>

-----------------------------------------------------------------------------
(* The host: the frame pump and the dispatch to a bridge                   *)

Write(r, line) == stdin' = [stdin EXCEPT ![r] = Append(@, line)]

Unread(r) == stdout[r] # NoFrame /\ stdin[r] = <<>>

\* A bridge frame is read and handed to the dispatcher.
ReadRequest(r) ==
  /\ host[r] = "pump" /\ Unread(r) /\ stdout[r].kind \notin {"result", "error", "long"}
  /\ Goto(r, "serve")
  /\ UNCHANGED <<settings, request, child, fate, timer, garbled, used, workers, pipes,
                 served, egress, now, faults>>

\* The answer goes to the worker's stdin and the pump reads on.
Reply(r, ok) ==
  /\ Goto(r, "pump")
  /\ served' = [served EXCEPT ![r] = @ \cup (IF ok THEN {stdout[r].call} ELSE {})]
  /\ Write(r, [kind |-> "answer", ok |-> ok])

BridgeOf(k) == IF k = "torn" THEN "db" ELSE k
Serving(r, k) ==
  host[r] = "serve" /\ BridgeOf(stdout[r].kind) = k /\ child[r] = Nil /\ http[r] = "no"
Budget(r, k) == used[r][k] < MaxCalls
Spend(r, k) == used' = [used EXCEPT ![r][k] = @ + 1]

\* The failure is the answer.  A bridge that is off counts nothing, one whose budget
\* is spent nothing more.
Refuse(r, k) ==
  /\ Serving(r, k)
  /\ IF k \in Enabled(r) /\ Budget(r, k) THEN Spend(r, k) ELSE UNCHANGED used
  /\ Reply(r, FALSE)
  /\ UNCHANGED <<settings, request, child, fate, timer, garbled, workers, stdout, egress,
                 now, faults>>

\* No operation, a collection or a pipeline stage the tool may not use, a timeout, too
\* large a result.
RefuseDb(r) == Refuse(r, "db")

\* make_tool_invoker: too deep, over a quota, or a tool the caller may not call.
RefuseTool(r) == Refuse(r, "tool")

\* A method, URL, header or body the tool may not send, or an open breaker.
RefuseHttp(r) == Refuse(r, "http")

\* SandboxDbBridge: the operation succeeded within its time and size limits.
ServeDb(r) ==
  /\ Serving(r, "db") /\ Budget(r, "db") /\ stdout[r].kind = "db"
  /\ Spend(r, "db")
  /\ Reply(r, TRUE)
  /\ UNCHANGED <<settings, request, child, fate, timer, garbled, workers, stdout, egress,
                 now, faults>>

\* The invoker lets the call pass: the sibling runs in this run's place.
CallTool(r, c) ==
  /\ Serving(r, "tool") /\ Budget(r, "tool") /\ "tool" \in Enabled(r) /\ host[c] = "idle"
  /\ Spend(r, "tool")
  /\ Goto(c, "global")
  /\ tenant' = [tenant EXCEPT ![c] = tenant[r]]
  /\ caller' = [caller EXCEPT ![c] = r]
  /\ ancestors' = [ancestors EXCEPT ![c] = ancestors[r] \cup {r}]
  /\ child' = [child EXCEPT ![r] = c]
  /\ UNCHANGED <<settings, fate, timer, garbled, workers, pipes, served, egress, now, faults>>

\* Its result, unless too large, or its failure is the answer.
ToolReturns(r) ==
  /\ child[r] # Nil /\ host[child[r]] = "done"
  /\ \E ok \in BOOLEAN : (ok => fate[child[r]] = "ok") /\ Reply(r, ok)
  /\ child' = [child EXCEPT ![r] = Nil]
  /\ UNCHANGED <<settings, request, fate, timer, garbled, used, workers, stdout, egress,
                 now, faults>>

-----------------------------------------------------------------------------
(* SandboxHttpBridge: breaker, slots and the request                       *)

\* Mutant: an open breaker turns no request away.
BreakerIgnored(t) == TRUE

BreakerClosed(t) == Reset = 0 \/ now >= openUntil[t]

\* raise_if_open lets the request pass; it queues for a slot.
HttpAdmit(r) ==
  /\ Serving(r, "http") /\ Budget(r, "http") /\ BreakerClosed(tenant[r])
  /\ Spend(r, "http")
  /\ http' = [http EXCEPT ![r] = "queued"]
  /\ stale' = [stale EXCEPT ![r] = FALSE]
  /\ UNCHANGED <<settings, host, request, child, fate, timer, garbled, workers, pipes,
                 served, failures, openUntil, now, faults>>

HttpHold(r) ==
  /\ http[r] = "queued"
  /\ HttpGlobal = 0 \/ Cardinality({q \in Runs : http[q] \in {"held", "sent"}}) < HttpGlobal
  /\ http' = [http EXCEPT ![r] = "held"]
  /\ UNCHANGED <<settings, hosts, workers, pipes, served, stale, failures, openUntil, now,
                 faults>>

HttpSend(r) ==
  /\ http[r] = "held"
  /\ Cardinality({q \in Runs : http[q] = "sent" /\ tenant[q] = tenant[r]}) < HttpLimit
  /\ http' = [http EXCEPT ![r] = "sent"]
  /\ UNCHANGED <<settings, hosts, workers, pipes, served, stale, failures, openUntil, now,
                 faults>>

RecordSuccess(t) ==
  /\ failures' = [failures EXCEPT ![t] = 0]
  /\ openUntil' = [openUntil EXCEPT ![t] = 0]
  /\ UNCHANGED stale

RecordFailure(r, t) ==
  LET opens == failures[t] + 1 >= MaxFailures IN
  /\ failures' = [failures EXCEPT ![t] = IF opens THEN MaxFailures ELSE @ + 1]
  /\ openUntil' = [openUntil EXCEPT ![t] = IF opens THEN now + Reset ELSE @]
  /\ stale' = [q \in Runs |-> stale[q] \/ (opens /\ q # r /\ tenant[q] = t /\ http[q] # "no")]

HttpEnds(r, ok) ==
  /\ http[r] = "sent"
  /\ http' = [http EXCEPT ![r] = "no"]
  /\ Reply(r, ok)
  /\ UNCHANGED <<settings, request, child, fate, timer, garbled, used, workers, stdout,
                 now, faults>>

\* An answer came; one that is too large is refused after the breaker has seen a success.
HttpAnswered(r) == \E ok \in BOOLEAN : HttpEnds(r, ok) /\ RecordSuccess(tenant[r])

\* A timeout or a transport error counts against the upstream.  The timeout is that of
\* every read and write: an upstream that trickles its answer ends the call when it likes.
HttpFailed(r) == HttpEnds(r, FALSE) /\ RecordFailure(r, tenant[r])

\* The egress policy forbids the address: no health signal.
HttpBlocked(r) == HttpEnds(r, FALSE) /\ UNCHANGED <<failures, openUntil, stale>>

Tick ==
  /\ now < MaxTime /\ \E t \in Tenants : now < openUntil[t]   \* nothing else reads the clock
  /\ now' = now + 1
  /\ UNCHANGED <<settings, hosts, workers, pipes, served, egress, faults>>

-----------------------------------------------------------------------------
(* The host: the end of a run                                              *)

Over(r, f) == fate' = [fate EXCEPT ![r] = f]

\* The result frame.  _result_from_frame: the guest's own failure, or too much output.
ReadResult(r) ==
  /\ host[r] = "pump" /\ Unread(r) /\ stdout[r].kind \in {"result", "error"}
  /\ Goto(r, "reap")
  /\ \E f \in {"ok", "failed"} : (f = "ok" => stdout[r].kind = "result") /\ Over(r, f)
  /\ UNCHANGED <<settings, request, child, timer, garbled, used, workers, pipes, served,
                 egress, now, faults>>

\* The worker died: an empty read ends the pump.
Eof(r) ==
  /\ host[r] = "pump" /\ work[r] = "gone" /\ ~Unread(r)
  /\ Goto(r, "reap")
  /\ Over(r, "failed")
  /\ UNCHANGED <<settings, request, child, timer, garbled, used, workers, pipes, served,
                 egress, now, faults>>

\* A frame that is malformed or longer than the stream's limit raises out of the pump,
\* and nobody reads the worker's stdout from then on.
Unreadable(r) ==
  /\ host[r] = "pump" /\ Unread(r)
  /\ Goto(r, "reap")
  /\ Over(r, "failed")
  /\ garbled' = [garbled EXCEPT ![r] = TRUE]
  /\ Write(r, Shutdown)
  /\ UNCHANGED <<settings, request, child, timer, used, workers, stdout, served, egress, now>>
Garble(r) == Unreadable(r) /\ Fault
ReadLong(r) == Unreadable(r) /\ stdout[r].kind = "long" /\ UNCHANGED faults

\* Bridges, pipes and the temporary directory go with the run.
Dispose(r) ==
  /\ used' = [used EXCEPT ![r] = [k \in Kinds |-> 0]]
  /\ calls' = [calls EXCEPT ![r] = <<>>]
  /\ req' = [req EXCEPT ![r] = [n \in Asks |-> 0]]
  /\ resp' = [resp EXCEPT ![r] = [n \in Asks |-> NoLine]]
  /\ stdout' = [stdout EXCEPT ![r] = NoFrame]
  /\ guest' = [guest EXCEPT ![r] = "done"]
  /\ served' = [served EXCEPT ![r] = {}]
  /\ seen' = [seen EXCEPT ![r] = {}]

\* The pump's own deadline: the worker is killed.
HostTimeout(r) ==
  /\ host[r] = "pump" /\ Fault
  /\ Goto(r, "done")
  /\ Over(r, "failed")
  /\ Dispose(r)
  /\ work' = [work EXCEPT ![r] = "gone"]
  /\ stdin' = [stdin EXCEPT ![r] = <<>>]
  /\ UNCHANGED <<settings, request, child, timer, garbled, egress, now>>

\* CancelledError leaves run d, and strikes the run that was waiting for it.
Unwind(d) ==
  LET p == caller[d]
      lines(r) == IF work[r] = "gone" THEN <<>> ELSE stdin[r] IN
  /\ Dispose(d)
  /\ host' = [r \in Runs |-> CASE r = d -> "done" [] r = p -> "reap" [] OTHER -> host[r]]
  /\ fate' = [r \in Runs |-> IF r \in {d, p} THEN "cancelled" ELSE fate[r]]
  /\ child' = [r \in Runs |-> IF r = p THEN Nil ELSE child[r]]
  /\ stdin' = [r \in Runs |-> CASE r = d -> lines(d) [] r = p -> Append(stdin[p], Shutdown)
                               [] OTHER -> stdin[r]]

\* Mutant: the run is over without a wait for the worker it interrupted.
ReapAtOnce(r) ==
  /\ host[r] = "reap"
  /\ IF fate[r] = "cancelled"
       THEN Unwind(r)
       ELSE /\ Goto(r, "done") /\ Dispose(r)
            /\ UNCHANGED <<stdin, fate, child>>
  /\ UNCHANGED <<settings, request, timer, garbled, work, egress, now, faults>>

\* The finally clause: process.wait() returns once the worker is gone.
Reap(r) ==
  /\ host[r] = "reap" /\ work[r] = "gone"
  /\ IF fate[r] = "cancelled"
       THEN Unwind(r)
       ELSE /\ Goto(r, "done") /\ Dispose(r)
            /\ stdin' = [stdin EXCEPT ![r] = <<>>]
            /\ UNCHANGED <<fate, child>>
  /\ UNCHANGED <<settings, request, timer, garbled, work, egress, now, faults>>

\* CancelledError is raised where the task is waiting, in run d; not in one that is over.
Strike(d) ==
  \/ /\ host[d] \in {"global", "tenant", "stage", "reap"}
     /\ Unwind(d)
     /\ UNCHANGED http
  \/ /\ host[d] \in {"pump", "serve"}
     /\ Goto(d, "reap")
     /\ Over(d, "cancelled")
     /\ Write(d, Shutdown)
     /\ http' = [http EXCEPT ![d] = "no"]
     /\ UNCHANGED <<child, used, files, stdout, guest, served>>

\* The run in whose code the task of run r is waiting.
Innermost(r) == {d \in Runs : (d = r \/ r \in ancestors[d]) /\ child[d] = Nil}

\* The wait_for over a run fires.  A sibling's starts later with the same timeout, so
\* it fires after the one of the run that called it.
TimeOut(r) ==
  /\ host[r] \notin {"idle", "done"} /\ ~timer[r] /\ Fault
  /\ Nested(r) => timer[caller[r]]
  /\ timer' = [timer EXCEPT ![r] = TRUE]
  /\ \E d \in Innermost(r) : Strike(d)
  /\ UNCHANGED <<settings, request, garbled, work, stale, failures, openUntil, now>>

-----------------------------------------------------------------------------
Progress(r) ==
  \/ EnterGlobal(r) \/ EnterTenant(r) \/ SpawnWorker(r) \/ Boot(r) \/ TakeAnswer(r)
  \/ GuestReturns(r) \/ GuestStopped(r)
  \/ RelayRequest(r) \/ Answer(r) \/ EmitResult(r)
  \/ ReadRequest(r) \/ ReadResult(r) \/ ReadLong(r) \/ Eof(r)
  \/ RefuseDb(r) \/ RefuseTool(r) \/ RefuseHttp(r)
  \/ ToolReturns(r) \/ HttpHold(r) \/ HttpSend(r) \/ Reap(r)

ENext ==
  \/ \E r \in Runs :
       \/ Progress(r)
       \/ \E t \in Tenants : Begin(r, t)
       \/ AskDb(r) \/ AskTool(r) \/ AskHttp(r)
       \/ \E c \in Runs : CallTool(r, c)
       \/ ServeDb(r) \/ HttpAdmit(r) \/ HttpAnswered(r) \/ HttpFailed(r) \/ HttpBlocked(r)
       \/ StageFails(r) \/ BootFails(r) \/ Dies(r) \/ GiveUp(r) \/ Orphaned(r) \/ Garble(r)
       \/ WriteLong(r) \/ HostTimeout(r) \/ TimeOut(r)
  \/ Tick

ESpec == EInit /\ [][ENext]_evars

\* Host tasks and processes are scheduled, a guest's fuel runs out, and the database and
\* tool bridges answer: the operation ends by its own deadline, the sibling's run as this
\* one does.  Nothing ends a request that was sent upstream.
EFairSpec == ESpec /\ \A r \in Runs : WF_evars(Progress(r))

-----------------------------------------------------------------------------
(* Properties                                                              *)

Abandoned(r) == host[r] = "done" /\ Live(r)

Ancestry(r) == {r} \cup ancestors[r]
Interruptions(r) ==
  Cardinality({q \in Ancestry(r) : timer[q]}) + (IF garbled[r] THEN 1 ELSE 0)

\* The slots of WasmExecutor.run bound the worker processes, not only the tasks: a run
\* gives its slot back after its worker has gone, whatever ended it, unless a second
\* interruption strikes the finally clause that waits for the worker.
SlotsBoundWorkers ==
  /\ \A r \in Runs : Abandoned(r) => Interruptions(r) >= 2
  /\ \A t \in Tenants :
       Cardinality({r \in Runs : Live(r) /\ ~Nested(r) /\ tenant[r] = t /\ ~Abandoned(r)})
         <= settings.tenant
  /\ settings.global # 0 =>
       Cardinality({r \in Runs : Live(r) /\ ~Nested(r) /\ ~Abandoned(r)}) <= settings.global

\* A guest that is told its bridge call succeeded got the answer to that very call: a
\* late answer, a half-read file or the shutdown line is never taken for it.
OkIsItsOwn ==
  \A r \in Runs : seen[r] \subseteq served[r]

\* An open breaker stays open for its reset time: the only thing that closes it early
\* is the late success of a request that had passed the check before it opened.
OpenUntilReset ==
  [][\A t \in Tenants :
       (now < openUntil[t] /\ now' = now /\ openUntil'[t] <= now') =>
         \E r \in Runs : tenant[r] = t /\ http[r] = "sent" /\ http'[r] = "no" /\ stale[r]]_evars

\* What a run can wait for without end: a worker that reads a line the host, past its
\* pump, will never write; one that writes a frame the host will never read; an upstream
\* that never finishes its answer (the pump awaits the dispatch without a deadline).
Stranded(r) == host[r] = "reap" /\ work[r] = "ask" /\ stdin[r] = <<>>
Blocked(r) == host[r] = "reap" /\ work[r] = "write"
Stuck(r) == Stranded(r) \/ Blocked(r) \/ http[r] = "sent"

\* Every run ends, siblings included, whatever the limits and without help from the
\* caller's timeout, unless some run is stuck for ever: the slots it holds are lost to
\* the others.
EveryRunEnds ==
  \A r \in Runs :
    ((host[r] # "idle") ~> (host[r] = "done")) \/ <>[](\E q \in Runs : Stuck(q))
=============================================================================

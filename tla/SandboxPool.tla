---------------------------- MODULE SandboxPool ----------------------------
(***************************************************************************)
(* The pool of prewarmed sandbox workers: WorkerPool of                    *)
(* services/sandbox_pool.py, as used by PooledWasmExecutor.                *)
(*                                                                         *)
(* Everything runs on one event loop: a step is the code between two       *)
(* awaits.  The tasks are the submitters, the starter, one background      *)
(* refill per discarded worker, the sweeper and the shutdown.  The free    *)
(* queue is a bag (how often a worker is queued): no property is about its *)
(* order, and all of them are about a worker being queued twice.           *)
(***************************************************************************)
EXTENDS Naturals, FiniteSets

CONSTANTS
  Workers,     \* names for worker processes; a name is reused once its process is reaped
  Callers,     \* concurrent submit() calls
  Size,        \* sandbox_pool_size
  MaxJobs,     \* sandbox_worker_max_jobs
  MaxRelays,   \* sandbox_tool_max_calls_per_invocation
  MaxMishaps,  \* bound on deaths, failed pings and retirements of workers
  MaxLost      \* bound on spawns that fail or are cancelled

ASSUME PoolAssumption ==
  /\ Size \in Nat \ {0} /\ MaxJobs \in Nat \ {0}
  /\ MaxRelays \in Nat /\ MaxMishaps \in Nat /\ MaxLost \in Nat
  /\ IsFiniteSet(Workers)
ASSUME NameAssumption ==
  /\ {"none", "free", "starter"} \cap Workers = {} /\ "none" \notin Callers

VARIABLES
  proc,     \* the process of a worker: none, up or dead
  alive,    \* worker.alive: not yet discarded or terminated
  jobs,     \* worker.jobs
  busy,     \* a request was written and its result frame not read yet
  all,      \* self._all
  queued,   \* self._free
  pc,       \* a submitter: idle, waiting for a worker, running on one
  lease,    \* its worker
  parent,   \* the caller whose job relayed this one (context.tools)
  relays,   \* calls its job has relayed so far
  lock,     \* self._lock: free, or held by the starter or by a refill
  newborn,  \* the worker the lock holder has spawned and is pinging
  toStart,  \* spawns the starter still has to do
  refill,   \* _reap_and_refill of a discarded worker
  sweep,    \* the sweeper: off, asleep, at work or pinging
  drained,  \* the idle workers it took from the queue
  pinged,   \* the one it pings
  started, closed,
  down,     \* shutdown(): no, closing, terminating or done
  victims,  \* the workers it still has to terminate
  mishaps,
  lost      \* history: places in the pool that no task will refill

None == "none"
Starter == "starter"

worker == <<proc, alive, jobs, busy>>
pool == <<all, queued, lock, newborn, toStart, refill>>
callers == <<pc, lease, parent, relays>>
sweeper == <<sweep, drained, pinged>>
closing == <<closed, down, victims>>
history == <<mishaps, lost>>
vars == <<worker, pool, callers, sweeper, started, closing, history>>

Init == /\ proc = [w \in Workers |-> "none"]
        /\ alive = [w \in Workers |-> FALSE]
        /\ jobs = [w \in Workers |-> 0]
        /\ busy = [w \in Workers |-> FALSE]
        /\ all = {}
        /\ queued = [w \in Workers |-> 0]
        /\ pc = [c \in Callers |-> "idle"]
        /\ lease = [c \in Callers |-> None]
        /\ parent = [c \in Callers |-> None]
        /\ relays = [c \in Callers |-> 0]
        /\ lock = "free" /\ newborn = None /\ toStart = 0
        /\ refill = [w \in Workers |-> "none"]
        /\ sweep = "off" /\ drained = {} /\ pinged = None
        /\ started = FALSE /\ closed = FALSE /\ down = "no" /\ victims = {}
        /\ mishaps = 0 /\ lost = 0

Mishap == mishaps < MaxMishaps /\ mishaps' = mishaps + 1 /\ UNCHANGED lost
Loss(n) == lost + n <= MaxLost /\ lost' = lost + n /\ UNCHANGED mishaps

Enqueue(w) == queued' = [queued EXCEPT ![w] = @ + 1]

\* _discard: kill now, refill in the background; a no-op the second time.
Discard(w) ==
  IF alive[w]
    THEN /\ alive' = [alive EXCEPT ![w] = FALSE]
         /\ proc' = [proc EXCEPT ![w] = "dead"]
         /\ all' = all \ {w}
         /\ refill' = [refill EXCEPT ![w] = "reap"]
    ELSE UNCHANGED <<alive, proc, all, refill>>

-----------------------------------------------------------------------------
(* start() and _spawn_worker                                               *)

\* create_subprocess_exec succeeded; the lock holder awaits the first ping.
Spawn(r) ==
  /\ proc[r] = "none"
  /\ proc' = [proc EXCEPT ![r] = "up"]
  /\ alive' = [alive EXCEPT ![r] = TRUE]
  /\ jobs' = [jobs EXCEPT ![r] = 0]
  /\ busy' = [busy EXCEPT ![r] = FALSE]
  /\ newborn' = r

\* The newborn answered its ping and joins the pool.
Admit(r) ==
  /\ all' = all \cup {r}
  /\ Enqueue(r)
  /\ newborn' = None

\* The newborn is terminated: it failed its ping or the pool has closed.
Stillborn(r) ==
  /\ proc' = [proc EXCEPT ![r] = IF closed THEN "dead" ELSE "none"]
  /\ alive' = [alive EXCEPT ![r] = FALSE]
  /\ newborn' = None

\* The lifespan prewarms the pool, or the first submit starts it.
Start ==
  /\ ~started /\ ~closed /\ lock = "free"
  /\ started' = TRUE /\ lock' = Starter /\ toStart' = Size
  /\ UNCHANGED <<worker, all, queued, newborn, refill, callers, sweeper, closing, history>>

StarterSpawn ==
  /\ lock = Starter /\ toStart > 0 /\ newborn = None
  /\ \/ \E r \in Workers : Spawn(r) /\ UNCHANGED <<toStart, history>>
     \/ Loss(1) /\ toStart' = toStart - 1 /\ UNCHANGED <<worker, newborn>>
  /\ UNCHANGED <<all, queued, lock, refill, callers, sweeper, started, closing>>

StarterPing ==
  /\ lock = Starter /\ newborn # None
  /\ toStart' = toStart - 1
  /\ \/ Admit(newborn) /\ UNCHANGED <<worker, history>>
     \/ Stillborn(newborn) /\ Loss(1) /\ UNCHANGED <<all, queued, jobs, busy>>
  /\ UNCHANGED <<lock, refill, callers, sweeper, started, closing>>

StarterDone ==
  /\ lock = Starter /\ toStart = 0
  /\ lock' = "free" /\ sweep' = "asleep"
  /\ UNCHANGED <<worker, all, queued, newborn, toStart, refill, callers, drained, pinged,
                 started, closing, history>>

\* A start() inside a submit is cancelled at the call's wall timeout: the pool
\* stays "started" with what it has, and the process being pinged is orphaned.
StarterCancelled ==
  /\ lock = Starter /\ toStart > 0
  /\ Loss(toStart)
  /\ lock' = "free" /\ toStart' = 0 /\ newborn' = None
  /\ UNCHANGED <<worker, all, queued, refill, callers, sweeper, started, closing>>

-----------------------------------------------------------------------------
(* submit() and _run_on_worker                                             *)

\* A call asks for a worker ...
Submit(c) ==
  /\ pc[c] = "idle" /\ started /\ ~closed
  /\ pc' = [pc EXCEPT ![c] = "wait"]
  /\ UNCHANGED <<worker, pool, lease, parent, relays, sweeper, started, closing, history>>

\* While a relayed call is running its parent awaits the dispatch.
Unblocked(c) == pc[c] = "run" /\ \A d \in Callers : parent[d] # c

\* ... or a running job p asks the host to run a sibling tool, which takes a
\* worker of its own.
Relay(c) == \E p \in Callers :
  /\ pc[c] = "idle" /\ ~closed
  /\ Unblocked(p) /\ proc[lease[p]] = "up" /\ relays[p] < MaxRelays
  /\ pc' = [pc EXCEPT ![c] = "wait"]
  /\ parent' = [parent EXCEPT ![c] = p]
  /\ relays' = [relays EXCEPT ![p] = @ + 1]
  /\ UNCHANGED <<worker, pool, lease, sweeper, started, closing, history>>

Leave(c) == /\ pc' = [pc EXCEPT ![c] = "idle"]
            /\ lease' = [lease EXCEPT ![c] = None]
            /\ parent' = [parent EXCEPT ![c] = None]
            /\ relays' = [relays EXCEPT ![c] = 0]

\* The queue hands out a worker; one that died while idle is recycled.
Acquire(c) == \E w \in Workers :
  /\ pc[c] = "wait" /\ queued[w] > 0
  /\ queued' = [queued EXCEPT ![w] = @ - 1]
  /\ IF proc[w] = "dead"
       THEN Discard(w) /\ UNCHANGED <<busy, pc, lease>>
       ELSE /\ pc' = [pc EXCEPT ![c] = "run"]
            /\ lease' = [lease EXCEPT ![c] = w]
            /\ busy' = [busy EXCEPT ![w] = TRUE]
            /\ UNCHANGED <<alive, proc, all, refill>>
  /\ UNCHANGED <<jobs, parent, relays, lock, newborn, toStart, sweeper, started, closing,
                 history>>

\* Mutant: a relayed call waits for a worker without a deadline.
AcquireTimeoutTopLevel(c) ==
  /\ pc[c] = "wait" /\ parent[c] = None
  /\ Leave(c)
  /\ UNCHANGED <<worker, pool, sweeper, started, closing, history>>

\* The acquire budget is spent, or the call is cancelled while it waits.
AcquireTimeout(c) ==
  /\ pc[c] = "wait"
  /\ Leave(c)
  /\ UNCHANGED <<worker, pool, sweeper, started, closing, history>>

\* The result frame: the worker is requeued, or recycled after max_jobs.
Served(c) ==
  LET w == lease[c] IN
  /\ Unblocked(c) /\ proc[w] = "up"
  /\ busy' = [busy EXCEPT ![w] = FALSE]
  /\ jobs' = [jobs EXCEPT ![w] = @ + 1]
  /\ IF jobs[w] + 1 >= MaxJobs
       THEN Discard(w) /\ UNCHANGED queued
       ELSE Enqueue(w) /\ UNCHANGED <<alive, proc, all, refill>>
  /\ Leave(c)
  /\ UNCHANGED <<lock, newborn, toStart, sweeper, started, closing, history>>

\* Mutant: cancellation in mid-job is not caught.
RunFailedUncaught(c) ==
  LET w == lease[c] IN
  /\ Unblocked(c)
  /\ proc[w] = "up" => Mishap /\ UNCHANGED <<alive, proc, all, refill>>
  /\ proc[w] # "up" => UNCHANGED history /\ Discard(w)
  /\ Leave(c)
  /\ UNCHANGED <<busy, jobs, queued, lock, newborn, toStart, sweeper, started, closing>>

\* Timeout, malformed frame, dead worker, or cancellation in mid-job.
RunFailed(c) ==
  LET w == lease[c] IN
  /\ Unblocked(c)
  /\ proc[w] = "up" => Mishap
  /\ proc[w] # "up" => UNCHANGED history
  /\ Discard(w)
  /\ Leave(c)
  /\ UNCHANGED <<busy, jobs, queued, lock, newborn, toStart, sweeper, started, closing>>

-----------------------------------------------------------------------------
(* _reap_and_refill                                                        *)

\* The task is over; the name of the reaped process can be reused.
RefillEnd(w) ==
  /\ refill' = [refill EXCEPT ![w] = "none"]
  /\ proc' = [proc EXCEPT ![w] = IF closed THEN "dead" ELSE "none"]

RefillReap(w) ==
  /\ refill[w] = "reap"
  /\ IF closed THEN RefillEnd(w)
               ELSE refill' = [refill EXCEPT ![w] = "lock"] /\ UNCHANGED proc
  /\ UNCHANGED <<alive, jobs, busy, all, queued, lock, newborn, toStart, callers, sweeper,
                 started, closing, history>>

Full == closed \/ Cardinality(all) >= Size

RefillSpawn(w) ==
  /\ refill[w] = "lock" /\ lock = "free" /\ ~Full
  /\ \E r \in Workers : Spawn(r)
  /\ refill' = [refill EXCEPT ![w] = "ping"] /\ lock' = w
  /\ UNCHANGED <<all, queued, toStart, callers, sweeper, started, closing, history>>

\* Nothing to refill, or the spawn fails: the task just returns.
RefillNothing(w) ==
  /\ refill[w] = "lock" /\ lock = "free"
  /\ IF Full THEN UNCHANGED history ELSE Loss(1)
  /\ RefillEnd(w)
  /\ UNCHANGED <<alive, jobs, busy, all, queued, lock, newborn, toStart, callers, sweeper,
                 started, closing>>

RefillAdmit(w) ==
  /\ refill[w] = "ping" /\ ~closed
  /\ Admit(newborn)
  /\ RefillEnd(w)
  /\ lock' = "free"
  /\ UNCHANGED <<alive, jobs, busy, toStart, callers, sweeper, started, closing, history>>

RefillStillborn(w) ==
  /\ refill[w] = "ping"
  /\ IF closed THEN UNCHANGED history ELSE Loss(1)
  /\ proc' = [proc EXCEPT ![w] = IF closed THEN "dead" ELSE "none",
                          ![newborn] = IF closed THEN "dead" ELSE "none"]
  /\ alive' = [alive EXCEPT ![newborn] = FALSE]
  /\ refill' = [refill EXCEPT ![w] = "none"]
  /\ newborn' = None /\ lock' = "free"
  /\ UNCHANGED <<jobs, busy, all, queued, toStart, callers, sweeper, started, closing>>

-----------------------------------------------------------------------------
(* _sweep_loop and _sweep_once                                             *)

\* Mutant: the sweep looks at the queued workers without taking them.
SweepDrainPeek ==
  /\ sweep = "asleep" /\ ~closed
  /\ drained' = {w \in Workers : queued[w] > 0}
  /\ sweep' = "work"
  /\ UNCHANGED <<worker, pool, callers, pinged, started, closing, history>>

\* The sweep takes every queued worker at once.
SweepDrain ==
  /\ sweep = "asleep" /\ ~closed
  /\ drained' = {w \in Workers : queued[w] > 0}
  /\ queued' = [w \in Workers |-> 0]
  /\ sweep' = "work"
  /\ UNCHANGED <<worker, all, lock, newborn, toStart, refill, callers, pinged, started,
                 closing, history>>

\* A dead or over-age worker is discarded ...
SweepRetire(w) ==
  /\ sweep = "work" /\ w \in drained
  /\ IF proc[w] = "dead" THEN UNCHANGED history ELSE Mishap
  /\ Discard(w)
  /\ drained' = drained \ {w}
  /\ UNCHANGED <<jobs, busy, queued, lock, newborn, toStart, callers, sweep, pinged, started,
                 closing>>

\* ... and any other one pinged,
SweepPing(w) ==
  /\ sweep = "work" /\ w \in drained /\ proc[w] = "up"
  /\ sweep' = "ping" /\ pinged' = w
  /\ UNCHANGED <<worker, pool, callers, drained, started, closing, history>>

\* requeued if it answers and discarded if not.
SweepPong ==
  /\ sweep = "ping"
  /\ \/ /\ proc[pinged] = "up" /\ Enqueue(pinged)
        /\ UNCHANGED <<alive, proc, all, refill, history>>
     \/ /\ IF proc[pinged] = "dead" THEN UNCHANGED history ELSE Mishap
        /\ Discard(pinged)
        /\ UNCHANGED queued
  /\ drained' = drained \ {pinged}
  /\ sweep' = "work" /\ pinged' = None
  /\ UNCHANGED <<jobs, busy, lock, newborn, toStart, callers, started, closing>>

SweepDone ==
  /\ sweep = "work" /\ drained = {}
  /\ sweep' = "asleep"
  /\ UNCHANGED <<worker, pool, callers, drained, pinged, started, closing, history>>

-----------------------------------------------------------------------------
(* shutdown(), and the workers themselves                                  *)

\* The pool closes and the sweep task is cancelled with what it had drained.
Close ==
  /\ ~closed
  /\ closed' = TRUE /\ down' = "closing"
  /\ sweep' = "off" /\ drained' = {} /\ pinged' = None
  /\ UNCHANGED <<worker, pool, callers, started, victims, history>>

Drain ==
  /\ down = "closing"
  /\ victims' = all /\ all' = {} /\ queued' = [w \in Workers |-> 0]
  /\ down' = "terminating"
  /\ UNCHANGED <<worker, lock, newborn, toStart, refill, callers, sweeper, started, closed,
                 history>>

Terminate(w) ==
  /\ down = "terminating" /\ w \in victims
  /\ alive' = [alive EXCEPT ![w] = FALSE]
  /\ proc' = [proc EXCEPT ![w] = "dead"]
  /\ victims' = victims \ {w}
  /\ UNCHANGED <<jobs, busy, pool, callers, sweeper, started, closed, down, history>>

\* The refills are cancelled, wherever they are.
CloseDone ==
  /\ down = "terminating" /\ victims = {}
  /\ down' = "done"
  /\ refill' = [w \in Workers |-> "none"]
  /\ IF lock \in Workers THEN lock' = "free" /\ newborn' = None
                         ELSE UNCHANGED <<lock, newborn>>
  /\ UNCHANGED <<worker, all, queued, toStart, callers, sweeper, started, closed, victims,
                 history>>

\* A worker process exits by itself, idle or in mid-job.
Die(w) ==
  /\ w \in all /\ proc[w] = "up"
  /\ Mishap
  /\ proc' = [proc EXCEPT ![w] = "dead"]
  /\ UNCHANGED <<alive, jobs, busy, pool, callers, sweeper, started, closing>>

-----------------------------------------------------------------------------
Starting == StarterSpawn \/ StarterPing \/ StarterDone
Refilling(w) == \/ RefillReap(w) \/ RefillSpawn(w) \/ RefillNothing(w)
                \/ RefillAdmit(w) \/ RefillStillborn(w)
Sweeping == \/ SweepDrain \/ SweepPong \/ SweepDone
            \/ \E w \in Workers : SweepRetire(w) \/ SweepPing(w)
Running(c) == Acquire(c) \/ AcquireTimeout(c) \/ Served(c) \/ RunFailed(c)
Closing == Drain \/ CloseDone \/ \E w \in Workers : Terminate(w)

\* The process ends after the shutdown.
Exit == down = "done" /\ UNCHANGED vars

Next == \/ Start \/ Starting \/ StarterCancelled
        \/ \E c \in Callers : Submit(c) \/ Relay(c) \/ Running(c)
        \/ \E w \in Workers : Refilling(w) \/ Die(w)
        \/ Sweeping \/ Close \/ Closing \/ Exit

Spec == Init /\ [][Next]_vars

\* The event loop runs every ready task; deadlines fire.
FairSpec == /\ Spec
            /\ WF_vars(Starting) /\ WF_vars(Sweeping) /\ WF_vars(Closing)
            /\ \A c \in Callers : WF_vars(Running(c))
            /\ \A w \in Workers : WF_vars(Refilling(w))

-----------------------------------------------------------------------------
(* Properties                                                              *)

TypeOK ==
  /\ proc \in [Workers -> {"none", "up", "dead"}]
  /\ alive \in [Workers -> BOOLEAN]
  /\ jobs \in [Workers -> 0 .. MaxJobs]
  /\ busy \in [Workers -> BOOLEAN]
  /\ all \subseteq Workers
  /\ queued \in [Workers -> Nat]
  /\ pc \in [Callers -> {"idle", "wait", "run"}]
  /\ lease \in [Callers -> Workers \cup {None}]
  /\ parent \in [Callers -> Callers \cup {None}]
  /\ relays \in [Callers -> Nat]
  /\ lock \in Workers \cup {"free", Starter}
  /\ newborn \in Workers \cup {None}
  /\ toStart \in Nat
  /\ refill \in [Workers -> {"none", "reap", "lock", "ping"}]
  /\ sweep \in {"off", "asleep", "work", "ping"}
  /\ drained \subseteq Workers
  /\ pinged \in Workers \cup {None}
  /\ started \in BOOLEAN /\ closed \in BOOLEAN
  /\ down \in {"no", "closing", "terminating", "done"}
  /\ victims \subseteq Workers
  /\ mishaps \in Nat /\ lost \in Nat

\* A worker has one user: it is queued once, or leased to one call, or in the
\* hands of the sweeper.
ExclusiveUse ==
  /\ \A w \in Workers : queued[w] <= 1
  /\ \A c \in Callers : pc[c] = "run" => queued[lease[c]] = 0 /\ lease[c] \notin drained
  /\ \A c, d \in Callers : pc[c] = "run" /\ pc[d] = "run" /\ c # d => lease[c] # lease[d]
  /\ \A w \in drained : queued[w] = 0

\* "A poisoned worker can never serve a later caller": one that was left in
\* the middle of a job is neither handed out nor about to be.
PoisonedNeverServes ==
  \A w \in Workers : queued[w] > 0 \/ w \in drained => ~busy[w]

\* "Never leaked out of circulation without being replaced": while the pool is
\* open, every worker it counts is queued, leased or being swept.
NoWorkerLost ==
  ~closed => \A w \in all : \/ queued[w] > 0
                            \/ w \in drained
                            \/ \E c \in Callers : pc[c] = "run" /\ lease[c] = w

\* Every call ends, also the relayed ones that wait for a worker while their own
\* parents hold all of them.  And the pool "refills itself when a worker times
\* out/crashes/recycles": when no more calls come it is back at its size, but for the
\* places whose spawn failed: nothing tries those again.
PoolKeepsWorking ==
  /\ \A c \in Callers : pc[c] # "idle" ~> pc[c] = "idle"
  /\ <>[](started /\ \A c \in Callers : pc[c] = "idle") /\ []~closed
       => <>[](Cardinality(all) + lost = Size)
=============================================================================

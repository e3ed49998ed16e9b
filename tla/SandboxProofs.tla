--------------------------- MODULE SandboxProofs ---------------------------
(***************************************************************************)
(* Proofs about the two ways a code tool runs.                             *)
(*                                                                         *)
(* SandboxPool, for every pool size, every number of workers and calls and *)
(* every interleaving with the sweeper and the shutdown.  ExclusiveUse,    *)
(* PoisonedNeverServes and NoWorkerLost are not inductive: a worker joins  *)
(* the pool under a name that must not be in use any more.  LifeInv says   *)
(* which names are in which phase of a worker's life, UseInv that a name   *)
(* without a live worker in the pool has no user.                          *)
(*                                                                         *)
(* SandboxExec, for any number of runs and tenants, any settings and any   *)
(* depth of calls from guest to guest.  Its three properties need more     *)
(* than they say: SlotsBoundWorkers which tasks hold a slot and why a run  *)
(* is being reaped while its worker lives (ChainInv, ChildInv, SlotInv,    *)
(* WorkerInv), OkIsItsOwn what is in the files and pipes at every moment   *)
(* of a bridge call (FrameInv), OpenUntilReset which calls are beyond a    *)
(* breaker that has opened since (BreakerInv).                             *)
(***************************************************************************)
EXTENDS SandboxPool, SandboxExec, FiniteSetTheorems, TLAPS

-----------------------------------------------------------------------------
(* The warm pool                                                           *)

Unused(w) == /\ queued[w] = 0 /\ w \notin drained /\ w \notin all
             /\ \A c \in Callers : pc[c] = "run" => lease[c] # w

\* The phases of a worker: spawned under the lock, in use, discarded, reaped.
LifeInv ==
  /\ \A w \in Workers : proc[w] = "up" => alive[w]
  /\ \A w \in Workers : alive[w] => jobs[w] < MaxJobs /\ proc[w] # "none"
  /\ \A w \in Workers : refill[w] # "none" => proc[w] = "dead" /\ ~alive[w]
  /\ newborn # None => newborn \in Workers /\ alive[newborn] /\ lock # "free"
  /\ \A w \in Workers : refill[w] = "ping" => lock = w /\ newborn # None
  /\ lock = Starter /\ newborn # None => toStart > 0
  /\ sweep = "ping" => pinged \in drained
  /\ sweep \in {"off", "asleep"} => drained = {}
  /\ lock = Starter => started
  /\ lock = Starter \/ ~started => sweep = "off"
  /\ \A c \in Callers : pc[c] = "run" => lease[c] \in Workers
  /\ down # "no" => closed
  /\ \A w \in victims : closed /\ w # newborn /\ proc[w] # "none"

\* Names of workers that do not exist, are being born or were discarded.
UseInv == \A w \in Workers :
  proc[w] = "none" \/ w = newborn \/ (~closed /\ ~alive[w]) => Unused(w)

\* A worker that can be handed out is not in the middle of a job.
BusyInv == \A w \in Workers : queued[w] > 0 \/ w \in drained \/ w = newborn => ~busy[w]

IInv == TypeOK /\ LifeInv /\ UseInv /\ ExclusiveUse /\ BusyInv /\ NoWorkerLost

\* The initial states: nothing has been spawned yet.
LEMMA InitIInv == Init => IInv
<1> SUFFICES ASSUME Init PROVE IInv
  OBVIOUS
<1>1. TypeOK
  <2>1. 0 \in 0 .. MaxJobs
    BY PoolAssumption
  <2> QED BY <2>1 DEF Init, TypeOK
<1> USE PoolAssumption, NameAssumption DEF Init, None, Starter
<1>2. LifeInv
  BY DEF LifeInv
<1>3. UseInv /\ ExclusiveUse /\ BusyInv /\ NoWorkerLost
  BY DEF UseInv, Unused, ExclusiveUse, BusyInv, NoWorkerLost
<1> QED BY <1>1, <1>2, <1>3 DEF IInv

\* What _discard, _spawn_worker and their callers do to the types.
LEMMA DiscardType ==
  ASSUME NEW w \in Workers, TypeOK, Discard(w)
  PROVE  /\ alive' \in [Workers -> BOOLEAN]
         /\ proc' \in [Workers -> {"none", "up", "dead"}]
         /\ all' \subseteq Workers
         /\ refill' \in [Workers -> {"none", "reap", "lock", "ping"}]
BY DEF Discard, TypeOK

\* A new worker keeps the types.
LEMMA SpawnType ==
  ASSUME NEW r \in Workers, TypeOK, Spawn(r)
  PROVE  /\ proc' \in [Workers -> {"none", "up", "dead"}]
         /\ alive' \in [Workers -> BOOLEAN]
         /\ jobs' \in [Workers -> 0 .. MaxJobs]
         /\ busy' \in [Workers -> BOOLEAN]
         /\ newborn' \in Workers \cup {None}
BY PoolAssumption DEF Spawn, TypeOK

\* So does a call that leaves the pool.
LEMMA LeaveType ==
  ASSUME NEW c \in Callers, TypeOK, Leave(c)
  PROVE  /\ pc' \in [Callers -> {"idle", "wait", "run"}]
         /\ lease' \in [Callers -> Workers \cup {None}]
         /\ parent' \in [Callers -> Callers \cup {None}]
         /\ relays' \in [Callers -> Nat]
BY DEF Leave, TypeOK

\* Every step keeps the types.
LEMMA TypeStep == IInv /\ [Next]_vars => TypeOK'
<1> SUFFICES ASSUME IInv, [Next]_vars PROVE TypeOK'
  OBVIOUS
<1> USE PoolAssumption DEF IInv, TypeOK, LifeInv, worker, pool, callers, sweeper, closing, history
<1>1. CASE Start
  BY <1>1 DEF Start
<1>2. CASE StarterSpawn
  <2>1. ASSUME NEW r \in Workers, Spawn(r), UNCHANGED <<toStart, history>> PROVE TypeOK'
    BY <1>2, <2>1, SpawnType DEF StarterSpawn
  <2>2. CASE Loss(1) /\ toStart' = toStart - 1 /\ UNCHANGED <<worker, newborn>>
    BY <1>2, <2>2 DEF StarterSpawn, Loss
  <2> QED BY <1>2, <2>1, <2>2 DEF StarterSpawn
<1>3. CASE StarterPing
  <2>0. newborn \in Workers /\ toStart' \in Nat
    BY <1>3 DEF StarterPing
  <2>1. CASE Admit(newborn) /\ UNCHANGED <<worker, history>>
    BY <1>3, <2>0, <2>1 DEF StarterPing, Admit, Enqueue
  <2>2. CASE Stillborn(newborn) /\ Loss(1) /\ UNCHANGED <<all, queued, jobs, busy>>
    BY <1>3, <2>0, <2>2 DEF StarterPing, Stillborn, Loss
  <2> QED BY <1>3, <2>1, <2>2 DEF StarterPing
<1>4. CASE StarterDone
  BY <1>4 DEF StarterDone
<1>5. CASE StarterCancelled
  BY <1>5 DEF StarterCancelled, Loss
<1>6. ASSUME NEW c \in Callers, Submit(c) PROVE TypeOK'
  BY <1>6 DEF Submit
<1>7. ASSUME NEW c \in Callers, Relay(c) PROVE TypeOK'
  BY <1>7 DEF Relay
<1>8. ASSUME NEW c \in Callers, Acquire(c) PROVE TypeOK'
  <2>0. PICK w \in Workers : Acquire(c)!(w)
    BY <1>8 DEF Acquire
  <2>1. queued' \in [Workers -> Nat]
    BY <2>0
  <2>2. CASE proc[w] = "dead"
    BY <2>0, <2>1, <2>2, DiscardType
  <2>3. CASE proc[w] # "dead"
    <3>0. /\ pc' = [pc EXCEPT ![c] = "run"]
          /\ lease' = [lease EXCEPT ![c] = w]
          /\ busy' = [busy EXCEPT ![w] = TRUE]
      BY <2>0, <2>3
    <3>1. /\ pc' \in [Callers -> {"idle", "wait", "run"}]
          /\ lease' \in [Callers -> Workers \cup {None}]
          /\ busy' \in [Workers -> BOOLEAN]
      BY <3>0
    <3>2. UNCHANGED <<alive, proc, all, refill, jobs, parent, relays, lock, newborn, toStart,
                      sweeper, started, closing, history>>
      BY <2>0, <2>3
    <3> QED BY <2>1, <3>1, <3>2
  <2> QED BY <2>2, <2>3
<1>9. ASSUME NEW c \in Callers, AcquireTimeout(c) PROVE TypeOK'
  BY <1>9 DEF AcquireTimeout, Leave
<1>10. ASSUME NEW c \in Callers, Served(c) PROVE TypeOK'
  <2>0. lease[c] \in Workers
    BY <1>10 DEF Served, Unblocked
  <2>1. jobs' \in [Workers -> 0 .. MaxJobs]
    BY <1>10, <2>0 DEF Served
  <2>2. busy' \in [Workers -> BOOLEAN]
    BY <1>10, <2>0 DEF Served
  <2>3. CASE jobs[lease[c]] + 1 >= MaxJobs
    BY <1>10, <2>0, <2>1, <2>2, <2>3, DiscardType, LeaveType DEF Served
  <2>4. CASE ~(jobs[lease[c]] + 1 >= MaxJobs)
    BY <1>10, <2>0, <2>1, <2>2, <2>4, LeaveType DEF Served, Enqueue
  <2> QED BY <2>3, <2>4
<1>11. ASSUME NEW c \in Callers, RunFailed(c) PROVE TypeOK'
  <2>0. lease[c] \in Workers
    BY <1>11 DEF RunFailed, Unblocked
  <2>1. mishaps' \in Nat /\ lost' \in Nat
    BY <1>11 DEF RunFailed, Mishap
  <2> QED BY <1>11, <2>0, <2>1, DiscardType, LeaveType DEF RunFailed
<1>12. ASSUME NEW w \in Workers, RefillReap(w) PROVE TypeOK'
  BY <1>12 DEF RefillReap, RefillEnd
<1>13. ASSUME NEW w \in Workers, RefillSpawn(w) PROVE TypeOK'
  BY <1>13 DEF RefillSpawn, Spawn
<1>14. ASSUME NEW w \in Workers, RefillNothing(w) PROVE TypeOK'
  BY <1>14 DEF RefillNothing, RefillEnd, Loss
<1>15. ASSUME NEW w \in Workers, RefillAdmit(w) PROVE TypeOK'
  BY <1>15 DEF RefillAdmit, RefillEnd, Admit, Enqueue
<1>16. ASSUME NEW w \in Workers, RefillStillborn(w) PROVE TypeOK'
  BY <1>16 DEF RefillStillborn, Loss
<1>17. CASE SweepDrain
  BY <1>17 DEF SweepDrain
<1>18. ASSUME NEW w \in Workers, SweepRetire(w) PROVE TypeOK'
  <2>1. mishaps' \in Nat /\ lost' \in Nat
    BY <1>18 DEF SweepRetire, Mishap
  <2> QED BY <1>18, <2>1, DiscardType DEF SweepRetire
<1>19. ASSUME NEW w \in Workers, SweepPing(w) PROVE TypeOK'
  BY <1>19 DEF SweepPing
<1>20. CASE SweepPong
  <2>0. pinged \in Workers
    BY <1>20 DEF SweepPong
  <2>1. mishaps' \in Nat /\ lost' \in Nat
    BY <1>20 DEF SweepPong, Mishap
  <2>2. CASE Enqueue(pinged) /\ UNCHANGED <<alive, proc, all, refill, history>>
    BY <1>20, <2>0, <2>1, <2>2 DEF SweepPong, Enqueue
  <2>3. CASE Discard(pinged) /\ UNCHANGED queued
    BY <1>20, <2>0, <2>1, <2>3, DiscardType DEF SweepPong
  <2> QED BY <1>20, <2>2, <2>3 DEF SweepPong
<1>21. CASE SweepDone
  BY <1>21 DEF SweepDone
<1>22. CASE Close
  BY <1>22 DEF Close
<1>23. CASE Drain
  BY <1>23 DEF Drain
<1>24. ASSUME NEW w \in Workers, Terminate(w) PROVE TypeOK'
  BY <1>24 DEF Terminate
<1>25. CASE CloseDone
  BY <1>25 DEF CloseDone
<1>26. ASSUME NEW w \in Workers, Die(w) PROVE TypeOK'
  BY <1>26 DEF Die, Mishap
<1>27. CASE UNCHANGED vars
  BY <1>27 DEF vars
<1> QED
  BY <1>1, <1>2, <1>3, <1>4, <1>5, <1>6, <1>7, <1>8, <1>9, <1>10, <1>11, <1>12, <1>13, <1>14,
     <1>15, <1>16, <1>17, <1>18, <1>19, <1>20, <1>21, <1>22, <1>23, <1>24, <1>25, <1>26, <1>27
  DEF Next, Starting, Running, Refilling, Sweeping, Closing, Exit

\* Every step keeps the phases apart.
LEMMA LifeStep == TypeOK /\ LifeInv /\ UseInv /\ [Next]_vars => LifeInv'
<1> SUFFICES ASSUME TypeOK, LifeInv, UseInv, [Next]_vars PROVE LifeInv'
  OBVIOUS
<1> USE PoolAssumption, NameAssumption DEF TypeOK, LifeInv, UseInv, Unused, None, Starter, worker, pool, callers, sweeper, closing, history
<1>1. CASE Start
  BY <1>1 DEF Start
<1>2. CASE StarterSpawn
  BY <1>2 DEF StarterSpawn, Spawn, Loss
<1>3. CASE StarterPing
  BY <1>3 DEF StarterPing, Admit, Stillborn, Loss, Enqueue
<1>4. CASE StarterDone
  BY <1>4 DEF StarterDone
<1>5. CASE StarterCancelled
  BY <1>5 DEF StarterCancelled, Loss
<1>6. ASSUME NEW c \in Callers, Submit(c) PROVE LifeInv'
  BY <1>6 DEF Submit
<1>7. ASSUME NEW c \in Callers, Relay(c) PROVE LifeInv'
  BY <1>7 DEF Relay
<1>8. ASSUME NEW c \in Callers, Acquire(c) PROVE LifeInv'
  BY <1>8 DEF Acquire, Discard
<1>9. ASSUME NEW c \in Callers, AcquireTimeout(c) PROVE LifeInv'
  BY <1>9 DEF AcquireTimeout, Leave
<1>10. ASSUME NEW c \in Callers, Served(c) PROVE LifeInv'
  BY <1>10 DEF Served, Unblocked, Leave, Discard, Enqueue
<1>11. ASSUME NEW c \in Callers, RunFailed(c) PROVE LifeInv'
  BY <1>11 DEF RunFailed, Unblocked, Leave, Discard
<1>12. ASSUME NEW w \in Workers, RefillReap(w) PROVE LifeInv'
  BY <1>12 DEF RefillReap, RefillEnd
<1>13. ASSUME NEW w \in Workers, RefillSpawn(w) PROVE LifeInv'
  BY <1>13 DEF RefillSpawn, Spawn
<1>14. ASSUME NEW w \in Workers, RefillNothing(w) PROVE LifeInv'
  BY <1>14 DEF RefillNothing, RefillEnd
<1>15. ASSUME NEW w \in Workers, RefillAdmit(w) PROVE LifeInv'
  BY <1>15 DEF RefillAdmit, RefillEnd, Admit, Enqueue
<1>16. ASSUME NEW w \in Workers, RefillStillborn(w) PROVE LifeInv'
  BY <1>16 DEF RefillStillborn
<1>17. CASE SweepDrain
  BY <1>17 DEF SweepDrain
<1>18. ASSUME NEW w \in Workers, SweepRetire(w) PROVE LifeInv'
  BY <1>18 DEF SweepRetire, Discard
<1>19. ASSUME NEW w \in Workers, SweepPing(w) PROVE LifeInv'
  BY <1>19 DEF SweepPing
<1>20. CASE SweepPong
  BY <1>20 DEF SweepPong, Discard, Enqueue
<1>21. CASE SweepDone
  BY <1>21 DEF SweepDone
<1>22. CASE Close
  BY <1>22 DEF Close
<1>23. CASE Drain
  BY <1>23 DEF Drain
<1>24. ASSUME NEW w \in Workers, Terminate(w) PROVE LifeInv'
  BY <1>24 DEF Terminate
<1>25. CASE CloseDone
  BY <1>25 DEF CloseDone
<1>26. ASSUME NEW w \in Workers, Die(w) PROVE LifeInv'
  BY <1>26 DEF Die
<1>27. CASE UNCHANGED vars
  BY <1>27 DEF vars
<1> QED
  BY <1>1, <1>2, <1>3, <1>4, <1>5, <1>6, <1>7, <1>8, <1>9, <1>10, <1>11, <1>12, <1>13, <1>14,
     <1>15, <1>16, <1>17, <1>18, <1>19, <1>20, <1>21, <1>22, <1>23, <1>24, <1>25, <1>26, <1>27
  DEF Next, Starting, Running, Refilling, Sweeping, Closing, Exit

\* A name comes back into use only as a newborn without users.
LEMMA UseStep == TypeOK /\ LifeInv /\ UseInv /\ ExclusiveUse /\ [Next]_vars => UseInv'
<1> SUFFICES ASSUME TypeOK, LifeInv, UseInv, ExclusiveUse, [Next]_vars PROVE UseInv'
  OBVIOUS
<1> USE PoolAssumption, NameAssumption DEF TypeOK, LifeInv, UseInv, Unused, ExclusiveUse, None, worker, pool, callers, sweeper, closing, history
<1>1. CASE Start
  BY <1>1 DEF Start
<1>2. CASE StarterSpawn
  BY <1>2 DEF StarterSpawn, Spawn, Loss
<1>3. CASE StarterPing
  BY <1>3 DEF StarterPing, Admit, Stillborn, Loss, Enqueue
<1>4. CASE StarterDone
  BY <1>4 DEF StarterDone
<1>5. CASE StarterCancelled
  BY <1>5 DEF StarterCancelled, Loss
<1>6. ASSUME NEW c \in Callers, Submit(c) PROVE UseInv'
  BY <1>6 DEF Submit
<1>7. ASSUME NEW c \in Callers, Relay(c) PROVE UseInv'
  BY <1>7 DEF Relay
<1>8. ASSUME NEW c \in Callers, Acquire(c) PROVE UseInv'
  BY <1>8 DEF Acquire, Discard
<1>9. ASSUME NEW c \in Callers, AcquireTimeout(c) PROVE UseInv'
  BY <1>9 DEF AcquireTimeout, Leave
<1>10. ASSUME NEW c \in Callers, Served(c) PROVE UseInv'
  BY <1>10 DEF Served, Unblocked, Leave, Discard, Enqueue
<1>11. ASSUME NEW c \in Callers, RunFailed(c) PROVE UseInv'
  BY <1>11 DEF RunFailed, Unblocked, Leave, Discard
<1>12. ASSUME NEW w \in Workers, RefillReap(w) PROVE UseInv'
  BY <1>12 DEF RefillReap, RefillEnd
<1>13. ASSUME NEW w \in Workers, RefillSpawn(w) PROVE UseInv'
  BY <1>13 DEF RefillSpawn, Spawn
<1>14. ASSUME NEW w \in Workers, RefillNothing(w) PROVE UseInv'
  BY <1>14 DEF RefillNothing, RefillEnd
<1>15. ASSUME NEW w \in Workers, RefillAdmit(w) PROVE UseInv'
  BY <1>15 DEF RefillAdmit, RefillEnd, Admit, Enqueue
<1>16. ASSUME NEW w \in Workers, RefillStillborn(w) PROVE UseInv'
  BY <1>16 DEF RefillStillborn
<1>17. CASE SweepDrain
  BY <1>17 DEF SweepDrain
<1>18. ASSUME NEW w \in Workers, SweepRetire(w) PROVE UseInv'
  BY <1>18 DEF SweepRetire, Discard
<1>19. ASSUME NEW w \in Workers, SweepPing(w) PROVE UseInv'
  BY <1>19 DEF SweepPing
<1>20. CASE SweepPong
  BY <1>20 DEF SweepPong, Discard, Enqueue
<1>21. CASE SweepDone
  BY <1>21 DEF SweepDone
<1>22. CASE Close
  BY <1>22 DEF Close
<1>23. CASE Drain
  BY <1>23 DEF Drain
<1>24. ASSUME NEW w \in Workers, Terminate(w) PROVE UseInv'
  BY <1>24 DEF Terminate
<1>25. CASE CloseDone
  BY <1>25 DEF CloseDone
<1>26. ASSUME NEW w \in Workers, Die(w) PROVE UseInv'
  BY <1>26 DEF Die
<1>27. CASE UNCHANGED vars
  BY <1>27 DEF vars
<1> QED
  BY <1>1, <1>2, <1>3, <1>4, <1>5, <1>6, <1>7, <1>8, <1>9, <1>10, <1>11, <1>12, <1>13, <1>14,
     <1>15, <1>16, <1>17, <1>18, <1>19, <1>20, <1>21, <1>22, <1>23, <1>24, <1>25, <1>26, <1>27
  DEF Next, Starting, Running, Refilling, Sweeping, Closing, Exit

\* A worker passes from one user to the next.
LEMMA ExclusiveStep == TypeOK /\ LifeInv /\ UseInv /\ ExclusiveUse /\ [Next]_vars => ExclusiveUse'
<1> SUFFICES ASSUME TypeOK, LifeInv, UseInv, ExclusiveUse, [Next]_vars PROVE ExclusiveUse'
  OBVIOUS
<1> USE PoolAssumption, NameAssumption DEF TypeOK, LifeInv, UseInv, Unused, ExclusiveUse, None, worker, pool, callers, sweeper, closing, history
<1>1. CASE Start
  BY <1>1 DEF Start
<1>2. CASE StarterSpawn
  BY <1>2 DEF StarterSpawn, Spawn, Loss
<1>3. CASE StarterPing
  BY <1>3 DEF StarterPing, Admit, Stillborn, Loss, Enqueue
<1>4. CASE StarterDone
  BY <1>4 DEF StarterDone
<1>5. CASE StarterCancelled
  BY <1>5 DEF StarterCancelled, Loss
<1>6. ASSUME NEW c \in Callers, Submit(c) PROVE ExclusiveUse'
  BY <1>6 DEF Submit
<1>7. ASSUME NEW c \in Callers, Relay(c) PROVE ExclusiveUse'
  BY <1>7 DEF Relay
<1>8. ASSUME NEW c \in Callers, Acquire(c) PROVE ExclusiveUse'
  BY <1>8 DEF Acquire, Discard
<1>9. ASSUME NEW c \in Callers, AcquireTimeout(c) PROVE ExclusiveUse'
  BY <1>9 DEF AcquireTimeout, Leave
<1>10. ASSUME NEW c \in Callers, Served(c) PROVE ExclusiveUse'
  BY <1>10 DEF Served, Unblocked, Leave, Discard, Enqueue
<1>11. ASSUME NEW c \in Callers, RunFailed(c) PROVE ExclusiveUse'
  BY <1>11 DEF RunFailed, Unblocked, Leave, Discard
<1>12. ASSUME NEW w \in Workers, RefillReap(w) PROVE ExclusiveUse'
  BY <1>12 DEF RefillReap, RefillEnd
<1>13. ASSUME NEW w \in Workers, RefillSpawn(w) PROVE ExclusiveUse'
  BY <1>13 DEF RefillSpawn, Spawn
<1>14. ASSUME NEW w \in Workers, RefillNothing(w) PROVE ExclusiveUse'
  BY <1>14 DEF RefillNothing, RefillEnd
<1>15. ASSUME NEW w \in Workers, RefillAdmit(w) PROVE ExclusiveUse'
  BY <1>15 DEF RefillAdmit, RefillEnd, Admit, Enqueue
<1>16. ASSUME NEW w \in Workers, RefillStillborn(w) PROVE ExclusiveUse'
  BY <1>16 DEF RefillStillborn
<1>17. CASE SweepDrain
  BY <1>17 DEF SweepDrain
<1>18. ASSUME NEW w \in Workers, SweepRetire(w) PROVE ExclusiveUse'
  BY <1>18 DEF SweepRetire, Discard
<1>19. ASSUME NEW w \in Workers, SweepPing(w) PROVE ExclusiveUse'
  BY <1>19 DEF SweepPing
<1>20. CASE SweepPong
  BY <1>20 DEF SweepPong, Discard, Enqueue
<1>21. CASE SweepDone
  BY <1>21 DEF SweepDone
<1>22. CASE Close
  BY <1>22 DEF Close
<1>23. CASE Drain
  BY <1>23 DEF Drain
<1>24. ASSUME NEW w \in Workers, Terminate(w) PROVE ExclusiveUse'
  BY <1>24 DEF Terminate
<1>25. CASE CloseDone
  BY <1>25 DEF CloseDone
<1>26. ASSUME NEW w \in Workers, Die(w) PROVE ExclusiveUse'
  BY <1>26 DEF Die
<1>27. CASE UNCHANGED vars
  BY <1>27 DEF vars
<1> QED
  BY <1>1, <1>2, <1>3, <1>4, <1>5, <1>6, <1>7, <1>8, <1>9, <1>10, <1>11, <1>12, <1>13, <1>14,
     <1>15, <1>16, <1>17, <1>18, <1>19, <1>20, <1>21, <1>22, <1>23, <1>24, <1>25, <1>26, <1>27
  DEF Next, Starting, Running, Refilling, Sweeping, Closing, Exit

\* Only a worker that finished its job is queued again.
LEMMA BusyStep == TypeOK /\ LifeInv /\ UseInv /\ ExclusiveUse /\ BusyInv /\ [Next]_vars => BusyInv'
<1> SUFFICES ASSUME TypeOK, LifeInv, UseInv, ExclusiveUse, BusyInv, [Next]_vars PROVE BusyInv'
  OBVIOUS
<1> USE PoolAssumption, NameAssumption DEF TypeOK, LifeInv, UseInv, Unused, ExclusiveUse, BusyInv, None, worker, pool, callers, sweeper, closing, history
<1>1. CASE Start
  BY <1>1 DEF Start
<1>2. CASE StarterSpawn
  BY <1>2 DEF StarterSpawn, Spawn, Loss
<1>3. CASE StarterPing
  BY <1>3 DEF StarterPing, Admit, Stillborn, Loss, Enqueue
<1>4. CASE StarterDone
  BY <1>4 DEF StarterDone
<1>5. CASE StarterCancelled
  BY <1>5 DEF StarterCancelled, Loss
<1>6. ASSUME NEW c \in Callers, Submit(c) PROVE BusyInv'
  BY <1>6 DEF Submit
<1>7. ASSUME NEW c \in Callers, Relay(c) PROVE BusyInv'
  BY <1>7 DEF Relay
<1>8. ASSUME NEW c \in Callers, Acquire(c) PROVE BusyInv'
  BY <1>8 DEF Acquire, Discard
<1>9. ASSUME NEW c \in Callers, AcquireTimeout(c) PROVE BusyInv'
  BY <1>9 DEF AcquireTimeout, Leave
<1>10. ASSUME NEW c \in Callers, Served(c) PROVE BusyInv'
  BY <1>10 DEF Served, Unblocked, Leave, Discard, Enqueue
<1>11. ASSUME NEW c \in Callers, RunFailed(c) PROVE BusyInv'
  BY <1>11 DEF RunFailed, Unblocked, Leave, Discard
<1>12. ASSUME NEW w \in Workers, RefillReap(w) PROVE BusyInv'
  BY <1>12 DEF RefillReap, RefillEnd
<1>13. ASSUME NEW w \in Workers, RefillSpawn(w) PROVE BusyInv'
  BY <1>13 DEF RefillSpawn, Spawn
<1>14. ASSUME NEW w \in Workers, RefillNothing(w) PROVE BusyInv'
  BY <1>14 DEF RefillNothing, RefillEnd
<1>15. ASSUME NEW w \in Workers, RefillAdmit(w) PROVE BusyInv'
  BY <1>15 DEF RefillAdmit, RefillEnd, Admit, Enqueue
<1>16. ASSUME NEW w \in Workers, RefillStillborn(w) PROVE BusyInv'
  BY <1>16 DEF RefillStillborn
<1>17. CASE SweepDrain
  BY <1>17 DEF SweepDrain
<1>18. ASSUME NEW w \in Workers, SweepRetire(w) PROVE BusyInv'
  BY <1>18 DEF SweepRetire, Discard
<1>19. ASSUME NEW w \in Workers, SweepPing(w) PROVE BusyInv'
  BY <1>19 DEF SweepPing
<1>20. CASE SweepPong
  BY <1>20 DEF SweepPong, Discard, Enqueue
<1>21. CASE SweepDone
  BY <1>21 DEF SweepDone
<1>22. CASE Close
  BY <1>22 DEF Close
<1>23. CASE Drain
  BY <1>23 DEF Drain
<1>24. ASSUME NEW w \in Workers, Terminate(w) PROVE BusyInv'
  BY <1>24 DEF Terminate
<1>25. CASE CloseDone
  BY <1>25 DEF CloseDone
<1>26. ASSUME NEW w \in Workers, Die(w) PROVE BusyInv'
  BY <1>26 DEF Die
<1>27. CASE UNCHANGED vars
  BY <1>27 DEF vars
<1> QED
  BY <1>1, <1>2, <1>3, <1>4, <1>5, <1>6, <1>7, <1>8, <1>9, <1>10, <1>11, <1>12, <1>13, <1>14,
     <1>15, <1>16, <1>17, <1>18, <1>19, <1>20, <1>21, <1>22, <1>23, <1>24, <1>25, <1>26, <1>27
  DEF Next, Starting, Running, Refilling, Sweeping, Closing, Exit

\* Whoever takes a worker hands it back or discards it.
LEMMA LostStep == TypeOK /\ LifeInv /\ UseInv /\ ExclusiveUse /\ NoWorkerLost /\ [Next]_vars => NoWorkerLost'
<1> SUFFICES ASSUME TypeOK, LifeInv, UseInv, ExclusiveUse, NoWorkerLost, [Next]_vars PROVE NoWorkerLost'
  OBVIOUS
<1> USE PoolAssumption, NameAssumption DEF TypeOK, LifeInv, UseInv, Unused, ExclusiveUse, NoWorkerLost, None, worker, pool, callers, sweeper, closing, history
<1>1. CASE Start
  BY <1>1 DEF Start
<1>2. CASE StarterSpawn
  BY <1>2 DEF StarterSpawn, Spawn, Loss
<1>3. CASE StarterPing
  BY <1>3 DEF StarterPing, Admit, Stillborn, Loss, Enqueue
<1>4. CASE StarterDone
  BY <1>4 DEF StarterDone
<1>5. CASE StarterCancelled
  BY <1>5 DEF StarterCancelled, Loss
<1>6. ASSUME NEW c \in Callers, Submit(c) PROVE NoWorkerLost'
  BY <1>6 DEF Submit
<1>7. ASSUME NEW c \in Callers, Relay(c) PROVE NoWorkerLost'
  BY <1>7 DEF Relay
<1>8. ASSUME NEW c \in Callers, Acquire(c) PROVE NoWorkerLost'
  BY <1>8 DEF Acquire, Discard
<1>9. ASSUME NEW c \in Callers, AcquireTimeout(c) PROVE NoWorkerLost'
  BY <1>9 DEF AcquireTimeout, Leave
<1>10. ASSUME NEW c \in Callers, Served(c) PROVE NoWorkerLost'
  BY <1>10 DEF Served, Unblocked, Leave, Discard, Enqueue
<1>11. ASSUME NEW c \in Callers, RunFailed(c) PROVE NoWorkerLost'
  BY <1>11 DEF RunFailed, Unblocked, Leave, Discard
<1>12. ASSUME NEW w \in Workers, RefillReap(w) PROVE NoWorkerLost'
  BY <1>12 DEF RefillReap, RefillEnd
<1>13. ASSUME NEW w \in Workers, RefillSpawn(w) PROVE NoWorkerLost'
  BY <1>13 DEF RefillSpawn, Spawn
<1>14. ASSUME NEW w \in Workers, RefillNothing(w) PROVE NoWorkerLost'
  BY <1>14 DEF RefillNothing, RefillEnd
<1>15. ASSUME NEW w \in Workers, RefillAdmit(w) PROVE NoWorkerLost'
  BY <1>15 DEF RefillAdmit, RefillEnd, Admit, Enqueue
<1>16. ASSUME NEW w \in Workers, RefillStillborn(w) PROVE NoWorkerLost'
  BY <1>16 DEF RefillStillborn
<1>17. CASE SweepDrain
  <2>1. \A w \in Workers : queued[w] > 0 => w \in drained'
    BY <1>17 DEF SweepDrain
  <2>2. drained = {}
    BY <1>17 DEF SweepDrain
  <2> QED BY <1>17, <2>1, <2>2 DEF SweepDrain
<1>18. ASSUME NEW w \in Workers, SweepRetire(w) PROVE NoWorkerLost'
  BY <1>18 DEF SweepRetire, Discard
<1>19. ASSUME NEW w \in Workers, SweepPing(w) PROVE NoWorkerLost'
  BY <1>19 DEF SweepPing
<1>20. CASE SweepPong
  BY <1>20 DEF SweepPong, Discard, Enqueue
<1>21. CASE SweepDone
  BY <1>21 DEF SweepDone
<1>22. CASE Close
  BY <1>22 DEF Close
<1>23. CASE Drain
  BY <1>23 DEF Drain
<1>24. ASSUME NEW w \in Workers, Terminate(w) PROVE NoWorkerLost'
  BY <1>24 DEF Terminate
<1>25. CASE CloseDone
  BY <1>25 DEF CloseDone
<1>26. ASSUME NEW w \in Workers, Die(w) PROVE NoWorkerLost'
  BY <1>26 DEF Die
<1>27. CASE UNCHANGED vars
  BY <1>27 DEF vars
<1> QED
  BY <1>1, <1>2, <1>3, <1>4, <1>5, <1>6, <1>7, <1>8, <1>9, <1>10, <1>11, <1>12, <1>13, <1>14,
     <1>15, <1>16, <1>17, <1>18, <1>19, <1>20, <1>21, <1>22, <1>23, <1>24, <1>25, <1>26, <1>27
  DEF Next, Starting, Running, Refilling, Sweeping, Closing, Exit

\* The invariant is inductive.
THEOREM Invariance == Spec => []IInv
<1>1. IInv /\ [Next]_vars => IInv'
  BY TypeStep, LifeStep, UseStep, ExclusiveStep, BusyStep, LostStep DEF IInv
<1> QED BY InitIInv, <1>1, PTL DEF Spec

\* Every variable of the pool keeps its type; a worker never serves more jobs
\* than sandbox_worker_max_jobs.
THEOREM TypeCorrect == Spec => []TypeOK
BY Invariance, PTL DEF IInv

\* No worker ever has two users: no two calls run on it, and the sweeper
\* never pings one that is leased or queued.
THEOREM OneUserPerWorker == Spec => []ExclusiveUse
BY Invariance, PTL DEF IInv

\* The class docstring of WorkerPool: a poisoned worker never serves again.
THEOREM PoisonIsContained == Spec => []PoisonedNeverServes
<1>1. IInv => PoisonedNeverServes
  BY DEF IInv, BusyInv, PoisonedNeverServes
<1> QED BY Invariance, <1>1, PTL

\* The comment in submit: no worker leaks out of circulation.
THEOREM NothingLeaks == Spec => []NoWorkerLost
BY Invariance, PTL DEF IInv

-----------------------------------------------------------------------------
(* The throwaway worker and its bridges                                    *)

HostPcs == {"idle", "global", "tenant", "stage", "pump", "serve", "reap", "done"}
Lines == [kind : {Nil, "answer", "shutdown"}, ok : BOOLEAN]
Frames == [kind : Kinds \cup {Nil, "torn", "result", "error", "long"},
           id : 0..MaxAsks, call : 0..MaxAsks]

HostsOK ==
  /\ host \in [Runs -> HostPcs]
  /\ tenant \in [Runs -> Tenants \cup {Nil}]
  /\ caller \in [Runs -> Runs \cup {Nil}] /\ ancestors \in [Runs -> SUBSET Runs]
  /\ child \in [Runs -> Runs \cup {Nil}]
  /\ fate \in [Runs -> {Nil, "ok", "failed", "cancelled"}]
  /\ timer \in [Runs -> BOOLEAN] /\ garbled \in [Runs -> BOOLEAN]
  /\ used \in [Runs -> [Kinds -> 0..MaxCalls]]
WorkersOK ==
  /\ work \in [Runs -> {"none", "boot", "loop", "ask", "write", "gone"}]
  /\ guest \in [Runs -> {"run", "wait", "done", "stopped"}]
  /\ calls \in [Runs -> Seq(Kinds)]
  /\ req \in [Runs -> [Asks -> 0..MaxAsks]] /\ resp \in [Runs -> [Asks -> Lines]]
  /\ stdout \in [Runs -> Frames] /\ stdin \in [Runs -> Seq(Lines)]
  /\ served \in [Runs -> SUBSET Nat] /\ seen \in [Runs -> SUBSET Nat]
EgressOK ==
  /\ http \in [Runs -> {"no", "queued", "held", "sent"}] /\ stale \in [Runs -> BOOLEAN]
  /\ failures \in [Tenants -> 0..MaxFailures] /\ openUntil \in [Tenants -> Nat]
  /\ now \in 0..MaxTime

ETypeOK == settings \in Settings /\ faults \in Nat /\ HostsOK /\ WorkersOK /\ EgressOK

\* A run that is being made has a caller that waits for it; those of a chain time out
\* from the outside in.
Active(r) == host[r] \notin {"idle", "done"}
ChainInv == \A r \in Runs :
  /\ host[r] = "idle" => caller[r] = Nil /\ child[r] = Nil /\ ~timer[r]
  /\ host[r] # "idle" => tenant[r] \in Tenants
  /\ caller[r] = Nil => ancestors[r] = {}
  /\ caller[r] # Nil => ancestors[r] = ancestors[caller[r]] \cup {caller[r]}
  /\ \A q \in ancestors[r] : host[q] # "idle" /\ (timer[r] => timer[q])
ChildInv == \A r \in Runs :
  /\ child[r] # Nil => host[r] = "serve" /\ caller[child[r]] = r
  /\ Active(r) /\ caller[r] # Nil => child[caller[r]] = r

\* The slots of the two semaphores.
SlotInv ==
  /\ \A t \in Tenants : Cardinality({r \in Holding : tenant[r] = t}) <= settings.tenant
  /\ settings.global # 0 => Cardinality(InGlobal) <= settings.global

\* What is in the files and the pipes of a run.
FrameOK(r) ==
  /\ Len(calls[r]) <= MaxAsks /\ (guest[r] = "wait" => calls[r] # <<>>)
  /\ \A n \in Asks : req[r][n] = 0 \/ (req[r][n] = n /\ n <= Len(calls[r]))
  /\ \A n \in Asks : resp[r][n].ok => n \in served[r]
  /\ stdout[r] # NoFrame => work[r] \in {"ask", "write", "gone"}
  /\ stdout[r].kind \in {"result", "error"} => work[r] = "gone"
  /\ work[r] = "ask" /\ host[r] # "done" => stdout[r].id \in Asks /\ stdout[r].call = stdout[r].id
  /\ work[r] = "write" /\ host[r] # "done" => stdout[r].kind = "long"
  /\ host[r] = "serve" => stdin[r] = <<>> /\ stdout[r] # NoFrame /\ stdout[r].kind # "long"
  /\ host[r] # "done" => \A i \in 1..Len(stdin[r]) : stdin[r][i].ok =>
       i = 1 /\ work[r] \in {"ask", "gone"} /\ stdout[r].call \in served[r]
  /\ seen[r] \subseteq served[r]
FrameInv == \A r \in Runs : FrameOK(r)

\* Why a run is being reaped while its worker lives.
Struck(r) == \E q \in Ancestry(r) : timer[q]
WorkerOK(r) ==
  /\ host[r] \in {"idle", "global", "tenant", "stage"} => work[r] = "none"
  /\ host[r] = "reap" /\ Live(r) => garbled[r] \/ Struck(r)
  /\ host[r] = "reap" /\ fate[r] = "cancelled" => Struck(r)
  /\ Abandoned(r) => Interruptions(r) >= 2
WorkerInv == \A r \in Runs : WorkerOK(r)

\* A request beyond a breaker that has opened since is known as such.
BreakerInv ==
  /\ \A r \in Runs : http[r] # "no" =>
       host[r] = "serve" /\ child[r] = Nil /\ (openUntil[tenant[r]] > now => stale[r])
  /\ Reset = 0 => \A t \in Tenants : openUntil[t] <= now

EInv == /\ ETypeOK /\ ChainInv /\ ChildInv /\ SlotInv /\ FrameInv /\ WorkerInv /\ BreakerInv

-----------------------------------------------------------------------------
\* What the worker and its guest do by themselves.
WorkerStep(r) ==
  \/ Boot(r) \/ BootFails(r) \/ Dies(r) \/ AskDb(r) \/ AskTool(r) \/ AskHttp(r) \/ TakeAnswer(r)
  \/ GiveUp(r) \/ GuestReturns(r) \/ GuestStopped(r) \/ RelayRequest(r) \/ Answer(r)
  \/ EmitResult(r) \/ WriteLong(r) \/ Orphaned(r)

\* A frame the host cannot read.
Overrun(r) == Garble(r) \/ ReadLong(r)

\* What the proofs need of the constants.
LEMMA Numbers == /\ MaxAsks \in Nat /\ MaxCalls \in Nat /\ MaxFailures \in Nat \ {0} /\ Reset \in Nat
                 /\ MaxTime \in Nat /\ Nil \notin Runs /\ Nil \notin Tenants /\ IsFiniteSet(Runs)
                 /\ \A s \in Settings : /\ s.tenant \in Nat \ {0} /\ s.global \in Nat
                                        /\ s.asks \in 0..MaxAsks /\ s.faults \in Nat
                                        /\ s.bridges \subseteq Kinds
BY ExecAssumption

\* Both numbers of interruptions are numbers, and grow with the timers and the garbled frames.
LEMMA InterruptionsGrow ==
  ASSUME ETypeOK, NEW r \in Runs, ancestors'[r] = ancestors[r],
         \A q \in Ancestry(r) : timer[q] => timer'[q], garbled[r] => garbled'[r]
  PROVE  Interruptions(r) \in Nat /\ Interruptions(r)' \in Nat /\ Interruptions(r) <= Interruptions(r)'
<1> DEFINE A == {q \in Ancestry(r) : timer[q]}  B == {q \in Ancestry(r) : timer'[q]}
<1>1. Ancestry(r) \subseteq Runs /\ IsFiniteSet(Runs)
  BY ExecAssumption DEF ETypeOK, HostsOK, Ancestry
<1>2. A \subseteq B /\ B \subseteq Runs
  BY <1>1
<1>3. IsFiniteSet(B)
  BY <1>1, <1>2, FS_Subset
<1>4. Cardinality(A) <= Cardinality(B) /\ Cardinality(A) \in Nat /\ Cardinality(B) \in Nat
  BY <1>2, <1>3, FS_Subset, FS_CardinalityType
<1>5. Ancestry(r)' = Ancestry(r)
  BY DEF Ancestry
<1>6. Interruptions(r) = Cardinality(A) + (IF garbled[r] THEN 1 ELSE 0)
  BY DEF Interruptions
<1>7. Interruptions(r)' = Cardinality(B) + (IF garbled'[r] THEN 1 ELSE 0)
  BY <1>5 DEF Interruptions
<1> QED BY <1>4, <1>6, <1>7

\* A second one makes two.
LEMMA InterruptedTwice ==
  ASSUME ETypeOK, NEW r \in Runs, garbled[r] \/ Struck(r), ancestors'[r] = ancestors[r],
         \A q \in Ancestry(r) : timer[q] => timer'[q], garbled'[r] = garbled[r],
         NEW p \in Ancestry(r), ~timer[p], timer'[p]
  PROVE  Interruptions(r)' >= 2
<1> DEFINE B == {q \in Ancestry(r) : timer'[q]}
<1>1. Ancestry(r) \subseteq Runs /\ IsFiniteSet(Runs) /\ Ancestry(r)' = Ancestry(r)
  BY ExecAssumption DEF ETypeOK, HostsOK, Ancestry
<1>2. IsFiniteSet(B) /\ Cardinality(B) \in Nat
  BY <1>1, FS_Subset, FS_CardinalityType
<1>3. Interruptions(r)' = Cardinality(B) + (IF garbled'[r] THEN 1 ELSE 0)
  BY <1>1 DEF Interruptions
<1>4. p \in B
  OBVIOUS
<1>5. Cardinality(B) >= 1
  <2>1. Cardinality(B) # 0
    BY <1>2, <1>4, FS_EmptySet
  <2> QED BY <1>2, <2>1
<1>6. CASE garbled[r]
  BY <1>2, <1>3, <1>5, <1>6
<1>7. CASE Struck(r)
  <2>1. PICK q \in Ancestry(r) : timer[q]
    BY <1>7 DEF Struck
  <2>2. q \in B /\ q # p
    BY <2>1
  <2>3. {p, q} \subseteq B /\ Cardinality({p, q}) = 2
    <3>1. IsFiniteSet({p}) /\ Cardinality({p}) = 1
      BY FS_Singleton
    <3>2. {p, q} = {p} \cup {q} /\ q \notin {p}
      BY <2>2
    <3>3. Cardinality({p} \cup {q}) = Cardinality({p}) + 1
      BY <3>1, <3>2, FS_AddElement
    <3> QED BY <1>4, <2>2, <3>1, <3>2, <3>3
  <2>4. Cardinality({p, q}) <= Cardinality(B)
    BY <1>2, <2>3, FS_Subset
  <2> QED BY <1>2, <1>3, <2>3, <2>4
<1> QED BY <1>6, <1>7

-----------------------------------------------------------------------------
(* Slots                                                                   *)

\* Everybody with a slot is one of finitely many runs.
LEMMA Finite == IsFiniteSet(Holding) /\ IsFiniteSet(InGlobal)
                /\ \A t : IsFiniteSet({r \in Holding : tenant[r] = t})
<1>1. Holding \subseteq Runs /\ InGlobal \subseteq Runs
  BY DEF Holding, InGlobal
<1>2. \A t : {r \in Holding : tenant[r] = t} \subseteq Runs
  BY <1>1
<1> QED BY <1>1, <1>2, ExecAssumption, FS_Subset

\* Nobody takes a slot.
LEMMA SlotsKept ==
  ASSUME SlotInv, settings' = settings, settings \in Settings,
         Holding' \subseteq Holding, InGlobal' \subseteq InGlobal,
         \A r \in Holding' : tenant'[r] = tenant[r]
  PROVE  SlotInv'
<1>1. ASSUME NEW t \in Tenants
      PROVE  Cardinality({r \in Holding' : tenant'[r] = t}) <= settings.tenant
  <2> DEFINE A == {r \in Holding : tenant[r] = t}  B == {r \in Holding' : tenant'[r] = t}
  <2>1. IsFiniteSet(A) /\ B \subseteq A
    BY Finite
  <2>2. Cardinality(B) <= Cardinality(A) /\ Cardinality(A) \in Nat /\ Cardinality(B) \in Nat
    BY <2>1, FS_Subset, FS_CardinalityType
  <2>3. Cardinality(A) <= settings.tenant /\ settings.tenant \in Nat
    BY Numbers DEF SlotInv
  <2> QED BY <2>2, <2>3
<1>2. ASSUME settings.global # 0 PROVE Cardinality(InGlobal') <= settings.global
  <2>1. /\ Cardinality(InGlobal') <= Cardinality(InGlobal)
        /\ Cardinality(InGlobal) \in Nat /\ Cardinality(InGlobal') \in Nat
    BY Finite, FS_Subset, FS_CardinalityType
  <2>2. Cardinality(InGlobal) <= settings.global /\ settings.global \in Nat
    BY <1>2, Numbers DEF SlotInv
  <2> QED BY <2>1, <2>2
<1> QED BY <1>1, <1>2 DEF SlotInv

\* Run r takes the tenant's slot, ...
LEMMA TenantSlotTaken ==
  ASSUME SlotInv, settings' = settings, settings \in Settings, InGlobal' \subseteq InGlobal,
         NEW x \in Runs, x \notin Holding, Holding' = Holding \cup {x},
         TenantFree(tenant[x]), tenant' = tenant
  PROVE  SlotInv'
<1>1. ASSUME NEW t \in Tenants
      PROVE  Cardinality({r \in Holding' : tenant'[r] = t}) <= settings.tenant
  <2> DEFINE A == {r \in Holding : tenant[r] = t}  B == {r \in Holding' : tenant'[r] = t}
  <2>1. IsFiniteSet(A) /\ Cardinality(A) \in Nat
    BY Finite, FS_CardinalityType
  <2>2. settings.tenant \in Nat /\ Cardinality(A) <= settings.tenant
    BY Numbers DEF SlotInv
  <2>3. CASE tenant[x] = t
    <3>1. B = A \cup {x} /\ x \notin A
      BY <2>3
    <3>2. Cardinality(B) = Cardinality(A) + 1
      BY <2>1, <3>1, FS_AddElement
    <3>3. Cardinality(A) < settings.tenant
      BY <2>3 DEF TenantFree
    <3> QED BY <2>1, <2>2, <3>2, <3>3
  <2>4. CASE tenant[x] # t
    <3>1. B = A
      BY <2>4
    <3> QED BY <2>2, <3>1
  <2> QED BY <2>3, <2>4
<1>2. ASSUME settings.global # 0 PROVE Cardinality(InGlobal') <= settings.global
  <2>1. /\ Cardinality(InGlobal') <= Cardinality(InGlobal)
        /\ Cardinality(InGlobal) \in Nat /\ Cardinality(InGlobal') \in Nat
    BY Finite, FS_Subset, FS_CardinalityType
  <2>2. Cardinality(InGlobal) <= settings.global /\ settings.global \in Nat
    BY <1>2, Numbers DEF SlotInv
  <2> QED BY <2>1, <2>2
<1> QED BY <1>1, <1>2 DEF SlotInv

\* ... or the one for all.
LEMMA GlobalSlotTaken ==
  ASSUME SlotInv, settings' = settings, settings \in Settings, Holding' = Holding,
         NEW x \in Runs, x \notin InGlobal, InGlobal' = InGlobal \cup {x},
         GlobalFree, tenant' = tenant
  PROVE  SlotInv'
<1>1. ASSUME settings.global # 0 PROVE Cardinality(InGlobal') <= settings.global
  <2>1. Cardinality(InGlobal') = Cardinality(InGlobal) + 1 /\ Cardinality(InGlobal) \in Nat
    BY Finite, FS_AddElement, FS_CardinalityType
  <2>2. Cardinality(InGlobal) < settings.global /\ settings.global \in Nat
    BY <1>1, Numbers DEF GlobalFree
  <2> QED BY <2>1, <2>2
<1>2. \A t \in Tenants : Cardinality({r \in Holding' : tenant'[r] = t}) <= settings'.tenant
  BY DEF SlotInv
<1> QED BY <1>1, <1>2 DEF SlotInv

-----------------------------------------------------------------------------
(* The chain of callers                                                    *)

\* Host state of a run that goes on from one step to the next, not to the end of a call.
Proceeded(r, s) ==
  /\ Active(r) /\ child[r] = Nil /\ s \in HostPcs \ {"idle"}
  /\ Goto(r, s) /\ UNCHANGED <<request, child, timer>>

\* A run that goes on by itself leaves the chains as they are.
LEMMA ChainProceeds ==
  ASSUME HostsOK, ChainInv, ChildInv, NEW r \in Runs, NEW s, Proceeded(r, s)
  PROVE  ChainInv' /\ ChildInv'
<1>1. \A q \in Runs : (host'[q] = "idle" <=> host[q] = "idle")
  BY DEF Proceeded, Goto, Active, HostsOK
<1>2. ChainInv'
  BY <1>1 DEF ChainInv, Proceeded, request, HostsOK
<1>3. \A q \in Runs : (Active(q)' => Active(q)) /\ (child[q] # Nil => host'[q] = host[q])
  BY DEF Proceeded, Goto, Active, HostsOK
<1>4. ChildInv'
  BY <1>3 DEF ChildInv, Proceeded, request, HostsOK
<1> QED BY <1>2, <1>4

\* So does a step that changes nothing a chain is made of.
LEMMA ChainSame ==
  ASSUME ChainInv, ChildInv, UNCHANGED <<host, request, child, timer>>
  PROVE  ChainInv' /\ ChildInv'
BY DEF ChainInv, ChildInv, request, Active

\* A run is made by a request of its own or by a guest.
LEMMA ChainBegins ==
  ASSUME HostsOK, ChainInv, ChildInv, NEW r \in Runs, NEW t \in Tenants, Begin(r, t)
  PROVE  ChainInv' /\ ChildInv'
<1>1. host[r] = "idle" /\ caller[r] = Nil /\ child[r] = Nil /\ ~timer[r]
  BY DEF Begin, ChainInv
<1>2. /\ host' = [host EXCEPT ![r] = "global"] /\ tenant' = [tenant EXCEPT ![r] = t]
      /\ UNCHANGED <<caller, ancestors, child, timer>>
  BY DEF Begin, Goto
<1>3. ChainInv'
  BY <1>1, <1>2 DEF ChainInv, HostsOK
<1>4. ChildInv'
  BY <1>1, <1>2 DEF ChildInv, HostsOK, Active
<1> QED BY <1>3, <1>4

\* A guest's call makes its run the last of the chain.
LEMMA ChainCalls ==
  ASSUME HostsOK, ChainInv, ChildInv, NEW r \in Runs, NEW c \in Runs, CallTool(r, c)
  PROVE  ChainInv' /\ ChildInv'
<1>1. /\ host[c] = "idle" /\ caller[c] = Nil /\ child[c] = Nil /\ ~timer[c] /\ c # r
      /\ host[r] = "serve" /\ child[r] = Nil /\ tenant[r] \in Tenants
  BY DEF CallTool, ChainInv, Serving
<1>2. /\ host' = [host EXCEPT ![c] = "global"] /\ tenant' = [tenant EXCEPT ![c] = tenant[r]]
      /\ caller' = [caller EXCEPT ![c] = r] /\ child' = [child EXCEPT ![r] = c]
      /\ ancestors' = [ancestors EXCEPT ![c] = ancestors[r] \cup {r}] /\ timer' = timer
  BY DEF CallTool, Goto
<1>3. \A q \in Runs : c \notin ancestors[q] /\ caller[q] # c
  <2>1. \A q \in Runs : c \notin ancestors[q]
    BY <1>1 DEF ChainInv
  <2>2. ASSUME NEW q \in Runs PROVE caller[q] # c
    <3>1. caller[q] # Nil => caller[q] \in ancestors[q]
      BY DEF ChainInv
    <3> QED BY <2>1, <3>1, Numbers
  <2> QED BY <2>1, <2>2
<1>4. ChainInv'
  <2> SUFFICES ASSUME NEW q \in Runs
               PROVE  /\ host'[q] = "idle" => caller'[q] = Nil /\ child'[q] = Nil /\ ~timer'[q]
                      /\ host'[q] # "idle" => tenant'[q] \in Tenants
                      /\ caller'[q] = Nil => ancestors'[q] = {}
                      /\ caller'[q] # Nil =>
                           ancestors'[q] = ancestors'[caller'[q]] \cup {caller'[q]}
                      /\ \A p \in ancestors'[q] : host'[p] # "idle" /\ (timer'[q] => timer'[p])
    BY DEF ChainInv
  <2>1. CASE q = c
    BY <1>1, <1>2, <2>1, Numbers DEF ChainInv, HostsOK
  <2>2. CASE q # c
    BY <1>1, <1>2, <1>3, <2>2 DEF ChainInv, HostsOK
  <2> QED BY <2>1, <2>2
<1>5. ChildInv'
  BY <1>1, <1>2, <1>3, Numbers DEF ChildInv, HostsOK, Active
<1> QED BY <1>4, <1>5

\* The call of a guest returns.
LEMMA ChainReturns ==
  ASSUME HostsOK, ChainInv, ChildInv, NEW r \in Runs, ToolReturns(r)
  PROVE  ChainInv' /\ ChildInv'
<1>1. /\ child[r] \in Runs /\ host[child[r]] = "done" /\ host[r] = "serve"
      /\ host' = [host EXCEPT ![r] = "pump"] /\ child' = [child EXCEPT ![r] = Nil]
      /\ UNCHANGED <<tenant, caller, ancestors, timer>>
  BY DEF ToolReturns, Reply, Goto, ChildInv, HostsOK, request
<1>2. ChainInv'
  BY <1>1 DEF ChainInv, HostsOK
<1>3. ChildInv'
  BY <1>1 DEF ChildInv, HostsOK, Active
<1> QED BY <1>2, <1>3

\* CancelledError leaves run d: nobody waits for it, or its caller does.
LEMMA Waiting ==
  ASSUME HostsOK, ChainInv, ChildInv, NEW d \in Runs, Active(d), host[d] # "serve"
  PROVE  /\ child[d] = Nil
         /\ \/ caller[d] = Nil /\ \A q \in Runs : q # caller[d]
            \/ /\ caller[d] \in Runs /\ caller[d] # d
               /\ host[caller[d]] = "serve" /\ child[caller[d]] = d
<1>1. child[d] = Nil
  BY DEF ChildInv
<1>2. CASE caller[d] = Nil
  BY <1>1, <1>2, Numbers
<1>3. CASE caller[d] # Nil
  <2>1. caller[d] \in Runs /\ child[caller[d]] = d
    BY <1>3 DEF ChildInv, HostsOK
  <2>2. host[caller[d]] = "serve"
    BY <2>1, Numbers DEF ChildInv
  <2> QED BY <1>1, <2>1, <2>2
<1> QED BY <1>2, <1>3

\* No run begins, and the timers fire from the outside in.
LEMMA ChainKept ==
  ASSUME HostsOK, ChainInv, UNCHANGED request,
         \A q \in Runs : /\ host'[q] = "idle" <=> host[q] = "idle"
                         /\ host[q] = "idle" => child'[q] = Nil /\ ~timer'[q]
                         /\ timer'[q] => \A p \in ancestors[q] : timer'[p]
  PROVE  ChainInv'
BY DEF ChainInv, request, HostsOK

\* A cancelled run ends with nobody waiting for it any more.
LEMMA ChildUnwinds ==
  ASSUME HostsOK, ChainInv, ChildInv, NEW d \in Runs, Active(d), host[d] # "serve", Unwind(d),
         UNCHANGED request
  PROVE  ChildInv' /\ \A q \in Runs : host'[q] = "idle" <=> host[q] = "idle"
<1>1. /\ host' = [r \in Runs |-> CASE r = d -> "done" [] r = caller[d] -> "reap" [] OTHER -> host[r]]
      /\ child' = [r \in Runs |-> IF r = caller[d] THEN Nil ELSE child[r]]
      /\ caller' = caller
  BY DEF Unwind, request
<1>2. /\ host'[d] = "done"
      /\ \A q \in Runs : q # d /\ q # caller[d] => host'[q] = host[q] /\ child'[q] = child[q]
  BY <1>1, Waiting
<1>3. CASE caller[d] = Nil /\ \A q \in Runs : q # caller[d]
  BY <1>1, <1>2, <1>3, Waiting DEF ChildInv, HostsOK, Active
<1>4. CASE /\ caller[d] \in Runs /\ caller[d] # d
           /\ host[caller[d]] = "serve" /\ child[caller[d]] = d
  <2> DEFINE p == caller[d]
  <2>1. host'[p] = "reap" /\ child'[p] = Nil /\ child'[d] = Nil
    BY <1>1, <1>4, Waiting
  <2>2. ASSUME NEW q \in Runs
        PROVE  /\ child'[q] # Nil => host'[q] = "serve" /\ caller'[child'[q]] = q
               /\ host'[q] \notin {"idle", "done"} /\ caller'[q] # Nil => child'[caller'[q]] = q
    <3>1. CASE q = d
      BY <1>2, <2>1, <3>1
    <3>2. CASE q = p
      <4>0. q \in Runs /\ Active(q)
        BY <1>4, <3>2 DEF Active
      <4>1. caller[q] # Nil => child[caller[q]] = q /\ caller[q] \in Runs
        BY <4>0 DEF ChildInv, HostsOK
      <4>2. caller[q] # Nil => caller[q] # p
        BY <4>1, <3>2, <1>4, Numbers
      <4>3. caller[q] # Nil => caller[q] # d
        BY <4>1, <3>2, Waiting, <1>4, Numbers
      <4> QED BY <1>1, <2>1, <3>2, <4>1, <4>2, <4>3
    <3>3. CASE q # d /\ q # p
      <4>1. host'[q] = host[q] /\ child'[q] = child[q]
        BY <1>2, <3>3
      <4>2. Active(q) /\ caller[q] # Nil => child[caller[q]] = q /\ caller[q] \in Runs
        BY DEF ChildInv, HostsOK
      <4>3. Active(q) /\ caller[q] # Nil => caller[q] # p /\ child'[caller[q]] = q
        BY <1>1, <1>4, <3>3, <4>2
      <4> QED BY <1>1, <4>1, <4>3 DEF ChildInv, Active
    <3> QED BY <3>1, <3>2, <3>3
  <2>3. ChildInv'
    BY <2>2 DEF ChildInv, Active
  <2>4. \A q \in Runs : host'[q] = "idle" <=> host[q] = "idle"
    BY <1>2, <1>4, <2>1 DEF Active
  <2> QED BY <2>3, <2>4
<1> QED BY <1>3, <1>4, Waiting

\* The timer of a run fires: what is waiting in its code is struck.
LEMMA Struck1 ==
  ASSUME ETypeOK, NEW r \in Runs, TimeOut(r)
  PROVE  /\ timer' = [timer EXCEPT ![r] = TRUE] /\ ~timer[r] /\ Active(r) /\ UNCHANGED request
         /\ \E d \in Runs : /\ r \in Ancestry(d) /\ child[d] = Nil /\ Active(d)
                            /\ Strike(d)
BY DEF TimeOut, Innermost, Strike, Ancestry, Active, ETypeOK, HostsOK

\* A timer keeps the chains, as it fires after the caller's.
LEMMA ChainStrikes ==
  ASSUME ETypeOK, ChainInv, ChildInv, NEW r \in Runs, TimeOut(r)
  PROVE  ChainInv' /\ ChildInv'
<1>1. /\ timer' = [timer EXCEPT ![r] = TRUE] /\ Active(r) /\ UNCHANGED request
      /\ caller[r] # Nil => timer[caller[r]]
  BY Struck1 DEF TimeOut, Nested
<1>2. PICK d \in Runs : child[d] = Nil /\ Active(d) /\ Strike(d)
  BY Struck1
<1>3. /\ ChildInv' /\ \A q \in Runs : host'[q] = "idle" <=> host[q] = "idle"
      /\ \A q \in Runs : host[q] = "idle" => child'[q] = Nil
  <2>1. CASE host[d] \in {"global", "tenant", "stage", "reap"} /\ Unwind(d)
    <3>1. \A q \in Runs : child'[q] \in {child[q], Nil}
      BY <2>1 DEF Unwind
    <3> QED BY <1>1, <1>2, <2>1, <3>1, ChildUnwinds DEF ChainInv, ETypeOK
  <2>2. CASE host[d] \in {"pump", "serve"} /\ Goto(d, "reap") /\ UNCHANGED child
    <3>1. \A q \in Runs : (Active(q)' <=> Active(q)) /\ (child[q] # Nil => host'[q] = host[q])
      BY <1>2, <2>2 DEF Goto, Active, ETypeOK, HostsOK
    <3>2. ChildInv'
      BY <1>1, <2>2, <3>1 DEF ChildInv, request
    <3>3. \A q \in Runs : host'[q] = "idle" <=> host[q] = "idle"
      BY <2>2 DEF Goto, ETypeOK, HostsOK
    <3> QED BY <2>2, <3>2, <3>3 DEF ChainInv
  <2> QED BY <1>2, <2>1, <2>2 DEF Strike
<1>4. ASSUME NEW q \in Runs, timer'[q], NEW p \in ancestors[q] PROVE timer'[p]
  <2>1. p \in Runs /\ (timer[q] => timer[p])
    BY DEF ChainInv, ETypeOK, HostsOK
  <2>2. q = r => timer[p]
    <3>1. q = r => caller[r] # Nil /\ p \in ancestors[caller[r]] \cup {caller[r]} /\ caller[r] \in Runs
      BY DEF ChainInv, ETypeOK, HostsOK
    <3> QED BY <1>1, <3>1 DEF ChainInv
  <2> QED BY <1>1, <1>4, <2>1, <2>2 DEF ETypeOK, HostsOK
<1>5. \A q \in Runs : host[q] = "idle" => ~timer'[q]
  BY <1>1 DEF ChainInv, Active, ETypeOK, HostsOK
<1> QED BY <1>1, <1>3, <1>4, <1>5, ChainKept DEF ETypeOK

\* A call at the http bridge is one that its run is serving, with nobody else in its place.
LEMMA AtTheBridge ==
  ASSUME BreakerInv, NEW r \in Runs, http[r] # "no"
  PROVE  host[r] = "serve" /\ child[r] = Nil
BY DEF BreakerInv

\* What becomes of an answer in each of the bridges.
Replies(r) ==
  \/ RefuseDb(r) \/ RefuseTool(r) \/ RefuseHttp(r) \/ ServeDb(r) \/ ToolReturns(r)
  \/ HttpAnswered(r) \/ HttpFailed(r) \/ HttpBlocked(r)
Egress(r) == HttpAdmit(r) \/ HttpHold(r) \/ HttpSend(r)

\* The next-state relation by what its steps touch.
LEMMA NextCases ==
  ASSUME ENext
  PROVE  \/ Tick
         \/ \E r \in Runs :
              \/ WorkerStep(r) \/ Replies(r) \/ Egress(r)
              \/ \E t \in Tenants : Begin(r, t)
              \/ \E c \in Runs : CallTool(r, c)
              \/ EnterGlobal(r) \/ EnterTenant(r) \/ StageFails(r) \/ SpawnWorker(r)
              \/ ReadRequest(r) \/ ReadResult(r) \/ Eof(r) \/ Overrun(r)
              \/ HostTimeout(r) \/ Reap(r) \/ TimeOut(r)
BY DEF ENext, Progress, WorkerStep, Replies, Egress, Overrun

\* A worker touches nothing of the host.
LEMMA WorkerAlone ==
  ASSUME NEW r \in Runs, WorkerStep(r)
  PROVE  UNCHANGED <<settings, hosts, served, egress, now>>
<1> USE DEF hosts, egress
<1>1. CASE Boot(r) \/ BootFails(r) \/ Dies(r)
  BY <1>1 DEF Boot, BootFails, Dies
<1>2. CASE AskDb(r) \/ AskTool(r) \/ AskHttp(r)
  BY <1>2 DEF AskDb, AskTool, AskHttp, Ask
<1>3. CASE TakeAnswer(r) \/ GiveUp(r) \/ GuestReturns(r) \/ GuestStopped(r)
  BY <1>3 DEF TakeAnswer, GiveUp, GuestReturns, GuestStopped, Ends
<1>4. CASE RelayRequest(r) \/ Answer(r) \/ EmitResult(r) \/ WriteLong(r) \/ Orphaned(r)
  BY <1>4 DEF RelayRequest, Answer, EmitResult, WriteLong, Orphaned
<1> QED BY <1>1, <1>2, <1>3, <1>4 DEF WorkerStep

\* An answer: what it does to the host and to the pipes.
LEMMA RepliesDo ==
  ASSUME ETypeOK, ChildInv, BreakerInv, NEW r \in Runs, Replies(r)
  PROVE  /\ host[r] = "serve" /\ http'[r] = "no"
         /\ \E ok \in BOOLEAN : Reply(r, ok)
         /\ UNCHANGED <<settings, request, fate, timer, garbled, workers, stdout, now, faults>>
         /\ child' = [child EXCEPT ![r] = Nil] /\ (child[r] = Nil \/ ToolReturns(r))
         /\ \A q \in Runs : q # r => http'[q] = http[q]
<1>1. CASE RefuseDb(r) \/ RefuseTool(r) \/ RefuseHttp(r) \/ ServeDb(r)
  <2>1. /\ Serving(r, "db") \/ Serving(r, "tool") \/ Serving(r, "http")
        /\ Reply(r, FALSE) \/ Reply(r, TRUE)
        /\ UNCHANGED <<settings, request, child, fate, timer, garbled, workers, stdout, egress, now, faults>>
    BY <1>1 DEF RefuseDb, RefuseTool, RefuseHttp, Refuse, ServeDb
  <2>2. host[r] = "serve" /\ child[r] = Nil /\ http[r] = "no"
    BY <2>1 DEF Serving
  <2> QED BY <2>1, <2>2 DEF egress, ETypeOK, HostsOK
<1>2. CASE ToolReturns(r)
  <2>1. /\ child[r] \in Runs /\ \E ok \in BOOLEAN : Reply(r, ok)
        /\ child' = [child EXCEPT ![r] = Nil]
        /\ UNCHANGED <<settings, request, fate, timer, garbled, workers, stdout, egress, now, faults>>
    BY <1>2 DEF ToolReturns, ETypeOK, HostsOK
  <2>2. host[r] = "serve" /\ http[r] = "no"
    BY <2>1, Numbers DEF ChildInv, BreakerInv, ETypeOK, EgressOK
  <2> QED BY <1>2, <2>1, <2>2 DEF egress
<1>3. CASE HttpAnswered(r) \/ HttpFailed(r) \/ HttpBlocked(r)
  <2>1. PICK ok \in BOOLEAN : HttpEnds(r, ok)
    BY <1>3 DEF HttpAnswered, HttpFailed, HttpBlocked
  <2>2. host[r] = "serve" /\ child[r] = Nil
    BY <2>1, AtTheBridge DEF HttpEnds
  <2> QED BY <2>1, <2>2 DEF HttpEnds, ETypeOK, HostsOK, EgressOK
<1> QED BY <1>1, <1>2, <1>3 DEF Replies

\* Every step keeps the chains of callers.
LEMMA ChainStep ==
  ASSUME ETypeOK, ChainInv, ChildInv, BreakerInv, ENext
  PROVE  ChainInv' /\ ChildInv'
<1>0. HostsOK
  BY DEF ETypeOK
<1>1. CASE Tick
  BY <1>1, ChainSame DEF Tick, hosts
<1>2. ASSUME NEW r \in Runs, WorkerStep(r) PROVE ChainInv' /\ ChildInv'
  BY <1>2, WorkerAlone, ChainSame DEF hosts
<1>3. ASSUME NEW r \in Runs, Replies(r) PROVE ChainInv' /\ ChildInv'
  <2>1. CASE ToolReturns(r)
    BY <1>0, <2>1, ChainReturns
  <2>2. CASE child[r] = Nil
    <3>1. /\ host[r] = "serve" /\ Goto(r, "pump") /\ UNCHANGED <<request, timer>>
          /\ child' = [child EXCEPT ![r] = Nil]
      BY <1>3, RepliesDo DEF Reply
    <3>2. child' = child
      BY <2>2, <3>1, <1>0 DEF HostsOK
    <3>3. Proceeded(r, "pump")
      BY <2>2, <3>1, <3>2 DEF Proceeded, Active, HostPcs
    <3> QED BY <1>0, <3>3, ChainProceeds
  <2> QED BY <1>3, <2>1, <2>2, RepliesDo
<1>4. ASSUME NEW r \in Runs, Egress(r) PROVE ChainInv' /\ ChildInv'
  BY <1>4, ChainSame DEF Egress, HttpAdmit, HttpHold, HttpSend, hosts
<1>5. ASSUME NEW r \in Runs, NEW t \in Tenants, Begin(r, t) PROVE ChainInv' /\ ChildInv'
  BY <1>0, <1>5, ChainBegins
<1>6. ASSUME NEW r \in Runs, NEW c \in Runs, CallTool(r, c) PROVE ChainInv' /\ ChildInv'
  BY <1>0, <1>6, ChainCalls
<1>7. ASSUME NEW r \in Runs,
             \/ EnterGlobal(r) \/ EnterTenant(r) \/ StageFails(r) \/ SpawnWorker(r)
             \/ ReadRequest(r) \/ ReadResult(r) \/ Eof(r) \/ Overrun(r) \/ HostTimeout(r)
      PROVE  ChainInv' /\ ChildInv'
  <2>1. /\ host[r] \in {"global", "tenant", "stage", "pump"}
        /\ \E s \in HostPcs \ {"idle"} : Goto(r, s)
        /\ UNCHANGED <<request, child, timer>>
    BY <1>7 DEF EnterGlobal, EnterTenant, StageFails, SpawnWorker, ReadRequest, ReadResult, Eof,
                Overrun, Garble, ReadLong, Unreadable, HostTimeout, HostPcs
  <2>2. child[r] = Nil /\ Active(r)
    BY <2>1 DEF ChildInv, Active
  <2> QED BY <1>0, <2>1, <2>2, ChainProceeds DEF Proceeded
<1>8. ASSUME NEW r \in Runs, Reap(r) PROVE ChainInv' /\ ChildInv'
  <2>1. Active(r) /\ host[r] = "reap" /\ UNCHANGED <<request, timer>>
    BY <1>8 DEF Reap, Active
  <2>2. CASE Unwind(r)
    <3>1. \A q \in Runs : child'[q] \in {child[q], Nil}
      BY <2>2 DEF Unwind
    <3>2. ChildInv' /\ \A q \in Runs : host'[q] = "idle" <=> host[q] = "idle"
      BY <1>0, <2>1, <2>2, ChildUnwinds
    <3>3. \A q \in Runs : /\ host[q] = "idle" => child'[q] = Nil /\ ~timer'[q]
                          /\ timer'[q] => \A p \in ancestors[q] : timer'[p]
      BY <2>1, <3>1 DEF ChainInv
    <3> QED BY <1>0, <2>1, <3>2, <3>3, ChainKept
  <2>3. CASE Goto(r, "done") /\ UNCHANGED child
    BY <1>0, <2>1, <2>3, ChainProceeds DEF Proceeded, HostPcs, ChildInv
  <2> QED BY <1>8, <2>2, <2>3 DEF Reap
<1>9. ASSUME NEW r \in Runs, TimeOut(r) PROVE ChainInv' /\ ChildInv'
  BY <1>9, ChainStrikes
<1> QED BY <1>1, <1>2, <1>3, <1>4, <1>5, <1>6, <1>7, <1>8, <1>9, NextCases

-----------------------------------------------------------------------------
(* A step and the slots                                                    *)

\* Nobody enters the guarded part of executor.run.
LEMMA SlotsMoved ==
  ASSUME SlotInv, settings \in Settings, UNCHANGED <<settings, request>>,
         \A q \in Runs : /\ host'[q] \in {"stage", "pump", "serve", "reap"} =>
                              host[q] \in {"stage", "pump", "serve", "reap"}
                         /\ host'[q] = "tenant" =>
                              host[q] \in {"tenant", "stage", "pump", "serve", "reap"}
  PROVE  SlotInv'
<1>1. Holding' \subseteq Holding /\ InGlobal' \subseteq InGlobal
  BY DEF Holding, InGlobal, Nested, request
<1> QED BY <1>1, SlotsKept DEF request

\* A cancelled run is done, and only the run that waited for it moves with it.
LEMMA UnwindHosts ==
  ASSUME HostsOK, ChainInv, ChildInv, NEW d \in Runs, Active(d), host[d] # "serve", Unwind(d)
  PROVE  /\ host'[d] = "done"
         /\ \A q \in Runs : q # d => \/ host'[q] = host[q]
                                     \/ /\ q = caller[d] /\ child[q] = d
                                        /\ host[q] = "serve" /\ host'[q] = "reap"
<1>1. host' = [r \in Runs |-> CASE r = d -> "done" [] r = caller[d] -> "reap" [] OTHER -> host[r]]
  BY DEF Unwind
<1>2. caller[d] # d
  BY Waiting
<1>3. host'[d] = "done"
  BY <1>1, <1>2
<1>4. \A q \in Runs : q # d /\ q # caller[d] => host'[q] = host[q]
  BY <1>1
<1>5. \A q \in Runs : q = caller[d] => host'[q] = "reap" /\ host[q] = "serve" /\ child[q] = d
  BY <1>1, <1>2, Waiting
<1> QED BY <1>3, <1>4, <1>5

\* Every step keeps the slots within their limits.
LEMMA SlotStep ==
  ASSUME ETypeOK, ChainInv, ChildInv, SlotInv, BreakerInv, ENext
  PROVE  SlotInv'
<1>0. HostsOK /\ settings \in Settings
  BY DEF ETypeOK
<1>1. CASE Tick
  BY <1>0, <1>1, SlotsMoved DEF Tick, hosts
<1>2. ASSUME NEW r \in Runs, WorkerStep(r) PROVE SlotInv'
  BY <1>0, <1>2, WorkerAlone, SlotsMoved DEF hosts
<1>3. ASSUME NEW r \in Runs, Replies(r) PROVE SlotInv'
  <2>1. host[r] = "serve" /\ Goto(r, "pump") /\ UNCHANGED <<settings, request>>
    BY <1>3, RepliesDo DEF Reply
  <2> QED BY <1>0, <2>1, SlotsMoved DEF Goto, HostsOK
<1>4. ASSUME NEW r \in Runs, Egress(r) PROVE SlotInv'
  BY <1>0, <1>4, SlotsMoved DEF Egress, HttpAdmit, HttpHold, HttpSend, hosts
<1>5. ASSUME NEW r \in Runs, NEW t \in Tenants, Begin(r, t) PROVE SlotInv'
  <2>1. /\ host' = [host EXCEPT ![r] = "global"] /\ tenant' = [tenant EXCEPT ![r] = t]
        /\ settings' = settings /\ caller' = caller
    BY <1>5 DEF Begin, Goto
  <2>2. \A q \in Runs : /\ host'[q] \in {"tenant", "stage", "pump", "serve", "reap"} =>
                             host'[q] = host[q] /\ tenant'[q] = tenant[q]
    BY <1>0, <2>1 DEF HostsOK
  <2>3. /\ Holding' \subseteq Holding /\ InGlobal' \subseteq InGlobal
        /\ \A q \in Holding' : tenant'[q] = tenant[q]
    BY <2>1, <2>2 DEF Holding, InGlobal, Nested
  <2> QED BY <1>0, <2>1, <2>3, SlotsKept
<1>6. ASSUME NEW r \in Runs, NEW c \in Runs, CallTool(r, c) PROVE SlotInv'
  <2>1. /\ host' = [host EXCEPT ![c] = "global"] /\ tenant' = [tenant EXCEPT ![c] = tenant[r]]
        /\ settings' = settings /\ caller' = [caller EXCEPT ![c] = r]
    BY <1>6 DEF CallTool, Goto
  <2>2. \A q \in Runs : /\ host'[q] \in {"tenant", "stage", "pump", "serve", "reap"} =>
                             /\ host'[q] = host[q] /\ tenant'[q] = tenant[q]
                             /\ caller'[q] = caller[q]
    BY <1>0, <2>1 DEF HostsOK
  <2>3. /\ Holding' \subseteq Holding /\ InGlobal' \subseteq InGlobal
        /\ \A q \in Holding' : tenant'[q] = tenant[q]
    BY <2>2 DEF Holding, InGlobal, Nested
  <2> QED BY <1>0, <2>1, <2>3, SlotsKept
<1>7. ASSUME NEW r \in Runs, EnterGlobal(r) PROVE SlotInv'
  <2>1. /\ host[r] = "global" /\ host' = [host EXCEPT ![r] = "tenant"]
        /\ UNCHANGED <<settings, request>> /\ (Nested(r) \/ GlobalFree)
    BY <1>7 DEF EnterGlobal, Goto
  <2>2. Holding' = Holding /\ tenant' = tenant /\ r \notin InGlobal
    BY <1>0, <2>1 DEF Holding, InGlobal, Nested, request, HostsOK
  <2>3. CASE Nested(r)
    <3>1. InGlobal' = InGlobal
      BY <1>0, <2>1, <2>2, <2>3 DEF InGlobal, Nested, request, HostsOK
    <3> QED BY <1>0, <2>1, <2>2, <3>1, SlotsKept
  <2>4. CASE ~Nested(r)
    <3>1. InGlobal' = InGlobal \cup {r}
      BY <1>0, <2>1, <2>2, <2>4 DEF InGlobal, Nested, request, HostsOK
    <3> QED BY <1>0, <2>1, <2>2, <2>4, <3>1, GlobalSlotTaken
  <2> QED BY <2>3, <2>4
<1>8. ASSUME NEW r \in Runs, EnterTenant(r) PROVE SlotInv'
  <2>1. /\ host[r] = "tenant" /\ host' = [host EXCEPT ![r] = "stage"]
        /\ UNCHANGED <<settings, request>> /\ (Nested(r) \/ TenantFree(tenant[r]))
    BY <1>8 DEF EnterTenant, Goto
  <2>2. r \notin Holding /\ tenant' = tenant
    BY <2>1 DEF Holding, request
  <2>3. CASE Nested(r)
    <3>1. Holding' = Holding /\ InGlobal' \subseteq InGlobal
      BY <1>0, <2>1, <2>3 DEF Holding, InGlobal, Nested, request, HostsOK
    <3> QED BY <1>0, <2>1, <2>2, <3>1, SlotsKept
  <2>4. CASE ~Nested(r)
    <3>1. Holding' = Holding \cup {r} /\ InGlobal' \subseteq InGlobal
      BY <1>0, <2>1, <2>4 DEF Holding, InGlobal, Nested, request, HostsOK
    <3> QED BY <1>0, <2>1, <2>2, <2>4, <3>1, TenantSlotTaken
  <2> QED BY <2>3, <2>4
<1>9. ASSUME NEW r \in Runs,
             \/ StageFails(r) \/ SpawnWorker(r) \/ ReadRequest(r) \/ ReadResult(r) \/ Eof(r)
             \/ Overrun(r) \/ HostTimeout(r)
      PROVE  SlotInv'
  <2>1. /\ host[r] \in {"stage", "pump"} /\ UNCHANGED <<settings, request>>
        /\ \E s \in {"pump", "serve", "reap", "done"} : Goto(r, s)
    BY <1>9 DEF StageFails, SpawnWorker, ReadRequest, ReadResult, Eof,
        Overrun, Garble, ReadLong, Unreadable, HostTimeout
  <2> QED BY <1>0, <2>1, SlotsMoved DEF Goto, HostsOK
<1>10. ASSUME NEW r \in Runs, Reap(r) PROVE SlotInv'
  <2>1. Active(r) /\ host[r] = "reap" /\ UNCHANGED <<settings, request>>
    BY <1>10 DEF Reap, Active
  <2>2. CASE Unwind(r)
    BY <1>0, <2>1, <2>2, UnwindHosts, SlotsMoved
  <2>3. CASE Goto(r, "done")
    BY <1>0, <2>1, <2>3, SlotsMoved DEF Goto, HostsOK
  <2> QED BY <1>10, <2>2, <2>3 DEF Reap
<1>11. ASSUME NEW r \in Runs, TimeOut(r) PROVE SlotInv'
  <2>1. PICK d \in Runs : Active(d) /\ Strike(d)
    BY <1>11, Struck1
  <2>2. UNCHANGED <<settings, request>>
    BY <1>11 DEF TimeOut
  <2>3. CASE host[d] # "serve" /\ Unwind(d)
    BY <1>0, <2>1, <2>2, <2>3, UnwindHosts, SlotsMoved
  <2>4. CASE host[d] \in {"pump", "serve"} /\ Goto(d, "reap")
    BY <1>0, <2>2, <2>4, SlotsMoved DEF Goto, HostsOK
  <2> QED BY <2>1, <2>3, <2>4 DEF Strike
<1> QED BY <1>1, <1>2, <1>3, <1>4, <1>5, <1>6, <1>7, <1>8, <1>9, <1>10, <1>11, NextCases

-----------------------------------------------------------------------------
(* A step and the types                                                    *)

\* Writing one file of a run.
LEMMA FileWritten ==
  ASSUME NEW S, NEW f \in [Runs -> [Asks -> S]], NEW x \in Runs, NEW n, NEW v \in S
  PROVE  [f EXCEPT ![x][n] = v] \in [Runs -> [Asks -> S]]
<1>1. [f[x] EXCEPT ![n] = v] \in [Asks -> S]
  OBVIOUS
<1> QED BY <1>1

\* A step of a worker or its guest keeps the types.
LEMMA WorkerTypes ==
  ASSUME ETypeOK, FrameInv, NEW r \in Runs, WorkerStep(r)
  PROVE  ETypeOK'
<1>0. /\ UNCHANGED <<settings, hosts, served, egress, now>> /\ HostsOK /\ WorkersOK /\ EgressOK
      /\ settings \in Settings /\ faults \in Nat
  BY WorkerAlone DEF ETypeOK
<1>1. HostsOK' /\ EgressOK' /\ settings' \in Settings
  BY <1>0 DEF hosts, request, egress, HostsOK, EgressOK
<1>2. faults' \in Nat /\ WorkersOK'
  <2> USE <1>0 DEF WorkersOK
  <2>0. NoFrame \in Frames /\ NoLine \in Lines
    BY Numbers DEF NoFrame, NoLine, Frames, Lines
  <2>1. CASE Boot(r) \/ Dies(r)
    <3>1. /\ UNCHANGED <<guest, files, pipes>> /\ faults' \in {faults, faults + 1}
          /\ \E w \in {"loop", "gone"} : work' = [work EXCEPT ![r] = w]
      BY <2>1 DEF Boot, Dies, Fault
    <3> QED BY <3>1 DEF files, pipes
  <2>2. CASE BootFails(r) \/ EmitResult(r)
    <3>1. /\ work' = [work EXCEPT ![r] = "gone"]
          /\ \E k \in {"result", "error"} :
               stdout' = [stdout EXCEPT ![r] = [kind |-> k, id |-> 0, call |-> 0]]
          /\ UNCHANGED <<guest, files, stdin>> /\ faults' \in Nat
      BY <2>2 DEF BootFails, EmitResult, Emit, Fault
    <3>2. \A k \in {"result", "error"} : [kind |-> k, id |-> 0, call |-> 0] \in Frames
      BY Numbers DEF Frames
    <3> QED BY <3>1, <3>2 DEF files
  <2>3. CASE AskDb(r) \/ AskTool(r) \/ AskHttp(r)
    <3>1. PICK k \in Kinds : Ask(r, k)
      BY <2>3 DEF AskDb, AskTool, AskHttp, Kinds
    <3>2. Len(calls[r]) + 1 \in Asks /\ Asks \subseteq 0..MaxAsks
      BY <3>1, Numbers DEF Ask, FrameInv, FrameOK, Asks
    <3>3. /\ UNCHANGED <<work, resp, seen, stdout, stdin, faults>>
          /\ guest' = [guest EXCEPT ![r] = "wait"] /\ calls' = [calls EXCEPT ![r] = Append(@, k)]
          /\ req' = [req EXCEPT ![r] = [req[r] EXCEPT ![Len(calls[r]) + 1] = Len(calls[r]) + 1]]
      BY <3>1 DEF Ask, RpcId, pipes
    <3>4. [req[r] EXCEPT ![Len(calls[r]) + 1] = Len(calls[r]) + 1] \in [Asks -> 0..MaxAsks]
      BY <3>2
    <3>5. Append(calls[r], k) \in Seq(Kinds)
      OBVIOUS
    <3> QED BY <3>3, <3>4, <3>5
  <2>4. CASE TakeAnswer(r) \/ GiveUp(r)
    <3> DEFINE n == Current(r)
    <3>1. n \in Nat
      BY DEF Current
    <3>2. CASE TakeAnswer(r)
      <4>1. n \in Asks
        BY <3>2, Numbers DEF TakeAnswer, FrameInv, FrameOK, Current, Asks
      <4>2. \E ok \in {resp[r][n].ok, FALSE} : Learn(r, ok)
        BY <3>2 DEF TakeAnswer, RpcId
      <4>3. faults' \in Nat /\ UNCHANGED <<work, calls, stdout, stdin>>
        <5>1. UNCHANGED <<work, calls, pipes>> /\ (UNCHANGED faults \/ Fault)
          BY <3>2 DEF TakeAnswer
        <5>2. UNCHANGED <<stdout, stdin>>
          BY <5>1 DEF pipes
        <5>3. UNCHANGED faults \/ faults' = faults + 1
          BY <5>1 DEF Fault
        <5> QED BY <5>1, <5>2, <5>3
      <4>4. req' = [req EXCEPT ![r][n] = 0] /\ resp' = [resp EXCEPT ![r][n] = NoLine]
        BY <3>2 DEF TakeAnswer, RpcId
      <4>5. req' \in [Runs -> [Asks -> 0..MaxAsks]] /\ resp' \in [Runs -> [Asks -> Lines]]
        <5>1. 0 \in 0..MaxAsks
          BY Numbers
        <5> QED BY <2>0, <4>4, <5>1, FileWritten
      <4>6. PICK ok \in {resp[r][n].ok, FALSE} : Learn(r, ok)
        BY <4>2
      <4>7. guest' = [guest EXCEPT ![r] = "run"]
        BY <4>6 DEF Learn
      <4>8. seen' \in [Runs -> SUBSET Nat]
        <5>1. seen[r] \cup (IF ok THEN {n} ELSE {}) \in SUBSET Nat
          BY <3>1
        <5>2. seen' = [seen EXCEPT ![r] = seen[r] \cup (IF ok THEN {n} ELSE {})]
          BY <4>6 DEF Learn
        <5> QED BY <5>1, <5>2
      <4> QED BY <4>3, <4>5, <4>7, <4>8
    <3>3. CASE GiveUp(r)
      <4>1. guest' = [guest EXCEPT ![r] = "run"] /\ seen' = [seen EXCEPT ![r] = @ \cup {}]
        BY <3>3 DEF GiveUp, Learn
      <4> QED BY <3>3, <4>1 DEF GiveUp, Fault, pipes
    <3> QED BY <2>4, <3>2, <3>3
  <2>5. CASE GuestReturns(r) \/ GuestStopped(r)
    BY <2>5 DEF GuestReturns, GuestStopped, Ends, files, pipes
  <2>6. CASE RelayRequest(r)
    <3>1. PICK n \in Asks, k \in Kinds \cup {"torn"} :
            /\ stdout' = [stdout EXCEPT ![r] = [id |-> n, call |-> req[r][n], kind |-> k]]
            /\ work' = [work EXCEPT ![r] = "ask"]
      <4>1. PICK n \in Asks :
              /\ req[r][n] # 0 /\ work' = [work EXCEPT ![r] = "ask"]
              /\ \E k \in {calls[r][req[r][n]], "torn"} :
                   stdout' = [stdout EXCEPT ![r] = [id |-> n, call |-> req[r][n], kind |-> k]]
        BY <2>6 DEF RelayRequest, Pending
      <4>2. calls[r][req[r][n]] \in Kinds
        BY <4>1, Numbers DEF FrameInv, FrameOK, Asks
      <4> QED BY <4>1, <4>2
    <3>2. UNCHANGED <<guest, files, stdin>> /\ faults' \in Nat
      BY <2>6 DEF RelayRequest, Fault
    <3>3. \A m \in Asks, j \in Kinds \cup {"torn"} : [id |-> m, call |-> req[r][m], kind |-> j] \in Frames
      BY Numbers DEF Frames, Asks
    <3> QED BY <3>1, <3>2, <3>3 DEF files
  <2>7. CASE Answer(r)
    <3>1. Head(stdin[r]) \in Lines /\ Tail(stdin[r]) \in Seq(Lines) /\ stdout[r].id \in Asks
      BY <2>7 DEF Answer, Executing, FrameInv, FrameOK
    <3> QED BY <2>0, <2>7, <3>1, Numbers DEF Answer
  <2>8. CASE Orphaned(r)
    BY <2>8 DEF Orphaned, files
  <2>9. CASE WriteLong(r)
    <3>1. [kind |-> "long", id |-> 0, call |-> 0] \in Frames
      BY Numbers DEF Frames
    <3> QED BY <2>9, <3>1 DEF WriteLong, Fault, files
  <2> QED BY <2>1, <2>2, <2>3, <2>4, <2>5, <2>6, <2>7, <2>8, <2>9 DEF WorkerStep
<1> QED BY <1>1, <1>2 DEF ETypeOK

\* So does clearing a run's things away, ...
LEMMA DisposeTypes ==
  ASSUME ETypeOK, NEW r \in Runs, Dispose(r)
  PROVE  /\ used' \in [Runs -> [Kinds -> 0..MaxCalls]]
         /\ guest' \in [Runs -> {"run", "wait", "done", "stopped"}]
         /\ calls' \in [Runs -> Seq(Kinds)]
         /\ req' \in [Runs -> [Asks -> 0..MaxAsks]] /\ resp' \in [Runs -> [Asks -> Lines]]
         /\ stdout' \in [Runs -> Frames]
         /\ served' \in [Runs -> SUBSET Nat] /\ seen' \in [Runs -> SUBSET Nat]
<1> USE DEF ETypeOK, HostsOK, WorkersOK
<1>1. NoFrame \in Frames /\ NoLine \in Lines
  BY Numbers DEF NoFrame, NoLine, Frames, Lines
<1>2. used' \in [Runs -> [Kinds -> 0..MaxCalls]]
  <2>1. [k \in Kinds |-> 0] \in [Kinds -> 0..MaxCalls]
    BY Numbers
  <2> QED BY <2>1 DEF Dispose
<1>3. req' \in [Runs -> [Asks -> 0..MaxAsks]]
  <2>1. [n \in Asks |-> 0] \in [Asks -> 0..MaxAsks]
    BY Numbers
  <2> QED BY <2>1 DEF Dispose
<1>4. resp' \in [Runs -> [Asks -> Lines]]
  <2>1. [n \in Asks |-> NoLine] \in [Asks -> Lines]
    BY <1>1
  <2> QED BY <2>1 DEF Dispose
<1>5. stdout' \in [Runs -> Frames]
  BY <1>1 DEF Dispose
<1>6. /\ guest' \in [Runs -> {"run", "wait", "done", "stopped"}]
      /\ calls' \in [Runs -> Seq(Kinds)]
      /\ served' \in [Runs -> SUBSET Nat] /\ seen' \in [Runs -> SUBSET Nat]
  BY DEF Dispose
<1> QED BY <1>2, <1>3, <1>4, <1>5, <1>6

\* ... a cancelled run, ...
LEMMA UnwindTypes ==
  ASSUME ETypeOK, NEW d \in Runs, Unwind(d), UNCHANGED <<request, garbled, work>>,
         timer' \in [Runs -> BOOLEAN]
  PROVE  HostsOK' /\ WorkersOK'
<1> USE DEF ETypeOK, HostsOK, WorkersOK
<1>1. Shutdown \in Lines
  BY DEF Shutdown, Lines
<1>2. host' \in [Runs -> HostPcs]
  <2>1. \A q \in Runs : (CASE q = d -> "done" [] q = caller[d] -> "reap" [] OTHER -> host[q]) \in HostPcs
    BY DEF HostPcs
  <2> QED BY <2>1 DEF Unwind
<1>3. /\ child' \in [Runs -> Runs \cup {Nil}]
      /\ fate' \in [Runs -> {Nil, "ok", "failed", "cancelled"}]
  BY DEF Unwind
<1>4. stdin' \in [Runs -> Seq(Lines)]
  <2>1. \A q \in Runs :
          (CASE q = d -> IF work[d] = "gone" THEN <<>> ELSE stdin[d]
             [] q = caller[d] -> Append(stdin[caller[d]], Shutdown)
             [] OTHER -> stdin[q]) \in Seq(Lines)
    BY <1>1
  <2> QED BY <2>1 DEF Unwind
<1>5. Dispose(d)
  BY DEF Unwind
<1> QED BY <1>2, <1>3, <1>4, <1>5, DisposeTypes DEF request

\* Another bridge call of a run is within its budget.
LEMMA SpendTypes ==
  ASSUME ETypeOK, NEW r \in Runs, NEW k \in Kinds, Budget(r, k), Spend(r, k)
  PROVE  used' \in [Runs -> [Kinds -> 0..MaxCalls]]
<1> USE DEF ETypeOK, HostsOK
<1>1. used[r][k] + 1 \in 0..MaxCalls
  BY Numbers DEF Budget
<1>2. [used[r] EXCEPT ![k] = used[r][k] + 1] \in [Kinds -> 0..MaxCalls]
  BY <1>1
<1> QED BY <1>2 DEF Spend

\* ... a new one, ...
LEMMA BeginTypes ==
  ASSUME ETypeOK, NEW r \in Runs, \/ \E t \in Tenants : Begin(r, t)
                                  \/ \E c \in Runs : ChildInv /\ CallTool(r, c)
  PROVE  ETypeOK'
<1> USE DEF ETypeOK, HostsOK
<1>1. CASE \E t \in Tenants : Begin(r, t)
  <2>1. /\ UNCHANGED <<settings, caller, ancestors, child, fate, timer, garbled, used, workers, pipes,
                 served, egress, now, faults>>
        /\ host' \in [Runs -> HostPcs] /\ tenant' \in [Runs -> Tenants \cup {Nil}]
    BY <1>1 DEF Begin, Goto, HostPcs
  <2> QED BY <2>1 DEF WorkersOK, EgressOK, workers, files, pipes, egress
<1>2. ASSUME NEW c \in Runs, CallTool(r, c) PROVE ETypeOK'
  <2>1. /\ UNCHANGED <<settings, fate, timer, garbled, workers, pipes, served, egress, now, faults>>
        /\ Budget(r, "tool") /\ Spend(r, "tool")
    BY <1>2 DEF CallTool
  <2>2. host' \in [Runs -> HostPcs] /\ tenant' \in [Runs -> Tenants \cup {Nil}]
    BY <1>2 DEF CallTool, Goto, HostPcs
  <2>3. /\ caller' \in [Runs -> Runs \cup {Nil}] /\ ancestors' \in [Runs -> SUBSET Runs]
        /\ child' \in [Runs -> Runs \cup {Nil}]
    <3>1. ancestors[r] \cup {r} \in SUBSET Runs
      OBVIOUS
    <3>2. /\ caller' = [caller EXCEPT ![c] = r] /\ child' = [child EXCEPT ![r] = c]
          /\ ancestors' = [ancestors EXCEPT ![c] = ancestors[r] \cup {r}]
      BY <1>2 DEF CallTool
    <3> QED BY <3>1, <3>2
  <2>4. used' \in [Runs -> [Kinds -> 0..MaxCalls]]
    BY <2>1, SpendTypes DEF Kinds
  <2> QED BY <2>1, <2>2, <2>3, <2>4 DEF WorkersOK, EgressOK, workers, files, pipes, egress
<1> QED BY <1>1, <1>2

\* ... and an answer.
LEMMA RepliesTypes ==
  ASSUME ETypeOK, ChainInv, ChildInv, BreakerInv, NEW r \in Runs, Replies(r)
  PROVE  ETypeOK'
<1> USE DEF ETypeOK
<1>1. PICK ok \in BOOLEAN : Reply(r, ok)
  BY RepliesDo
<1>2. /\ UNCHANGED <<settings, request, fate, timer, garbled, workers, stdout, now, faults>>
      /\ child' = [child EXCEPT ![r] = Nil]
  BY RepliesDo
<1>3. host' \in [Runs -> HostPcs]
  BY <1>1 DEF Reply, Goto, HostPcs, HostsOK
<1>4. used' \in [Runs -> [Kinds -> 0..MaxCalls]]
  <2>1. CASE RefuseDb(r) \/ RefuseTool(r) \/ RefuseHttp(r)
    <3>1. PICK k \in Kinds : UNCHANGED used \/ (Budget(r, k) /\ Spend(r, k))
      BY <2>1 DEF RefuseDb, RefuseTool, RefuseHttp, Refuse, Kinds
    <3> QED BY <3>1, SpendTypes DEF HostsOK
  <2>2. CASE ServeDb(r)
    BY <2>2, SpendTypes DEF ServeDb, Kinds
  <2>3. CASE ToolReturns(r) \/ HttpAnswered(r) \/ HttpFailed(r) \/ HttpBlocked(r)
    BY <2>3 DEF ToolReturns, HttpAnswered, HttpFailed, HttpBlocked, HttpEnds, HostsOK
  <2> QED BY <2>1, <2>2, <2>3 DEF Replies
<1>5. HostsOK'
  BY <1>2, <1>3, <1>4 DEF HostsOK, request
<1>6. served' \in [Runs -> SUBSET Nat] /\ stdin' \in [Runs -> Seq(Lines)]
  <2>1. [kind |-> "answer", ok |-> ok] \in Lines /\ stdout[r].call \in Nat
    BY Numbers DEF Lines, WorkersOK, Frames
  <2>2. Append(stdin[r], [kind |-> "answer", ok |-> ok]) \in Seq(Lines)
    BY <2>1 DEF WorkersOK
  <2>3. served[r] \cup (IF ok THEN {stdout[r].call} ELSE {}) \in SUBSET Nat
    BY <2>1 DEF WorkersOK
  <2> QED BY <1>1, <2>2, <2>3 DEF Reply, Write, WorkersOK
<1>7. WorkersOK'
  BY <1>2, <1>6 DEF WorkersOK, workers, files
<1>8. EgressOK'
  <2>1. CASE HttpAnswered(r) \/ HttpFailed(r) \/ HttpBlocked(r)
    <3>1. http' = [http EXCEPT ![r] = "no"]
      BY <2>1 DEF HttpAnswered, HttpFailed, HttpBlocked, HttpEnds
    <3>2. http' \in [Runs -> {"no", "queued", "held", "sent"}] /\ now' \in 0..MaxTime
      BY <1>2, <3>1 DEF EgressOK
    <3>3. tenant[r] \in Tenants
      BY RepliesDo DEF ChainInv
    <3>4. CASE RecordSuccess(tenant[r])
      <4>1. /\ failures' = [failures EXCEPT ![tenant[r]] = 0]
            /\ openUntil' = [openUntil EXCEPT ![tenant[r]] = 0] /\ stale' = stale
        BY <3>4 DEF RecordSuccess
      <4>2. 0 \in 0..MaxFailures /\ 0 \in Nat
        BY Numbers
      <4> QED BY <3>2, <4>1, <4>2 DEF EgressOK
    <3>5. CASE RecordFailure(r, tenant[r])
      <4> DEFINE t == tenant[r]  opens == failures[t] + 1 >= MaxFailures
      <4>1. /\ failures' = [failures EXCEPT ![t] = IF opens THEN MaxFailures ELSE failures[t] + 1]
            /\ openUntil' = [openUntil EXCEPT ![t] = IF opens THEN now + Reset ELSE openUntil[t]]
            /\ stale' \in [Runs -> BOOLEAN]
        BY <3>5 DEF RecordFailure, EgressOK
      <4>2. (IF opens THEN MaxFailures ELSE failures[t] + 1) \in 0..MaxFailures
        BY <3>3, Numbers DEF EgressOK
      <4>3. (IF opens THEN now + Reset ELSE openUntil[t]) \in Nat
        BY <3>3, Numbers DEF EgressOK
      <4> QED BY <3>2, <4>1, <4>2, <4>3 DEF EgressOK
    <3>6. CASE UNCHANGED <<failures, openUntil, stale>>
      BY <3>2, <3>6 DEF EgressOK
    <3> QED BY <2>1, <3>4, <3>5, <3>6 DEF HttpAnswered, HttpFailed, HttpBlocked
  <2>2. CASE RefuseDb(r) \/ RefuseTool(r) \/ RefuseHttp(r) \/ ServeDb(r) \/ ToolReturns(r)
    BY <1>2, <2>2 DEF RefuseDb, RefuseTool, RefuseHttp, Refuse, ServeDb, ToolReturns, EgressOK, egress
  <2> QED BY <2>1, <2>2 DEF Replies
<1> QED BY <1>2, <1>5, <1>7, <1>8

\* The shutdown line is a line.
LEMMA LineAdded ==
  ASSUME NEW s \in Seq(Lines)
  PROVE  Append(s, Shutdown) \in Seq(Lines)
<1>1. Shutdown \in Lines
  BY DEF Shutdown, Lines
<1> QED BY <1>1

\* Every step keeps the types.
LEMMA ExecTypeStep ==
  ASSUME ETypeOK, ChainInv, ChildInv, FrameInv, BreakerInv, ENext
  PROVE  ETypeOK'
<1>0. HostsOK /\ WorkersOK /\ EgressOK /\ settings \in Settings /\ faults \in Nat
  BY DEF ETypeOK
<1>1. CASE Tick
  <2>1. now' \in 0..MaxTime
    BY <1>0, <1>1, Numbers DEF Tick, EgressOK
  <2> QED BY <1>0, <1>1, <2>1 DEF Tick, ETypeOK, HostsOK, WorkersOK, EgressOK, hosts, request,
                                 workers, files, pipes, egress
<1>2. ASSUME NEW r \in Runs, WorkerStep(r) PROVE ETypeOK'
  BY <1>2, WorkerTypes
<1>3. ASSUME NEW r \in Runs, Replies(r) PROVE ETypeOK'
  BY <1>3, RepliesTypes
<1>4. ASSUME NEW r \in Runs, Egress(r) PROVE ETypeOK'
  <2>1. used' \in [Runs -> [Kinds -> 0..MaxCalls]]
    <3>1. CASE HttpAdmit(r)
      BY <3>1, SpendTypes DEF HttpAdmit, Kinds
    <3> QED BY <1>0, <1>4, <3>1 DEF Egress, HttpHold, HttpSend, hosts, HostsOK
  <2>2. /\ UNCHANGED <<settings, host, request, child, fate, timer, garbled, workers, pipes, served,
                       failures, openUntil, now, faults>>
        /\ \E h \in {"queued", "held", "sent"} : http' = [http EXCEPT ![r] = h]
        /\ stale' = stale \/ stale' = [stale EXCEPT ![r] = FALSE]
    BY <1>4 DEF Egress, HttpAdmit, HttpHold, HttpSend, hosts
  <2>3. HostsOK' /\ EgressOK'
    <3>1. HostsOK'
      BY <1>0, <2>1, <2>2 DEF HostsOK, request
    <3>2. http' \in [Runs -> {"no", "queued", "held", "sent"}]
      BY <1>0, <2>2 DEF EgressOK
    <3>3. stale' \in [Runs -> BOOLEAN]
      BY <1>0, <2>2 DEF EgressOK
    <3> QED BY <1>0, <2>2, <3>1, <3>2, <3>3 DEF EgressOK
  <2> QED BY <1>0, <2>2, <2>3 DEF ETypeOK, WorkersOK, workers, files, pipes
<1>5. ASSUME NEW r \in Runs, NEW t \in Tenants, Begin(r, t) PROVE ETypeOK'
  BY <1>5, BeginTypes
<1>6. ASSUME NEW r \in Runs, NEW c \in Runs, CallTool(r, c) PROVE ETypeOK'
  BY <1>6, BeginTypes
<1>7. ASSUME NEW r \in Runs,
             \/ EnterGlobal(r) \/ EnterTenant(r) \/ StageFails(r) \/ SpawnWorker(r)
             \/ ReadRequest(r) \/ ReadResult(r) \/ Eof(r) \/ Overrun(r)
      PROVE  ETypeOK'
  <2>1. /\ UNCHANGED <<settings, request, child, timer, used, guest, files, stdout, served, egress, now>>
        /\ \E s \in HostPcs : Goto(r, s)
        /\ faults' \in {faults, faults + 1}
    BY <1>7 DEF EnterGlobal, EnterTenant, StageFails, SpawnWorker, ReadRequest, ReadResult, Eof,
                Overrun, Garble, ReadLong, Unreadable, HostPcs, Fault, workers, pipes
  <2>2. fate' = fate \/ \E f \in {"ok", "failed"} : fate' = [fate EXCEPT ![r] = f]
    BY <1>7 DEF EnterGlobal, EnterTenant, StageFails, SpawnWorker, ReadRequest, ReadResult, Eof,
                Overrun, Garble, ReadLong, Unreadable, Over
  <2>3. garbled' = garbled \/ garbled' = [garbled EXCEPT ![r] = TRUE]
    BY <1>7 DEF EnterGlobal, EnterTenant, StageFails, SpawnWorker, ReadRequest, ReadResult, Eof,
        Overrun, Garble, ReadLong, Unreadable
  <2>4. work' = work \/ work' = [work EXCEPT ![r] = "boot"]
    BY <1>7 DEF EnterGlobal, EnterTenant, StageFails, SpawnWorker, ReadRequest, ReadResult, Eof,
                Overrun, Garble, ReadLong, Unreadable, workers
  <2>5. stdin' = stdin \/ stdin' = [stdin EXCEPT ![r] = Append(stdin[r], Shutdown)]
    BY <1>7 DEF EnterGlobal, EnterTenant, StageFails, SpawnWorker, ReadRequest, ReadResult, Eof,
                Overrun, Garble, ReadLong, Unreadable, Write, pipes
  <2>6. Append(stdin[r], Shutdown) \in Seq(Lines)
    BY <1>0, LineAdded DEF WorkersOK
  <2>7. HostsOK'
    <3>1. host' \in [Runs -> HostPcs]
      BY <1>0, <2>1 DEF HostsOK, Goto
    <3>2. fate' \in [Runs -> {Nil, "ok", "failed", "cancelled"}]
      BY <1>0, <2>2 DEF HostsOK
    <3>3. garbled' \in [Runs -> BOOLEAN]
      BY <1>0, <2>3 DEF HostsOK
    <3> QED BY <1>0, <2>1, <3>1, <3>2, <3>3 DEF HostsOK, request
  <2>8. WorkersOK'
    BY <1>0, <2>1, <2>4, <2>5, <2>6 DEF WorkersOK, files
  <2>9. EgressOK'
    BY <1>0, <2>1 DEF EgressOK, egress
  <2> QED BY <1>0, <2>1, <2>7, <2>8, <2>9 DEF ETypeOK
<1>8. ASSUME NEW r \in Runs, HostTimeout(r) PROVE ETypeOK'
  <2>1. /\ Dispose(r) /\ faults' \in Nat
        /\ UNCHANGED <<settings, request, child, timer, garbled, egress, now>>
        /\ host' = [host EXCEPT ![r] = "done"] /\ fate' = [fate EXCEPT ![r] = "failed"]
        /\ work' = [work EXCEPT ![r] = "gone"] /\ stdin' = [stdin EXCEPT ![r] = <<>>]
    BY <1>0, <1>8 DEF HostTimeout, Fault, Goto, Over
  <2>2. HostsOK'
    BY <1>0, <2>1, DisposeTypes DEF HostsOK, HostPcs, request
  <2>3. WorkersOK'
    BY <1>0, <2>1, DisposeTypes DEF WorkersOK
  <2> QED BY <1>0, <2>1, <2>2, <2>3 DEF ETypeOK, EgressOK, egress
<1>9. ASSUME NEW r \in Runs, Reap(r) PROVE ETypeOK'
  <2>1. UNCHANGED <<settings, request, timer, garbled, work, egress, now, faults>>
    BY <1>9 DEF Reap
  <2>2. CASE Unwind(r)
    <3>1. HostsOK' /\ WorkersOK'
      BY <1>0, <2>1, <2>2, UnwindTypes DEF HostsOK
    <3> QED BY <1>0, <2>1, <3>1 DEF ETypeOK, EgressOK, egress
  <2>3. CASE /\ Goto(r, "done") /\ Dispose(r) /\ stdin' = [stdin EXCEPT ![r] = <<>>]
             /\ UNCHANGED <<fate, child>>
    <3>1. HostsOK'
      BY <1>0, <2>1, <2>3, DisposeTypes DEF HostsOK, HostPcs, Goto, request
    <3>2. WorkersOK'
      BY <1>0, <2>1, <2>3, DisposeTypes DEF WorkersOK
    <3> QED BY <1>0, <2>1, <3>1, <3>2 DEF ETypeOK, EgressOK, egress
  <2> QED BY <1>9, <2>2, <2>3 DEF Reap
<1>10. ASSUME NEW r \in Runs, TimeOut(r) PROVE ETypeOK'
  <2>1. PICK d \in Runs : Strike(d)
    BY <1>10, Struck1
  <2>2. /\ UNCHANGED <<settings, request, garbled, work, stale, failures, openUntil, now>>
        /\ timer' = [timer EXCEPT ![r] = TRUE] /\ faults' \in Nat
    BY <1>0, <1>10 DEF TimeOut, Fault
  <2>3. CASE Unwind(d) /\ UNCHANGED http
    <3>1. timer' \in [Runs -> BOOLEAN]
      BY <1>0, <2>2 DEF HostsOK
    <3>2. HostsOK' /\ WorkersOK'
      BY <2>2, <2>3, <3>1, UnwindTypes
    <3> QED BY <1>0, <2>2, <2>3, <3>2 DEF ETypeOK, EgressOK
  <2>4. CASE /\ Goto(d, "reap") /\ Over(d, "cancelled") /\ Write(d, Shutdown)
             /\ http' = [http EXCEPT ![d] = "no"]
             /\ UNCHANGED <<child, used, files, stdout, guest, served>>
    <3>1. Append(stdin[d], Shutdown) \in Seq(Lines)
      BY <1>0, LineAdded DEF WorkersOK
    <3>2. HostsOK'
      BY <1>0, <2>2, <2>4 DEF HostsOK, HostPcs, Goto, Over, request
    <3>3. WorkersOK'
      BY <1>0, <2>2, <2>4, <3>1 DEF WorkersOK, Write, files
    <3> QED BY <1>0, <2>2, <2>4, <3>2, <3>3 DEF ETypeOK, EgressOK
  <2> QED BY <2>1, <2>3, <2>4 DEF Strike
<1> QED BY <1>1, <1>2, <1>3, <1>4, <1>5, <1>6, <1>7, <1>8, <1>9, <1>10, NextCases

-----------------------------------------------------------------------------
(* A step and the breaker                                                  *)

\* The calls at the http bridge stay where they are.
LEMMA BreakerKept ==
  ASSUME EgressOK, BreakerInv, UNCHANGED <<stale, openUntil, now>>,
         \A q \in Runs : http'[q] # "no" =>
           /\ http[q] # "no" /\ host'[q] = host[q] /\ child'[q] = child[q]
           /\ tenant'[q] = tenant[q]
  PROVE  BreakerInv'
BY DEF BreakerInv

\* An answer's effect on the breaker: a call left at the bridge is stale if it opened.
LEMMA BreakerReplies ==
  ASSUME ETypeOK, ChainInv, ChildInv, BreakerInv, NEW r \in Runs, Replies(r)
  PROVE  BreakerInv'
<1>1. /\ host[r] = "serve" /\ http'[r] = "no" /\ Goto(r, "pump") /\ now' = now
      /\ UNCHANGED request /\ child' = [child EXCEPT ![r] = Nil]
      /\ \A q \in Runs : q # r => http'[q] = http[q]
  BY RepliesDo DEF Reply
<1>2. \A q \in Runs : http'[q] # "no" =>
        /\ q # r /\ http[q] # "no" /\ host'[q] = host[q] /\ child'[q] = child[q]
        /\ tenant'[q] = tenant[q]
  BY <1>1 DEF Goto, request, ETypeOK, HostsOK
<1>3. tenant[r] \in Tenants /\ now \in Nat
  BY <1>1, Numbers DEF ChainInv, ETypeOK, EgressOK
<1>4. CASE UNCHANGED <<stale, openUntil>>
  BY <1>1, <1>2, <1>4, BreakerKept DEF ETypeOK
<1>5. CASE RecordSuccess(tenant[r])
  <2>1. openUntil' = [openUntil EXCEPT ![tenant[r]] = 0] /\ stale' = stale
    BY <1>5 DEF RecordSuccess
  <2>2. \A t \in Tenants : openUntil'[t] = openUntil[t] \/ openUntil'[t] <= now
    BY <1>3, <2>1 DEF ETypeOK, EgressOK
  <2>3. \A q \in Runs : tenant[q] \in Tenants \/ host[q] = "idle"
    BY DEF ChainInv
  <2>4. \A t \in Tenants : openUntil'[t] \in Nat /\ openUntil[t] \in Nat
    BY <1>3, <2>1 DEF ETypeOK, EgressOK
  <2> QED BY <1>1, <1>2, <1>3, <2>1, <2>2, <2>3, <2>4 DEF BreakerInv
<1>6. CASE RecordFailure(r, tenant[r])
  <2> DEFINE t == tenant[r]  opens == failures[t] + 1 >= MaxFailures
  <2>1. /\ openUntil' = [openUntil EXCEPT ![t] = IF opens THEN now + Reset ELSE openUntil[t]]
        /\ stale' = [q \in Runs |-> stale[q] \/ (opens /\ q # r /\ tenant[q] = t /\ http[q] # "no")]
    BY <1>6 DEF RecordFailure
  <2>2. CASE opens
    <3>1. openUntil' = [openUntil EXCEPT ![t] = now + Reset]
      BY <2>1, <2>2
    <3>2. \A q \in Runs : q # r /\ http[q] # "no" => stale'[q] \/ (tenant[q] # t /\ stale'[q] = stale[q])
      BY <2>1, <2>2 DEF ETypeOK, EgressOK
    <3>3. \A u \in Tenants : u # t => openUntil'[u] = openUntil[u]
      BY <3>1 DEF ETypeOK, EgressOK
    <3>4. openUntil'[t] = now + Reset
      BY <1>3, <3>1 DEF ETypeOK, EgressOK
    <3>5. \A q \in Runs : http'[q] # "no" => tenant[q] \in Tenants
      BY <1>2 DEF ChainInv, BreakerInv
    <3>6. Reset = 0 => \A u \in Tenants : openUntil'[u] <= now'
      BY <1>1, <1>3, <3>3, <3>4 DEF BreakerInv
    <3>7. ASSUME NEW q \in Runs, http'[q] # "no" PROVE openUntil'[tenant'[q]] > now' => stale'[q]
      BY <1>1, <1>2, <3>2, <3>3, <3>5, <3>7 DEF BreakerInv
    <3> QED BY <1>2, <3>6, <3>7 DEF BreakerInv
  <2>3. CASE ~opens
    <3>1. openUntil' = openUntil /\ stale' = stale
      BY <2>1, <2>3 DEF ETypeOK, EgressOK
    <3> QED BY <1>4, <3>1
  <2> QED BY <2>2, <2>3
<1>7. UNCHANGED <<stale, openUntil>> \/ RecordSuccess(tenant[r]) \/ RecordFailure(r, tenant[r])
  BY DEF Replies, RefuseDb, RefuseTool, RefuseHttp, Refuse, ServeDb, ToolReturns, HttpAnswered,
         HttpFailed, HttpBlocked, egress
<1> QED BY <1>4, <1>5, <1>6, <1>7

\* A cancelled run has no call at the http bridge, and its caller none either.
LEMMA BreakerUnwinds ==
  ASSUME ETypeOK, ChainInv, ChildInv, BreakerInv, NEW d \in Runs, Active(d), host[d] # "serve",
         Unwind(d), UNCHANGED <<request, http, stale, openUntil, now>>
  PROVE  BreakerInv'
<1>1. \A q \in Runs : http[q] # "no" => host[q] = "serve" /\ child[q] = Nil
  BY AtTheBridge
<1>2. \A q \in Runs : child'[q] \in {child[q], Nil}
  BY DEF Unwind
<1>3. \A q \in Runs : http[q] # "no" => host'[q] = host[q]
  BY <1>1, UnwindHosts, Numbers DEF ETypeOK
<1> QED BY <1>1, <1>2, <1>3, BreakerKept DEF request, ETypeOK

\* Every step keeps what is known of the calls beyond an open breaker.
LEMMA BreakerStep ==
  ASSUME ETypeOK, ChainInv, ChildInv, BreakerInv, ENext
  PROVE  BreakerInv'
<1>0. HostsOK /\ EgressOK
  BY DEF ETypeOK
<1>1. CASE Tick
  <2>1. now' = now + 1 /\ UNCHANGED <<hosts, egress>>
    BY <1>1 DEF Tick
  <2>2. now \in Nat /\ \A t \in Tenants : openUntil[t] \in Nat
    BY <1>0, Numbers DEF EgressOK
  <2>3. \A q \in Runs : http[q] # "no" => tenant[q] \in Tenants
    BY DEF BreakerInv, ChainInv
  <2> QED BY <2>1, <2>2, <2>3 DEF BreakerInv, hosts, request, egress
<1>2. ASSUME NEW r \in Runs, WorkerStep(r) PROVE BreakerInv'
  BY <1>0, <1>2, WorkerAlone, BreakerKept DEF hosts, request, egress
<1>3. ASSUME NEW r \in Runs, Replies(r) PROVE BreakerInv'
  BY <1>3, BreakerReplies
<1>4. ASSUME NEW r \in Runs, Egress(r) PROVE BreakerInv'
  <2>1. CASE HttpAdmit(r)
    <3>1. /\ host[r] = "serve" /\ child[r] = Nil /\ BreakerClosed(tenant[r])
          /\ http' = [http EXCEPT ![r] = "queued"] /\ stale' = [stale EXCEPT ![r] = FALSE]
          /\ UNCHANGED <<host, request, child, openUntil, now>>
      BY <2>1 DEF HttpAdmit, Serving
    <3>2. now \in Nat /\ tenant[r] \in Tenants /\ openUntil[tenant[r]] \in Nat
      BY <1>0, <3>1, Numbers DEF ChainInv, EgressOK
    <3>3. ~(openUntil[tenant[r]] > now)
      BY <3>1, <3>2 DEF BreakerClosed, BreakerInv
    <3>4. \A q \in Runs : q # r => http'[q] = http[q] /\ stale'[q] = stale[q]
      BY <1>0, <3>1 DEF EgressOK
    <3> QED BY <3>1, <3>3, <3>4 DEF BreakerInv, request
  <2>2. CASE HttpHold(r) \/ HttpSend(r)
    BY <1>0, <2>2, BreakerKept DEF HttpHold, HttpSend, hosts, request, EgressOK
  <2> QED BY <1>4, <2>1, <2>2 DEF Egress
<1>5. ASSUME NEW r \in Runs, NEW t \in Tenants, Begin(r, t) PROVE BreakerInv'
  <2>1. /\ http[r] = "no" /\ host' = [host EXCEPT ![r] = "global"]
        /\ tenant' = [tenant EXCEPT ![r] = t] /\ UNCHANGED <<child, egress, now>>
    BY <1>5, AtTheBridge DEF Begin, Goto
  <2> QED BY <1>0, <2>1, BreakerKept DEF egress, HostsOK
<1>6. ASSUME NEW r \in Runs, NEW c \in Runs, CallTool(r, c) PROVE BreakerInv'
  <2>1. /\ http[r] = "no" /\ http[c] = "no" /\ host' = [host EXCEPT ![c] = "global"]
        /\ tenant' = [tenant EXCEPT ![c] = tenant[r]] /\ child' = [child EXCEPT ![r] = c]
        /\ UNCHANGED <<egress, now>>
    BY <1>6, AtTheBridge DEF CallTool, Serving, Goto
  <2> QED BY <1>0, <2>1, BreakerKept DEF egress, HostsOK
<1>7. ASSUME NEW r \in Runs,
             \/ EnterGlobal(r) \/ EnterTenant(r) \/ StageFails(r) \/ SpawnWorker(r)
             \/ ReadRequest(r) \/ ReadResult(r) \/ Eof(r) \/ Overrun(r) \/ HostTimeout(r)
      PROVE  BreakerInv'
  <2>1. /\ host[r] # "serve" /\ \E s \in HostPcs : Goto(r, s)
        /\ UNCHANGED <<request, child, egress, now>>
    BY <1>7 DEF EnterGlobal, EnterTenant, StageFails, SpawnWorker, ReadRequest, ReadResult, Eof,
                Overrun, Garble, ReadLong, Unreadable, HostTimeout, HostPcs
  <2>2. http[r] = "no"
    BY <2>1, AtTheBridge
  <2> QED BY <1>0, <2>1, <2>2, BreakerKept DEF egress, request, HostsOK, Goto
<1>8. ASSUME NEW r \in Runs, Reap(r) PROVE BreakerInv'
  <2>1. host[r] = "reap" /\ Active(r) /\ UNCHANGED <<request, egress, now>>
    BY <1>8 DEF Reap, Active
  <2>2. CASE Unwind(r)
    BY <2>1, <2>2, BreakerUnwinds DEF egress
  <2>3. CASE Goto(r, "done") /\ UNCHANGED child
    <3>1. http[r] = "no"
      BY <2>1, AtTheBridge
    <3> QED BY <1>0, <2>1, <2>3, <3>1, BreakerKept DEF egress, request, HostsOK, Goto
  <2> QED BY <1>8, <2>2, <2>3 DEF Reap
<1>9. ASSUME NEW r \in Runs, TimeOut(r) PROVE BreakerInv'
  <2>1. PICK d \in Runs : Active(d) /\ Strike(d)
    BY <1>9, Struck1
  <2>2. UNCHANGED <<request, stale, openUntil, now>>
    BY <1>9 DEF TimeOut
  <2>3. CASE host[d] # "serve" /\ Unwind(d) /\ UNCHANGED http
    BY <2>1, <2>2, <2>3, BreakerUnwinds
  <2>4. CASE Goto(d, "reap") /\ http' = [http EXCEPT ![d] = "no"] /\ UNCHANGED child
    BY <1>0, <2>2, <2>4, BreakerKept DEF request, HostsOK, EgressOK, Goto
  <2> QED BY <2>1, <2>3, <2>4 DEF Strike
<1> QED BY <1>1, <1>2, <1>3, <1>4, <1>5, <1>6, <1>7, <1>8, <1>9, NextCases

-----------------------------------------------------------------------------
(* A step and the frames                                                   *)

\* A run whose files, pipes and worker nobody touches, ...
LEMMA FrameElse ==
  ASSUME NEW q \in Runs, FrameOK(q),
         calls'[q] = calls[q], guest'[q] = guest[q], req'[q] = req[q], resp'[q] = resp[q],
         served'[q] = served[q], seen'[q] = seen[q], stdout'[q] = stdout[q],
         stdin'[q] = stdin[q], work'[q] = work[q], host'[q] = host[q]
  PROVE  FrameOK(q)'
BY DEF FrameOK

\* ... one that is over and whose things are gone, ...
LEMMA FrameDisposed ==
  ASSUME ETypeOK, NEW r \in Runs, Dispose(r), host'[r] = "done"
  PROVE  FrameOK(r)'
<1>1. /\ calls'[r] = <<>> /\ guest'[r] = "done" /\ req'[r] = [n \in Asks |-> 0]
      /\ resp'[r] = [n \in Asks |-> NoLine] /\ stdout'[r] = NoFrame
      /\ seen'[r] = {}
  BY DEF Dispose, ETypeOK, HostsOK, WorkersOK
<1>2. NoFrame.kind = Nil /\ ~NoLine.ok
  BY DEF NoFrame, NoLine
<1> QED BY <1>1, <1>2, Numbers DEF FrameOK, Nil

\* ... and one whose pump is interrupted.
LEMMA FrameStruck ==
  ASSUME ETypeOK, NEW q \in Runs, FrameOK(q), host[q] # "done", host'[q] = "reap",
         calls'[q] = calls[q], guest'[q] = guest[q], req'[q] = req[q], resp'[q] = resp[q],
         served'[q] = served[q], seen'[q] = seen[q], stdout'[q] = stdout[q],
         work'[q] = work[q], stdin'[q] = Append(stdin[q], Shutdown)
  PROVE  FrameOK(q)'
<1>1. ~Shutdown.ok /\ stdin[q] \in Seq(Lines)
  BY DEF Shutdown, ETypeOK, WorkersOK
<1>2. \A i \in 1..Len(stdin'[q]) : stdin'[q][i].ok => i \in 1..Len(stdin[q]) /\ stdin[q][i].ok
  BY <1>1
<1> QED BY <1>2 DEF FrameOK

\* A step of a worker or its guest keeps its own frames in order, ...
LEMMA FrameWorks ==
  ASSUME ETypeOK, FrameInv, NEW r \in Runs, WorkerStep(r)
  PROVE  FrameOK(r)'
<1> USE DEF ETypeOK, WorkersOK
<1>0. UNCHANGED <<host, served>> /\ FrameOK(r)
  BY WorkerAlone DEF hosts, FrameInv
<1>1. NoFrame.kind = Nil /\ ~NoLine.ok
  BY DEF NoFrame, NoLine
<1>2. CASE Boot(r)
  <2>1. /\ work[r] = "boot" /\ work'[r] = "loop" /\ stdout[r] = NoFrame
        /\ UNCHANGED <<calls, guest, req, resp, seen, stdout, stdin>>
    BY <1>0, <1>2 DEF Boot, FrameOK, files, pipes
  <2> QED BY <1>0, <1>1, <2>1 DEF FrameOK, Nil
<1>3. CASE BootFails(r) \/ EmitResult(r)
  <2>1. PICK k \in {"result", "error"} :
          stdout' = [stdout EXCEPT ![r] = [kind |-> k, id |-> 0, call |-> 0]]
    BY <1>3 DEF BootFails, EmitResult, Emit
  <2>2. /\ work[r] \in {"boot", "loop"} /\ work'[r] = "gone"
        /\ UNCHANGED <<calls, guest, req, resp, seen, stdin>>
    BY <1>3 DEF BootFails, EmitResult, Emit, files
  <2>3. stdout'[r] # NoFrame
    BY <2>1 DEF NoFrame, Nil
  <2> QED BY <1>0, <2>1, <2>2, <2>3 DEF FrameOK
<1>4. CASE Dies(r)
  <2>1. work'[r] = "gone" /\ UNCHANGED <<calls, guest, req, resp, seen, stdout, stdin>>
    BY <1>4 DEF Dies, files, pipes
  <2> QED BY <1>0, <2>1 DEF FrameOK
<1>5. CASE AskDb(r) \/ AskTool(r) \/ AskHttp(r)
  <2>1. PICK k \in Kinds : Ask(r, k)
    BY <1>5 DEF AskDb, AskTool, AskHttp, Kinds
  <2> DEFINE n == Len(calls[r]) + 1
  <2>2. /\ n \in Asks
        /\ calls'[r] = Append(calls[r], k) /\ guest'[r] = "wait"
        /\ req'[r] = [req[r] EXCEPT ![n] = n]
        /\ UNCHANGED <<work, resp, seen, stdout, stdin>>
    BY <2>1, Numbers DEF Ask, RpcId, Asks, pipes
  <2>3. Len(calls'[r]) = n /\ calls'[r] # <<>> /\ n <= MaxAsks
    BY <2>2, Numbers DEF Asks
  <2>4. \A m \in Asks : req'[r][m] = 0 \/ (req'[r][m] = m /\ m <= Len(calls'[r]))
    BY <1>0, <2>2, <2>3, Numbers DEF FrameOK, Asks
  <2> QED BY <1>0, <2>2, <2>3, <2>4 DEF FrameOK
<1>6. CASE TakeAnswer(r)
  <2> DEFINE n == Current(r)
  <2>1. n \in Asks
    BY <1>0, <1>6, Numbers DEF TakeAnswer, FrameOK, Current, Asks
  <2>2. /\ req'[r] = [req[r] EXCEPT ![n] = 0] /\ resp'[r] = [resp[r] EXCEPT ![n] = NoLine]
    BY <1>6 DEF TakeAnswer, RpcId
  <2>3. PICK ok \in {resp[r][n].ok, FALSE} : Learn(r, ok)
    BY <1>6 DEF TakeAnswer, RpcId
  <2>4. guest'[r] = "run" /\ seen'[r] = seen[r] \cup (IF ok THEN {n} ELSE {})
    BY <2>3 DEF Learn
  <2>5. UNCHANGED <<work, calls, stdout, stdin>>
    <3>1. UNCHANGED <<work, calls, pipes>>
      BY <1>6 DEF TakeAnswer
    <3> QED BY <3>1 DEF pipes
  <2>6. resp[r][n].ok => n \in served[r]
    BY <1>0, <2>1 DEF FrameOK
  <2>7. seen'[r] \subseteq served[r]
    BY <1>0, <2>4, <2>6 DEF FrameOK
  <2>8. \A m \in Asks : /\ req'[r][m] = 0 \/ (req'[r][m] = m /\ m <= Len(calls[r]))
                        /\ resp'[r][m].ok => m \in served[r]
    BY <1>0, <1>1, <2>2 DEF FrameOK
  <2> QED BY <1>0, <2>4, <2>5, <2>7, <2>8 DEF FrameOK
<1>7. CASE GiveUp(r)
  <2>1. /\ guest'[r] = "run" /\ seen'[r] = seen[r]
        /\ UNCHANGED <<work, calls, req, resp, stdout, stdin>>
    BY <1>7 DEF GiveUp, Learn, pipes
  <2> QED BY <1>0, <2>1 DEF FrameOK
<1>8. CASE GuestReturns(r) \/ GuestStopped(r)
  <2>1. guest'[r] # "wait" /\ UNCHANGED <<work, calls, req, resp, seen, stdout, stdin>>
    BY <1>8 DEF GuestReturns, GuestStopped, Ends, files, pipes
  <2> QED BY <1>0, <2>1 DEF FrameOK
<1>9. CASE RelayRequest(r)
  <2>1. PICK n \in Asks :
          /\ req[r][n] # 0 /\ work[r] = "loop" /\ work'[r] = "ask"
          /\ \E k \in {calls[r][req[r][n]], "torn"} :
               stdout' = [stdout EXCEPT ![r] = [id |-> n, call |-> req[r][n], kind |-> k]]
          /\ UNCHANGED <<guest, calls, req, resp, seen, stdin>>
    BY <1>9 DEF RelayRequest, Pending, files
  <2>2. PICK k \in {calls[r][req[r][n]], "torn"} :
          stdout' = [stdout EXCEPT ![r] = [id |-> n, call |-> req[r][n], kind |-> k]]
    BY <2>1
  <2>3. req[r][n] = n /\ k \in Kinds \cup {"torn"}
    BY <1>0, <2>1, Numbers DEF FrameOK, Asks
  <2>4. /\ stdout'[r].id = n /\ stdout'[r].call = n
        /\ stdout'[r].kind \notin {"result", "error", "long"}
        /\ stdout'[r] # NoFrame
    BY <2>2, <2>3, Numbers DEF Asks, NoFrame, Kinds
  <2> QED BY <1>0, <2>1, <2>4 DEF FrameOK
<1>10. CASE Answer(r)
  <2> DEFINE n == stdout[r].id
  <2>1. /\ host[r] # "done" /\ work[r] = "ask" /\ work'[r] = "loop" /\ stdin[r] # <<>>
        /\ resp'[r] = [resp[r] EXCEPT ![n] = Head(stdin[r])] /\ req'[r] = [req[r] EXCEPT ![n] = 0]
        /\ stdout'[r] = NoFrame /\ stdin'[r] = Tail(stdin[r])
        /\ UNCHANGED <<guest, calls, seen>>
    BY <1>10 DEF Answer, Executing
  <2>2. n \in Asks /\ stdout[r].call = n
    BY <1>0, <2>1 DEF FrameOK
  <2>3. stdin[r] \in Seq(Lines) /\ Head(stdin[r]) = stdin[r][1] /\ 1 \in 1..Len(stdin[r])
    BY <2>1
  <2>4. Head(stdin[r]).ok => n \in served[r]
    BY <1>0, <2>1, <2>2, <2>3 DEF FrameOK
  <2>5. \A i \in 1..Len(Tail(stdin[r])) : ~Tail(stdin[r])[i].ok
    <3>1. \A i \in 1..Len(Tail(stdin[r])) : /\ i + 1 \in 1..Len(stdin[r]) /\ i + 1 # 1
                                            /\ Tail(stdin[r])[i] = stdin[r][i + 1]
      BY <2>1, <2>3
    <3> QED BY <1>0, <2>1, <3>1 DEF FrameOK
  <2>6. \A m \in Asks : /\ req'[r][m] = 0 \/ (req'[r][m] = m /\ m <= Len(calls[r]))
                        /\ resp'[r][m].ok => m \in served[r]
    BY <1>0, <2>1, <2>2, <2>4 DEF FrameOK
  <2>7. host[r] # "serve"
    BY <1>0, <2>1 DEF FrameOK
  <2> QED BY <1>0, <1>1, <2>1, <2>5, <2>6, <2>7 DEF FrameOK, Nil
<1>11. CASE Orphaned(r)
  <2>1. /\ host[r] = "done" /\ work'[r] = "gone" /\ stdin'[r] = <<>>
        /\ UNCHANGED <<guest, calls, req, resp, seen, stdout>>
    BY <1>11 DEF Orphaned, files
  <2> QED BY <1>0, <2>1 DEF FrameOK
<1>12. CASE WriteLong(r)
  <2>1. /\ work[r] = "loop" /\ work'[r] = "write"
        /\ stdout'[r] = [kind |-> "long", id |-> 0, call |-> 0]
        /\ UNCHANGED <<guest, calls, req, resp, seen, stdin>>
    BY <1>12 DEF WriteLong, files
  <2>2. host[r] # "serve"
    BY <1>0, <2>1 DEF FrameOK
  <2> QED BY <1>0, <2>1, <2>2 DEF FrameOK
<1> QED BY <1>2, <1>3, <1>4, <1>5, <1>6, <1>7, <1>8, <1>9, <1>10, <1>11, <1>12 DEF WorkerStep

\* ... and touches nobody else's.
LEMMA WorkerOthers ==
  ASSUME ETypeOK, NEW r \in Runs, WorkerStep(r), NEW q \in Runs, q # r
  PROVE  /\ calls'[q] = calls[q] /\ guest'[q] = guest[q] /\ req'[q] = req[q] /\ resp'[q] = resp[q]
         /\ seen'[q] = seen[q] /\ stdout'[q] = stdout[q] /\ stdin'[q] = stdin[q]
         /\ work'[q] = work[q]
<1> USE DEF ETypeOK, WorkersOK
<1>1. CASE Boot(r) \/ Dies(r) \/ Orphaned(r)
  BY <1>1 DEF Boot, Dies, Orphaned, files, pipes
<1>2. CASE BootFails(r) \/ EmitResult(r) \/ WriteLong(r)
  BY <1>2 DEF BootFails, EmitResult, WriteLong, Emit, files
<1>3. CASE AskDb(r) \/ AskTool(r) \/ AskHttp(r)
  BY <1>3 DEF AskDb, AskTool, AskHttp, Ask, pipes
<1>4. CASE TakeAnswer(r)
  <2>1. /\ UNCHANGED <<work, calls, pipes>> /\ \E ok : Learn(r, ok)
        /\ \E n : req' = [req EXCEPT ![r][n] = 0] /\ resp' = [resp EXCEPT ![r][n] = NoLine]
    BY <1>4 DEF TakeAnswer
  <2> QED BY <2>1 DEF Learn, pipes
<1>5. CASE GiveUp(r) \/ GuestReturns(r) \/ GuestStopped(r)
  BY <1>5 DEF GiveUp, Learn, GuestReturns, GuestStopped, Ends, files, pipes
<1>6. CASE RelayRequest(r)
  <2>1. /\ work' = [work EXCEPT ![r] = "ask"] /\ UNCHANGED <<guest, files, stdin>>
        /\ \E f : stdout' = [stdout EXCEPT ![r] = f]
    BY <1>6 DEF RelayRequest
  <2> QED BY <2>1 DEF files
<1>7. CASE Answer(r)
  BY <1>7 DEF Answer
<1> QED BY <1>1, <1>2, <1>3, <1>4, <1>5, <1>6, <1>7 DEF WorkerStep

\* A cancelled run leaves the frames of the others in order.
LEMMA FrameUnwinds ==
  ASSUME ETypeOK, ChainInv, ChildInv, FrameInv, NEW d \in Runs, Active(d), host[d] # "serve",
         Unwind(d), UNCHANGED work
  PROVE  FrameInv'
<1>1. Dispose(d) /\ host'[d] = "done"
  BY UnwindHosts DEF Unwind, ETypeOK
<1>2. ASSUME NEW q \in Runs, q # d
      PROVE  /\ calls'[q] = calls[q] /\ guest'[q] = guest[q] /\ req'[q] = req[q] /\ resp'[q] = resp[q]
             /\ served'[q] = served[q] /\ seen'[q] = seen[q] /\ stdout'[q] = stdout[q]
             /\ work'[q] = work[q]
  BY <1>1, <1>2 DEF Dispose, ETypeOK, WorkersOK
<1>3. stdin' = [r \in Runs |-> CASE r = d -> IF work[d] = "gone" THEN <<>> ELSE stdin[d]
                                 [] r = caller[d] -> Append(stdin[caller[d]], Shutdown)
                                 [] OTHER -> stdin[r]]
  BY DEF Unwind
<1>4. ASSUME NEW q \in Runs PROVE FrameOK(q)'
  <2>1. CASE q = d
    BY <1>1, <2>1, FrameDisposed
  <2>2. CASE q # d /\ q = caller[d]
    <3>1. stdin'[q] = Append(stdin[q], Shutdown)
      BY <1>3, <2>2
    <3>2. host[q] = "serve" /\ host'[q] = "reap"
      <4>1. host[q] = "serve"
        BY <2>2, Waiting DEF ETypeOK
      <4>2. host'[q] = "reap"
        BY <2>2 DEF Unwind
      <4> QED BY <4>1, <4>2
    <3> QED BY <1>2, <2>2, <3>1, <3>2, FrameStruck DEF FrameInv
  <2>3. CASE q # d /\ q # caller[d]
    <3>1. stdin'[q] = stdin[q]
      BY <1>3, <2>3
    <3>2. host'[q] = host[q]
      BY <2>3 DEF Unwind
    <3> QED BY <1>2, <2>3, <3>1, <3>2, FrameElse DEF FrameInv
  <2> QED BY <2>1, <2>2, <2>3
<1> QED BY <1>4 DEF FrameInv

\* Every step keeps the frames in order.
LEMMA FrameStep ==
  ASSUME ETypeOK, ChainInv, ChildInv, FrameInv, WorkerInv, BreakerInv, ENext
  PROVE  FrameInv'
<1>0. HostsOK /\ WorkersOK
  BY DEF ETypeOK
<1>1. ASSUME UNCHANGED <<host, work, guest, files, pipes, served>> PROVE FrameInv'
  BY <1>1, FrameElse DEF FrameInv, files, pipes
<1>2. CASE Tick
  BY <1>1, <1>2 DEF Tick, hosts, workers
<1>3. ASSUME NEW r \in Runs, WorkerStep(r) PROVE FrameInv'
  BY <1>3, FrameWorks, WorkerOthers, WorkerAlone, FrameElse DEF FrameInv, hosts
<1>4. ASSUME NEW r \in Runs, Replies(r) PROVE FrameInv'
  <2>1. PICK ok \in BOOLEAN : Reply(r, ok)
    BY <1>4, RepliesDo
  <2>2. /\ host[r] = "serve" /\ host' = [host EXCEPT ![r] = "pump"]
        /\ UNCHANGED <<workers, stdout>>
        /\ served' = [served EXCEPT ![r] = @ \cup (IF ok THEN {stdout[r].call} ELSE {})]
        /\ stdin' = [stdin EXCEPT ![r] = Append(@, [kind |-> "answer", ok |-> ok])]
    BY <1>4, <2>1, RepliesDo DEF Reply, Goto, Write
  <2>3. ASSUME NEW q \in Runs, q # r PROVE FrameOK(q)'
    BY <1>0, <2>2, <2>3, FrameElse DEF FrameInv, HostsOK, WorkersOK, workers, files
  <2>4. FrameOK(r)'
    <3>1. stdin[r] = <<>> /\ stdout[r] # NoFrame /\ FrameOK(r) /\ work[r] \in {"ask", "gone"}
      BY <2>2 DEF FrameInv, FrameOK
    <3>2. stdin'[r] = <<[kind |-> "answer", ok |-> ok]>> /\ host'[r] = "pump"
      BY <1>0, <2>2, <3>1 DEF HostsOK, WorkersOK
    <3>3. served[r] \subseteq served'[r] /\ (ok => stdout[r].call \in served'[r])
      BY <1>0, <2>2 DEF WorkersOK
    <3> QED BY <2>2, <3>1, <3>2, <3>3 DEF FrameOK, workers, files
  <2> QED BY <2>3, <2>4 DEF FrameInv
<1>5. ASSUME NEW r \in Runs, Egress(r) PROVE FrameInv'
  BY <1>1, <1>5 DEF Egress, HttpAdmit, HttpHold, HttpSend, hosts, workers
<1>6. ASSUME NEW r \in Runs, NEW s \in {"global", "tenant", "stage", "reap"},
             Goto(r, s), host[r] # "done", UNCHANGED <<work, guest, files, pipes, served>>
      PROVE  FrameInv'
  <2>1. \A q \in Runs : FrameOK(q)'
    <3>1. ASSUME NEW q \in Runs, q # r PROVE FrameOK(q)'
      BY <1>0, <1>6, <3>1, FrameElse DEF FrameInv, HostsOK, Goto, files, pipes
    <3>2. FrameOK(r)'
      BY <1>0, <1>6 DEF FrameInv, FrameOK, HostsOK, Goto, files, pipes
    <3> QED BY <3>1, <3>2
  <2> QED BY <2>1 DEF FrameInv
<1>7. ASSUME NEW r \in Runs, NEW t \in Tenants, Begin(r, t) PROVE FrameInv'
  BY <1>6, <1>7 DEF Begin, workers
<1>8. ASSUME NEW r \in Runs, NEW c \in Runs, CallTool(r, c) PROVE FrameInv'
  BY <1>6, <1>8 DEF CallTool, workers
<1>9. ASSUME NEW r \in Runs, EnterGlobal(r) \/ EnterTenant(r) \/ ReadResult(r) \/ Eof(r)
      PROVE  FrameInv'
  BY <1>6, <1>9 DEF EnterGlobal, EnterTenant, ReadResult, Eof, workers
<1>10. ASSUME NEW r \in Runs, StageFails(r) PROVE FrameInv'
  <2>1. /\ host' = [host EXCEPT ![r] = "done"] /\ UNCHANGED <<workers, pipes, served>>
    BY <1>10 DEF StageFails, Goto
  <2>2. ASSUME NEW q \in Runs, q # r PROVE FrameOK(q)'
    BY <1>0, <2>1, <2>2, FrameElse DEF FrameInv, HostsOK, workers, files, pipes
  <2>3. FrameOK(r)'
    BY <1>0, <2>1 DEF FrameInv, FrameOK, HostsOK, workers, files, pipes
  <2> QED BY <2>2, <2>3 DEF FrameInv
<1>11. ASSUME NEW r \in Runs, SpawnWorker(r) PROVE FrameInv'
  <2>1. /\ host[r] = "stage" /\ host' = [host EXCEPT ![r] = "pump"]
        /\ work' = [work EXCEPT ![r] = "boot"] /\ UNCHANGED <<guest, files, pipes, served>>
    BY <1>11 DEF SpawnWorker, Goto
  <2>2. ASSUME NEW q \in Runs, q # r PROVE FrameOK(q)'
    BY <1>0, <2>1, <2>2, FrameElse DEF FrameInv, HostsOK, WorkersOK, files, pipes
  <2>3. work[r] = "none" /\ work'[r] = "boot" /\ host'[r] = "pump"
    BY <1>0, <2>1 DEF WorkerInv, WorkerOK, HostsOK, WorkersOK
  <2>4. stdout[r] = NoFrame /\ NoFrame.kind = Nil
    BY <2>3 DEF FrameInv, FrameOK, NoFrame
  <2>5. FrameOK(r)'
    BY <2>1, <2>3, <2>4 DEF FrameInv, FrameOK, files, pipes, Nil
  <2> QED BY <2>2, <2>5 DEF FrameInv
<1>12. ASSUME NEW r \in Runs, ReadRequest(r) PROVE FrameInv'
  <2>1. /\ host[r] = "pump" /\ stdout[r] # NoFrame /\ stdin[r] = <<>> /\ stdout[r].kind # "long"
        /\ host' = [host EXCEPT ![r] = "serve"] /\ UNCHANGED <<workers, pipes, served>>
    BY <1>12 DEF ReadRequest, Goto, Unread
  <2>2. ASSUME NEW q \in Runs, q # r PROVE FrameOK(q)'
    BY <1>0, <2>1, <2>2, FrameElse DEF FrameInv, HostsOK, workers, files, pipes
  <2>3. FrameOK(r)'
    BY <1>0, <2>1 DEF FrameInv, FrameOK, HostsOK, workers, files, pipes
  <2> QED BY <2>2, <2>3 DEF FrameInv
<1>13. ASSUME NEW r \in Runs, Goto(r, "reap"), Write(r, Shutdown), host[r] # "done",
              UNCHANGED <<work, guest, files, stdout, served>>
       PROVE  FrameInv'
  <2>1. /\ host' = [host EXCEPT ![r] = "reap"] /\ stdin' = [stdin EXCEPT ![r] = Append(@, Shutdown)]
    BY <1>13 DEF Goto, Write
  <2>2. ASSUME NEW q \in Runs, q # r PROVE FrameOK(q)'
    BY <1>0, <1>13, <2>1, <2>2, FrameElse DEF FrameInv, HostsOK, WorkersOK, files
  <2>3. FrameOK(r)'
    BY <1>0, <1>13, <2>1, FrameStruck DEF FrameInv, HostsOK, WorkersOK, files
  <2> QED BY <2>2, <2>3 DEF FrameInv
<1>14. ASSUME NEW r \in Runs, Overrun(r) PROVE FrameInv'
  BY <1>13, <1>14 DEF Overrun, Garble, ReadLong, Unreadable, workers
<1>15. ASSUME NEW r \in Runs, Dispose(r), Goto(r, "done"), stdin' = [stdin EXCEPT ![r] = <<>>],
              \E w : work' = [work EXCEPT ![r] = w]
       PROVE  FrameInv'
  <2>1. FrameOK(r)'
    BY <1>0, <1>15, FrameDisposed DEF Goto, HostsOK
  <2>2. ASSUME NEW q \in Runs, q # r PROVE FrameOK(q)'
    BY <1>0, <1>15, <2>2, FrameElse DEF FrameInv, HostsOK, WorkersOK, Dispose, Goto
  <2> QED BY <2>1, <2>2 DEF FrameInv
<1>16. ASSUME NEW r \in Runs, HostTimeout(r) PROVE FrameInv'
  BY <1>15, <1>16 DEF HostTimeout
<1>17. ASSUME NEW r \in Runs, Reap(r) PROVE FrameInv'
  <2>1. Active(r) /\ host[r] = "reap" /\ UNCHANGED work
    BY <1>17 DEF Reap, Active
  <2>2. work' = [work EXCEPT ![r] = work[r]]
    BY <1>0, <2>1 DEF WorkersOK
  <2>3. CASE Unwind(r)
    BY <2>1, <2>3, FrameUnwinds
  <2>4. CASE Goto(r, "done") /\ Dispose(r) /\ stdin' = [stdin EXCEPT ![r] = <<>>]
    BY <1>15, <2>2, <2>4
  <2> QED BY <1>17, <2>3, <2>4 DEF Reap
<1>18. ASSUME NEW r \in Runs, TimeOut(r) PROVE FrameInv'
  <2>1. PICK d \in Runs : Active(d) /\ Strike(d)
    BY <1>18, Struck1
  <2>2. UNCHANGED work
    BY <1>18 DEF TimeOut
  <2>3. CASE host[d] # "serve" /\ Unwind(d)
    BY <2>1, <2>2, <2>3, FrameUnwinds
  <2>4. CASE Goto(d, "reap") /\ Write(d, Shutdown) /\ UNCHANGED <<files, stdout, guest, served>>
    BY <1>13, <2>1, <2>2, <2>4 DEF Active
  <2> QED BY <2>1, <2>3, <2>4 DEF Strike
<1> QED BY <1>2, <1>3, <1>4, <1>5, <1>7, <1>8, <1>9, <1>10, <1>11, <1>12, <1>14, <1>16, <1>17,
           <1>18, NextCases

-----------------------------------------------------------------------------
(* A step and the workers                                                  *)

\* A run that stays where it is.
LEMMA WorkerKept ==
  ASSUME ETypeOK, NEW q \in Runs, WorkerOK(q), ancestors'[q] = ancestors[q],
         \A p \in Runs : timer[p] => timer'[p], garbled'[q] = garbled[q],
         host'[q] = host[q], fate'[q] = fate[q],
         Live(q)' => Live(q), work[q] = "none" => work'[q] = "none"
  PROVE  WorkerOK(q)'
<1>1. Ancestry(q)' = Ancestry(q) /\ Ancestry(q) \subseteq Runs
  BY DEF Ancestry, ETypeOK, HostsOK
<1>2. Struck(q) => Struck(q)'
  BY <1>1 DEF Struck
<1>3. Interruptions(q) >= 2 => Interruptions(q)' >= 2
  BY <1>1, InterruptionsGrow
<1> QED BY <1>2, <1>3 DEF WorkerOK, Abandoned

\* A worker never comes to life by itself.
LEMMA WorkerLives ==
  ASSUME ETypeOK, NEW r \in Runs, WorkerStep(r), NEW q \in Runs
  PROVE  (Live(q)' => Live(q)) /\ (work[q] = "none" => work'[q] = "none")
<1>1. CASE q # r
  BY <1>1, WorkerOthers DEF Live
<1>2. CASE q = r
  <2> USE <1>2 DEF Live, ETypeOK, WorkersOK
  <2>1. CASE Boot(r) \/ Dies(r) \/ Orphaned(r)
    BY <2>1 DEF Boot, Dies, Orphaned
  <2>2. CASE BootFails(r) \/ EmitResult(r) \/ WriteLong(r)
    BY <2>2 DEF BootFails, EmitResult, WriteLong, Emit
  <2>3. CASE AskDb(r) \/ AskTool(r) \/ AskHttp(r) \/ TakeAnswer(r) \/ GiveUp(r) \/ GuestReturns(r)
             \/ GuestStopped(r)
    <3>1. UNCHANGED work
      BY <2>3 DEF AskDb, AskTool, AskHttp, Ask, TakeAnswer, GiveUp, GuestReturns, GuestStopped, Ends
    <3> QED BY <3>1
  <2>4. CASE RelayRequest(r) \/ Answer(r)
    BY <2>4 DEF RelayRequest, Answer
  <2> QED BY <2>1, <2>2, <2>3, <2>4 DEF WorkerStep
<1> QED BY <1>1, <1>2

\* What strikes a run strikes the one that waits for it, as its timer fires first.
LEMMA CallerStruck ==
  ASSUME ETypeOK, ChainInv, ChainInv', UNCHANGED ancestors, NEW d \in Runs, NEW p \in Runs,
         caller[d] = p, Struck(d)'
  PROVE  Struck(p)'
<1>1. ancestors[d] = ancestors[p] \cup {p} /\ p # Nil
  BY Numbers DEF ChainInv
<1>2. p \in ancestors'[d] /\ (timer'[d] => timer'[p])
  BY <1>1 DEF ChainInv
<1>3. PICK q \in Ancestry(d)' : timer'[q]
  BY DEF Struck
<1>4. q = d \/ q \in Ancestry(p)'
  BY <1>1, <1>3 DEF Ancestry
<1>5. p \in Ancestry(p)'
  BY DEF Ancestry
<1> QED BY <1>2, <1>3, <1>4, <1>5 DEF Struck

\* A cancelled run whose worker lives was interrupted twice.
LEMMA WorkerUnwinds ==
  ASSUME ETypeOK, ChainInv, ChainInv', ChildInv, WorkerInv,
         NEW d \in Runs, Active(d), host[d] # "serve", Unwind(d),
         UNCHANGED <<request, garbled, work>>, \A p \in Runs : timer[p] => timer'[p],
         Struck(d)', Live(d) => Interruptions(d)' >= 2
  PROVE  WorkerInv'
<1>1. host'[d] = "done"
  BY UnwindHosts DEF ETypeOK
<1>2. WorkerOK(d)'
  BY <1>1 DEF WorkerOK, Abandoned, Live
<1>3. ASSUME NEW q \in Runs, q = caller[d] PROVE WorkerOK(q)'
  <2>1. host'[q] = "reap"
    <3>1. q # d
      BY <1>3, Waiting DEF ETypeOK
    <3> QED BY <1>3, <3>1 DEF Unwind
  <2>2. Struck(q)'
    BY <1>3, CallerStruck DEF request
  <2> QED BY <2>1, <2>2 DEF WorkerOK, Abandoned
<1>4. ASSUME NEW q \in Runs, q # d, q # caller[d] PROVE WorkerOK(q)'
  <2>1. host'[q] = host[q] /\ fate'[q] = fate[q]
    BY <1>4 DEF Unwind
  <2> QED BY <2>1, WorkerKept DEF WorkerInv, request, Live
<1> QED BY <1>2, <1>3, <1>4 DEF WorkerInv

\* Every step keeps the reason for every living worker.
LEMMA WorkerInvStep ==
  ASSUME ETypeOK, ChainInv, ChainInv', ChildInv, FrameInv, WorkerInv, BreakerInv, ENext
  PROVE  WorkerInv'
<1>0. HostsOK /\ WorkersOK
  BY DEF ETypeOK
<1>1. ASSUME UNCHANGED <<host, ancestors, fate, timer, garbled, work>> PROVE WorkerInv'
  BY <1>1, WorkerKept DEF WorkerInv, Live
<1>2. CASE Tick
  BY <1>1, <1>2 DEF Tick, hosts, request, workers
<1>3. ASSUME NEW r \in Runs, WorkerStep(r) PROVE WorkerInv'
  BY <1>3, WorkerAlone, WorkerLives, WorkerKept DEF WorkerInv, hosts, request
<1>4. ASSUME NEW r \in Runs, WorkerOK(r)', UNCHANGED timer,
             \A q \in Runs : q # r => /\ host'[q] = host[q] /\ ancestors'[q] = ancestors[q]
                                      /\ fate'[q] = fate[q] /\ garbled'[q] = garbled[q]
                                      /\ work'[q] = work[q]
      PROVE  WorkerInv'
  BY <1>4, WorkerKept DEF WorkerInv, Live
<1>5. ASSUME NEW r \in Runs, Replies(r) PROVE WorkerInv'
  <2>1. /\ host' = [host EXCEPT ![r] = "pump"]
        /\ UNCHANGED <<request, fate, timer, garbled, work>>
    BY <1>5, RepliesDo DEF Reply, Goto, workers
  <2>2. WorkerOK(r)'
    BY <1>0, <2>1 DEF WorkerOK, HostsOK, Abandoned
  <2> QED BY <1>0, <1>4, <2>1, <2>2 DEF request, HostsOK
<1>6. ASSUME NEW r \in Runs, Egress(r) PROVE WorkerInv'
  BY <1>1, <1>6 DEF Egress, HttpAdmit, HttpHold, HttpSend, hosts, request, workers
<1>7. ASSUME NEW r \in Runs, NEW t \in Tenants, Begin(r, t) PROVE WorkerInv'
  <2>1. /\ host[r] = "idle" /\ host' = [host EXCEPT ![r] = "global"]
        /\ UNCHANGED <<ancestors, fate, timer, garbled, work>>
    BY <1>7 DEF Begin, Goto, workers
  <2>2. WorkerOK(r)'
    BY <1>0, <2>1 DEF WorkerInv, WorkerOK, HostsOK, Abandoned
  <2> QED BY <1>0, <1>4, <2>1, <2>2 DEF HostsOK
<1>8. ASSUME NEW r \in Runs, NEW c \in Runs, CallTool(r, c) PROVE WorkerInv'
  <2>1. /\ host[c] = "idle" /\ host' = [host EXCEPT ![c] = "global"]
        /\ ancestors' = [ancestors EXCEPT ![c] = ancestors[r] \cup {r}]
        /\ UNCHANGED <<fate, timer, garbled, work>>
    BY <1>8 DEF CallTool, Goto, workers
  <2>2. WorkerOK(c)'
    BY <1>0, <2>1 DEF WorkerInv, WorkerOK, HostsOK, Abandoned
  <2> QED BY <1>0, <1>4, <2>1, <2>2 DEF HostsOK
<1>9. ASSUME NEW r \in Runs, EnterGlobal(r) \/ EnterTenant(r) \/ SpawnWorker(r) \/ ReadRequest(r)
      PROVE  WorkerInv'
  <2>1. /\ \/ /\ host[r] \in {"global", "tenant"} /\ work' = work
              /\ \E s \in {"tenant", "stage"} : host' = [host EXCEPT ![r] = s]
           \/ /\ \E s \in {"pump", "serve"} : host' = [host EXCEPT ![r] = s]
              /\ work' = work \/ work' = [work EXCEPT ![r] = "boot"]
        /\ UNCHANGED <<ancestors, fate, timer, garbled>>
    BY <1>9 DEF EnterGlobal, EnterTenant, SpawnWorker, ReadRequest, Goto, workers, request
  <2>2. WorkerOK(r)'
    BY <1>0, <2>1 DEF WorkerInv, WorkerOK, HostsOK, Abandoned
  <2> QED BY <1>0, <1>4, <2>1, <2>2 DEF HostsOK, WorkersOK
<1>10. ASSUME NEW r \in Runs, ReadResult(r) \/ Eof(r) PROVE WorkerInv'
  <2>1. /\ host' = [host EXCEPT ![r] = "reap"] /\ UNCHANGED <<ancestors, timer, garbled, work>>
        /\ \E f \in {"ok", "failed"} : fate' = [fate EXCEPT ![r] = f]
    BY <1>10 DEF ReadResult, Eof, Goto, Over, workers, request
  <2>2. work[r] = "gone"
    BY <1>10 DEF ReadResult, Eof, FrameInv, FrameOK
  <2>3. WorkerOK(r)'
    BY <1>0, <2>1, <2>2 DEF WorkerOK, HostsOK, Abandoned, Live
  <2> QED BY <1>0, <1>4, <2>1, <2>3 DEF HostsOK
<1>11. ASSUME NEW r \in Runs, Overrun(r) PROVE WorkerInv'
  <2>1. /\ host' = [host EXCEPT ![r] = "reap"] /\ UNCHANGED <<ancestors, timer, work>>
        /\ fate' = [fate EXCEPT ![r] = "failed"] /\ garbled' = [garbled EXCEPT ![r] = TRUE]
    BY <1>11 DEF Overrun, Garble, ReadLong, Unreadable, Goto, Over, workers, request
  <2>2. WorkerOK(r)'
    BY <1>0, <2>1 DEF WorkerOK, HostsOK, Abandoned
  <2> QED BY <1>0, <1>4, <2>1, <2>2 DEF HostsOK
<1>12. ASSUME NEW r \in Runs, StageFails(r) \/ HostTimeout(r) PROVE WorkerInv'
  <2>1. /\ host' = [host EXCEPT ![r] = "done"] /\ UNCHANGED <<ancestors, timer, garbled>>
        /\ fate' = [fate EXCEPT ![r] = "failed"]
        /\ \/ host[r] = "stage" /\ work' = work
           \/ work' = [work EXCEPT ![r] = "gone"]
    BY <1>12 DEF StageFails, HostTimeout, Goto, Over, workers, request
  <2>2. work'[r] \in {"none", "gone"} /\ host'[r] = "done"
    BY <1>0, <2>1 DEF WorkerInv, WorkerOK, WorkersOK, HostsOK
  <2>3. WorkerOK(r)'
    BY <2>2 DEF WorkerOK, Abandoned, Live
  <2> QED BY <1>0, <1>4, <2>1, <2>3 DEF HostsOK, WorkersOK
<1>13. ASSUME NEW r \in Runs, Reap(r) PROVE WorkerInv'
  <2>1. /\ Active(r) /\ host[r] = "reap" /\ work[r] = "gone"
        /\ UNCHANGED <<request, timer, garbled, work>>
    BY <1>13 DEF Reap, Active
  <2>2. CASE fate[r] = "cancelled" /\ Unwind(r)
    <3>1. Struck(r)' /\ ~Live(r)
      BY <2>1, <2>2 DEF WorkerInv, WorkerOK, Struck, Ancestry, request, Live
    <3> QED BY <2>1, <2>2, <3>1, WorkerUnwinds
  <2>3. CASE Goto(r, "done") /\ UNCHANGED fate
    <3>1. WorkerOK(r)'
      BY <1>0, <2>1, <2>3 DEF WorkerOK, Goto, HostsOK, Abandoned, Live
    <3> QED BY <1>0, <1>4, <2>1, <2>3, <3>1 DEF Goto, HostsOK, request
  <2> QED BY <1>13, <2>2, <2>3 DEF Reap
<1>14. ASSUME NEW r \in Runs, TimeOut(r) PROVE WorkerInv'
  <2>1. PICK d \in Runs : r \in Ancestry(d) /\ child[d] = Nil /\ Active(d) /\ Strike(d)
    BY <1>14, Struck1
  <2>2. /\ UNCHANGED <<request, garbled, work>> /\ timer' = [timer EXCEPT ![r] = TRUE] /\ ~timer[r]
    BY <1>14 DEF TimeOut
  <2>3. timer'[r] /\ \A p \in Runs : timer[p] => timer'[p]
    BY <1>0, <2>2 DEF HostsOK
  <2>4. Struck(d)'
    BY <2>1, <2>2, <2>3 DEF Struck, Ancestry, request
  <2>5. CASE host[d] \in {"global", "tenant", "stage", "reap"} /\ Unwind(d)
    <3>1. Live(d) => Interruptions(d)' >= 2
      <4>1. Live(d) => garbled[d] \/ Struck(d)
        BY <2>5 DEF WorkerInv, WorkerOK, Live
      <4>2. Ancestry(d) \subseteq Runs
        BY <1>0 DEF Ancestry, HostsOK
      <4> QED BY <2>1, <2>2, <2>3, <4>1, <4>2, InterruptedTwice DEF request
    <3> QED BY <2>1, <2>2, <2>3, <2>4, <2>5, <3>1, WorkerUnwinds
  <2>6. CASE Goto(d, "reap") /\ Over(d, "cancelled")
    <3>1. host'[d] = "reap"
      BY <1>0, <2>6 DEF Goto, HostsOK
    <3>2. WorkerOK(d)'
      BY <2>4, <3>1 DEF WorkerOK, Abandoned
    <3>3. ASSUME NEW q \in Runs, q # d PROVE WorkerOK(q)'
      <4>1. host'[q] = host[q] /\ fate'[q] = fate[q]
        BY <1>0, <2>6, <3>3 DEF Goto, Over, HostsOK
      <4> QED BY <2>2, <2>3, <4>1, WorkerKept DEF WorkerInv, request, Live
    <3> QED BY <3>2, <3>3 DEF WorkerInv
  <2> QED BY <2>1, <2>5, <2>6 DEF Strike
<1> QED BY <1>2, <1>3, <1>5, <1>6, <1>7, <1>8, <1>9, <1>10, <1>11, <1>12, <1>13, <1>14, NextCases

-----------------------------------------------------------------------------
(* The invariant and what it says                                          *)

\* The invariant holds in the beginning ...
LEMMA InitInv ==
  ASSUME EInit
  PROVE  EInv
<1> USE DEF EInit
<1>1. ETypeOK
  <2>1. NoFrame \in Frames /\ NoLine \in Lines
    BY Numbers DEF NoFrame, NoLine, Frames, Lines
  <2>2. HostsOK
    BY Numbers DEF HostsOK, HostPcs
  <2>3. WorkersOK
    <3>1. 0 \in 0..MaxAsks
      BY Numbers
    <3> QED BY <2>1, <3>1 DEF WorkersOK
  <2>4. EgressOK
    BY Numbers DEF EgressOK
  <2> QED BY <2>2, <2>3, <2>4 DEF ETypeOK
<1>2. ChainInv /\ ChildInv
  BY DEF ChainInv, ChildInv, Active
<1>3. SlotInv
  <2>1. Holding = {} /\ InGlobal = {}
    BY DEF Holding, InGlobal
  <2>2. Cardinality({}) = 0
    BY FS_EmptySet
  <2>3. settings.tenant \in Nat /\ settings.global \in Nat
    BY Numbers
  <2>4. \A t : {r \in Holding : tenant[r] = t} = {}
    BY <2>1
  <2> QED BY <2>1, <2>2, <2>3, <2>4 DEF SlotInv
<1>4. FrameInv
  <2>1. NoFrame.kind = Nil /\ ~NoLine.ok
    BY DEF NoFrame, NoLine
  <2> QED BY <2>1, Numbers DEF FrameInv, FrameOK, Nil
<1>5. WorkerInv
  BY DEF WorkerInv, WorkerOK, Abandoned, Live
<1>6. BreakerInv
  BY DEF BreakerInv
<1> QED BY <1>1, <1>2, <1>3, <1>4, <1>5, <1>6 DEF EInv

\* ... and is inductive.
LEMMA InvStep ==
  ASSUME EInv, [ENext]_evars
  PROVE  EInv'
<1>1. CASE ENext
  <2>1. ETypeOK' /\ ChainInv' /\ ChildInv' /\ SlotInv' /\ FrameInv' /\ BreakerInv'
    BY <1>1, ExecTypeStep, ChainStep, SlotStep, FrameStep, BreakerStep DEF EInv
  <2>2. WorkerInv'
    BY <1>1, <2>1, WorkerInvStep DEF EInv
  <2> QED BY <2>1, <2>2 DEF EInv
<1>2. CASE UNCHANGED evars
  <2> USE <1>2 DEF evars, hosts, request, workers, files, pipes, egress, EInv
  <2>1. ETypeOK'
    BY DEF ETypeOK, HostsOK, WorkersOK, EgressOK
  <2>2. ChainInv' /\ ChildInv'
    BY ChainSame
  <2>3. SlotInv'
    BY DEF SlotInv, Holding, InGlobal, Nested
  <2>4. FrameInv'
    BY FrameElse DEF FrameInv
  <2>5. WorkerInv'
    BY WorkerKept DEF WorkerInv, Live
  <2>6. BreakerInv'
    BY DEF BreakerInv
  <2> QED BY <2>1, <2>2, <2>3, <2>4, <2>5, <2>6
<1> QED BY <1>1, <1>2

\* The invariant of the executor, its workers and its bridges.
THEOREM EInvariance == ESpec => []EInv
<1>1. EInit => EInv
  BY InitInv
<1>2. EInv /\ [ENext]_evars => EInv'
  BY InvStep
<1> QED BY <1>1, <1>2, PTL DEF ESpec

\* Every variable of a run, its worker and its bridges keeps its type: a bridge is never
\* called more often than its limit per invocation, whatever the guest does.
THEOREM ETypeCorrect == ESpec => []ETypeOK
<1>1. EInv => ETypeOK
  BY DEF EInv
<1> QED BY <1>1, EInvariance, PTL

\* The living workers that count are among the runs with a slot.
LEMMA BoundBySlots ==
  ASSUME EInv
  PROVE  SlotsBoundWorkers
<1> DEFINE A(t) == {r \in Runs : Live(r) /\ ~Nested(r) /\ tenant[r] = t /\ ~Abandoned(r)}
           B == {r \in Runs : Live(r) /\ ~Nested(r) /\ ~Abandoned(r)}
<1>1. \A r \in Runs : Abandoned(r) => Interruptions(r) >= 2
  BY DEF EInv, WorkerInv, WorkerOK
<1>2. ASSUME NEW r \in Runs, Live(r), ~Nested(r), ~Abandoned(r) PROVE r \in Holding
  <2>1. host[r] \in HostPcs \ {"idle", "global", "tenant", "stage", "done"}
    BY <1>2 DEF EInv, ETypeOK, HostsOK, WorkerInv, WorkerOK, Live, Abandoned
  <2> QED BY <1>2, <2>1 DEF Holding, HostPcs
<1>3. ASSUME NEW t \in Tenants PROVE Cardinality(A(t)) <= settings.tenant
  <2> DEFINE H == {r \in Holding : tenant[r] = t}
  <2>1. A(t) \subseteq H /\ IsFiniteSet(H)
    BY <1>2, Finite
  <2>2. Cardinality(A(t)) <= Cardinality(H) /\ Cardinality(A(t)) \in Nat /\ Cardinality(H) \in Nat
    BY <2>1, FS_Subset, FS_CardinalityType
  <2>3. Cardinality(H) <= settings.tenant /\ settings.tenant \in Nat
    BY Numbers DEF EInv, ETypeOK, SlotInv
  <2> QED BY <2>2, <2>3
<1>4. ASSUME settings.global # 0 PROVE Cardinality(B) <= settings.global
  <2>1. B \subseteq InGlobal /\ IsFiniteSet(InGlobal)
    BY <1>2, Finite DEF InGlobal
  <2>2. /\ Cardinality(B) <= Cardinality(InGlobal)
        /\ Cardinality(B) \in Nat /\ Cardinality(InGlobal) \in Nat
    BY <2>1, FS_Subset, FS_CardinalityType
  <2>3. Cardinality(InGlobal) <= settings.global /\ settings.global \in Nat
    BY <1>4, Numbers DEF EInv, ETypeOK, SlotInv
  <2> QED BY <2>2, <2>3
<1> QED BY <1>1, <1>3, <1>4 DEF SlotsBoundWorkers

\* _global_guard and _tenant_semaphore bound the worker processes, not only the tasks: at
\* every depth of nested calls, and unless a run is interrupted twice.
THEOREM SlotsBound == ESpec => []SlotsBoundWorkers
<1>1. EInv => SlotsBoundWorkers
  BY BoundBySlots
<1> QED BY <1>1, EInvariance, PTL

\* A guest that is told its bridge call succeeded got the answer to that very call: neither
\* a late answer nor a shutdown line written by the host is taken for it.
THEOREM OkOwned == ESpec => []OkIsItsOwn
<1>1. EInv => OkIsItsOwn
  BY DEF EInv, FrameInv, FrameOK, OkIsItsOwn
<1> QED BY <1>1, EInvariance, PTL

\* What a step may do to an open breaker.
LEMMA OpenStep ==
  ASSUME EInv, ENext, NEW t \in Tenants, now < openUntil[t], now' = now, openUntil'[t] <= now'
  PROVE  \E r \in Runs : tenant[r] = t /\ http[r] = "sent" /\ http'[r] = "no" /\ stale[r]
<1> USE DEF EInv
<1>0. now \in Nat /\ openUntil[t] \in Nat /\ Reset \in Nat /\ Reset # 0
  BY Numbers DEF ETypeOK, EgressOK, BreakerInv
<1>1. openUntil' # openUntil
  BY <1>0
<1>2. PICK r \in Runs : HttpAnswered(r) \/ HttpFailed(r)
  <2>1. ~Tick
    BY <1>1 DEF Tick, egress
  <2>2. PICK r \in Runs :
              \/ WorkerStep(r) \/ Replies(r) \/ Egress(r)
              \/ \E u \in Tenants : Begin(r, u)
              \/ \E c \in Runs : CallTool(r, c)
              \/ EnterGlobal(r) \/ EnterTenant(r) \/ StageFails(r) \/ SpawnWorker(r)
              \/ ReadRequest(r) \/ ReadResult(r) \/ Eof(r) \/ Overrun(r)
              \/ HostTimeout(r) \/ Reap(r) \/ TimeOut(r)
    BY <2>1, NextCases
  <2>3. ~WorkerStep(r) /\ ~Egress(r)
    BY <1>1, WorkerAlone DEF egress, Egress, HttpAdmit, HttpHold, HttpSend
  <2>4. ~TimeOut(r) /\ ~Reap(r) /\ ~HostTimeout(r) /\ ~Overrun(r)
    BY <1>1 DEF TimeOut, Reap, HostTimeout, Overrun, Garble, ReadLong, Unreadable, egress
  <2>5. /\ ~EnterGlobal(r) /\ ~EnterTenant(r) /\ ~StageFails(r) /\ ~SpawnWorker(r)
        /\ ~ReadRequest(r) /\ ~ReadResult(r) /\ ~Eof(r)
    BY <1>1 DEF EnterGlobal, EnterTenant, StageFails, SpawnWorker, ReadRequest, ReadResult, Eof, egress
  <2>6. /\ \A u \in Tenants : ~Begin(r, u)
        /\ \A c \in Runs : ~CallTool(r, c)
    BY <1>1 DEF Begin, CallTool, egress
  <2>7. /\ ~RefuseDb(r) /\ ~RefuseTool(r) /\ ~RefuseHttp(r) /\ ~ServeDb(r) /\ ~ToolReturns(r)
        /\ ~HttpBlocked(r)
    BY <1>1 DEF RefuseDb, RefuseTool, RefuseHttp, Refuse, ServeDb, ToolReturns, HttpBlocked, egress
  <2> QED BY <2>2, <2>3, <2>4, <2>5, <2>6, <2>7 DEF Replies
<1>3. http[r] = "sent" /\ http'[r] = "no"
  BY <1>2 DEF HttpAnswered, HttpFailed, HttpEnds, ETypeOK, EgressOK
<1>4. tenant[r] = t
  <2>1. \E n \in Nat : openUntil' = [openUntil EXCEPT ![tenant[r]] = n] \/ openUntil' = openUntil
    <3>1. CASE HttpAnswered(r)
      BY <3>1 DEF HttpAnswered, RecordSuccess
    <3>2. CASE HttpFailed(r)
      <4>1. \/ openUntil' = [openUntil EXCEPT ![tenant[r]] = now + Reset]
            \/ openUntil' = [openUntil EXCEPT ![tenant[r]] = openUntil[tenant[r]]]
        BY <3>2 DEF HttpFailed, RecordFailure
      <4> QED BY <1>0, <4>1 DEF ETypeOK, EgressOK
    <3> QED BY <1>2, <3>1, <3>2
  <2> QED BY <1>0, <2>1 DEF ETypeOK, EgressOK
<1>5. stale[r]
  BY <1>3, <1>4 DEF BreakerInv
<1> QED BY <1>3, <1>4, <1>5

\* _CircuitBreaker: an open breaker is closed early only by the late success of a request
\* that had passed raise_if_open before it opened.
THEOREM OpenHolds == ESpec => OpenUntilReset
<1>1. EInv /\ [ENext]_evars =>
        [\A t \in Tenants :
           (now < openUntil[t] /\ now' = now /\ openUntil'[t] <= now') =>
             \E r \in Runs : tenant[r] = t /\ http[r] = "sent" /\ http'[r] = "no" /\ stale[r]]_evars
  BY OpenStep
<1> QED BY <1>1, EInvariance, PTL DEF ESpec, OpenUntilReset
=============================================================================

----------------------- MODULE RegistryWatcherProofs -----------------------
(***************************************************************************)
(* Proofs about RegistryWatcher, for any number of replicas, servers and   *)
(* admins, of writes and of faults.                                        *)
(*                                                                         *)
(* AtLeastOnce speaks of the persisted token only and is not inductive:    *)
(* what the token will be is in the watcher's memory first (resume), and   *)
(* before that in how far its stream has come (at), where the change in    *)
(* hand is not dealt with yet.                                             *)
(*                                                                         *)
(* Converged needs to know what the history tells of the documents, what a *)
(* handler still has to do when its document is written, and, for every    *)
(* state of a watcher, which servers its replica may not have right yet.   *)
(***************************************************************************)
EXTENDS RegistryWatcher, TLAPS

\* The positions in the history.
Positions ==
  /\ \E S : log \in Seq(S)
  /\ token \in [Replicas -> Nat] /\ resume \in [Replicas -> Nat]
  /\ at \in [Replicas -> Nat] /\ anchor \in [Replicas -> Nat]
  /\ \A r \in Replicas : token[r] <= Len(log) /\ resume[r] <= Len(log) /\ at[r] <= Len(log)
  /\ seen \in [Replicas -> SUBSET Nat]
  /\ w \in [Replicas -> {"load", "list", "sync", "open", "tail", "save", "dead"}]
  /\ DOMAIN job = Workers

\* The watcher of r has dealt with every change of its stream up to n.
DealtUpTo(r, n) == \A i \in (anchor[r] + 1)..n : i \in seen[r]

\* Also up to its own copy of the token, and up to where its stream is; only the
\* change whose mount or unmount is under way is still to be dealt with.
Dealt ==
  \A r \in Replicas :
    /\ DealtUpTo(r, token[r])
    /\ DealtUpTo(r, resume[r])
    /\ w[r] = "tail" => DealtUpTo(r, at[r])
    /\ w[r] = "save" => DealtUpTo(r, at[r] - 1)
    /\ w[r] = "save" /\ job[r].op = "none" => DealtUpTo(r, at[r])

Inv == Positions /\ Dealt

-----------------------------------------------------------------------------

\* The initial states: no history, no token.
LEMMA InitInv == Init => Inv
<1> SUFFICES ASSUME Init PROVE Inv
  OBVIOUS
<1>1. log \in Seq({}) /\ Len(log) = 0
  BY DEF Init
<1>2. Positions
  <2>1. \E S : log \in Seq(S)
    BY <1>1
  <2>2. DOMAIN job = Workers
    BY DEF Init
  <2> QED
    BY <1>1, <2>1, <2>2 DEF Init, Positions
<1>3. Dealt
  <2>1. \A r \in Replicas : /\ token[r] = 0 /\ resume[r] = 0 /\ anchor[r] = 0
                            /\ w[r] = "load"
    BY DEF Init
  <2>2. \A r \in Replicas : DealtUpTo(r, 0)
    BY <2>1 DEF DealtUpTo
  <2> QED
    BY <2>1, <2>2 DEF Dealt
<1> QED
  BY <1>2, <1>3 DEF Inv

\* The history only grows.
LEMMA LogGrows ==
  ASSUME Positions, NEW e, log' = Append(log, e)
  PROVE  (\E S : log' \in Seq(S)) /\ Len(log') = Len(log) + 1 /\ Len(log) \in Nat
<1> PICK S : log \in Seq(S)
  BY DEF Positions
<1>1. log \in Seq(S \cup {e}) /\ e \in S \cup {e}
  OBVIOUS
<1> QED
  BY <1>1

\* What is left alone when the positions, the jobs of the watchers and what they
\* have dealt with do not change.
LEMMA Frame ==
  ASSUME Inv, UNCHANGED <<log, token, watcher, seen, anchor>>, DOMAIN job' = Workers,
         \A r \in Replicas : w[r] = "save" /\ job'[r].op = "none" => job[r].op = "none"
  PROVE  Inv'
<1>1. Positions'
  BY DEF Inv, Positions, watcher
<1>2. Dealt'
  BY DEF Inv, Dealt, DealtUpTo, watcher
<1> QED
  BY <1>1, <1>2 DEF Inv

-----------------------------------------------------------------------------

\* The end of a mount or unmount: a watcher has now dealt with its change.
LEMMA JobDone ==
  ASSUME Inv, NEW x \in Workers, Handled(x),
         UNCHANGED <<log, token, watcher, anchor>>, DOMAIN job' = Workers,
         \A r \in Replicas : r # x => job'[r] = job[r]
  PROVE  Inv'
<1>1. seen' \in [Replicas -> SUBSET Nat] /\ \A r \in Replicas : seen[r] \subseteq seen'[r]
  BY DEF Handled, Inv, Positions
<1>2. Positions'
  BY <1>1 DEF Inv, Positions, watcher
<1>3. ASSUME NEW r \in Replicas, w[r] = "save", job'[r].op = "none"
      PROVE  DealtUpTo(r, at[r])'
  <2>1. CASE r = x
    BY <1>1, <1>3, <2>1 DEF Inv, Positions, Dealt, DealtUpTo, watcher, Handled
  <2>2. CASE r # x
    BY <1>1, <1>3, <2>2 DEF Inv, Positions, Dealt, DealtUpTo, watcher
  <2> QED BY <2>1, <2>2
<1>4. Dealt'
  BY <1>1, <1>3 DEF Inv, Positions, Dealt, DealtUpTo, watcher
<1> QED
  BY <1>2, <1>4 DEF Inv

\* A write appends to the history, or does nothing to it.
LEMMA WriteStep == ASSUME Inv, NEW a \in Admins, Write(a) PROVE Inv'
<1>0. DOMAIN job' = Workers /\ \A r \in Replicas : job'[r] = job[r]
  BY WatcherAssumption DEF Write, Inv, Positions, Workers
<1>1. CASE UNCHANGED log
  BY <1>0, <1>1, Frame DEF Write
<1>2. ASSUME NEW e, log' = Append(log, e)
      PROVE  Inv'
  <2>1. (\E S : log' \in Seq(S)) /\ Len(log') = Len(log) + 1 /\ Len(log) \in Nat
    BY <1>2, LogGrows DEF Inv
  <2>2. UNCHANGED <<token, watcher, seen, anchor>>
    BY DEF Write
  <2>3. Positions'
    BY <1>0, <2>1, <2>2 DEF Inv, Positions, watcher
  <2>4. Dealt'
    BY <1>0, <2>2 DEF Inv, Dealt, DealtUpTo, watcher
  <2> QED BY <2>3, <2>4 DEF Inv
<1>3. UNCHANGED log \/ \E e : log' = Append(log, e)
  BY DEF Write, Change, NoChange
<1> QED
  BY <1>1, <1>2, <1>3

\* A request is accepted or its write fails: nothing a watcher sees.
LEMMA AdminStepInv ==
  ASSUME Inv, NEW a \in Admins, NEW r, NEW s,
         \/ Put(a, r, s) \/ Toggle(a, r, s) \/ Delete(a, r, s) \/ Seed(a, r, s)
         \/ WriteFails(a)
  PROVE  Inv'
<1>1. UNCHANGED <<log, token, watcher, seen, anchor>>
  BY DEF Put, Toggle, Delete, Seed, WriteFails, database, history
<1>2. DOMAIN job' = Workers /\ \A q \in Replicas : job'[q] = job[q]
  BY WatcherAssumption DEF Put, Toggle, Delete, Seed, WriteFails, Inv, Positions, Workers
<1> QED
  BY <1>1, <1>2, Frame

\* Mounts and unmounts, by a watcher or a handler.
LEMMA JobStepInv ==
  ASSUME Inv, NEW x \in Workers, JobStep(x) \/ DiscoveryFails(x) \/ JobFails(x)
  PROVE  Inv'
<1>1. CASE Memory(x)
  <2>1. UNCHANGED <<log, token, watcher, seen, anchor>>
    BY <1>1 DEF Memory, database, history
  <2>2. DOMAIN job' = Workers
    BY <1>1 DEF Memory, Inv, Positions
  <2>3. \A r \in Replicas : job'[r].op = job[r].op
    BY <1>1 DEF Memory, Inv, Positions, Workers
  <2> QED
    BY <2>1, <2>2, <2>3, Frame
<1>2. CASE Catalog(x) \/ DiscoveryFails(x) \/ JobFails(x)
  <2>1. UNCHANGED <<log, token, watcher, anchor>> /\ Handled(x)
    BY <1>2 DEF Catalog, DiscoveryFails, JobFails, database
  <2>2. DOMAIN job' = Workers /\ \A r \in Replicas : r # x => job'[r] = job[r]
    BY <1>2 DEF Catalog, DiscoveryFails, JobFails, Inv, Positions, Workers
  <2> QED
    BY <2>1, <2>2, JobDone
<1> QED
  BY <1>1, <1>2 DEF JobStep

-----------------------------------------------------------------------------

\* A job that is not NoJob is a mount or an unmount.
LEMMA RealJob ==
  ASSUME NEW e, EventJob(e).op = "none"
  PROVE  EventJob(e) = NoJob
  BY DEF EventJob, JobFor, MountJob, UnmountJob

\* Every step of a replica's watcher, and its failures.
LEMMA WatcherStepInv ==
  ASSUME Inv, NEW r \in Replicas,
         \/ WatcherStep(r) \/ TenantLookupFails(r) \/ SaveFails(r) \/ StreamBreaks(r)
         \/ HistoryLost(r) \/ WatcherDies(r) \/ TokenExpires(r) \/ Crash(r)
  PROVE  Inv'
<1> USE DEF Inv, Positions, Dealt, DealtUpTo, GoTo, database, watcher, history
<1>0. Len(log) \in Nat
  OBVIOUS
<1>1. CASE Load(r)
  <2>1. Positions'
    BY <1>0, <1>1 DEF Load
  <2>2. Dealt'
    BY <1>0, <1>1 DEF Load
  <2> QED BY <2>1, <2>2
<1>2. CASE List(r)
  <2>1. Positions'
    BY <1>0, <1>2 DEF List
  <2>2. Dealt'
    BY <1>0, <1>2 DEF List
  <2> QED BY <2>1, <2>2
<1>3. CASE SyncNext(r)
  <2>1. Positions'
    BY <1>0, <1>3 DEF SyncNext, MountJob, Workers
  <2>2. Dealt'
    BY <1>0, <1>3 DEF SyncNext, MountJob, Workers
  <2> QED BY <2>1, <2>2
<1>4. CASE Open(r)
  <2>1. Positions'
    BY <1>0, <1>4 DEF Open
  <2>2. Dealt'
    BY <1>0, <1>4 DEF Open
  <2> QED BY <2>1, <2>2
<1>5. CASE Deliver(r)
  <2>1. Positions'
    BY <1>0, <1>5 DEF Deliver, Workers
  <2>2. /\ at'[r] = at[r] + 1 /\ w[r] = "tail" /\ w'[r] = "save" /\ r \in Workers
        /\ job'[r] = EventJob(log[at[r] + 1])
    BY <1>5 DEF Deliver, Workers
  <2>3. /\ seen[r] \subseteq seen'[r]
        /\ job'[r].op = "none" => at[r] + 1 \in seen'[r]
    BY <1>5, <2>2, RealJob DEF Deliver
  <2>4. DealtUpTo(r, at[r])
    BY <2>2
  <2>5. UNCHANGED <<token, resume, anchor>>
    BY <1>5 DEF Deliver
  <2>6. DealtUpTo(r, at[r] - 1)' /\ (job'[r].op = "none" => DealtUpTo(r, at[r])')
    BY <2>2, <2>3, <2>4, <2>5
  <2>7. ASSUME NEW q \in Replicas, q # r
        PROVE  /\ at'[q] = at[q] /\ w'[q] = w[q] /\ job'[q] = job[q] /\ seen'[q] = seen[q]
    BY <1>5, <2>7 DEF Deliver, Workers
  <2>8. ASSUME NEW q \in Replicas
        PROVE  /\ DealtUpTo(q, token[q])' /\ DealtUpTo(q, resume[q])'
               /\ w'[q] = "tail" => DealtUpTo(q, at[q])'
               /\ w'[q] = "save" => DealtUpTo(q, at[q] - 1)'
               /\ w'[q] = "save" /\ job'[q].op = "none" => DealtUpTo(q, at[q])'
    <3>1. CASE q = r
      BY <2>2, <2>3, <2>5, <2>6, <3>1
    <3>2. CASE q # r
      BY <2>5, <2>7, <3>2
    <3> QED BY <3>1, <3>2
  <2> QED BY <2>1, <2>8
<1>6. CASE Save(r)
  <2>1. Positions'
    BY <1>0, <1>6 DEF Save
  <2>2. Dealt'
    BY <1>0, <1>6 DEF Save
  <2> QED BY <2>1, <2>2
<1>7. CASE TenantLookupFails(r)
  <2>1. Positions'
    BY <1>0, <1>7 DEF TenantLookupFails
  <2>2. Dealt'
    BY <1>0, <1>7 DEF TenantLookupFails
  <2> QED BY <2>1, <2>2
<1>8. CASE SaveFails(r)
  <2>1. Positions'
    BY <1>0, <1>8 DEF SaveFails
  <2>2. Dealt'
    BY <1>0, <1>8 DEF SaveFails
  <2> QED BY <2>1, <2>2
<1>9. CASE StreamBreaks(r)
  <2>1. Positions'
    BY <1>0, <1>9 DEF StreamBreaks
  <2>2. Dealt'
    BY <1>0, <1>9 DEF StreamBreaks
  <2> QED BY <2>1, <2>2
<1>10. CASE HistoryLost(r)
  <2>1. Positions'
    BY <1>0, <1>10 DEF HistoryLost
  <2>2. Dealt'
    BY <1>0, <1>10 DEF HistoryLost
  <2> QED BY <2>1, <2>2
<1>11. CASE TokenExpires(r)
  <2>1. Positions'
    BY <1>0, <1>11 DEF TokenExpires
  <2>2. Dealt'
    BY <1>0, <1>11 DEF TokenExpires
  <2> QED BY <2>1, <2>2
<1>12. CASE Crash(r)
  <2>1. Positions'
    BY <1>0, <1>12 DEF Crash, ReplicaOf, Workers
  <2>2. Dealt'
    BY <1>0, <1>12 DEF Crash, ReplicaOf, Workers
  <2> QED BY <2>1, <2>2
<1>13. CASE WatcherDies(r)
  <2>1. Positions'
    BY <1>0, <1>13 DEF WatcherDies
  <2>2. Dealt'
    BY <1>0, <1>13 DEF WatcherDies
  <2> QED BY <2>1, <2>2
<1> QED
  BY <1>1, <1>2, <1>3, <1>4, <1>5, <1>6, <1>7, <1>8, <1>9, <1>10, <1>11, <1>12, <1>13
  DEF WatcherStep

\* The inductive invariant is one.
LEMMA InvStep == Inv /\ [Next]_vars => Inv'
<1> SUFFICES ASSUME Inv, [Next]_vars PROVE Inv'
  OBVIOUS
<1>1. CASE UNCHANGED vars
  BY <1>1, Frame DEF vars, database, history, Inv, Positions
<1> QED
  BY <1>1, WriteStep, AdminStepInv, JobStepInv, WatcherStepInv DEF Next

\* The resume token a watcher has persisted covers only changes it has dealt with:
\* no crash, broken stream or failed save between applying a change and saving the
\* token makes a restarted _watch_loop skip one.
THEOREM AtLeastOnceCorrect == Spec => []AtLeastOnce
<1>1. Inv => AtLeastOnce
  BY DEF Inv, Dealt, DealtUpTo, AtLeastOnce
<1> QED
  BY InitInv, InvStep, <1>1, PTL DEF Spec
-----------------------------------------------------------------------------

\* What there is to do about a document is a job, and so is nothing.
LEMMA JobTypes ==
  /\ NoJob \in Jobs /\ NoJob.server \in Servers
  /\ NoReq \in Requests
  /\ NoDoc \in Docs
  /\ \A s \in Servers, v \in 0..MaxWrites : MountJob(s, v) \in Jobs /\ UnmountJob(s) \in Jobs
  /\ \A s \in Servers, d \in Docs : JobFor(s, d) \in Jobs
<1>1. 0 \in 0..MaxWrites
  BY WatcherAssumption
<1>2. (CHOOSE s \in Servers : TRUE) \in Servers /\ (CHOOSE r \in Replicas : TRUE) \in Replicas
  BY WatcherAssumption
<1> QED
  BY <1>1, <1>2 DEF NoJob, NoReq, NoDoc, None, Docs, Jobs, Requests, MountJob, UnmountJob, JobFor

\* Only the step of a job or of a request changes.
LEMMA StepTypes ==
  /\ \A j \in Jobs, s \in {"memory", "catalog"} : [j EXCEPT !.step = s] \in Jobs
  /\ \A k \in Requests, s \in {"idle", "write", "job", "mount", "cleanup"} :
       [k EXCEPT !.step = s] \in Requests
  BY DEF Jobs, Requests

\* A job or a request is replaced.
LEMMA Replaced ==
  ASSUME TypeOK
  PROVE  /\ \A x \in Workers, j \in Jobs : [job EXCEPT ![x] = j] \in [Workers -> Jobs]
         /\ \A a \in Admins, k \in Requests : [req EXCEPT ![a] = k] \in [Admins -> Requests]
  BY DEF TypeOK

\* The initial states are typed.
LEMMA TypeInit == Init => TypeOK
<1> SUFFICES ASSUME Init PROVE TypeOK
  OBVIOUS
<1>1. log \in Seq(Events) /\ Len(log) = 0 /\ 0 \in 0..MaxWrites /\ 0 \in 0..MaxFaults
  BY WatcherAssumption DEF Init
<1> QED
  BY <1>1, JobTypes DEF Init, TypeOK, None, Jobs

\* The steps of mounts and unmounts keep the types.
LEMMA TypeJobs ==
  ASSUME TypeOK, NEW x \in Workers, JobStep(x) \/ DiscoveryFails(x) \/ JobFails(x)
  PROVE  TypeOK'
<1>1. ReplicaOf(x) \in Replicas /\ job[x] \in Jobs /\ job[x].server \in Servers
      /\ job[x].ver \in 0..MaxWrites
  BY DEF TypeOK, ReplicaOf, Workers, Jobs, Requests
<1>2. ASSUME Handled(x), UNCHANGED at PROVE seen' \in [Replicas -> SUBSET Nat]
  BY <1>2 DEF Handled, TypeOK
<1>3. ASSUME x \in Admins, Proceed(x)
      PROVE  req' \in [Admins -> Requests]
  <2>1. req[x] \in Requests /\ NoReq \in Requests
    BY <1>3, JobTypes DEF TypeOK
  <2>2. [req[x] EXCEPT !.step = "write"] \in Requests
    BY <2>1, StepTypes
  <2> QED
    BY <1>3, <2>1, <2>2, Replaced DEF Proceed
<1>4. CASE Memory(x)
  <2>1. job' \in [Workers -> Jobs]
    BY <1>1, <1>4, StepTypes, Replaced DEF Memory
  <2>2. mounted' \in [Replicas -> [Servers -> 0..MaxWrites]]
    BY <1>1, <1>4 DEF Memory, TypeOK
  <2> QED
    BY <1>4, <2>1, <2>2 DEF Memory, TypeOK, database, watcher, history
<1>5. ASSUME Fault PROVE faults' \in 0..MaxFaults
  BY <1>5, WatcherAssumption DEF Fault, TypeOK
<1>6. CASE Catalog(x)
  BY <1>1, <1>2, <1>3, <1>6, JobTypes DEF Catalog, TypeOK, watcher
<1>7. CASE DiscoveryFails(x)
  BY <1>1, <1>2, <1>3, <1>5, <1>7, JobTypes DEF DiscoveryFails, TypeOK, watcher, database
<1>8. CASE JobFails(x)
  <2>1. job' \in [Workers -> Jobs]
    <3>1. NoJob \in Jobs /\ UnmountJob(job[x].server) \in Jobs
      BY <1>1, JobTypes, WatcherAssumption
    <3> QED
      BY <1>8, <3>1, Replaced DEF JobFails
  <2>2. req' \in [Admins -> Requests]
    <3>1. ASSUME x \in Admins
          PROVE  [req[x] EXCEPT !.step = "cleanup"] \in Requests /\ NoReq \in Requests
      BY <3>1, StepTypes, JobTypes DEF TypeOK
    <3>2. req' \in {req, [req EXCEPT ![x].step = "cleanup"], [req EXCEPT ![x] = NoReq]}
          /\ (x \in Admins \/ req' = req)
      BY <1>8 DEF JobFails
    <3>3. CASE x \notin Admins
      BY <3>2, <3>3 DEF TypeOK
    <3>4. CASE x \in Admins
      BY <3>1, <3>2, <3>4, Replaced DEF TypeOK
    <3> QED
      BY <3>3, <3>4
  <2>3. missed' \in [Replicas -> BOOLEAN]
    BY <1>8 DEF JobFails, Miss, TypeOK
  <2> QED
    BY <1>2, <1>5, <1>8, <2>1, <2>2, <2>3 DEF JobFails, TypeOK, watcher, database
<1> QED
  BY <1>4, <1>6, <1>7, <1>8 DEF JobStep

\* Handlers and seeders keep the types.
LEMMA TypeAdmins ==
  ASSUME TypeOK, NEW a \in Admins, NEW r \in Replicas, NEW s \in Servers,
         \/ Put(a, r, s) \/ Toggle(a, r, s) \/ Delete(a, r, s) \/ Seed(a, r, s)
  PROVE  TypeOK'
<1>1. issued' \in 0..MaxWrites /\ issued + 1 \in 0..MaxWrites /\ 0 \in 0..MaxWrites
      /\ docs[s].ver \in 0..MaxWrites /\ a \in Workers
  <2>1. docs[s] \in Docs /\ issued \in 0..MaxWrites /\ a \in Workers
    BY DEF TypeOK, Workers
  <2>2. Accept(a)
    BY DEF Put, Toggle, Delete, Seed
  <2> QED
    BY <2>1, <2>2, WatcherAssumption DEF Accept, Docs
<1>2. MountJob(s, issued + 1) \in Jobs
  BY <1>1, JobTypes
<1>3. \A op \in {"put", "toggle", "delete", "seed"}, v \in 0..MaxWrites, e \in BOOLEAN,
        t \in {"write", "mount"} : Request(op, s, v, e, r, t) \in Requests
  BY DEF Request, Requests
<1>4. req' \in [Admins -> Requests]
  <2>1. CASE Put(a, r, s)
    BY <1>1, <1>3, <2>1, Replaced DEF Put
  <2>2. CASE Toggle(a, r, s)
    BY <1>1, <1>3, <2>2, Replaced DEF Toggle
  <2>3. CASE Delete(a, r, s)
    BY <1>1, <1>3, <2>3, Replaced DEF Delete, None
  <2>4. CASE Seed(a, r, s)
    BY <1>1, <1>3, <2>4, Replaced DEF Seed
  <2> QED
    BY <2>1, <2>2, <2>3, <2>4
<1>5. job' \in [Workers -> Jobs]
  BY <1>1, <1>2, Replaced DEF Put, Toggle, Delete, Seed, TypeOK
<1> QED
  BY <1>1, <1>4, <1>5
  DEF Put, Toggle, Delete, Seed, TypeOK, database, watcher, history

\* A write, or its failure, keeps the types.
LEMMA TypeWrites ==
  ASSUME TypeOK, NEW a \in Admins, Write(a) \/ WriteFails(a)
  PROVE  TypeOK'
<1> DEFINE k == req[a]
           d == [ver |-> k.ver, enabled |-> k.enabled]
<1>1. d \in Docs /\ k.server \in Servers /\ a \in Workers /\ docs[k.server] \in Docs
      /\ NoDoc \in Docs /\ JobFor(k.server, d) \in Jobs /\ UnmountJob(k.server) \in Jobs
  <2>1. d \in Docs /\ k.server \in Servers /\ a \in Workers /\ docs[k.server] \in Docs
        /\ k.ver \in 0..MaxWrites
    <3>1. k \in Requests
      BY DEF TypeOK
    <3> QED
      BY <3>1 DEF TypeOK, Docs, Workers, Requests
  <2> QED
    BY <2>1, JobTypes
<1>2. CASE WriteFails(a)
  <2>1. faults' \in 0..MaxFaults
    BY <1>2, WatcherAssumption DEF WriteFails, Fault, TypeOK
  <2>2. job' \in [Workers -> Jobs]
    BY <1>1, <1>2, Replaced DEF WriteFails, TypeOK
  <2>3. req' \in [Admins -> Requests]
    <3>1. [k EXCEPT !.step = "cleanup"] \in Requests /\ NoReq \in Requests
      BY StepTypes, JobTypes DEF TypeOK
    <3> QED
      BY <1>2, <3>1, Replaced DEF WriteFails
  <2> QED
    BY <1>2, <2>1, <2>2, <2>3 DEF WriteFails, TypeOK, database, watcher, history
<1>3. CASE Write(a)
  <2>1. ASSUME NEW c \in Docs, NEW op \in {"replace", "update", "delete"},
               Change(k.server, c, op)
        PROVE  /\ docs' \in [Servers -> Docs] /\ log' \in Seq(Events)
               /\ missed' \in [Replicas -> BOOLEAN]
               /\ Len(log') = Len(log) + 1
    <3>1. [server |-> k.server, op |-> op, doc |-> c] \in Events
      BY <1>1 DEF Events
    <3> QED
      BY <1>1, <2>1, <3>1 DEF Change, TypeOK, Unanchored
  <2>2. [docs[k.server] EXCEPT !.enabled = k.enabled] \in Docs
    BY <1>1 DEF TypeOK, Docs
  <2>3. /\ docs' \in [Servers -> Docs] /\ log' \in Seq(Events)
        /\ missed' \in [Replicas -> BOOLEAN]
        /\ Len(log') = Len(log) \/ Len(log') = Len(log) + 1
    <3>1. CASE NoChange
      BY <3>1 DEF NoChange, TypeOK
    <3>2. CASE ~NoChange
      BY <1>1, <1>3, <2>1, <2>2, <3>2 DEF Write
    <3> QED BY <3>1, <3>2
  <2>4. Len(log) \in Nat /\ UNCHANGED <<token, resume, at>>
    BY <1>3 DEF TypeOK, Write, watcher
  <2>5. \A r \in Replicas : token'[r] <= Len(log') /\ resume'[r] <= Len(log') /\ at'[r] <= Len(log')
    BY <2>3, <2>4 DEF TypeOK
  <2>6. job' \in [Workers -> Jobs]
    BY <1>1, <1>3, Replaced DEF Write, TypeOK
  <2>7. req' \in [Admins -> Requests]
    <3>1. [k EXCEPT !.step = "job"] \in Requests /\ NoReq \in Requests
      BY StepTypes, JobTypes DEF TypeOK
    <3> QED
      BY <1>3, <3>1, Replaced DEF Write
  <2> QED
    BY <1>3, <2>3, <2>5, <2>6, <2>7 DEF Write, TypeOK, watcher
<1> QED
  BY <1>2, <1>3

\* The watchers keep the types.
LEMMA TypeWatchers ==
  ASSUME TypeOK, NEW r \in Replicas,
         \/ WatcherStep(r) \/ TenantLookupFails(r) \/ SaveFails(r) \/ StreamBreaks(r)
         \/ HistoryLost(r) \/ WatcherDies(r) \/ TokenExpires(r) \/ Crash(r)
  PROVE  TypeOK'
<1>0. Len(log) \in Nat /\ r \in Workers /\ at[r] \in Nat
  BY DEF TypeOK, Workers
<1>a. ASSUME Fault PROVE faults' \in 0..MaxFaults
  BY <1>a, WatcherAssumption DEF Fault, TypeOK
<1>1. CASE Load(r)
  BY <1>1 DEF Load, GoTo, Miss, TypeOK, database
<1>2. CASE List(r)
  <2>1. {<<s, docs[s].ver>> : s \in {x \in Servers : docs[x].enabled}} \in
          SUBSET (Servers \X (0..MaxWrites))
    BY DEF TypeOK, Docs
  <2> QED
    BY <1>2, <2>1 DEF List, GoTo, TypeOK, database, history
<1>3. CASE SyncNext(r)
  <2>1. \A p \in todo[r] : MountJob(p[1], p[2]) \in Jobs
    BY JobTypes DEF TypeOK
  <2>2. job' \in [Workers -> Jobs]
    BY <1>0, <1>3, <2>1, Replaced DEF SyncNext, TypeOK
  <2>3. todo' \in [Replicas -> SUBSET (Servers \X (0..MaxWrites))]
    <3>1. UNCHANGED todo \/ \E p : todo' = [todo EXCEPT ![r] = todo[r] \ {p}]
      BY <1>3 DEF SyncNext
    <3>2. ASSUME NEW p PROVE todo[r] \ {p} \in SUBSET (Servers \X (0..MaxWrites))
      BY DEF TypeOK
    <3>3. todo \in [Replicas -> SUBSET (Servers \X (0..MaxWrites))]
      BY DEF TypeOK
    <3> QED
      BY <3>1, <3>2, <3>3
  <2>4. w' \in [Replicas -> {"load", "list", "sync", "open", "tail", "save", "dead"}]
    BY <1>3 DEF SyncNext, GoTo, TypeOK
  <2> QED
    BY <1>3, <2>2, <2>3, <2>4 DEF SyncNext, TypeOK, database, history
<1>4. CASE Open(r)
  BY <1>0, <1>4 DEF Open, GoTo, TypeOK, database
<1>5. CASE Deliver(r)
  <2> DEFINE e == log[at[r] + 1]
  <2>1. e \in Events
    BY <1>0, <1>5 DEF Deliver, TypeOK
  <2>2. FullDocument(e) \in Docs /\ e.server \in Servers
    BY <2>1 DEF FullDocument, Events, TypeOK
  <2>3. EventJob(e) \in Jobs
    BY <2>2, JobTypes DEF EventJob
  <2>4. job' \in [Workers -> Jobs]
    BY <1>0, <1>5, <2>3, Replaced DEF Deliver
  <2>5. seen' \in [Replicas -> SUBSET Nat]
    BY <1>0, <1>5 DEF Deliver, TypeOK
  <2>6. at' \in [Replicas -> Nat] /\ \A q \in Replicas : at'[q] <= Len(log)
    BY <1>0, <1>5 DEF Deliver, TypeOK
  <2> QED
    BY <1>5, <2>4, <2>5, <2>6 DEF Deliver, GoTo, TypeOK, database
<1>6. CASE Save(r)
  BY <1>6 DEF Save, GoTo, TypeOK, history
<1>7. CASE TenantLookupFails(r)
  <2>1. /\ w' \in [Replicas -> {"load", "list", "sync", "open", "tail", "save", "dead"}]
        /\ missed' \in [Replicas -> BOOLEAN]
    BY <1>7 DEF TenantLookupFails, GoTo, Miss, TypeOK
  <2>2. seen' \in [Replicas -> SUBSET Nat]
    BY <1>0, <1>7 DEF TenantLookupFails, TypeOK
  <2>3. at' \in [Replicas -> Nat] /\ \A q \in Replicas : at'[q] <= Len(log)
    BY <1>0, <1>7 DEF TenantLookupFails, TypeOK
  <2>4. faults' \in 0..MaxFaults
    BY <1>7, <1>a DEF TenantLookupFails
  <2> QED
    BY <1>7, <2>1, <2>2, <2>3, <2>4 DEF TenantLookupFails, TypeOK, database
<1>8. CASE SaveFails(r)
  BY <1>8, <1>a DEF SaveFails, GoTo, TypeOK, database, history
<1>9. CASE StreamBreaks(r)
  BY <1>9, <1>a DEF StreamBreaks, GoTo, Miss, TypeOK, database
<1>10. CASE HistoryLost(r)
  <2>1. /\ resume' \in [Replicas -> Nat] /\ token' \in [Replicas -> Nat]
        /\ \A q \in Replicas : token'[q] <= Len(log) /\ resume'[q] <= Len(log)
    BY <1>0, <1>10 DEF HistoryLost, TypeOK
  <2>2. /\ w' \in [Replicas -> {"load", "list", "sync", "open", "tail", "save", "dead"}]
        /\ missed' \in [Replicas -> BOOLEAN]
    BY <1>10 DEF HistoryLost, GoTo, Miss, TypeOK
  <2>3. faults' \in 0..MaxFaults
    BY <1>10, <1>a DEF HistoryLost
  <2> QED
    BY <1>10, <2>1, <2>2, <2>3 DEF HistoryLost, TypeOK
<1>11. CASE WatcherDies(r)
  BY <1>11, <1>a DEF WatcherDies, GoTo, Miss, TypeOK, database
<1>12. CASE TokenExpires(r)
  <2>1. token' \in [Replicas -> Nat] /\ \A q \in Replicas : token'[q] <= Len(log)
    BY <1>0, <1>12 DEF TokenExpires, TypeOK
  <2> QED
    BY <1>12, <2>1 DEF TokenExpires, TypeOK, watcher, history
<1>13. CASE Crash(r)
  <2>1. job' \in [Workers -> Jobs]
    BY <1>13, JobTypes DEF Crash, TypeOK
  <2>2. req' \in [Admins -> Requests]
    BY <1>13, JobTypes DEF Crash, TypeOK
  <2>3. [s \in Servers |-> None] \in [Servers -> 0..MaxWrites]
    BY WatcherAssumption DEF None
  <2> QED
    BY <1>0, <1>13, <1>a, <2>1, <2>2, <2>3 DEF Crash, GoTo, Fault, TypeOK, database
<1> QED
  BY <1>1, <1>2, <1>3, <1>4, <1>5, <1>6, <1>7, <1>8, <1>9, <1>10, <1>11, <1>12, <1>13
  DEF WatcherStep

\* Every variable keeps its type, and no stream or token runs past the history,
\* which _watch_loop could not resume from.
THEOREM TypeCorrect == Spec => []TypeOK
<1>1. TypeOK /\ [Next]_vars => TypeOK'
  <2> SUFFICES ASSUME TypeOK, [Next]_vars PROVE TypeOK'
    OBVIOUS
  <2>1. CASE UNCHANGED vars
    BY <2>1 DEF vars, database, watcher, history, TypeOK
  <2> QED
    BY <2>1, TypeJobs, TypeAdmins, TypeWrites, TypeWatchers DEF Next
<1> QED
  BY TypeInit, <1>1, PTL DEF Spec

-----------------------------------------------------------------------------
(* Convergence                                                             *)
(*                                                                         *)
(* Two handlers that work on one server at the same time may leave their   *)
(* own replica with the older of the two versions (each mounts what it     *)
(* wrote, in any order, and the watcher may already have gone past both).  *)
(* When no two do, every replica that was not left out of a change gets to *)
(* the same servers, by the invariant below.                               *)

\* No two handlers or seeders work on one server at the same time.
Active(a) == req[a].step # "idle"
OneAtATime ==
  \A a, b \in Admins : a # b /\ Active(a) /\ Active(b) => req[a].server # req[b].server

\* No change of s comes after the n-th of the history.
Settled(s, n) == \A i \in 1..Len(log) : log[i].server = s => i <= n

\* The last change of a server tells its document.
LogTellsDocs ==
  /\ \A s \in Servers :
       \/ docs[s] = NoDoc /\ Settled(s, 0)
       \/ \E i \in 1..Len(log) : log[i].server = s /\ log[i].doc = docs[s] /\ Settled(s, i)
  /\ \A s \in Servers : docs[s].ver = None => docs[s] = NoDoc
  /\ \A i \in 1..Len(log) : log[i].op = "update" => log[i].doc # NoDoc

\* What a handler still has to do, once its document is written or its seeding failed,
\* is to make its replica what the document says.
InHand(a) ==
  /\ ~Active(a) => req[a].op = "none"
  /\ req[a].step \in {"idle", "write"} => job[a].op = "none"
  /\ req[a].step \in {"mount", "job", "cleanup"} =>
       job[a].op # "none" /\ job[a].server = req[a].server
  /\ req[a].step \in {"job", "cleanup"} => job[a].ver = Expected(req[a].server)
  /\ req[a].step \in {"mount", "cleanup"} => req[a].op = "seed"
  /\ req[a].step = "job" => req[a].op # "seed"
  /\ req[a].op \in {"put", "seed"} => req[a].ver # None
  /\ req[a].op = "delete" => req[a].ver = None /\ ~req[a].enabled
  /\ req[a].op = "toggle" /\ req[a].step = "write" => req[a].ver = docs[req[a].server].ver
  /\ req[a].op = "seed" => docs[req[a].server] = NoDoc
HandlersInHand == \A a \in Admins : InHand(a)

\* A seeder may have mounted on r a server that is not registered.
SeedingBy(a, r, s) == /\ req[a].on = r /\ req[a].server = s /\ req[a].op = "seed"
                      /\ req[a].step = "cleanup" => job[a].step = "memory"
Seeding(r, s) == \E a \in Admins : SeedingBy(a, r, s)

\* The replica has the server as its document says; or it is about to have what its
\* watcher's job makes of it.
Right(r, s) == mounted[r][s] = Expected(s)
Coming(r, s) == job[r].op # "none" /\ job[r].step = "memory" /\ job[r].server = s

\* What r has before its listing; what the listing has still to mount; and afterwards
\* every server is right but for changes its stream has still to deliver.
OnTrack(r) ==
  /\ w[r] \in {"load", "list"} =>
       /\ resume[r] = 0 /\ job[r].op = "none"
       /\ \A s \in Servers : Seeding(r, s) \/ Right(r, s) \/ mounted[r][s] = None
  /\ w[r] = "sync" =>
       /\ resume[r] = 0
       /\ job[r].op # "none" => job[r].ver = Expected(job[r].server)
       /\ \A p \in todo[r] : p[2] = Expected(p[1])
       /\ \A s \in Servers : \/ Seeding(r, s) \/ Right(r, s) \/ Coming(r, s)
                             \/ \E p \in todo[r] : p[1] = s
  /\ w[r] = "open" =>
       /\ job[r].op = "none"
       /\ \A s \in Servers : \/ Seeding(r, s) \/ Right(r, s)
                             \/ resume[r] # 0 /\ ~Settled(s, resume[r])
  /\ w[r] = "tail" =>
       /\ job[r].op = "none" /\ resume[r] \in {0, at[r]}
       /\ \A s \in Servers : Seeding(r, s) \/ Right(r, s) \/ ~Settled(s, at[r])
  /\ w[r] = "save" =>
       /\ at[r] # 0
       /\ job[r].op # "none" => \/ ~Settled(job[r].server, at[r])
                                \/ job[r].ver = Expected(job[r].server)
       /\ \A s \in Servers : Seeding(r, s) \/ Right(r, s) \/ Coming(r, s) \/ ~Settled(s, at[r])
  /\ w[r] # "dead"
NobodyMissed == \A r \in Replicas : missed[r] \/ OnTrack(r)

CInv == LogTellsDocs /\ HandlersInHand /\ NobodyMissed

-----------------------------------------------------------------------------

\* The history grows by one event.
LEMMA LogGrowsTyped ==
  ASSUME NEW S, log \in Seq(S), NEW e, log' = Append(log, e)
  PROVE  /\ Len(log) \in Nat /\ Len(log') = Len(log) + 1
         /\ \A i \in 1..Len(log) : log'[i] = log[i]
         /\ log'[Len(log) + 1] = e
<1>1. log \in Seq(S \cup {e}) /\ e \in S \cup {e}
  OBVIOUS
<1> QED
  BY <1>1

\* One document and one event more.
LEMMA Changed ==
  ASSUME TypeOK, NEW s \in Servers, NEW d, NEW op, docs' = [docs EXCEPT ![s] = d],
         log' = Append(log, [server |-> s, op |-> op, doc |-> d])
  PROVE  /\ Len(log) \in Nat /\ Len(log') = Len(log) + 1
         /\ \A i \in 1..Len(log) : log'[i] = log[i]
         /\ log'[Len(log) + 1] = [server |-> s, op |-> op, doc |-> d]
         /\ docs'[s] = d /\ \A t \in Servers \ {s} : docs'[t] = docs[t]
         /\ \A t \in Servers \ {s}, n \in Nat : Settled(t, n)' <=> Settled(t, n)
         /\ \A n \in 0..Len(log) : ~Settled(s, n)'
         /\ Settled(s, Len(log) + 1)'
<1>1. log \in Seq(Events) /\ docs \in [Servers -> Docs]
  BY DEF TypeOK
<1>2. Len(log) \in Nat /\ Len(log') = Len(log) + 1
  BY <1>1, LogGrowsTyped
<1>3. /\ \A i \in 1..Len(log) : log'[i] = log[i]
      /\ log'[Len(log) + 1] = [server |-> s, op |-> op, doc |-> d]
  BY <1>1, LogGrowsTyped
<1>4. docs'[s] = d /\ \A t \in Servers \ {s} : docs'[t] = docs[t]
  BY <1>1
<1>5. log'[Len(log) + 1].server = s
  BY <1>3
<1>6. ASSUME NEW t \in Servers \ {s}, NEW n \in Nat PROVE Settled(t, n)' <=> Settled(t, n)
  BY <1>2, <1>3, <1>5 DEF Settled
<1>7. \A n \in 0..Len(log) : ~Settled(s, n)'
  BY <1>2, <1>5 DEF Settled
<1>8. Settled(s, Len(log) + 1)'
  BY <1>2 DEF Settled
<1> QED
  BY <1>2, <1>3, <1>4, <1>6, <1>7, <1>8

\* What Write does to the documents, and what it leaves to do.
LEMMA Written ==
  ASSUME TypeOK, HandlersInHand, LogTellsDocs, NEW a \in Admins, Write(a),
         NEW s \in Servers, req[a].server = s
  PROVE  /\ \/ docs' = docs /\ log' = log /\ missed' = missed /\ req[a].op # "seed"
            \/ \E d, op : /\ docs' = [docs EXCEPT ![s] = d]
                          /\ log' = Append(log, [server |-> s, op |-> op, doc |-> d])
                          /\ missed' = [r \in Replicas |-> missed[r] \/ Unanchored(r, s)]
                          /\ d.ver = None => d = NoDoc
                          /\ op = "update" => d # NoDoc
         /\ \/ /\ req' = [req EXCEPT ![a] = NoReq] /\ job' = job
               /\ req[a].op = "seed" \/ docs' = docs
            \/ /\ req' = [req EXCEPT ![a].step = "job"]
               /\ req[a].op # "seed"
               /\ \E j : /\ job' = [job EXCEPT ![a] = j] /\ j.op # "none"
                         /\ j.server = s /\ j.ver = Expected(s)'
<1> DEFINE k == req[a]
           d == [ver |-> k.ver, enabled |-> k.enabled]
           j == JobFor(s, d)
<1>1. k.enabled \in BOOLEAN /\ k.op \in {"none", "put", "toggle", "delete", "seed"}
  BY DEF TypeOK, Requests
<1>2. InHand(a) /\ docs[s] \in Docs /\ docs \in [Servers -> Docs]
  BY DEF HandlersInHand, TypeOK
<1>3. j.op # "none" /\ j.server = s /\ j.ver = IF k.enabled THEN k.ver ELSE None
  BY DEF JobFor, MountJob, UnmountJob
<1>4. CASE k.op \in {"put", "seed"}
  <2>1. k.ver # None /\ d # NoDoc /\ d.ver # None
    BY <1>2, <1>4 DEF InHand, NoDoc, None
  <2>2. /\ docs' = [docs EXCEPT ![s] = d]
        /\ log' = Append(log, [server |-> s, op |-> "replace", doc |-> d])
        /\ missed' = [r \in Replicas |-> missed[r] \/ Unanchored(r, s)]
    BY <1>4 DEF Write, Change
  <2>3. j.ver = Expected(s)'
    BY <1>2, <1>3, <2>2 DEF Expected
  <2>4. IF k.op = "seed"
          THEN req' = [req EXCEPT ![a] = NoReq] /\ job' = job
          ELSE req' = [req EXCEPT ![a].step = "job"] /\ job' = [job EXCEPT ![a] = j]
    BY <1>4 DEF Write
  <2> HIDE DEF d, j
  <2> QED BY <1>3, <2>1, <2>2, <2>3, <2>4
<1>5. CASE k.op = "toggle"
  <2>1. k.ver = docs[s].ver
    BY <1>2, <1>5 DEF InHand, Write
  <2>2. req' = [req EXCEPT ![a].step = "job"] /\ job' = [job EXCEPT ![a] = j]
    BY <1>5 DEF Write
  <2>3. CASE docs[s] = NoDoc \/ docs[s].enabled = k.enabled
    <3>1. docs' = docs /\ log' = log /\ missed' = missed
      BY <1>5, <2>3 DEF Write, NoChange
    <3>2. j.ver = Expected(s)'
      BY <1>1, <1>3, <2>1, <2>3, <3>1 DEF Expected, NoDoc, None
    <3> HIDE DEF d, j
    <3> QED BY <1>3, <1>5, <2>2, <3>1, <3>2
  <2>4. CASE ~(docs[s] = NoDoc \/ docs[s].enabled = k.enabled)
    <3>1. [docs[s] EXCEPT !.enabled = k.enabled] = d
      BY <1>2, <2>1 DEF Docs
    <3>2. d.ver # None /\ d # NoDoc
      BY <2>1, <2>4 DEF LogTellsDocs, NoDoc
    <3>3. /\ docs' = [docs EXCEPT ![s] = d]
          /\ log' = Append(log, [server |-> s, op |-> "update", doc |-> d])
          /\ missed' = [r \in Replicas |-> missed[r] \/ Unanchored(r, s)]
      BY <1>5, <2>4, <3>1 DEF Write, Change
    <3>4. j.ver = Expected(s)'
      BY <1>2, <1>3, <3>3 DEF Expected
    <3> HIDE DEF d, j
    <3> QED BY <1>3, <1>5, <2>2, <3>2, <3>3, <3>4
  <2> QED BY <2>3, <2>4
<1>6. CASE k.op = "delete"
  <2>1. k.ver = None /\ ~k.enabled
    BY <1>2, <1>6 DEF InHand
  <2>2. CASE docs[s] = NoDoc
    BY <1>6, <2>2 DEF Write, NoChange
  <2>3. CASE docs[s] # NoDoc
    <3>1. /\ docs' = [docs EXCEPT ![s] = NoDoc]
          /\ log' = Append(log, [server |-> s, op |-> "delete", doc |-> NoDoc])
          /\ missed' = [r \in Replicas |-> missed[r] \/ Unanchored(r, s)]
          /\ req' = [req EXCEPT ![a].step = "job"] /\ job' = [job EXCEPT ![a] = j]
      BY <1>6, <2>3 DEF Write, Change
    <3>2. j.ver = Expected(s)'
      BY <1>2, <1>3, <2>1, <3>1 DEF Expected, NoDoc
    <3> HIDE DEF d, j
    <3> QED BY <1>3, <1>6, <3>1, <3>2
  <2> QED BY <2>2, <2>3
<1> QED
  BY <1>1, <1>4, <1>5, <1>6 DEF Write

\* The history goes on telling the documents.
LEMMA LogStep ==
  ASSUME TypeOK, HandlersInHand, LogTellsDocs, [Next]_vars
  PROVE  LogTellsDocs'
<1>1. CASE UNCHANGED <<docs, log>>
  BY <1>1 DEF LogTellsDocs, Settled
<1>2. ASSUME NEW a \in Admins, Write(a) PROVE LogTellsDocs'
  <2>1. PICK s \in Servers : req[a].server = s
    BY DEF TypeOK, Requests
  <2>2. CASE docs' = docs /\ log' = log
    BY <1>1, <2>2
  <2>3. ASSUME NEW d, NEW op, docs' = [docs EXCEPT ![s] = d],
               log' = Append(log, [server |-> s, op |-> op, doc |-> d]),
               d.ver = None => d = NoDoc, op = "update" => d # NoDoc
        PROVE  LogTellsDocs'
    <3> DEFINE n == Len(log) + 1
    <3>1. /\ Len(log) \in Nat /\ Len(log') = n
          /\ \A i \in 1..Len(log) : log'[i] = log[i]
          /\ log'[n] = [server |-> s, op |-> op, doc |-> d]
          /\ docs'[s] = d /\ \A t \in Servers \ {s} : docs'[t] = docs[t]
          /\ \A t \in Servers \ {s}, i \in Nat : Settled(t, i)' <=> Settled(t, i)
      <4>1. /\ Len(log) \in Nat /\ Len(log') = Len(log) + 1
            /\ \A i \in 1..Len(log) : log'[i] = log[i]
            /\ log'[Len(log) + 1] = [server |-> s, op |-> op, doc |-> d]
        BY <2>3, Changed
      <4>2. docs'[s] = d /\ \A t \in Servers \ {s} : docs'[t] = docs[t]
        BY <2>3, Changed
      <4>3. \A t \in Servers \ {s}, i \in Nat : Settled(t, i)' <=> Settled(t, i)
        BY <2>3, Changed
      <4> QED BY <4>1, <4>2, <4>3
    <3>2. Settled(s, Len(log) + 1)'
      BY <2>3, Changed
    <3>3. \E i \in 1..Len(log') : log'[i].server = s /\ log'[i].doc = docs'[s] /\ Settled(s, i)'
      BY <3>1, <3>2 DEF Settled
    <3>4. ASSUME NEW t \in Servers \ {s}
          PROVE  \/ docs'[t] = NoDoc /\ Settled(t, 0)'
                 \/ \E i \in 1..Len(log') : log'[i].server = t /\ log'[i].doc = docs'[t]
                                            /\ Settled(t, i)'
      <4>1. CASE docs[t] = NoDoc /\ Settled(t, 0)
        BY <3>1, <4>1
      <4>2. ASSUME NEW i \in 1..Len(log), log[i].server = t, log[i].doc = docs[t], Settled(t, i)
            PROVE  \E m \in 1..Len(log') : log'[m].server = t /\ log'[m].doc = docs'[t]
                                           /\ Settled(t, m)'
        <5>1. i \in 1..Len(log') /\ i \in Nat
          BY <3>1
        <5> QED BY <3>1, <4>2, <5>1
      <4> QED BY <4>1, <4>2 DEF LogTellsDocs
    <3>5. \A t \in Servers : docs'[t].ver = None => docs'[t] = NoDoc
      BY <2>3, <3>1 DEF LogTellsDocs
    <3>6. \A i \in 1..Len(log') : log'[i].op = "update" => log'[i].doc # NoDoc
      BY <2>3, <3>1 DEF LogTellsDocs
    <3> QED BY <3>3, <3>4, <3>5, <3>6 DEF LogTellsDocs
  <2>4. \/ docs' = docs /\ log' = log /\ missed' = missed /\ req[a].op # "seed"
        \/ \E d, op : /\ docs' = [docs EXCEPT ![s] = d]
                      /\ log' = Append(log, [server |-> s, op |-> op, doc |-> d])
                      /\ missed' = [r \in Replicas |-> missed[r] \/ Unanchored(r, s)]
                      /\ d.ver = None => d = NoDoc
                      /\ op = "update" => d # NoDoc
    BY <1>2, <2>1, Written, Zenon
  <2> QED BY <2>2, <2>3, <2>4
<1>3. (\E a \in Admins : Write(a)) \/ UNCHANGED <<docs, log>>
  <2>1. \A r : WatcherStep(r) => UNCHANGED <<docs, log>>
    BY DEF WatcherStep, Load, List, SyncNext, Open, Deliver, Save, database
  <2>2. \A r : TenantLookupFails(r) \/ SaveFails(r) \/ StreamBreaks(r) \/ HistoryLost(r)
               => UNCHANGED <<docs, log>>
    BY DEF TenantLookupFails, SaveFails, StreamBreaks, HistoryLost, database
  <2>3. \A r : WatcherDies(r) \/ TokenExpires(r) \/ Crash(r) => UNCHANGED <<docs, log>>
    BY DEF WatcherDies, TokenExpires, Crash, database
  <2>4. \A x : JobStep(x) \/ DiscoveryFails(x) \/ JobFails(x) => UNCHANGED <<docs, log>>
    BY DEF JobStep, Memory, Catalog, DiscoveryFails, JobFails, database
  <2>5. \A a, r, s : Put(a, r, s) \/ Toggle(a, r, s) => UNCHANGED <<docs, log>>
    BY DEF Put, Toggle, database
  <2>6. \A a, r, s : Delete(a, r, s) \/ Seed(a, r, s) => UNCHANGED <<docs, log>>
    BY DEF Delete, Seed, database
  <2>7. \A a : WriteFails(a) => UNCHANGED <<docs, log>>
    BY DEF WriteFails, database
  <2> QED BY <2>1, <2>2, <2>3, <2>4, <2>5, <2>6, <2>7 DEF Next, vars, database
<1> QED
  BY <1>1, <1>2, <1>3

\* What one worker does leaves the others' requests in hand.
LEMMA OthersInHand ==
  ASSUME HandlersInHand, docs' = docs, NEW x,
         \A b \in Admins \ {x} : req'[b] = req[b] /\ job'[b] = job[b],
         x \in Admins => InHand(x)'
  PROVE  HandlersInHand'
<1> SUFFICES ASSUME NEW b \in Admins, b # x PROVE InHand(b)'
  BY DEF HandlersInHand
<1> QED
  BY DEF HandlersInHand, InHand, Active, Expected

\* A handler that has ended.
LEMMA Ended ==
  ASSUME NEW a \in Admins, req'[a] = NoReq, job'[a].op = "none"
  PROVE  InHand(a)'
BY DEF InHand, NoReq, Active

\* Every step of a handler or seeder leaves it to do what the document says.
LEMMA HandStep ==
  ASSUME TypeOK, HandlersInHand, LogTellsDocs, OneAtATime, [Next]_vars
  PROVE  HandlersInHand'
<1> USE DEF Workers
<1>1. ASSUME NEW x \in Workers, Memory(x)
      PROVE  HandlersInHand'
  <2>1. docs' = docs /\ req' = req /\ \A y \in Workers \ {x} : job'[y] = job[y]
    BY <1>1 DEF Memory, TypeOK, database
  <2>2. job'[x] = [job[x] EXCEPT !.step = "catalog"] /\ job[x] \in Jobs
    BY <1>1 DEF Memory, TypeOK
  <2>3. /\ job'[x].op = job[x].op /\ job'[x].server = job[x].server /\ job'[x].ver = job[x].ver
    BY <2>2 DEF Jobs
  <2>4. x \in Admins => InHand(x)'
    BY <2>1, <2>3 DEF HandlersInHand, InHand, Active, Expected
  <2> QED BY <2>1, <2>4, OthersInHand
<1>2. ASSUME NEW x \in Workers, Catalog(x) \/ DiscoveryFails(x)
      PROVE  HandlersInHand'
  <2>1. docs' = docs /\ job'[x] = NoJob /\ \A y \in Workers \ {x} : job'[y] = job[y]
    BY <1>2 DEF Catalog, DiscoveryFails, TypeOK, database
  <2>2. IF x \in Admins THEN Proceed(x) ELSE req' = req
    BY <1>2 DEF Catalog, DiscoveryFails
  <2>3. \A b \in Admins \ {x} : req'[b] = req[b]
    BY <2>2 DEF Proceed, TypeOK
  <2>4. ASSUME x \in Admins PROVE InHand(x)'
    <3>1. InHand(x) /\ req[x] \in Requests
      BY <2>4 DEF HandlersInHand, TypeOK
    <3>2. req'[x] = IF req[x].op = "seed" /\ req[x].step = "mount"
                      THEN [req[x] EXCEPT !.step = "write"] ELSE NoReq
      BY <2>2, <2>4 DEF Proceed, TypeOK
    <3>3. CASE req[x].op = "seed" /\ req[x].step = "mount"
      BY <2>1, <3>1, <3>2, <3>3 DEF InHand, Active, NoJob, Requests
    <3>4. CASE ~(req[x].op = "seed" /\ req[x].step = "mount")
      BY <2>1, <2>4, <3>2, <3>4, Ended DEF NoJob
    <3> QED BY <3>3, <3>4
  <2> QED BY <2>1, <2>3, <2>4, OthersInHand
<1>3. ASSUME NEW x \in Workers, JobFails(x)
      PROVE  HandlersInHand'
  <2>1. docs' = docs
    BY <1>3 DEF JobFails, database
  <2>2. \A b \in Admins \ {x} : req'[b] = req[b] /\ job'[b] = job[b]
    BY <1>3 DEF JobFails, TypeOK
  <2>3. ASSUME x \in Admins PROVE InHand(x)'
    <3>1. InHand(x) /\ req[x] \in Requests /\ job[x] \in Jobs
      BY <2>3 DEF HandlersInHand, TypeOK
    <3>2. CASE req[x].op = "seed" /\ req[x].step = "mount"
      <4>1. job'[x] = UnmountJob(job[x].server) /\ req'[x] = [req[x] EXCEPT !.step = "cleanup"]
        BY <1>3, <2>3, <3>2 DEF JobFails, TypeOK
      <4> QED BY <2>1, <3>1, <3>2, <4>1
          DEF InHand, Active, UnmountJob, Requests, Expected, NoDoc, None
    <3>3. CASE ~(req[x].op = "seed" /\ req[x].step = "mount")
      <4>1. req'[x] = NoReq /\ job'[x] = NoJob
        BY <1>3, <2>3, <3>3 DEF JobFails, TypeOK
      <4> QED BY <2>3, <4>1, Ended DEF NoJob
    <3> QED BY <3>2, <3>3
  <2> QED BY <2>1, <2>2, <2>3, OthersInHand
<1>4. ASSUME NEW a \in Admins, NEW r \in Replicas, NEW s \in Servers,
             Put(a, r, s) \/ Toggle(a, r, s) \/ Delete(a, r, s) \/ Seed(a, r, s)
      PROVE  HandlersInHand'
  <2>1. docs' = docs /\ \A b \in Admins \ {a} : req'[b] = req[b] /\ job'[b] = job[b]
    BY <1>4 DEF Put, Toggle, Delete, Seed, database, TypeOK
  <2>2. InHand(a) /\ ~Active(a)
    BY <1>4 DEF Put, Toggle, Delete, Seed, Accept, HandlersInHand, Active
  <2>3. issued + 1 # None
    BY DEF None, TypeOK
  <2>4. CASE Seed(a, r, s)
    <3>1. /\ req'[a] = Request("seed", s, issued + 1, TRUE, r, "mount")
          /\ job'[a] = MountJob(s, issued + 1) /\ docs[s] = NoDoc
      BY <2>4 DEF Seed, TypeOK
    <3>2. InHand(a)'
      BY <2>1, <2>3, <3>1 DEF Request, MountJob, InHand, Active
    <3> QED BY <2>1, <3>2, OthersInHand
  <2>5. CASE ~Seed(a, r, s)
    <3>1. job' = job /\ \E e \in BOOLEAN :
            \/ req'[a] = Request("put", s, issued + 1, e, r, "write")
            \/ req'[a] = Request("toggle", s, docs[s].ver, e, r, "write")
            \/ req'[a] = Request("delete", s, None, FALSE, r, "write")
      BY <1>4, <2>5 DEF Put, Toggle, Delete, TypeOK
    <3>2. InHand(a)'
      BY <2>1, <2>2, <2>3, <3>1 DEF Request, InHand, Active
    <3> QED BY <2>1, <3>2, OthersInHand
  <2> QED BY <2>4, <2>5
<1>5. ASSUME NEW a \in Admins, Write(a)
      PROVE  HandlersInHand'
  <2>1. PICK s \in Servers : req[a].server = s
    BY DEF TypeOK, Requests
  <2>2. req[a].step = "write" /\ req[a] \in Requests /\ InHand(a)
    BY <1>5 DEF Write, TypeOK, HandlersInHand
  <2>3. \A t \in Servers \ {s} : docs'[t] = docs[t]
    <3>1. docs' = docs \/ \E d : docs' = [docs EXCEPT ![s] = d]
      BY <1>5, <2>1, Written
    <3> QED BY <3>1 DEF TypeOK
  <2>7. /\ req' = [req EXCEPT ![a] = NoReq] \/ req' = [req EXCEPT ![a].step = "job"]
        /\ job' = job \/ \E j : job' = [job EXCEPT ![a] = j]
    BY <1>5 DEF Write
  <2>4. ASSUME NEW b \in Admins \ {a} PROVE InHand(b)'
    <3>1. InHand(b) /\ req[b].server \in Servers
      BY DEF HandlersInHand, TypeOK, Requests
    <3>2. req'[b] = req[b] /\ job'[b] = job[b]
      BY <2>7 DEF TypeOK
    <3>3. CASE Active(b)
      <4>1. req[b].server # s
        BY <2>1, <2>2, <3>3 DEF OneAtATime, Active
      <4> QED BY <2>3, <3>1, <3>2, <4>1 DEF InHand, Active, Expected
    <3>4. CASE ~Active(b)
      BY <3>1, <3>2, <3>4 DEF InHand, Active
    <3> QED BY <3>3, <3>4
  <2>5. CASE req' = [req EXCEPT ![a] = NoReq] /\ job' = job
    BY <2>2, <2>4, <2>5, Ended DEF HandlersInHand, InHand, TypeOK
  <2>6. ASSUME req' = [req EXCEPT ![a].step = "job"], req[a].op # "seed",
               NEW j, job' = [job EXCEPT ![a] = j], j.op # "none", j.server = s,
               j.ver = Expected(s)'
        PROVE  InHand(a)'
    <3>1. req'[a] = [req[a] EXCEPT !.step = "job"] /\ job'[a] = j
      BY <2>6 DEF TypeOK
    <3>2. /\ req'[a].server = s /\ req'[a].op = req[a].op /\ req'[a].step = "job"
          /\ req'[a].ver = req[a].ver /\ req'[a].enabled = req[a].enabled
      BY <2>1, <2>2, <3>1 DEF Requests
    <3> QED BY <2>2, <2>6, <3>1, <3>2 DEF InHand, Active, Expected
  <2> QED BY <1>5, <2>1, <2>4, <2>5, <2>6, Written DEF HandlersInHand
<1>6. ASSUME NEW a \in Admins, WriteFails(a)
      PROVE  HandlersInHand'
  <2>1. docs' = docs /\ \A b \in Admins \ {a} : req'[b] = req[b] /\ job'[b] = job[b]
    BY <1>6 DEF WriteFails, database, TypeOK
  <2>2. InHand(a) /\ req[a] \in Requests /\ req[a].step = "write"
    BY <1>6 DEF WriteFails, HandlersInHand, TypeOK
  <2>3. CASE req[a].op = "seed"
    <3>1. /\ req'[a] = [req[a] EXCEPT !.step = "cleanup"]
          /\ job'[a] = UnmountJob(req[a].server)
      BY <1>6, <2>3 DEF WriteFails, TypeOK
    <3>2. InHand(a)'
      BY <2>1, <2>2, <2>3, <3>1 DEF InHand, Active, UnmountJob, Requests, Expected, NoDoc, None
    <3> QED BY <2>1, <3>2, OthersInHand
  <2>4. CASE req[a].op # "seed"
    <3>1. req'[a] = NoReq /\ job'[a].op = "none"
      BY <1>6, <2>2, <2>4 DEF WriteFails, TypeOK, InHand
    <3> QED BY <2>1, <3>1, Ended, OthersInHand
  <2> QED BY <2>3, <2>4
<1>7. ASSUME NEW r \in Replicas, Crash(r)
      PROVE  HandlersInHand'
  <2> SUFFICES ASSUME NEW b \in Admins PROVE InHand(b)'
    BY DEF HandlersInHand
  <2>1. b \notin Replicas /\ docs' = docs /\ InHand(b)
    BY <1>7, WatcherAssumption DEF Crash, database, HandlersInHand
  <2>2. CASE req[b].on = r
    BY <1>7, <2>1, <2>2, Ended DEF Crash, ReplicaOf, NoJob
  <2>3. CASE req[b].on # r
    BY <1>7, <2>1, <2>3 DEF Crash, ReplicaOf, InHand, Active, Expected
  <2> QED BY <2>2, <2>3
<1>8. ASSUME NEW r \in Replicas,
             \/ WatcherStep(r) \/ TenantLookupFails(r) \/ SaveFails(r) \/ StreamBreaks(r)
             \/ HistoryLost(r) \/ WatcherDies(r) \/ TokenExpires(r)
      PROVE  HandlersInHand'
  <2>1. docs' = docs /\ req' = req
    BY <1>8 DEF WatcherStep, Load, List, SyncNext, Open, Deliver, Save, TenantLookupFails,
                SaveFails, StreamBreaks, HistoryLost, WatcherDies, TokenExpires, database
  <2>2. \A b \in Workers \ {r} : job'[b] = job[b]
    BY <1>8 DEF WatcherStep, Load, List, SyncNext, Open, Deliver, Save, TenantLookupFails,
                SaveFails, StreamBreaks, HistoryLost, WatcherDies, TokenExpires, TypeOK
  <2>3. r \notin Admins
    BY WatcherAssumption
  <2> QED BY <2>1, <2>2, <2>3, OthersInHand
<1>9. CASE UNCHANGED vars
  BY <1>9 DEF vars, database, HandlersInHand, InHand, Active, Expected
<1> QED
  BY <1>1, <1>2, <1>3, <1>4, <1>5, <1>6, <1>7, <1>8, <1>9 DEF Next, JobStep

-----------------------------------------------------------------------------

\* A step of one worker that leaves its own seeding on does not end another's.
LEMMA SeedingKept ==
  ASSUME NEW r, NEW s, NEW x,
         \A b \in Admins \ {x} : req'[b] = req[b] /\ job'[b] = job[b],
         x \in Admins /\ SeedingBy(x, r, s) => SeedingBy(x, r, s)'
  PROVE  Seeding(r, s) => Seeding(r, s)'
BY DEF Seeding, SeedingBy

\* What r's watcher knows and has in hand is untouched, and every server of r is as it
\* was, or right, or being seeded.
LEMMA StaysOnTrack ==
  ASSUME NEW r \in Replicas, OnTrack(r), docs' = docs, log' = log, w'[r] = w[r],
         resume'[r] = resume[r], at'[r] = at[r], todo'[r] = todo[r], job'[r] = job[r],
         \A s \in Servers : \/ Seeding(r, s)' \/ Right(r, s)'
                            \/ mounted'[r][s] = mounted[r][s] /\ ~Seeding(r, s)
  PROVE  OnTrack(r)'
<1>2. \A s \in Servers : Expected(s)' = Expected(s)
  BY DEF Expected
<1>3. \A s \in Servers : \/ Seeding(r, s)' \/ Right(r, s)'
                         \/ /\ mounted'[r][s] = mounted[r][s] /\ ~Seeding(r, s)
                            /\ Right(r, s) => Right(r, s)'
  BY <1>2 DEF Right
<1>4. \A s \in Servers : Coming(r, s)' <=> Coming(r, s)
  BY DEF Coming
<1>5. CASE w[r] \in {"load", "list"}
  BY <1>3, <1>5 DEF OnTrack
<1>6. CASE w[r] = "sync"
  <2>1. job'[r].op # "none" => job'[r].ver = Expected(job[r].server)'
    BY <1>6 DEF OnTrack, Expected
  <2>2. \A p \in todo'[r] : p[2] = Expected(p[1])'
    BY <1>6 DEF OnTrack, Expected
  <2>3. \A s \in Servers : \/ Seeding(r, s)' \/ Right(r, s)' \/ Coming(r, s)'
                           \/ \E p \in todo'[r] : p[1] = s
    BY <1>3, <1>4, <1>6 DEF OnTrack
  <2> QED BY <1>6, <2>1, <2>2, <2>3 DEF OnTrack
<1>7. CASE w[r] = "open"
  <2>1. \A s \in Servers : \/ Seeding(r, s)' \/ Right(r, s)'
                           \/ resume'[r] # 0 /\ ~Settled(s, resume[r])'
    BY <1>3, <1>7 DEF OnTrack, Settled
  <2> QED BY <1>7, <2>1 DEF OnTrack
<1>8. CASE w[r] = "tail"
  <2>1. \A s \in Servers : Seeding(r, s)' \/ Right(r, s)' \/ ~Settled(s, at[r])'
    BY <1>3, <1>8 DEF OnTrack, Settled
  <2> QED BY <1>8, <2>1 DEF OnTrack
<1>9. CASE w[r] = "save"
  <2>1. job'[r].op # "none" => \/ ~Settled(job[r].server, at[r])'
                              \/ job'[r].ver = Expected(job[r].server)'
    BY <1>9 DEF OnTrack, Settled, Expected
  <2>2. \A s \in Servers : \/ Seeding(r, s)' \/ Right(r, s)' \/ Coming(r, s)'
                           \/ ~Settled(s, at[r])'
    BY <1>3, <1>4, <1>9 DEF OnTrack, Settled
  <2> QED BY <1>9, <2>1, <2>2 DEF OnTrack
<1>10. CASE w[r] \notin {"load", "list", "sync", "open", "tail", "save"}
  BY <1>10 DEF OnTrack
<1> QED
  BY <1>5, <1>6, <1>7, <1>8, <1>9, <1>10

\* A handler or a seeder mounts, unmounts or gives up.
LEMMA TrackHandlers ==
  ASSUME TypeOK, HandlersInHand, NEW r \in Replicas, missed[r] \/ OnTrack(r), NEW a \in Admins,
         Memory(a) \/ Catalog(a) \/ DiscoveryFails(a) \/ JobFails(a)
  PROVE  missed'[r] \/ OnTrack(r)'
<1> USE DEF Workers
<1>0. PICK s0 \in Servers, r0 \in Replicas : req[a].server = s0 /\ req[a].on = r0
  BY DEF TypeOK, Requests
<1>1. a \notin Replicas /\ ReplicaOf(a) = r0
  BY <1>0, WatcherAssumption DEF ReplicaOf
<1>11. missed' = missed \/ missed' = [missed EXCEPT ![r0] = TRUE]
  BY <1>1 DEF Memory, Catalog, DiscoveryFails, JobFails, Miss, history
<1>12. docs' = docs /\ log' = log /\ w' = w /\ resume' = resume /\ at' = at /\ todo' = todo
  BY DEF Memory, Catalog, DiscoveryFails, JobFails, database, watcher
<1>13. /\ \A x \in Workers \ {a} : job'[x] = job[x]
       /\ \A b \in Admins \ {a} : req'[b] = req[b]
  BY DEF Memory, Catalog, DiscoveryFails, JobFails, Proceed, TypeOK
<1>2. /\ docs' = docs /\ log' = log /\ w' = w /\ resume' = resume /\ at' = at /\ todo' = todo
      /\ \A x \in Workers \ {a} : job'[x] = job[x]
      /\ \A b \in Admins \ {a} : req'[b] = req[b]
      /\ missed' = missed \/ missed' = [missed EXCEPT ![r0] = TRUE]
  BY <1>11, <1>12, <1>13
<1>3. job'[r] = job[r] /\ job[a].op # "none" /\ InHand(a) /\ job[a] \in Jobs /\ req[a] \in Requests
  BY <1>1, <1>2 DEF Memory, Catalog, DiscoveryFails, JobFails, HandlersInHand, TypeOK
<1>4. req[a].step \in {"mount", "job", "cleanup"} /\ job[a].server = s0
  BY <1>0, <1>3 DEF InHand, Requests
<1>5. missed'[r] \/ OnTrack(r)
  BY <1>2 DEF TypeOK
<1>6. CASE Memory(a)
  <2>1. /\ mounted' = [mounted EXCEPT ![r0][s0] = job[a].ver] /\ req' = req
        /\ job' = [job EXCEPT ![a].step = "catalog"]
    BY <1>1, <1>4, <1>6 DEF Memory
  <2>2. ASSUME NEW s \in Servers, ~(r = r0 /\ s = s0)
        PROVE  mounted'[r][s] = mounted[r][s] /\ (Seeding(r, s) => Seeding(r, s)')
    <3>1. mounted'[r][s] = mounted[r][s]
      BY <2>1, <2>2 DEF TypeOK
    <3>2. ~SeedingBy(a, r, s)
      BY <1>0, <2>2 DEF SeedingBy
    <3> QED BY <1>2, <3>1, <3>2, SeedingKept
  <2>3. ASSUME r = r0 PROVE Seeding(r, s0)' \/ Right(r, s0)'
    <3>1. CASE req[a].step = "mount"
      <4>1. SeedingBy(a, r, s0)'
        BY <1>0, <1>3, <2>1, <2>3, <3>1 DEF SeedingBy, InHand
      <4> QED BY <4>1 DEF Seeding
    <3>2. CASE req[a].step \in {"job", "cleanup"}
      <4>1. job[a].ver = Expected(s0) /\ mounted'[r][s0] = job[a].ver
        BY <1>0, <1>1, <1>3, <2>1, <2>3, <3>2 DEF InHand, TypeOK
      <4> QED BY <1>2, <2>1, <4>1 DEF Right, Expected
    <3> QED BY <1>4, <3>1, <3>2
  <2>4. \A s \in Servers : \/ Seeding(r, s)' \/ Right(r, s)'
                           \/ mounted'[r][s] = mounted[r][s] /\ ~Seeding(r, s)
    BY <2>2, <2>3
  <2> QED BY <1>2, <1>3, <1>5, <2>4, StaysOnTrack
<1>7. CASE Catalog(a) \/ DiscoveryFails(a)
  <2>1. mounted' = mounted /\ Proceed(a) /\ job[a].step = "catalog"
    BY <1>7 DEF Catalog, DiscoveryFails, database
  <2>2. ASSUME NEW s \in Servers PROVE SeedingBy(a, r, s) => SeedingBy(a, r, s)'
    <3>1. CASE req[a].op = "seed" /\ req[a].step = "mount"
      <4>1. req'[a] = [req[a] EXCEPT !.step = "write"]
        BY <2>1, <3>1 DEF Proceed, TypeOK
      <4> QED BY <1>3, <4>1 DEF SeedingBy, Requests
    <3>2. CASE ~(req[a].op = "seed" /\ req[a].step = "mount")
      BY <1>3, <1>4, <2>1, <3>2 DEF SeedingBy, InHand
    <3> QED BY <3>1, <3>2
  <2>3. \A s \in Servers : Seeding(r, s) => Seeding(r, s)'
    BY <1>2, <2>2, SeedingKept
  <2> QED BY <1>2, <1>3, <1>5, <2>1, <2>3, StaysOnTrack
<1>8. CASE JobFails(a) /\ ~missed'[r]
  <2>1. mounted' = mounted
    BY <1>8 DEF JobFails
  <2>2. ASSUME NEW s \in Servers PROVE SeedingBy(a, r, s) => SeedingBy(a, r, s)'
    <3>1. CASE req[a].op = "seed" /\ req[a].step = "mount"
      <4>1. /\ req'[a] = [req[a] EXCEPT !.step = "cleanup"]
            /\ job'[a] = UnmountJob(job[a].server)
        BY <1>8, <3>1 DEF JobFails, TypeOK
      <4> QED BY <1>3, <4>1 DEF SeedingBy, Requests, UnmountJob
    <3>2. CASE req[a].step = "cleanup"
      <4>1. Miss(r0)
        BY <1>1, <1>8, <3>2 DEF JobFails
      <4> QED BY <1>0, <1>1, <1>8, <4>1 DEF Miss, SeedingBy, TypeOK
    <3>3. CASE ~(req[a].op = "seed" /\ req[a].step = "mount") /\ req[a].step # "cleanup"
      BY <1>3, <1>4, <3>3 DEF SeedingBy, InHand
    <3> QED BY <3>1, <3>2, <3>3
  <2>3. \A s \in Servers : Seeding(r, s) => Seeding(r, s)'
    BY <1>2, <2>2, SeedingKept
  <2> QED BY <1>2, <1>3, <1>5, <1>8, <2>1, <2>3, StaysOnTrack
<1> QED
  BY <1>6, <1>7, <1>8

\* A request begins, or its write fails.
LEMMA TrackRequests ==
  ASSUME TypeOK, HandlersInHand, NEW r \in Replicas, missed[r] \/ OnTrack(r), NEW a \in Admins,
         \/ WriteFails(a)
         \/ \E q \in Replicas, s \in Servers :
              Put(a, q, s) \/ Toggle(a, q, s) \/ Delete(a, q, s) \/ Seed(a, q, s)
  PROVE  missed'[r] \/ OnTrack(r)'
<1> USE DEF Workers
<1>1. a \notin Replicas
  BY WatcherAssumption
<1> DEFINE Alike ==
      /\ docs' = docs /\ log' = log /\ w' = w /\ resume' = resume /\ at' = at /\ todo' = todo
      /\ missed' = missed /\ mounted' = mounted
      /\ \A x \in Workers \ {a} : job'[x] = job[x]
      /\ \A b \in Admins \ {a} : req'[b] = req[b]
<1>2. Alike
  <2>1. ASSUME NEW q, NEW s, Put(a, q, s) \/ Toggle(a, q, s) \/ Delete(a, q, s) \/ Seed(a, q, s)
        PROVE  Alike
    BY <2>1 DEF Put, Toggle, Delete, Seed, database, watcher, history, TypeOK
  <2>2. CASE WriteFails(a)
    BY <2>2 DEF WriteFails, database, watcher, history, TypeOK
  <2> QED BY <2>1, <2>2
<1>3. InHand(a) /\ req[a] \in Requests
  BY DEF HandlersInHand, TypeOK
<1>4. ASSUME NEW s \in Servers PROVE SeedingBy(a, r, s) => SeedingBy(a, r, s)'
  <2>1. CASE WriteFails(a) /\ req[a].op = "seed"
    <3>1. /\ req'[a] = [req[a] EXCEPT !.step = "cleanup"]
          /\ job'[a] = UnmountJob(req[a].server)
      BY <2>1 DEF WriteFails, TypeOK
    <3> QED BY <1>3, <3>1 DEF SeedingBy, Requests, UnmountJob
  <2>2. CASE ~WriteFails(a)
    <3>1. req[a].op # "seed"
      BY <1>3, <2>2 DEF Put, Toggle, Delete, Seed, Accept, InHand, Active
    <3> QED BY <3>1 DEF SeedingBy
  <2>3. CASE req[a].op # "seed"
    BY <2>3 DEF SeedingBy
  <2> QED BY <2>1, <2>2, <2>3
<1>5. \A s \in Servers : Seeding(r, s) => Seeding(r, s)'
  BY <1>2, <1>4, SeedingKept
<1> QED
  BY <1>1, <1>2, <1>5, StaysOnTrack

\* A document is written: who has yet to list, or to be told, is still on track.
LEMMA TrackWrite ==
  ASSUME TypeOK, HandlersInHand, LogTellsDocs, NEW r \in Replicas, missed[r] \/ OnTrack(r),
         NEW a \in Admins, Write(a)
  PROVE  missed'[r] \/ OnTrack(r)'
<1> USE DEF Workers
<1>1. PICK s0 \in Servers : req[a].server = s0
  BY DEF TypeOK, Requests
<1>2. a \notin Replicas
  BY WatcherAssumption
<1>3. /\ w' = w /\ resume' = resume /\ at' = at /\ todo' = todo /\ mounted' = mounted
      /\ \A x \in Workers \ {a} : job'[x] = job[x]
      /\ \A b \in Admins \ {a} : req'[b] = req[b]
      /\ req[a].step = "write"
  BY DEF Write, watcher, TypeOK
<1>4. job'[r] = job[r]
  BY <1>2, <1>3
<1>5. CASE docs' = docs /\ log' = log /\ missed' = missed /\ req[a].op # "seed"
  <2>1. \A s \in Servers : Seeding(r, s) => Seeding(r, s)'
    BY <1>3, <1>5, SeedingKept DEF SeedingBy
  <2> QED BY <1>3, <1>4, <1>5, <2>1, StaysOnTrack
<1>6. ASSUME NEW d, NEW op, docs' = [docs EXCEPT ![s0] = d],
             log' = Append(log, [server |-> s0, op |-> op, doc |-> d]),
             missed' = [q \in Replicas |-> missed[q] \/ Unanchored(q, s0)],
             ~missed'[r]
      PROVE  OnTrack(r)'
  <2>1. OnTrack(r) /\ ~Unanchored(r, s0)
    BY <1>6
  <2>2. ASSUME NEW s \in Servers \ {s0}
        PROVE  /\ Seeding(r, s) => Seeding(r, s)'
               /\ Right(r, s) => Right(r, s)'
               /\ Coming(r, s) => Coming(r, s)'
               /\ \A n \in Nat : Settled(s, n)' <=> Settled(s, n)
    <3>1. ~SeedingBy(a, r, s)
      BY <1>1, <2>2 DEF SeedingBy
    <3>2. Seeding(r, s) => Seeding(r, s)'
      BY <1>3, <3>1, SeedingKept
    <3>3. docs'[s] = docs[s] /\ \A n \in Nat : Settled(s, n)' <=> Settled(s, n)
      BY <1>6, Changed
    <3> QED BY <1>3, <1>4, <3>2, <3>3 DEF Right, Expected, Coming
  <2>3. \A n \in 0..Len(log) : ~Settled(s0, n)'
    BY <1>6, Changed
  <2>4. /\ resume[r] \in 0..Len(log) /\ at[r] \in 0..Len(log)
        /\ resume[r] \in Nat /\ at[r] \in Nat /\ Len(log) \in Nat
    BY DEF TypeOK
  <2>5. CASE w[r] \in {"load", "list"}
    <3>1. mounted'[r][s0] = None
      BY <1>3, <2>1, <2>5 DEF Unanchored, OnTrack
    <3>2. \A s \in Servers : Seeding(r, s)' \/ Right(r, s)' \/ mounted'[r][s] = None
      BY <1>3, <2>1, <2>2, <2>5, <3>1 DEF OnTrack
    <3> QED BY <1>3, <1>4, <2>1, <2>5, <3>2 DEF OnTrack
  <2>6. CASE w[r] = "sync"
    BY <2>1, <2>6 DEF Unanchored, OnTrack
  <2>7. CASE w[r] = "open"
    <3>1. resume[r] # 0
      BY <2>1, <2>7 DEF Unanchored
    <3>2. PICK n \in 0..Len(log) : n = resume[r]
      BY <2>4
    <3>3. ASSUME NEW s \in Servers PROVE Seeding(r, s)' \/ Right(r, s)' \/ ~Settled(s, n)'
      BY <2>1, <2>2, <2>3, <2>4, <2>7, <3>1, <3>2 DEF OnTrack
    <3> QED BY <1>3, <1>4, <2>1, <2>7, <3>1, <3>2, <3>3 DEF OnTrack, Settled
  <2>8. CASE w[r] = "tail"
    <3>1. PICK n \in 0..Len(log) : n = at[r]
      BY <2>4
    <3>2. ASSUME NEW s \in Servers PROVE Seeding(r, s)' \/ Right(r, s)' \/ ~Settled(s, n)'
      BY <2>1, <2>2, <2>3, <2>4, <2>8, <3>1 DEF OnTrack
    <3> QED BY <1>3, <1>4, <2>1, <2>8, <3>1, <3>2 DEF OnTrack, Settled
  <2>9. CASE w[r] = "save"
    <3>1. PICK n \in 0..Len(log) : n = at[r]
      BY <2>4
    <3>2. ASSUME NEW s \in Servers
          PROVE  Seeding(r, s)' \/ Right(r, s)' \/ Coming(r, s)' \/ ~Settled(s, n)'
      BY <2>1, <2>2, <2>3, <2>4, <2>9, <3>1 DEF OnTrack
    <3>3. PICK t \in Servers : t = job[r].server
      BY DEF TypeOK, Jobs
    <3>4. job[r].op # "none" => ~Settled(t, n)' \/ job[r].ver = Expected(t)'
      <4>1. CASE t = s0
        BY <2>3, <4>1
      <4>2. CASE t # s0
        <5>1. docs'[t] = docs[t]
          BY <1>6, <4>2, Changed
        <5> QED BY <2>1, <2>2, <2>4, <2>9, <3>1, <3>3, <4>2, <5>1 DEF OnTrack, Expected
      <4> QED BY <4>1, <4>2
    <3> QED BY <1>3, <1>4, <2>1, <2>9, <3>1, <3>2, <3>3, <3>4 DEF OnTrack, Settled, Expected
  <2>10. CASE w[r] \notin {"load", "list", "sync", "open", "tail", "save"}
    BY <1>3, <2>1, <2>10 DEF OnTrack
  <2> QED BY <2>5, <2>6, <2>7, <2>8, <2>9, <2>10
<1>7. \/ docs' = docs /\ log' = log /\ missed' = missed /\ req[a].op # "seed"
      \/ \E d, op : /\ docs' = [docs EXCEPT ![s0] = d]
                    /\ log' = Append(log, [server |-> s0, op |-> op, doc |-> d])
                    /\ missed' = [q \in Replicas |-> missed[q] \/ Unanchored(q, s0)]
                    /\ d.ver = None => d = NoDoc
                    /\ op = "update" => d # NoDoc
  BY <1>1, Written, Zenon
<1> QED
  BY <1>5, <1>6, <1>7

\* What another replica does.
LEMMA TrackOthers ==
  ASSUME TypeOK, NEW r \in Replicas, missed[r] \/ OnTrack(r), NEW q \in Replicas \ {r},
         \/ WatcherStep(q) \/ TenantLookupFails(q) \/ SaveFails(q) \/ StreamBreaks(q)
         \/ HistoryLost(q) \/ WatcherDies(q) \/ TokenExpires(q) \/ Crash(q)
         \/ JobStep(q) \/ DiscoveryFails(q) \/ JobFails(q)
  PROVE  missed'[r] \/ OnTrack(r)'
<1> USE DEF Workers
<1>1. r \notin Admins /\ q \notin Admins /\ ReplicaOf(r) = r /\ ReplicaOf(q) = q
  BY WatcherAssumption DEF ReplicaOf
<1>2. CASE Crash(q)
  <2>1. /\ docs' = docs /\ log' = log /\ w'[r] = w[r] /\ resume'[r] = resume[r]
        /\ at'[r] = at[r] /\ todo'[r] = todo[r] /\ mounted'[r] = mounted[r]
        /\ job'[r] = job[r] /\ missed'[r] = missed[r]
    BY <1>1, <1>2 DEF Crash, GoTo, database, TypeOK
  <2>2. ASSUME NEW a \in Admins, NEW s \in Servers, SeedingBy(a, r, s) PROVE SeedingBy(a, r, s)'
    <3>1. a \notin Replicas /\ req[a].on # q
      BY <2>2, WatcherAssumption DEF SeedingBy
    <3>2. req'[a] = req[a] /\ job'[a] = job[a]
      BY <1>2, <3>1 DEF Crash, ReplicaOf
    <3> QED BY <2>2, <3>2 DEF SeedingBy
  <2>3. \A s \in Servers : Seeding(r, s) => Seeding(r, s)'
    BY <2>2 DEF Seeding
  <2> QED BY <2>1, <2>3, StaysOnTrack
<1>3. CASE ~Crash(q)
  <2>1. docs' = docs /\ log' = log /\ mounted'[r] = mounted[r] /\ missed'[r] = missed[r]
    BY <1>1, <1>3 DEF WatcherStep, Load, List, SyncNext, Open, Deliver, Save, TenantLookupFails,
         SaveFails, StreamBreaks, HistoryLost, WatcherDies, TokenExpires, JobStep, Memory,
         Catalog, DiscoveryFails, JobFails, Miss, database, history, TypeOK
  <2>2. w'[r] = w[r] /\ resume'[r] = resume[r] /\ at'[r] = at[r] /\ todo'[r] = todo[r]
    BY <1>1, <1>3 DEF WatcherStep, Load, List, SyncNext, Open, Deliver, Save, TenantLookupFails,
         SaveFails, StreamBreaks, HistoryLost, WatcherDies, TokenExpires, JobStep, Memory,
         Catalog, DiscoveryFails, JobFails, GoTo, database, watcher, TypeOK
  <2>3. req' = req /\ \A x \in Workers \ {q} : job'[x] = job[x]
    BY <1>1, <1>3 DEF WatcherStep, Load, List, SyncNext, Open, Deliver, Save, TenantLookupFails,
         SaveFails, StreamBreaks, HistoryLost, WatcherDies, TokenExpires, JobStep, Memory,
         Catalog, DiscoveryFails, JobFails, TypeOK
  <2>4. \A s \in Servers : Seeding(r, s) => Seeding(r, s)'
    BY <1>1, <2>3, SeedingKept
  <2> QED BY <1>1, <2>1, <2>2, <2>3, <2>4, StaysOnTrack
<1> QED
  BY <1>2, <1>3

\* What the own watcher does to the rest: nothing.
LEMMA SameWorld ==
  ASSUME NEW r \in Replicas, docs' = docs, log' = log, req' = req,
         \A x \in Workers \ {r} : job'[x] = job[x]
  PROVE  /\ \A s \in Servers : Seeding(r, s)' <=> Seeding(r, s)
         /\ \A s \in Servers : Expected(s)' = Expected(s)
         /\ \A s \in Servers, n \in Nat : Settled(s, n)' <=> Settled(s, n)
<1>1. r \notin Admins
  BY WatcherAssumption
<1> QED
  BY <1>1 DEF Seeding, SeedingBy, Expected, Settled, Workers

\* The last change of a settled server is in the event delivered last.
LEMMA LastEvent ==
  ASSUME TypeOK, LogTellsDocs, NEW n \in 1..Len(log), Settled(log[n].server, n)
  PROVE  /\ log[n].server \in Servers
         /\ log[n].doc = docs[log[n].server]
         /\ EventJob(log[n]).op # "none"
         /\ EventJob(log[n]).ver = Expected(log[n].server)
<1> DEFINE e == log[n]
<1>1. e \in Events /\ Len(log) \in Nat
  BY DEF TypeOK
<1>2. PICK s \in Servers : e.server = s
  BY <1>1 DEF Events
<1>3. PICK i \in 1..Len(log) : log[i].server = s /\ log[i].doc = docs[s] /\ Settled(s, i)
  BY <1>1, <1>2 DEF LogTellsDocs, Settled
<1>4. i = n
  BY <1>1, <1>2, <1>3 DEF Settled
<1>5. e.doc = docs[s] /\ FullDocument(e) = docs[s]
  BY <1>2, <1>3, <1>4 DEF FullDocument
<1>6. ~(e.op = "update" /\ FullDocument(e) = NoDoc)
  BY <1>5 DEF LogTellsDocs
<1>7. EventJob(e) = JobFor(s, docs[s])
  BY <1>2, <1>5, <1>6 DEF EventJob
<1> QED
  BY <1>2, <1>5, <1>7 DEF JobFor, MountJob, UnmountJob, Expected

\* From starting to the first stream: the replica lists, mounts what it listed, and is
\* then right about every server.
LEMMA TrackSync ==
  ASSUME TypeOK, NEW r \in Replicas, OnTrack(r), ~missed'[r],
         Load(r) \/ List(r) \/ SyncNext(r) \/ Open(r)
  PROVE  OnTrack(r)'
<1> USE DEF Workers
<1>1. /\ docs' = docs /\ log' = log /\ req' = req /\ mounted' = mounted
      /\ \A x \in Workers \ {r} : job'[x] = job[x]
  BY DEF Load, List, SyncNext, Open, database, TypeOK
<1>2. /\ \A s \in Servers : Seeding(r, s)' <=> Seeding(r, s)
      /\ \A s \in Servers : Expected(s)' = Expected(s)
      /\ \A s \in Servers : Right(r, s)' <=> Right(r, s)
  <2>1. /\ \A s \in Servers : Seeding(r, s)' <=> Seeding(r, s)
        /\ \A s \in Servers : Expected(s)' = Expected(s)
    BY <1>1, SameWorld
  <2> QED BY <1>1, <2>1 DEF Right
<1>3. CASE Load(r)
  <2>1. w'[r] = "list" /\ resume'[r] = 0 /\ job' = job /\ w[r] = "load"
    BY <1>3 DEF Load, Miss, GoTo, TypeOK
  <2> QED BY <1>1, <1>2, <2>1 DEF OnTrack
<1>4. CASE List(r)
  <2>1. /\ w'[r] = "sync" /\ resume' = resume /\ job' = job /\ w[r] = "list"
        /\ todo'[r] = {<<s, docs[s].ver>> : s \in {x \in Servers : docs[x].enabled}}
    BY <1>4 DEF List, GoTo, TypeOK
  <2>2. resume[r] = 0 /\ job[r].op = "none"
    BY <2>1 DEF OnTrack
  <2>3. ASSUME NEW p \in todo'[r] PROVE p[2] = Expected(p[1])'
    BY <1>1, <2>1 DEF Expected
  <2>4. ASSUME NEW s \in Servers
        PROVE  Seeding(r, s)' \/ Right(r, s)' \/ \E p \in todo'[r] : p[1] = s
    <3>1. CASE docs[s].enabled
      <4>1. <<s, docs[s].ver>> \in todo'[r]
        BY <2>1, <3>1
      <4> QED BY <4>1
    <3>2. CASE ~docs[s].enabled
      BY <1>2, <2>1, <3>2 DEF OnTrack, Right, Expected
    <3> QED BY <3>1, <3>2
  <2> QED BY <2>1, <2>2, <2>3, <2>4 DEF OnTrack
<1>5. ASSUME SyncNext(r), NEW p \in todo[r], job' = [job EXCEPT ![r] = MountJob(p[1], p[2])],
             todo' = [todo EXCEPT ![r] = @ \ {p}], w' = w
      PROVE  OnTrack(r)'
  <2>1. w[r] = "sync" /\ job[r].op = "none" /\ resume' = resume /\ p[1] \in Servers
    BY <1>5 DEF SyncNext, TypeOK
  <2>2. /\ job'[r].op # "none" /\ job'[r].server = p[1] /\ job'[r].ver = p[2]
        /\ job'[r].step = "memory"
    BY <1>5 DEF MountJob, TypeOK
  <2>3. todo'[r] = todo[r] \ {p}
    BY <1>5 DEF TypeOK
  <2>4. ASSUME NEW s \in Servers
        PROVE  \/ Seeding(r, s)' \/ Right(r, s)' \/ Coming(r, s)'
               \/ \E o \in todo'[r] : o[1] = s
    BY <1>2, <2>1, <2>2, <2>3 DEF OnTrack, Coming
  <2>5. p[2] = Expected(p[1]) /\ \A o \in todo'[r] : o[2] = Expected(o[1])
    BY <2>1, <2>3 DEF OnTrack
  <2>6. job'[r].ver = Expected(job[r].server)' /\ \A o \in todo'[r] : o[2] = Expected(o[1])'
    BY <1>1, <2>2, <2>5 DEF Expected
  <2> QED BY <1>5, <2>1, <2>4, <2>6 DEF OnTrack
<1>6. CASE SyncNext(r) /\ todo[r] = {} /\ GoTo(r, "open") /\ job' = job
  <2>1. w[r] = "sync" /\ job[r].op = "none" /\ w'[r] = "open"
    BY <1>6 DEF SyncNext, GoTo, TypeOK
  <2>2. \A s \in Servers : Seeding(r, s)' \/ Right(r, s)'
    BY <1>2, <1>6, <2>1 DEF OnTrack, Coming
  <2> QED BY <1>6, <2>1, <2>2 DEF OnTrack
<1>7. CASE Open(r)
  <2>1. /\ w[r] = "open" /\ w'[r] = "tail" /\ resume' = resume /\ job' = job
        /\ at'[r] = IF resume[r] = 0 THEN Len(log) ELSE resume[r]
    BY <1>7 DEF Open, GoTo, TypeOK
  <2>2. PICK n \in Nat : n = at'[r]
    BY <2>1 DEF TypeOK
  <2>3. job[r].op = "none" /\ resume[r] \in {0, n}
    BY <2>1, <2>2 DEF OnTrack
  <2>4. \A s \in Servers : Seeding(r, s)' \/ Right(r, s)' \/ ~Settled(s, n)'
    BY <1>1, <1>2, <2>1, <2>2 DEF OnTrack, Settled
  <2> QED BY <2>1, <2>2, <2>3, <2>4 DEF OnTrack, Settled
<1> QED
  BY <1>3, <1>4, <1>5, <1>6, <1>7 DEF SyncNext

\* The stream: an event is delivered, its job done, its token saved, or it breaks.
LEMMA TrackStream ==
  ASSUME TypeOK, LogTellsDocs, NEW r \in Replicas, OnTrack(r), ~missed'[r],
         Deliver(r) \/ Save(r) \/ SaveFails(r) \/ StreamBreaks(r)
  PROVE  OnTrack(r)'
<1> USE DEF Workers
<1>1. /\ docs' = docs /\ log' = log /\ req' = req /\ mounted' = mounted
      /\ \A x \in Workers \ {r} : job'[x] = job[x]
  BY DEF Deliver, Save, SaveFails, StreamBreaks, database, TypeOK
<1>2. /\ \A s \in Servers : Seeding(r, s)' <=> Seeding(r, s)
      /\ \A s \in Servers : Right(r, s)' <=> Right(r, s)
  <2>1. /\ \A s \in Servers : Seeding(r, s)' <=> Seeding(r, s)
        /\ \A s \in Servers : Expected(s)' = Expected(s)
    BY <1>1, SameWorld
  <2> QED BY <1>1, <2>1 DEF Right
<1>3. CASE Deliver(r)
  <2>1. PICK n \in Nat : n = at[r]
    BY DEF TypeOK
  <2>2. /\ w[r] = "tail" /\ w'[r] = "save" /\ n < Len(log) /\ at'[r] = n + 1
        /\ job'[r] = EventJob(log[n + 1])
    BY <1>3, <2>1 DEF Deliver, GoTo, TypeOK
  <2>3. n + 1 \in 1..Len(log) /\ log[n + 1] \in Events
    BY <2>1, <2>2 DEF TypeOK
  <2>4. PICK t \in Servers : t = log[n + 1].server
    BY <2>3 DEF Events
  <2>5. job'[r].op # "none" => job'[r].server = t /\ job'[r].step = "memory"
    BY <2>2, <2>4 DEF EventJob, JobFor, MountJob, UnmountJob, NoJob
  <2>6. Settled(t, n + 1) => job'[r].op # "none" /\ job'[r].ver = Expected(t)
    BY <2>2, <2>3, <2>4, LastEvent
  <2>7. ASSUME NEW s \in Servers
        PROVE  Seeding(r, s)' \/ Right(r, s)' \/ Coming(r, s)' \/ ~Settled(s, n + 1)
    <3>1. CASE s = t
      BY <2>5, <2>6, <3>1 DEF Coming
    <3>2. CASE s # t
      <4>1. Settled(s, n + 1) => Settled(s, n)
        BY <2>3, <2>4, <3>2 DEF Settled
      <4> QED BY <1>2, <2>1, <2>2, <4>1 DEF OnTrack
    <3> QED BY <3>1, <3>2
  <2> QED BY <1>1, <2>1, <2>2, <2>5, <2>6, <2>7 DEF OnTrack, Settled, Expected
<1>4. CASE Save(r) \/ SaveFails(r)
  <2>1. PICK n \in Nat : n = at[r]
    BY DEF TypeOK
  <2>2. /\ w[r] = "save" /\ job[r].op = "none" /\ job' = job /\ resume'[r] = n /\ at'[r] = n
        /\ w'[r] \in {"tail", "open"}
    BY <1>4, <2>1 DEF Save, SaveFails, GoTo, TypeOK
  <2>3. n # 0
    BY <2>1, <2>2 DEF OnTrack
  <2>4. \A s \in Servers : Seeding(r, s)' \/ Right(r, s)' \/ ~Settled(s, n)
    BY <1>2, <2>1, <2>2 DEF OnTrack, Coming
  <2> QED BY <1>1, <2>2, <2>3, <2>4 DEF OnTrack, Settled
<1>5. CASE StreamBreaks(r)
  <2>1. PICK n \in Nat : n = at[r]
    BY DEF TypeOK
  <2>2. /\ w[r] = "tail" /\ w'[r] = "open" /\ job' = job /\ resume' = resume
        /\ resume[r] = 0 => n >= Len(log)
    BY <1>5, <2>1 DEF StreamBreaks, GoTo, Miss, TypeOK
  <2>3. job[r].op = "none" /\ resume[r] \in {0, n}
    BY <2>1, <2>2 DEF OnTrack
  <2>4. resume[r] = 0 => \A s \in Servers : Settled(s, n)
    BY <2>2 DEF Settled, TypeOK
  <2>5. \A s \in Servers : \/ Seeding(r, s)' \/ Right(r, s)'
                           \/ resume[r] # 0 /\ ~Settled(s, n)
    BY <1>2, <2>1, <2>2, <2>4 DEF OnTrack
  <2> QED BY <1>1, <2>2, <2>3, <2>5 DEF OnTrack, Settled
<1> QED
  BY <1>3, <1>4, <1>5

\* The watcher's own mount or unmount.
LEMMA TrackOwnJob ==
  ASSUME TypeOK, NEW r \in Replicas, OnTrack(r), ~missed'[r],
         JobStep(r) \/ DiscoveryFails(r) \/ JobFails(r)
  PROVE  OnTrack(r)'
<1> USE DEF Workers
<1>1. r \notin Admins /\ ReplicaOf(r) = r
  BY WatcherAssumption DEF ReplicaOf
<1>2. ~JobFails(r)
  BY <1>1 DEF JobFails, Miss, TypeOK
<1>3. /\ docs' = docs /\ log' = log /\ req' = req
      /\ w' = w /\ resume' = resume /\ at' = at /\ todo' = todo
      /\ \A x \in Workers \ {r} : job'[x] = job[x]
      /\ job[r].op # "none"
  BY <1>1, <1>2 DEF JobStep, Memory, Catalog, DiscoveryFails, database, watcher, TypeOK
<1>4. /\ \A s \in Servers : Seeding(r, s)' <=> Seeding(r, s)
      /\ \A s \in Servers : Expected(s)' = Expected(s)
  BY <1>3, SameWorld
<1>5. PICK n \in Nat : n = at[r]
  BY DEF TypeOK
<1>6. PICK t \in Servers : t = job[r].server
  BY DEF TypeOK, Jobs
<1>7. w[r] \in {"sync", "save"}
  BY <1>3 DEF OnTrack, TypeOK
<1>8. ASSUME NEW s \in Servers
      PROVE  \/ Seeding(r, s)' \/ Right(r, s)' \/ Coming(r, s)'
             \/ w[r] = "sync" /\ \E p \in todo[r] : p[1] = s
             \/ w[r] = "save" /\ ~Settled(s, n)
  <2>1. CASE Memory(r) /\ s = t
    <3>1. mounted'[r][s] = job[r].ver
      BY <1>1, <1>6, <2>1 DEF Memory, TypeOK
    <3>2. job[r].ver = Expected(t) \/ (w[r] = "save" /\ ~Settled(t, n))
      <4>1. job[r].ver = Expected(t) \/ (w[r] = "save" /\ ~Settled(t, at[r]))
        BY <1>3, <1>6, <1>7 DEF OnTrack
      <4> QED BY <1>5, <4>1
    <3> QED BY <1>4, <2>1, <3>1, <3>2 DEF Right
  <2>2. CASE Memory(r) /\ s # t
    <3>1. mounted'[r][s] = mounted[r][s] /\ ~Coming(r, s)
      BY <1>1, <1>6, <2>2 DEF Memory, Coming, TypeOK
    <3> QED BY <1>4, <1>5, <1>7, <3>1 DEF OnTrack, Right
  <2>3. CASE ~Memory(r)
    <3>1. mounted' = mounted /\ job[r].step = "catalog"
      BY <1>2, <2>3 DEF JobStep, Catalog, DiscoveryFails, database
    <3> QED BY <1>4, <1>5, <1>7, <3>1 DEF OnTrack, Right, Coming
  <2> QED BY <2>1, <2>2, <2>3
<1>9. job'[r].op # "none" => job'[r].server = t /\ job'[r].ver = job[r].ver
  <2>1. CASE Memory(r)
    <3>1. job'[r] = [job[r] EXCEPT !.step = "catalog"] /\ job[r] \in Jobs
      BY <2>1 DEF Memory, TypeOK
    <3> QED BY <1>6, <3>1 DEF Jobs
  <2>2. CASE ~Memory(r)
    BY <1>2, <2>2 DEF JobStep, Catalog, DiscoveryFails, NoJob, TypeOK
  <2> QED BY <2>1, <2>2
<1>10. CASE w[r] = "sync"
  <2>1. resume[r] = 0 /\ job[r].ver = Expected(t) /\ \A p \in todo[r] : p[2] = Expected(p[1])
    BY <1>3, <1>6, <1>10 DEF OnTrack
  <2> QED BY <1>3, <1>8, <1>9, <1>10, <2>1 DEF OnTrack, Expected
<1>11. CASE w[r] = "save"
  <2>1. n # 0 /\ (~Settled(t, n) \/ job[r].ver = Expected(t))
    BY <1>3, <1>5, <1>6, <1>11 DEF OnTrack
  <2> QED BY <1>3, <1>5, <1>8, <1>9, <1>11, <2>1 DEF OnTrack, Settled, Expected
<1> QED
  BY <1>7, <1>10, <1>11

\* A replica that starts again, or loses its saved token, or misses something.
LEMMA TrackFaults ==
  ASSUME TypeOK, NEW r \in Replicas, missed[r] \/ OnTrack(r),
         \/ Crash(r) \/ TokenExpires(r)
         \/ TenantLookupFails(r) \/ HistoryLost(r) \/ WatcherDies(r)
  PROVE  missed'[r] \/ OnTrack(r)'
<1> USE DEF Workers
<1>1. r \notin Admins /\ ReplicaOf(r) = r
  BY WatcherAssumption DEF ReplicaOf
<1>2. CASE Crash(r)
  <2>1. /\ w'[r] = "load" /\ resume'[r] = 0 /\ job'[r].op = "none"
        /\ \A s \in Servers : mounted'[r][s] = None
    BY <1>1, <1>2 DEF Crash, GoTo, NoJob, TypeOK
  <2> QED BY <2>1 DEF OnTrack
<1>3. CASE TokenExpires(r)
  <2>1. /\ docs' = docs /\ log' = log /\ req' = req /\ job' = job /\ mounted' = mounted
        /\ w' = w /\ resume' = resume /\ at' = at /\ todo' = todo /\ missed' = missed
    BY <1>3 DEF TokenExpires, watcher, history
  <2>2. \A s \in Servers : Seeding(r, s) => Seeding(r, s)'
    BY <2>1 DEF Seeding, SeedingBy
  <2> QED BY <2>1, <2>2, StaysOnTrack
<1>4. CASE TenantLookupFails(r) \/ HistoryLost(r) \/ WatcherDies(r)
  BY <1>4 DEF TenantLookupFails, HistoryLost, WatcherDies, Miss, TypeOK
<1> QED
  BY <1>2, <1>3, <1>4

\* Every step keeps every replica on track that it does not leave out of something.
LEMMA TrackStep ==
  ASSUME TypeOK, HandlersInHand, LogTellsDocs, NobodyMissed, [Next]_vars
  PROVE  NobodyMissed'
<1> SUFFICES ASSUME NEW r \in Replicas PROVE missed'[r] \/ OnTrack(r)'
  BY DEF NobodyMissed
<1> USE DEF Workers
<1>1. missed[r] \/ OnTrack(r)
  BY DEF NobodyMissed
<1>2. ASSUME NEW a \in Admins, JobStep(a) \/ DiscoveryFails(a) \/ JobFails(a)
      PROVE  missed'[r] \/ OnTrack(r)'
  BY <1>1, <1>2, TrackHandlers DEF JobStep
<1>3. ASSUME NEW a \in Admins,
             \/ WriteFails(a)
             \/ \E q \in Replicas, s \in Servers :
                  Put(a, q, s) \/ Toggle(a, q, s) \/ Delete(a, q, s) \/ Seed(a, q, s)
      PROVE  missed'[r] \/ OnTrack(r)'
  BY <1>1, <1>3, TrackRequests
<1>4. ASSUME NEW a \in Admins, Write(a)
      PROVE  missed'[r] \/ OnTrack(r)'
  BY <1>1, <1>4, TrackWrite
<1>5. ASSUME NEW q \in Replicas \ {r},
             \/ WatcherStep(q) \/ TenantLookupFails(q) \/ SaveFails(q) \/ StreamBreaks(q)
             \/ HistoryLost(q) \/ WatcherDies(q) \/ TokenExpires(q) \/ Crash(q)
             \/ JobStep(q) \/ DiscoveryFails(q) \/ JobFails(q)
      PROVE  missed'[r] \/ OnTrack(r)'
  BY <1>1, <1>5, TrackOthers
<1>6. ASSUME Crash(r) \/ TokenExpires(r) \/ TenantLookupFails(r) \/ HistoryLost(r)
               \/ WatcherDies(r)
      PROVE  missed'[r] \/ OnTrack(r)'
  BY <1>1, <1>6, TrackFaults
<1>7. ASSUME WatcherStep(r) \/ SaveFails(r) \/ StreamBreaks(r)
               \/ JobStep(r) \/ DiscoveryFails(r) \/ JobFails(r)
      PROVE  missed'[r] \/ OnTrack(r)'
  <2>1. missed[r] => missed'[r]
    BY <1>7 DEF WatcherStep, Load, List, SyncNext, Open, Deliver, Save, SaveFails, StreamBreaks,
         JobStep, Memory, Catalog, DiscoveryFails, JobFails, Miss, history, TypeOK
  <2> QED BY <1>1, <1>7, <2>1, TrackSync, TrackStream, TrackOwnJob DEF WatcherStep
<1>8. CASE UNCHANGED vars
  <2>1. \A s \in Servers : Seeding(r, s) => Seeding(r, s)'
    BY <1>8 DEF vars, Seeding, SeedingBy
  <2> QED BY <1>1, <1>8, <2>1, StaysOnTrack DEF vars, database, watcher, history
<1>9. ASSUME NEW q \in Replicas,
             \/ WatcherStep(q) \/ TenantLookupFails(q) \/ SaveFails(q) \/ StreamBreaks(q)
             \/ HistoryLost(q) \/ WatcherDies(q) \/ TokenExpires(q) \/ Crash(q)
             \/ JobStep(q) \/ DiscoveryFails(q) \/ JobFails(q)
      PROVE  missed'[r] \/ OnTrack(r)'
  <2>1. CASE q = r
    BY <1>6, <1>7, <1>9, <2>1
  <2>2. CASE q # r
    BY <1>5, <1>9, <2>2
  <2> QED BY <2>1, <2>2
<1> QED
  BY <1>2, <1>3, <1>4, <1>8, <1>9 DEF Next

\* In the beginning there is nothing to know.
LEMMA InitConvergence == Init => CInv
<1> SUFFICES ASSUME Init PROVE CInv
  OBVIOUS
<1> USE WatcherAssumption DEF Init, Workers
<1>1. Len(log) = 0
  OBVIOUS
<1>2. LogTellsDocs
  BY <1>1 DEF LogTellsDocs, Settled, NoDoc
<1>3. HandlersInHand
  BY DEF HandlersInHand, InHand, Active, NoReq, NoJob
<1>4. NobodyMissed
  BY DEF NobodyMissed, OnTrack, NoJob
<1> QED
  BY <1>2, <1>3, <1>4 DEF CInv

\* However _watch_loop, _initial_sync_all_tenants and the admin handlers interleave, a
\* replica that has read its stream to the end has mounted exactly the enabled servers,
\* at their latest versions, unless it was left out of a change: as long as no two
\* handlers work on one server at the same time.
THEOREM ReplicasConverge == Spec /\ []OneAtATime => []Converged
<1>1. TypeOK /\ CInv /\ OneAtATime /\ [Next]_vars => CInv'
  BY LogStep, HandStep, TrackStep DEF CInv
<1>2. TypeOK /\ CInv => Converged
  <2> SUFFICES ASSUME TypeOK, CInv, Quiet, NEW r \in Replicas, CaughtUp(r), ~missed[r],
                      NEW s \in Servers
               PROVE  mounted[r][s] = Expected(s)
    BY DEF Converged
  <2>1. OnTrack(r) /\ w[r] = "tail" /\ at[r] = Len(log)
    BY DEF CInv, NobodyMissed, CaughtUp
  <2>2. Settled(s, at[r])
    BY <2>1 DEF Settled, TypeOK
  <2>3. ~Seeding(r, s)
    BY DEF CInv, HandlersInHand, InHand, Active, Quiet, Seeding, SeedingBy
  <2> QED BY <2>1, <2>2, <2>3 DEF OnTrack, Right
<1> QED
  BY TypeCorrect, InitConvergence, <1>1, <1>2, PTL DEF Spec
=============================================================================

----------------------------- MODULE TenantProofs -----------------------------
(***************************************************************************)
(* Proofs about the two modules of a tenant, for any number of replicas,   *)
(* deletions, failures and requests.                                       *)
(*                                                                         *)
(* TenantLifecycle: a purge is claimed once per soft deletion, and a       *)
(* tenant in use keeps its data.  Neither is inductive: the claim that is  *)
(* still to be made has to be counted with the ones that were made, and a  *)
(* tenant in use must have nobody about to drop it.                        *)
(*                                                                         *)
(* TenantStatus: the bound on how stale the answer of a kill-switch may    *)
(* be, for any cache lifetime and any latency.  It is not inductive:       *)
(* FreshInv says how old the value of a cache entry or of a handler in     *)
(* flight may be.                                                          *)
(***************************************************************************)
EXTENDS TenantLifecycle, TenantStatus, FiniteSetTheorems, TLAPS

-----------------------------------------------------------------------------
(* The life of a tenant                                                    *)

\* The claim a soft deletion still allows: one until it is taken.
Unclaimed == IF exists /\ status = "deleted" /\ ~claimed THEN 1 ELSE 0

\* Every soft deletion is claimed at most once, or given back by its claimant.
ClaimInv == /\ status = "deleted" => exists
            /\ Cardinality(Purgers) + Unclaimed <= deletions

\* Nobody is about to drop a tenant in use, and no reaper may claim it.
KeptInv == kept => exists /\ status # "deleted" /\ data /\ ~Deprovisioning

IInv == TypeOK /\ ClaimInv /\ KeptInv

-----------------------------------------------------------------------------
\* Every step keeps every variable in its type.
LEMMA TypeStep == TypeOK /\ [Next]_vars => TypeOK'
<1> SUFFICES ASSUME TypeOK, [Next]_vars PROVE TypeOK'
  OBVIOUS
<1> USE LifecycleAssumption DEF TypeOK, doc, sweep, env, ReaperTo, AdminTo, RequestTo, Evict
<1>1. ASSUME NEW r \in Replicas, AdminBegin(r) PROVE TypeOK'
  BY <1>1 DEF AdminBegin
<1>2. ASSUME NEW r \in Replicas, AdminUpsert(r) PROVE TypeOK'
  BY <1>2 DEF AdminUpsert, Upsert
<1>3. ASSUME NEW r \in Replicas, AdminCreate(r) PROVE TypeOK'
  BY <1>3 DEF AdminCreate, CreateDatabase
<1>4. ASSUME NEW r \in Replicas, AdminDelete(r) PROVE TypeOK'
  BY <1>4 DEF AdminDelete, DeleteDoc
<1>5. ASSUME NEW r \in Replicas, AdminDrop(r) PROVE TypeOK'
  BY <1>5 DEF AdminDrop
<1>6. ASSUME NEW r \in Replicas, AdminEvict(r) PROVE TypeOK'
  BY <1>6 DEF AdminEvict
<1>7. ASSUME NEW r \in Replicas, SoftDelete(r) PROVE TypeOK'
  <2>1. clock + Retention \in Nat
    OBVIOUS
  <2>2. purgeAt' \subseteq Nat /\ deletions' \in Nat
    BY <1>7, <2>1 DEF SoftDelete
  <2> QED BY <1>7, <2>2 DEF SoftDelete
<1>8. ASSUME NEW r \in Replicas, Restore(r) PROVE TypeOK'
  BY <1>8 DEF Restore
<1>9. ASSUME NEW r \in Replicas, NEW s \in {"active", "suspended"}, SetStatus(r, s) PROVE TypeOK'
  BY <1>9 DEF SetStatus
<1>10. ASSUME NEW r \in Replicas, SweepBegin(r) PROVE TypeOK'
  BY <1>10 DEF SweepBegin
<1>11. ASSUME NEW r \in Replicas, Claim(r) PROVE TypeOK'
  BY <1>11 DEF Claim
<1>12. ASSUME NEW r \in Replicas, ReaperDelete(r) PROVE TypeOK'
  BY <1>12 DEF ReaperDelete, DeleteDoc
<1>13. ASSUME NEW r \in Replicas, ReaperDrop(r) PROVE TypeOK'
  BY <1>13 DEF ReaperDrop
<1>14. ASSUME NEW r \in Replicas, ReaperEvict(r) PROVE TypeOK'
  BY <1>14 DEF ReaperEvict
<1>15. ASSUME NEW r \in Replicas, Release(r) PROVE TypeOK'
  BY <1>15 DEF Release
<1>16. ASSUME NEW r \in Replicas, ReaperFault(r) PROVE TypeOK'
  <2>0. faults' \subseteq Faults /\ auto' = auto /\ (failed' = failed \/ failed' = [failed EXCEPT ![r] = TRUE])
    BY <1>16 DEF ReaperFault, Fault
  <2>3. failed \in [Replicas -> BOOLEAN]
    OBVIOUS
  <2>4. [failed EXCEPT ![r] = TRUE] \in [Replicas -> BOOLEAN]
    BY <2>3
  <2>5. failed' \in [Replicas -> BOOLEAN]
    BY <2>0, <2>3, <2>4, Zenon
  <2>2. reaper' \in [Replicas -> {"asleep", "claim", "delete", "drop", "evict", "release"}]
    BY <1>16 DEF ReaperFault
  <2> QED BY <1>16, <2>0, <2>2, <2>5 DEF ReaperFault
<1>17. ASSUME NEW r \in Replicas, TaskFault(r) PROVE TypeOK'
  BY <1>17 DEF TaskFault, Fault
<1>18. ASSUME NEW r \in Replicas, Crash(r) PROVE TypeOK'
  BY <1>18 DEF Crash, Fault
<1>19. ASSUME NEW r \in Replicas, RequestBegin(r) PROVE TypeOK'
  BY <1>19 DEF RequestBegin
<1>20. ASSUME NEW r \in Replicas, RequestCheck(r) PROVE TypeOK'
  BY <1>20 DEF RequestCheck
<1>21. ASSUME NEW r \in Replicas, RequestUpsert(r) PROVE TypeOK'
  BY <1>21 DEF RequestUpsert, Upsert
<1>22. ASSUME NEW r \in Replicas, RequestCreate(r) PROVE TypeOK'
  BY <1>22 DEF RequestCreate, CreateDatabase
<1>23. ASSUME NEW r \in Replicas, RequestEnd(r) PROVE TypeOK'
  BY <1>23 DEF RequestEnd
<1>24. CASE Tick
  BY <1>24 DEF Tick
<1>25. CASE UNCHANGED vars
  BY <1>25 DEF vars
<1> QED
  BY LifecycleAssumption, <1>1, <1>2, <1>3, <1>4, <1>5, <1>6, <1>7, <1>8, <1>9, <1>10, <1>11, <1>12, <1>13, <1>14, <1>15, <1>16, <1>17, <1>18, <1>19, <1>20, <1>21, <1>22, <1>23, <1>24, <1>25
     DEF Next, Order, Administer, Reap, Request

\* A tenant in use stays complete: whoever drops it first takes it out of use.
LEMMA KeptStep == IInv /\ [Next]_vars => KeptInv'
<1> SUFFICES ASSUME IInv, [Next]_vars PROVE KeptInv'
  OBVIOUS
<1> USE LifecycleAssumption DEF IInv, TypeOK, KeptInv, Deprovisioning, doc, sweep, env, ReaperTo, AdminTo, RequestTo, Evict
<1>1. ASSUME NEW r \in Replicas, AdminBegin(r) PROVE KeptInv'
  BY <1>1 DEF AdminBegin
<1>2. ASSUME NEW r \in Replicas, AdminUpsert(r) PROVE KeptInv'
  BY <1>2 DEF AdminUpsert, Upsert
<1>3. ASSUME NEW r \in Replicas, AdminCreate(r) PROVE KeptInv'
  BY <1>3 DEF AdminCreate, CreateDatabase
<1>4. ASSUME NEW r \in Replicas, AdminDelete(r) PROVE KeptInv'
  BY <1>4 DEF AdminDelete, DeleteDoc
<1>5. ASSUME NEW r \in Replicas, AdminDrop(r) PROVE KeptInv'
  BY <1>5 DEF AdminDrop
<1>6. ASSUME NEW r \in Replicas, AdminEvict(r) PROVE KeptInv'
  BY <1>6 DEF AdminEvict
<1>7. ASSUME NEW r \in Replicas, SoftDelete(r) PROVE KeptInv'
  BY <1>7 DEF SoftDelete
<1>8. ASSUME NEW r \in Replicas, Restore(r) PROVE KeptInv'
  BY <1>8 DEF Restore
<1>9. ASSUME NEW r \in Replicas, NEW s \in {"active", "suspended"}, SetStatus(r, s) PROVE KeptInv'
  BY <1>9 DEF SetStatus
<1>10. ASSUME NEW r \in Replicas, SweepBegin(r) PROVE KeptInv'
  BY <1>10 DEF SweepBegin
<1>11. ASSUME NEW r \in Replicas, Claim(r) PROVE KeptInv'
  BY <1>11 DEF Claim, Claimable
<1>12. ASSUME NEW r \in Replicas, ReaperDelete(r) PROVE KeptInv'
  BY <1>12 DEF ReaperDelete, DeleteDoc
<1>13. ASSUME NEW r \in Replicas, ReaperDrop(r) PROVE KeptInv'
  BY <1>13 DEF ReaperDrop
<1>14. ASSUME NEW r \in Replicas, ReaperEvict(r) PROVE KeptInv'
  BY <1>14 DEF ReaperEvict
<1>15. ASSUME NEW r \in Replicas, Release(r) PROVE KeptInv'
  BY <1>15 DEF Release
<1>16. ASSUME NEW r \in Replicas, ReaperFault(r) PROVE KeptInv'
  BY <1>16 DEF ReaperFault, Fault
<1>17. ASSUME NEW r \in Replicas, TaskFault(r) PROVE KeptInv'
  BY <1>17 DEF TaskFault, Fault
<1>18. ASSUME NEW r \in Replicas, Crash(r) PROVE KeptInv'
  BY <1>18 DEF Crash, Fault
<1>19. ASSUME NEW r \in Replicas, RequestBegin(r) PROVE KeptInv'
  BY <1>19 DEF RequestBegin
<1>20. ASSUME NEW r \in Replicas, RequestCheck(r) PROVE KeptInv'
  BY <1>20 DEF RequestCheck
<1>21. ASSUME NEW r \in Replicas, RequestUpsert(r) PROVE KeptInv'
  BY <1>21 DEF RequestUpsert, Upsert
<1>22. ASSUME NEW r \in Replicas, RequestCreate(r) PROVE KeptInv'
  BY <1>22 DEF RequestCreate, CreateDatabase
<1>23. ASSUME NEW r \in Replicas, RequestEnd(r) PROVE KeptInv'
  BY <1>23 DEF RequestEnd
<1>24. CASE Tick
  BY <1>24 DEF Tick
<1>25. CASE UNCHANGED vars
  BY <1>25 DEF vars
<1> QED
  BY LifecycleAssumption, <1>1, <1>2, <1>3, <1>4, <1>5, <1>6, <1>7, <1>8, <1>9, <1>10, <1>11, <1>12, <1>13, <1>14, <1>15, <1>16, <1>17, <1>18, <1>19, <1>20, <1>21, <1>22, <1>23, <1>24, <1>25
     DEF Next, Order, Administer, Reap, Request

\* The reapers are finitely many, so sets of them are counted by naturals.
LEMMA Counting ==
  ASSUME NEW S \in SUBSET Replicas, NEW r \in Replicas
  PROVE  /\ Cardinality(S) \in Nat
         /\ \A T \in SUBSET S : Cardinality(T) \in Nat /\ Cardinality(T) <= Cardinality(S)
         /\ Cardinality(S \cup {r}) <= Cardinality(S) + 1
         /\ r \in S => Cardinality(S \ {r}) = Cardinality(S) - 1
<1>1. IsFiniteSet(S)
  BY LifecycleAssumption, FS_Subset
<1>2. Cardinality(S) \in Nat
  BY <1>1, FS_CardinalityType
<1>3. ASSUME NEW T \in SUBSET S PROVE Cardinality(T) \in Nat /\ Cardinality(T) <= Cardinality(S)
  BY <1>1, FS_Subset, FS_CardinalityType
<1>4. Cardinality(S \cup {r}) <= Cardinality(S) + 1
  BY <1>1, <1>2, FS_AddElement
<1>5. r \in S => Cardinality(S \ {r}) = Cardinality(S) - 1
  BY <1>1, FS_RemoveElement
<1> QED BY <1>2, <1>3, <1>4, <1>5

\* A claim takes what a deletion allows, a release gives it back and leaves.
LEMMA ClaimStep == IInv /\ [Next]_vars => ClaimInv'
<1> SUFFICES ASSUME IInv, [Next]_vars PROVE ClaimInv'
  OBVIOUS
<1>0. /\ deletions \in Nat /\ Unclaimed \in {0, 1} /\ Unclaimed' \in {0, 1}
      /\ Purgers \in SUBSET Replicas /\ Purgers' \in SUBSET Replicas
      /\ DOMAIN reaper = Replicas
      /\ status = "deleted" => exists
      /\ Cardinality(Purgers) + Unclaimed <= deletions
  BY DEF IInv, TypeOK, ClaimInv, Unclaimed, Purgers
<1>a. Cardinality(Purgers) \in Nat /\ Cardinality(Purgers') \in Nat
  BY <1>0, LifecycleAssumption, FS_Subset, FS_CardinalityType
\* No reaper starts a purge, and no deletion becomes claimable.
<1>b. ASSUME Purgers' \subseteq Purgers, Unclaimed' <= Unclaimed, deletions' = deletions,
             (status = "deleted" => exists)'
      PROVE  ClaimInv'
  <2>1. Cardinality(Purgers') <= Cardinality(Purgers)
    BY <1>0, <1>b, LifecycleAssumption, FS_Subset
  <2> QED BY <2>1, <1>0, <1>a, <1>b DEF ClaimInv
<1> USE DEF doc, sweep, env, ReaperTo, AdminTo, RequestTo
<1>1. ASSUME NEW r \in Replicas, AdminBegin(r) PROVE ClaimInv'
  BY <1>0, <1>b, <1>1 DEF AdminBegin, Purgers, Unclaimed
<1>2. ASSUME NEW r \in Replicas, AdminUpsert(r) PROVE ClaimInv'
  BY <1>0, <1>b, <1>2 DEF AdminUpsert, Upsert, Purgers, Unclaimed
<1>3. ASSUME NEW r \in Replicas, AdminCreate(r) PROVE ClaimInv'
  BY <1>0, <1>b, <1>3 DEF AdminCreate, Purgers, Unclaimed
<1>4. ASSUME NEW r \in Replicas, AdminDelete(r) PROVE ClaimInv'
  BY <1>0, <1>b, <1>4 DEF AdminDelete, DeleteDoc, Purgers, Unclaimed
<1>5. ASSUME NEW r \in Replicas, AdminDrop(r) PROVE ClaimInv'
  BY <1>0, <1>b, <1>5 DEF AdminDrop, Purgers, Unclaimed
<1>6. ASSUME NEW r \in Replicas, AdminEvict(r) PROVE ClaimInv'
  BY <1>0, <1>b, <1>6 DEF AdminEvict, Purgers, Unclaimed
<1>7. ASSUME NEW r \in Replicas, SoftDelete(r) PROVE ClaimInv'
  <2>1. Purgers' = Purgers /\ deletions' = deletions + 1 /\ (status = "deleted" => exists)'
    BY <1>0, <1>7 DEF SoftDelete, Purgers
  <2> QED BY <2>1, <1>0, <1>a DEF ClaimInv
<1>8. ASSUME NEW r \in Replicas, Restore(r) PROVE ClaimInv'
  BY <1>0, <1>b, <1>8 DEF Restore, Purgers, Unclaimed
<1>9. ASSUME NEW r \in Replicas, NEW s \in {"active", "suspended"}, SetStatus(r, s) PROVE ClaimInv'
  BY <1>0, <1>b, <1>9 DEF SetStatus, Purgers, Unclaimed
<1>10. ASSUME NEW r \in Replicas, SweepBegin(r) PROVE ClaimInv'
  BY <1>0, <1>b, <1>10 DEF SweepBegin, Purgers, Unclaimed
<1>11. ASSUME NEW r \in Replicas, Claim(r) PROVE ClaimInv'
  <2>1. CASE Claimable(r)
    <3>1. /\ Unclaimed = 1 /\ Unclaimed' = 0 /\ deletions' = deletions
          /\ (status = "deleted" => exists)'
      BY <1>0, <1>11, <2>1 DEF Claim, Claimable, Unclaimed
    <3>2. Purgers' \subseteq Purgers \cup {r}
      BY <1>0, <1>11, <2>1 DEF Claim, Purgers
    <3>3. Cardinality(Purgers') <= Cardinality(Purgers \cup {r})
      BY <3>2, <1>0, Counting
    <3>4. Cardinality(Purgers \cup {r}) <= Cardinality(Purgers) + 1 /\ Cardinality(Purgers \cup {r}) \in Nat
      BY <1>0, Counting
    <3> QED BY <3>1, <3>3, <3>4, <1>0, <1>a DEF ClaimInv
  <2>2. CASE ~Claimable(r)
    BY <1>0, <1>b, <1>11, <2>2 DEF Claim, Purgers, Unclaimed
  <2> QED BY <2>1, <2>2
<1>12. ASSUME NEW r \in Replicas, ReaperDelete(r) PROVE ClaimInv'
  BY <1>0, <1>b, <1>12 DEF ReaperDelete, DeleteDoc, Purgers, Unclaimed
<1>13. ASSUME NEW r \in Replicas, ReaperDrop(r) PROVE ClaimInv'
  BY <1>0, <1>b, <1>13 DEF ReaperDrop, Purgers, Unclaimed
<1>14. ASSUME NEW r \in Replicas, ReaperEvict(r) PROVE ClaimInv'
  BY <1>0, <1>b, <1>14 DEF ReaperEvict, Purgers, Unclaimed
<1>15. ASSUME NEW r \in Replicas, Release(r) PROVE ClaimInv'
  <2>1. /\ r \in Purgers /\ Purgers' = Purgers \ {r} /\ deletions' = deletions
        /\ (status = "deleted" => exists)'
    BY <1>0, <1>15 DEF Release, Purgers
  <2>2. Cardinality(Purgers') = Cardinality(Purgers) - 1
    BY <2>1, <1>0, Counting
  <2> QED BY <2>1, <2>2, <1>0, <1>a DEF ClaimInv
<1>16. ASSUME NEW r \in Replicas, ReaperFault(r) PROVE ClaimInv'
  BY <1>0, <1>b, <1>16 DEF ReaperFault, Fault, Purgers, Unclaimed
<1>17. ASSUME NEW r \in Replicas, TaskFault(r) PROVE ClaimInv'
  BY <1>0, <1>b, <1>17 DEF TaskFault, Fault, Purgers, Unclaimed
<1>18. ASSUME NEW r \in Replicas, Crash(r) PROVE ClaimInv'
  BY <1>0, <1>b, <1>18 DEF Crash, Fault, Purgers, Unclaimed
<1>19. ASSUME NEW r \in Replicas, RequestBegin(r) PROVE ClaimInv'
  BY <1>0, <1>b, <1>19 DEF RequestBegin, Purgers, Unclaimed
<1>20. ASSUME NEW r \in Replicas, RequestCheck(r) PROVE ClaimInv'
  BY <1>0, <1>b, <1>20 DEF RequestCheck, Purgers, Unclaimed
<1>21. ASSUME NEW r \in Replicas, RequestUpsert(r) PROVE ClaimInv'
  BY <1>0, <1>b, <1>21 DEF RequestUpsert, Upsert, Purgers, Unclaimed
<1>22. ASSUME NEW r \in Replicas, RequestCreate(r) PROVE ClaimInv'
  BY <1>0, <1>b, <1>22 DEF RequestCreate, Purgers, Unclaimed
<1>23. ASSUME NEW r \in Replicas, RequestEnd(r) PROVE ClaimInv'
  BY <1>0, <1>b, <1>23 DEF RequestEnd, Purgers, Unclaimed
<1>24. CASE Tick
  BY <1>0, <1>b, <1>24 DEF Tick, Purgers, Unclaimed
<1>25. CASE UNCHANGED vars
  BY <1>0, <1>b, <1>25 DEF vars, Purgers, Unclaimed
<1> QED
  BY LifecycleAssumption, <1>1, <1>2, <1>3, <1>4, <1>5, <1>6, <1>7, <1>8, <1>9, <1>10, <1>11, <1>12, <1>13, <1>14, <1>15, <1>16, <1>17, <1>18, <1>19, <1>20, <1>21, <1>22, <1>23, <1>24, <1>25
     DEF Next, Order, Administer, Reap, Request

-----------------------------------------------------------------------------
\* IInv holds in every reachable state.
LEMMA Invariance == Spec => []IInv
<1>1. Init => IInv
  <2> SUFFICES ASSUME Init PROVE IInv
    OBVIOUS
  <2>1. Purgers = {}
    BY DEF Init, Purgers
  <2>2. Cardinality({}) = 0
    BY FS_EmptySet
  <2>3. TypeOK
    BY LifecycleAssumption DEF Init, TypeOK
  <2>4. ClaimInv /\ KeptInv
    BY <2>1, <2>2 DEF Init, ClaimInv, Unclaimed, KeptInv
  <2> QED BY <2>3, <2>4 DEF IInv
<1>2. IInv /\ [Next]_vars => IInv'
  BY TypeStep, ClaimStep, KeptStep DEF IInv
<1> QED BY <1>1, <1>2, PTL DEF Spec

\* The tenant document, its database and the tasks at work on them are well typed.
THEOREM TypeCorrect == Spec => []TypeOK
BY Invariance, PTL DEF IInv

\* purge_expired_tenants: no number of replicas purges a tenant more often than
\* it was soft-deleted, whatever fails, crashes or is retried.
THEOREM PurgedOncePerDeletion == Spec => []OnePurgePerDeletion
<1>1. IInv => OnePurgePerDeletion
  <2> SUFFICES ASSUME IInv PROVE OnePurgePerDeletion
    OBVIOUS
  <2>1. Purgers \subseteq Replicas
    BY DEF Purgers
  <2>2. Cardinality(Purgers) \in Nat
    BY <2>1, LifecycleAssumption, FS_Subset, FS_CardinalityType
  <2>3. /\ Unclaimed \in {0, 1} /\ deletions \in Nat
        /\ Cardinality(Purgers) + Unclaimed <= deletions
    BY DEF IInv, TypeOK, ClaimInv, Unclaimed
  <2> QED BY <2>2, <2>3 DEF OnePurgePerDeletion
<1> QED BY <1>1, Invariance, PTL

\* A tenant that was created, restored or resumed while nobody was dropping it
\* keeps its document and its database until it is deleted again.
THEOREM TenantInUseIsKept == Spec => []KeptUntilDeleted
<1>1. IInv => KeptUntilDeleted
  BY DEF IInv, KeptInv, KeptUntilDeleted
<1> QED BY <1>1, Invariance, PTL

-----------------------------------------------------------------------------
(* The kill-switches                                                       *)

InFlight == {"read", "store", "update", "ack"}

\* The awaits of a handler take no more than Latency, ...
FlightInv == \A h \in Handlers : pc[h] \in InFlight => now <= began[h] + Latency

\* ... it knows a value the document had after it began, ...
KnownInv == \A h \in Handlers : pc[h] \in {"store", "ack"} => began[h] <= LastTime(flag[h])

\* ... and a cache entry is valid for at most TTL after such a handler ended.
CacheInv == \A r \in Processes : until[r] <= LastTime(value[r]) + TTL + Latency

FreshInv == changed <= now /\ FlightInv /\ KnownInv /\ CacheInv

\* A replica that wrote the flag through has no reader that would undo it.
AckInv == \A r \in Processes : acked[r] =>
            /\ until[r] > now => value[r] = allowed
            /\ \A h \in Handlers : pc[h] = "store" /\ at[h] = r => flag[h] = allowed

SInv == STypeOK /\ FreshInv /\ AckInv

-----------------------------------------------------------------------------
\* Every step keeps every variable in its type.
LEMMA STypeStep == STypeOK /\ [SNext]_svars => STypeOK'
<1> SUFFICES ASSUME STypeOK, [SNext]_svars PROVE STypeOK'
  OBVIOUS
<1> USE StatusAssumption DEF STypeOK, GoTo, Verdict, SetCache, cache, task
<1>0. /\ now \in 0 .. now
      /\ \A h \in Handlers : began[h] \in Nat /\ began[h] + TTL \in Nat
      /\ now + TTL \in Nat
  OBVIOUS
<1>1. ASSUME NEW h \in Handlers, NEW r \in Processes, Ask(h, r) PROVE STypeOK'
  BY <1>0, <1>1 DEF Ask
<1>2. ASSUME NEW h \in Handlers, NEW r \in Processes, NEW v \in BOOLEAN, Set(h, r, v) PROVE STypeOK'
  BY <1>0, <1>2 DEF Set
<1>3. ASSUME NEW h \in Handlers, Read(h) PROVE STypeOK'
  BY <1>0, <1>3 DEF Read
<1>4. ASSUME NEW h \in Handlers, Store(h) PROVE STypeOK'
  BY <1>0, <1>4 DEF Store
<1>5. ASSUME NEW h \in Handlers, Return(h) \/ Fail(h) PROVE STypeOK'
  BY <1>0, <1>5 DEF Return, Fail
<1>6. ASSUME NEW h \in Handlers, Update(h) PROVE STypeOK'
  BY <1>0, <1>6 DEF Update, SetFlag
<1>7. ASSUME NEW h \in Handlers, WriteThrough(h) PROVE STypeOK'
  BY <1>0, <1>7 DEF WriteThrough
<1>8. CASE RemoveDoc \/ InsertDoc
  BY <1>0, <1>8 DEF RemoveDoc, InsertDoc, SetFlag
<1>9. CASE Pass
  BY <1>0, <1>9 DEF Pass
<1>10. CASE UNCHANGED svars
  BY <1>10 DEF svars
<1> QED
  BY <1>1, <1>2, <1>3, <1>4, <1>5, <1>6, <1>7, <1>8, <1>9, <1>10 DEF SNext

\* What a step may do to the clock and the flag.
LEMMA FlagStep ==
  ASSUME STypeOK, [SNext]_svars
  PROVE  \/ UNCHANGED <<now, allowed, changed>>
         \/ now' = now /\ \E v \in BOOLEAN : SetFlag(v)
         \/ Pass
<1> USE DEF STypeOK
<1>1. ASSUME NEW h \in Handlers, NEW r \in Processes, Ask(h, r) PROVE UNCHANGED <<now, allowed, changed>>
  BY <1>1 DEF Ask
<1>2. ASSUME NEW h \in Handlers, NEW r \in Processes, NEW v \in BOOLEAN, Set(h, r, v)
      PROVE  UNCHANGED <<now, allowed, changed>>
  BY <1>2 DEF Set
<1>3. ASSUME NEW h \in Handlers, Read(h) \/ Store(h) \/ Return(h) \/ WriteThrough(h) \/ Fail(h)
      PROVE  UNCHANGED <<now, allowed, changed>>
  BY <1>3 DEF Read, Store, Return, WriteThrough, Fail
<1>4. ASSUME NEW h \in Handlers, Update(h)
      PROVE  now' = now /\ (SetFlag(flag[h]) \/ UNCHANGED <<allowed, changed>>)
  BY <1>4 DEF Update
<1>5. ASSUME RemoveDoc PROVE now' = now /\ SetFlag(TRUE)
  BY <1>5 DEF RemoveDoc
<1>6. ASSUME InsertDoc \/ UNCHANGED svars PROVE UNCHANGED <<now, allowed, changed>>
  BY <1>6 DEF InsertDoc, svars
<1>7. \A h \in Handlers : flag[h] \in BOOLEAN
  OBVIOUS
<1>8. CASE \E h \in Handlers : Update(h)
  BY <1>4, <1>7, <1>8
<1>9. CASE RemoveDoc
  BY <1>5, <1>9
<1>10. CASE ~(\E h \in Handlers : Update(h)) /\ ~RemoveDoc /\ ~Pass
  <2>1. UNCHANGED <<now, allowed, changed>>
    BY <1>1, <1>2, <1>3, <1>6, <1>10 DEF SNext
  <2> QED BY <2>1
<1> QED
  BY <1>8, <1>9, <1>10

\* A step does not move the last moment the document said v into the past.
LEMMA LastTimeGrows ==
  ASSUME STypeOK, changed <= now, [SNext]_svars
  PROVE  /\ now <= now' /\ changed' <= now'
         /\ \A v \in BOOLEAN : LastTime(v) \in Nat /\ LastTime(v)' \in Nat
                               /\ LastTime(v) <= LastTime(v)'
<1> USE DEF STypeOK, LastTime
<1>1. CASE UNCHANGED <<now, allowed, changed>>
  BY <1>1
<1>2. CASE now' = now /\ \E v \in BOOLEAN : SetFlag(v)
  BY <1>2 DEF SetFlag
<1>3. CASE Pass
  BY <1>3 DEF Pass
<1> QED
  BY <1>1, <1>2, <1>3, FlagStep

-----------------------------------------------------------------------------
\* The clock waits for handlers in flight.
LEMMA FlightStep == SInv /\ [SNext]_svars => FlightInv'
<1> SUFFICES ASSUME SInv, [SNext]_svars PROVE FlightInv'
  OBVIOUS
<1> USE StatusAssumption DEF SInv, FreshInv, STypeOK, FlightInv, InFlight, GoTo, Verdict, cache, task
<1>1. ASSUME NEW h \in Handlers, NEW r \in Processes, Ask(h, r) PROVE FlightInv'
  BY <1>1 DEF Ask
<1>2. ASSUME NEW h \in Handlers, NEW r \in Processes, NEW v \in BOOLEAN, Set(h, r, v) PROVE FlightInv'
  BY <1>2 DEF Set
<1>3. ASSUME NEW h \in Handlers, Read(h) \/ Store(h) \/ Return(h) PROVE FlightInv'
  BY <1>3 DEF Read, Store, Return
<1>4. ASSUME NEW h \in Handlers, Update(h) \/ WriteThrough(h) \/ Fail(h) PROVE FlightInv'
  BY <1>4 DEF Update, WriteThrough, Fail
<1>5. CASE RemoveDoc \/ InsertDoc \/ UNCHANGED svars
  BY <1>5 DEF RemoveDoc, InsertDoc, svars
<1>6. CASE Pass
  BY <1>6 DEF Pass
<1> QED
  BY <1>1, <1>2, <1>3, <1>4, <1>5, <1>6 DEF SNext

\* A reader learns the value the document has, a writer the one it gave it.
LEMMA KnownStep == SInv /\ [SNext]_svars => KnownInv'
<1> SUFFICES ASSUME SInv, [SNext]_svars, NEW h \in Handlers, pc'[h] \in {"store", "ack"}
             PROVE  (began[h] <= LastTime(flag[h]))'
  BY DEF KnownInv
<1> USE DEF GoTo, Verdict, cache, task
<1>0. /\ now \in Nat /\ now' \in Nat /\ now <= now' /\ changed \in Nat /\ changed <= now
      /\ \A v \in BOOLEAN : /\ LastTime(v) \in Nat /\ LastTime(v)' \in Nat
                            /\ LastTime(v) <= LastTime(v)'
  BY LastTimeGrows, STypeStep DEF SInv, FreshInv, STypeOK
<1>a. /\ began[h] \in Nat /\ began[h] <= now /\ flag[h] \in BOOLEAN /\ flag'[h] \in BOOLEAN
      /\ DOMAIN pc = Handlers /\ DOMAIN began = Handlers /\ DOMAIN flag = Handlers
  BY STypeStep DEF SInv, STypeOK
<1>1. CASE /\ pc[h] \in {"store", "ack"}
           /\ began'[h] = began[h] /\ flag'[h] = flag[h]
  <2>1. began[h] <= LastTime(flag[h])
    BY <1>1 DEF SInv, FreshInv, KnownInv
  <2>2. LastTime(flag[h]) <= (LastTime(flag[h]))'
    BY <1>0, <1>a, <1>1 DEF LastTime
  <2> QED BY <2>1, <2>2, <1>1, <1>0, <1>a
<1>2. CASE Read(h)
  BY <1>0, <1>a, <1>2 DEF Read, LastTime
<1>3. CASE Update(h)
  BY <1>0, <1>a, <1>3 DEF Update, SetFlag, LastTime
<1>4. ASSUME NEW g \in Handlers, NEW r \in Processes, Ask(g, r) PROVE <1>1!1
  BY <1>4, <1>a DEF Ask
<1>5. ASSUME NEW g \in Handlers, NEW r \in Processes, NEW v \in BOOLEAN, Set(g, r, v) PROVE <1>1!1
  BY <1>5, <1>a DEF Set
<1>6. ASSUME NEW g \in Handlers, g # h, Read(g) \/ Update(g) PROVE <1>1!1
  BY <1>6, <1>a DEF Read, Update
<1>7. ASSUME NEW g \in Handlers, Store(g) \/ Return(g) \/ WriteThrough(g) \/ Fail(g) PROVE <1>1!1
  BY <1>7, <1>a DEF Store, Return, WriteThrough, Fail
<1>8. ASSUME RemoveDoc \/ InsertDoc \/ Pass \/ UNCHANGED svars PROVE <1>1!1
  BY <1>8, <1>a DEF RemoveDoc, InsertDoc, Pass, svars
<1> QED
  BY <1>1, <1>2, <1>3, <1>4, <1>5, <1>6, <1>7, <1>8 DEF SNext

\* An entry is filled with what a handler knows, and expires with it.
LEMMA CacheStep == SInv /\ [SNext]_svars => CacheInv'
<1> SUFFICES ASSUME SInv, [SNext]_svars, NEW r \in Processes
             PROVE  (until[r] <= LastTime(value[r]) + TTL + Latency)'
  BY DEF CacheInv
<1> USE StatusAssumption DEF SetCache, cache, task
<1>0. /\ now \in Nat /\ now' \in Nat /\ now <= now' /\ changed \in Nat
      /\ \A v \in BOOLEAN : /\ LastTime(v) \in Nat /\ LastTime(v)' \in Nat
                            /\ LastTime(v) <= LastTime(v)'
  BY LastTimeGrows, STypeStep DEF SInv, FreshInv, STypeOK
<1>a. /\ \A h \in Handlers : began[h] \in Nat /\ flag[h] \in BOOLEAN /\ at[h] \in Processes
      /\ until[r] \in Nat /\ value[r] \in BOOLEAN
      /\ DOMAIN until = Processes /\ DOMAIN value = Processes
  BY DEF SInv, STypeOK
<1>1. CASE until'[r] = until[r] /\ value'[r] = value[r]
  <2>1. until[r] <= LastTime(value[r]) + TTL + Latency
    BY DEF SInv, FreshInv, CacheInv
  <2>2. LastTime(value[r]) <= (LastTime(value[r]))' /\ (LastTime(value[r]))' \in Nat
    BY <1>0, <1>a, <1>1 DEF LastTime
  <2> QED BY <2>1, <2>2, <1>1, <1>0, <1>a
<1>2. ASSUME NEW h \in Handlers, Store(h) \/ WriteThrough(h), at[h] = r
      PROVE  (until[r] <= LastTime(value[r]) + TTL + Latency)'
  <2>1. /\ pc[h] \in {"store", "ack"}
        /\ value'[r] = flag[h]
        /\ until'[r] \in {began[h] + TTL, now + TTL}
        /\ UNCHANGED <<now, allowed, changed>>
    BY <1>2, <1>a DEF Store, WriteThrough
  <2>2. began[h] <= LastTime(flag[h]) /\ now <= began[h] + Latency
    BY <2>1 DEF SInv, FreshInv, KnownInv, FlightInv, InFlight
  <2>3. (LastTime(value[r]))' = LastTime(flag[h]) /\ LastTime(flag[h]) \in Nat
    BY <2>1, <1>0, <1>a DEF LastTime
  <2> QED BY <2>1, <2>2, <2>3, <1>0, <1>a
<1>3. ASSUME NEW h \in Handlers, Store(h) \/ WriteThrough(h), at[h] # r PROVE <1>1!1
  BY <1>3, <1>a DEF Store, WriteThrough
<1>4. ASSUME NEW h \in Handlers, NEW q \in Processes, Ask(h, q) PROVE <1>1!1
  BY <1>4 DEF Ask
<1>5. ASSUME NEW h \in Handlers, NEW q \in Processes, NEW v \in BOOLEAN, Set(h, q, v) PROVE <1>1!1
  BY <1>5 DEF Set
<1>6. ASSUME NEW h \in Handlers, Read(h) \/ Return(h) \/ Update(h) \/ Fail(h) PROVE <1>1!1
  BY <1>6 DEF Read, Return, Update, Fail
<1>7. ASSUME RemoveDoc \/ InsertDoc \/ Pass \/ UNCHANGED svars PROVE <1>1!1
  BY <1>7 DEF RemoveDoc, InsertDoc, Pass, svars
<1> QED
  BY <1>1, <1>2, <1>3, <1>4, <1>5, <1>6, <1>7 DEF SNext

\* Readers that begin after the write-through find the new flag.
LEMMA AckStep == SInv /\ [SNext]_svars => AckInv'
<1> SUFFICES ASSUME SInv, [SNext]_svars PROVE AckInv'
  OBVIOUS
<1> USE StatusAssumption DEF SInv, STypeOK, AckInv, GoTo, Verdict, SetCache, cache, task
<1>1. ASSUME NEW h \in Handlers, NEW r \in Processes, Ask(h, r) PROVE AckInv'
  BY <1>1 DEF Ask
<1>2. ASSUME NEW h \in Handlers, NEW r \in Processes, NEW v \in BOOLEAN, Set(h, r, v) PROVE AckInv'
  BY <1>2 DEF Set
<1>3. ASSUME NEW h \in Handlers, Read(h) PROVE AckInv'
  BY <1>3 DEF Read
<1>4. ASSUME NEW h \in Handlers, Store(h) PROVE AckInv'
  BY <1>4 DEF Store
<1>5. ASSUME NEW h \in Handlers, Return(h) \/ Fail(h) PROVE AckInv'
  BY <1>5 DEF Return, Fail
<1>6. ASSUME NEW h \in Handlers, Update(h) PROVE AckInv'
  BY <1>6 DEF Update, SetFlag
<1>7. ASSUME NEW h \in Handlers, WriteThrough(h) PROVE AckInv'
  BY <1>7 DEF WriteThrough, Outrun
<1>8. CASE RemoveDoc \/ InsertDoc
  BY <1>8 DEF RemoveDoc, InsertDoc, SetFlag
<1>9. CASE Pass
  BY <1>9 DEF Pass
<1>10. CASE UNCHANGED svars
  BY <1>10 DEF svars
<1> QED
  BY <1>1, <1>2, <1>3, <1>4, <1>5, <1>6, <1>7, <1>8, <1>9, <1>10 DEF SNext

-----------------------------------------------------------------------------
\* SInv holds in every reachable state.
LEMMA SInvariance == SSpec => []SInv
<1>1. SInit => SInv
  BY StatusAssumption DEF SInit, SInv, STypeOK, FreshInv, FlightInv, KnownInv, CacheInv, AckInv, LastTime, InFlight
<1>2. SInv /\ [SNext]_svars => SInv'
  <2> SUFFICES ASSUME SInv, [SNext]_svars PROVE SInv'
    OBVIOUS
  <2>1. STypeOK' /\ (changed <= now)'
    BY STypeStep, LastTimeGrows DEF SInv, FreshInv
  <2> QED BY <2>1, FlightStep, KnownStep, CacheStep, AckStep DEF SInv, FreshInv
<1> QED BY <1>1, <1>2, PTL DEF SSpec

\* The caches, the document and the handlers of tenant_status.py are well typed.
THEOREM STypeCorrect == SSpec => []STypeOK
BY SInvariance, PTL DEF SInv

\* set_tenant_status and set_tenant_read_only take effect at once on the replica
\* they run on, unless a read in flight there saw the flag before.
THEOREM WritesAreLocallyImmediate == SSpec => []LocallyImmediate
<1>1. SInv => LocallyImmediate
  BY DEF SInv, AckInv, LocallyImmediate
<1> QED BY <1>1, SInvariance, PTL

\* get_tenant_status and get_tenant_read_only never answer with a value the
\* document lost more than a cache lifetime and a round trip ago, whatever the
\* replicas do concurrently.
THEOREM VerdictsAreFresh == SSpec => VerdictFresh
<1> DEFINE Fresh == \A h \in Handlers, v \in BOOLEAN :
                      pc[h] # Verdict(v) /\ pc'[h] = Verdict(v)
                        => now <= LastTime(v) + TTL + Latency
<1>1. SInv /\ [SNext]_svars => [Fresh]_svars
  <2> SUFFICES ASSUME SInv, SNext, NEW h \in Handlers, NEW v \in BOOLEAN,
                      pc[h] # Verdict(v), pc'[h] = Verdict(v)
               PROVE  now <= LastTime(v) + TTL + Latency
    OBVIOUS
  <2> USE StatusAssumption DEF GoTo, Verdict
  <2>0. /\ now \in Nat /\ changed \in Nat /\ DOMAIN pc = Handlers
        /\ \A g \in Handlers : began[g] \in Nat /\ flag[g] \in BOOLEAN
        /\ \A r \in Processes : value[r] \in BOOLEAN /\ until[r] \in Nat
        /\ \A w \in BOOLEAN : LastTime(w) \in Nat
    BY DEF SInv, STypeOK, LastTime
  <2>1. ASSUME NEW r \in Processes, Ask(h, r) PROVE now <= LastTime(v) + TTL + Latency
    <3>1. until[r] > now /\ value[r] = v
      BY <2>0, <2>1 DEF Ask
    <3>2. until[r] <= LastTime(v) + TTL + Latency
      BY <3>1 DEF SInv, FreshInv, CacheInv
    <3> QED BY <3>1, <3>2, <2>0
  <2>2. CASE Store(h)
    <3>1. pc[h] = "store" /\ flag[h] = v
      BY <2>0, <2>2 DEF Store
    <3>2. began[h] <= LastTime(v) /\ now <= began[h] + Latency
      BY <3>1 DEF SInv, FreshInv, KnownInv, FlightInv, InFlight
    <3> QED BY <3>2, <2>0
  <2>3. ASSUME NEW g \in Handlers, NEW r \in Processes, Ask(g, r), g # h PROVE FALSE
    BY <2>0, <2>3 DEF Ask
  <2>4. ASSUME NEW g \in Handlers, NEW r \in Processes, NEW w \in BOOLEAN, Set(g, r, w) PROVE FALSE
    BY <2>0, <2>4 DEF Set
  <2>5. ASSUME NEW g \in Handlers, Store(g), g # h PROVE FALSE
    BY <2>0, <2>5 DEF Store
  <2>6. ASSUME NEW g \in Handlers, Read(g) \/ Return(g) \/ Update(g) \/ WriteThrough(g) \/ Fail(g)
        PROVE  FALSE
    BY <2>0, <2>6 DEF Read, Return, Update, WriteThrough, Fail
  <2>7. ASSUME RemoveDoc \/ InsertDoc \/ Pass PROVE FALSE
    BY <2>0, <2>7 DEF RemoveDoc, InsertDoc, Pass, task
  <2> QED
    BY <2>1, <2>2, <2>3, <2>4, <2>5, <2>6, <2>7 DEF SNext
<1>2. VerdictFresh <=> [][Fresh]_svars
  BY DEF VerdictFresh
<1> HIDE DEF Fresh
<1> QED BY <1>1, <1>2, SInvariance, PTL DEF SSpec
=============================================================================

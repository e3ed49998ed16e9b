-------------------------- MODULE ClientPoolProofs --------------------------
(***************************************************************************)
(* Proofs about ClientPool, for any number of calls, managers, clients,    *)
(* attempts and mounts.                                                    *)
(*                                                                         *)
(* LockNotOrphaned is inductive.  FailedNotPooled is not: BadGone says     *)
(* from which step of an eviction on the failed client is out of the pool, *)
(* and AttemptLeft bounds the attempts for the type invariant.             *)
(* SessionHasItsUsers needs the exact count of references (Counted), that  *)
(* a call uses a client as long as it says so (Uses) and that the pool is  *)
(* empty while its next client is being made (Emptied).  ChangesTakeEffect *)
(* needs what calls and managers may hold on the way (Current, NotBefore). *)
(***************************************************************************)
EXTENDS ClientPool, FiniteSetTheorems, TLAPS

\* A failed client is remembered only until the retry, and has left the pool
\* once the eviction has passed the lock.
BadGone ==
  \A h \in Callers :
    /\ pc[h] \in {"idle", "lock", "teardown", "mint", "connect", "call"} => bad[h] = NoClient
    /\ pc[h] \in {"close", "sleep"} => bad[h] = NoClient \/ pool # bad[h]

\* A sleeping call has an attempt left.
AttemptLeft == \A h \in Callers : pc[h] = "sleep" => tries[h] < Attempts

Inv == TypeOK /\ AttemptLeft /\ LockNotOrphaned /\ BadGone

\* A worker has a client exactly while it calls or closes it, and a caller has a
\* credential in hand only while it connects.
Uses ==
  /\ \A x \in Workers : using[x] # NoClient <=> pc[x] \in {"call", "close"}
  /\ \A h \in Callers : pc[h] # "connect" => cred[h] = "none"
  /\ \A m \in Managers : pc[m] \in {"idle", "evict", "close", "invalidate"}

\* Between dropping the old client and pooling the new one the pool is empty, but for
\* one whose session has ended.
Emptied ==
  \A h \in Callers :
    /\ pc[h] \in {"mint", "connect"} => pool = NoClient
    /\ pc[h] = "teardown" => pool = NoClient \/ refs[pool] = 0

\* The references of a live client are those of its holders and of the pool, exactly;
\* one that has ended is called by nobody.
Base(c) == IF pool = c THEN 1 ELSE 0
CountedAt(c) ==
  /\ IsFiniteSet(Holders(c))
  /\ session[c] = "none" <=> refs[c] = 0
  /\ \/ refs[c] > 0 /\ refs[c] = Cardinality(Holders(c)) + Base(c)
     \/ refs[c] = 0 /\ \A h \in Callers : ~(pc[h] = "call" /\ using[h] = c)
Counted == \A c \in Clients : CountedAt(c)

\* Calls that began after the last change know the server of today, and so does the
\* pool once that change has evicted what was there before.
Current ==
  /\ ~(straddled /\ overlapped) => \A h \in Callers : pc[h] # "idle" => srv[h] = server
  /\ ~straddled /\ (\A m \in Managers : pc[m] # "evict") /\ PooledSession => ver[pool] = server

\* While a change is under way that no call overlaps there is no call, and once it has
\* evicted there is no client; when it is over nothing is left from before.
NotBefore ==
  ~overlapped =>
    IF \E m \in Managers : pc[m] # "idle"
      THEN /\ \A h \in Callers : pc[h] = "idle"
           /\ (\A m \in Managers : pc[m] # "evict") => pool = NoClient
      ELSE /\ cached # "before" /\ \A h \in Callers : cred[h] # "before"
           /\ PooledSession => auth[pool] # "before"

\* The invariant of the sessions and of the changes.
SInv == Inv /\ Uses /\ Emptied /\ Counted /\ Current /\ NotBefore

-----------------------------------------------------------------------------

PcType == pc \in [Workers -> {"idle", "lock", "teardown", "mint", "connect", "call", "evict",
                              "close", "sleep", "invalidate"}]
ClientsType ==
  /\ ver \in [Clients -> 0..MaxVersions] /\ auth \in [Clients -> Credentials]
  /\ refs \in [Clients -> Nat] /\ session \in [Clients -> {"none", "up", "dropped"}]

\* Moving a worker on keeps the program counters well formed.
LEMMA GoToType ==
  ASSUME TypeOK, NEW x, GoTo(x, "idle") \/ GoTo(x, "lock") \/ GoTo(x, "teardown")
           \/ GoTo(x, "mint") \/ GoTo(x, "connect") \/ GoTo(x, "call") \/ GoTo(x, "evict")
           \/ GoTo(x, "close") \/ GoTo(x, "sleep") \/ GoTo(x, "invalidate")
  PROVE  PcType'
  BY DEF TypeOK, GoTo, PcType

\* Giving back a reference leaves clients well formed.
LEMMA ReleaseType ==
  ASSUME TypeOK, NEW c, Release(c)
  PROVE  ClientsType'
  BY PoolAssumption DEF TypeOK, ClientsType, Release, EndSession, Credentials

\* Outdating credentials leaves everything well formed.
LEMMA OutdateType ==
  ASSUME TypeOK, OutdateAll
  PROVE  /\ auth' \in [Clients -> Credentials]
         /\ cached' \in Credentials
         /\ cred' \in [Callers -> Credentials]
  BY DEF TypeOK, OutdateAll, Outdate, Credentials

\* The end of a call or of an attempt.
LEMMA OverType ==
  ASSUME TypeOK, AttemptLeft, NEW h \in Callers, Over(h) \/ Finish(h)
  PROVE  /\ PcType'
         /\ srv' \in [Callers -> 0..MaxVersions]
         /\ bad' \in [Callers -> Clients \cup {NoClient}]
         /\ tries' \in [Callers -> 0..Attempts]
         /\ AttemptLeft'
<1>1. PcType'
  BY GoToType DEF Over, Finish
<1>2. CASE Finish(h)
  BY <1>1, <1>2, PoolAssumption DEF Finish, GoTo, TypeOK, AttemptLeft, Workers
<1>3. CASE Over(h) /\ tries[h] < Attempts
  BY <1>1, <1>3 DEF Over, GoTo, TypeOK, AttemptLeft, Workers
<1> QED
  BY <1>1, <1>2, <1>3 DEF Over

\* The initial states.
LEMMA InitInv == Init => Inv
<1> SUFFICES ASSUME Init PROVE Inv
  OBVIOUS
<1>1. 0 \in 0..MaxVersions /\ 0 \in 0..Attempts
  BY PoolAssumption
<1>2. TypeOK
  BY <1>1 DEF Init, TypeOK, Workers, Credentials
<1>3. AttemptLeft /\ LockNotOrphaned /\ BadGone
  BY NameAssumption DEF Init, AttemptLeft, LockNotOrphaned, BadGone, Workers
<1> QED
  BY <1>2, <1>3 DEF Inv

-----------------------------------------------------------------------------

\* Every step keeps the types, and leaves a sleeping call an attempt.
LEMMA TypeStep ==
  ASSUME TypeOK, AttemptLeft, [Next]_vars
  PROVE  TypeOK' /\ AttemptLeft'
<1> USE DEF registry, clients, history
<1>1. ASSUME NEW h \in Callers, Begin(h)
      PROVE  TypeOK' /\ AttemptLeft'
  <2>1. PcType'
    BY <1>1, GoToType DEF Begin
  <2> QED
    BY <1>1, <2>1, PoolAssumption DEF Begin, PcType, GoTo, TypeOK, AttemptLeft, Workers
<1>2. ASSUME NEW h \in Callers, WarmHit(h)
      PROVE  TypeOK' /\ AttemptLeft'
  <2>1. PcType'
    BY <1>2, GoToType DEF WarmHit
  <2> QED
    BY <1>2, <2>1 DEF WarmHit, Warm, PcType, GoTo, TypeOK, AttemptLeft, Workers
<1>3. ASSUME NEW h \in Callers, DropStale(h)
      PROVE  TypeOK' /\ AttemptLeft'
  <2>1. PcType' /\ ClientsType'
    BY <1>3, GoToType, ReleaseType DEF DropStale
  <2> QED
    BY <1>3, <2>1 DEF DropStale, PcType, ClientsType, GoTo, TypeOK, AttemptLeft, Workers
<1>4. ASSUME NEW h \in Callers, TornDown(h) \/ NoneYet(h)
      PROVE  TypeOK' /\ AttemptLeft'
  <2>1. PcType'
    BY <1>4, GoToType DEF TornDown, NoneYet
  <2> QED
    BY <1>4, <2>1 DEF TornDown, NoneYet, PcType, GoTo, TypeOK, AttemptLeft, Workers
<1>5. ASSUME NEW h \in Callers, Mint(h)
      PROVE  TypeOK' /\ AttemptLeft'
  <2>1. PcType'
    BY <1>5, GoToType DEF Mint
  <2>2. Minted(h) \in Credentials
    BY DEF Minted, Credentials, TypeOK
  <2> QED
    BY <1>5, <2>1, <2>2 DEF Mint, PcType, GoTo, TypeOK, AttemptLeft, Workers
<1>6. ASSUME NEW h \in Callers, MintFails(h)
      PROVE  TypeOK' /\ AttemptLeft'
  <2>1. Minted(h) \in Credentials
    BY DEF Minted, Credentials, TypeOK
  <2> QED
    BY <1>6, <2>1, OverType DEF MintFails, Unlock, PcType, TypeOK
<1>7. ASSUME NEW h \in Callers, Connect(h)
      PROVE  TypeOK' /\ AttemptLeft'
  <2>1. PcType'
    BY <1>7, GoToType DEF Connect
  <2> QED
    BY <1>7, <2>1 DEF Connect, Unlock, PcType, GoTo, TypeOK, AttemptLeft, Workers, Credentials
<1>8. ASSUME NEW h \in Callers, Answer(h)
      PROVE  TypeOK' /\ AttemptLeft'
  <2>1. ClientsType'
    BY <1>8, ReleaseType DEF Answer
  <2> QED
    BY <1>8, <2>1, OverType DEF Answer, ClientsType, PcType, TypeOK
<1>9. ASSUME NEW h \in Callers, Abort(h)
      PROVE  TypeOK' /\ AttemptLeft'
  <2>1. PcType'
    BY <1>9, GoToType DEF Abort
  <2>2. ClientsType'
    BY <1>9, ReleaseType DEF Abort, TypeOK, ClientsType
  <2> QED
    BY <1>9, <2>1, <2>2 DEF Abort, Unlock, PcType, ClientsType, GoTo, TypeOK, AttemptLeft,
                            Workers, Credentials
<1>10. ASSUME NEW h \in Callers, Retry(h)
       PROVE  TypeOK' /\ AttemptLeft'
  <2>1. PcType'
    BY <1>10, GoToType DEF Retry
  <2>2. tries[h] + 1 \in 0..Attempts
    BY <1>10, PoolAssumption DEF Retry, AttemptLeft, TypeOK
  <2> QED
    BY <1>10, <2>1, <2>2 DEF Retry, PcType, GoTo, TypeOK, AttemptLeft, Workers
<1>11. ASSUME NEW x \in Workers, Evict(x)
       PROVE  TypeOK' /\ AttemptLeft'
  <2>1. CASE pool = NoClient /\ x \in Callers
    BY <1>11, <2>1, OverType DEF Evict, Evicted, PcType, TypeOK
  <2>2. CASE ~(pool = NoClient /\ x \in Callers)
    <3>1. PcType'
      BY <1>11, <2>2, GoToType DEF Evict, Evicted
    <3> QED
      BY <1>11, <2>2, <3>1 DEF Evict, Evicted, PcType, GoTo, TypeOK, AttemptLeft, Workers
  <2> QED BY <2>1, <2>2
<1>12. ASSUME NEW x \in Workers, Close(x)
       PROVE  TypeOK' /\ AttemptLeft'
  <2>1. ClientsType'
    BY <1>12, ReleaseType DEF Close
  <2>2. CASE x \in Callers
    BY <1>12, <2>1, <2>2, OverType DEF Close, Evicted, ClientsType, PcType, TypeOK
  <2>3. CASE x \notin Callers
    <3>1. PcType'
      BY <1>12, <2>3, GoToType DEF Close, Evicted
    <3> QED
      BY <1>12, <2>1, <2>3, <3>1 DEF Close, Evicted, ClientsType, PcType, GoTo, TypeOK,
                                     AttemptLeft, Workers
  <2> QED BY <2>2, <2>3
<1>13. ASSUME NEW m \in Managers, Mount(m) \/ Unmount(m) \/ Refresh(m)
       PROVE  TypeOK' /\ AttemptLeft'
  <2>1. PcType'
    BY <1>13, GoToType DEF Mount, Unmount, Refresh
  <2>2. server' \in 0..MaxVersions /\ versions' \in 0..MaxVersions
    BY <1>13, PoolAssumption DEF Mount, Unmount, Refresh, TypeOK
  <2>3. straddled' \in BOOLEAN /\ overlapped' \in BOOLEAN
    BY <1>13, Zenon DEF Mount, Unmount, Refresh, TypeOK, Busy
  <2>4. OutdateAll
    BY <1>13 DEF Mount, Unmount, Refresh
  <2>5. AttemptLeft'
    BY <1>13, NameAssumption DEF Mount, Unmount, Refresh, GoTo, TypeOK, AttemptLeft, Workers
  <2> QED
    BY <1>13, <2>1, <2>2, <2>3, <2>4, <2>5, OutdateType
    DEF Mount, Unmount, Refresh, PcType, TypeOK
<1>14. ASSUME NEW m \in Managers, Invalidate(m)
       PROVE  TypeOK' /\ AttemptLeft'
  <2>1. PcType'
    BY <1>14, GoToType DEF Invalidate
  <2> QED
    BY <1>14, <2>1, NameAssumption DEF Invalidate, PcType, GoTo, TypeOK, AttemptLeft, Workers,
                                       Credentials
<1>15. ASSUME Age \/ \E c \in Clients : Drop(c)
       PROVE  TypeOK' /\ AttemptLeft'
  BY <1>15 DEF Age, Drop, TypeOK, AttemptLeft, Credentials
<1>16. ASSUME UNCHANGED vars
       PROVE  TypeOK' /\ AttemptLeft'
  BY <1>16 DEF vars, TypeOK, AttemptLeft
<1> QED
  BY <1>1, <1>2, <1>3, <1>4, <1>5, <1>6, <1>7, <1>8, <1>9, <1>10, <1>11, <1>12, <1>13, <1>14,
     <1>15, <1>16 DEF Next

\* The lock has one holder, which is connecting.
LEMMA LockStep ==
  ASSUME TypeOK, LockNotOrphaned, [Next]_vars
  PROVE  LockNotOrphaned'
<1> USE NameAssumption DEF registry, clients, history, LockNotOrphaned, TypeOK, Workers, GoTo
<1>1. ASSUME NEW h \in Callers, Begin(h) \/ WarmHit(h) \/ Retry(h)
      PROVE  LockNotOrphaned'
  BY <1>1 DEF Begin, WarmHit, Retry
<1>2. ASSUME NEW h \in Callers, DropStale(h) \/ TornDown(h) \/ NoneYet(h)
      PROVE  LockNotOrphaned'
  BY <1>2 DEF DropStale, TornDown, NoneYet
<1>3. ASSUME NEW h \in Callers, Mint(h)
      PROVE  LockNotOrphaned'
  BY <1>3 DEF Mint
<1>4. ASSUME NEW h \in Callers, MintFails(h)
      PROVE  LockNotOrphaned'
  BY <1>4 DEF MintFails, Unlock, Over, Finish
<1>5. ASSUME NEW h \in Callers, Connect(h)
      PROVE  LockNotOrphaned'
  BY <1>5 DEF Connect, Free, Unlock
<1>6. ASSUME NEW h \in Callers, Answer(h)
      PROVE  LockNotOrphaned'
  BY <1>6 DEF Answer, Finish
<1>7. ASSUME NEW h \in Callers, Abort(h)
      PROVE  LockNotOrphaned'
  BY <1>7 DEF Abort, Unlock
<1>8. ASSUME NEW x \in Workers, Evict(x)
      PROVE  LockNotOrphaned'
  BY <1>8 DEF Evict, Evicted, Over, Finish
<1>9. ASSUME NEW x \in Workers, Close(x)
      PROVE  LockNotOrphaned'
  BY <1>9 DEF Close, Evicted, Over, Finish
<1>10. ASSUME NEW m \in Managers, Mount(m) \/ Unmount(m) \/ Refresh(m) \/ Invalidate(m)
       PROVE  LockNotOrphaned'
  BY <1>10 DEF Mount, Unmount, Refresh, Invalidate
<1>11. ASSUME Age \/ \E c \in Clients : Drop(c)
       PROVE  LockNotOrphaned'
  BY <1>11 DEF Age, Drop
<1>12. ASSUME UNCHANGED vars
       PROVE  LockNotOrphaned'
  BY <1>12 DEF vars
<1> QED
  BY <1>1, <1>2, <1>3, <1>4, <1>5, <1>6, <1>7, <1>8, <1>9, <1>10, <1>11, <1>12 DEF Next

\* A failed client leaves the pool and does not come back.
LEMMA BadStep ==
  ASSUME TypeOK, BadGone, [Next]_vars
  PROVE  BadGone'
<1> USE NameAssumption DEF registry, clients, history, BadGone, TypeOK, Workers, GoTo
<1>1. ASSUME NEW h \in Callers, Begin(h) \/ WarmHit(h) \/ Retry(h)
      PROVE  BadGone'
  BY <1>1 DEF Begin, WarmHit, Retry
<1>2. ASSUME NEW h \in Callers, DropStale(h) \/ TornDown(h) \/ NoneYet(h)
      PROVE  BadGone'
  BY <1>2 DEF DropStale, TornDown, NoneYet
<1>3. ASSUME NEW h \in Callers, Mint(h)
      PROVE  BadGone'
  BY <1>3 DEF Mint
<1>4. ASSUME NEW h \in Callers, MintFails(h)
      PROVE  BadGone'
  BY <1>4 DEF MintFails, Unlock, Over, Finish
<1>5. ASSUME NEW h \in Callers, Connect(h)
      PROVE  BadGone'
  BY <1>5 DEF Connect, Free, Unlock
<1>6. ASSUME NEW h \in Callers, Answer(h)
      PROVE  BadGone'
  BY <1>6 DEF Answer, Finish
<1>7. ASSUME NEW h \in Callers, Abort(h)
      PROVE  BadGone'
  BY <1>7 DEF Abort, Unlock
<1>8. ASSUME NEW x \in Workers, Evict(x)
      PROVE  BadGone'
  BY <1>8 DEF Evict, Evicted, Over, Finish
<1>9. ASSUME NEW x \in Workers, Close(x)
      PROVE  BadGone'
  BY <1>9 DEF Close, Evicted, Over, Finish
<1>10. ASSUME NEW m \in Managers, Mount(m) \/ Unmount(m) \/ Refresh(m) \/ Invalidate(m)
       PROVE  BadGone'
  BY <1>10 DEF Mount, Unmount, Refresh, Invalidate
<1>11. ASSUME Age \/ \E c \in Clients : Drop(c)
       PROVE  BadGone'
  BY <1>11 DEF Age, Drop
<1>12. ASSUME UNCHANGED vars
       PROVE  BadGone'
  BY <1>12 DEF vars
<1> QED
  BY <1>1, <1>2, <1>3, <1>4, <1>5, <1>6, <1>7, <1>8, <1>9, <1>10, <1>11, <1>12 DEF Next

-----------------------------------------------------------------------------
(* The sessions                                                            *)

\* Who ends up at a worker's side, and in what hand.
LEMMA UsesStep ==
  ASSUME TypeOK, Uses, [Next]_vars
  PROVE  Uses'
<1> USE NameAssumption DEF registry, clients, history, Uses, TypeOK, Workers, GoTo
<1>1. ASSUME NEW h \in Callers, Begin(h) \/ WarmHit(h) \/ Retry(h)
      PROVE  Uses'
  BY <1>1 DEF Begin, WarmHit, Warm, Retry
<1>2. ASSUME NEW h \in Callers, DropStale(h) \/ TornDown(h) \/ NoneYet(h)
      PROVE  Uses'
  BY <1>2 DEF DropStale, TornDown, NoneYet
<1>3. ASSUME NEW h \in Callers, Mint(h)
      PROVE  Uses'
  BY <1>3 DEF Mint
<1>4. ASSUME NEW h \in Callers, MintFails(h)
      PROVE  Uses'
  BY <1>4 DEF MintFails, Over, Finish
<1>5. ASSUME NEW h \in Callers, Connect(h)
      PROVE  Uses'
  BY <1>5 DEF Connect
<1>6. ASSUME NEW h \in Callers, Answer(h)
      PROVE  Uses'
  BY <1>6 DEF Answer, Finish
<1>7. ASSUME NEW h \in Callers, Abort(h)
      PROVE  Uses'
  BY <1>7 DEF Abort
<1>8. ASSUME NEW x \in Workers, Evict(x)
      PROVE  Uses'
  BY <1>8 DEF Evict, Evicted, Over, Finish
<1>9. ASSUME NEW x \in Workers, Close(x)
      PROVE  Uses'
  BY <1>9 DEF Close, Evicted, Over, Finish
<1>10. ASSUME NEW m \in Managers, Mount(m) \/ Unmount(m) \/ Refresh(m) \/ Invalidate(m)
       PROVE  Uses'
  <2>1. \A h \in Callers : cred[h] = "none" => cred'[h] = "none"
    BY <1>10 DEF Mount, Unmount, Refresh, Invalidate, OutdateAll, Outdate
  <2> QED BY <1>10, <2>1 DEF Mount, Unmount, Refresh, Invalidate
<1>11. ASSUME Age \/ \E c \in Clients : Drop(c)
       PROVE  Uses'
  BY <1>11 DEF Age, Drop
<1>12. ASSUME UNCHANGED vars
       PROVE  Uses'
  BY <1>12 DEF vars
<1> QED
  BY <1>1, <1>2, <1>3, <1>4, <1>5, <1>6, <1>7, <1>8, <1>9, <1>10, <1>11, <1>12 DEF Next

\* A reference is given back: the others keep theirs.
LEMMA Released ==
  ASSUME TypeOK, NEW c \in Clients, Release(c)
  PROVE  /\ \A d \in Clients \ {c} : /\ refs'[d] = refs[d] /\ session'[d] = session[d]
                                     /\ ver'[d] = ver[d] /\ auth'[d] = auth[d]
         /\ IF refs[c] > 1
              THEN /\ refs'[c] = refs[c] - 1 /\ session'[c] = session[c]
                   /\ ver'[c] = ver[c] /\ auth'[c] = auth[c]
              ELSE refs'[c] = 0 /\ session'[c] = "none"
BY DEF TypeOK, Release, EndSession

LEMMA EmptiedStep ==
  ASSUME TypeOK, Uses, LockNotOrphaned, Counted, Emptied, [Next]_vars
  PROVE  Emptied'
<1> USE NameAssumption DEF registry, clients, history, Emptied, LockNotOrphaned, TypeOK, Workers, GoTo
<1>1. ASSUME NEW h \in Callers, Begin(h) \/ Retry(h)
      PROVE  Emptied'
  BY <1>1 DEF Begin, Retry
<1>2. ASSUME NEW h \in Callers, WarmHit(h)
      PROVE  Emptied'
  BY <1>2 DEF WarmHit
<1>3. ASSUME NEW h \in Callers, DropStale(h)
      PROVE  Emptied'
  <2>1. pool \in Clients /\ (refs[pool] > 1 \/ refs'[pool] = 0)
    BY <1>3, Released DEF DropStale
  <2>2. \A g \in Callers : pc[g] \notin {"teardown", "mint", "connect"}
    BY <1>3 DEF DropStale
  <2> QED BY <1>3, <2>1, <2>2 DEF DropStale
<1>4. ASSUME NEW h \in Callers, TornDown(h) \/ NoneYet(h)
      PROVE  Emptied'
  BY <1>4 DEF TornDown, NoneYet
<1>5. ASSUME NEW h \in Callers, Mint(h)
      PROVE  Emptied'
  BY <1>5 DEF Mint
<1>6. ASSUME NEW h \in Callers, MintFails(h)
      PROVE  Emptied'
  BY <1>6 DEF MintFails, Over, Finish
<1>7. ASSUME NEW h \in Callers, Connect(h)
      PROVE  Emptied'
  <2>1. \A g \in Callers \ {h} : pc[g] \notin {"teardown", "mint", "connect"}
    BY <1>7 DEF Connect
  <2> QED BY <1>7, <2>1 DEF Connect
<1>8. ASSUME NEW c \in Clients, Release(c), refs[pool] = 0, pool \in Clients PROVE refs'[pool] = 0
  BY <1>8, Released
<1>9. ASSUME NEW h \in Callers, Answer(h)
      PROVE  Emptied'
  <2>1. using[h] \in Clients
    BY <1>9 DEF Answer, Uses
  <2> QED BY <1>8, <1>9, <2>1 DEF Answer, Finish
<1>10. ASSUME NEW h \in Callers, Abort(h)
      PROVE  Emptied'
  <2>1. pc[h] = "call" => using[h] \in Clients
    BY <1>10 DEF Abort, Uses
  <2> QED BY <1>8, <1>10, <2>1 DEF Abort
<1>11. ASSUME NEW x \in Workers, Evict(x)
      PROVE  Emptied'
  BY <1>11 DEF Evict, Evicted, Over, Finish
<1>12. ASSUME NEW x \in Workers, Close(x)
      PROVE  Emptied'
  <2>1. using[x] \in Clients
    BY <1>12 DEF Close, Uses
  <2> QED BY <1>8, <1>12, <2>1 DEF Close, Evicted, Over, Finish
<1>13. ASSUME NEW m \in Managers, Mount(m) \/ Unmount(m) \/ Refresh(m) \/ Invalidate(m)
       PROVE  Emptied'
  BY <1>13 DEF Mount, Unmount, Refresh, Invalidate
<1>14. ASSUME Age \/ \E c \in Clients : Drop(c)
       PROVE  Emptied'
  BY <1>14 DEF Age, Drop
<1>15. ASSUME UNCHANGED vars
       PROVE  Emptied'
  BY <1>15 DEF vars
<1> QED
  BY <1>1, <1>2, <1>3, <1>4, <1>5, <1>6, <1>7, <1>9, <1>10, <1>11, <1>12, <1>13, <1>14, <1>15 DEF Next

\* What one worker can change in the number of a client's holders.
LEMMA HeldBy ==
  ASSUME NEW x \in Workers, NEW c \in Clients, IsFiniteSet(Holders(c)),
         \A y \in Workers \ {x} : pc'[y] = pc[y] /\ using'[y] = using[y]
  PROVE  /\ IsFiniteSet(Holders(c)')
         /\ Cardinality(Holders(c)) \in Nat /\ Cardinality(Holders(c)') \in Nat
         /\ (x \in Holders(c) /\ x \notin Holders(c)')
              => Cardinality(Holders(c)) = Cardinality(Holders(c)') + 1
         /\ (x \notin Holders(c) /\ x \in Holders(c)')
              => Cardinality(Holders(c)') = Cardinality(Holders(c)) + 1
         /\ (x \in Holders(c) <=> x \in Holders(c)')
              => Cardinality(Holders(c)') = Cardinality(Holders(c))
         /\ Cardinality(Holders(c)) = 0 <=> Holders(c) = {}
         /\ Cardinality(Holders(c)') = 0 <=> Holders(c)' = {}
<1> DEFINE H == Holders(c)
           K == Holders(c)'
<1>1. H \ {x} = K \ {x}
  BY DEF Holders
<1>2. IsFiniteSet(H)
  OBVIOUS
<1>3. x \notin K \/ K = (H \ {x}) \cup {x}
  BY <1>1
<1>4. x \in K \/ K = H \ {x}
  BY <1>1
<1> HIDE DEF H, K
<1>5. IsFiniteSet(H \ {x})
  BY <1>2, FS_RemoveElement
<1>6. IsFiniteSet(K)
  <2>1. IsFiniteSet((H \ {x}) \cup {x})
    BY <1>5, FS_AddElement
  <2> QED BY <1>3, <1>4, <1>5, <2>1, Zenon
<1>7. Cardinality(H) \in Nat /\ Cardinality(K) \in Nat
  BY <1>2, <1>6, FS_CardinalityType
<1>8. Cardinality(H) = 0 <=> H = {}
  BY <1>2, FS_EmptySet
<1>9. Cardinality(K) = 0 <=> K = {}
  BY <1>6, FS_EmptySet
<1>10. ASSUME x \in H, x \notin K PROVE Cardinality(H) = Cardinality(K) + 1
  <2>1. Cardinality(H \ {x}) = Cardinality(H) - 1
    BY <1>2, <1>10, FS_RemoveElement
  <2> QED BY <2>1, <1>4, <1>7, <1>10
<1>11. ASSUME x \notin H, x \in K PROVE Cardinality(K) = Cardinality(H) + 1
  <2>1. Cardinality(K \ {x}) = Cardinality(K) - 1
    BY <1>6, <1>11, FS_RemoveElement
  <2>2. K \ {x} = H
    BY <1>1, <1>11
  <2>3. Cardinality(H) = Cardinality(K) - 1
    BY <2>1, <2>2, Zenon
  <2> QED BY <2>3, <1>7
<1>12. ASSUME x \in H <=> x \in K PROVE H = K
  BY <1>1, <1>12
<1> QED
  BY <1>6, <1>7, <1>8, <1>9, <1>10, <1>11, <1>12 DEF H, K

\* A step that moves no reference leaves the count as it was.
LEMMA Uncounted ==
  ASSUME Counted, refs' = refs,
         \A c \in Clients : session'[c] = "none" <=> session[c] = "none",
         \A x \in Workers : pc[x] \in {"call", "close"} \/ pc'[x] \in {"call", "close"}
                              => pc'[x] = pc[x] /\ using'[x] = using[x],
         pool' = pool \/ \A c \in Clients : c \in {pool, pool'} => refs[c] = 0
  PROVE  Counted'
<1> SUFFICES ASSUME NEW c \in Clients PROVE CountedAt(c)'
  BY DEF Counted
<1>1. Holders(c)' = Holders(c)
  BY DEF Holders
<1>2. CountedAt(c)
  BY DEF Counted
<1>3. refs[c] = 0 \/ Base(c)' = Base(c)
  BY DEF Base
<1>4. \A h \in Callers : pc'[h] = "call" /\ using'[h] = c => pc[h] = "call" /\ using[h] = c
  BY DEF Workers
<1> QED
  BY <1>1, <1>2, <1>3, <1>4 DEF CountedAt

\* A holder that leaves gives back its own reference and no other.
LEMMA GivenBack ==
  ASSUME TypeOK, Counted, pool' = pool, NEW d \in Clients, Release(d),
         NEW x \in Workers, x \in Holders(d), using'[x] = NoClient,
         \A y \in Workers \ {x} : pc'[y] = pc[y] /\ using'[y] = using[y]
  PROVE  Counted'
<1> USE NameAssumption
<1> SUFFICES ASSUME NEW c \in Clients PROVE CountedAt(c)'
  BY DEF Counted
<1>1. CountedAt(c) /\ refs[c] \in Nat
  BY DEF Counted, TypeOK
<1>2. Base(c)' = Base(c) /\ Base(c) \in {0, 1}
  BY DEF Base
<1>3. x \notin Holders(c)' /\ (x \in Holders(c) <=> c = d)
  BY DEF Holders
<1>4. \A h \in Callers : pc'[h] = "call" /\ using'[h] = c => pc[h] = "call" /\ using[h] = c
  BY DEF Workers
<1>5. CASE c # d
  <2>1. refs'[c] = refs[c] /\ session'[c] = session[c]
    BY <1>5, Released
  <2>2. Cardinality(Holders(c)') = Cardinality(Holders(c)) /\ IsFiniteSet(Holders(c)')
    BY <1>1, <1>3, <1>5, HeldBy DEF CountedAt
  <2> QED BY <1>1, <1>2, <1>4, <2>1, <2>2 DEF CountedAt
<1>6. CASE c = d
  <2>1. /\ Cardinality(Holders(c)) = Cardinality(Holders(c)') + 1
        /\ IsFiniteSet(Holders(c)') /\ Cardinality(Holders(c)') \in Nat
        /\ Cardinality(Holders(c)') = 0 <=> Holders(c)' = {}
    BY <1>1, <1>3, <1>6, HeldBy DEF CountedAt
  <2>2. CASE refs[c] > 1
    <3>1. refs'[c] = refs[c] - 1 /\ session'[c] = session[c]
      BY <1>6, <2>2, Released
    <3> QED BY <1>1, <1>2, <2>1, <2>2, <3>1 DEF CountedAt
  <2>3. CASE ~(refs[c] > 1)
    <3>1. refs'[c] = 0 /\ session'[c] = "none"
      BY <1>6, <2>3, Released
    <3>2. ASSUME NEW h \in Callers, pc'[h] = "call", using'[h] = c PROVE FALSE
      <4>1. refs[c] = 1
        BY <1>1, <1>4, <2>3, <3>2 DEF CountedAt
      <4>2. Holders(c)' = {}
        BY <1>1, <1>2, <2>1, <4>1 DEF CountedAt
      <4> QED BY <3>2, <4>2 DEF Holders, Workers
    <3> QED BY <2>1, <3>1, <3>2 DEF CountedAt
  <2> QED BY <2>2, <2>3
<1> QED
  BY <1>5, <1>6

\* FastMCP's references are exactly those of the pool and of the holders, in every
\* step of a call, an eviction or a change.
LEMMA CountedStep ==
  ASSUME TypeOK, Uses, Emptied, LockNotOrphaned, Counted, [Next]_vars
  PROVE  Counted'
<1> USE NameAssumption DEF registry, clients, history, Workers
<1> DEFINE Left(x) == \A y \in Workers \ {x} : pc'[y] = pc[y] /\ using'[y] = using[y]
<1>1. ASSUME NEW h \in Callers, Begin(h) \/ Retry(h) \/ NoneYet(h) \/ Mint(h)
      PROVE  Counted'
  BY <1>1, Uncounted DEF TypeOK, Begin, Retry, NoneYet, Mint, GoTo
<1>2. ASSUME NEW h \in Callers, TornDown(h)
      PROVE  Counted'
  BY <1>2, Uncounted DEF TypeOK, TornDown, GoTo, Emptied
<1>3. ASSUME NEW h \in Callers, MintFails(h)
      PROVE  Counted'
  BY <1>3, Uncounted DEF TypeOK, MintFails, Over, Finish, GoTo
<1>4. ASSUME NEW h \in Callers, WarmHit(h)
      PROVE  Counted'
  <2> SUFFICES ASSUME NEW c \in Clients PROVE CountedAt(c)'
    BY DEF Counted
  <2>1. CountedAt(c) /\ refs[c] \in Nat
    BY DEF Counted, TypeOK
  <2>2. Left(h)
    BY <1>4 DEF WarmHit, GoTo, TypeOK
  <2>3. h \notin Holders(c) /\ (h \in Holders(c)' <=> c = pool)
    BY <1>4 DEF WarmHit, Warm, GoTo, Holders, TypeOK
  <2>4. Base(c)' = Base(c) /\ Base(c) \in {0, 1} /\ session'[c] = session[c]
    BY <1>4 DEF WarmHit, Base
  <2>5. refs'[c] = IF c = pool THEN refs[c] + 1 ELSE refs[c]
    BY <1>4 DEF WarmHit, Warm, TypeOK
  <2>6. CASE c = pool
    <3>1. refs[c] > 0
      BY <1>4, <2>1, <2>6 DEF WarmHit, Warm, CountedAt
    <3>2. Cardinality(Holders(c)') = Cardinality(Holders(c)) + 1 /\ IsFiniteSet(Holders(c)')
          /\ Cardinality(Holders(c)) \in Nat
      BY <2>1, <2>2, <2>3, <2>6, HeldBy DEF CountedAt
    <3> QED BY <2>1, <2>4, <2>5, <2>6, <3>1, <3>2 DEF CountedAt
  <2>7. CASE c # pool
    <3>1. Cardinality(Holders(c)') = Cardinality(Holders(c)) /\ IsFiniteSet(Holders(c)')
      BY <2>1, <2>2, <2>3, <2>7, HeldBy DEF CountedAt
    <3>2. \A g \in Callers : pc'[g] = "call" /\ using'[g] = c => pc[g] = "call" /\ using[g] = c
      BY <1>4, <2>7 DEF WarmHit, GoTo, TypeOK
    <3> QED BY <2>1, <2>4, <2>5, <2>7, <3>1, <3>2 DEF CountedAt
  <2> QED BY <2>6, <2>7
<1>5. ASSUME NEW h \in Callers, DropStale(h)
      PROVE  Counted'
  <2> SUFFICES ASSUME NEW c \in Clients PROVE CountedAt(c)'
    BY DEF Counted
  <2>1. CountedAt(c) /\ refs[c] \in Nat /\ pool \in Clients /\ Release(pool)
    BY <1>5 DEF Counted, TypeOK, DropStale
  <2>2. Holders(c)' = Holders(c)
    BY <1>5 DEF DropStale, GoTo, Holders, TypeOK
  <2>3. \A g \in Callers : pc'[g] = "call" /\ using'[g] = c => g \in Holders(c)
    BY <2>2 DEF Holders
  <2>4. Cardinality(Holders(c)) \in Nat /\ (Cardinality(Holders(c)) = 0 <=> Holders(c) = {})
    BY <2>1, FS_CardinalityType, FS_EmptySet DEF CountedAt
  <2>5. \A g \in Callers : pc'[g] = "call" => pc[g] = "call" /\ using'[g] = using[g]
    BY <1>5 DEF DropStale, GoTo, TypeOK
  <2>6. CASE c # pool
    <3>1. refs'[c] = refs[c] /\ session'[c] = session[c]
      BY <2>1, <2>6, Released
    <3>2. Base(c)' = Base(c)
      BY <1>5, <2>6 DEF DropStale, Base
    <3> QED BY <2>1, <2>2, <2>5, <3>1, <3>2 DEF CountedAt
  <2>7. CASE c = pool /\ refs[pool] > 1
    <3>1. refs'[c] = refs[c] - 1 /\ session'[c] = session[c]
      BY <2>1, <2>7, Released
    <3>2. Base(c)' = 0 /\ Base(c) = 1
      BY <1>5, <2>7 DEF DropStale, Base
    <3> QED BY <2>1, <2>2, <2>4, <2>7, <3>1, <3>2 DEF CountedAt
  <2>8. CASE c = pool /\ ~(refs[pool] > 1)
    <3>1. refs'[c] = 0 /\ session'[c] = "none"
      BY <2>1, <2>8, Released
    <3>2. Base(c) = 1
      BY <2>8 DEF Base
    <3>3. refs[c] = 0 \/ Holders(c) = {}
      BY <2>1, <2>4, <2>8, <3>2 DEF CountedAt
    <3> QED BY <2>1, <2>2, <2>3, <2>5, <3>1, <3>3 DEF CountedAt
  <2> QED BY <2>6, <2>7, <2>8
<1>6. ASSUME NEW h \in Callers, Connect(h)
      PROVE  Counted'
  <2> SUFFICES ASSUME NEW c \in Clients PROVE CountedAt(c)'
    BY DEF Counted
  <2>1. PICK d \in Clients : /\ Free(d) /\ pool' = d /\ using' = [using EXCEPT ![h] = d]
                             /\ refs' = [refs EXCEPT ![d] = 2] /\ pc[h] = "connect"
                             /\ session' = [session EXCEPT ![d] = "up"] /\ GoTo(h, "call")
    BY <1>6 DEF Connect
  <2>2. CountedAt(c) /\ refs[c] \in Nat /\ pool = NoClient
    BY <2>1 DEF Counted, TypeOK, Emptied
  <2>3. Left(h)
    BY <2>1 DEF GoTo, TypeOK
  <2>4. h \notin Holders(c) /\ (h \in Holders(c)' <=> c = d)
    BY <2>1 DEF GoTo, Holders, TypeOK
  <2>5. Base(c)' = (IF c = d THEN 1 ELSE 0) /\ Base(c) = 0
    BY <2>1, <2>2 DEF Base
  <2>6. CASE c = d
    <3>1. Holders(c) = {}
      BY <2>1, <2>6 DEF Free, Holders
    <3>2. Cardinality(Holders(c)') = 1 /\ IsFiniteSet(Holders(c)')
      <4>1. Cardinality(Holders(c)) = 0
        BY <3>1, FS_EmptySet, Zenon
      <4>2. /\ IsFiniteSet(Holders(c)')
            /\ Cardinality(Holders(c)') = Cardinality(Holders(c)) + 1
        BY <2>2, <2>3, <2>4, <2>6, HeldBy DEF CountedAt
      <4> QED BY <4>1, <4>2
    <3>3. refs'[c] = 2 /\ session'[c] = "up"
      BY <2>1, <2>6 DEF TypeOK
    <3> QED BY <2>5, <2>6, <3>2, <3>3 DEF CountedAt
  <2>7. CASE c # d
    <3>1. Cardinality(Holders(c)') = Cardinality(Holders(c)) /\ IsFiniteSet(Holders(c)')
      BY <2>2, <2>3, <2>4, <2>7, HeldBy DEF CountedAt
    <3>2. \A g \in Callers : pc'[g] = "call" /\ using'[g] = c => pc[g] = "call" /\ using[g] = c
      BY <2>1, <2>7 DEF GoTo, TypeOK
    <3>3. refs'[c] = refs[c] /\ session'[c] = session[c]
      BY <2>1, <2>7 DEF TypeOK
    <3> QED BY <2>2, <2>5, <2>7, <3>1, <3>2, <3>3 DEF CountedAt
  <2> QED BY <2>6, <2>7
<1>7. ASSUME NEW h \in Callers, Answer(h)
      PROVE  Counted'
  <2>1. /\ Release(using[h]) /\ pool' = pool /\ using[h] \in Clients
        /\ h \in Holders(using[h])
    BY <1>7 DEF Answer, Uses, TypeOK, Holders
  <2>2. Left(h) /\ using'[h] = NoClient
    BY <1>7 DEF Answer, Finish, GoTo, TypeOK
  <2> QED BY <2>1, <2>2, GivenBack
<1>8. ASSUME NEW h \in Callers, Abort(h)
      PROVE  Counted'
  <2>1. Left(h) /\ using'[h] = NoClient /\ pool' = pool
    BY <1>8 DEF Abort, GoTo, TypeOK
  <2>2. CASE pc[h] = "call"
    <3>1. Release(using[h]) /\ using[h] \in Clients /\ h \in Holders(using[h])
      BY <1>8, <2>2 DEF Abort, Uses, TypeOK, Holders
    <3> QED BY <2>1, <3>1, GivenBack
  <2>3. CASE pc[h] # "call"
    <3>1. refs' = refs /\ session' = session /\ pc[h] \notin {"call", "close"} /\ pc'[h] = "evict"
      BY <1>8, <2>3 DEF Abort, GoTo, TypeOK
    <3> QED BY <2>1, <3>1, Uncounted
  <2> QED BY <2>2, <2>3
<1>9. ASSUME NEW x \in Workers, Evict(x), pool = NoClient
      PROVE  Counted'
  <2>1. refs' = refs /\ session' = session /\ pool' = pool /\ using' = using /\ pc[x] = "evict"
    BY <1>9 DEF Evict
  <2>2. pc'[x] \in {"sleep", "idle", "invalidate"} /\ Left(x)
    BY <1>9 DEF Evict, Evicted, Over, Finish, GoTo, TypeOK
  <2> QED BY <2>1, <2>2, Uncounted
<1>10. ASSUME NEW x \in Workers, Evict(x), pool # NoClient
       PROVE  Counted'
  <2> SUFFICES ASSUME NEW c \in Clients PROVE CountedAt(c)'
    BY DEF Counted
  <2>1. /\ refs' = refs /\ session' = session /\ pool' = NoClient /\ pc[x] = "evict"
        /\ using' = [using EXCEPT ![x] = pool] /\ GoTo(x, "close")
    BY <1>10 DEF Evict
  <2>2. CountedAt(c) /\ refs[c] \in Nat
    BY DEF Counted, TypeOK
  <2>3. Left(x) /\ pc'[x] = "close" /\ using'[x] = pool
    BY <2>1 DEF GoTo, TypeOK
  <2>4. x \notin Holders(c) /\ (x \in Holders(c)' <=> c = pool)
    BY <2>1, <2>3 DEF Holders
  <2>5. \A g \in Callers : pc'[g] = "call" /\ using'[g] = c => pc[g] = "call" /\ using[g] = c
    BY <2>3
  <2>6. Base(c)' = 0 /\ Base(c) = (IF c = pool THEN 1 ELSE 0)
    BY <2>1 DEF Base
  <2>7. /\ IsFiniteSet(Holders(c)') /\ Cardinality(Holders(c)) \in Nat
        /\ Cardinality(Holders(c)') = Cardinality(Holders(c)) + (IF c = pool THEN 1 ELSE 0)
    BY <2>2, <2>3, <2>4, HeldBy DEF CountedAt
  <2> QED BY <2>1, <2>2, <2>5, <2>6, <2>7 DEF CountedAt
<1>11. ASSUME NEW x \in Workers, Close(x)
       PROVE  Counted'
  <2>1. Release(using[x]) /\ pool' = pool /\ using[x] \in Clients /\ x \in Holders(using[x])
    BY <1>11 DEF Close, Uses, TypeOK, Holders
  <2>2. Left(x) /\ using'[x] = NoClient
    BY <1>11 DEF Close, Evicted, Over, Finish, GoTo, TypeOK
  <2> QED BY <2>1, <2>2, GivenBack
<1>12. ASSUME NEW m \in Managers, Mount(m) \/ Unmount(m) \/ Refresh(m) \/ Invalidate(m)
       PROVE  Counted'
  <2>1. refs' = refs /\ session' = session /\ pool' = pool /\ using' = using
    BY <1>12 DEF Mount, Unmount, Refresh, Invalidate
  <2>2. pc[m] \notin {"call", "close"} /\ pc'[m] \notin {"call", "close"} /\ Left(m)
    BY <1>12, <2>1 DEF Mount, Unmount, Refresh, Invalidate, GoTo, TypeOK
  <2> QED BY <2>1, <2>2, Uncounted
<1>13. ASSUME Age
       PROVE  Counted'
  BY <1>13, Uncounted DEF Age
<1>14. ASSUME NEW c \in Clients, Drop(c)
       PROVE  Counted'
  BY <1>14, Uncounted DEF Drop, TypeOK
<1>15. ASSUME UNCHANGED vars
       PROVE  Counted'
  BY <1>15, Uncounted DEF vars
<1> QED
  BY <1>1, <1>2, <1>3, <1>4, <1>5, <1>6, <1>7, <1>8, <1>9, <1>10, <1>11, <1>12, <1>13, <1>14, <1>15
  DEF Next

-----------------------------------------------------------------------------
(* The changes                                                             *)

\* Who evicts leaves the pool empty.
LEMMA EvictEmpties ==
  ASSUME NEW x \in Workers, Evict(x)
  PROVE  pool' = NoClient
BY DEF Evict

\* A reference given back never revives a session, and the pooled client keeps its
\* target and its credential while it has one.
LEMMA PoolKept ==
  ASSUME TypeOK, NEW c \in Clients, Release(c), pool' = pool, PooledSession'
  PROVE  PooledSession /\ ver'[pool] = ver[pool] /\ auth'[pool] = auth[pool]
<1> USE NameAssumption
<1>1. pool \in Clients /\ refs'[pool] > 0
  BY DEF PooledSession, TypeOK
<1>2. refs[pool] \in Nat /\ refs[c] \in Nat
  BY <1>1 DEF TypeOK
<1>3. CASE pool # c
  BY <1>1, <1>3, Released DEF PooledSession
<1>4. CASE pool = c
  BY <1>1, <1>2, <1>4, Released DEF PooledSession
<1> QED
  BY <1>3, <1>4

\* A usable pooled client has references.
LEMMA CountedIsUp ==
  ASSUME TypeOK, Counted, Warm
  PROVE  PooledSession
<1>1. pool \in Clients /\ refs[pool] \in Nat /\ session[pool] # "none"
  BY DEF TypeOK, Warm
<1> QED
  BY <1>1 DEF Counted, CountedAt, PooledSession, Warm

\* Calls know the server of today unless one straddled its change; the pool does too.
LEMMA CurrentStep ==
  ASSUME TypeOK, Uses, Counted, Current, [Next]_vars
  PROVE  Current'
<1> USE NameAssumption DEF registry, clients, history, Current, TypeOK, Workers, GoTo
<1>1. ASSUME NEW h \in Callers, Begin(h) \/ Retry(h) \/ NoneYet(h) \/ Mint(h)
      PROVE  Current'
  BY <1>1 DEF Begin, Retry, NoneYet, Mint, PooledSession
<1>2. ASSUME NEW h \in Callers, WarmHit(h)
      PROVE  Current'
  <2>1. PooledSession' => PooledSession
    BY <1>2, CountedIsUp DEF WarmHit, Warm, PooledSession
  <2> QED BY <1>2, <2>1 DEF WarmHit
<1>3. ASSUME NEW h \in Callers, DropStale(h)
      PROVE  Current'
  <2>1. PooledSession' => PooledSession /\ ver'[pool'] = ver[pool]
    BY <1>3, PoolKept DEF DropStale, PooledSession
  <2> QED BY <1>3, <2>1 DEF DropStale
<1>4. ASSUME NEW h \in Callers, TornDown(h)
      PROVE  Current'
  BY <1>4 DEF TornDown, PooledSession
<1>5. ASSUME NEW h \in Callers, MintFails(h)
      PROVE  Current'
  BY <1>5 DEF MintFails, Over, Finish, PooledSession
<1>6. ASSUME NEW h \in Callers, Connect(h)
      PROVE  Current'
  <2>1. ver'[pool'] = srv[h] /\ pool' \in Clients
    BY <1>6 DEF Connect
  <2> QED BY <1>6, <2>1 DEF Connect
<1>7. ASSUME NEW h \in Callers, Answer(h)
      PROVE  Current'
  <2>1. using[h] \in Clients /\ Release(using[h]) /\ pool' = pool
    BY <1>7 DEF Answer, Uses
  <2>2. PooledSession' => PooledSession /\ ver'[pool'] = ver[pool]
    BY <2>1, PoolKept
  <2> QED BY <1>7, <2>2 DEF Answer, Finish
<1>8. ASSUME NEW h \in Callers, Abort(h)
      PROVE  Current'
  <2>1. pc[h] = "call" => using[h] \in Clients /\ Release(using[h]) /\ pool' = pool
    BY <1>8 DEF Abort, Uses
  <2>2. PooledSession' => PooledSession /\ ver'[pool'] = ver[pool]
    BY <1>8, <2>1, PoolKept DEF Abort, PooledSession
  <2> QED BY <1>8, <2>2 DEF Abort
<1>9. ASSUME NEW x \in Workers, Evict(x)
      PROVE  Current'
  <2>1. ~PooledSession'
    BY <1>9, EvictEmpties DEF PooledSession
  <2> QED BY <1>9, <2>1 DEF Evict, Evicted, Over, Finish
<1>10. ASSUME NEW x \in Workers, Close(x)
      PROVE  Current'
  <2>1. using[x] \in Clients /\ Release(using[x]) /\ pool' = pool
    BY <1>10 DEF Close, Uses
  <2>2. PooledSession' => PooledSession /\ ver'[pool'] = ver[pool]
    BY <2>1, PoolKept
  <2>3. \A m \in Managers : pc[m] = "evict" => pc'[m] = "evict"
    BY <1>10 DEF Close, Evicted, Over, Finish
  <2> QED BY <1>10, <2>2, <2>3 DEF Close, Evicted, Over, Finish
<1>11. ASSUME NEW m \in Managers, Mount(m) \/ Unmount(m)
       PROVE  Current'
  <2>1. pc'[m] = "evict" /\ (straddled' = Busy) /\ overlapped' = Busy
    BY <1>11 DEF Mount, Unmount
  <2>2. \A h \in Callers : pc'[h] = pc[h]
    BY <1>11 DEF Mount, Unmount
  <2> QED BY <2>1, <2>2 DEF Busy
<1>12. ASSUME NEW m \in Managers, Refresh(m) \/ Invalidate(m)
       PROVE  Current'
  <2>1. CASE Refresh(m)
    BY <2>1 DEF Refresh, Busy
  <2>2. CASE Invalidate(m)
    <3>1. UNCHANGED <<pool, ver, refs, straddled, overlapped, srv, server>>
      BY <2>2 DEF Invalidate, clients, registry, history
    <3>2. /\ \A h \in Callers : pc'[h] = pc[h]
          /\ \A x \in Managers : pc[x] = "evict" => pc'[x] = "evict"
      BY <2>2 DEF Invalidate
    <3>3. PooledSession' <=> PooledSession
      BY <3>1 DEF PooledSession
    <3>4. pc'[m] = "idle" /\ pc[m] # "evict" /\ \A x \in Managers \ {m} : pc'[x] = pc[x]
      BY <2>2 DEF Invalidate
    <3>5. (\A x \in Managers : pc'[x] # "evict") => \A x \in Managers : pc[x] # "evict"
      BY <3>4
    <3>6. ~(straddled /\ overlapped) => \A h \in Callers : pc'[h] # "idle" => srv[h] = server
      BY <3>2
    <3>7. ~straddled /\ (\A x \in Managers : pc'[x] # "evict") /\ PooledSession' => ver[pool] = server
      BY <3>3, <3>5
    <3> QED BY <3>1, <3>6, <3>7
  <2> QED BY <1>12, <2>1, <2>2
<1>13. ASSUME Age \/ \E c \in Clients : Drop(c)
       PROVE  Current'
  BY <1>13 DEF Age, Drop, PooledSession
<1>14. ASSUME UNCHANGED vars
       PROVE  Current'
  BY <1>14 DEF vars, PooledSession
<1> QED
  BY <1>1, <1>2, <1>3, <1>4, <1>5, <1>6, <1>7, <1>8, <1>9, <1>10, <1>11, <1>12, <1>13, <1>14 DEF Next

\* Nothing from before the last change is left, unless a call overlapped it.
LEMMA NotBeforeStep ==
  ASSUME TypeOK, Uses, Counted, Current, NotBefore, [Next]_vars
  PROVE  NotBefore'
<1> USE NameAssumption DEF registry, clients, history, NotBefore, TypeOK, Workers, GoTo
<1> DEFINE Changing == \E m \in Managers : pc[m] # "idle"
<1>1. ASSUME NEW h \in Callers, Begin(h)
      PROVE  NotBefore'
  BY <1>1 DEF Begin, PooledSession
<1>2. ASSUME NEW h \in Callers, Retry(h) \/ NoneYet(h) \/ TornDown(h)
      PROVE  NotBefore'
  BY <1>2 DEF Retry, NoneYet, TornDown, PooledSession
<1>3. ASSUME NEW h \in Callers, WarmHit(h)
      PROVE  NotBefore'
  <2>1. PooledSession
    BY <1>3, CountedIsUp DEF WarmHit
  <2> QED BY <1>3, <2>1 DEF WarmHit
<1>4. ASSUME NEW h \in Callers, DropStale(h)
      PROVE  NotBefore'
  <2>1. PooledSession' => PooledSession /\ auth'[pool'] = auth[pool]
    BY <1>4, PoolKept DEF DropStale, PooledSession
  <2> QED BY <1>4, <2>1 DEF DropStale
<1>5. ASSUME NEW h \in Callers, pc[h] # "idle", ~overlapped
      PROVE  ~Changing /\ Minted(h) # "before"
  <2>1. srv[h] = server
    BY <1>5 DEF Current
  <2> QED BY <1>5, <2>1 DEF Minted
<1>6. ASSUME NEW h \in Callers, Mint(h)
      PROVE  NotBefore'
  BY <1>5, <1>6 DEF Mint, PooledSession
<1>7. ASSUME NEW h \in Callers, MintFails(h)
      PROVE  NotBefore'
  BY <1>5, <1>7 DEF MintFails, Over, Finish, PooledSession
<1>8. ASSUME NEW h \in Callers, Connect(h)
      PROVE  NotBefore'
  <2>1. auth'[pool'] = cred[h]
    BY <1>8 DEF Connect
  <2> QED BY <1>5, <1>8, <2>1 DEF Connect
<1>9. ASSUME NEW h \in Callers, Answer(h)
      PROVE  NotBefore'
  <2>1. using[h] \in Clients /\ Release(using[h]) /\ pool' = pool
    BY <1>9 DEF Answer, Uses
  <2>2. PooledSession' => PooledSession /\ auth'[pool'] = auth[pool]
    BY <2>1, PoolKept
  <2> QED BY <1>5, <1>9, <2>2 DEF Answer, Finish
<1>10. ASSUME NEW h \in Callers, Abort(h)
       PROVE  NotBefore'
  <2>1. pc[h] = "call" => using[h] \in Clients /\ Release(using[h]) /\ pool' = pool
    BY <1>10 DEF Abort, Uses
  <2>2. PooledSession' => PooledSession /\ auth'[pool'] = auth[pool]
    BY <1>10, <2>1, PoolKept DEF Abort, PooledSession
  <2> QED BY <1>5, <1>10, <2>2 DEF Abort
<1>11. ASSUME NEW x \in Workers, Evict(x) \/ Close(x)
       PROVE  NotBefore'
  <2>1. overlapped' = overlapped /\ cached' = cached /\ cred' = cred
    BY <1>11 DEF Evict, Close
  <2>2. \A y \in Workers \ {x} : pc'[y] = pc[y]
    BY <1>11 DEF Evict, Close, Evicted, Over, Finish
  <2>3. CASE x \in Callers
    <3>1. ~overlapped => ~Changing
      BY <1>5, <1>11, <2>3 DEF Evict, Close
    <3>2. ~overlapped => ~Changing'
      BY <2>2, <2>3, <3>1
    <3>3. PooledSession' => PooledSession /\ auth'[pool'] = auth[pool]
      <4>1. CASE Evict(x)
        BY <4>1, EvictEmpties DEF PooledSession
      <4>2. CASE Close(x)
        <5>1. using[x] \in Clients /\ Release(using[x]) /\ pool' = pool
          BY <4>2 DEF Close, Uses
        <5> QED BY <5>1, PoolKept
      <4> QED BY <1>11, <4>1, <4>2
    <3> QED BY <2>1, <3>1, <3>2, <3>3
  <2>4. CASE x \in Managers
    <3>1. pc[x] # "idle" /\ pc'[x] # "idle"
      BY <1>11, <2>4 DEF Evict, Close, Evicted
    <3>2. (\A m \in Managers : pc'[m] # "evict")
            => \/ pool' = NoClient
               \/ pool' = pool /\ (\A m \in Managers : pc[m] # "evict")
      <4>1. CASE Evict(x)
        <5>1. pool' = NoClient
          BY <4>1, EvictEmpties
        <5> QED BY <5>1
      <4>2. CASE Close(x)
        <5>1. pool' = pool /\ pc[x] = "close"
          BY <4>2 DEF Close
        <5> QED BY <2>2, <5>1
      <4> QED BY <1>11, <4>1, <4>2
    <3> QED BY <2>1, <2>2, <2>4, <3>1, <3>2
  <2> QED BY <2>3, <2>4
<1>12. ASSUME NEW m \in Managers, Mount(m) \/ Unmount(m) \/ Refresh(m)
       PROVE  NotBefore'
  <2>1. pc'[m] = "evict" /\ overlapped' = Busy
    BY <1>12 DEF Mount, Unmount, Refresh
  <2>2. \A h \in Callers : pc'[h] = pc[h]
    BY <1>12 DEF Mount, Unmount, Refresh
  <2> QED BY <2>1, <2>2 DEF Busy
<1>13. ASSUME NEW m \in Managers, Invalidate(m)
       PROVE  NotBefore'
  <2>1. /\ pc[m] = "invalidate" /\ cached' # "before" /\ overlapped' = overlapped
        /\ pool' = pool /\ cred' = cred
    BY <1>13 DEF Invalidate
  <2>2. pc'[m] = "idle" /\ \A y \in Workers \ {m} : pc'[y] = pc[y]
    BY <1>13 DEF Invalidate
  <2>3. ASSUME ~overlapped PROVE \A h \in Callers : pc'[h] = "idle" /\ cred'[h] # "before"
    BY <2>1, <2>2, <2>3 DEF Uses
  <2>4. ASSUME ~overlapped, \A y \in Managers : pc'[y] # "evict" PROVE pool' = NoClient
    BY <2>1, <2>2, <2>4
  <2> QED BY <2>1, <2>3, <2>4 DEF PooledSession
<1>14. ASSUME Age
       PROVE  NotBefore'
  <2>1. pool \in Clients => auth'[pool] = "none"
    BY <1>14 DEF Age
  <2> QED BY <1>14, <2>1 DEF Age, PooledSession
<1>15. ASSUME NEW c \in Clients, Drop(c)
       PROVE  NotBefore'
  BY <1>15 DEF Drop, PooledSession
<1>16. ASSUME UNCHANGED vars
       PROVE  NotBefore'
  BY <1>16 DEF vars, PooledSession
<1> QED
  BY <1>1, <1>2, <1>3, <1>4, <1>6, <1>7, <1>8, <1>9, <1>10, <1>11, <1>12, <1>13, <1>14, <1>15, <1>16
  DEF Next
-----------------------------------------------------------------------------

\* The state of _servers, of the pool, of the broker's cache and of every call of
\* call_tool has its type, and no call makes more attempts than allowed.
THEOREM TypeCorrect == Spec => []TypeOK
<1>1. TypeOK /\ AttemptLeft /\ [Next]_vars => TypeOK' /\ AttemptLeft'
  BY TypeStep
<1> QED
  BY InitInv, <1>1, PTL DEF Spec, Inv

\* _key_lock of a key is never left behind: in every state exactly the call that
\* is dropping, minting or connecting in _get_or_connect_client holds it.
THEOREM LockCorrect == Spec => []LockNotOrphaned
<1>1. Inv /\ [Next]_vars => Inv'
  BY TypeStep, LockStep, BadStep DEF Inv
<1>2. Inv => LockNotOrphaned
  BY DEF Inv
<1> QED
  BY InitInv, <1>1, <1>2, PTL DEF Spec

\* A client on which an attempt failed has left the pool before the call retries.
THEOREM EvictionCorrect == Spec => []FailedNotPooled
<1>1. Inv /\ [Next]_vars => Inv'
  BY TypeStep, LockStep, BadStep DEF Inv
<1>2. Inv => FailedNotPooled
  BY DEF Inv, BadGone, FailedNotPooled
<1> QED
  BY InitInv, <1>1, <1>2, PTL DEF Spec

\* At first there is no client, no call and no change.
LEMMA InitSessions == Init => SInv
<1> SUFFICES ASSUME Init PROVE SInv
  OBVIOUS
<1> USE NameAssumption DEF Init, Workers
<1>1. Inv
  BY InitInv
<1>2. Uses /\ Emptied
  BY DEF Uses, Emptied
<1>3. Counted
  <2>1. \A c \in Clients : Holders(c) = {}
    BY DEF Holders
  <2>2. IsFiniteSet({})
    BY FS_EmptySet
  <2> QED BY <2>1, <2>2 DEF Counted, CountedAt
<1>4. Current /\ NotBefore
  BY DEF Current, NotBefore, PooledSession
<1> QED
  BY <1>1, <1>2, <1>3, <1>4 DEF SInv

\* The counting of references and what calls and changes leave behind hold in every
\* state of call_tool, _evict_client, mount_or_update, unmount and the credential cache.
THEOREM SInvariance == Spec => []SInv
<1>1. SInv /\ [Next]_vars => SInv'
  BY TypeStep, LockStep, BadStep, UsesStep, EmptiedStep, CountedStep, CurrentStep,
     NotBeforeStep DEF SInv, Inv
<1> QED
  BY InitSessions, <1>1, PTL DEF Spec

\* A shared client of FastMCP has no reference that nobody will give back, and a call
\* of _call_via_client in flight has a session, whoever evicts the client, hits its
\* deadline or fails to connect meanwhile.
THEOREM SessionsCounted == Spec => []SessionHasItsUsers
<1>1. SInv => SessionHasItsUsers
  <2> SUFFICES ASSUME SInv PROVE SessionHasItsUsers
    OBVIOUS
  <2>1. TypeOK /\ Uses /\ Counted
    BY DEF SInv, Inv
  <2>2. ASSUME NEW c \in Clients
        PROVE  refs[c] <= Cardinality(Holders(c)) + IF pool = c THEN 1 ELSE 0
    <3>1. CountedAt(c) /\ refs[c] \in Nat
      BY <2>1 DEF Counted, TypeOK
    <3>2. Cardinality(Holders(c)) \in Nat
      BY <3>1, FS_CardinalityType DEF CountedAt
    <3> QED BY <3>1, <3>2 DEF CountedAt, Base
  <2>3. ASSUME NEW h \in Callers, pc[h] = "call"
        PROVE  session[using[h]] # "none"
    <3>1. using[h] \in Clients
      BY <2>1, <2>3 DEF Uses, TypeOK, Workers
    <3> QED BY <2>1, <2>3, <3>1 DEF Counted, CountedAt, TypeOK
  <2> QED BY <2>2, <2>3 DEF SessionHasItsUsers
<1> QED
  BY SInvariance, <1>1, PTL

\* After mount_or_update, unmount or refresh_server_credentials has evicted and
\* invalidated, no call that came later is served by the target or the credential of
\* before, as long as none was in flight at the change.
THEOREM ChangesAreSeen == Spec => []ChangesTakeEffect
<1>1. SInv => ChangesTakeEffect
  BY DEF SInv, Current, NotBefore, ChangesTakeEffect
<1> QED
  BY SInvariance, <1>1, PTL
=============================================================================

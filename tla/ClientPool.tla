----------------------------- MODULE ClientPool -----------------------------
(***************************************************************************)
(* The warm client of one (tenant, server) on one replica: mounts, the     *)
(* per-key lock, connecting, evicting, retries and deadlines of            *)
(* services/proxy_registry.py, and the credential cache of                 *)
(* services/credential_broker.py.                                          *)
(*                                                                         *)
(* Calls share one client.  Its base reference is held by the pool, every  *)
(* call in flight holds one more, and the session ends with the last (the  *)
(* reference counting is FastMCP's, see Release).  Mounting, unmounting    *)
(* and refreshing credentials evict the client while calls run.            *)
(*                                                                         *)
(* A credential is "fresh" when it was minted from the mounted metadata    *)
(* and the secrets of today, "before" when it still counts as valid but    *)
(* was made before the last mount or refresh was asked for, and "none"     *)
(* when there is none or it is near its expiry.                            *)
(***************************************************************************)
EXTENDS Naturals, FiniteSets

CONSTANTS
  Callers,      \* concurrently running call_tool
  Managers,     \* concurrently running mount_or_update, unmount, refresh, aclose
  Clients,      \* names of client objects
  Attempts,     \* attempts of one call: 3 in the code
  MaxVersions   \* bound on the mounts

ASSUME PoolAssumption == Attempts \in Nat \ {0} /\ MaxVersions \in Nat

Nobody == "nobody"
NoClient == "no client"
ASSUME NameAssumption ==
  Callers \cap Managers = {} /\ Nobody \notin Callers /\ NoClient \notin Clients

VARIABLES
  server,    \* the mounted DownstreamServer, by version; 0 when unmounted
  versions,  \* mounts so far
  lock,      \* who holds the key's asyncio.Lock
  pool,      \* the pooled client
  ver,       \* the version every client leads to
  auth,      \* the credential it was built with
  refs,      \* the references to it
  session,   \* its session
  cached,    \* the credential in the broker's cache
  pc,        \* where every caller and manager is
  srv,       \* the DownstreamServer a caller was started with
  cred,      \* the credential it connects with
  using,     \* the client it calls or closes
  bad,       \* the client its last attempt failed on
  tries,     \* its attempts so far
  straddled, \* history: calls were in flight at the last mount or unmount
  overlapped \* history: calls were in flight at, or began in, the last of any of them

registry == <<server, versions>>
clients == <<ver, auth, refs, session>>
history == <<straddled, overlapped>>
vars == <<registry, lock, pool, clients, cached, pc, srv, cred, using, bad, tries, history>>

Workers == Callers \cup Managers
Credentials == {"none", "before", "fresh"}

Init == /\ server = 0 /\ versions = 0
        /\ lock = Nobody /\ pool = NoClient
        /\ ver = [c \in Clients |-> 0] /\ auth = [c \in Clients |-> "none"]
        /\ refs = [c \in Clients |-> 0] /\ session = [c \in Clients |-> "none"]
        /\ cached = "none"
        /\ pc = [x \in Workers |-> "idle"]
        /\ srv = [h \in Callers |-> 0]
        /\ cred = [h \in Callers |-> "none"]
        /\ using = [x \in Workers |-> NoClient]
        /\ bad = [h \in Callers |-> NoClient]
        /\ tries = [h \in Callers |-> 0]
        /\ straddled = FALSE /\ overlapped = FALSE

GoTo(x, s) == pc' = [pc EXCEPT ![x] = s]

EndSession(c) ==
  /\ ver' = [ver EXCEPT ![c] = 0] /\ auth' = [auth EXCEPT ![c] = "none"]
  /\ refs' = [refs EXCEPT ![c] = 0] /\ session' = [session EXCEPT ![c] = "none"]

\* One reference less; the session ends with the last one.
Release(c) == IF refs[c] > 1
                THEN refs' = [refs EXCEPT ![c] = @ - 1] /\ UNCHANGED <<ver, auth, session>>
                ELSE EndSession(c)
Unlock(x) == lock' = IF lock = x THEN Nobody ELSE lock

\* A client object that is not in use.
Free(c) == /\ refs[c] = 0 /\ pool # c
           /\ \A x \in Workers : using[x] # c
           /\ \A h \in Callers : bad[h] # c

-----------------------------------------------------------------------------
(* call_tool, _call_via_client and _get_or_connect_client                  *)

\* The server is looked up once, before the first attempt.
Begin(h) ==
  /\ pc[h] = "idle" /\ server # 0
  /\ srv' = [srv EXCEPT ![h] = server]
  /\ tries' = [tries EXCEPT ![h] = 1]
  /\ GoTo(h, "lock")
  /\ overlapped' = (overlapped \/ \E m \in Managers : pc[m] # "idle")
  /\ UNCHANGED <<registry, lock, pool, clients, cached, cred, using, bad, straddled>>

Warm == /\ pool # NoClient
        /\ session[pool] = "up" /\ auth[pool] # "none"

\* The key's lock is free and the pooled client is usable: take a reference.
WarmHit(h) ==
  /\ pc[h] = "lock" /\ lock = Nobody /\ Warm
  /\ refs' = [refs EXCEPT ![pool] = @ + 1]
  /\ using' = [using EXCEPT ![h] = pool]
  /\ GoTo(h, "call")
  /\ UNCHANGED <<registry, lock, pool, ver, auth, session, cached, srv, cred, bad, tries,
                 history>>

\* Disconnected, or its credential is near expiry: it is closed under the lock
\* and leaves the pool when the session has ended.
DropStale(h) ==
  /\ pc[h] = "lock" /\ lock = Nobody /\ pool # NoClient /\ ~Warm
  /\ lock' = h
  /\ Release(pool)
  /\ IF refs[pool] > 1 THEN pool' = NoClient /\ GoTo(h, "mint")
                              ELSE GoTo(h, "teardown") /\ UNCHANGED pool
  /\ UNCHANGED <<registry, cached, srv, cred, using, bad, tries, history>>

TornDown(h) ==
  /\ pc[h] = "teardown"
  /\ pool' = NoClient
  /\ GoTo(h, "mint")
  /\ UNCHANGED <<registry, lock, clients, cached, srv, cred, using, bad, tries, history>>

\* Mutant: connecting does not hold the lock.
NoneYetUnlocked(h) ==
  /\ pc[h] = "lock" /\ lock = Nobody /\ pool = NoClient
  /\ GoTo(h, "mint")
  /\ UNCHANGED <<registry, lock, pool, clients, cached, srv, cred, using, bad, tries,
                 history>>

NoneYet(h) ==
  /\ pc[h] = "lock" /\ lock = Nobody /\ pool = NoClient
  /\ lock' = h
  /\ GoTo(h, "mint")
  /\ UNCHANGED <<registry, pool, clients, cached, srv, cred, using, bad, tries, history>>

\* The broker's mint: the cached credential unless it is near expiry, else one
\* from the metadata the caller holds.
Minted(h) == CASE cached # "none"  -> cached
               [] srv[h] = server  -> "fresh"
               [] OTHER            -> "before"

Mint(h) ==
  /\ pc[h] = "mint"
  /\ cred' = [cred EXCEPT ![h] = Minted(h)]
  /\ cached' = Minted(h)
  /\ GoTo(h, "connect")
  /\ UNCHANGED <<registry, lock, pool, clients, srv, using, bad, tries, history>>

\* __aenter__ succeeds: the client is pooled, and used at once.
Connect(h) == \E c \in Clients :
  /\ pc[h] = "connect" /\ Free(c)
  /\ ver' = [ver EXCEPT ![c] = srv[h]] /\ auth' = [auth EXCEPT ![c] = cred[h]]
  /\ refs' = [refs EXCEPT ![c] = 2] /\ session' = [session EXCEPT ![c] = "up"]
  /\ pool' = c
  /\ using' = [using EXCEPT ![h] = c]
  /\ Unlock(h)
  /\ cred' = [cred EXCEPT ![h] = "none"]
  /\ GoTo(h, "call")
  /\ UNCHANGED <<registry, cached, srv, bad, tries, history>>

Finish(h) ==
  /\ GoTo(h, "idle")
  /\ srv' = [srv EXCEPT ![h] = 0]
  /\ bad' = [bad EXCEPT ![h] = NoClient]
  /\ tries' = [tries EXCEPT ![h] = 0]

\* The attempt is over with no answer: a further one, or the call fails.
Over(h) ==
  IF tries[h] < Attempts THEN GoTo(h, "sleep") /\ UNCHANGED <<srv, bad, tries>>
                         ELSE Finish(h)

\* Minting fails, or the credential may not be sent: nothing is evicted.
MintFails(h) ==
  /\ pc[h] = "mint"
  /\ Unlock(h)
  /\ cached' \in {cached, Minted(h)}
  /\ Over(h)
  /\ UNCHANGED <<registry, pool, clients, cred, using, history>>

\* The session answers; so does one whose answer is not a valid result.
Answer(h) ==
  /\ pc[h] = "call"
  /\ Release(using[h])
  /\ using' = [using EXCEPT ![h] = NoClient]
  /\ Finish(h)
  /\ UNCHANGED <<registry, lock, pool, cached, cred, history>>

\* The deadline of wait_for, or an error, ends the attempt wherever it is; the
\* lock and the call's reference are given back on the way out.
Abort(h) ==
  /\ pc[h] \in {"lock", "teardown", "mint", "connect", "call"}
  /\ Unlock(h)
  /\ IF pc[h] = "call" THEN Release(using[h]) ELSE UNCHANGED clients
  /\ bad' = [bad EXCEPT ![h] = using[h]]
  /\ using' = [using EXCEPT ![h] = NoClient]
  /\ cred' = [cred EXCEPT ![h] = "none"]
  /\ GoTo(h, "evict")
  /\ UNCHANGED <<registry, pool, cached, srv, tries, history>>

Retry(h) ==
  /\ pc[h] = "sleep"
  /\ tries' = [tries EXCEPT ![h] = @ + 1]
  /\ bad' = [bad EXCEPT ![h] = NoClient]
  /\ GoTo(h, "lock")
  /\ UNCHANGED <<registry, lock, pool, clients, cached, srv, cred, using, history>>

-----------------------------------------------------------------------------
(* _evict_client                                                           *)

\* What comes after an eviction.
Evicted(x) == IF x \in Callers THEN Over(x)
              ELSE GoTo(x, "invalidate") /\ UNCHANGED <<srv, bad, tries>>

\* Popped under the lock, closed outside it.
Evict(x) ==
  /\ pc[x] = "evict" /\ lock = Nobody
  /\ IF pool = NoClient
       THEN Evicted(x) /\ UNCHANGED <<pool, using>>
       ELSE /\ pool' = NoClient
            /\ using' = [using EXCEPT ![x] = pool]
            /\ GoTo(x, "close")
            /\ UNCHANGED <<srv, bad, tries>>
  /\ UNCHANGED <<registry, lock, clients, cached, cred, history>>

Close(x) ==
  /\ pc[x] = "close"
  /\ Release(using[x])
  /\ using' = [using EXCEPT ![x] = NoClient]
  /\ Evicted(x)
  /\ UNCHANGED <<registry, lock, pool, cached, cred, history>>

-----------------------------------------------------------------------------
(* mount_or_update, unmount, refresh_server_credentials, aclose            *)

Busy == \E h \in Callers : pc[h] # "idle"

\* What was minted up to now was minted before.
Outdate(k) == IF k = "fresh" THEN "before" ELSE k
OutdateAll ==
  /\ cached' = Outdate(cached)
  /\ auth' = [c \in Clients |-> Outdate(auth[c])]
  /\ cred' = [h \in Callers |-> Outdate(cred[h])]

Mount(m) ==
  /\ pc[m] = "idle" /\ versions < MaxVersions
  /\ versions' = versions + 1 /\ server' = versions + 1
  /\ OutdateAll
  /\ straddled' = Busy /\ overlapped' = Busy
  /\ GoTo(m, "evict")
  /\ UNCHANGED <<lock, pool, ver, refs, session, srv, using, bad, tries>>

Unmount(m) ==
  /\ pc[m] = "idle" /\ server # 0
  /\ server' = 0
  /\ OutdateAll
  /\ straddled' = Busy /\ overlapped' = Busy
  /\ GoTo(m, "evict")
  /\ UNCHANGED <<versions, lock, pool, ver, refs, session, srv, using, bad, tries>>

\* refresh_server_credentials: the secrets have changed.
Refresh(m) ==
  /\ pc[m] = "idle"
  /\ OutdateAll
  /\ overlapped' = Busy
  /\ GoTo(m, "evict")
  /\ UNCHANGED <<registry, lock, pool, ver, refs, session, srv, using, bad, tries,
                 straddled>>

\* Mutant: the cached credential survives.
InvalidateNot(m) ==
  /\ pc[m] = "invalidate"
  /\ GoTo(m, "idle")
  /\ UNCHANGED <<registry, lock, pool, clients, cached, srv, cred, using, bad, tries,
                 history>>

\* The broker forgets the credential; a mount may then mint one to discover tools.
Invalidate(m) ==
  /\ pc[m] = "invalidate"
  /\ cached' \in {"none"} \cup {k \in {"fresh"} : server # 0}
  /\ GoTo(m, "idle")
  /\ UNCHANGED <<registry, lock, pool, clients, srv, cred, using, bad, tries, history>>

-----------------------------------------------------------------------------
(* The environment                                                         *)

\* Time passes: every credential there is comes near its expiry.
Age ==
  /\ auth' = [c \in Clients |-> "none"]
  /\ cached' = "none"
  /\ cred' = [h \in Callers |-> "none"]
  /\ UNCHANGED <<registry, lock, pool, ver, refs, session, pc, srv, using, bad, tries,
                 history>>

\* The downstream server ends a session.
Drop(c) ==
  /\ session[c] = "up"
  /\ session' = [session EXCEPT ![c] = "dropped"]
  /\ UNCHANGED <<registry, lock, pool, ver, auth, refs, cached, pc, srv, cred, using,
                 bad, tries, history>>

-----------------------------------------------------------------------------
Next ==
  \/ \E h \in Callers :
       \/ Begin(h) \/ WarmHit(h) \/ DropStale(h) \/ TornDown(h) \/ NoneYet(h)
       \/ Mint(h) \/ MintFails(h) \/ Connect(h) \/ Answer(h) \/ Abort(h) \/ Retry(h)
  \/ \E x \in Workers : Evict(x) \/ Close(x)
  \/ \E m \in Managers : Mount(m) \/ Unmount(m) \/ Refresh(m) \/ Invalidate(m)
  \/ Age \/ \E c \in Clients : Drop(c)

Spec == Init /\ [][Next]_vars

-----------------------------------------------------------------------------
(* Properties                                                              *)

\* Every variable has its type; a call makes at most Attempts attempts.
TypeOK ==
  /\ server \in 0..MaxVersions /\ versions \in 0..MaxVersions
  /\ lock \in Callers \cup {Nobody} /\ pool \in Clients \cup {NoClient}
  /\ ver \in [Clients -> 0..MaxVersions] /\ auth \in [Clients -> Credentials]
  /\ refs \in [Clients -> Nat] /\ session \in [Clients -> {"none", "up", "dropped"}]
  /\ cached \in Credentials
  /\ pc \in [Workers -> {"idle", "lock", "teardown", "mint", "connect", "call", "evict",
                         "close", "sleep", "invalidate"}]
  /\ srv \in [Callers -> 0..MaxVersions]
  /\ cred \in [Callers -> Credentials]
  /\ using \in [Workers -> Clients \cup {NoClient}]
  /\ bad \in [Callers -> Clients \cup {NoClient}]
  /\ tries \in [Callers -> 0..Attempts]
  /\ straddled \in BOOLEAN /\ overlapped \in BOOLEAN

\* The lock of the key is never orphaned: whoever holds it is dropping, minting
\* or connecting, under the deadline of its attempt, and at most one is.
LockNotOrphaned ==
  \A h \in Callers : lock = h <=> pc[h] \in {"teardown", "mint", "connect"}

\* Who has a reference to c and will give it back.
Holders(c) == {x \in Workers : pc[x] \in {"call", "close"} /\ using[x] = c}

\* A shared session lives exactly as long as somebody needs it.  Its references are
\* those of the pool, of the calls in flight and of the evictions under way, so it
\* ends when they do, whatever deadline hit whom while the client was being opened or
\* dropped; and a call in flight has a session (which the downstream server may have
\* ended), whoever evicts the client meanwhile.
SessionHasItsUsers ==
  /\ \A c \in Clients : refs[c] <= Cardinality(Holders(c)) + IF pool = c THEN 1 ELSE 0
  /\ \A h \in Callers : pc[h] = "call" => session[using[h]] # "none"

\* A client on which an attempt failed is not in the pool when the retry comes.
FailedNotPooled ==
  \A h \in Callers : pc[h] = "sleep" => bad[h] = NoClient \/ pool # bad[h]

PooledSession == pool # NoClient /\ refs[pool] > 0

\* What an admin changes takes effect.  When no call was in flight at the last mount
\* or unmount, and it is over, the pooled session leads to the mounted target; when no
\* call overlapped that, or the last refresh, the session is not authenticated by a
\* credential from before.  (A call that straddles a mount keeps the old target for its
\* retries, and pools it; one that reconnects between the eviction and the invalidation
\* pools the cached, old credential again.)
ChangesTakeEffect ==
  PooledSession =>
    /\ ~straddled /\ (\A m \in Managers : pc[m] \in {"idle", "invalidate"}) => ver[pool] = server
    /\ ~overlapped /\ (\A m \in Managers : pc[m] = "idle") => auth[pool] # "before"
=============================================================================

---------------------------- MODULE TenantStatus ----------------------------
(***************************************************************************)
(* The tenant kill-switches and their per-process caches:                  *)
(* services/tenant_status.py.  The status (active or not) and the          *)
(* read-only flag have the same code twice; the module models either one   *)
(* as a flag that allows or refuses requests.                              *)
(*                                                                         *)
(* A reader takes the time, looks in the cache of its replica, and on a    *)
(* miss awaits the control document and then fills the cache.  A writer    *)
(* awaits the update of the document and then writes its own value through *)
(* to the cache.  Tasks of all replicas interleave at those awaits.        *)
(***************************************************************************)
EXTENDS Naturals

CONSTANTS
  Processes, \* gateway processes, each with its cache
  Handlers,  \* concurrently running requests, of the data plane or of admins
  TTL,       \* tenant_status_cache_ttl_seconds
  Latency,   \* ticks the awaits of one handler may take
  MaxNow     \* bound on the clock

ASSUME StatusAssumption == TTL \in Nat /\ Latency \in Nat /\ MaxNow \in Nat

VARIABLES
  now,       \* time.monotonic()
  present,   \* the tenants document
  allowed,   \* its flag allows requests; so does a missing document
  changed,   \* history: when that last changed
  value,     \* the cached flag, per replica
  until,     \* monotonic expiry of the cache entry; 0 when there is none
  pc, at,    \* where every handler is, and on which replica
  began,     \* when it started
  flag,      \* what a reader saw, or a writer wants
  acked      \* history: the replica was the last to set the flag, and wrote it
             \* through with no reader of the old flag in flight

cache == <<value, until>>
task == <<pc, at, began, flag>>
svars == <<now, present, allowed, changed, cache, task, acked>>

SInit == /\ now = 0 /\ present = TRUE /\ allowed = TRUE /\ changed = 0
        /\ value = [r \in Processes |-> TRUE]
        /\ until = [r \in Processes |-> 0]
        /\ pc = [h \in Handlers |-> "idle"]
        /\ at \in [Handlers -> Processes]
        /\ began = [h \in Handlers |-> 0]
        /\ flag = [h \in Handlers |-> TRUE]
        /\ acked = [r \in Processes |-> FALSE]

GoTo(h, s) == pc' = [pc EXCEPT ![h] = s]
Verdict(v) == IF v THEN "admitted" ELSE "refused"

SetCache(r, v, t) == /\ value' = [value EXCEPT ![r] = v]
                     /\ until' = [until EXCEPT ![r] = t]

\* The document changes; no replica has been told yet.
SetFlag(v) ==
  /\ allowed' = v
  /\ changed' = IF v = allowed THEN changed ELSE now
  /\ acked' = IF v = allowed THEN acked ELSE [r \in Processes |-> FALSE]

-----------------------------------------------------------------------------
(* get_tenant_status / get_tenant_read_only and their assertions           *)

\* Mutant: the expiry of an entry is not looked at.
AskExpired(h, r) ==
  /\ pc[h] = "idle"
  /\ at' = [at EXCEPT ![h] = r]
  /\ began' = [began EXCEPT ![h] = now]
  /\ GoTo(h, IF until[r] > 0 THEN Verdict(value[r]) ELSE "read")
  /\ UNCHANGED <<now, present, allowed, changed, cache, flag, acked>>

Ask(h, r) ==
  /\ pc[h] = "idle"
  /\ at' = [at EXCEPT ![h] = r]
  /\ began' = [began EXCEPT ![h] = now]
  /\ GoTo(h, IF until[r] > now THEN Verdict(value[r]) ELSE "read")
  /\ UNCHANGED <<now, present, allowed, changed, cache, flag, acked>>

\* find_one: a missing document or an unknown status counts as active.
Read(h) ==
  /\ pc[h] = "read"
  /\ flag' = [flag EXCEPT ![h] = allowed]
  /\ GoTo(h, "store")
  /\ UNCHANGED <<now, present, allowed, changed, cache, at, began, acked>>

\* The entry expires TTL after the reader started; with TTL = 0 it is dead at
\* once, as good as none.
Store(h) ==
  /\ pc[h] = "store"
  /\ SetCache(at[h], flag[h], began[h] + TTL)
  /\ GoTo(h, Verdict(flag[h]))
  /\ UNCHANGED <<now, present, allowed, changed, at, began, flag, acked>>

Return(h) ==
  /\ pc[h] \in {"admitted", "refused"}
  /\ GoTo(h, "idle")
  /\ UNCHANGED <<now, present, allowed, changed, cache, at, began, flag, acked>>

-----------------------------------------------------------------------------
(* set_tenant_status / set_tenant_read_only                                *)

Set(h, r, v) ==
  /\ pc[h] = "idle"
  /\ at' = [at EXCEPT ![h] = r]
  /\ began' = [began EXCEPT ![h] = now]
  /\ flag' = [flag EXCEPT ![h] = v]
  /\ GoTo(h, "update")
  /\ UNCHANGED <<now, present, allowed, changed, cache, acked>>

Update(h) ==
  /\ pc[h] = "update"
  /\ IF present THEN SetFlag(flag[h]) /\ GoTo(h, "ack")
               ELSE GoTo(h, "idle") /\ UNCHANGED <<allowed, changed, acked>>
  /\ UNCHANGED <<now, present, cache, at, began, flag>>

\* A reader of the same replica is about to fill the cache with another value.
Outrun(h) == \E g \in Handlers : pc[g] = "store" /\ at[g] = at[h] /\ flag[g] # flag[h]

WriteThrough(h) ==
  /\ pc[h] = "ack"
  /\ SetCache(at[h], flag[h], now + TTL)
  /\ acked' = [acked EXCEPT ![at[h]] = flag[h] = allowed /\ ~Outrun(h)]
  /\ GoTo(h, "idle")
  /\ UNCHANGED <<now, present, allowed, changed, at, began, flag>>

-----------------------------------------------------------------------------
(* The rest of the control plane                                           *)

\* deprovision_tenant removes the document: the tenant counts as active again.
RemoveDoc == /\ present /\ present' = FALSE
             /\ SetFlag(TRUE)
             /\ UNCHANGED <<now, cache, task>>

\* provision_tenant inserts an active one.
InsertDoc == /\ ~present /\ present' = TRUE
             /\ UNCHANGED <<now, allowed, changed, cache, task, acked>>

Pass == /\ now < MaxNow
        /\ \A h \in Handlers : pc[h] \in {"read", "store", "update", "ack"}
                                 => now < began[h] + Latency
        /\ now' = now + 1
        /\ UNCHANGED <<present, allowed, changed, cache, task, acked>>

\* A database call fails; an update may have been applied before its reply was
\* lost ("ack"), and is then not written through.
Fail(h) == /\ pc[h] \in {"read", "update", "ack"}
           /\ GoTo(h, "idle")
           /\ UNCHANGED <<now, present, allowed, changed, cache, at, began, flag, acked>>

SNext == \/ \E h \in Handlers :
             \/ \E r \in Processes : \/ Ask(h, r)
                                    \/ \E v \in BOOLEAN : Set(h, r, v)
             \/ Read(h) \/ Store(h) \/ Return(h) \/ Update(h) \/ WriteThrough(h) \/ Fail(h)
        \/ RemoveDoc \/ InsertDoc \/ Pass

SSpec == SInit /\ [][SNext]_svars

-----------------------------------------------------------------------------
(* Properties                                                              *)

STypeOK ==
  /\ now \in Nat /\ present \in BOOLEAN /\ allowed \in BOOLEAN /\ changed \in Nat
  /\ value \in [Processes -> BOOLEAN] /\ until \in [Processes -> Nat]
  /\ pc \in [Handlers -> {"idle", "read", "store", "update", "ack", "admitted", "refused"}]
  /\ at \in [Handlers -> Processes]
  /\ began \in [Handlers -> 0 .. now]
  /\ flag \in [Handlers -> BOOLEAN] /\ acked \in [Processes -> BOOLEAN]

\* The last moment the document said v.
LastTime(v) == IF allowed = v THEN now ELSE changed

\* The cache "bound[s] cross-replica propagation delay": whatever the replica
\* and the interleaving, a request is admitted (refused) only if the document
\* allowed it (refused it) within the last TTL plus one database round trip.
VerdictFresh ==
  [][\A h \in Handlers, v \in BOOLEAN :
       pc[h] # Verdict(v) /\ pc'[h] = Verdict(v)
         => now <= LastTime(v) + TTL + Latency]_svars

\* "A suspend it issues takes effect immediately locally": once the replica
\* that set the flag has written it through, its cache says nothing else, if no
\* read that saw the old flag was in flight there to overwrite it.
LocallyImmediate ==
  \A r \in Processes : acked[r] /\ until[r] > now => value[r] = allowed
=============================================================================

-------------------------- MODULE TenantLifecycle --------------------------
(***************************************************************************)
(* The life of one tenant: services/tenant_provisioner.py with the admin   *)
(* tenant routes, the purge reaper of every replica and the readiness      *)
(* check of the data plane.                                                *)
(*                                                                         *)
(* A tenant is a document in the control database and a database of its    *)
(* own; no transaction spans the two.  Every replica runs one reaper, and  *)
(* here one admin request and one data-plane request at a time.  The       *)
(* in-process locks are left out: _evict_tenant_cache drops them even      *)
(* while they are held, and provisioning is idempotent.                    *)
(***************************************************************************)
EXTENDS Naturals, FiniteSets

CONSTANTS
  Replicas,       \* active-active gateway processes, each with a reaper
  AdminOn,        \* the replicas that get admin requests
  RequestsOn,     \* the replicas that get data-plane requests
  Retention,      \* tenant_retention_days, in ticks of the clock
  AutoProvision,  \* the values auto_provision_tenants may have
  Faults,         \* what may fail: claim, delete, drop, client, release, task, crash
  MaxFaults,      \* bound on how many of them happen, each at most once
  MaxDeletions,   \* bound on soft deletions
  MaxTime         \* bound on the clock

ASSUME LifecycleAssumption ==
  /\ IsFiniteSet(Replicas) /\ AdminOn \subseteq Replicas /\ RequestsOn \subseteq Replicas
  /\ Retention \in Nat /\ AutoProvision \subseteq BOOLEAN
  /\ MaxFaults \in Nat /\ MaxDeletions \in Nat /\ MaxTime \in Nat

VARIABLES
  clock,
  exists,     \* the tenants document
  status,     \* its status
  purgeAt,    \* its purge_at: {t}, or {} when there is none
  claimed,    \* its purge_started_at is set
  data,       \* the tenant database with its collections and indexes
  ready,      \* tenant \in _ready_tenants, per replica
  reaper,     \* where the purge sweep of every replica is
  cutoff,     \* the time it works with
  failed,     \* it failed on this tenant and skips it until the next sweep
  admin,      \* where the admin request of every replica is
  request,    \* where its data-plane request is
  deletions,  \* history: soft deletions so far
  kept,       \* history: the tenant is in use: alive, complete, nobody is dropping it
  auto,       \* auto_provision_tenants
  faults      \* the failures so far

doc == <<exists, status, purgeAt, claimed>>
sweep == <<reaper, cutoff, failed>>
env == <<auto, faults>>
vars == <<clock, doc, data, ready, sweep, admin, request, deletions, kept, env>>

\* purge_at <= t, which no missing purge_at satisfies.
PurgeDue(t) == \E p \in purgeAt : p <= t

Init == /\ clock = 0
        /\ exists = FALSE /\ status = "active" /\ purgeAt = {} /\ claimed = FALSE
        /\ data = FALSE
        /\ ready = [r \in Replicas |-> FALSE]
        /\ reaper = [r \in Replicas |-> "asleep"]
        /\ cutoff = [r \in Replicas |-> 0]
        /\ failed = [r \in Replicas |-> FALSE]
        /\ admin = [r \in Replicas |-> "idle"]
        /\ request = [r \in Replicas |-> "idle"]
        /\ deletions = 0 /\ kept = FALSE /\ faults = {}
        /\ auto \in AutoProvision

\* Somebody is between the decision to deprovision and the end of the drop.
Deprovisioning == \E r \in Replicas : \/ reaper[r] \in {"delete", "drop"}
                                      \/ admin[r] \in {"delete", "drop"}

ReaperTo(r, s) == reaper' = [reaper EXCEPT ![r] = s]
AdminTo(r, s) == admin' = [admin EXCEPT ![r] = s]
RequestTo(r, s) == request' = [request EXCEPT ![r] = s]

Fault(kind) == /\ kind \in Faults \ faults /\ Cardinality(faults) < MaxFaults
               /\ faults' = faults \cup {kind} /\ UNCHANGED auto

-----------------------------------------------------------------------------
(* provision_tenant and deprovision_tenant                                 *)

\* The control document is upserted; an existing one keeps its status.
Upsert == /\ exists' = TRUE
          /\ UNCHANGED <<status, purgeAt, claimed>>

\* Collections and indexes are created, and the tenant is ready here.
CreateDatabase(r) ==
  /\ data' = TRUE
  /\ ready' = [ready EXCEPT ![r] = TRUE]
  /\ kept' = (exists /\ status # "deleted" /\ ~Deprovisioning)

\* deprovision_tenant begins with the control document ...
DeleteDoc == exists' = FALSE /\ status' = "active" /\ purgeAt' = {} /\ claimed' = FALSE

Evict(r) == ready' = [ready EXCEPT ![r] = FALSE]

-----------------------------------------------------------------------------
(* Admin routes                                                            *)

\* DELETE ?hard=true, POST /tenants and POST .../restore take several awaits.
AdminBegin(r) ==
  /\ admin[r] = "idle"
  /\ \/ AdminTo(r, "upsert") /\ UNCHANGED kept
     \/ AdminTo(r, "delete") /\ kept' = FALSE
     \/ /\ exists /\ status = "deleted"
        /\ AdminTo(r, "restore") /\ UNCHANGED kept
  /\ UNCHANGED <<clock, doc, data, ready, sweep, request, deletions, env>>

AdminUpsert(r) ==
  /\ admin[r] = "upsert" /\ Upsert /\ AdminTo(r, "create")
  /\ UNCHANGED <<clock, data, ready, sweep, request, deletions, kept, env>>

AdminCreate(r) ==
  /\ admin[r] = "create" /\ CreateDatabase(r) /\ AdminTo(r, "idle")
  /\ UNCHANGED <<clock, doc, sweep, request, deletions, env>>

AdminDelete(r) ==
  /\ admin[r] = "delete" /\ DeleteDoc /\ AdminTo(r, "drop")
  /\ UNCHANGED <<clock, data, ready, sweep, request, deletions, kept, env>>

AdminDrop(r) ==
  /\ admin[r] = "drop" /\ data' = FALSE /\ AdminTo(r, "evict")
  /\ UNCHANGED <<clock, doc, ready, sweep, request, deletions, kept, env>>

\* What follows the last await of the delete and restore handlers.
AdminEvict(r) ==
  /\ admin[r] = "evict" /\ Evict(r) /\ AdminTo(r, "idle")
  /\ UNCHANGED <<clock, doc, data, sweep, request, deletions, kept, env>>

\* soft_delete_tenant: status, purge_at and purge_started_at in one update.
SoftDelete(r) ==
  /\ admin[r] = "idle" /\ exists /\ deletions < MaxDeletions
  /\ status' = "deleted" /\ purgeAt' = {clock + Retention} /\ claimed' = FALSE
  /\ deletions' = deletions + 1 /\ kept' = FALSE
  /\ AdminTo(r, "evict")
  /\ UNCHANGED <<clock, exists, data, ready, sweep, request, env>>

\* restore_tenant's update: whatever the status has become since it was read.
Restore(r) ==
  /\ admin[r] = "restore"
  /\ IF exists
       THEN /\ status' = "active" /\ purgeAt' = {} /\ claimed' = FALSE
            /\ kept' = (data /\ ~Deprovisioning)
            /\ AdminTo(r, "evict")
       ELSE AdminTo(r, "idle") /\ UNCHANGED <<status, purgeAt, claimed, kept>>
  /\ UNCHANGED <<clock, exists, data, ready, sweep, request, deletions, env>>

\* suspend and resume: of a deleted tenant too, and with its purge_at left.
SetStatus(r, s) ==
  /\ admin[r] = "idle" /\ exists
  /\ status' = s
  /\ kept' = (data /\ ~Deprovisioning)
  /\ UNCHANGED <<clock, exists, purgeAt, claimed, data, ready, sweep, admin, request,
                 deletions, env>>

-----------------------------------------------------------------------------
(* purge_expired_tenants                                                   *)

SweepBegin(r) ==
  /\ reaper[r] = "asleep"
  /\ ReaperTo(r, "claim")
  /\ cutoff' = [cutoff EXCEPT ![r] = clock]
  /\ failed' = [failed EXCEPT ![r] = FALSE]
  /\ UNCHANGED <<clock, doc, data, ready, admin, request, deletions, kept, env>>

\* Mutant: the claim goes by purge_at alone.
ClaimableAnyStatus(r) ==
  /\ exists
  /\ PurgeDue(cutoff[r])
  /\ ~claimed /\ ~failed[r]

\* The filter of the claiming find_one_and_update.
Claimable(r) ==
  /\ exists /\ status = "deleted"
  /\ PurgeDue(cutoff[r])
  /\ ~claimed /\ ~failed[r]

Claim(r) ==
  /\ reaper[r] = "claim"
  /\ IF Claimable(r) THEN claimed' = TRUE /\ ReaperTo(r, "delete")
                     ELSE ReaperTo(r, "asleep") /\ UNCHANGED claimed
  /\ UNCHANGED <<clock, exists, status, purgeAt, data, ready, cutoff, failed, admin, request,
                 deletions, kept, env>>

ReaperDelete(r) ==
  /\ reaper[r] = "delete" /\ DeleteDoc /\ ReaperTo(r, "drop")
  /\ UNCHANGED <<clock, data, ready, cutoff, failed, admin, request, deletions, kept, env>>

ReaperDrop(r) ==
  /\ reaper[r] = "drop" /\ data' = FALSE /\ ReaperTo(r, "evict")
  /\ UNCHANGED <<clock, doc, ready, cutoff, failed, admin, request, deletions, kept, env>>

ReaperEvict(r) ==
  /\ reaper[r] = "evict" /\ Evict(r) /\ ReaperTo(r, "claim")
  /\ UNCHANGED <<clock, doc, data, cutoff, failed, admin, request, deletions, kept, env>>

\* Mutant: the claim of a failed purge is not given back.
ReleaseKept(r) ==
  /\ reaper[r] = "release"
  /\ failed' = [failed EXCEPT ![r] = TRUE]
  /\ ReaperTo(r, "claim")
  /\ UNCHANGED <<clock, doc, data, ready, cutoff, admin, request, deletions, kept, env>>

\* A failed purge gives its claim back, if there still is a document, and the
\* sweep goes on without this tenant.
Release(r) ==
  /\ reaper[r] = "release"
  /\ claimed' = (claimed /\ ~(exists /\ status = "deleted"))
  /\ failed' = [failed EXCEPT ![r] = TRUE]
  /\ ReaperTo(r, "claim")
  /\ UNCHANGED <<clock, exists, status, purgeAt, data, ready, cutoff, admin, request,
                 deletions, kept, env>>

\* A failed claim ends the sweep; a failed delete or drop leads to the release
\* of the claim; without a client the drop is skipped and the purge counts as
\* done; a failed release is logged.
ReaperFault(r) ==
  /\ \/ reaper[r] = "claim" /\ Fault("claim") /\ ReaperTo(r, "asleep") /\ UNCHANGED failed
     \/ reaper[r] = "delete" /\ Fault("delete") /\ ReaperTo(r, "release") /\ UNCHANGED failed
     \/ reaper[r] = "drop" /\ Fault("drop") /\ ReaperTo(r, "release") /\ UNCHANGED failed
     \/ reaper[r] = "drop" /\ Fault("client") /\ ReaperTo(r, "evict") /\ UNCHANGED failed
     \/ /\ reaper[r] = "release" /\ Fault("release") /\ ReaperTo(r, "claim")
        /\ failed' = [failed EXCEPT ![r] = TRUE]
  /\ UNCHANGED <<clock, doc, data, ready, cutoff, admin, request, deletions, kept>>

\* A database call of an admin or data-plane request fails, and so does the
\* request; without a client the hard delete skips the drop.
TaskFault(r) ==
  /\ \/ /\ admin[r] \in {"upsert", "create", "delete", "drop", "restore"} /\ Fault("task")
        /\ AdminTo(r, "idle") /\ UNCHANGED request
     \/ /\ admin[r] = "drop" /\ Fault("client")
        /\ AdminTo(r, "evict") /\ UNCHANGED request
     \/ /\ request[r] \in {"check", "upsert", "create"} /\ Fault("task")
        /\ RequestTo(r, "idle") /\ UNCHANGED admin
  /\ UNCHANGED <<clock, doc, data, ready, sweep, deletions, kept>>

\* The process dies and restarts: what it was doing is forgotten.
Crash(r) ==
  /\ Fault("crash")
  /\ ReaperTo(r, "asleep") /\ AdminTo(r, "idle") /\ RequestTo(r, "idle")
  /\ failed' = [failed EXCEPT ![r] = FALSE]
  /\ Evict(r)
  /\ UNCHANGED <<clock, doc, data, cutoff, deletions, kept>>

-----------------------------------------------------------------------------
(* ensure_tenant_ready, then the request itself                            *)

RequestBegin(r) ==
  /\ request[r] = "idle"
  /\ RequestTo(r, IF ready[r] THEN "serve" ELSE "check")
  /\ UNCHANGED <<clock, doc, data, ready, sweep, admin, deletions, kept, env>>

\* A document is taken for a provisioned tenant.
RequestCheck(r) ==
  /\ request[r] = "check"
  /\ \/ exists /\ RequestTo(r, "serve") /\ ready' = [ready EXCEPT ![r] = TRUE]
     \/ ~exists /\ auto /\ RequestTo(r, "upsert") /\ UNCHANGED ready
     \/ ~exists /\ ~auto /\ RequestTo(r, "idle") /\ UNCHANGED ready
  /\ UNCHANGED <<clock, doc, data, sweep, admin, deletions, kept, env>>

RequestUpsert(r) ==
  /\ request[r] = "upsert" /\ Upsert /\ RequestTo(r, "create")
  /\ UNCHANGED <<clock, data, ready, sweep, admin, deletions, kept, env>>

RequestCreate(r) ==
  /\ request[r] = "create" /\ CreateDatabase(r) /\ RequestTo(r, "serve")
  /\ UNCHANGED <<clock, doc, sweep, admin, deletions, env>>

RequestEnd(r) ==
  /\ request[r] = "serve" /\ RequestTo(r, "idle")
  /\ UNCHANGED <<clock, doc, data, ready, sweep, admin, deletions, kept, env>>

-----------------------------------------------------------------------------
Tick == /\ clock < MaxTime /\ clock' = clock + 1
        /\ UNCHANGED <<doc, data, ready, sweep, admin, request, deletions, kept, env>>

Order(r) == \/ AdminBegin(r) \/ SoftDelete(r)
            \/ \E s \in {"active", "suspended"} : SetStatus(r, s)
Administer(r) == \/ AdminUpsert(r) \/ AdminCreate(r) \/ AdminDelete(r) \/ AdminDrop(r)
                 \/ AdminEvict(r) \/ Restore(r)
Reap(r) == \/ SweepBegin(r) \/ Claim(r) \/ ReaperDelete(r) \/ ReaperDrop(r)
           \/ ReaperEvict(r) \/ Release(r)
Request(r) == \/ RequestBegin(r) \/ RequestCheck(r) \/ RequestUpsert(r)
              \/ RequestCreate(r) \/ RequestEnd(r)

Next == \/ \E r \in AdminOn : Order(r) \/ Administer(r)
        \/ \E r \in RequestsOn : Request(r)
        \/ \E r \in Replicas : Reap(r) \/ ReaperFault(r) \/ TaskFault(r) \/ Crash(r)
        \/ Tick

Spec == Init /\ [][Next]_vars

\* The reaper task of every replica keeps running, as its loop swallows errors,
\* and an admin request that was begun is carried through.
FairSpec == /\ Spec
            /\ \A r \in Replicas : WF_vars(Reap(r))
            /\ \A r \in AdminOn : WF_vars(Administer(r))

-----------------------------------------------------------------------------
(* Properties                                                              *)

TypeOK ==
  /\ clock \in Nat /\ exists \in BOOLEAN /\ claimed \in BOOLEAN /\ data \in BOOLEAN
  /\ status \in {"active", "suspended", "deleted"}
  /\ purgeAt \subseteq Nat
  /\ ready \in [Replicas -> BOOLEAN]
  /\ reaper \in [Replicas -> {"asleep", "claim", "delete", "drop", "evict", "release"}]
  /\ cutoff \in [Replicas -> Nat] /\ failed \in [Replicas -> BOOLEAN]
  /\ admin \in [Replicas -> {"idle", "upsert", "create", "delete", "drop", "evict", "restore"}]
  /\ request \in [Replicas -> {"idle", "check", "upsert", "create", "serve"}]
  /\ deletions \in Nat /\ kept \in BOOLEAN /\ auto \in BOOLEAN /\ faults \subseteq Faults

Purgers == {r \in Replicas : reaper[r] \in {"delete", "drop", "release"}}

\* "Two active-active replicas never purge the same tenant twice": as many
\* reapers as there were soft deletions may be at work on the tenant, one per
\* deletion, also when purges fail and are retried.
OnePurgePerDeletion == Cardinality(Purgers) <= deletions

\* A tenant that was created, restored or resumed while nobody was dropping
\* it keeps its document and its database until it is deleted again, although
\* a resumed tenant still carries the purge_at of its deletion.
KeptUntilDeleted == kept => exists /\ data

Due == exists /\ status = "deleted" /\ PurgeDue(clock) /\ data
Reinstated == exists /\ (status # "deleted" \/ ~PurgeDue(clock))

\* A tenant that is due is purged, unless it is reinstated, also when the claim
\* or the removal of its document failed.  A release or a drop that failed, the
\* reaper's or an admin's, or a crash may leave the purge undone.
ExpiredIsPurged == Due ~> (~data \/ Reinstated \/ ~(faults \subseteq {"claim", "delete"}))

=============================================================================

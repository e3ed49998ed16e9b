----------------------------- MODULE Onboarding -----------------------------
(***************************************************************************)
(* How tenants come into being by themselves and go away again: the public *)
(* sign-up of services/registration.py, the demo workspaces of             *)
(* services/demo_workspace.py with their seeding (services/demo_seed.py,   *)
(* services/starter_seed.py) and their reaper, and the confirmation tier   *)
(* of services/account_tier.py that an administrator may change meanwhile. *)
(*                                                                         *)
(* Every request makes a tenant of its own (its id is random), so a tenant *)
(* is known by the number of the request.  A request is a chain of awaited *)
(* calls, each a step here; any of them may fail, and the process may die  *)
(* between two.                                                            *)
(***************************************************************************)
EXTENDS Naturals, FiniteSets

CONSTANTS
  Signups,     \* POST /auth/register, all from one address
  Demos,       \* POST /admin/demos
  Emails,      \* addresses that people sign up with
  Sweepers,    \* reaper loops and GET /admin/demos
  Admins,      \* requests of administrators who confirm or unconfirm tenants
  MaxPerIp,    \* self_registration_max_per_ip, 0 for no limit
  MaxTenants,  \* self_registration_max_tenants, 0 for no limit
  MaxDemos,    \* max_demo_tenants, 0 for no limit
  DbBridge,    \* sandbox_db_bridge_enabled
  MaxRequests, \* bound on the requests of both kinds
  MaxFaults    \* bound on failing calls, crashes, confirmations and uses after the end

ASSUME OnboardingAssumption ==
  /\ Signups \cup Demos \subseteq Nat \ {0} /\ Signups \cap Demos = {}
  /\ Admins \subseteq Nat /\ Emails \subseteq Nat \ {0} /\ DbBridge \in BOOLEAN
  /\ Sweepers \cap (Signups \cup Demos) = {}
  /\ {MaxPerIp, MaxTenants, MaxDemos, MaxRequests, MaxFaults} \subseteq Nat

VARIABLES
  docs,      \* the tenants collection of the control database
  dbs,       \* the tenant databases
  users,     \* the users collection
  sessions,  \* tenants with a session_context row
  quotas,    \* the tier whose quota was stamped last, per tenant
  packs,     \* the servers seeded into every tenant
  tokens,    \* tenants that have had an account: a token of theirs may still be valid
  attempts,  \* sign-ups counted in the current window
  task,      \* where every request is
  sweep,     \* where every reaping is, and the demo it has claimed
  admin,     \* the confirmations in progress (alone: history, nothing disturbed it)
  faults,    \* faults so far
  marred,    \* history: tenants whose clean-up failed, or never ran
  revived,   \* history: tenants that were used again after they had been taken back
  raced,     \* history: tenants whose last change of tier was disturbed
  crowded    \* history: a request went past a cap while another was on its way

rows == <<docs, dbs, users, sessions, quotas, packs, tokens>>
history == <<faults, marred, revived, raced, crowded>>
vars == <<rows, attempts, task, sweep, admin, history>>

Tenants == Signups \cup Demos
Collectors == Sweepers \cup Demos
Nobody == 0
NoDoc == [exists |-> FALSE, tier |-> "unset", demo |-> FALSE, due |-> FALSE, claimed |-> FALSE]
NoSweep == [pc |-> "idle", on |-> Nobody]
NoAdmin == [pc |-> "idle", on |-> Nobody, tier |-> "unset", alone |-> FALSE]
NewDoc == [NoDoc EXCEPT !.exists = TRUE]

Init == /\ docs = [t \in Tenants |-> NoDoc] /\ dbs = {} /\ users = {} /\ sessions = {}
        /\ quotas = [t \in Tenants |-> "unset"] /\ packs = [t \in Tenants |-> {}]
        /\ tokens = {} /\ attempts = 0
        /\ task = [t \in Tenants |-> [pc |-> "new", email |-> Nobody, scopes |-> {}]]
        /\ sweep = [c \in Collectors |-> NoSweep]
        /\ admin = [a \in Admins |-> NoAdmin]
        /\ faults = 0 /\ marred = {} /\ revived = {} /\ raced = {}
        /\ crowded = FALSE

Pc(t) == task[t].pc
Goes(t, s) == task' = [task EXCEPT ![t].pc = s]
Step(t, from, to) == Pc(t) = from /\ Goes(t, to)
Fault == faults < MaxFaults /\ faults' = faults + 1

Ended == {"done", "refused", "failed", "dead"}
Settled(t) == Pc(t) \in Ended \cup {"new"}
Kind(t) == IF t \in Demos THEN Demos ELSE Signups
Arrives(t) == /\ Pc(t) = "new" /\ \A u \in Kind(t) : u < t => Pc(u) # "new"
              /\ Cardinality({u \in Tenants : Pc(u) # "new"}) < MaxRequests
Tier(t) == IF t \in Demos THEN "confirmed" ELSE "unconfirmed"
SelfRegistered == {u \in users : u.tenant \in Signups}
ActiveDemos == {t \in Tenants : docs[t].exists /\ docs[t].demo}

\* Past its cap check and not yet counted by anybody else's.
Uncounted(t) == Pc(t) \in {"email", "doc", "db", "tier", "seed", "find", "insert"}
                \/ (t \in Demos /\ Pc(t) \in {"quota", "session", "origin"})

-----------------------------------------------------------------------------
(* Admission                                                               *)

\* Addresses are alike: an old one again, or the first that is new.
Offered(e) == \A f \in Emails : f < e => \E s \in Signups : task[s].email = f

\* _enforce_ip_throttle: the attempt is counted whatever becomes of it.  With no limit
\* nothing is counted.
Register(s, e) ==
  /\ Arrives(s) /\ Offered(e)
  /\ attempts' = IF MaxPerIp = 0 THEN attempts ELSE attempts + 1
  /\ task' = [task EXCEPT ![s].email = e,
                          ![s].pc = IF attempts' > MaxPerIp THEN "refused" ELSE "cap"]
  /\ UNCHANGED <<rows, sweep, admin, history>>

NewWindow == attempts > 0 /\ attempts' = 0 /\ UNCHANGED <<rows, task, sweep, admin, history>>

\* Who goes past a cap while others are on their way is recorded.
Admit(t, S, next) ==
  /\ Goes(t, next)
  /\ crowded' = (crowded \/ \E u \in S \ {t} : Uncounted(u))

\* A cap of 0 is none.
Full(S, cap) == cap > 0 /\ Cardinality(S) >= cap

\* Mutant: one too many.
BetaCapLate(s) ==
  /\ Pc(s) = "cap"
  /\ IF MaxTenants > 0 /\ Cardinality(SelfRegistered) > MaxTenants
       THEN Goes(s, "refused") /\ UNCHANGED crowded
       ELSE Admit(s, Signups, "email")
  /\ UNCHANGED <<rows, attempts, sweep, admin, faults, marred, revived, raced>>

\* _enforce_beta_cap
BetaCap(s) ==
  /\ Pc(s) = "cap"
  /\ IF Full(SelfRegistered, MaxTenants)
       THEN Goes(s, "refused") /\ UNCHANGED crowded
       ELSE Admit(s, Signups, "email")
  /\ UNCHANGED <<rows, attempts, sweep, admin, faults, marred, revived, raced>>

Known(e) == \E u \in users : u.email = e

\* A duplicate is turned away before anything is provisioned.
Precheck(s) ==
  /\ Pc(s) = "email"
  /\ Goes(s, IF Known(task[s].email) THEN "refused" ELSE "doc")
  /\ UNCHANGED <<rows, attempts, sweep, admin, history>>

\* provision_demo_workspace reaps first.
RequestDemo(d) ==
  /\ Arrives(d) /\ Goes(d, "count")
  /\ sweep' = [sweep EXCEPT ![d] = [pc |-> "claim", on |-> Nobody]]
  /\ UNCHANGED <<rows, attempts, admin, history>>

DemoCap(d) ==
  /\ Pc(d) = "count" /\ sweep[d].pc = "idle"
  /\ IF Full(ActiveDemos, MaxDemos)
       THEN Goes(d, "refused") /\ UNCHANGED crowded
       ELSE Admit(d, Demos, "doc")
  /\ UNCHANGED <<rows, attempts, sweep, admin, faults, marred, revived, raced>>

-----------------------------------------------------------------------------
(* Provisioning                                                            *)

(* Every one of these writes is one awaited call.                          *)

WriteDoc(t) == /\ docs' = [docs EXCEPT ![t] = NewDoc]
               /\ UNCHANGED <<dbs, users, sessions, quotas, packs, tokens>>
WriteDb(t) == /\ dbs' = dbs \cup {t}
              /\ UNCHANGED <<docs, users, sessions, quotas, packs, tokens>>
WriteTier(t) == /\ docs' = [docs EXCEPT ![t].tier = Tier(t)]
                /\ UNCHANGED <<dbs, users, sessions, quotas, packs, tokens>>
WriteUser(t) == /\ users' = users \cup {[tenant |-> t, email |-> task[t].email,
                                         scopes |-> task[t].scopes]}
                /\ tokens' = tokens \cup {t}
                /\ UNCHANGED <<docs, dbs, sessions, quotas, packs>>
WriteQuota(t) == /\ quotas' = [quotas EXCEPT ![t] = Tier(t)]
                 /\ UNCHANGED <<docs, dbs, users, sessions, packs, tokens>>
WriteSession(t) == /\ sessions' = sessions \cup {t}
                   /\ UNCHANGED <<docs, dbs, users, quotas, packs, tokens>>
WriteOrigin(t) == /\ docs' = [docs EXCEPT ![t].demo = docs[t].exists]
                  /\ UNCHANGED <<dbs, users, sessions, quotas, packs, tokens>>

\* provision_tenant: the control document, then the database and its indexes.
Provision(t) ==
  /\ Step(t, "doc", "db") /\ WriteDoc(t)
  /\ UNCHANGED <<attempts, sweep, admin, history>>

Database(t) ==
  /\ Step(t, "db", "tier") /\ WriteDb(t)
  /\ UNCHANGED <<attempts, sweep, admin, history>>

\* Mutant: the account is made first.
StampLater(t) ==
  /\ Step(t, "tier", IF t \in Demos THEN "seed" ELSE "find")
  /\ UNCHANGED <<rows, attempts, sweep, admin, history>>

\* set_tenant_confirmation, before there is anybody who could log in.
Stamp(t) ==
  /\ Step(t, "tier", IF t \in Demos THEN "seed" ELSE "find") /\ WriteTier(t)
  /\ UNCHANGED <<attempts, sweep, admin, history>>

\* What is installed: the servers that only compute, and for a demo those that reach
\* data through the bridge as well.
Pack(t) == {"utilities"} \cup IF t \in Demos /\ DbBridge THEN {"bridged"} ELSE {}

\* _seed_server: one that cannot be linted, mounted or saved is unmounted and left out.
Mountable(t) == SUBSET Pack(t)

\* seed_demo_pack and seed_starter_server never raise.  derive_demo_scopes reads the
\* catalog that resulted.
Seed(t) == \E P \in Mountable(t) :
  /\ Pc(t) = "seed"
  /\ task' = [task EXCEPT ![t].pc = IF t \in Demos THEN "find" ELSE "done", ![t].scopes = P]
  /\ packs' = [packs EXCEPT ![t] = P]
  /\ IF P = Pack(t) THEN UNCHANGED faults ELSE Fault
  /\ UNCHANGED <<docs, dbs, users, sessions, quotas, tokens, attempts, sweep, admin, marred,
                 revived, raced, crowded>>

Undo == "undo doc"

Taken(t) == t \in Signups /\ Known(task[t].email)

\* create_user looks the address up (a demo's is random, and drawn again when
\* taken) ...
FindUser(t) ==
  /\ Step(t, "find", IF Taken(t) THEN Undo ELSE "insert")
  /\ UNCHANGED <<rows, attempts, sweep, admin, history>>

\* ... and inserts it, which the unique index of the collection may refuse.
Insert(t) ==
  /\ Step(t, "insert", IF Taken(t) THEN Undo ELSE "quota")
  /\ IF Taken(t) THEN UNCHANGED rows ELSE WriteUser(t)
  /\ UNCHANGED <<attempts, sweep, admin, history>>

Quota(t) ==
  /\ Step(t, "quota", "session") /\ WriteQuota(t)
  /\ UNCHANGED <<attempts, sweep, admin, history>>

\* sync_session_context
Session(t) ==
  /\ Step(t, "session", IF t \in Demos THEN "origin" ELSE "seed") /\ WriteSession(t)
  /\ UNCHANGED <<attempts, sweep, admin, history>>

\* Only now is it a demo: what counts, expires and is reaped goes by this mark.
Origin(d) ==
  /\ Step(d, "origin", "done") /\ WriteOrigin(d)
  /\ UNCHANGED <<attempts, sweep, admin, history>>

\* A call that fails may have taken effect even so.
LostWrite(t) ==
  \/ Pc(t) = "doc" /\ WriteDoc(t)
  \/ Pc(t) = "db" /\ WriteDb(t)
  \/ Pc(t) = "tier" /\ WriteTier(t)
  \/ Pc(t) = "insert" /\ ~Taken(t) /\ WriteUser(t)
  \/ Pc(t) = "quota" /\ WriteQuota(t)
  \/ Pc(t) = "session" /\ WriteSession(t)
  \/ Pc(t) = "origin" /\ WriteOrigin(t)

\* A demo is undone from anywhere but its provisioning, a sign-up only while it stamps
\* the tier and creates the account.
Fails(t) ==
  /\ Pc(t) \in {"doc", "db", "tier", "find", "insert", "quota", "session", "origin"}
  /\ Fault
  /\ UNCHANGED rows \/ LostWrite(t)
  /\ Goes(t, IF Pc(t) \in {"tier", "find", "insert"} \/ (t \in Demos /\ Pc(t) \notin {"doc", "db"})
               THEN Undo ELSE "failed")
  /\ marred' = marred \cup {x \in {t} : \/ Pc(t) = "db" \/ (Pc(t) = "doc" /\ docs' # docs)
                                        \/ (t \in Signups /\ users' # users)}
  /\ UNCHANGED <<attempts, sweep, admin, revived, raced, crowded>>

-----------------------------------------------------------------------------
(* Taking back: _rollback_tenant, _teardown_demo_tenant                    *)

\* deprovision_tenant removes the document, then the database; ...
DropDoc(t) == docs' = [docs EXCEPT ![t] = NoDoc]
DropDb(t) == dbs' = dbs \ {t}
\* ... the demo's accounts and their session rows follow in any case.
DropUsers(t) == users' = {u \in users : u.tenant # t}
DropSession(t) == sessions' = sessions \ {t}

\* Mutant: the accounts stay.
UndoDbOnly(t) ==
  /\ Step(t, "undo db", "failed")
  /\ DropDb(t)
  /\ UNCHANGED <<docs, users, sessions, quotas, packs, tokens, attempts, sweep, admin, history>>

UndoDoc(t) ==
  /\ Step(t, Undo, "undo db")
  /\ DropDoc(t)
  /\ UNCHANGED <<dbs, users, sessions, quotas, packs, tokens, attempts, sweep, admin, history>>

UndoDb(t) ==
  /\ Step(t, "undo db", IF t \in Demos THEN "undo users" ELSE "failed")
  /\ DropDb(t)
  /\ UNCHANGED <<docs, users, sessions, quotas, packs, tokens, attempts, sweep, admin, history>>

UndoUsers(t) ==
  /\ Step(t, "undo users", "undo sessions")
  /\ DropUsers(t)
  /\ UNCHANGED <<docs, dbs, sessions, quotas, packs, tokens, attempts, sweep, admin, history>>

UndoSessions(t) ==
  /\ Step(t, "undo sessions", "failed")
  /\ DropSession(t)
  /\ UNCHANGED <<docs, dbs, users, quotas, packs, tokens, attempts, sweep, admin, history>>

\* A failure of the clean-up is logged and swallowed (the tenant is set aside, whether
\* or not the call took effect).
UndoFails(t) ==
  /\ Pc(t) \in {Undo, "undo db", "undo users", "undo sessions"}
  /\ Fault
  /\ Goes(t, IF t \in Demos /\ Pc(t) \in {Undo, "undo db"} THEN "undo users" ELSE "failed")
  /\ marred' = marred \cup {t}
  /\ UNCHANGED <<rows, attempts, sweep, admin, revived, raced, crowded>>

Crash(t) ==
  /\ ~Settled(t)
  /\ Fault
  /\ Goes(t, "dead")
  /\ sweep' = [c \in Collectors |-> IF c = t THEN NoSweep ELSE sweep[c]]
  /\ marred' = marred \cup ({t} \cup IF t \in Demos THEN {sweep[t].on} \ {Nobody} ELSE {})
  /\ UNCHANGED <<rows, attempts, admin, revived, raced, crowded>>

-----------------------------------------------------------------------------
(* reap_expired_demo_workspaces, delete_demo_workspace                     *)

SweepTo(c, s) == sweep' = [sweep EXCEPT ![c].pc = s]

Expire(d) ==
  /\ ActiveDemos # {} /\ docs[d].demo /\ ~docs[d].due
  /\ docs' = [docs EXCEPT ![d].due = TRUE]
  /\ UNCHANGED <<dbs, users, sessions, quotas, packs, tokens, attempts, task, sweep, admin, history>>

Sweep(c) ==
  /\ sweep[c].pc = "idle" /\ c \in Sweepers
  /\ SweepTo(c, "claim")
  /\ UNCHANGED <<rows, attempts, task, admin, history>>

\* Mutant: the deadline compared the wrong way round.
ReapableEarly == {t \in Tenants : docs[t].exists /\ docs[t].demo /\ ~docs[t].due /\ ~docs[t].claimed}

\* The filter of the reaper's find_one_and_update.
Reapable == {t \in Tenants : docs[t].exists /\ docs[t].demo /\ docs[t].due /\ ~docs[t].claimed}

\* One find_one_and_update picks a due demo and marks it; no other takes it then.
Claim(c) ==
  /\ sweep[c].pc = "claim"
  /\ \/ /\ Reapable = {} /\ SweepTo(c, "idle") /\ UNCHANGED docs
     \/ \E t \in Reapable : /\ docs' = [docs EXCEPT ![t].claimed = TRUE]
                            /\ sweep' = [sweep EXCEPT ![c] = [pc |-> "doc", on |-> t]]
  /\ UNCHANGED <<dbs, users, sessions, quotas, packs, tokens, attempts, task, admin, history>>

\* DELETE /admin/demos/{tenant_id} refuses what is not a demo and asks no claim.
Delete(c, t) ==
  /\ sweep[c].pc = "idle" /\ c \in Sweepers
  /\ docs[t].exists /\ docs[t].demo
  /\ sweep' = [sweep EXCEPT ![c] = [pc |-> "doc", on |-> t]]
  /\ UNCHANGED <<rows, attempts, task, admin, history>>

Teardown(c) ==
  LET t == sweep[c].on IN
  /\ \/ /\ sweep[c].pc = "doc" /\ DropDoc(t) /\ SweepTo(c, "db")
        /\ UNCHANGED <<dbs, users, sessions>>
     \/ /\ sweep[c].pc = "db" /\ DropDb(t) /\ SweepTo(c, "users")
        /\ UNCHANGED <<docs, users, sessions>>
     \/ /\ sweep[c].pc = "users" /\ DropUsers(t) /\ SweepTo(c, "sessions")
        /\ UNCHANGED <<docs, dbs, sessions>>
     \/ /\ sweep[c].pc = "sessions" /\ DropSession(t)
        /\ sweep' = [sweep EXCEPT ![c] = [pc |-> IF c \in Demos THEN "claim" ELSE "idle",
                                          on |-> Nobody]]
        /\ UNCHANGED <<docs, dbs, users>>
  /\ UNCHANGED <<quotas, packs, tokens, attempts, task, admin, history>>

\* The failure is swallowed inside, so the reaper counts the demo as reaped and
\* never gives the claim back.
TeardownFails(c) ==
  /\ sweep[c].pc \in {"doc", "db", "users", "sessions"}
  /\ Fault
  /\ IF sweep[c].pc \in {"doc", "db"}
       THEN SweepTo(c, "users")
       ELSE sweep' = [sweep EXCEPT ![c] = [pc |-> IF c \in Demos THEN "claim" ELSE "idle",
                                           on |-> Nobody]]
  /\ marred' = marred \cup {sweep[c].on}
  /\ UNCHANGED <<rows, attempts, task, admin, revived, raced, crowded>>

SweeperCrash(c) ==
  /\ c \in Sweepers /\ sweep[c].pc # "idle"
  /\ Fault
  /\ sweep' = [sweep EXCEPT ![c] = NoSweep]
  /\ marred' = marred \cup ({sweep[c].on} \ {Nobody})
  /\ UNCHANGED <<rows, attempts, task, admin, revived, raced, crowded>>

-----------------------------------------------------------------------------
(* A token outlives the tenant it was issued for                           *)

Revive(t) == /\ t \in tokens
             /\ Fault
             /\ revived' = revived \cup {t}
             /\ UNCHANGED <<attempts, task, sweep, admin, marred, raced, crowded>>

\* ensure_tenant_ready finds no document and provisions the tenant on first use: no tier,
\* no demo mark, no account.
ReviveDoc(t) == ~docs[t].exists /\ Revive(t) /\ WriteDoc(t)

\* The second half of that; or a replica that has the tenant among its _ready_tenants
\* looks for no document, and writes to the database as if it were there.
ReviveDb(t) == t \notin dbs /\ Revive(t) /\ WriteDb(t)

-----------------------------------------------------------------------------
(* _set_tenant_confirmation_endpoint                                       *)

Confirming(t) == {a \in Admins : admin[a].pc = "quota" /\ admin[a].on = t}

\* Requests are alike: the first one that is free comes next.
Free(a) == admin[a].pc = "idle" /\ \A b \in Admins : b < a => admin[b].pc # "idle"

\* The tier first, the quota that goes with it after.
Confirm(a, t, tier) ==
  LET alone == Settled(t) /\ Confirming(t) = {} IN
  /\ Free(a) /\ docs[t].exists
  /\ Fault
  /\ docs' = [docs EXCEPT ![t].tier = tier]
  /\ admin' = [b \in Admins |->
                 IF b = a THEN [pc |-> "quota", on |-> t, tier |-> tier, alone |-> alone]
                 ELSE [admin[b] EXCEPT !.alone = @ /\ b \notin Confirming(t)]]
  /\ raced' = IF alone THEN raced ELSE raced \cup {t}
  /\ UNCHANGED <<dbs, users, sessions, quotas, packs, tokens, attempts, task, sweep, marred,
                 revived, crowded>>

\* Mutant: only the tier is changed.
ConfirmTierOnly(a) ==
  /\ admin[a].pc = "quota"
  /\ admin' = [admin EXCEPT ![a] = NoAdmin]
  /\ UNCHANGED <<rows, attempts, task, sweep, history>>

\* One that nothing disturbed puts right what others left.
ConfirmQuota(a) ==
  /\ admin[a].pc = "quota"
  /\ quotas' = [quotas EXCEPT ![admin[a].on] = admin[a].tier]
  /\ admin' = [admin EXCEPT ![a] = NoAdmin]
  /\ raced' = IF admin[a].alone THEN raced \ {admin[a].on} ELSE raced
  /\ UNCHANGED <<docs, dbs, users, sessions, packs, tokens, attempts, task, sweep, faults, marred,
                 revived, crowded>>

\* set_quota raises, with or without effect, or the process dies before it.
ConfirmFails(a) ==
  /\ admin[a].pc = "quota"
  /\ Fault
  /\ UNCHANGED quotas \/ quotas' = [quotas EXCEPT ![admin[a].on] = admin[a].tier]
  /\ admin' = [admin EXCEPT ![a] = NoAdmin]
  /\ raced' = raced \cup {admin[a].on}
  /\ UNCHANGED <<docs, dbs, users, sessions, packs, tokens, attempts, task, sweep, marred, revived,
                 crowded>>

-----------------------------------------------------------------------------
SignupStep(s) == (\E e \in Emails : Register(s, e)) \/ BetaCap(s) \/ Precheck(s)
DemoStep(d) == RequestDemo(d) \/ DemoCap(d) \/ Origin(d) \/ UndoUsers(d) \/ UndoSessions(d)
Build(t) == \/ Provision(t) \/ Database(t) \/ Stamp(t) \/ Seed(t) \/ FindUser(t) \/ Insert(t)
            \/ Quota(t) \/ Session(t) \/ UndoDoc(t) \/ UndoDb(t)
Breaks(t) == Fails(t) \/ UndoFails(t) \/ Crash(t)
Reap(c) == Claim(c) \/ Teardown(c)

Next == \/ \E s \in Signups : SignupStep(s)
        \/ \E d \in Demos : DemoStep(d) \/ Expire(d)
        \/ \E t \in Tenants : Build(t) \/ Breaks(t) \/ ReviveDoc(t) \/ ReviveDb(t)
        \/ \E c \in Collectors : Sweep(c) \/ Reap(c) \/ TeardownFails(c) \/ SweeperCrash(c)
                                 \/ \E t \in Tenants : Delete(c, t)
        \/ \E a \in Admins : \/ ConfirmQuota(a) \/ ConfirmFails(a)
                             \/ \E t \in Tenants, tier \in {"confirmed", "unconfirmed"} :
                                  Confirm(a, t, tier)
        \/ NewWindow

Spec == Init /\ [][Next]_vars

\* The reaper loop sweeps again and again, and a request that reaps or takes back goes on.
FairSpec == /\ Spec
            /\ \A c \in Collectors : WF_vars(Sweep(c) \/ Reap(c))
            /\ \A t \in Tenants : WF_vars(UndoDoc(t) \/ UndoDb(t))

-----------------------------------------------------------------------------
(* Properties                                                              *)

\* A half-finished sign-up is capped: nobody can log in to a tenant whose tier is
\* unset, which means uncapped, or whose document is gone, unless the account outlived
\* a failed call or a clean-up.
CappedUntilConfirmed ==
  \A u \in SelfRegistered :
    u.tenant \in marred \/ (docs[u.tenant].exists /\ docs[u.tenant].tier # "unset")

\* No more accounts and no more demos than the settings allow (a cap of 0 is none),
\* unless requests overlapped: both caps count first and create later, and a demo is not
\* counted before its last step.
CapsHold == \/ crowded
            \/ /\ MaxTenants > 0 => Cardinality(SelfRegistered) <= MaxTenants
               /\ MaxDemos > 0 => Cardinality(ActiveDemos) <= MaxDemos

\* A demo is all there or not at all: document, database, account and session are
\* together there, once nobody is at work on it, unless a clean-up of it failed or died,
\* its provisioning died between document and database or left the document behind, or
\* somebody used a token of it after it was taken back.  (Nobody edits its account by
\* hand here.)
DemoAllOrNothing ==
  \A d \in Demos \ (marred \cup revived) :
    LET parts == <<docs[d].exists, d \in dbs, d \in sessions, \E u \in users : u.tenant = d>> IN
    Settled(d) /\ (\A c \in Collectors : sweep[c].on # d) =>
      \A i, j \in 1..4 : parts[i] = parts[j]

\* The quota of a tenant whose request came through is that of its tier, once no change of
\* the tier is on its way, unless the last one was disturbed: made while the tenant was, or
\* while another was on its way, or broken off between tier and quota.  The next
\* undisturbed one puts it right.
QuotaFollowsTier ==
  \A t \in Tenants \ (revived \cup raced) :
    (docs[t].exists /\ Pc(t) = "done" /\ Confirming(t) = {}) => quotas[t] = docs[t].tier

\* An expired demo is reaped, unless a tear-down of it failed or died: then it stays
\* claimed, and counts against the cap, for good.
ExpiredIsReaped ==
  \A d \in Demos : docs[d].due ~> (d \notin dbs \/ d \in marred)
=============================================================================

----------------------------- MODULE Reprovision -----------------------------
(***************************************************************************)
(* The embedding provider as a setting that changes at run time:           *)
(* services/embedding_config.py (the platform's configuration, a tenant's  *)
(* override, and what every process has built from them),                  *)
(* gateway/routers/admin/embeddings.py (changing them) and                 *)
(* services/embedding_reprovision.py with services/cache_migration.py      *)
(* (rebuilding the vectors of a tenant after a change).                    *)
(*                                                                         *)
(* A provider, model and width is a version, and a vector is known by the  *)
(* version that made it.  One tenant is modelled.  A service is the        *)
(* process-wide proxy, which asks for the active version on every call, or *)
(* a version of the tenant's own.                                          *)
(***************************************************************************)
EXTENDS Naturals, Sequences

CONSTANTS
  Replicas,   \* gateway processes
  Rows,       \* tools in the tenant's tool_catalog
  Keys,       \* calls whose results semantic_cache may hold
  Versions,   \* embedding versions, 1 being that of the environment
  Admins,     \* concurrent requests that change a configuration
  Writers,    \* concurrent catalog synchronizations and cached calls
  Jobs,       \* background reprovisions
  Stale,      \* _REPROVISION_STALE_SECONDS
  MaxEvents   \* bound on requests, crashes and failing calls together

ASSUME EmbeddingAssumption ==
  /\ Replicas # {} /\ Jobs # {}
  /\ Admins \cap Writers = {} /\ Admins \cap Jobs = {} /\ Writers \cap Jobs = {}
  /\ 1 \in Versions /\ Versions \subseteq Nat \ {0}
  /\ Stale \in Nat \ {0} /\ MaxEvents \in Nat

VARIABLES
  platform,   \* the version in gateway_config of the control database
  override,   \* that of the tenant's database, or None
  status,     \* embedding_status, for the platform and for the tenant
  age,        \* how long ago started_at was set, Stale at most
  active,     \* _active_service of every replica
  own,        \* _tenant_services of every replica, or None
  catalog,    \* the vectors in tool_catalog
  index,      \* the width of its vector index; None when dropped
  entries,    \* semantic_cache
  task,       \* what every admin, writer and job is doing
  events,     \* requests and faults so far
  history     \* "torn": the active version changed under a migration;
              \* "raced": a reprovision was triggered on an outdated status

config == <<platform, override>>
services == <<active, own>>
vectors == <<catalog, index, entries>>
vars == <<config, status, age, services, vectors, task, events, history>>

None == 0
Proxy == 0
Scopes == {"platform", "tenant"}
Tasks == Admins \cup Writers \cup Jobs
Entries == [key: Keys, label: Versions, vec: Versions]

\* scope: of the configuration or the job.  svc: the service it resolved.  asked: it
\* has read the override.  read: what it has read or computed last.  goal: the version
\* saved by the admin it works for.  quiet: no reprovision follows.  disturbed:
\* somebody else interfered with what it is after.
NoTask == [pc |-> "idle", on |-> CHOOSE r \in Replicas : TRUE, scope |-> "platform",
           svc |-> Proxy, asked |-> FALSE, read |-> None, width |-> None, label |-> None, goal |-> None,
           todo |-> {}, page |-> {}, quiet |-> FALSE, disturbed |-> FALSE]

Init == /\ platform = 1 /\ override = None
        /\ status = [s \in Scopes |-> "idle"] /\ age = [s \in Scopes |-> Stale]
        /\ active = [r \in Replicas |-> 1] /\ own = [r \in Replicas |-> None]
        /\ catalog = [x \in Rows |-> 1] /\ index = 1
        /\ entries = {[key |-> k, label |-> 1, vec |-> 1] : k \in Keys}
        /\ task = [t \in Tasks |-> NoTask]
        /\ events = 0 /\ history = {}

On(t) == task[t].on
Running(t) == task[t].pc # "idle"
\* Tasks are anonymous: the first idle one of S, if there is one, is the next to run.
Slot(S) == CHOOSE t \in S : ~Running(t) \/ \A u \in S : Running(u)
Event == events < MaxEvents /\ events' = events + 1

\* The version that service s embeds with on replica r at this moment.
Embeds(s, r) == IF s = Proxy THEN active[r] ELSE s

\* Task t goes on as n; what the tasks in D are after has been interfered with.
Goes(t, n, D) == task' = [u \in Tasks |-> IF u = t THEN n
                            ELSE [task[u] EXCEPT !.disturbed = @ \/ (u \in D \ Writers /\ Running(u))]]
To(t, s) == [task[t] EXCEPT !.pc = s]
Others(t) == Tasks \ {t}
Beside(t) == {u \in Others(t) : On(u) = On(t)}

-----------------------------------------------------------------------------
(* get_embedding_service_for                                               *)

Resolving == {"identify", "resolve", "trigger", "store"}

\* Where a task goes once it has its service.
Resolved(t, s) ==
  LET k == [task[t] EXCEPT !.asked = FALSE] IN
  CASE k.pc = "identify" -> [k EXCEPT !.pc = "start", !.svc = s, !.width = Embeds(s, k.on)]
    [] k.pc = "resolve"  -> [k EXCEPT !.pc = "embed", !.svc = s,
                                      !.width = IF k.scope = "tenant" THEN k.width
                                                ELSE Embeds(s, k.on)]
    [] k.pc = "trigger"  -> [k EXCEPT !.pc = "announce", !.svc = s]
    [] OTHER             -> [k EXCEPT !.pc = "put", !.svc = s, !.read = Embeds(s, k.on)]

\* The tenant's service is cached, or its configuration is read; a failing read
\* is taken for no override.
Lookup(t) ==
  LET k == task[t] IN
  /\ k.pc \in Resolving /\ ~k.asked
  /\ \/ own[k.on] # None /\ Goes(t, Resolved(t, own[k.on]), {}) /\ UNCHANGED events
     \/ /\ own[k.on] = None /\ UNCHANGED events
        /\ Goes(t, [k EXCEPT !.asked = TRUE, !.read = override], {})
     \/ /\ own[k.on] = None /\ Event
        /\ Goes(t, [k EXCEPT !.asked = TRUE, !.read = None, !.disturbed = TRUE], {})
  /\ UNCHANGED <<config, status, age, services, vectors, history>>

\* Without an override the task gets the proxy; else the service is built and
\* cached, whatever has become of the override meanwhile.
Build(t) ==
  LET k == task[t] IN
  /\ k.pc \in Resolving /\ k.asked
  /\ own' = IF k.read = None THEN own ELSE [own EXCEPT ![k.on] = k.read]
  /\ Goes(t, Resolved(t, k.read), IF k.read \in {None, override} THEN {} ELSE Beside(t))
  /\ UNCHANGED <<config, status, age, active, vectors, events, history>>

-----------------------------------------------------------------------------
(* update_embedding_config, update_tenant_embedding_config and             *)
(* reset_tenant_embedding_config                                           *)

Fresh(s) == status[s] = "running" /\ age[s] < Stale

\* 409 while a reprovision runs.
Change(a, r, s) ==
  /\ ~Running(a) /\ a = Slot(Admins)
  /\ Event
  /\ ~Fresh(s)
  /\ Goes(a, [NoTask EXCEPT !.pc = "probe", !.on = r, !.scope = s], {})
  /\ UNCHANGED <<config, status, age, services, vectors, history>>

\* What may come of a request: a provider merged with the configuration there is,
\* validated and probed for its width; for a tenant, no override as well.
Candidates(s) == Versions \cup {v \in {None} : s = "tenant"}

\* The candidate is saved, or the override removed; a removal that found nothing is
\* the end of it.  Everybody at work for an earlier configuration is disturbed.
Save(a) == \E v \in Candidates(task[a].scope) :
  LET k == task[a] IN
  /\ k.pc = "probe"
  /\ IF k.scope = "platform" THEN platform' = v /\ UNCHANGED override
                             ELSE override' = v /\ UNCHANGED platform
  /\ Goes(a, [k EXCEPT !.pc = IF k.scope = "platform" THEN "reload" ELSE "invalidate",
                       !.goal = v, !.quiet = v = None /\ override = None,
                       !.disturbed = FALSE], Others(a))
  /\ UNCHANGED <<status, age, services, vectors, events, history>>

\* refresh_active_embedding_config reads the configuration again, that of the
\* environment when it cannot, ...
Reload(a) ==
  LET k == [task[a] EXCEPT !.pc = "activate"] IN
  /\ task[a].pc = "reload"
  /\ \/ Goes(a, [k EXCEPT !.read = platform], {}) /\ UNCHANGED events
     \/ Goes(a, [k EXCEPT !.read = 1, !.disturbed = TRUE], {}) /\ Event
  /\ UNCHANGED <<config, status, age, services, vectors, history>>

\* Mutant: the old provider stays.
ActivateNot(a) ==
  /\ task[a].pc = "activate"
  /\ Goes(a, To(a, "flag"), {})
  /\ UNCHANGED <<config, status, age, services, vectors, events, history>>

\* Who embeds one thing after another with the proxy of replica r.
Migrating(r) == \E j \in Jobs : /\ On(j) = r /\ task[j].svc = Proxy
                                /\ task[j].pc \in {"reembed", "restore", "delete", "page"}

\* ... and _set_active makes it that of this process, and of no other.
Activate(a) ==
  LET k == task[a] IN
  /\ k.pc = "activate"
  /\ active' = [active EXCEPT ![k.on] = k.read]
  /\ history' = history \cup {h \in {"torn"} : active[k.on] # k.read /\ Migrating(k.on)}
  /\ Goes(a, To(a, "flag"), Beside(a))
  /\ UNCHANGED <<config, status, age, own, vectors, events>>

\* invalidate_tenant_embedding, once the write is acknowledged.  A task that is
\* reading the configuration may still cache what it read before.
Invalidate(a) ==
  /\ task[a].pc = "invalidate"
  /\ own' = [own EXCEPT ![On(a)] = None]
  /\ Goes(a, To(a, "flag"), {})
  /\ UNCHANGED <<config, status, age, active, vectors, events, history>>

Triggering(a) == task[a].pc \in {"trigger", "announce"}

\* The handler goes on to start a job; the takeover of one that is still marked
\* running is recorded.
Triggered(a) ==
  LET k == task[a] IN
  /\ Goes(a, To(a, IF k.scope = "tenant" THEN "trigger" ELSE "announce"), {})
  /\ history' = history \cup {h \in {"raced"} : status[k.scope] = "running" /\ ~Fresh(k.scope)}

\* Mutant: the status is not looked at.
TriggerUnchecked(a) ==
  /\ task[a].pc = "flag"
  /\ \/ Goes(a, NoTask, {}) /\ UNCHANGED history
     \/ ~task[a].quiet /\ Triggered(a)
  /\ UNCHANGED <<config, status, age, services, vectors, events>>

\* The request asked for a reprovision, or not.  trigger_reprovision reads the
\* status, and takes a failing read for idle; 409 again.
Trigger(a) ==
  /\ task[a].pc = "flag"
  /\ \/ Goes(a, NoTask, {}) /\ UNCHANGED <<events, history>>
     \/ ~task[a].quiet /\ ~Fresh(task[a].scope) /\ Triggered(a) /\ UNCHANGED events
     \/ /\ ~task[a].quiet /\ Event
        /\ Goes(a, To(a, IF task[a].scope = "tenant" THEN "trigger" ELSE "announce"), {})
        /\ history' = history \cup {"raced"}
  /\ UNCHANGED <<config, status, age, services, vectors>>

\* The status is set to running and the background task created; it inherits
\* what the handler set out to do.
Announce(a) ==
  LET k == task[a]
      j == Slot(Jobs)
      s == IF k.scope = "tenant" THEN "identify" ELSE "start" IN
  /\ k.pc = "announce" /\ ~Running(j)
  /\ history' = history \cup {h \in {"raced"} : \E b \in Admins \ {a} :
                                 Triggering(b) /\ task[b].scope = k.scope}
  /\ status' = [status EXCEPT ![k.scope] = "running"] /\ age' = [age EXCEPT ![k.scope] = 0]
  /\ task' = [task EXCEPT ![a] = NoTask,
                          ![j] = [NoTask EXCEPT !.pc = s, !.on = k.on, !.scope = k.scope,
                                                !.goal = k.goal, !.disturbed = k.disturbed]]
  /\ UNCHANGED <<config, services, vectors, events>>

-----------------------------------------------------------------------------
(* run_reprovision and run_tenant_reprovision                              *)

\* The status is set to running once more.
Start(j) ==
  LET k == task[j] IN
  /\ k.pc = "start"
  /\ status' = [status EXCEPT ![k.scope] = "running"] /\ age' = [age EXCEPT ![k.scope] = 0]
  /\ Goes(j, To(j, "resolve"), {})
  /\ UNCHANGED <<config, services, vectors, events, history>>

\* _reembed_tool_catalog: a window of rows is read and embedded at once, ...
Embed(j) ==
  LET k == task[j] IN
  /\ k.pc = "embed"
  /\ Goes(j, [k EXCEPT !.pc = "rows", !.read = Embeds(k.svc, k.on), !.todo = Rows], {})
  /\ UNCHANGED <<config, status, age, services, vectors, events, history>>

\* ... then written one by one.
WriteRow(j) == \E x \in task[j].todo :
  LET k == task[j] IN
  /\ k.pc = "rows"
  /\ catalog' = [catalog EXCEPT ![x] = k.read]
  /\ Goes(j, [k EXCEPT !.pc = IF k.todo = {x} THEN "drop" ELSE "rows", !.todo = @ \ {x}], Others(j))
  /\ UNCHANGED <<config, status, age, services, index, entries, events, history>>

\* _recreate_vector_index drops the index, which may fail unnoticed, ...
DropIndex(j) ==
  /\ task[j].pc = "drop"
  /\ index' \in {None, index}
  /\ Goes(j, To(j, "create"), Others(j))
  /\ UNCHANGED <<config, status, age, services, catalog, entries, events, history>>

\* ... and creates it, or updates the one there is.
CreateIndex(j) ==
  LET k == task[j] IN
  /\ k.pc = "create"
  /\ index' = k.width
  /\ Goes(j, To(j, "label"), Others(j))
  /\ UNCHANGED <<config, status, age, services, catalog, entries, events, history>>

\* The semantic cache: what is stale is decided once, when the migration begins.
Label(j) ==
  LET k == task[j] IN
  /\ k.pc = "label"
  /\ Goes(j, [k EXCEPT !.pc = "page", !.label = Embeds(k.svc, k.on)], {})
  /\ UNCHANGED <<config, status, age, services, vectors, events, history>>

StaleEntries(k) == {e \in entries : e.label # k.label}

\* A page of stale entries is read; the migration is over when there are none.
Page(j) ==
  LET k == task[j] IN
  /\ k.pc = "page"
  /\ Goes(j, [k EXCEPT !.pc = IF StaleEntries(k) # {} THEN "reembed"
                                ELSE IF k.scope = "platform" THEN "progress" ELSE "finish",
                       !.page = {<<e.key, e.label>> : e \in StaleEntries(k)},
                       !.todo = {e.key : e \in StaleEntries(k)}], {})
  /\ UNCHANGED <<config, status, age, services, vectors, events, history>>

Reembed(j) ==
  LET k == task[j] IN
  /\ k.pc = "reembed"
  /\ Goes(j, [k EXCEPT !.pc = "restore", !.read = Embeds(k.svc, k.on)], {})
  /\ UNCHANGED <<config, status, age, services, vectors, events, history>>

\* The entry of a key and a label is replaced, or inserted.
Upsert(k, l, v) == {e \in entries : e.key # k \/ e.label # l}
                     \cup {[key |-> k, label |-> l, vec |-> v]}

\* store: the vector was computed before, the label is that of the service now.
Restore(j) == \E x \in task[j].todo :
  LET k == task[j] IN
  /\ k.pc = "restore"
  /\ entries' = Upsert(x, Embeds(k.svc, k.on), k.read)
  /\ Goes(j, [k EXCEPT !.pc = IF k.todo = {x} THEN "delete" ELSE "restore", !.todo = @ \ {x}],
          Others(j))
  /\ UNCHANGED <<config, status, age, services, catalog, index, events, history>>

\* Mutant: the page is left in place.
DeleteNothing(j) ==
  /\ task[j].pc = "delete"
  /\ Goes(j, [task[j] EXCEPT !.pc = "page", !.page = {}], Others(j))
  /\ UNCHANGED <<config, status, age, services, vectors, events, history>>

\* The page is deleted by _id, the entries restored in place with it.
DeletePage(j) ==
  /\ task[j].pc = "delete"
  /\ entries' = {e \in entries : <<e.key, e.label>> \notin task[j].page}
  /\ Goes(j, [task[j] EXCEPT !.pc = "page", !.page = {}], Others(j))
  /\ UNCHANGED <<config, status, age, services, catalog, index, events, history>>

\* The platform's job writes running again after every tenant.
Progress(j) ==
  /\ task[j].pc = "progress"
  /\ status' = [status EXCEPT !["platform"] = "running"]
  /\ Goes(j, To(j, "finish"), {})
  /\ UNCHANGED <<config, age, services, vectors, events, history>>

Finish(j) ==
  /\ task[j].pc = "finish"
  /\ status' = [status EXCEPT ![task[j].scope] = "completed"]
  /\ Goes(j, NoTask, {})
  /\ UNCHANGED <<config, age, services, vectors, events, history>>

\* A call of the job raises: failed, if that can be written.
Fails(j) ==
  /\ task[j].pc \notin {"idle", "identify", "start"}
  /\ Event
  /\ status' \in {status, [status EXCEPT ![task[j].scope] = "failed"]}
  /\ Goes(j, NoTask, {})
  /\ UNCHANGED <<config, age, services, vectors, history>>

\* A request, or a job before its try block, raises: nothing is undone.
Raises(t) ==
  /\ \/ t \in Admins \cup Writers /\ Running(t)
     \/ t \in Jobs /\ task[t].pc \in {"identify", "start"}
  /\ Event
  /\ Goes(t, NoTask, {})
  /\ UNCHANGED <<config, status, age, services, vectors, history>>

-----------------------------------------------------------------------------
(* Writers of vectors                                                      *)

\* A tool call that will be cached.
Call(w, r) == \E k \in Keys :
  /\ ~Running(w)
  /\ Event
  /\ Goes(w, [NoTask EXCEPT !.pc = "store", !.on = r, !.todo = {k}], {})
  /\ UNCHANGED <<config, status, age, services, vectors, history>>

\* sync_server_catalog reads a row; a changed one is embedded, always with the
\* proxy, any other keeps the vector that was read.
Sync(w, r) == \E x \in Rows :
  /\ ~Running(w)
  /\ Event
  /\ \E v \in {catalog[x], active[r]} :
       Goes(w, [NoTask EXCEPT !.pc = "upsert", !.on = r, !.read = v, !.todo = {x}], {})
  /\ UNCHANGED <<config, status, age, services, vectors, history>>

\* Mutant: the label is that of the process, not of the tenant's service.
PutGlobalLabel(w) == \E k \in task[w].todo :
  /\ task[w].pc = "put"
  /\ entries' = Upsert(k, active[On(w)], task[w].read)
  /\ Goes(w, NoTask, Others(w))
  /\ UNCHANGED <<config, status, age, services, catalog, index, events, history>>

\* store labels and embeds with the same service in one go.
Put(w) == \E k \in task[w].todo :
  /\ task[w].pc = "put"
  /\ entries' = Upsert(k, task[w].read, task[w].read)
  /\ Goes(w, NoTask, Others(w))
  /\ UNCHANGED <<config, status, age, services, catalog, index, events, history>>

SyncRow(w) == \E x \in task[w].todo :
  /\ task[w].pc = "upsert"
  /\ catalog' = [catalog EXCEPT ![x] = task[w].read]
  /\ Goes(w, NoTask, Others(w))
  /\ UNCHANGED <<config, status, age, services, index, entries, events, history>>

-----------------------------------------------------------------------------
(* The environment                                                         *)

Tick ==
  /\ \E s \in Scopes : age[s] < Stale
  /\ age' = [s \in Scopes |-> IF age[s] < Stale THEN age[s] + 1 ELSE age[s]]
  /\ UNCHANGED <<config, status, services, vectors, task, events, history>>

\* app_lifespan loads the configuration; the default serves when it cannot.
Crash(r) ==
  /\ Event
  /\ active' \in {[active EXCEPT ![r] = v] : v \in {1, platform}}
  /\ own' = [own EXCEPT ![r] = None]
  /\ task' = [t \in Tasks |-> IF On(t) = r THEN NoTask ELSE task[t]]
  /\ UNCHANGED <<config, status, age, vectors, history>>

-----------------------------------------------------------------------------
AdminStep(a) == \/ Save(a) \/ Reload(a) \/ Activate(a) \/ Invalidate(a) \/ Trigger(a)
                \/ Announce(a)
JobStep(j) == \/ Start(j) \/ Embed(j) \/ WriteRow(j) \/ DropIndex(j) \/ CreateIndex(j)
              \/ Label(j) \/ Page(j) \/ Reembed(j) \/ Restore(j) \/ DeletePage(j)
              \/ Progress(j) \/ Finish(j)
WriterStep(w) == Put(w) \/ SyncRow(w)
Resolve(t) == Lookup(t) \/ Build(t)

Next == \/ \E t \in Tasks : Resolve(t) \/ Raises(t)
        \/ \E a \in Admins : AdminStep(a) \/ \E r \in Replicas, s \in Scopes : Change(a, r, s)
        \/ \E j \in Jobs : JobStep(j) \/ Fails(j)
        \/ \E w \in Writers : WriterStep(w) \/ \E r \in Replicas : Call(w, r) \/ Sync(w, r)
        \/ Tick \/ \E r \in Replicas : Crash(r)

Spec == Init /\ [][Next]_vars

\* The event loop runs every ready coroutine; requests, faults and the clock are free.
FairSpec == /\ Spec
            /\ \A j \in Jobs : WF_vars(JobStep(j) \/ Resolve(j))

-----------------------------------------------------------------------------
(* Properties                                                              *)

\* A change that asks for a reprovision and that nobody interferes with leaves
\* the tenant in one vector space, the one that was saved: every row of the
\* catalog, the width of its index and every cached result.  (Interference is a
\* later change, another job, another service of the process, a catalog
\* synchronization or a cached call while it runs: none of them is excluded.)  A
\* cached result may keep another vector if its label is false (LabelsAreTrue).
UndisturbedIsUniform ==
  \A j \in Jobs :
    LET k == task[j]  v == Embeds(k.svc, k.on) IN
    k.pc \in {"progress", "finish"} /\ ~k.disturbed =>
      /\ (k.goal # None /\ (k.scope = "platform" => k.svc = Proxy)) => v = k.goal
      /\ \A x \in Rows : catalog[x] = v
      /\ index = v
      /\ \A e \in entries : e.label = v /\ (e.vec = v \/ "torn" \in history)

\* A cached vector is what its label says, unless the active version changed
\* while a migration of the same process ran: store takes the label from the
\* service and the vector from its caller.
LabelsAreTrue == "torn" \in history \/ \A e \in entries : e.vec = e.label

\* Two reprovisions of one scope run at once only if the second was triggered
\* between the first's check of the status and its setting of it, or could not read
\* it, or took over one marked running for longer than _REPROVISION_STALE_SECONDS.
OneJobUnlessRaced ==
  "raced" \in history \/ \A i, j \in Jobs :
    Running(i) /\ Running(j) /\ task[i].scope = task[j].scope => i = j

Alone == \E j \in Jobs : Running(j) /\ \A i \in Jobs \ {j} : ~Running(i)

\* A reprovision that runs alone ends, although the migration of the cache reads
\* pages until it finds nothing stale and calls store results meanwhile.  (Two of
\* them with different versions can chase each other's entries for ever: nothing
\* keeps a tenant's job from running beside the platform's.)
LoneJobEnds == Alone ~> ~Alone
=============================================================================

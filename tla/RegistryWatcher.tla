--------------------------- MODULE RegistryWatcher ---------------------------
(***************************************************************************)
(* How a change of routing_registry reaches the memory of every gateway    *)
(* replica: the admin handlers of gateway/routers/admin/servers.py, the    *)
(* seeders, mount_or_update and unmount of services/proxy_registry.py, and *)
(* the change-stream watcher of services/registry_watcher.py with its      *)
(* persisted resume token.                                                 *)
(*                                                                         *)
(* A handler writes the document and then mounts or unmounts the server on *)
(* its own replica; the other replicas, and once more its own, learn of it *)
(* from their watchers.  Mounting is two steps with awaits in between: the *)
(* replica's memory, and the tenant's tool_catalog, which all share.       *)
(***************************************************************************)
EXTENDS Naturals, Sequences

CONSTANTS
  Replicas,   \* gateway processes, each with a stable GATEWAY_INSTANCE_ID
  Servers,    \* names of downstream servers
  Admins,     \* concurrently running handlers and seeders
  MaxWrites,  \* bound on the requests that change routing_registry
  MaxFaults   \* bound on crashes, lost histories and failed operations

ASSUME WatcherAssumption ==
  /\ MaxWrites \in Nat /\ MaxFaults \in Nat /\ Replicas \cap Admins = {}
  /\ Replicas # {} /\ Servers # {}

VARIABLES
  docs,     \* routing_registry
  log,      \* its change-stream history
  catalog,  \* the version of every server whose tools tool_catalog lists, or None
  mounted,  \* _servers of every replica: the version it mounted, or None
  token,    \* the resume token in watcher_state; 0 when there is none
  w,        \* where every watcher is
  resume,   \* its own copy of the token
  at,       \* how much of the history its stream has delivered
  todo,     \* servers its initial sync has still to mount, with their versions
  job,      \* the mount or unmount a watcher or an admin is carrying out
  req,      \* the request every admin handles
  issued,   \* requests so far, which also number the versions of the documents
  faults,   \* faults so far
  seen,     \* history: the changes every replica has dealt with
  anchor,   \* history: where its stream first began, or began afresh
  missed    \* history: the replica was not told everything (see Expected)

database == <<docs, log, catalog, token>>
watcher == <<w, resume, at, todo>>
history == <<seen, anchor, missed>>
vars == <<database, mounted, watcher, job, req, issued, faults, history>>

None == 0
NoDoc == [ver |-> None, enabled |-> FALSE]
NoJob == [op |-> "none", server |-> CHOOSE s \in Servers : TRUE, ver |-> None, step |-> "memory"]
NoReq == [op |-> "none", server |-> CHOOSE s \in Servers : TRUE, ver |-> None,
          enabled |-> FALSE, on |-> CHOOSE r \in Replicas : TRUE, step |-> "idle"]

Workers == Replicas \cup Admins
ReplicaOf(x) == IF x \in Replicas THEN x ELSE req[x].on

Init == /\ docs = [s \in Servers |-> NoDoc]
        /\ log = <<>>
        /\ catalog = [s \in Servers |-> None]
        /\ mounted = [r \in Replicas |-> [s \in Servers |-> None]]
        /\ token = [r \in Replicas |-> 0]
        /\ w = [r \in Replicas |-> "load"]
        /\ resume = [r \in Replicas |-> 0]
        /\ at = [r \in Replicas |-> 0]
        /\ todo = [r \in Replicas |-> {}]
        /\ job = [x \in Workers |-> NoJob]
        /\ req = [a \in Admins |-> NoReq]
        /\ issued = 0 /\ faults = 0
        /\ seen = [r \in Replicas |-> {}]
        /\ anchor = [r \in Replicas |-> 0]
        /\ missed = [r \in Replicas |-> FALSE]

GoTo(r, s) == w' = [w EXCEPT ![r] = s]
Fault == faults < MaxFaults /\ faults' = faults + 1
Miss(r) == missed' = [missed EXCEPT ![r] = TRUE]

MountJob(s, v) == [op |-> "mount", server |-> s, ver |-> v, step |-> "memory"]
UnmountJob(s) == [op |-> "unmount", server |-> s, ver |-> None, step |-> "memory"]
\* What to do about a document: mount it when enabled, unmount it otherwise.
JobFor(s, d) == IF d.enabled THEN MountJob(s, d.ver) ELSE UnmountJob(s)

-----------------------------------------------------------------------------
(* mount_or_update and unmount                                             *)

\* The changes a watcher has dealt with, once it is done with the current one.
Handled(x) == seen' = IF x \in Replicas /\ w[x] = "save"
                        THEN [seen EXCEPT ![x] = @ \cup {at[x]}] ELSE seen

\* The handler of admin a goes on: a seeder writes its document, others answer.
Proceed(a) == req' = [req EXCEPT ![a] = IF @.op = "seed" /\ @.step = "mount"
                                          THEN [@ EXCEPT !.step = "write"] ELSE NoReq]

\* _servers is updated under the registry's lock.
Memory(x) ==
  LET j == job[x] IN
  /\ j.op # "none" /\ j.step = "memory"
  /\ mounted' = [mounted EXCEPT ![ReplicaOf(x)][j.server] = j.ver]
  /\ job' = [job EXCEPT ![x].step = "catalog"]
  /\ UNCHANGED <<database, watcher, req, issued, faults, history>>

\* The client is evicted and the credential dropped; then the rows of the
\* server are upserted, after it was asked for its tools, or deleted.  Neither closing
\* the client nor asking has a deadline: the step may never end.  (Rows of tools the new version no longer
\* has are not deleted: the model keeps the version synchronized last.)
Catalog(x) ==
  LET j == job[x] IN
  /\ j.op # "none" /\ j.step = "catalog"
  /\ catalog' = [catalog EXCEPT ![j.server] = j.ver]
  /\ job' = [job EXCEPT ![x] = NoJob]
  /\ IF x \in Admins THEN Proceed(x) ELSE UNCHANGED req
  /\ Handled(x)
  /\ UNCHANGED <<docs, log, token, mounted, watcher, issued, faults, anchor, missed>>

\* discover_tools cannot reach the downstream server: no row, and no error.
DiscoveryFails(x) ==
  LET j == job[x] IN
  /\ j.op = "mount" /\ j.step = "catalog"
  /\ Fault
  /\ job' = [job EXCEPT ![x] = NoJob]
  /\ IF x \in Admins THEN Proceed(x) ELSE UNCHANGED req
  /\ Handled(x)
  /\ UNCHANGED <<database, mounted, watcher, issued, anchor, missed>>

\* The operation raises before or after the memory was updated.  A watcher
\* logs it and goes on, a handler answers an error, a seeder cleans up.
JobFails(x) ==
  /\ job[x].op # "none"
  /\ Fault
  /\ Handled(x)
  /\ IF x \in Admins /\ req[x].op = "seed" /\ req[x].step = "mount"
       THEN /\ job' = [job EXCEPT ![x] = UnmountJob(job[x].server)]
            /\ req' = [req EXCEPT ![x].step = "cleanup"]
            /\ UNCHANGED missed
       ELSE /\ job' = [job EXCEPT ![x] = NoJob]
            /\ IF x \in Admins
                 THEN req' = [req EXCEPT ![x] = NoReq]
                 ELSE UNCHANGED req
            /\ IF x \in Replicas \/ req[x].step = "cleanup"
                 THEN Miss(ReplicaOf(x)) ELSE UNCHANGED missed
  /\ UNCHANGED <<database, mounted, watcher, issued, anchor>>

-----------------------------------------------------------------------------
(* The admin handlers and the seeders                                      *)

Accept(a) == /\ req[a].step = "idle"
             /\ issued < MaxWrites /\ issued' = issued + 1
Request(op, s, v, e, r, step) ==
  [op |-> op, server |-> s, ver |-> v, enabled |-> e, on |-> r, step |-> step]

\* POST /servers and PATCH /servers/{server}, after their checks.
Put(a, r, s) == \E e \in BOOLEAN :
  /\ Accept(a)
  /\ req' = [req EXCEPT ![a] = Request("put", s, issued + 1, e, r, "write")]
  /\ UNCHANGED <<database, mounted, watcher, job, faults, history>>

\* POST /servers/{server}/enable and /disable, which read the document first.
Toggle(a, r, s) == \E e \in BOOLEAN :
  /\ Accept(a) /\ docs[s] # NoDoc
  /\ req' = [req EXCEPT ![a] = Request("toggle", s, docs[s].ver, e, r, "write")]
  /\ UNCHANGED <<database, mounted, watcher, job, faults, history>>

\* DELETE /servers/{server}.
Delete(a, r, s) ==
  /\ Accept(a)
  /\ req' = [req EXCEPT ![a] = Request("delete", s, None, FALSE, r, "write")]
  /\ UNCHANGED <<database, mounted, watcher, job, faults, history>>

\* seed_starter_server and _seed_server mount the server of a new tenant first.
Seed(a, r, s) ==
  /\ Accept(a) /\ docs[s] = NoDoc
  /\ req' = [req EXCEPT ![a] = Request("seed", s, issued + 1, TRUE, r, "mount")]
  /\ job' = [job EXCEPT ![a] = MountJob(s, issued + 1)]
  /\ UNCHANGED <<database, mounted, watcher, faults, history>>

\* A change that no stream will deliver to the watcher, because it comes before
\* its stream begins, and that its listing came too early for, or cannot undo.
Unanchored(r, s) == \/ w[r] \in {"sync", "open"} /\ resume[r] = 0
                    \/ w[r] \in {"load", "list"} /\ mounted[r][s] # None
Change(s, d, op) ==
  /\ docs' = [docs EXCEPT ![s] = d]
  /\ log' = Append(log, [server |-> s, op |-> op, doc |-> d])
  /\ missed' = [r \in Replicas |-> missed[r] \/ Unanchored(r, s)]
NoChange == UNCHANGED <<docs, log, missed>>

\* replace_one, update_one (nothing to match, or nothing to modify, makes no
\* event) or delete_many; then the handler turns to its own replica.
Write(a) ==
  LET k == req[a]  d == [ver |-> k.ver, enabled |-> k.enabled] IN
  /\ k.step = "write"
  /\ \/ k.op \in {"put", "seed"} /\ Change(k.server, d, "replace")
     \/ k.op = "toggle" /\ IF docs[k.server] = NoDoc \/ docs[k.server].enabled = k.enabled
                               THEN NoChange
                               ELSE Change(k.server, [docs[k.server] EXCEPT !.enabled = k.enabled],
                                           "update")
     \/ k.op = "delete" /\ IF docs[k.server] = NoDoc THEN NoChange
                             ELSE Change(k.server, NoDoc, "delete")
  /\ IF k.op = "seed" \/ (k.op = "delete" /\ docs[k.server] = NoDoc)
       THEN req' = [req EXCEPT ![a] = NoReq] /\ UNCHANGED job
       ELSE /\ req' = [req EXCEPT ![a].step = "job"]
            /\ job' = [job EXCEPT ![a] = JobFor(k.server, d)]
  /\ UNCHANGED <<catalog, token, mounted, watcher, issued, faults, seen, anchor>>

\* The write fails: the handler answers an error, a seeder cleans up.
WriteFails(a) ==
  /\ req[a].step = "write"
  /\ Fault
  /\ IF req[a].op = "seed"
       THEN /\ req' = [req EXCEPT ![a].step = "cleanup"]
            /\ job' = [job EXCEPT ![a] = UnmountJob(req[a].server)]
       ELSE req' = [req EXCEPT ![a] = NoReq] /\ UNCHANGED job
  /\ UNCHANGED <<database, mounted, watcher, issued, history>>

-----------------------------------------------------------------------------
(* The watcher                                                             *)

\* A saved token means that the initial sync is skipped.
Load(r) ==
  /\ w[r] = "load"
  /\ resume' = [resume EXCEPT ![r] = token[r]]
  /\ IF token[r] = 0 THEN GoTo(r, "list") /\ UNCHANGED missed
                     ELSE GoTo(r, "open") /\ Miss(r)
  /\ UNCHANGED <<database, mounted, at, todo, job, req, issued, faults, seen, anchor>>

\* _initial_sync_all_tenants reads the enabled documents, then mounts each.
List(r) ==
  /\ w[r] = "list"
  /\ todo' = [todo EXCEPT ![r] = {<<s, docs[s].ver>> : s \in {x \in Servers : docs[x].enabled}}]
  /\ GoTo(r, "sync")
  /\ UNCHANGED <<database, mounted, resume, at, job, req, issued, faults, history>>

SyncNext(r) ==
  /\ w[r] = "sync" /\ job[r].op = "none"
  /\ \/ \E p \in todo[r] : /\ job' = [job EXCEPT ![r] = MountJob(p[1], p[2])]
                           /\ todo' = [todo EXCEPT ![r] = @ \ {p}]
                           /\ UNCHANGED w
     \/ todo[r] = {} /\ GoTo(r, "open") /\ UNCHANGED <<todo, job>>
  /\ UNCHANGED <<database, mounted, resume, at, req, issued, faults, history>>

\* Mutant: a watcher that cannot open its stream without a token.
OpenNeedsToken(r) ==
  /\ w[r] = "open" /\ resume[r] # 0
  /\ at' = [at EXCEPT ![r] = resume[r]]
  /\ GoTo(r, "tail")
  /\ UNCHANGED <<database, mounted, resume, todo, job, req, issued, faults, history>>

\* The stream goes on after the token, or begins now.
Open(r) ==
  /\ w[r] = "open"
  /\ at' = [at EXCEPT ![r] = IF resume[r] = 0 THEN Len(log) ELSE resume[r]]
  /\ anchor' = [anchor EXCEPT ![r] = IF resume[r] = 0 THEN Len(log) ELSE @]
  /\ GoTo(r, "tail")
  /\ UNCHANGED <<database, mounted, resume, todo, job, req, issued, faults, seen, missed>>

\* The document an event carries; that of an update is looked up on delivery.
FullDocument(e) == IF e.op = "update" THEN docs[e.server] ELSE e.doc

\* Mutant: the watcher ignores the disabling of a server.
EventJobEnabledOnly(e) == IF FullDocument(e).enabled
                            THEN MountJob(e.server, FullDocument(e).ver) ELSE NoJob

\* _apply_change; an update whose document has gone is ignored.
EventJob(e) == IF e.op = "update" /\ FullDocument(e) = NoDoc THEN NoJob
               ELSE JobFor(e.server, FullDocument(e))

Deliver(r) ==
  LET e == log[at[r] + 1] IN
  /\ w[r] = "tail" /\ at[r] < Len(log)
  /\ at' = [at EXCEPT ![r] = @ + 1]
  /\ GoTo(r, "save")
  /\ job' = [job EXCEPT ![r] = EventJob(e)]
  /\ seen' = IF EventJob(e) = NoJob THEN [seen EXCEPT ![r] = @ \cup {at[r] + 1}] ELSE seen
  /\ UNCHANGED <<database, mounted, resume, todo, req, issued, faults, anchor, missed>>

\* The tenant of the database cannot be looked up: the event is dropped.
TenantLookupFails(r) ==
  /\ w[r] = "tail" /\ at[r] < Len(log)
  /\ Fault
  /\ at' = [at EXCEPT ![r] = @ + 1]
  /\ GoTo(r, "save")
  /\ seen' = [seen EXCEPT ![r] = @ \cup {at[r] + 1}]
  /\ Miss(r)
  /\ UNCHANGED <<database, mounted, resume, todo, job, req, issued, anchor>>

\* Mutant: the token is saved before the change was applied.
SaveEarly(r) ==
  /\ w[r] = "save"
  /\ resume' = [resume EXCEPT ![r] = at[r]]
  /\ token' = [token EXCEPT ![r] = at[r]]
  /\ IF job[r].op = "none" THEN GoTo(r, "tail") ELSE UNCHANGED w
  /\ UNCHANGED <<docs, log, catalog, mounted, at, todo, job, req, issued, faults, history>>

\* _save_resume_token once the change was applied or has failed.
Save(r) ==
  /\ w[r] = "save" /\ job[r].op = "none"
  /\ resume' = [resume EXCEPT ![r] = at[r]]
  /\ token' = [token EXCEPT ![r] = at[r]]
  /\ GoTo(r, "tail")
  /\ UNCHANGED <<docs, log, catalog, mounted, at, todo, job, req, issued, faults, history>>

\* The token is kept in memory only; the loop sleeps and opens a new stream.
SaveFails(r) ==
  /\ w[r] = "save" /\ job[r].op = "none"
  /\ Fault
  /\ resume' = [resume EXCEPT ![r] = at[r]]
  /\ GoTo(r, "open")
  /\ UNCHANGED <<database, mounted, at, todo, job, req, issued, history>>

\* The stream fails: sleep and open another one.  Before the first event there
\* is no token, and what the stream had not delivered yet is lost.
StreamBreaks(r) ==
  /\ w[r] = "tail"
  /\ Fault
  /\ GoTo(r, "open")
  /\ IF resume[r] = 0 /\ at[r] < Len(log) THEN Miss(r) ELSE UNCHANGED missed
  /\ UNCHANGED <<database, mounted, resume, at, todo, job, req, issued, seen, anchor>>

\* An error that no stream survives (history lost, the token unusable) when it is
\* opened or read.
NonResumable(r) == w[r] = "tail" \/ (w[r] = "open" /\ resume[r] # 0)

\* The token is cleared and everything synchronized afresh, which mounts what is
\* enabled and unmounts nothing.
HistoryLost(r) ==
  /\ NonResumable(r)
  /\ Fault
  /\ resume' = [resume EXCEPT ![r] = 0]
  /\ token' = [token EXCEPT ![r] = 0]
  /\ GoTo(r, "list")
  /\ Miss(r)
  /\ UNCHANGED <<docs, log, catalog, mounted, at, todo, job, req, issued, seen, anchor>>

\* Reading the token, listing the documents or clearing the token fails: nothing
\* catches it, and the task ends for the lifetime of the process.
WatcherDies(r) ==
  /\ \/ w[r] \in {"load", "list", "sync"} /\ job[r].op = "none"
     \/ NonResumable(r)
  /\ Fault
  /\ GoTo(r, "dead")
  /\ Miss(r)
  /\ UNCHANGED <<database, mounted, resume, at, todo, job, req, issued, seen, anchor>>

\* watcher_state documents have a TTL.
TokenExpires(r) ==
  /\ token[r] # 0 /\ w[r] # "save"
  /\ token' = [token EXCEPT ![r] = 0]
  /\ UNCHANGED <<docs, log, catalog, mounted, watcher, job, req, issued, faults, history>>

\* The process dies, with the handlers it runs, and starts again.
Crash(r) ==
  /\ Fault
  /\ mounted' = [mounted EXCEPT ![r] = [s \in Servers |-> None]]
  /\ GoTo(r, "load")
  /\ resume' = [resume EXCEPT ![r] = 0]
  /\ at' = [at EXCEPT ![r] = 0]
  /\ todo' = [todo EXCEPT ![r] = {}]
  /\ job' = [x \in Workers |-> IF ReplicaOf(x) = r THEN NoJob ELSE job[x]]
  /\ req' = [a \in Admins |-> IF req[a].on = r THEN NoReq ELSE req[a]]
  /\ missed' = [missed EXCEPT ![r] = FALSE]
  /\ UNCHANGED <<database, issued, seen, anchor>>

-----------------------------------------------------------------------------
WatcherStep(r) == Load(r) \/ List(r) \/ SyncNext(r) \/ Open(r) \/ Deliver(r) \/ Save(r)
JobStep(x) == Memory(x) \/ Catalog(x)

Next == \/ \E r \in Replicas : \/ WatcherStep(r) \/ TenantLookupFails(r) \/ SaveFails(r)
                               \/ StreamBreaks(r) \/ HistoryLost(r) \/ WatcherDies(r)
                               \/ TokenExpires(r) \/ Crash(r)
        \/ \E x \in Workers : JobStep(x) \/ DiscoveryFails(x) \/ JobFails(x)
        \/ \E a \in Admins : \/ Write(a) \/ WriteFails(a)
                             \/ \E r \in Replicas, s \in Servers :
                                  Put(a, r, s) \/ Toggle(a, r, s) \/ Delete(a, r, s)
                                  \/ Seed(a, r, s)

Spec == Init /\ [][Next]_vars

\* The event loop runs every ready coroutine; no downstream server has to answer.
FairSpec == /\ Spec
            /\ \A r \in Replicas : WF_vars(WatcherStep(r))
            /\ \A x \in Workers : WF_vars(Memory(x))

-----------------------------------------------------------------------------
(* Properties                                                              *)

Docs == [ver: 0..MaxWrites, enabled: BOOLEAN]
Jobs == [op: {"none", "mount", "unmount"}, server: Servers, ver: 0..MaxWrites,
         step: {"memory", "catalog"}]
Requests == [op: {"none", "put", "toggle", "delete", "seed"}, server: Servers,
             ver: 0..MaxWrites, enabled: BOOLEAN, on: Replicas,
             step: {"idle", "write", "job", "mount", "cleanup"}]
Events == [server: Servers, op: {"replace", "update", "delete"}, doc: Docs]

\* Every variable has its type; no stream and no token is past the end of the
\* change log.
TypeOK ==
  /\ docs \in [Servers -> Docs] /\ log \in Seq(Events)
  /\ catalog \in [Servers -> 0..MaxWrites]
  /\ mounted \in [Replicas -> [Servers -> 0..MaxWrites]]
  /\ token \in [Replicas -> Nat] /\ resume \in [Replicas -> Nat] /\ at \in [Replicas -> Nat]
  /\ \A r \in Replicas : token[r] <= Len(log) /\ resume[r] <= Len(log) /\ at[r] <= Len(log)
  /\ w \in [Replicas -> {"load", "list", "sync", "open", "tail", "save", "dead"}]
  /\ todo \in [Replicas -> SUBSET (Servers \X (0..MaxWrites))]
  /\ job \in [Workers -> Jobs] /\ req \in [Admins -> Requests]
  /\ issued \in 0..MaxWrites /\ faults \in 0..MaxFaults
  /\ seen \in [Replicas -> SUBSET Nat] /\ anchor \in [Replicas -> Nat]
  /\ missed \in [Replicas -> BOOLEAN]

\* The persisted resume token never runs ahead of the work: every change
\* between the beginning of a replica's stream and its token has been applied
\* by it, or has failed there, whatever crashed in between (_watch_loop saves
\* the token after _apply_change).
AtLeastOnce ==
  \A r \in Replicas : \A n \in (anchor[r] + 1)..token[r] : n \in seen[r]

\* The watcher is in the second step of a mount or an unmount.
Waiting(r) == job[r].op # "none" /\ job[r].step = "catalog"
CaughtUp(r) == w[r] = "tail" /\ at[r] = Len(log)
Quiet == \A a \in Admins : req[a].step = "idle"
Expected(s) == IF docs[s].enabled THEN docs[s].ver ELSE None

\* A replica that has read its stream to the end has mounted exactly the
\* enabled servers, at their latest versions, however the watcher and the
\* handlers interleaved, unless it missed something: a change between its
\* initial sync and its first event's token, an event that failed, a lost
\* history, or the servers it had before a restart that found a token.
Converged ==
  Quiet => \A r \in Replicas : CaughtUp(r) /\ ~missed[r] =>
             \A s \in Servers : mounted[r][s] = Expected(s)

\* No crash, broken stream or lost history keeps a replica from reading its
\* stream to the end: whatever was changed, every watcher whose task has not
\* ended catches up with it, unless it waits for ever for a server it closes its
\* session with or asks for its tools (it applies one change after another).
EveryWatcherCatchesUp ==
  \A r \in Replicas : []<>(CaughtUp(r) \/ w[r] = "dead") \/ <>[]Waiting(r)
=============================================================================

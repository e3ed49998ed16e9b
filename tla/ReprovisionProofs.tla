--------------------------- MODULE ReprovisionProofs ---------------------------
(***************************************************************************)
(* Proofs about Reprovision, for any number of replicas, requests, jobs,   *)
(* writers and versions: one reprovision of a scope at a time, true labels *)
(* in the semantic cache, and one vector space after a change that nobody  *)
(* interferes with.  None of the three is inductive.  RaceInv says what    *)
(* the status tells of the jobs; LabelInv that a migration still has the   *)
(* service that made its vectors; Knows says what an undisturbed request   *)
(* or job knows, at every one of its steps, of the configuration, of the   *)
(* services of its process and of the vectors written so far.              *)
(***************************************************************************)
EXTENDS Reprovision, TLAPS

AdminPcs == {"idle", "probe", "reload", "activate", "invalidate", "flag", "trigger", "announce"}
\* What a job does once it has its service.
Rebuilding == {"embed", "rows", "drop", "create", "label", "page", "reembed", "restore",
               "delete", "progress", "finish"}
JobPcs == {"idle", "identify", "start", "resolve"} \cup Rebuilding
WriterPcs == {"idle", "store", "put", "upsert"}
Pcs == AdminPcs \cup JobPcs \cup WriterPcs
Services == Versions \cup {None}

Task == [pc : Pcs, on : Replicas, scope : Scopes, svc : Services, asked : BOOLEAN,
         read : Services, width : Services, label : Services, goal : Services,
         todo : SUBSET (Rows \cup Keys), page : SUBSET (Keys \X Versions),
         quiet : BOOLEAN, disturbed : BOOLEAN]

\* The shape of a request, a job and a writer at each of their steps.
AdminShape(a) ==
  LET k == task[a] IN
  /\ k.pc \in AdminPcs
  /\ k.pc \in {"invalidate", "trigger"} => k.scope = "tenant"
  /\ k.pc \in {"reload", "activate"} => k.scope = "platform"
  /\ k.pc = "activate" => k.read \in Versions
  /\ k.asked => k.pc = "trigger"
JobShape(j) ==
  LET k == task[j] IN
  /\ k.pc \in JobPcs
  /\ k.pc = "identify" => k.scope = "tenant"
  /\ k.pc = "progress" => k.scope = "platform"
  /\ k.pc \in {"rows", "restore"} => k.read \in Versions
  /\ k.pc = "rows" => k.todo \subseteq Rows
  /\ k.pc \in {"reembed", "restore"} => k.todo \subseteq Keys
  /\ k.asked => k.pc \in {"identify", "resolve"}
WriterShape(w) ==
  LET k == task[w] IN
  /\ k.pc \in WriterPcs
  /\ k.pc \in {"store", "put"} => k.todo \subseteq Keys
  /\ k.pc = "upsert" => k.todo \subseteq Rows
  /\ k.pc \in {"put", "upsert"} => k.read \in Versions
  /\ k.asked => k.pc = "store"
Shaped == /\ \A a \in Admins : AdminShape(a)
          /\ \A j \in Jobs : JobShape(j)
          /\ \A w \in Writers : WriterShape(w)

DataOK ==
  /\ platform \in Versions /\ override \in Services
  /\ status \in [Scopes -> {"idle", "running", "completed", "failed"}]
  /\ age \in [Scopes -> 0..Stale]
  /\ active \in [Replicas -> Versions] /\ own \in [Replicas -> Services]
  /\ catalog \in [Rows -> Versions] /\ index \in Services /\ entries \subseteq Entries
  /\ events \in 0..MaxEvents /\ history \subseteq {"torn", "raced"}

TypeOK == DataOK /\ task \in [Tasks -> Task]

\* What the status tells of the jobs, and of those who are about to start one.
RaceInv ==
  \/ "raced" \in history
  \/ /\ \A j \in Jobs : Running(j) => status[task[j].scope] = "running"
     /\ \A j \in Jobs, a \in Admins : Running(j) /\ Triggering(a) => task[a].scope # task[j].scope
     /\ \A i, j \in Jobs : Running(i) /\ Running(j) /\ task[i].scope = task[j].scope => i = j

\* What is about to be stored was made by the service that will label it.
LabelInv ==
  \/ "torn" \in history
  \/ /\ \A e \in entries : e.vec = e.label
     /\ \A j \in Jobs : task[j].pc = "restore" =>
          task[j].read = Embeds(task[j].svc, task[j].on)

\* An undisturbed request finds what it saved, in the document and then in its process.
AdminKnows(a) ==
  LET k == task[a] IN
  ~k.disturbed =>
    /\ k.scope = "platform" =>
         /\ k.pc \in {"reload", "activate", "flag", "announce"} =>
              platform = k.goal /\ k.goal \in Versions
         /\ k.pc = "activate" => k.read = k.goal
         /\ k.pc \in {"flag", "announce"} => active[k.on] = k.goal
    /\ k.scope = "tenant" =>
         /\ k.pc \in {"invalidate", "flag", "trigger", "announce"} => override = k.goal
         /\ k.pc \in {"flag", "trigger", "announce"} => own[k.on] \in {None, k.goal}
         /\ k.asked => k.read = k.goal

\* An undisturbed job has the service of what was saved, and what it has rebuilt
\* was made by it.
JobKnows(j) ==
  LET k == task[j]  v == Embeds(k.svc, k.on) IN
  k.pc # "idle" /\ ~k.disturbed =>
    /\ k.scope = "platform" => k.goal \in Versions /\ active[k.on] = k.goal
    /\ k.scope = "tenant" =>
         /\ override = k.goal /\ own[k.on] \in {None, k.goal}
         /\ k.asked => k.read = k.goal
         /\ k.pc # "identify" => k.width = Embeds(k.goal, k.on)
         /\ k.pc \in Rebuilding => k.svc = k.goal
    /\ k.pc \in Rebuilding => k.width = v
    /\ k.pc = "rows" => k.read = v /\ \A x \in Rows \ k.todo : catalog[x] = v
    /\ k.pc \in Rebuilding \ {"embed", "rows"} => \A x \in Rows : catalog[x] = v
    /\ k.pc \in Rebuilding \ {"embed", "rows", "drop", "create"} => index = v
    /\ k.pc \in {"page", "reembed", "restore", "delete", "progress", "finish"} => k.label = v
    /\ k.pc \in {"progress", "finish"} => \A e \in entries : e.label = v

Knows == /\ \A a \in Admins : AdminKnows(a)
         /\ \A j \in Jobs : JobKnows(j)

IInv == TypeOK /\ Shaped /\ RaceInv /\ LabelInv /\ Knows

-----------------------------------------------------------------------------
(* What a step leaves alone                                                *)

\* Task u is where it was, with what it had; it may have been disturbed.
Kept(u) ==
  /\ task'[u].pc = task[u].pc /\ task'[u].on = task[u].on /\ task'[u].scope = task[u].scope
  /\ task'[u].svc = task[u].svc /\ task'[u].asked = task[u].asked
  /\ task'[u].read = task[u].read /\ task'[u].width = task[u].width
  /\ task'[u].label = task[u].label /\ task'[u].goal = task[u].goal
  /\ task'[u].todo = task[u].todo
  /\ task[u].disturbed => task'[u].disturbed

\* What u knows is still so; its process may have lost its service, or built the one
\* that the override asks for.
Quiet(u) == /\ UNCHANGED <<config, vectors>>
            /\ active'[On(u)] = active[On(u)]
            /\ own'[On(u)] \in {own[On(u)], None, override}

\* The kinds of tasks do not overlap.
LEMMA Kinds ==
  /\ \A a \in Admins : a \in Tasks /\ a \notin Writers /\ a \notin Jobs
  /\ \A j \in Jobs : j \in Tasks /\ j \notin Writers /\ j \notin Admins
  /\ \A w \in Writers : w \in Tasks /\ w \notin Admins /\ w \notin Jobs
BY EmbeddingAssumption DEF Tasks

\* None is not a version.
LEMMA Numbers == /\ None \notin Versions /\ None = Proxy /\ 1 \in Versions
                 /\ Versions \subseteq Services /\ None \in Services
BY EmbeddingAssumption DEF None, Proxy, Services

\* A task that does nothing has the type and the shape of any.
LEMMA NoTaskTyped == NoTask \in Task /\ NoTask.pc = "idle" /\ ~NoTask.asked
<1>1. (CHOOSE r \in Replicas : TRUE) \in Replicas
  BY EmbeddingAssumption
<1> QED
  BY <1>1, Numbers DEF NoTask, Task, Pcs, AdminPcs, Scopes

\* The task that takes a step goes where it says; the others stay where they are,
\* and those that it interferes with are marked.
LEMMA Moves ==
  ASSUME task \in [Tasks -> Task], NEW t \in Tasks, NEW n \in Task, NEW D, Goes(t, n, D)
  PROVE  /\ task' \in [Tasks -> Task] /\ task'[t] = n
         /\ \A u \in Tasks : u # t =>
              /\ Kept(u)
              /\ u \in D /\ u \notin Writers /\ Running(u) => task'[u].disturbed
<1> DEFINE T(u) == IF u = t THEN n
                   ELSE [task[u] EXCEPT !.disturbed = @ \/ (u \in D \ Writers /\ Running(u))]
<1>1. task' = [u \in Tasks |-> T(u)]
  BY DEF Goes
<1>2. ASSUME NEW u \in Tasks, u # t
      PROVE  /\ T(u) \in Task /\ T(u).pc = task[u].pc /\ T(u).on = task[u].on
             /\ T(u).scope = task[u].scope /\ T(u).svc = task[u].svc
             /\ T(u).asked = task[u].asked /\ T(u).read = task[u].read
             /\ T(u).width = task[u].width /\ T(u).label = task[u].label
             /\ T(u).goal = task[u].goal /\ T(u).todo = task[u].todo
             /\ task[u].disturbed => T(u).disturbed
             /\ u \in D /\ u \notin Writers /\ Running(u) => T(u).disturbed
  <2>1. task[u] \in Task
    OBVIOUS
  <2>2. T(u) = [task[u] EXCEPT !.disturbed =
                  task[u].disturbed \/ (u \in D \ Writers /\ Running(u))]
    BY <1>2
  <2> HIDE DEF T
  <2>3. CASE u \in D \ Writers /\ Running(u)
    BY <2>1, <2>2, <2>3 DEF Task
  <2>4. CASE ~(u \in D \ Writers /\ Running(u))
    BY <2>1, <2>2, <2>4 DEF Task
  <2> QED BY <2>3, <2>4
<1>3. \A u \in Tasks : task'[u] = T(u)
  BY <1>1
<1>4. T(t) = n
  OBVIOUS
<1> HIDE DEF T
<1>5. task' \in [Tasks -> Task] /\ task'[t] = n
  BY <1>1, <1>2, <1>4
<1> QED
  BY <1>2, <1>3, <1>5 DEF Kept

\* A task that is left where it was keeps its shape.
LEMMA ShapeKept ==
  ASSUME NEW u, Kept(u)
  PROVE  /\ AdminShape(u) => AdminShape(u)'
         /\ JobShape(u) => JobShape(u)'
         /\ WriterShape(u) => WriterShape(u)'
BY DEF Kept, AdminShape, JobShape, WriterShape

\* A request that nobody interferes with knows what it knew, ...
LEMMA AdminKept ==
  ASSUME NEW u, Kept(u), AdminShape(u), AdminKnows(u),
         task'[u].disturbed \/ ~Running(u) \/ Quiet(u)
  PROVE  AdminKnows(u)'
<1>1. CASE task'[u].disturbed
  BY <1>1 DEF AdminKnows
<1>2. CASE ~Running(u)
  BY <1>2 DEF AdminKnows, AdminShape, Kept, Running
<1>3. CASE Quiet(u)
  <2> SUFFICES ASSUME ~task'[u].disturbed PROVE AdminKnows(u)'
    BY DEF AdminKnows
  <2>1. CASE task[u].scope = "platform"
    BY <1>3, <2>1 DEF AdminKnows, Kept, Quiet, config, vectors, On
  <2>2. CASE task[u].scope # "platform"
    BY <1>3, <2>2 DEF AdminKnows, AdminShape, Kept, Quiet, config, vectors, On
  <2> QED BY <2>1, <2>2
<1> QED BY <1>1, <1>2, <1>3

\* ... and so does a job.
LEMMA JobKept ==
  ASSUME NEW u, Kept(u), JobKnows(u), task'[u].disturbed \/ ~Running(u) \/ Quiet(u)
  PROVE  JobKnows(u)'
<1>1. CASE task'[u].disturbed
  BY <1>1 DEF JobKnows
<1>2. CASE ~Running(u)
  BY <1>2 DEF JobKnows, Kept, Running
<1>3. CASE Quiet(u) /\ Running(u)
  <2> SUFFICES ASSUME ~task'[u].disturbed PROVE JobKnows(u)'
    BY DEF JobKnows
  <2> DEFINE k == task[u]
  <2>0. /\ k.pc # "idle" /\ ~k.disturbed
        /\ active'[k.on] = active[k.on] /\ own'[k.on] \in {own[k.on], None, override}
        /\ UNCHANGED <<platform, override, catalog, index, entries>>
    BY <1>3 DEF Kept, Quiet, Running, config, vectors, On
  <2>1. Embeds(k.svc, k.on)' = Embeds(k.svc, k.on) /\ Embeds(k.goal, k.on)' = Embeds(k.goal, k.on)
    BY <2>0 DEF Embeds, Kept
  <2> QED
    BY <2>0, <2>1 DEF JobKnows, Kept, Embeds
<1> QED BY <1>1, <1>2, <1>3

\* No job begins and nobody sets out to trigger one: the status still tells of them.
LEMMA RaceKept ==
  ASSUME task \in [Tasks -> Task], RaceInv, NEW t \in Tasks, NEW n \in Task, NEW D, Goes(t, n, D),
         \A x \in Scopes : status[x] = "running" => status'[x] = "running",
         history \subseteq history',
         t \in Jobs /\ n.pc # "idle" => Running(t) /\ n.scope = task[t].scope,
         t \in Admins /\ n.pc \in {"trigger", "announce"} =>
           Triggering(t) /\ n.scope = task[t].scope
  PROVE  RaceInv'
<1>1. CASE "raced" \in history
  BY <1>1 DEF RaceInv
<1>2. CASE "raced" \notin history
  <2>1. \A j \in Jobs : Running(j)' => Running(j) /\ task'[j].scope = task[j].scope
    BY Moves, Kinds DEF Running, Kept
  <2>2. \A a \in Admins : Triggering(a)' => Triggering(a) /\ task'[a].scope = task[a].scope
    BY Moves, Kinds DEF Triggering, Kept
  <2>3. /\ \A j \in Jobs : Running(j) => status[task[j].scope] = "running"
        /\ \A j \in Jobs, a \in Admins :
             Running(j) /\ Triggering(a) => task[a].scope # task[j].scope
        /\ \A i, j \in Jobs : Running(i) /\ Running(j) /\ task[i].scope = task[j].scope => i = j
    BY <1>2 DEF RaceInv
  <2>4. \A j \in Jobs : Running(j)' => status'[task'[j].scope] = "running"
    BY <2>1, <2>3, Kinds DEF Task
  <2>5. \A j \in Jobs, a \in Admins :
          Running(j)' /\ Triggering(a)' => task'[a].scope # task'[j].scope
    BY <2>1, <2>2, <2>3
  <2>6. \A i, j \in Jobs :
          Running(i)' /\ Running(j)' /\ task'[i].scope = task'[j].scope => i = j
    BY <2>1, <2>3
  <2> QED BY <2>4, <2>5, <2>6 DEF RaceInv
<1> QED BY <1>1, <1>2

\* A job ends; the status of its scope, of which there is no other job, may change.
LEMMA RaceEnds ==
  ASSUME task \in [Tasks -> Task], RaceInv, NEW t \in Jobs, NEW n \in Task, NEW D, Goes(t, n, D),
         Running(t), n.pc = "idle", history \subseteq history',
         \A x \in Scopes : x # task[t].scope => status'[x] = status[x]
  PROVE  RaceInv'
<1>1. CASE "raced" \in history
  BY <1>1 DEF RaceInv
<1>2. CASE "raced" \notin history
  <2>1. \A j \in Jobs : Running(j)' => j # t /\ Running(j) /\ task'[j].scope = task[j].scope
    BY Moves, Kinds DEF Running, Kept
  <2>2. \A a \in Admins : Triggering(a)' => Triggering(a) /\ task'[a].scope = task[a].scope
    BY Moves, Kinds DEF Triggering, Kept
  <2>3. /\ \A j \in Jobs : Running(j) => status[task[j].scope] = "running"
        /\ \A j \in Jobs, a \in Admins :
             Running(j) /\ Triggering(a) => task[a].scope # task[j].scope
        /\ \A i, j \in Jobs : Running(i) /\ Running(j) /\ task[i].scope = task[j].scope => i = j
    BY <1>2 DEF RaceInv
  <2>4. \A j \in Jobs : Running(j)' => status'[task'[j].scope] = "running"
    BY <2>1, <2>3, Kinds DEF Task
  <2>5. \A j \in Jobs, a \in Admins :
          Running(j)' /\ Triggering(a)' => task'[a].scope # task'[j].scope
    BY <2>1, <2>2, <2>3
  <2>6. \A i, j \in Jobs :
          Running(i)' /\ Running(j)' /\ task'[i].scope = task'[j].scope => i = j
    BY <2>1, <2>3
  <2> QED BY <2>4, <2>5, <2>6 DEF RaceInv
<1> QED BY <1>1, <1>2

\* Nothing is stored, and a migration keeps the service it has.
LEMMA LabelKept ==
  ASSUME task \in [Tasks -> Task], LabelInv, NEW t \in Tasks, NEW n \in Task, NEW D, Goes(t, n, D),
         history \subseteq history',
         "torn" \in history' \/ \A e \in entries' : e \in entries \/ e.vec = e.label,
         "torn" \in history' \/ \A j \in Jobs :
           j # t /\ task[j].pc = "restore" /\ task[j].svc = Proxy => active'[On(j)] = active[On(j)],
         t \in Jobs /\ n.pc = "restore" =>
           "torn" \in history' \/ n.read = IF n.svc = Proxy THEN active'[n.on] ELSE n.svc
  PROVE  LabelInv'
<1>1. CASE "torn" \in history'
  BY <1>1 DEF LabelInv
<1>2. CASE "torn" \notin history'
  <2>1. /\ \A e \in entries : e.vec = e.label
        /\ \A j \in Jobs : task[j].pc = "restore" =>
             task[j].read = Embeds(task[j].svc, task[j].on)
    BY <1>2 DEF LabelInv
  <2>2. \A e \in entries' : e.vec = e.label
    BY <1>2, <2>1
  <2>3. ASSUME NEW j \in Jobs, task'[j].pc = "restore"
        PROVE  task'[j].read = IF task'[j].svc = Proxy THEN active'[task'[j].on] ELSE task'[j].svc
    <3>1. CASE j = t
      BY <1>2, <2>3, <3>1, Moves, Kinds
    <3>2. CASE j # t
      <4>1. Kept(j)
        BY <3>2, Moves, Kinds
      <4>2. task[j].pc = "restore" /\ task[j].read = Embeds(task[j].svc, task[j].on)
        BY <2>1, <2>3, <4>1 DEF Kept
      <4> QED BY <1>2, <3>2, <4>1, <4>2 DEF Embeds, On, Kept
    <3> QED BY <3>1, <3>2
  <2> QED BY <2>2, <2>3 DEF LabelInv, Embeds
<1> QED BY <1>1, <1>2

\* A step of task t keeps the invariant if it keeps what concerns t, and disturbs
\* those for which something changes.
LEMMA Proceeds ==
  ASSUME IInv, NEW t \in Tasks, NEW n \in Task, NEW D, Goes(t, n, D), DataOK',
         t \in Admins => AdminShape(t)' /\ AdminKnows(t)',
         t \in Jobs => JobShape(t)' /\ JobKnows(t)',
         t \in Writers => WriterShape(t)',
         \A u \in Tasks \ Writers : u # t => u \in D \/ Quiet(u),
         RaceInv', LabelInv'
  PROVE  IInv'
<1>1. /\ TypeOK /\ Shaped /\ Knows /\ task \in [Tasks -> Task]
  BY DEF IInv, TypeOK
<1>2. TypeOK'
  BY <1>1, Moves DEF TypeOK
<1>3. \A u \in Tasks : u # t => Kept(u)
  BY <1>1, Moves
<1>4. \A u \in Tasks \ Writers : u # t => task'[u].disturbed \/ ~Running(u) \/ Quiet(u)
  BY <1>1, Moves
<1>5. Shaped'
  BY <1>1, <1>3, ShapeKept, Kinds DEF Shaped
<1>6. \A a \in Admins : AdminKnows(a)'
  BY <1>1, <1>3, <1>4, AdminKept, Kinds DEF Shaped, Knows
<1>7. \A j \in Jobs : JobKnows(j)'
  BY <1>1, <1>3, <1>4, JobKept, Kinds DEF Shaped, Knows
<1> QED BY <1>2, <1>5, <1>6, <1>7 DEF IInv, Knows

\* A task that has done its work knows nothing.
LEMMA Rested ==
  ASSUME NEW t, task'[t] = NoTask
  PROVE  AdminShape(t)' /\ JobShape(t)' /\ WriterShape(t)' /\ AdminKnows(t)' /\ JobKnows(t)'
BY NoTaskTyped
DEF AdminShape, JobShape, WriterShape, AdminKnows, JobKnows, AdminPcs, JobPcs, WriterPcs, Rebuilding

\* A step of task t that changes nothing else keeps the invariant if it keeps what
\* concerns t.
LEMMA Walks ==
  ASSUME IInv, NEW t \in Tasks, NEW n \in Task, NEW D, Goes(t, n, D), events' \in 0..MaxEvents,
         UNCHANGED <<config, status, age, services, vectors, history>>,
         t \in Admins => AdminShape(t)' /\ AdminKnows(t)',
         t \in Jobs => JobShape(t)' /\ JobKnows(t)',
         t \in Writers => WriterShape(t)',
         t \in Jobs /\ n.pc # "idle" => Running(t) /\ n.scope = task[t].scope,
         t \in Admins /\ n.pc \in {"trigger", "announce"} =>
           Triggering(t) /\ n.scope = task[t].scope,
         t \in Jobs /\ n.pc = "restore" =>
           "torn" \in history \/ n.read = Embeds(n.svc, n.on)
  PROVE  IInv'
<1>1. DataOK'
  BY DEF IInv, TypeOK, DataOK, config, services, vectors
<1>2. \A u \in Tasks : Quiet(u)
  BY DEF Quiet, config, services, vectors
<1>3. RaceInv'
  BY RaceKept DEF IInv, TypeOK
<1>4. LabelInv'
  BY LabelKept DEF IInv, TypeOK, Embeds, services, vectors
<1> QED BY <1>1, <1>2, <1>3, <1>4, Proceeds

-----------------------------------------------------------------------------
(* get_embedding_service_for                                               *)

\* Resolved is a task of the kind it was, with the service in hand.
LEMMA ResolvedTyped ==
  ASSUME IInv, NEW t \in Tasks, task[t].pc \in Resolving, NEW s \in Services
  PROVE  LET k == task[t]  n == Resolved(t, s) IN
         /\ n \in Task /\ ~n.asked
         /\ n.on = k.on /\ n.scope = k.scope /\ n.goal = k.goal
         /\ n.todo = k.todo /\ n.disturbed = k.disturbed
         /\ k.pc = "identify" => n.pc = "start" /\ n.svc = s /\ n.width = Embeds(s, k.on)
         /\ k.pc = "resolve" =>
              /\ n.pc = "embed" /\ n.svc = s
              /\ n.width = IF k.scope = "tenant" THEN k.width ELSE Embeds(s, k.on)
         /\ k.pc = "trigger" => n.pc = "announce"
         /\ k.pc = "store" => n.pc = "put" /\ n.read = Embeds(s, k.on) /\ n.read \in Versions
<1>1. /\ task[t] \in Task /\ task[t].on \in Replicas
      /\ Embeds(s, task[t].on) \in Versions
  BY Numbers DEF IInv, TypeOK, DataOK, Task, Embeds, Services
<1>2. Embeds(s, task[t].on) \in Services
  BY <1>1, Numbers
<1>3. CASE task[t].pc = "identify"
  BY <1>1, <1>2, <1>3 DEF Resolved, Task, Pcs, JobPcs, Rebuilding
<1>4. CASE task[t].pc = "resolve"
  BY <1>1, <1>2, <1>4 DEF Resolved, Task, Pcs, JobPcs, Rebuilding
<1>5. CASE task[t].pc = "trigger"
  BY <1>1, <1>2, <1>5 DEF Resolved, Task, Pcs, AdminPcs
<1>6. CASE task[t].pc = "store"
  BY <1>1, <1>2, <1>6 DEF Resolved, Task, Pcs, WriterPcs
<1> QED BY <1>3, <1>4, <1>5, <1>6 DEF Resolving

\* A task gets service s: what it may be if the task is undisturbed.
LEMMA ResolvedKnows ==
  ASSUME IInv, NEW t \in Tasks, task[t].pc \in Resolving, NEW s \in Services,
         task'[t] = Resolved(t, s), UNCHANGED <<config, active, vectors>>,
         ~task[t].disturbed /\ task[t].scope = "tenant" /\ t \notin Writers =>
           s = task[t].goal /\ own'[On(t)] \in {None, task[t].goal}
  PROVE  /\ t \in Admins => AdminShape(t)' /\ AdminKnows(t)'
         /\ t \in Jobs => JobShape(t)' /\ JobKnows(t)'
         /\ t \in Writers => WriterShape(t)'
<1> DEFINE k == task[t]  n == task'[t]
<1>1. /\ n \in Task /\ ~n.asked
      /\ n.on = k.on /\ n.scope = k.scope /\ n.goal = k.goal
      /\ n.todo = k.todo /\ n.disturbed = k.disturbed
      /\ k.pc = "identify" => n.pc = "start" /\ n.svc = s /\ n.width = Embeds(s, k.on)
      /\ k.pc = "resolve" =>
           /\ n.pc = "embed" /\ n.svc = s
           /\ n.width = IF k.scope = "tenant" THEN k.width ELSE Embeds(s, k.on)
      /\ k.pc = "trigger" => n.pc = "announce"
      /\ k.pc = "store" => n.pc = "put" /\ n.read = Embeds(s, k.on) /\ n.read \in Versions
  BY ResolvedTyped
<1>2. k.pc \in Resolving /\ (Shaped /\ Knows) /\ k.scope \in Scopes
  BY DEF IInv, TypeOK, Task
<1> HIDE DEF n
<1>3. ASSUME t \in Admins PROVE AdminShape(t)' /\ AdminKnows(t)'
  <2>1. AdminShape(t) /\ AdminKnows(t) /\ t \notin Writers
    BY <1>2, <1>3, Kinds DEF Shaped, Knows
  <2>2. k.pc = "trigger" /\ n.pc = "announce" /\ k.scope = "tenant"
    BY <1>1, <1>2, <2>1 DEF Resolving, AdminShape, AdminPcs
  <2>3. AdminShape(t)'
    BY <1>1, <2>2 DEF AdminShape, AdminPcs, n
  <2>4. AdminKnows(t)'
    BY <1>1, <2>1, <2>2 DEF AdminKnows, On, config, n
  <2> QED BY <2>3, <2>4
<1>4. ASSUME t \in Jobs PROVE JobShape(t)' /\ JobKnows(t)'
  <2>1. JobShape(t) /\ JobKnows(t) /\ t \notin Writers
    BY <1>2, <1>4, Kinds DEF Shaped, Knows
  <2>2. k.pc \in {"identify", "resolve"}
    BY <1>2, <2>1 DEF Resolving, JobShape, JobPcs, Rebuilding
  <2>3. JobShape(t)'
    BY <1>1, <2>2 DEF JobShape, JobPcs, Rebuilding, n
  <2>4. JobKnows(t)'
    <3> SUFFICES ASSUME ~n.disturbed PROVE JobKnows(t)'
      BY DEF JobKnows, n
    <3>1. /\ k.pc # "idle" /\ ~k.disturbed
          /\ UNCHANGED <<override, active>>
      BY <1>1, <2>2 DEF config
    <3>2. k.scope = "platform" => k.goal \in Versions /\ active[k.on] = k.goal
      BY <2>1, <3>1 DEF JobKnows
    <3>3. k.scope = "tenant" => override = k.goal /\ own'[k.on] \in {None, k.goal} /\ s = k.goal
      BY <2>1, <3>1 DEF JobKnows, On
    <3>4. k.pc = "resolve" /\ k.scope = "tenant" => k.width = Embeds(s, k.on)
      BY <2>1, <3>1, <3>3 DEF JobKnows
    <3>5. k.pc = "identify" => k.scope = "tenant"
      BY <2>1 DEF JobShape
    <3>6. \A v \in Services : Embeds(v, k.on)' = Embeds(v, k.on)
      BY <1>1, <3>1 DEF Embeds, n
    <3>7. CASE k.pc = "identify"
      <4>1. /\ n.pc = "start" /\ n.width = Embeds(s, k.on)
            /\ ~n.asked /\ n.on = k.on /\ n.scope = k.scope /\ n.goal = k.goal
        BY <1>1, <3>7
      <4> QED
        BY <4>1, <3>1, <3>3, <3>5, <3>6, <3>7 DEF JobKnows, Rebuilding, n
    <3>8. CASE k.pc = "resolve"
      <4>1. /\ n.pc = "embed" /\ n.svc = s /\ n.width = Embeds(s, k.on)
            /\ ~n.asked /\ n.on = k.on /\ n.scope = k.scope /\ n.goal = k.goal
        BY <1>1, <3>4, <3>8
      <4> QED
        BY <4>1, <3>1, <3>2, <3>3, <3>6, <3>8 DEF JobKnows, Rebuilding, n
    <3> QED BY <2>2, <3>7, <3>8
  <2> QED BY <2>3, <2>4
<1>5. ASSUME t \in Writers PROVE WriterShape(t)'
  <2>1. WriterShape(t)
    BY <1>2, <1>5 DEF Shaped
  <2>2. k.pc = "store"
    BY <1>2, <2>1 DEF Resolving, WriterShape, WriterPcs
  <2> QED BY <1>1, <2>1, <2>2 DEF WriterShape, WriterPcs, n
<1> QED BY <1>3, <1>4, <1>5

\* The tenant's service is cached, or what the override says is read.
LEMMA LookupStep == ASSUME IInv, NEW t \in Tasks, Lookup(t) PROVE IInv'
<1> DEFINE k == task[t]
<1>1. /\ k \in Task /\ k.pc \in Resolving /\ ~k.asked /\ own[k.on] \in Services
      /\ UNCHANGED <<config, status, age, services, vectors, history>>
      /\ override \in Services /\ events \in 0..MaxEvents /\ Shaped /\ Knows
      /\ None \in Services
  BY Numbers DEF Lookup, IInv, TypeOK, DataOK, Task
<1>2. CASE own[k.on] # None /\ Goes(t, Resolved(t, own[k.on]), {}) /\ UNCHANGED events
  <2> DEFINE n == Resolved(t, own[k.on])
  <2>1. /\ n \in Task /\ n.scope = k.scope /\ n.pc \in {"start", "embed", "announce", "put"}
        /\ k.pc = "trigger" <=> n.pc = "announce"
    BY <1>1, ResolvedTyped DEF Resolving
  <2>2. task'[t] = n
    BY <1>2, <2>1, Moves DEF IInv, TypeOK
  <2>3. ~k.disturbed /\ k.scope = "tenant" /\ t \notin Writers =>
          own[k.on] = k.goal /\ own'[On(t)] \in {None, k.goal}
    <3>1. CASE t \in Admins
      <4>1. k.pc = "trigger"
        BY <1>1, <3>1 DEF Shaped, AdminShape, AdminPcs, Resolving
      <4> QED BY <1>1, <1>2, <3>1, <4>1 DEF Knows, AdminKnows, On, services
    <3>2. CASE t \in Jobs
      <4>1. k.pc # "idle"
        BY <1>1 DEF Resolving
      <4> QED BY <1>1, <1>2, <3>2, <4>1 DEF Knows, JobKnows, On, services
    <3> QED BY <3>1, <3>2 DEF Tasks
  <2>4. /\ t \in Admins => AdminShape(t)' /\ AdminKnows(t)'
        /\ t \in Jobs => JobShape(t)' /\ JobKnows(t)'
        /\ t \in Writers => WriterShape(t)'
    BY <1>1, <2>2, <2>3, ResolvedKnows DEF services
  <2>5. /\ t \in Jobs => Running(t)
        /\ t \in Admins /\ n.pc \in {"trigger", "announce"} => Triggering(t)
    BY <1>1, <2>1 DEF Running, Triggering, Resolving
  <2> HIDE DEF n
  <2> QED BY <1>1, <1>2, <2>1, <2>4, <2>5, Walks DEF n
<1>3. ASSUME NEW v \in {None, override}, NEW d \in BOOLEAN, v = override \/ d,
             Goes(t, [k EXCEPT !.asked = TRUE, !.read = v, !.disturbed = k.disturbed \/ d], {}),
             events' \in 0..MaxEvents
      PROVE  IInv'
  <2> DEFINE n == [k EXCEPT !.asked = TRUE, !.read = v, !.disturbed = k.disturbed \/ d]
  <2>1. /\ n \in Task /\ n.scope = k.scope /\ n.pc = k.pc /\ n.on = k.on /\ n.svc = k.svc
        /\ n.width = k.width /\ n.goal = k.goal /\ n.todo = k.todo /\ n.asked
        /\ n.read = v /\ (k.disturbed \/ d => n.disturbed)
    BY <1>1 DEF Task
  <2> HIDE DEF n
  <2>2. task'[t] = n
    BY <1>3, <2>1, Moves DEF IInv, TypeOK, n
  <2>3. ASSUME t \in Admins PROVE AdminShape(t)' /\ AdminKnows(t)'
    BY <1>1, <1>3, <2>1, <2>2, <2>3
    DEF Shaped, Knows, AdminShape, AdminKnows, AdminPcs, Resolving, config, services
  <2>4. ASSUME t \in Jobs PROVE JobShape(t)' /\ JobKnows(t)'
    <3>1. k.pc \in {"identify", "resolve"} /\ JobShape(t) /\ JobKnows(t)
      BY <1>1, <2>4 DEF Shaped, Knows, JobShape, JobPcs, Rebuilding, Resolving
    <3>2. JobShape(t)'
      BY <2>1, <2>2, <3>1 DEF JobShape
    <3>3. JobKnows(t)'
      BY <1>1, <1>3, <2>1, <2>2, <3>1
      DEF JobKnows, Rebuilding, Embeds, config, services
    <3> QED BY <3>2, <3>3
  <2>5. ASSUME t \in Writers PROVE WriterShape(t)'
    BY <1>1, <2>1, <2>2, <2>5 DEF Shaped, WriterShape, WriterPcs, Resolving
  <2>6. Running(t) /\ (n.pc \in {"trigger", "announce"} => Triggering(t)) /\ n.pc # "restore"
    BY <1>1, <2>1 DEF Running, Triggering, Resolving
  <2>7. Goes(t, n, {})
    BY <1>3 DEF n
  <2> QED BY <1>1, <1>3, <2>1, <2>3, <2>4, <2>5, <2>6, <2>7, Walks
<1>4. CASE Goes(t, [k EXCEPT !.asked = TRUE, !.read = override], {}) /\ UNCHANGED events
  <2>1. [k EXCEPT !.asked = TRUE, !.read = override]
          = [k EXCEPT !.asked = TRUE, !.read = override, !.disturbed = k.disturbed \/ FALSE]
    BY <1>1 DEF Task
  <2> QED BY <1>1, <1>3, <1>4, <2>1
<1>5. CASE Goes(t, [k EXCEPT !.asked = TRUE, !.read = None, !.disturbed = TRUE], {}) /\ Event
  <2>1. [k EXCEPT !.asked = TRUE, !.read = None, !.disturbed = TRUE]
          = [k EXCEPT !.asked = TRUE, !.read = None, !.disturbed = k.disturbed \/ TRUE]
    BY <1>1 DEF Task
  <2>2. events' \in 0..MaxEvents
    BY <1>1, <1>5, EmbeddingAssumption DEF Event
  <2> QED BY <1>3, <1>5, <2>1, <2>2
<1> QED BY <1>2, <1>4, <1>5 DEF Lookup

\* The override that was read is built, or the proxy taken; a service that the
\* override no longer asks for disturbs whoever else runs in the process.
LEMMA BuildStep == ASSUME IInv, NEW t \in Tasks, Build(t) PROVE IInv'
<1> DEFINE k == task[t]  n == Resolved(t, k.read)
           D == IF k.read \in {None, override} THEN {} ELSE Beside(t)
<1>1. /\ k \in Task /\ k.pc \in Resolving /\ k.asked /\ k.read \in Services /\ k.on \in Replicas
      /\ own \in [Replicas -> Services]
      /\ own' = IF k.read = None THEN own ELSE [own EXCEPT ![k.on] = k.read]
      /\ Goes(t, n, D)
      /\ UNCHANGED <<config, status, age, active, vectors, events, history>>
      /\ Shaped /\ Knows /\ DataOK
  BY DEF Build, IInv, TypeOK, DataOK, Task
<1>2. /\ n \in Task /\ n.scope = k.scope /\ n.pc \in {"start", "embed", "announce", "put"}
      /\ k.pc = "trigger" <=> n.pc = "announce"
  BY <1>1, ResolvedTyped DEF Resolving
<1>3. task'[t] = n
  BY <1>1, <1>2, Moves DEF IInv, TypeOK
<1>4. ~k.disturbed /\ k.scope = "tenant" /\ t \notin Writers =>
        k.read = k.goal /\ own'[On(t)] \in {None, k.goal}
  <2>1. CASE t \in Admins
    <3>1. k.pc = "trigger"
      BY <1>1, <2>1 DEF Shaped, AdminShape, AdminPcs, Resolving
    <3> QED BY <1>1, <2>1, <3>1 DEF Knows, AdminKnows, On
  <2>2. CASE t \in Jobs
    <3>1. k.pc # "idle"
      BY <1>1 DEF Resolving
    <3> QED BY <1>1, <2>2, <3>1 DEF Knows, JobKnows, On
  <2> QED BY <2>1, <2>2 DEF Tasks
<1>5. /\ t \in Admins => AdminShape(t)' /\ AdminKnows(t)'
      /\ t \in Jobs => JobShape(t)' /\ JobKnows(t)'
      /\ t \in Writers => WriterShape(t)'
  BY <1>1, <1>3, <1>4, ResolvedKnows
<1>6. /\ t \in Jobs => Running(t)
      /\ t \in Admins /\ n.pc \in {"trigger", "announce"} => Triggering(t)
  BY <1>1, <1>2 DEF Running, Triggering, Resolving
<1> HIDE DEF n
<1>7. DataOK'
  BY <1>1 DEF DataOK, config, vectors
<1>8. ASSUME NEW u \in Tasks \ Writers, u # t PROVE u \in D \/ Quiet(u)
  <2>1. task[u].on \in Replicas
    BY DEF IInv, TypeOK, Task
  <2>2. CASE On(u) = On(t)
    BY <1>1, <1>8, <2>1, <2>2 DEF Beside, Others, Quiet, On
  <2>3. CASE On(u) # On(t)
    BY <1>1, <2>1, <2>3 DEF Quiet, On
  <2> QED BY <2>2, <2>3
<1> HIDE DEF D
<1>9. RaceInv'
  BY <1>1, <1>2, <1>6, RaceKept DEF IInv, TypeOK
<1>10. LabelInv'
  BY <1>1, <1>2, LabelKept DEF IInv, TypeOK, vectors
<1> QED BY <1>1, <1>2, <1>5, <1>7, <1>8, <1>9, <1>10, Proceeds

-----------------------------------------------------------------------------
(* The requests                                                            *)

\* A request begins.
LEMMA ChangeStep ==
  ASSUME IInv, NEW a \in Admins, NEW r \in Replicas, NEW s \in Scopes, Change(a, r, s)
  PROVE  IInv'
<1> DEFINE n == [NoTask EXCEPT !.pc = "probe", !.on = r, !.scope = s]
<1>1. /\ Goes(a, n, {}) /\ events' \in 0..MaxEvents
      /\ UNCHANGED <<config, status, age, services, vectors, history>>
  BY EmbeddingAssumption DEF Change, Event, IInv, TypeOK, DataOK
<1>2. n \in Task /\ n.pc = "probe" /\ ~n.asked /\ a \in Tasks /\ a \notin Jobs /\ a \notin Writers
  BY NoTaskTyped, Kinds DEF Task, Pcs, AdminPcs
<1> HIDE DEF n
<1>3. task'[a] = n
  BY <1>1, <1>2, Moves DEF IInv, TypeOK
<1>4. AdminShape(a)' /\ AdminKnows(a)'
  BY <1>2, <1>3 DEF AdminShape, AdminKnows, AdminPcs
<1> QED BY <1>1, <1>2, <1>4, Walks

\* The configuration is saved; everybody else is disturbed.
LEMMA SaveStep == ASSUME IInv, NEW a \in Admins, Save(a) PROVE IInv'
<1> DEFINE k == task[a]
<1>1. k \in Task /\ k.pc = "probe" /\ AdminShape(a) /\ DataOK /\ k.scope \in Scopes
  BY Kinds DEF Save, IInv, TypeOK, Shaped, Task
<1>2. PICK v \in Candidates(k.scope) :
        /\ IF k.scope = "platform" THEN platform' = v /\ UNCHANGED override
                                   ELSE override' = v /\ UNCHANGED platform
        /\ Goes(a, [k EXCEPT !.pc = IF k.scope = "platform" THEN "reload" ELSE "invalidate",
                             !.goal = v, !.quiet = v = None /\ override = None,
                             !.disturbed = FALSE], Others(a))
        /\ UNCHANGED <<status, age, services, vectors, events, history>>
  BY DEF Save
<1> DEFINE q == v = None /\ override = None
           n == [k EXCEPT !.pc = IF k.scope = "platform" THEN "reload" ELSE "invalidate",
                          !.goal = v, !.quiet = q, !.disturbed = FALSE]
<1>3. v \in Services /\ (k.scope = "platform" => v \in Versions) /\ q \in BOOLEAN
  BY Numbers DEF Candidates
<1>4. Goes(a, n, Others(a))
  BY <1>2
<1> HIDE DEF q
<1>5. /\ n \in Task /\ n.goal = v /\ n.scope = k.scope /\ n.asked = k.asked
      /\ n.pc = IF k.scope = "platform" THEN "reload" ELSE "invalidate"
  <2>1. n \in Task
    <3>1. \A x \in Pcs, y \in Services, z \in BOOLEAN :
            [k EXCEPT !.pc = x, !.goal = y, !.quiet = z, !.disturbed = FALSE] \in Task
      BY <1>1 DEF Task
    <3>2. (IF k.scope = "platform" THEN "reload" ELSE "invalidate") \in Pcs
      BY DEF Pcs, AdminPcs
    <3> QED BY <1>3, <3>1, <3>2
  <2>2. n.goal = v /\ n.scope = k.scope /\ n.asked = k.asked
    BY <1>1 DEF Task
  <2>3. n.pc = IF k.scope = "platform" THEN "reload" ELSE "invalidate"
    BY <1>1 DEF Task
  <2> QED BY <2>1, <2>2, <2>3
<1> HIDE DEF n
<1>6. task'[a] = n /\ a \in Tasks /\ a \notin Jobs /\ a \notin Writers
  BY <1>4, <1>5, Moves, Kinds DEF IInv, TypeOK
<1>7. AdminShape(a)'
  BY <1>1, <1>5, <1>6 DEF AdminShape, AdminPcs, Scopes
<1>8. AdminKnows(a)'
  BY <1>1, <1>2, <1>3, <1>5, <1>6 DEF AdminKnows, AdminShape
<1>9. DataOK'
  BY <1>1, <1>2, <1>3 DEF DataOK, services, vectors
<1>10. \A u \in Tasks \ Writers : u # a => u \in Others(a)
  BY DEF Others
<1>11. RaceInv'
  BY <1>2, <1>4, <1>5, <1>6, RaceKept DEF IInv, TypeOK
<1>12. LabelInv'
  BY <1>2, <1>4, <1>5, <1>6, LabelKept DEF IInv, TypeOK, vectors, services
<1> QED BY <1>4, <1>5, <1>6, <1>7, <1>8, <1>9, <1>10, <1>11, <1>12, Proceeds

\* Going on keeps everything but the place.
LEMMA ToTyped ==
  ASSUME IInv, NEW t \in Tasks, NEW s \in Pcs
  PROVE  LET k == task[t]  n == To(t, s) IN
         /\ n \in Task /\ n.pc = s
         /\ n.on = k.on /\ n.scope = k.scope /\ n.svc = k.svc /\ n.asked = k.asked
         /\ n.read = k.read /\ n.width = k.width /\ n.label = k.label /\ n.goal = k.goal
         /\ n.todo = k.todo /\ n.disturbed = k.disturbed
<1>1. task[t] \in Task
  BY DEF IInv, TypeOK
<1> QED BY <1>1 DEF To, Task

\* The configuration is read again.
LEMMA ReloadStep == ASSUME IInv, NEW a \in Admins, Reload(a) PROVE IInv'
<1> DEFINE k == task[a]
<1>1. /\ k \in Task /\ k.pc = "reload" /\ AdminShape(a) /\ AdminKnows(a) /\ DataOK
      /\ a \in Tasks /\ a \notin Jobs /\ a \notin Writers
      /\ UNCHANGED <<config, status, age, services, vectors, history>>
  BY Kinds DEF Reload, IInv, TypeOK, Shaped, Knows
<1>2. ASSUME NEW v \in Versions, NEW n \in Task, Goes(a, n, {}), events' \in 0..MaxEvents,
             n.pc = "activate", n.read = v, n.on = k.on, n.scope = k.scope, n.goal = k.goal,
             n.asked = k.asked, k.disturbed => n.disturbed, v = platform \/ n.disturbed
      PROVE  IInv'
  <2>1. task'[a] = n
    BY <1>1, <1>2, Moves DEF IInv, TypeOK
  <2>2. AdminShape(a)'
    BY <1>1, <1>2, <2>1 DEF AdminShape, AdminPcs
  <2>3. AdminKnows(a)'
    BY <1>1, <1>2, <2>1 DEF AdminKnows, AdminShape, config
  <2> QED BY <1>1, <1>2, <2>2, <2>3, Walks
<1>3. CASE Goes(a, [k EXCEPT !.pc = "activate", !.read = platform], {}) /\ UNCHANGED events
  <2> DEFINE n == [k EXCEPT !.pc = "activate", !.read = platform]
  <2>1. /\ n \in Task /\ n.pc = "activate" /\ n.read = platform /\ n.on = k.on
        /\ n.scope = k.scope /\ n.goal = k.goal /\ n.asked = k.asked
        /\ n.disturbed = k.disturbed /\ platform \in Versions /\ events' \in 0..MaxEvents
    BY <1>1, <1>3, Numbers DEF Task, Pcs, AdminPcs, DataOK
  <2>2. Goes(a, n, {})
    BY <1>3
  <2> HIDE DEF n
  <2> QED BY <1>2, <2>1, <2>2
<1>4. CASE Goes(a, [k EXCEPT !.pc = "activate", !.read = 1, !.disturbed = TRUE], {}) /\ Event
  <2> DEFINE n == [k EXCEPT !.pc = "activate", !.read = 1, !.disturbed = TRUE]
  <2>1. /\ n \in Task /\ n.pc = "activate" /\ n.read = 1 /\ n.on = k.on
        /\ n.scope = k.scope /\ n.goal = k.goal /\ n.asked = k.asked
        /\ n.disturbed /\ 1 \in Versions
    BY <1>1, Numbers DEF Task, Pcs, AdminPcs
  <2>2. Goes(a, n, {}) /\ events' \in 0..MaxEvents
    BY <1>1, <1>4, EmbeddingAssumption DEF Event, DataOK
  <2> HIDE DEF n
  <2> QED BY <1>2, <2>1, <2>2
<1>5. \/ Goes(a, [k EXCEPT !.pc = "activate", !.read = platform], {}) /\ UNCHANGED events
      \/ Goes(a, [k EXCEPT !.pc = "activate", !.read = 1, !.disturbed = TRUE], {}) /\ Event
  <2>1. [[k EXCEPT !.pc = "activate"] EXCEPT !.read = platform]
          = [k EXCEPT !.pc = "activate", !.read = platform]
    BY <1>1 DEF Task
  <2>2. [[k EXCEPT !.pc = "activate"] EXCEPT !.read = 1, !.disturbed = TRUE]
          = [k EXCEPT !.pc = "activate", !.read = 1, !.disturbed = TRUE]
    BY <1>1 DEF Task
  <2> QED BY <2>1, <2>2 DEF Reload
<1> QED BY <1>3, <1>4, <1>5

\* The process has the new version; a migration of it that used the old one tears.
LEMMA ActivateStep == ASSUME IInv, NEW a \in Admins, Activate(a) PROVE IInv'
<1> DEFINE k == task[a]  n == To(a, "flag")
<1>1. /\ k \in Task /\ k.pc = "activate" /\ k.on \in Replicas
      /\ AdminShape(a) /\ AdminKnows(a) /\ DataOK
      /\ a \in Tasks /\ a \notin Jobs /\ a \notin Writers
      /\ active' = [active EXCEPT ![k.on] = k.read]
      /\ history' = history \cup {h \in {"torn"} : active[k.on] # k.read /\ Migrating(k.on)}
      /\ Goes(a, n, Beside(a))
      /\ UNCHANGED <<config, status, age, own, vectors, events>>
  BY Kinds DEF Activate, IInv, TypeOK, Shaped, Knows, Task
<1>2. /\ n \in Task /\ n.pc = "flag" /\ n.on = k.on /\ n.scope = k.scope /\ n.goal = k.goal
      /\ n.asked = k.asked /\ n.disturbed = k.disturbed
  BY <1>1, ToTyped DEF Pcs, AdminPcs
<1>3. task'[a] = n
  BY <1>1, <1>2, Moves DEF IInv, TypeOK
<1> HIDE DEF n
<1>4. k.read \in Versions /\ k.scope = "platform" /\ ~k.asked
  BY <1>1 DEF AdminShape
<1>5. AdminShape(a)'
  BY <1>2, <1>3, <1>4 DEF AdminShape, AdminPcs
<1>6. AdminKnows(a)'
  BY <1>1, <1>2, <1>3, <1>4 DEF AdminKnows, config, DataOK
<1>7. DataOK'
  BY <1>1, <1>4 DEF DataOK, config, vectors
<1>8. ASSUME NEW u \in Tasks \ Writers, u # a PROVE u \in Beside(a) \/ Quiet(u)
  <2>1. task[u].on \in Replicas
    BY DEF IInv, TypeOK, Task
  <2> QED
    BY <1>1, <1>8, <2>1 DEF Beside, Others, Quiet, On, DataOK, config, vectors
<1>9. RaceInv'
  BY <1>1, <1>2, RaceKept DEF IInv, TypeOK
<1>10. LabelInv'
  <2>1. ASSUME NEW j \in Jobs, task[j].pc = "restore", task[j].svc = Proxy
        PROVE  "torn" \in history' \/ active'[On(j)] = active[On(j)]
    <3>1. task[j].on \in Replicas
      BY Kinds DEF IInv, TypeOK, Task
    <3>2. CASE On(j) = k.on
      BY <1>1, <2>1, <3>1, <3>2 DEF Migrating, On, DataOK
    <3>3. CASE On(j) # k.on
      BY <1>1, <3>1, <3>3 DEF On, DataOK
    <3> QED BY <3>2, <3>3
  <2> QED BY <1>1, <1>2, <2>1, LabelKept DEF IInv, TypeOK, vectors
<1> QED BY <1>1, <1>2, <1>5, <1>6, <1>7, <1>8, <1>9, <1>10, Proceeds

\* The tenant's service is forgotten.
LEMMA InvalidateStep == ASSUME IInv, NEW a \in Admins, Invalidate(a) PROVE IInv'
<1> DEFINE k == task[a]  n == To(a, "flag")
<1>1. /\ k \in Task /\ k.pc = "invalidate" /\ k.on \in Replicas
      /\ AdminShape(a) /\ AdminKnows(a) /\ DataOK
      /\ a \in Tasks /\ a \notin Jobs /\ a \notin Writers
      /\ own' = [own EXCEPT ![k.on] = None]
      /\ Goes(a, n, {})
      /\ UNCHANGED <<config, status, age, active, vectors, events, history>>
  BY Kinds DEF Invalidate, IInv, TypeOK, Shaped, Knows, Task, On
<1>2. /\ n \in Task /\ n.pc = "flag" /\ n.on = k.on /\ n.scope = k.scope /\ n.goal = k.goal
      /\ n.asked = k.asked /\ n.disturbed = k.disturbed
  BY <1>1, ToTyped DEF Pcs, AdminPcs
<1>3. task'[a] = n
  BY <1>1, <1>2, Moves DEF IInv, TypeOK
<1> HIDE DEF n
<1>4. k.scope = "tenant" /\ ~k.asked
  BY <1>1 DEF AdminShape
<1>5. AdminShape(a)'
  BY <1>2, <1>3, <1>4 DEF AdminShape, AdminPcs
<1>6. AdminKnows(a)'
  BY <1>1, <1>2, <1>3, <1>4 DEF AdminKnows, config, DataOK
<1>7. DataOK'
  BY <1>1, Numbers DEF DataOK, config, vectors
<1>8. ASSUME NEW u \in Tasks \ Writers PROVE Quiet(u)
  <2>1. task[u].on \in Replicas
    BY DEF IInv, TypeOK, Task
  <2> QED
    BY <1>1, <2>1 DEF Quiet, On, DataOK
<1>9. RaceInv'
  BY <1>1, <1>2, RaceKept DEF IInv, TypeOK
<1>10. LabelInv'
  BY <1>1, <1>2, LabelKept DEF IInv, TypeOK, vectors
<1> QED BY <1>1, <1>2, <1>5, <1>6, <1>7, <1>8, <1>9, <1>10, Proceeds

\* A request goes on to start a job, on a status that did not show one running.
LEMMA TriggerStep == ASSUME IInv, NEW a \in Admins, Trigger(a) PROVE IInv'
<1> DEFINE k == task[a]  s == IF k.scope = "tenant" THEN "trigger" ELSE "announce"  n == To(a, s)
<1>1. /\ k \in Task /\ k.pc = "flag" /\ k.scope \in Scopes
      /\ AdminShape(a) /\ AdminKnows(a) /\ DataOK
      /\ a \in Tasks /\ a \notin Jobs /\ a \notin Writers
      /\ UNCHANGED <<config, status, age, services, vectors>>
  BY Kinds DEF Trigger, IInv, TypeOK, Shaped, Knows, Task
<1>2. CASE Goes(a, NoTask, {}) /\ UNCHANGED <<events, history>>
  <2>1. task'[a] = NoTask
    BY <1>1, <1>2, NoTaskTyped, Moves DEF IInv, TypeOK
  <2> QED BY <1>1, <1>2, <2>1, NoTaskTyped, Rested, Walks DEF DataOK
<1>3. /\ n \in Task /\ n.pc = s /\ n.on = k.on /\ n.scope = k.scope /\ n.goal = k.goal
      /\ n.asked = k.asked /\ n.disturbed = k.disturbed
  BY <1>1, ToTyped DEF Pcs, AdminPcs
<1>4. ASSUME Goes(a, n, {}), events' \in 0..MaxEvents,
             history \subseteq history', history' \subseteq history \cup {"raced"},
             "raced" \in history' \/ status[k.scope] # "running"
      PROVE  IInv'
  <2>1. task'[a] = n
    BY <1>1, <1>3, <1>4, Moves DEF IInv, TypeOK
  <2> HIDE DEF n
  <2>2. AdminShape(a)'
    BY <1>1, <1>3, <2>1 DEF AdminShape, AdminPcs, Scopes
  <2>3. AdminKnows(a)'
    BY <1>1, <1>3, <2>1 DEF AdminKnows, AdminShape, config, services
  <2>4. DataOK'
    BY <1>1, <1>4 DEF DataOK, config, services, vectors
  <2>5. RaceInv'
    <3>1. CASE "raced" \in history'
      BY <3>1 DEF RaceInv
    <3>2. CASE "raced" \notin history'
      <4>1. /\ \A j \in Jobs : Running(j) => status[task[j].scope] = "running"
            /\ \A j \in Jobs, b \in Admins :
                 Running(j) /\ Triggering(b) => task[b].scope # task[j].scope
            /\ \A i, j \in Jobs :
                 Running(i) /\ Running(j) /\ task[i].scope = task[j].scope => i = j
        BY <1>4, <3>2 DEF RaceInv, IInv
      <4>2. \A u \in Tasks : u # a => task'[u].pc = task[u].pc /\ task'[u].scope = task[u].scope
        BY <1>1, <1>3, <1>4, Moves DEF Kept, IInv, TypeOK
      <4>3. \A j \in Jobs : (Running(j)' <=> Running(j)) /\ task'[j].scope = task[j].scope
        BY <1>1, <4>2, Kinds DEF Running
      <4>4. \A b \in Admins : b # a =>
              (Triggering(b)' <=> Triggering(b)) /\ task'[b].scope = task[b].scope
        BY <4>2, Kinds DEF Triggering
      <4>5. \A j \in Jobs : Running(j) => k.scope # task[j].scope
        BY <1>4, <3>2, <4>1
      <4>6. task'[a].scope = k.scope
        BY <1>3, <2>1
      <4>7. \A j \in Jobs, b \in Admins :
              Running(j)' /\ Triggering(b)' => task'[b].scope # task'[j].scope
        BY <4>1, <4>3, <4>4, <4>5, <4>6
      <4>8. \A i, j \in Jobs :
              Running(i)' /\ Running(j)' /\ task'[i].scope = task'[j].scope => i = j
        BY <4>1, <4>3
      <4>9. \A j \in Jobs : Running(j)' => status'[task'[j].scope] = "running"
        BY <1>1, <4>1, <4>3
      <4> QED BY <4>7, <4>8, <4>9 DEF RaceInv
    <3> QED BY <3>1, <3>2
  <2>6. LabelInv'
    BY <1>1, <1>3, <1>4, LabelKept DEF IInv, TypeOK, vectors, services
  <2>7. \A u \in Tasks : Quiet(u)
    BY <1>1 DEF Quiet, services
  <2> QED BY <1>1, <1>3, <1>4, <2>2, <2>3, <2>4, <2>5, <2>6, <2>7, Proceeds
<1>5. CASE ~Fresh(k.scope) /\ Triggered(a) /\ UNCHANGED events
  <2>1. /\ Goes(a, n, {})
        /\ history' = history \cup
             {h \in {"raced"} : status[k.scope] = "running" /\ ~Fresh(k.scope)}
    BY <1>5 DEF Triggered
  <2> QED BY <1>1, <1>4, <1>5, <2>1 DEF DataOK
<1>6. CASE Goes(a, n, {}) /\ Event /\ history' = history \cup {"raced"}
  <2>1. events' \in 0..MaxEvents
    BY <1>1, <1>6, EmbeddingAssumption DEF Event, DataOK
  <2> QED BY <1>4, <1>6, <2>1
<1> QED BY <1>2, <1>5, <1>6 DEF Trigger

\* The job is created.  Who was about to trigger another for the same scope has
\* raced; what the request knew, the job does.
LEMMA AnnounceStep == ASSUME IInv, NEW a \in Admins, Announce(a) PROVE IInv'
<1> DEFINE k == task[a]
           s == IF k.scope = "tenant" THEN "identify" ELSE "start"
           n == [NoTask EXCEPT !.pc = s, !.on = k.on, !.scope = k.scope,
                               !.goal = k.goal, !.disturbed = k.disturbed]
<1>0. PICK j \in Jobs : j = Slot(Jobs)
  <2>1. \E t \in Jobs : ~Running(t) \/ \A u \in Jobs : Running(u)
    BY EmbeddingAssumption
  <2> QED BY <2>1 DEF Slot
<1>1. /\ k \in Task /\ k.pc = "announce" /\ k.scope \in Scopes /\ k.on \in Replicas
      /\ AdminShape(a) /\ AdminKnows(a) /\ DataOK
      /\ a \in Tasks /\ j \in Tasks /\ a # j
      /\ ~Running(j)
      /\ history' = history \cup {h \in {"raced"} : \E b \in Admins \ {a} :
                                    Triggering(b) /\ task[b].scope = k.scope}
      /\ status' = [status EXCEPT ![k.scope] = "running"] /\ age' = [age EXCEPT ![k.scope] = 0]
      /\ task' = [task EXCEPT ![a] = NoTask, ![j] = n]
      /\ UNCHANGED <<config, services, vectors, events>>
  BY <1>0, Kinds DEF Announce, IInv, TypeOK, Shaped, Knows, Task
<1>2. /\ n \in Task /\ n.pc = s /\ n.on = k.on /\ n.scope = k.scope /\ n.goal = k.goal
      /\ ~n.asked /\ n.disturbed = k.disturbed /\ n.svc = Proxy /\ n.width = None
  BY <1>1, NoTaskTyped, Numbers DEF NoTask, Task, Pcs, JobPcs
<1> HIDE DEF n
<1>3. /\ task \in [Tasks -> Task] /\ task' \in [Tasks -> Task]
      /\ task'[a] = NoTask /\ task'[j] = n
      /\ \A u \in Tasks \ {a, j} : task'[u] = task[u]
  BY <1>1, <1>2, NoTaskTyped DEF IInv, TypeOK
<1>4. \A u \in Tasks \ {a, j} : Kept(u) /\ Quiet(u)
  BY <1>1, <1>3 DEF Kept, Quiet, services
<1>5. DataOK'
  <2>1. 0 \in 0..Stale
    BY EmbeddingAssumption
  <2> QED BY <1>1, <2>1 DEF DataOK, config, services, vectors
<1>6. JobShape(j)'
  BY <1>1, <1>2, <1>3 DEF JobShape, JobPcs, Scopes
<1>7. JobKnows(j)'
  <2> SUFFICES ASSUME ~n.disturbed PROVE JobKnows(j)'
    BY <1>3 DEF JobKnows
  <2>1. CASE k.scope = "platform"
    BY <1>1, <1>2, <1>3, <2>1 DEF JobKnows, AdminKnows, Rebuilding, config, services
  <2>2. CASE k.scope = "tenant"
    BY <1>1, <1>2, <1>3, <2>2 DEF JobKnows, AdminKnows, Rebuilding, config, services
  <2> QED BY <1>1, <2>1, <2>2 DEF Scopes
<1>8. AdminShape(a)' /\ AdminKnows(a)'
  BY <1>3, Rested
<1>9. Shaped'
  BY <1>0, <1>4, <1>6, <1>8, ShapeKept, Kinds DEF Shaped, IInv
<1>10. Knows'
  BY <1>0, <1>4, <1>7, <1>8, AdminKept, JobKept, Kinds DEF Knows, IInv, Shaped
<1>11. RaceInv'
  <2>1. CASE "raced" \in history'
    BY <2>1 DEF RaceInv
  <2>2. CASE "raced" \notin history'
    <3>1. /\ \A i \in Jobs : Running(i) => status[task[i].scope] = "running"
          /\ \A i \in Jobs, b \in Admins :
               Running(i) /\ Triggering(b) => task[b].scope # task[i].scope
          /\ \A i, l \in Jobs :
               Running(i) /\ Running(l) /\ task[i].scope = task[l].scope => i = l
      BY <1>1, <2>2 DEF RaceInv, IInv
    <3>2. \A b \in Admins : Triggering(b)' => b # a /\ Triggering(b) /\ task'[b] = task[b]
      BY <1>0, <1>3, Kinds, NoTaskTyped DEF Triggering
    <3>3. \A b \in Admins \ {a} : Triggering(b) => task[b].scope # k.scope
      BY <1>1, <2>2
    <3>4. \A i \in Jobs : i # j => (Running(i)' <=> Running(i)) /\ task'[i] = task[i]
      BY <1>3, Kinds DEF Running
    <3>5. Triggering(a) /\ \A i \in Jobs : Running(i) => k.scope # task[i].scope
      BY <1>1, <3>1 DEF Triggering
    <3>6. /\ task'[j].scope = k.scope /\ k.scope \in Scopes
          /\ status \in [Scopes -> {"idle", "running", "completed", "failed"}]
      BY <1>1, <1>2, <1>3 DEF DataOK
    <3>7. \A i \in Jobs : task[i].scope \in Scopes
      BY <1>3, Kinds DEF Task
    <3>8. \A i \in Jobs : Running(i)' => status'[task'[i].scope] = "running"
      <4>1. status' = [status EXCEPT ![k.scope] = "running"]
        BY <1>1
      <4>2. status'[k.scope] = "running"
        BY <3>6, <4>1
      <4>3. \A i \in Jobs : Running(i) => status'[task[i].scope] = "running"
        BY <3>1, <3>6, <3>7, <4>1
      <4> QED BY <3>4, <3>6, <4>2, <4>3
    <3>9. \A i \in Jobs, b \in Admins :
            Running(i)' /\ Triggering(b)' => task'[b].scope # task'[i].scope
      BY <3>1, <3>2, <3>3, <3>4, <3>6
    <3>10. \A i, l \in Jobs :
             Running(i)' /\ Running(l)' /\ task'[i].scope = task'[l].scope => i = l
      BY <3>1, <3>4, <3>5, <3>6
    <3> QED BY <3>8, <3>9, <3>10 DEF RaceInv
  <2> QED BY <2>1, <2>2
<1>12. LabelInv'
  <2>1. CASE "torn" \in history
    BY <1>1, <2>1 DEF LabelInv
  <2>2. CASE "torn" \notin history
    <3>1. /\ \A e \in entries : e.vec = e.label
          /\ \A i \in Jobs : task[i].pc = "restore" =>
               task[i].read = Embeds(task[i].svc, task[i].on)
      BY <2>2 DEF LabelInv, IInv
    <3>2. \A i \in Jobs : task'[i].pc = "restore" => task'[i] = task[i]
      BY <1>2, <1>3, Kinds
    <3>3. \A i \in Jobs : task'[i].pc = "restore" =>
            task'[i].read = Embeds(task'[i].svc, task'[i].on)
      BY <3>1, <3>2
    <3>4. entries' = entries /\ active' = active
      BY <1>1 DEF services, vectors
    <3> QED BY <3>1, <3>3, <3>4 DEF LabelInv, Embeds
  <2> QED BY <2>1, <2>2
<1> QED BY <1>3, <1>5, <1>9, <1>10, <1>11, <1>12 DEF IInv, TypeOK

-----------------------------------------------------------------------------
(* The jobs                                                                *)

\* What is known of a job that is about to take a step.
LEMMA JobFacts ==
  ASSUME IInv, NEW j \in Jobs, task[j].pc # "idle"
  PROVE  LET k == task[j] IN
         /\ k \in Task /\ k.scope \in Scopes /\ k.on \in Replicas /\ k.svc \in Services
         /\ Embeds(k.svc, k.on) \in Versions /\ Embeds(k.svc, k.on) \in Services
         /\ JobShape(j) /\ JobKnows(j) /\ DataOK /\ RaceInv /\ LabelInv
         /\ j \in Tasks /\ j \notin Admins /\ j \notin Writers /\ Running(j)
         /\ task \in [Tasks -> Task]
<1>1. /\ task[j] \in Task /\ JobShape(j) /\ JobKnows(j) /\ DataOK /\ RaceInv /\ LabelInv
      /\ j \in Tasks /\ j \notin Admins /\ j \notin Writers /\ task \in [Tasks -> Task]
  BY Kinds DEF IInv, TypeOK, Shaped, Knows
<1>2. task[j].scope \in Scopes /\ task[j].on \in Replicas /\ task[j].svc \in Services
  BY <1>1 DEF Task
<1>3. Embeds(task[j].svc, task[j].on) \in Versions
  BY <1>1, <1>2, Numbers DEF Embeds, DataOK, Services
<1> QED BY <1>1, <1>2, <1>3, Numbers DEF Running

\* A job that rebuilds keeps its service and knows what it needs to know of it; what
\* is left to see is what it has rebuilt.
LEMMA Rebuilds ==
  ASSUME NEW j, task[j].pc \in Rebuilding, JobKnows(j), NEW n \in Task, task'[j] = n,
         UNCHANGED <<config, services>>, n.pc \in Rebuilding, ~n.asked,
         n.on = task[j].on, n.scope = task[j].scope, n.svc = task[j].svc,
         n.width = task[j].width, n.goal = task[j].goal, n.disturbed = task[j].disturbed,
         NEW v, v = Embeds(task[j].svc, task[j].on),
         ~n.disturbed =>
           /\ n.pc = "rows" => n.read = v /\ \A x \in Rows \ n.todo : catalog'[x] = v
           /\ n.pc \in Rebuilding \ {"embed", "rows"} => \A x \in Rows : catalog'[x] = v
           /\ n.pc \in Rebuilding \ {"embed", "rows", "drop", "create"} => index' = v
           /\ n.pc \in {"page", "reembed", "restore", "delete", "progress", "finish"} => n.label = v
           /\ n.pc \in {"progress", "finish"} => \A e \in entries' : e.label = v
  PROVE  JobKnows(j)'
<1> SUFFICES ASSUME ~n.disturbed PROVE JobKnows(j)'
  BY DEF JobKnows
<1>1. /\ task[j].pc # "idle" /\ task[j].pc # "identify"
      /\ n.pc # "idle" /\ n.pc # "identify"
  BY DEF Rebuilding
<1>2. /\ n.scope = "platform" => n.goal \in Versions /\ active[n.on] = n.goal
      /\ n.scope = "tenant" =>
           /\ override = n.goal /\ own[n.on] \in {None, n.goal}
           /\ n.width = Embeds(n.goal, n.on) /\ n.svc = n.goal
      /\ n.width = v
  BY <1>1 DEF JobKnows
<1>3. UNCHANGED <<override, active, own>>
  BY DEF config, services
<1>4. v = Embeds(task[j].svc, task[j].on)'
  BY <1>3 DEF Embeds
<1>5. n.width = v /\ (n.scope = "tenant" => n.width = Embeds(task[j].goal, task[j].on)')
  BY <1>2, <1>3, <1>4 DEF Embeds
<1> QED
  BY <1>1, <1>2, <1>3, <1>4, <1>5 DEF JobKnows

\* The status is set to running once more.
LEMMA StartStep == ASSUME IInv, NEW j \in Jobs, Start(j) PROVE IInv'
<1> DEFINE k == task[j]  n == To(j, "resolve")
<1>1. /\ k.pc = "start" /\ Goes(j, n, {})
      /\ status' = [status EXCEPT ![k.scope] = "running"] /\ age' = [age EXCEPT ![k.scope] = 0]
      /\ UNCHANGED <<config, services, vectors, events, history>>
  BY DEF Start
<1>2. /\ k \in Task /\ k.scope \in Scopes /\ JobShape(j) /\ JobKnows(j) /\ DataOK
      /\ RaceInv /\ LabelInv /\ j \in Tasks /\ j \notin Admins /\ j \notin Writers /\ Running(j)
      /\ task \in [Tasks -> Task]
  BY <1>1, JobFacts
<1>3. /\ n \in Task /\ n.pc = "resolve"
      /\ n.on = k.on /\ n.scope = k.scope /\ n.asked = k.asked /\ n.width = k.width
      /\ n.goal = k.goal /\ n.disturbed = k.disturbed
  BY <1>2, ToTyped DEF Pcs, JobPcs
<1>4. task'[j] = n
  BY <1>1, <1>2, <1>3, Moves
<1> HIDE DEF n
<1>5. JobShape(j)'
  BY <1>1, <1>2, <1>3, <1>4 DEF JobShape, JobPcs
<1>6. JobKnows(j)'
  BY <1>1, <1>2, <1>3, <1>4 DEF JobKnows, JobShape, Rebuilding, Embeds, config, services
<1>7. DataOK'
  <2>1. 0 \in 0..Stale
    BY EmbeddingAssumption
  <2> QED BY <1>1, <1>2, <2>1 DEF DataOK, config, services, vectors
<1>8. RaceInv'
  BY <1>1, <1>2, <1>3, RaceKept DEF DataOK
<1>9. LabelInv'
  BY <1>1, <1>2, <1>3, LabelKept DEF vectors, services
<1>10. \A u \in Tasks : Quiet(u)
  BY <1>1 DEF Quiet, services
<1> QED BY <1>1, <1>2, <1>3, <1>5, <1>6, <1>7, <1>8, <1>9, <1>10, Proceeds

\* The window is embedded.
LEMMA EmbedStep == ASSUME IInv, NEW j \in Jobs, Embed(j) PROVE IInv'
<1> DEFINE k == task[j]  v == Embeds(k.svc, k.on)
           n == [k EXCEPT !.pc = "rows", !.read = v, !.todo = Rows]
<1>1. /\ k.pc = "embed" /\ Goes(j, n, {})
      /\ UNCHANGED <<config, status, age, services, vectors, events, history>>
  BY DEF Embed
<1>2. /\ k \in Task /\ k.scope \in Scopes /\ JobShape(j) /\ JobKnows(j) /\ DataOK
      /\ v \in Versions /\ v \in Services
      /\ j \in Tasks /\ j \notin Admins /\ j \notin Writers /\ Running(j)
      /\ task \in [Tasks -> Task]
  BY <1>1, JobFacts
<1>3. /\ n \in Task /\ n.pc = "rows" /\ n.read = v /\ n.todo = Rows
      /\ n.on = k.on /\ n.scope = k.scope /\ n.asked = k.asked /\ n.width = k.width
      /\ n.svc = k.svc /\ n.goal = k.goal /\ n.disturbed = k.disturbed
  BY <1>2 DEF Task, Pcs, JobPcs, Rebuilding
<1> HIDE DEF n
<1>4. task'[j] = n
  BY <1>1, <1>2, <1>3, Moves
<1>5. JobShape(j)'
  BY <1>1, <1>2, <1>3, <1>4 DEF JobShape, JobPcs, Rebuilding
<1>6. JobKnows(j)'
  <2>1. k.pc \in Rebuilding /\ n.pc \in Rebuilding /\ ~n.asked
    BY <1>1, <1>2, <1>3 DEF Rebuilding, JobShape
  <2> QED BY <1>1, <1>2, <1>3, <1>4, <2>1, Rebuilds
<1> QED BY <1>1, <1>2, <1>3, <1>5, <1>6, Walks DEF DataOK

\* A row is written.
LEMMA WriteRowStep == ASSUME IInv, NEW j \in Jobs, WriteRow(j) PROVE IInv'
<1> DEFINE k == task[j]  v == Embeds(k.svc, k.on)
<1>0. PICK x \in k.todo :
        /\ k.pc = "rows"
        /\ catalog' = [catalog EXCEPT ![x] = k.read]
        /\ Goes(j, [k EXCEPT !.pc = IF k.todo = {x} THEN "drop" ELSE "rows",
                             !.todo = k.todo \ {x}], Others(j))
        /\ UNCHANGED <<config, status, age, services, index, entries, events, history>>
  BY DEF WriteRow
<1> DEFINE n == [k EXCEPT !.pc = IF k.todo = {x} THEN "drop" ELSE "rows", !.todo = k.todo \ {x}]
<1>1. k.pc = "rows" /\ Goes(j, n, Others(j))
  BY <1>0
<1>2. /\ k \in Task /\ JobShape(j) /\ JobKnows(j) /\ DataOK /\ RaceInv /\ LabelInv
      /\ j \in Tasks /\ j \notin Admins /\ j \notin Writers /\ Running(j)
      /\ task \in [Tasks -> Task]
  BY <1>1, JobFacts
<1>3. /\ n \in Task /\ n.pc = (IF k.todo = {x} THEN "drop" ELSE "rows") /\ n.todo = k.todo \ {x}
      /\ n.read = k.read /\ n.on = k.on /\ n.scope = k.scope /\ n.asked = k.asked
      /\ n.width = k.width /\ n.svc = k.svc /\ n.goal = k.goal /\ n.disturbed = k.disturbed
  BY <1>2 DEF Task, Pcs, JobPcs, Rebuilding
<1> HIDE DEF n
<1>4. task'[j] = n
  BY <1>1, <1>2, <1>3, Moves
<1>5. JobShape(j)' /\ k.todo \subseteq Rows /\ k.read \in Versions /\ ~k.asked
  BY <1>1, <1>2, <1>3, <1>4 DEF JobShape, JobPcs, Rebuilding
<1>6. JobKnows(j)'
  <2>1. k.pc \in Rebuilding /\ n.pc \in {"rows", "drop"} /\ n.pc \in Rebuilding /\ ~n.asked
    BY <1>1, <1>3, <1>5 DEF Rebuilding
  <2>2. ASSUME ~n.disturbed PROVE n.read = v /\ \A y \in Rows \ n.todo : catalog'[y] = v
    <3>1. k.read = v /\ \A y \in Rows \ k.todo : catalog[y] = v
      BY <1>1, <1>2, <1>3, <2>2 DEF JobKnows
    <3> QED BY <1>0, <1>2, <1>3, <3>1 DEF DataOK
  <2>3. n.pc = "drop" => n.todo = {}
    BY <1>3
  <2> QED BY <1>0, <1>2, <1>3, <1>4, <2>1, <2>2, <2>3, Rebuilds
<1>7. DataOK'
  BY <1>0, <1>2, <1>5 DEF DataOK, config, services
<1>8. RaceInv'
  BY <1>0, <1>1, <1>2, <1>3, RaceKept
<1>9. LabelInv'
  BY <1>0, <1>1, <1>2, <1>3, LabelKept DEF services
<1>10. \A u \in Tasks \ Writers : u # j => u \in Others(j)
  BY DEF Others
<1> QED BY <1>0, <1>1, <1>2, <1>3, <1>5, <1>6, <1>7, <1>8, <1>9, <1>10, Proceeds

\* The index is dropped, or stays, ...
LEMMA DropIndexStep == ASSUME IInv, NEW j \in Jobs, DropIndex(j) PROVE IInv'
<1> DEFINE k == task[j]  v == Embeds(k.svc, k.on)  n == To(j, "create")
<1>1. /\ k.pc = "drop" /\ Goes(j, n, Others(j)) /\ index' \in {None, index}
      /\ UNCHANGED <<config, status, age, services, catalog, entries, events, history>>
  BY DEF DropIndex
<1>2. /\ k \in Task /\ JobShape(j) /\ JobKnows(j) /\ DataOK /\ RaceInv /\ LabelInv
      /\ j \in Tasks /\ j \notin Admins /\ j \notin Writers /\ Running(j)
      /\ task \in [Tasks -> Task]
  BY <1>1, JobFacts
<1>3. /\ n \in Task /\ n.pc = "create"
      /\ n.on = k.on /\ n.scope = k.scope /\ n.asked = k.asked
      /\ n.width = k.width /\ n.svc = k.svc /\ n.goal = k.goal /\ n.disturbed = k.disturbed
  BY <1>2, ToTyped DEF Pcs, JobPcs, Rebuilding
<1> HIDE DEF n
<1>4. task'[j] = n
  BY <1>1, <1>2, <1>3, Moves
<1>5. JobShape(j)' /\ ~k.asked
  BY <1>1, <1>2, <1>3, <1>4 DEF JobShape, JobPcs, Rebuilding
<1>6. JobKnows(j)'
  <2>1. k.pc \in Rebuilding /\ n.pc \in Rebuilding /\ ~n.asked
    BY <1>1, <1>3, <1>5 DEF Rebuilding
  <2>2. ~k.disturbed => \A x \in Rows : catalog[x] = v
    BY <1>1, <1>2 DEF JobKnows, Rebuilding
  <2> QED BY <1>1, <1>2, <1>3, <1>4, <2>1, <2>2, Rebuilds
<1>7. DataOK'
  BY <1>1, <1>2, Numbers DEF DataOK, config, services
<1>8. RaceInv'
  BY <1>1, <1>2, <1>3, RaceKept
<1>9. LabelInv'
  BY <1>1, <1>2, <1>3, LabelKept DEF services
<1>10. \A u \in Tasks \ Writers : u # j => u \in Others(j)
  BY DEF Others
<1> QED BY <1>1, <1>2, <1>3, <1>5, <1>6, <1>7, <1>8, <1>9, <1>10, Proceeds

\* ... and is there afterwards, as wide as the vectors.
LEMMA CreateIndexStep == ASSUME IInv, NEW j \in Jobs, CreateIndex(j) PROVE IInv'
<1> DEFINE k == task[j]  v == Embeds(k.svc, k.on)  n == To(j, "label")
<1>1. /\ k.pc = "create" /\ Goes(j, n, Others(j)) /\ index' = k.width
      /\ UNCHANGED <<config, status, age, services, catalog, entries, events, history>>
  BY DEF CreateIndex
<1>2. /\ k \in Task /\ JobShape(j) /\ JobKnows(j) /\ DataOK /\ RaceInv /\ LabelInv
      /\ j \in Tasks /\ j \notin Admins /\ j \notin Writers /\ Running(j)
      /\ task \in [Tasks -> Task] /\ k.width \in Services
  BY <1>1, JobFacts DEF Task
<1>3. /\ n \in Task /\ n.pc = "label"
      /\ n.on = k.on /\ n.scope = k.scope /\ n.asked = k.asked
      /\ n.width = k.width /\ n.svc = k.svc /\ n.goal = k.goal /\ n.disturbed = k.disturbed
  BY <1>2, ToTyped DEF Pcs, JobPcs, Rebuilding
<1> HIDE DEF n
<1>4. task'[j] = n
  BY <1>1, <1>2, <1>3, Moves
<1>5. JobShape(j)' /\ ~k.asked
  BY <1>1, <1>2, <1>3, <1>4 DEF JobShape, JobPcs, Rebuilding
<1>6. JobKnows(j)'
  <2>1. k.pc \in Rebuilding /\ n.pc \in Rebuilding /\ ~n.asked
    BY <1>1, <1>3, <1>5 DEF Rebuilding
  <2>2. ~k.disturbed => (\A x \in Rows : catalog[x] = v) /\ k.width = v
    BY <1>1, <1>2 DEF JobKnows, Rebuilding
  <2> QED BY <1>1, <1>2, <1>3, <1>4, <2>1, <2>2, Rebuilds
<1>7. DataOK'
  BY <1>1, <1>2 DEF DataOK, config, services
<1>8. RaceInv'
  BY <1>1, <1>2, <1>3, RaceKept
<1>9. LabelInv'
  BY <1>1, <1>2, <1>3, LabelKept DEF services
<1>10. \A u \in Tasks \ Writers : u # j => u \in Others(j)
  BY DEF Others
<1> QED BY <1>1, <1>2, <1>3, <1>5, <1>6, <1>7, <1>8, <1>9, <1>10, Proceeds

\* The migration decides which label is not stale.
LEMMA LabelStep == ASSUME IInv, NEW j \in Jobs, Label(j) PROVE IInv'
<1> DEFINE k == task[j]  v == Embeds(k.svc, k.on)  n == [k EXCEPT !.pc = "page", !.label = v]
<1>1. /\ k.pc = "label" /\ Goes(j, n, {})
      /\ UNCHANGED <<config, status, age, services, vectors, events, history>>
  BY DEF Label
<1>2. /\ k \in Task /\ JobShape(j) /\ JobKnows(j) /\ DataOK /\ v \in Services
      /\ j \in Tasks /\ j \notin Admins /\ j \notin Writers /\ Running(j)
      /\ task \in [Tasks -> Task]
  BY <1>1, JobFacts
<1>3. /\ n \in Task /\ n.pc = "page" /\ n.label = v
      /\ n.on = k.on /\ n.scope = k.scope /\ n.asked = k.asked
      /\ n.width = k.width /\ n.svc = k.svc /\ n.goal = k.goal /\ n.disturbed = k.disturbed
  BY <1>2 DEF Task, Pcs, JobPcs, Rebuilding
<1> HIDE DEF n
<1>4. task'[j] = n
  BY <1>1, <1>2, <1>3, Moves
<1>5. JobShape(j)' /\ ~k.asked
  BY <1>1, <1>2, <1>3, <1>4 DEF JobShape, JobPcs, Rebuilding
<1>6. JobKnows(j)'
  <2>1. k.pc \in Rebuilding /\ n.pc \in Rebuilding /\ ~n.asked
    BY <1>1, <1>3, <1>5 DEF Rebuilding
  <2>2. ~k.disturbed => (\A x \in Rows : catalog[x] = v) /\ index = v
    BY <1>1, <1>2 DEF JobKnows, Rebuilding
  <2> QED BY <1>1, <1>2, <1>3, <1>4, <2>1, <2>2, Rebuilds DEF vectors
<1> QED BY <1>1, <1>2, <1>3, <1>5, <1>6, Walks DEF DataOK

\* A page is read, or nothing is stale any more.
LEMMA PageStep == ASSUME IInv, NEW j \in Jobs, Page(j) PROVE IInv'
<1> DEFINE k == task[j]  v == Embeds(k.svc, k.on)  S == StaleEntries(k)
           s == IF S # {} THEN "reembed" ELSE IF k.scope = "platform" THEN "progress" ELSE "finish"
           n == [k EXCEPT !.pc = s, !.page = {<<e.key, e.label>> : e \in S},
                          !.todo = {e.key : e \in S}]
<1>1. /\ k.pc = "page" /\ Goes(j, n, {})
      /\ UNCHANGED <<config, status, age, services, vectors, events, history>>
  BY DEF Page
<1>2. /\ k \in Task /\ JobShape(j) /\ JobKnows(j) /\ DataOK
      /\ j \in Tasks /\ j \notin Admins /\ j \notin Writers /\ Running(j)
      /\ task \in [Tasks -> Task]
  BY <1>1, JobFacts
<1>3. \A e \in S : e.key \in Keys /\ <<e.key, e.label>> \in Keys \X Versions
  BY <1>2 DEF StaleEntries, DataOK, Entries
<1>4. {<<e.key, e.label>> : e \in S} \subseteq Keys \X Versions /\ {e.key : e \in S} \subseteq Keys
  BY <1>3
<1>5. S = {} => \A e \in entries : e.label = k.label
  BY DEF StaleEntries
<1> HIDE DEF S
<1>6. s \in Pcs /\ s \in {"reembed", "progress", "finish"}
  BY DEF Pcs, JobPcs, Rebuilding
<1>7. /\ n \in Task /\ n.pc = s /\ n.todo \subseteq Keys
      /\ n.on = k.on /\ n.scope = k.scope /\ n.asked = k.asked /\ n.label = k.label
      /\ n.width = k.width /\ n.svc = k.svc /\ n.goal = k.goal /\ n.disturbed = k.disturbed
  BY <1>2, <1>4, <1>6 DEF Task
<1> HIDE DEF n
<1>8. task'[j] = n
  BY <1>1, <1>2, <1>7, Moves
<1>9. JobShape(j)' /\ ~k.asked
  BY <1>1, <1>2, <1>6, <1>7, <1>8 DEF JobShape, JobPcs, Rebuilding
<1>10. JobKnows(j)'
  <2>1. k.pc \in Rebuilding /\ n.pc \in Rebuilding /\ ~n.asked
    BY <1>1, <1>6, <1>7, <1>9 DEF Rebuilding
  <2>2. ~k.disturbed => (\A x \in Rows : catalog[x] = v) /\ index = v /\ k.label = v
    BY <1>1, <1>2 DEF JobKnows, Rebuilding
  <2>3. n.pc \in {"progress", "finish"} => \A e \in entries : e.label = k.label
    BY <1>5, <1>7
  <2> QED BY <1>1, <1>2, <1>6, <1>7, <1>8, <2>1, <2>2, <2>3, Rebuilds DEF vectors
<1> QED BY <1>1, <1>2, <1>6, <1>7, <1>9, <1>10, Walks DEF DataOK

\* The page is embedded.
LEMMA ReembedStep == ASSUME IInv, NEW j \in Jobs, Reembed(j) PROVE IInv'
<1> DEFINE k == task[j]  v == Embeds(k.svc, k.on)  n == [k EXCEPT !.pc = "restore", !.read = v]
<1>1. /\ k.pc = "reembed" /\ Goes(j, n, {})
      /\ UNCHANGED <<config, status, age, services, vectors, events, history>>
  BY DEF Reembed
<1>2. /\ k \in Task /\ JobShape(j) /\ JobKnows(j) /\ DataOK /\ v \in Services /\ v \in Versions
      /\ j \in Tasks /\ j \notin Admins /\ j \notin Writers /\ Running(j)
      /\ task \in [Tasks -> Task]
  BY <1>1, JobFacts
<1>3. /\ n \in Task /\ n.pc = "restore" /\ n.read = v /\ n.todo = k.todo
      /\ n.on = k.on /\ n.scope = k.scope /\ n.asked = k.asked /\ n.label = k.label
      /\ n.width = k.width /\ n.svc = k.svc /\ n.goal = k.goal /\ n.disturbed = k.disturbed
  BY <1>2 DEF Task, Pcs, JobPcs, Rebuilding
<1> HIDE DEF n
<1>4. task'[j] = n
  BY <1>1, <1>2, <1>3, Moves
<1>5. JobShape(j)' /\ ~k.asked
  BY <1>1, <1>2, <1>3, <1>4 DEF JobShape, JobPcs, Rebuilding
<1>6. JobKnows(j)'
  <2>1. k.pc \in Rebuilding /\ n.pc \in Rebuilding /\ ~n.asked
    BY <1>1, <1>3, <1>5 DEF Rebuilding
  <2>2. ~k.disturbed => (\A x \in Rows : catalog[x] = v) /\ index = v /\ k.label = v
    BY <1>1, <1>2 DEF JobKnows, Rebuilding
  <2> QED BY <1>1, <1>2, <1>3, <1>4, <2>1, <2>2, Rebuilds DEF vectors
<1> QED BY <1>1, <1>2, <1>3, <1>5, <1>6, Walks DEF DataOK

\* An entry is stored again, with the vector of the page and the label of now.
LEMMA RestoreStep == ASSUME IInv, NEW j \in Jobs, Restore(j) PROVE IInv'
<1> DEFINE k == task[j]  v == Embeds(k.svc, k.on)
<1>0. PICK x \in k.todo :
        /\ k.pc = "restore"
        /\ entries' = Upsert(x, v, k.read)
        /\ Goes(j, [k EXCEPT !.pc = IF k.todo = {x} THEN "delete" ELSE "restore",
                             !.todo = k.todo \ {x}], Others(j))
        /\ UNCHANGED <<config, status, age, services, catalog, index, events, history>>
  BY DEF Restore
<1> DEFINE n == [k EXCEPT !.pc = IF k.todo = {x} THEN "delete" ELSE "restore",
                          !.todo = k.todo \ {x}]
<1>1. k.pc = "restore" /\ Goes(j, n, Others(j))
  BY <1>0
<1>2. /\ k \in Task /\ JobShape(j) /\ JobKnows(j) /\ DataOK /\ RaceInv /\ LabelInv
      /\ v \in Versions
      /\ j \in Tasks /\ j \notin Admins /\ j \notin Writers /\ Running(j)
      /\ task \in [Tasks -> Task]
  BY <1>1, JobFacts
<1>3. /\ n \in Task /\ n.pc \in {"restore", "delete"} /\ n.todo \subseteq k.todo
      /\ n.read = k.read /\ n.label = k.label
      /\ n.on = k.on /\ n.scope = k.scope /\ n.asked = k.asked
      /\ n.width = k.width /\ n.svc = k.svc /\ n.goal = k.goal /\ n.disturbed = k.disturbed
  BY <1>2 DEF Task, Pcs, JobPcs, Rebuilding
<1> HIDE DEF n
<1>4. task'[j] = n
  BY <1>1, <1>2, <1>3, Moves
<1>5. JobShape(j)' /\ k.todo \subseteq Keys /\ k.read \in Versions /\ ~k.asked
  BY <1>1, <1>2, <1>3, <1>4 DEF JobShape, JobPcs, Rebuilding
<1>6. JobKnows(j)'
  <2>1. k.pc \in Rebuilding /\ n.pc \in Rebuilding /\ ~n.asked
    BY <1>1, <1>3, <1>5 DEF Rebuilding
  <2>2. ~k.disturbed => (\A y \in Rows : catalog[y] = v) /\ index = v /\ k.label = v
    BY <1>1, <1>2 DEF JobKnows, Rebuilding
  <2> QED BY <1>0, <1>2, <1>3, <1>4, <2>1, <2>2, Rebuilds
<1>7. \A e \in entries' : e \in entries \/ e = [key |-> x, label |-> v, vec |-> k.read]
  BY <1>0 DEF Upsert
<1>8. DataOK'
  <2>1. [key |-> x, label |-> v, vec |-> k.read] \in Entries
    BY <1>2, <1>5 DEF Entries
  <2>2. entries' \subseteq Entries
    BY <1>2, <1>7, <2>1 DEF DataOK
  <2> QED BY <1>0, <1>2, <2>2 DEF DataOK, config, services
<1>9. RaceInv'
  BY <1>0, <1>1, <1>2, <1>3, RaceKept
<1>10. LabelInv'
  <2>1. "torn" \in history \/ k.read = v
    BY <1>1, <1>2 DEF LabelInv
  <2>2. "torn" \in history' \/ \A e \in entries' : e \in entries \/ e.vec = e.label
    BY <1>0, <1>7, <2>1
  <2> QED BY <1>0, <1>1, <1>2, <1>3, <2>1, <2>2, LabelKept DEF services, Embeds
<1>11. \A u \in Tasks \ Writers : u # j => u \in Others(j)
  BY DEF Others
<1> QED BY <1>0, <1>1, <1>2, <1>3, <1>5, <1>6, <1>8, <1>9, <1>10, <1>11, Proceeds

\* The page is deleted.
LEMMA DeletePageStep == ASSUME IInv, NEW j \in Jobs, DeletePage(j) PROVE IInv'
<1> DEFINE k == task[j]  v == Embeds(k.svc, k.on)  n == [k EXCEPT !.pc = "page", !.page = {}]
<1>1. /\ k.pc = "delete" /\ Goes(j, n, Others(j))
      /\ entries' \subseteq entries
      /\ UNCHANGED <<config, status, age, services, catalog, index, events, history>>
  BY DEF DeletePage
<1>2. /\ k \in Task /\ JobShape(j) /\ JobKnows(j) /\ DataOK /\ RaceInv /\ LabelInv
      /\ j \in Tasks /\ j \notin Admins /\ j \notin Writers /\ Running(j)
      /\ task \in [Tasks -> Task]
  BY <1>1, JobFacts
<1>3. /\ n \in Task /\ n.pc = "page" /\ n.label = k.label
      /\ n.on = k.on /\ n.scope = k.scope /\ n.asked = k.asked
      /\ n.width = k.width /\ n.svc = k.svc /\ n.goal = k.goal /\ n.disturbed = k.disturbed
  BY <1>2 DEF Task, Pcs, JobPcs, Rebuilding
<1> HIDE DEF n
<1>4. task'[j] = n
  BY <1>1, <1>2, <1>3, Moves
<1>5. JobShape(j)' /\ ~k.asked
  BY <1>1, <1>2, <1>3, <1>4 DEF JobShape, JobPcs, Rebuilding
<1>6. JobKnows(j)'
  <2>1. k.pc \in Rebuilding /\ n.pc \in Rebuilding /\ ~n.asked
    BY <1>1, <1>3, <1>5 DEF Rebuilding
  <2>2. ~k.disturbed => (\A x \in Rows : catalog[x] = v) /\ index = v /\ k.label = v
    BY <1>1, <1>2 DEF JobKnows, Rebuilding
  <2> QED BY <1>1, <1>2, <1>3, <1>4, <2>1, <2>2, Rebuilds
<1>7. DataOK'
  BY <1>1, <1>2 DEF DataOK, config, services
<1>8. RaceInv'
  BY <1>1, <1>2, <1>3, RaceKept
<1>9. LabelInv'
  BY <1>1, <1>2, <1>3, LabelKept DEF services
<1>10. \A u \in Tasks \ Writers : u # j => u \in Others(j)
  BY DEF Others
<1> QED BY <1>1, <1>2, <1>3, <1>5, <1>6, <1>7, <1>8, <1>9, <1>10, Proceeds

\* The platform's job writes running again.
LEMMA ProgressStep == ASSUME IInv, NEW j \in Jobs, Progress(j) PROVE IInv'
<1> DEFINE k == task[j]  v == Embeds(k.svc, k.on)  n == To(j, "finish")
<1>1. /\ k.pc = "progress" /\ Goes(j, n, {})
      /\ status' = [status EXCEPT !["platform"] = "running"]
      /\ UNCHANGED <<config, age, services, vectors, events, history>>
  BY DEF Progress
<1>2. /\ k \in Task /\ JobShape(j) /\ JobKnows(j) /\ DataOK /\ RaceInv /\ LabelInv
      /\ j \in Tasks /\ j \notin Admins /\ j \notin Writers /\ Running(j)
      /\ task \in [Tasks -> Task]
  BY <1>1, JobFacts
<1>3. /\ n \in Task /\ n.pc = "finish" /\ n.label = k.label
      /\ n.on = k.on /\ n.scope = k.scope /\ n.asked = k.asked
      /\ n.width = k.width /\ n.svc = k.svc /\ n.goal = k.goal /\ n.disturbed = k.disturbed
  BY <1>2, ToTyped DEF Pcs, JobPcs, Rebuilding
<1> HIDE DEF n
<1>4. task'[j] = n
  BY <1>1, <1>2, <1>3, Moves
<1>5. JobShape(j)' /\ ~k.asked
  BY <1>1, <1>2, <1>3, <1>4 DEF JobShape, JobPcs, Rebuilding
<1>6. JobKnows(j)'
  <2>1. k.pc \in Rebuilding /\ n.pc \in Rebuilding /\ ~n.asked
    BY <1>1, <1>3, <1>5 DEF Rebuilding
  <2>2. ~k.disturbed => /\ (\A x \in Rows : catalog[x] = v) /\ index = v /\ k.label = v
                        /\ \A e \in entries : e.label = v
    BY <1>1, <1>2 DEF JobKnows, Rebuilding
  <2> QED BY <1>1, <1>2, <1>3, <1>4, <2>1, <2>2, Rebuilds DEF vectors
<1>7. DataOK'
  BY <1>1, <1>2 DEF DataOK, config, services, vectors
<1>8. RaceInv'
  BY <1>1, <1>2, <1>3, RaceKept DEF DataOK
<1>9. LabelInv'
  BY <1>1, <1>2, <1>3, LabelKept DEF services, vectors
<1>10. \A u \in Tasks : Quiet(u)
  BY <1>1 DEF Quiet, services
<1> QED BY <1>1, <1>2, <1>3, <1>5, <1>6, <1>7, <1>8, <1>9, <1>10, Proceeds

\* A job ends, and may say how.
LEMMA EndsStep ==
  ASSUME IInv, NEW j \in Jobs, task[j].pc # "idle", Goes(j, NoTask, {}),
         NEW s \in {"completed", "failed"},
         status' \in {status, [status EXCEPT ![task[j].scope] = s]}, events' \in 0..MaxEvents,
         UNCHANGED <<config, age, services, vectors, history>>
  PROVE  IInv'
<1>1. /\ task[j].scope \in Scopes /\ DataOK /\ RaceInv /\ LabelInv
      /\ j \in Tasks /\ j \notin Admins /\ j \notin Writers /\ Running(j)
      /\ task \in [Tasks -> Task]
  BY JobFacts
<1>2. task'[j] = NoTask /\ NoTask \in Task /\ NoTask.pc = "idle"
  BY <1>1, NoTaskTyped, Moves
<1>3. JobShape(j)' /\ JobKnows(j)'
  BY <1>2, Rested
<1>4. DataOK'
  BY <1>1 DEF DataOK, config, services, vectors
<1>5. RaceInv'
  BY <1>1, <1>2, RaceEnds DEF DataOK
<1>6. LabelInv'
  BY <1>1, <1>2, LabelKept DEF services, vectors
<1>7. \A u \in Tasks : Quiet(u)
  BY DEF Quiet, services
<1> QED BY <1>1, <1>2, <1>3, <1>4, <1>5, <1>6, <1>7, Proceeds

\* The job is done, or one of its calls fails.
LEMMA FinishStep == ASSUME IInv, NEW j \in Jobs, Finish(j) \/ Fails(j) PROVE IInv'
<1>1. DataOK
  BY DEF IInv, TypeOK
<1>2. CASE Finish(j)
  BY <1>1, <1>2, EndsStep DEF Finish, DataOK
<1>3. CASE Fails(j)
  <2>1. events' \in 0..MaxEvents
    BY <1>1, <1>3, EmbeddingAssumption DEF Fails, Event, DataOK
  <2> QED BY <1>3, <2>1, EndsStep DEF Fails
<1> QED BY <1>2, <1>3

\* A request, a job or a writer ends without a word.
LEMMA RaisesStep == ASSUME IInv, NEW t \in Tasks, Raises(t) PROVE IInv'
<1>1. /\ Goes(t, NoTask, {}) /\ UNCHANGED <<config, status, age, services, vectors, history>>
      /\ events' \in 0..MaxEvents
  BY EmbeddingAssumption DEF Raises, Event, IInv, TypeOK, DataOK
<1>2. task'[t] = NoTask /\ NoTask \in Task /\ NoTask.pc = "idle"
  BY <1>1, NoTaskTyped, Moves DEF IInv, TypeOK
<1> QED BY <1>1, <1>2, Rested, Walks

-----------------------------------------------------------------------------
(* The writers and the environment                                         *)

\* A writer begins.
LEMMA BeginStep ==
  ASSUME IInv, NEW w \in Writers, NEW r \in Replicas, Call(w, r) \/ Sync(w, r)
  PROVE  IInv'
<1>0. /\ w \in Tasks /\ w \notin Admins /\ w \notin Jobs /\ DataOK /\ task \in [Tasks -> Task]
  BY Kinds DEF IInv, TypeOK
<1>1. CASE Call(w, r)
  <2>1. PICK x \in Keys : Goes(w, [NoTask EXCEPT !.pc = "store", !.on = r, !.todo = {x}], {})
    BY <1>1 DEF Call
  <2> DEFINE n == [NoTask EXCEPT !.pc = "store", !.on = r, !.todo = {x}]
  <2>2. Goes(w, n, {})
    BY <2>1
  <2>3. n \in Task /\ n.pc = "store" /\ n.todo = {x} /\ ~n.asked
    BY NoTaskTyped DEF Task, Pcs, WriterPcs
  <2> HIDE DEF n
  <2>4. task'[w] = n
    BY <1>0, <2>2, <2>3, Moves
  <2>5. WriterShape(w)'
    BY <2>3, <2>4 DEF WriterShape, WriterPcs
  <2>6. Event /\ UNCHANGED <<config, status, age, services, vectors, history>>
    BY <1>1 DEF Call
  <2>7. events' \in 0..MaxEvents
    BY <1>0, <2>6, EmbeddingAssumption DEF Event, DataOK
  <2> QED BY <1>0, <2>2, <2>3, <2>5, <2>6, <2>7, Walks
<1>2. CASE Sync(w, r)
  <2>0. PICK x \in Rows : \E v \in {catalog[x], active[r]} :
          Goes(w, [NoTask EXCEPT !.pc = "upsert", !.on = r, !.read = v, !.todo = {x}], {})
    BY <1>2 DEF Sync
  <2>1. PICK v \in {catalog[x], active[r]} :
          Goes(w, [NoTask EXCEPT !.pc = "upsert", !.on = r, !.read = v, !.todo = {x}], {})
    BY <2>0
  <2> DEFINE n == [NoTask EXCEPT !.pc = "upsert", !.on = r, !.read = v, !.todo = {x}]
  <2>2. Goes(w, n, {}) /\ v \in Versions
    BY <1>0, <2>1 DEF DataOK
  <2>3. n \in Task /\ n.pc = "upsert" /\ n.todo = {x} /\ ~n.asked /\ n.read = v
    BY <2>2, NoTaskTyped, Numbers DEF Task, Pcs, WriterPcs
  <2> HIDE DEF n
  <2>4. task'[w] = n
    BY <1>0, <2>2, <2>3, Moves
  <2>5. WriterShape(w)'
    BY <2>2, <2>3, <2>4 DEF WriterShape, WriterPcs
  <2>6. Event /\ UNCHANGED <<config, status, age, services, vectors, history>>
    BY <1>2 DEF Sync
  <2>7. events' \in 0..MaxEvents
    BY <1>0, <2>6, EmbeddingAssumption DEF Event, DataOK
  <2> QED BY <1>0, <2>2, <2>3, <2>5, <2>6, <2>7, Walks
<1> QED BY <1>1, <1>2

\* A writer writes an entry or a row, and disturbs everybody.
LEMMA WriterEnds == ASSUME IInv, NEW w \in Writers, WriterStep(w) PROVE IInv'
<1>0. /\ w \in Tasks /\ w \notin Admins /\ w \notin Jobs /\ DataOK /\ task \in [Tasks -> Task]
      /\ WriterShape(w) /\ RaceInv /\ LabelInv
  BY Kinds DEF IInv, TypeOK, Shaped
<1>1. /\ Goes(w, NoTask, Others(w)) /\ index' = index
      /\ UNCHANGED <<config, status, age, services, events, history>>
  BY DEF WriterStep, Put, SyncRow
<1>2. task'[w] = NoTask /\ NoTask \in Task /\ NoTask.pc = "idle"
  BY <1>0, <1>1, NoTaskTyped, Moves
<1>3. /\ catalog' \in [Rows -> Versions] /\ entries' \subseteq Entries
      /\ \A e \in entries' : e \in entries \/ e.vec = e.label
  <2>1. CASE Put(w)
    <3>1. PICK x \in task[w].todo : entries' = Upsert(x, task[w].read, task[w].read)
      BY <2>1 DEF Put
    <3>2. x \in Keys /\ task[w].read \in Versions /\ catalog' = catalog
      BY <1>0, <2>1 DEF Put, WriterShape
    <3>3. [key |-> x, label |-> task[w].read, vec |-> task[w].read] \in Entries
      BY <3>2 DEF Entries
    <3> QED BY <1>0, <3>1, <3>2, <3>3 DEF Upsert, DataOK
  <2>2. CASE SyncRow(w)
    BY <1>0, <2>2 DEF SyncRow, WriterShape, DataOK
  <2> QED BY <2>1, <2>2 DEF WriterStep
<1>4. DataOK'
  BY <1>0, <1>1, <1>3 DEF DataOK, config, services
<1>5. RaceInv'
  BY <1>0, <1>1, <1>2, RaceKept
<1>6. LabelInv'
  BY <1>0, <1>1, <1>2, <1>3, LabelKept DEF services
<1>7. \A u \in Tasks \ Writers : u # w => u \in Others(w)
  BY DEF Others
<1>8. WriterShape(w)'
  BY <1>2, Rested
<1> QED BY <1>0, <1>1, <1>2, <1>4, <1>5, <1>6, <1>7, <1>8, Proceeds

\* Time passes.
LEMMA TickStep == ASSUME IInv, Tick PROVE IInv'
<1>1. TypeOK'
  BY EmbeddingAssumption DEF IInv, TypeOK, DataOK, Tick, config, services, vectors
<1>2. Shaped'
  BY DEF IInv, Tick, Shaped, AdminShape, JobShape, WriterShape
<1>3. RaceInv' /\ LabelInv'
  BY DEF IInv, Tick, RaceInv, LabelInv, Running, Triggering, Embeds, services, vectors
<1>4. Knows'
  BY DEF IInv, Tick, Knows, AdminKnows, JobKnows, Embeds, config, services, vectors
<1> QED BY <1>1, <1>2, <1>3, <1>4 DEF IInv

\* A process is lost with its tasks; nobody else notices.
LEMMA CrashStep == ASSUME IInv, NEW r \in Replicas, Crash(r) PROVE IInv'
<1>1. /\ DataOK /\ Shaped /\ RaceInv /\ LabelInv /\ Knows /\ task \in [Tasks -> Task]
  BY DEF IInv, TypeOK
<1>2. /\ events' \in 0..MaxEvents /\ own' = [own EXCEPT ![r] = None]
      /\ task' = [t \in Tasks |-> IF On(t) = r THEN NoTask ELSE task[t]]
      /\ UNCHANGED <<platform, override, status, age, catalog, index, entries, history>>
  BY <1>1, EmbeddingAssumption DEF Crash, Event, DataOK, config, vectors
<1>3. PICK v \in {1, platform} : active' = [active EXCEPT ![r] = v]
  BY DEF Crash
<1>4. TypeOK'
  BY <1>1, <1>2, <1>3, NoTaskTyped, Numbers DEF TypeOK, DataOK
<1>5. \A t \in Tasks : \/ task'[t] = NoTask
                       \/ On(t) # r /\ task'[t] = task[t]
  BY <1>2
<1>6. \A t \in Tasks : task'[t] # NoTask => Kept(t) /\ Quiet(t)
  BY <1>1, <1>2, <1>3, <1>5 DEF Kept, Quiet, DataOK, On, Task, config, vectors
<1>7. Shaped'
  BY <1>1, <1>6, ShapeKept, Rested, Kinds DEF Shaped
<1>8. RaceInv'
  <2>1. \A t \in Tasks : task'[t].pc # "idle" => task'[t] = task[t]
    BY <1>5, NoTaskTyped
  <2>2. \A j \in Jobs : Running(j)' => Running(j) /\ task'[j] = task[j]
    BY <2>1, Kinds DEF Running
  <2>3. \A a \in Admins : Triggering(a)' => Triggering(a) /\ task'[a] = task[a]
    BY <2>1, Kinds DEF Triggering
  <2>4. CASE "raced" \in history
    BY <1>2, <2>4 DEF RaceInv
  <2>5. CASE "raced" \notin history
    <3>1. /\ \A j \in Jobs : Running(j) => status[task[j].scope] = "running"
          /\ \A j \in Jobs, a \in Admins :
               Running(j) /\ Triggering(a) => task[a].scope # task[j].scope
          /\ \A i, j \in Jobs :
               Running(i) /\ Running(j) /\ task[i].scope = task[j].scope => i = j
      BY <1>1, <2>5 DEF RaceInv
    <3>2. \A j \in Jobs : Running(j)' => status'[task'[j].scope] = "running"
      BY <1>2, <2>2, <3>1
    <3>3. \A j \in Jobs, a \in Admins :
            Running(j)' /\ Triggering(a)' => task'[a].scope # task'[j].scope
      BY <2>2, <2>3, <3>1
    <3>4. \A i, j \in Jobs :
            Running(i)' /\ Running(j)' /\ task'[i].scope = task'[j].scope => i = j
      BY <2>2, <3>1
    <3> QED BY <3>2, <3>3, <3>4 DEF RaceInv
  <2> QED BY <2>4, <2>5
<1>9. LabelInv'
  <2>1. \A j \in Jobs : task'[j].pc = "restore" => task'[j] = task[j] /\ task[j].on # r
    BY <1>5, NoTaskTyped, Kinds DEF On
  <2>2. \A j \in Jobs : task'[j].pc = "restore" => active'[task[j].on] = active[task[j].on]
    BY <1>1, <1>3, <2>1, Kinds DEF DataOK, Task
  <2>3. CASE "torn" \in history
    BY <1>2, <2>3 DEF LabelInv
  <2>4. CASE "torn" \notin history
    <3>1. /\ \A e \in entries : e.vec = e.label
          /\ \A j \in Jobs : task[j].pc = "restore" =>
               task[j].read = Embeds(task[j].svc, task[j].on)
      BY <1>1, <2>4 DEF LabelInv
    <3>2. ASSUME NEW j \in Jobs, task'[j].pc = "restore"
          PROVE  task'[j].read = IF task'[j].svc = Proxy THEN active'[task'[j].on]
                                                         ELSE task'[j].svc
      BY <2>1, <2>2, <3>1, <3>2 DEF Embeds
    <3> QED BY <1>2, <3>1, <3>2 DEF LabelInv, Embeds
  <2> QED BY <2>3, <2>4
<1>10. \A a \in Admins : AdminKnows(a)'
  BY <1>1, <1>6, AdminKept, Rested, Kinds DEF Shaped, Knows
<1>11. \A j \in Jobs : JobKnows(j)'
  BY <1>1, <1>6, JobKept, Rested, Kinds DEF Knows
<1> QED BY <1>4, <1>7, <1>8, <1>9, <1>10, <1>11 DEF IInv, Knows

-----------------------------------------------------------------------------
(* The theorems                                                            *)

\* The initial state: everything was made by the version of the environment.
LEMMA Starts == Init => IInv
<1> SUFFICES ASSUME Init PROVE IInv
  OBVIOUS
<1>1. \A t \in Tasks : task[t] = NoTask
  BY DEF Init
<1>2. TypeOK
  <2>1. DataOK
    BY EmbeddingAssumption, Numbers DEF Init, DataOK, Entries, Scopes
  <2> QED BY <2>1, NoTaskTyped DEF Init, TypeOK
<1>3. Shaped
  BY <1>1, NoTaskTyped, Kinds
  DEF Shaped, AdminShape, JobShape, WriterShape, AdminPcs, JobPcs, WriterPcs
<1>4. RaceInv
  BY <1>1, NoTaskTyped, Kinds DEF RaceInv, Running
<1>5. LabelInv
  BY <1>1, NoTaskTyped, Kinds DEF Init, LabelInv
<1>6. Knows
  BY <1>1, NoTaskTyped, Kinds DEF Knows, AdminKnows, JobKnows
<1> QED BY <1>2, <1>3, <1>4, <1>5, <1>6 DEF IInv

\* Nothing happens.
LEMMA Stutters == ASSUME IInv, UNCHANGED vars PROVE IInv'
<1>1. TypeOK' /\ Shaped'
  BY DEF IInv, vars, config, services, vectors, TypeOK, DataOK, Shaped, AdminShape, JobShape,
         WriterShape
<1>2. RaceInv' /\ LabelInv'
  BY DEF IInv, vars, services, vectors, RaceInv, LabelInv, Running, Triggering, Embeds
<1>3. Knows'
  BY DEF IInv, vars, config, services, vectors, Knows, AdminKnows, JobKnows, Embeds
<1> QED BY <1>1, <1>2, <1>3 DEF IInv

\* Every step keeps the invariant.
LEMMA NextStep == IInv /\ [Next]_vars => IInv'
<1> SUFFICES ASSUME IInv, [Next]_vars PROVE IInv'
  OBVIOUS
<1>1. CASE \E t \in Tasks : Resolve(t) \/ Raises(t)
  BY <1>1, LookupStep, BuildStep, RaisesStep DEF Resolve
<1>2. CASE \E a \in Admins : AdminStep(a)
  BY <1>2, SaveStep, ReloadStep, ActivateStep, InvalidateStep, TriggerStep, AnnounceStep
  DEF AdminStep
<1>3. CASE \E a \in Admins : \E r \in Replicas, s \in Scopes : Change(a, r, s)
  BY <1>3, ChangeStep
<1>4. CASE \E j \in Jobs : Fails(j)
  BY <1>4, FinishStep
<1>5. CASE \E j \in Jobs : JobStep(j)
  BY <1>5, StartStep, EmbedStep, WriteRowStep, DropIndexStep, CreateIndexStep, LabelStep,
     PageStep, ReembedStep, RestoreStep, DeletePageStep, ProgressStep, FinishStep
  DEF JobStep
<1>6. CASE \E w \in Writers : WriterStep(w)
  BY <1>6, WriterEnds
<1>7. CASE \E w \in Writers : \E r \in Replicas : Call(w, r) \/ Sync(w, r)
  BY <1>7, BeginStep
<1>8. CASE Tick
  BY <1>8, TickStep
<1>9. CASE \E r \in Replicas : Crash(r)
  BY <1>9, CrashStep
<1>10. CASE UNCHANGED vars
  BY <1>10, Stutters
<1> QED BY <1>1, <1>2, <1>3, <1>4, <1>5, <1>6, <1>7, <1>8, <1>9, <1>10 DEF Next

\* The invariant holds, whatever requests, crashes and failing calls there are and in
\* whatever order they come.
THEOREM Invariance == Spec => []IInv
<1> QED BY Starts, NextStep, PTL DEF Spec

\* Every variable keeps its type: a version that is neither of the environment nor
\* probed by a request is never served, stored or used as a label.
THEOREM TypeCorrect == Spec => []TypeOK
<1>1. IInv => TypeOK
  BY DEF IInv
<1> QED BY <1>1, Invariance, PTL

\* trigger_reprovision and trigger_tenant_reprovision start no second reprovision of
\* a scope beside one that runs, unless the status that they read was outdated.
THEOREM OneJobAtATime == Spec => []OneJobUnlessRaced
<1>1. IInv => OneJobUnlessRaced
  BY DEF IInv, RaceInv, OneJobUnlessRaced
<1> QED BY <1>1, Invariance, PTL

\* SemanticCache.store and the migration of its entries label every vector with the
\* version that made it, unless the active version changed under a migration.
THEOREM LabelsStayTrue == Spec => []LabelsAreTrue
<1>1. IInv => LabelsAreTrue
  BY DEF IInv, LabelInv, LabelsAreTrue
<1> QED BY <1>1, Invariance, PTL

\* A reprovision that nobody interfered with has brought the catalog, its index and
\* every cached result of the tenant to the version that was saved.
THEOREM UndisturbedStaysUniform == Spec => []UndisturbedIsUniform
<1>1. ASSUME IInv PROVE UndisturbedIsUniform
  <2> SUFFICES ASSUME NEW j \in Jobs, task[j].pc \in {"progress", "finish"}, ~task[j].disturbed
               PROVE  LET k == task[j]  v == Embeds(k.svc, k.on) IN
                      /\ (k.goal # None /\ (k.scope = "platform" => k.svc = Proxy)) => v = k.goal
                      /\ \A x \in Rows : catalog[x] = v
                      /\ index = v
                      /\ \A e \in entries : e.label = v /\ (e.vec = v \/ "torn" \in history)
    BY DEF UndisturbedIsUniform
  <2> DEFINE k == task[j]  v == Embeds(k.svc, k.on)
  <2>1. k \in Task /\ JobKnows(j)
    BY <1>1, Kinds DEF IInv, TypeOK, Knows
  <2>2. k.pc \in Rebuilding /\ k.pc \in Rebuilding \ {"embed", "rows"}
        /\ k.pc \in Rebuilding \ {"embed", "rows", "drop", "create"}
    BY DEF Rebuilding
  <2>3. k.scope = "platform" => active[k.on] = k.goal
    BY <2>1 DEF JobKnows
  <2>4. k.scope = "tenant" => k.svc = k.goal
    BY <2>1, <2>2 DEF JobKnows
  <2>5. (k.goal # None /\ (k.scope = "platform" => k.svc = Proxy)) => v = k.goal
    BY <2>1, <2>3, <2>4, Numbers DEF Embeds, Task, Scopes
  <2>6. (\A x \in Rows : catalog[x] = v) /\ index = v /\ \A e \in entries : e.label = v
    BY <2>1, <2>2 DEF JobKnows
  <2>7. \A e \in entries : e.vec = e.label \/ "torn" \in history
    BY <1>1 DEF IInv, LabelInv
  <2> QED BY <2>5, <2>6, <2>7
<1> QED BY <1>1, Invariance, PTL
=============================================================================

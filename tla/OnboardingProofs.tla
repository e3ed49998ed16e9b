--------------------------- MODULE OnboardingProofs ---------------------------
(***************************************************************************)
(* Proofs about Onboarding: nobody can log in to a sign-up that is not     *)
(* capped, the caps hold while requests do not overlap, a demo is there as *)
(* a whole or not at all, and the quota is the tier's.  None of the four   *)
(* is inductive.  What they rest on is written down per tenant: which of   *)
(* its parts exist at each stage of its request (Staged), what a reaper    *)
(* that has removed some of them has left (Torn), which tier and which     *)
(* quota are stamped by then (Stamped, Confirmed), who can hold a token of *)
(* it (Tokened), and what the two caps owe to requests that are past their *)
(* check and not yet counted (WithinCaps).                                 *)
(***************************************************************************)
EXTENDS Onboarding, FiniteSetTheorems, TLAPS

Tiers == {"unset", "unconfirmed", "confirmed"}
Packs == {"utilities", "bridged"}
Doc == [exists : BOOLEAN, tier : Tiers, demo : BOOLEAN, due : BOOLEAN, claimed : BOOLEAN]
Account == [tenant : Tenants, email : Emails \cup {Nobody}, scopes : SUBSET Packs]
Undoing == {Undo, "undo db", "undo users", "undo sessions"}
Stages == Ended \cup Undoing \cup
  {"new", "count", "cap", "email", "doc", "db", "tier", "seed", "find", "insert", "quota",
   "session", "origin"}
TearingDown == {"doc", "db", "users", "sessions"}
\* A request that ran its course, or is being taken back.
Past == Undoing \cup {"done", "failed", "dead"}

TypeOK ==
  /\ docs \in [Tenants -> Doc] /\ dbs \subseteq Tenants /\ users \subseteq Account
  /\ sessions \subseteq Tenants /\ quotas \in [Tenants -> Tiers]
  /\ packs \in [Tenants -> SUBSET Packs] /\ attempts \in Nat
  /\ task \in [Tenants -> [pc : Stages, email : Emails \cup {Nobody}, scopes : SUBSET Packs]]
  /\ sweep \in [Collectors -> [pc : {"idle", "claim"} \cup TearingDown, on : Tenants \cup {Nobody}]]
  /\ admin \in [Admins -> [pc : {"idle", "quota"}, on : Tenants \cup {Nobody}, tier : Tiers,
                           alone : BOOLEAN]]
  /\ \A a \in Admins : admin[a].pc = "quota" => admin[a].on \in Tenants
  /\ tokens \subseteq Tenants /\ faults \in Nat /\ marred \subseteq Tenants
  /\ revived \subseteq Tenants /\ raced \subseteq Tenants /\ crowded \in BOOLEAN

HasUser(t) == \E u \in users : u.tenant = t
Bare(t) == ~HasUser(t) /\ t \notin sessions
Gone(t) == ~docs[t].exists /\ t \notin dbs /\ Bare(t)
Whole(t) == docs[t].exists /\ t \in dbs /\ HasUser(t) /\ t \in sessions

\* Nothing is said of the parts of a tenant whose clean-up failed, or that was used again.
Aside(t) == t \in marred \cup revived

\* Which parts of a tenant are there at each stage of its request.
Early == {"new", "refused", "count", "cap", "email", "doc"}
Staged(t) ==
  /\ Pc(t) \in Early => Gone(t)
  /\ Pc(t) = "db" => docs[t].exists /\ t \notin dbs /\ Bare(t)
  /\ Pc(t) \in {"tier", "find", "insert"} \/ (Pc(t) = "seed" /\ t \in Demos)
       => docs[t].exists /\ t \in dbs /\ Bare(t)
  /\ Pc(t) \in {"quota", "session"} /\ t \in Demos
       => docs[t].exists /\ t \in dbs /\ HasUser(t) /\ t \notin sessions
  /\ Pc(t) = "origin" => t \in Demos /\ Whole(t)
  /\ ~Aside(t) =>
       /\ Pc(t) # "dead"
       /\ Pc(t) = "undo db" => ~docs[t].exists
       /\ Pc(t) = "undo users" => ~docs[t].exists /\ t \notin dbs
       /\ Pc(t) = "undo sessions" => ~docs[t].exists /\ t \notin dbs /\ ~HasUser(t)
       /\ Pc(t) = "failed" /\ t \in Demos => Gone(t)
       /\ Pc(t) = "done" /\ t \in Demos =>
            Whole(t) \/ Gone(t) \/ \E c \in Collectors : sweep[c].on = t

\* The account of a sign-up: what is undone has none, and an account has its tier.
Registered(s) ==
  /\ Pc(s) \in {"find", "insert"} => docs[s].tier # "unset"
  /\ s \notin marred =>
       /\ Pc(s) \in {Undo, "undo db"} => ~HasUser(s)
       /\ HasUser(s) => docs[s].exists /\ docs[s].tier # "unset"

\* Only demos carry the mark, from their last step on, and only they are torn down.
Marked(t) == docs[t].demo => t \in Demos /\ Pc(t) \in Past

\* A token is for an account.
Tokened(t) ==
  t \in tokens => /\ Pc(t) \notin Early \cup {"db", "tier", "find", "insert"}
                  /\ Pc(t) = "seed" => t \notin Demos

\* What a tear-down has removed by now.
Torn(c) ==
  LET t == sweep[c].on IN
  /\ sweep[c].pc \in TearingDown <=> t # Nobody
  /\ t # Nobody => t \in Demos /\ Pc(t) \in Past
  /\ c \in Demos /\ sweep[c].pc # "idle" => Pc(c) = "count"
  /\ t # Nobody /\ ~Aside(t) =>
       /\ sweep[c].pc \in {"db", "users", "sessions"} => ~docs[t].exists
       /\ sweep[c].pc \in {"users", "sessions"} => t \notin dbs
       /\ sweep[c].pc = "sessions" => ~HasUser(t)

\* The tier is stamped before the account, the quota after it; what an administrator
\* changes of a finished tenant is the tier first.
Pending(t) == \E a \in Admins : admin[a].pc = "quota" /\ admin[a].on = t
Stamped(t) ==
  t \notin raced \cup revived =>
    /\ Pc(t) \in {"seed", "find", "insert", "quota", "session", "origin"} => docs[t].tier = Tier(t)
    /\ Pc(t) \in {"session", "origin"} \/ (Pc(t) = "seed" /\ t \in Signups)
         => quotas[t] = Tier(t)
    /\ Pc(t) = "done" /\ docs[t].exists => quotas[t] = docs[t].tier \/ Pending(t)

\* A change of the tier that nothing disturbed is the only one of its tenant, whose request
\* has ended; the others are known to have raced.
Confirmed(a) ==
  LET t == admin[a].on IN
  admin[a].pc = "quota" =>
    /\ ~admin[a].alone => t \in raced
    /\ admin[a].alone =>
         /\ Pc(t) \in Ended
         /\ \A b \in Admins : admin[b].pc = "quota" /\ admin[b].on = t => b = a
         /\ docs[t].exists /\ t \notin revived => docs[t].tier = admin[a].tier

\* Past the check of the cap, and not yet an account, or a demo.
SignupOwes == {"email", "doc", "db", "tier", "find", "insert"}
DemoOwes == {"doc", "db", "tier", "seed", "find", "insert", "quota", "session", "origin"}
OwingSignups == {s \in Signups : Pc(s) \in SignupOwes}
OwingDemos == {d \in Demos : Pc(d) \in DemoOwes}
Within(Owing, Counted, Cap) == Cap > 0 =>
  /\ \A t, u \in Owing : t = u
  /\ Cardinality(Counted) <= Cap
  /\ Owing # {} => Cardinality(Counted) < Cap
WithinCaps ==
  /\ IsFiniteSet(SelfRegistered) /\ IsFiniteSet(ActiveDemos)
  /\ \/ crowded
     \/ Within(OwingSignups, SelfRegistered, MaxTenants) /\ Within(OwingDemos, ActiveDemos, MaxDemos)

\* Everything that is known of a tenant.
Sound(t) == Staged(t) /\ Marked(t) /\ Stamped(t) /\ (t \in Signups => Registered(t))

\* The inductive invariant.
IInv == /\ TypeOK
        /\ \A t \in Tenants : Sound(t)
        /\ \A c \in Collectors : Torn(c)
        /\ \A t \in Tenants : Tokened(t)
        /\ \A a \in Admins : Confirmed(a)
        /\ WithinCaps

-----------------------------------------------------------------------------
(* What the assignments do                                                 *)

TaskSet == [pc : Stages, email : Emails \cup {Nobody}, scopes : SUBSET Packs]
SweepSet == [pc : {"idle", "claim"} \cup TearingDown, on : Tenants \cup {Nobody}]

LEMMA Disjoint ==
  Nobody \notin Tenants /\ Sweepers \cap Tenants = {} /\ Signups \cap Demos = {}
BY OnboardingAssumption DEF Nobody, Tenants

\* A request of t itself takes a step.
TenantStep(t) == \/ t \in Signups /\ SignupStep(t)
                 \/ t \in Demos /\ DemoStep(t)
                 \/ Build(t) \/ Breaks(t)

\* A reaper takes a step.
ReaperStep(c) == \/ Sweep(c) \/ Reap(c) \/ TeardownFails(c) \/ SweeperCrash(c)
                 \/ \E t \in Tenants : Delete(c, t)

\* An administrator takes a step.
AdminStep(a) == \/ ConfirmQuota(a) \/ ConfirmFails(a)
                \/ \E t \in Tenants, tier \in {"confirmed", "unconfirmed"} : Confirm(a, t, tier)

\* The clock goes on.
ClockStep == NewWindow \/ \E d \in Demos : Expire(d)

LEMMA Steps ==
  ASSUME Next
  PROVE  \/ \E t \in Tenants : TenantStep(t) \/ ReviveDoc(t) \/ ReviveDb(t)
         \/ \E c \in Collectors : ReaperStep(c)
         \/ \E a \in Admins : AdminStep(a)
         \/ ClockStep
BY DEF Next, TenantStep, ReaperStep, AdminStep, ClockStep, Tenants

\* A request moves to another stage, and perhaps its address or its scopes are set.
LEMMA TaskFields ==
  ASSUME NEW r \in TaskSet, NEW s, NEW e, NEW P
  PROVE  /\ [r EXCEPT !.pc = s] = [pc |-> s, email |-> r.email, scopes |-> r.scopes]
         /\ [r EXCEPT !.email = e] = [pc |-> r.pc, email |-> e, scopes |-> r.scopes]
         /\ [r EXCEPT !.scopes = P] = [pc |-> r.pc, email |-> r.email, scopes |-> P]
BY DEF TaskSet

Moves(t, s) == \E r \in TaskSet : r.pc = s /\ task' = [task EXCEPT ![t] = r]

LEMMA GoesMoves ==
  ASSUME TypeOK, NEW t \in Tenants, NEW s \in Stages, Goes(t, s)
  PROVE  Moves(t, s)
<1> DEFINE r == [pc |-> s, email |-> task[t].email, scopes |-> task[t].scopes]
<1>1. task[t] \in TaskSet
  BY DEF TypeOK, TaskSet
<1>2. task' = [task EXCEPT ![t] = [task[t] EXCEPT !.pc = s]]
  BY DEF Goes
<1>3. r \in TaskSet /\ r.pc = s /\ task' = [task EXCEPT ![t] = r]
  BY <1>1, <1>2, TaskFields DEF TaskSet
<1> QED BY <1>3 DEF Moves

LEMMA RegisterMoves ==
  ASSUME TypeOK, NEW t \in Tenants, NEW s \in Stages, NEW e \in Emails,
         task' = [task EXCEPT ![t].email = e, ![t].pc = s]
  PROVE  Moves(t, s)
<1> DEFINE r == [pc |-> s, email |-> e, scopes |-> task[t].scopes]
           q == [pc |-> task[t].pc, email |-> e, scopes |-> task[t].scopes]
<1>1. task[t] \in TaskSet /\ task \in [Tenants -> TaskSet] /\ q \in TaskSet
  BY DEF TypeOK, TaskSet
<1>2. [task EXCEPT ![t].email = e] = [task EXCEPT ![t] = q]
  BY <1>1, TaskFields
<1>3. task' = [[task EXCEPT ![t] = q] EXCEPT ![t].pc = s]
  BY <1>2
<1>4. task' = [task EXCEPT ![t] = [q EXCEPT !.pc = s]]
  BY <1>1, <1>3
<1>5. [q EXCEPT !.pc = s] = [pc |-> s, email |-> q.email, scopes |-> q.scopes]
  BY <1>1, TaskFields
<1>6. r \in TaskSet /\ r.pc = s /\ task' = [task EXCEPT ![t] = r]
  BY <1>1, <1>4, <1>5 DEF TaskSet
<1> QED BY <1>6 DEF Moves

LEMMA SeedMoves ==
  ASSUME TypeOK, NEW t \in Tenants, NEW s \in Stages, NEW P \in SUBSET Packs,
         task' = [task EXCEPT ![t].pc = s, ![t].scopes = P]
  PROVE  Moves(t, s)
<1> DEFINE r == [pc |-> s, email |-> task[t].email, scopes |-> P]
           q == [pc |-> s, email |-> task[t].email, scopes |-> task[t].scopes]
<1>1. task[t] \in TaskSet /\ task \in [Tenants -> TaskSet] /\ q \in TaskSet
  BY DEF TypeOK, TaskSet
<1>2. [task EXCEPT ![t].pc = s] = [task EXCEPT ![t] = q]
  BY <1>1, TaskFields
<1>3. task' = [[task EXCEPT ![t] = q] EXCEPT ![t].scopes = P]
  BY <1>2
<1>4. task' = [task EXCEPT ![t] = [q EXCEPT !.scopes = P]]
  BY <1>1, <1>3
<1>5. [q EXCEPT !.scopes = P] = [pc |-> q.pc, email |-> q.email, scopes |-> P]
  BY <1>1, TaskFields
<1>6. r \in TaskSet /\ r.pc = s /\ task' = [task EXCEPT ![t] = r]
  BY <1>1, <1>4, <1>5 DEF TaskSet
<1> QED BY <1>6 DEF Moves

\* One field of a document is set.
LEMMA DocFields ==
  ASSUME NEW d \in Doc, NEW x
  PROVE  /\ [d EXCEPT !.exists = x] = [exists |-> x, tier |-> d.tier, demo |-> d.demo,
                                       due |-> d.due, claimed |-> d.claimed]
         /\ [d EXCEPT !.tier = x] = [exists |-> d.exists, tier |-> x, demo |-> d.demo,
                                     due |-> d.due, claimed |-> d.claimed]
         /\ [d EXCEPT !.demo = x] = [exists |-> d.exists, tier |-> d.tier, demo |-> x,
                                     due |-> d.due, claimed |-> d.claimed]
         /\ [d EXCEPT !.due = x] = [exists |-> d.exists, tier |-> d.tier, demo |-> d.demo,
                                    due |-> x, claimed |-> d.claimed]
         /\ [d EXCEPT !.claimed = x] = [exists |-> d.exists, tier |-> d.tier, demo |-> d.demo,
                                        due |-> d.due, claimed |-> x]
BY DEF Doc

\* Document t becomes one with this existence, this tier and this mark.
Written(t, exists, tier, demo) ==
  \E d \in Doc : /\ d.exists = exists /\ d.tier = tier /\ d.demo = demo
                 /\ docs' = [docs EXCEPT ![t] = d]

LEMMA DocWritten ==
  ASSUME TypeOK, NEW t \in Tenants
  PROVE  /\ docs' = [docs EXCEPT ![t] = NewDoc] => Written(t, TRUE, "unset", FALSE)
         /\ DropDoc(t) => Written(t, FALSE, "unset", FALSE)
         /\ \A x \in Tiers : docs' = [docs EXCEPT ![t].tier = x]
              => Written(t, docs[t].exists, x, docs[t].demo)
         /\ docs' = [docs EXCEPT ![t].demo = docs[t].exists]
              => Written(t, docs[t].exists, docs[t].tier, docs[t].exists)
         /\ docs' = [docs EXCEPT ![t].due = TRUE]
              => Written(t, docs[t].exists, docs[t].tier, docs[t].demo)
         /\ docs' = [docs EXCEPT ![t].claimed = TRUE]
              => Written(t, docs[t].exists, docs[t].tier, docs[t].demo)
<1>0. docs[t] \in Doc
  BY DEF TypeOK
<1>1. NoDoc \in Doc /\ NewDoc = [exists |-> TRUE, tier |-> "unset", demo |-> FALSE,
                                 due |-> FALSE, claimed |-> FALSE]
  <2>1. NoDoc \in Doc
    BY DEF NoDoc, Doc, Tiers
  <2>2. NewDoc = [exists |-> TRUE, tier |-> NoDoc.tier, demo |-> NoDoc.demo, due |-> NoDoc.due,
                  claimed |-> NoDoc.claimed]
    BY <2>1, DocFields DEF NewDoc
  <2> QED BY <2>1, <2>2 DEF NoDoc
<1>2. docs' = [docs EXCEPT ![t] = NewDoc] => Written(t, TRUE, "unset", FALSE)
  <2> SUFFICES ASSUME docs' = [docs EXCEPT ![t] = NewDoc] PROVE Written(t, TRUE, "unset", FALSE)
    OBVIOUS
  <2>1. NewDoc \in Doc /\ NewDoc.exists = TRUE /\ NewDoc.tier = "unset" /\ NewDoc.demo = FALSE
    BY <1>1 DEF Doc, Tiers
  <2> QED BY <2>1 DEF Written
<1>3. DropDoc(t) => Written(t, FALSE, "unset", FALSE)
  BY <1>1 DEF DropDoc, Written, NoDoc
<1>4. ASSUME NEW x \in Tiers, docs' = [docs EXCEPT ![t].tier = x]
      PROVE  Written(t, docs[t].exists, x, docs[t].demo)
  <2>1. docs' = [docs EXCEPT ![t] = [docs[t] EXCEPT !.tier = x]]
    BY <1>4
  <2> QED BY <1>0, <2>1, DocFields DEF Written, Doc
<1>5. ASSUME docs' = [docs EXCEPT ![t].demo = docs[t].exists]
      PROVE  Written(t, docs[t].exists, docs[t].tier, docs[t].exists)
  <2>1. docs' = [docs EXCEPT ![t] = [docs[t] EXCEPT !.demo = docs[t].exists]]
    BY <1>5
  <2> QED BY <1>0, <2>1, DocFields DEF Written, Doc
<1>6. ASSUME docs' = [docs EXCEPT ![t].due = TRUE]
      PROVE  Written(t, docs[t].exists, docs[t].tier, docs[t].demo)
  <2>1. docs' = [docs EXCEPT ![t] = [docs[t] EXCEPT !.due = TRUE]]
    BY <1>6
  <2> QED BY <1>0, <2>1, DocFields DEF Written, Doc
<1>7. ASSUME docs' = [docs EXCEPT ![t].claimed = TRUE]
      PROVE  Written(t, docs[t].exists, docs[t].tier, docs[t].demo)
  <2>1. docs' = [docs EXCEPT ![t] = [docs[t] EXCEPT !.claimed = TRUE]]
    BY <1>7
  <2> QED BY <1>0, <2>1, DocFields DEF Written, Doc
<1> QED BY <1>2, <1>3, <1>4, <1>5, <1>6, <1>7

\* A reaper moves on with the same demo.
LEMMA SweepMoves ==
  ASSUME TypeOK, NEW c \in Collectors, NEW s, SweepTo(c, s)
  PROVE  sweep' = [sweep EXCEPT ![c] = [pc |-> s, on |-> sweep[c].on]]
<1>1. sweep[c] \in SweepSet
  BY DEF TypeOK, SweepSet
<1>2. sweep' = [sweep EXCEPT ![c] = [sweep[c] EXCEPT !.pc = s]]
  BY DEF SweepTo
<1>3. [sweep[c] EXCEPT !.pc = s] = [pc |-> s, on |-> sweep[c].on]
  BY <1>1 DEF SweepSet
<1> QED BY <1>2, <1>3

-----------------------------------------------------------------------------
(* Types                                                                   *)

LEMMA MovesTyped ==
  ASSUME TypeOK, NEW t \in Tenants, NEW s, Moves(t, s)
  PROVE  /\ task' \in [Tenants -> [pc : Stages, email : Emails \cup {Nobody}, scopes : SUBSET Packs]]
         /\ Pc(t)' = s /\ \A u \in Tenants \ {t} : Pc(u)' = Pc(u)
BY DEF TypeOK, Moves, Pc, TaskSet

LEMMA WrittenTyped ==
  ASSUME TypeOK, NEW t \in Tenants, NEW e, NEW x, NEW m, Written(t, e, x, m)
  PROVE  /\ docs' \in [Tenants -> Doc]
         /\ docs'[t].exists = e /\ docs'[t].tier = x /\ docs'[t].demo = m
         /\ \A u \in Tenants \ {t} : docs'[u] = docs[u]
BY DEF TypeOK, Written

\* Where the request of t goes in one step.
LEMMA TenantMoves ==
  ASSUME TypeOK, NEW t \in Tenants
  PROVE  /\ \A e \in Emails : Register(t, e) => Moves(t, "refused") \/ Moves(t, "cap")
         /\ BetaCap(t) => Moves(t, "refused") \/ Moves(t, "email")
         /\ Precheck(t) => Moves(t, "refused") \/ Moves(t, "doc")
         /\ RequestDemo(t) => Moves(t, "count")
         /\ DemoCap(t) => Moves(t, "refused") \/ Moves(t, "doc")
         /\ Provision(t) => Moves(t, "db")
         /\ Database(t) => Moves(t, "tier")
         /\ Stamp(t) => Moves(t, IF t \in Demos THEN "seed" ELSE "find")
         /\ Seed(t) => Moves(t, IF t \in Demos THEN "find" ELSE "done")
         /\ FindUser(t) => Moves(t, Undo) \/ Moves(t, "insert")
         /\ Insert(t) => Moves(t, Undo) \/ Moves(t, "quota")
         /\ Quota(t) => Moves(t, "session")
         /\ Session(t) => Moves(t, IF t \in Demos THEN "origin" ELSE "seed")
         /\ Origin(t) => Moves(t, "done")
         /\ Fails(t) => Moves(t, Undo) \/ Moves(t, "failed")
         /\ UndoDoc(t) => Moves(t, "undo db")
         /\ UndoDb(t) => Moves(t, IF t \in Demos THEN "undo users" ELSE "failed")
         /\ UndoUsers(t) => Moves(t, "undo sessions")
         /\ UndoSessions(t) => Moves(t, "failed")
         /\ UndoFails(t) => Moves(t, "undo users") \/ Moves(t, "failed")
         /\ Crash(t) => Moves(t, "dead")
<1> USE GoesMoves DEF Step, Stages, Ended, Undoing, Undo
<1>1. \A e \in Emails : Register(t, e) => Moves(t, "refused") \/ Moves(t, "cap")
  BY RegisterMoves DEF Register
<1>2. Seed(t) => Moves(t, IF t \in Demos THEN "find" ELSE "done")
  <2>1. ASSUME NEW P \in Mountable(t),
               task' = [task EXCEPT ![t].pc = IF t \in Demos THEN "find" ELSE "done", ![t].scopes = P]
        PROVE  Moves(t, IF t \in Demos THEN "find" ELSE "done")
    <3>1. P \in SUBSET Packs
      BY DEF Mountable, Pack, Packs
    <3> QED BY <2>1, <3>1, SeedMoves
  <2> QED BY <2>1 DEF Seed
<1>3. /\ BetaCap(t) => Moves(t, "refused") \/ Moves(t, "email")
      /\ Precheck(t) => Moves(t, "refused") \/ Moves(t, "doc")
      /\ RequestDemo(t) => Moves(t, "count")
      /\ DemoCap(t) => Moves(t, "refused") \/ Moves(t, "doc")
  BY DEF BetaCap, Precheck, RequestDemo, DemoCap, Admit
<1>4. /\ Provision(t) => Moves(t, "db")
      /\ Database(t) => Moves(t, "tier")
      /\ Stamp(t) => Moves(t, IF t \in Demos THEN "seed" ELSE "find")
  BY DEF Provision, Database, Stamp
<1>4a. /\ FindUser(t) => Moves(t, Undo) \/ Moves(t, "insert")
       /\ Insert(t) => Moves(t, Undo) \/ Moves(t, "quota")
  <2>1. CASE Taken(t)
    BY <2>1 DEF FindUser, Insert
  <2>2. CASE ~Taken(t)
    BY <2>2 DEF FindUser, Insert
  <2> QED BY <2>1, <2>2
<1>5. /\ Quota(t) => Moves(t, "session")
      /\ Session(t) => Moves(t, IF t \in Demos THEN "origin" ELSE "seed")
      /\ Origin(t) => Moves(t, "done")
      /\ Fails(t) => Moves(t, Undo) \/ Moves(t, "failed")
  BY DEF Quota, Session, Origin, Fails
<1>6. /\ UndoDoc(t) => Moves(t, "undo db")
      /\ UndoDb(t) => Moves(t, IF t \in Demos THEN "undo users" ELSE "failed")
      /\ UndoUsers(t) => Moves(t, "undo sessions")
      /\ UndoSessions(t) => Moves(t, "failed")
      /\ UndoFails(t) => Moves(t, "undo users") \/ Moves(t, "failed")
      /\ Crash(t) => Moves(t, "dead")
  BY DEF UndoDoc, UndoDb, UndoUsers, UndoSessions, UndoFails, Crash
<1> QED BY <1>1, <1>2, <1>3, <1>4, <1>4a, <1>5, <1>6

LEMMA TenantMovesOn ==
  ASSUME TypeOK, NEW t \in Tenants, TenantStep(t)
  PROVE  \E s : Moves(t, s)
BY TenantMoves DEF TenantStep, SignupStep, DemoStep, Build, Breaks

\* What a step of the request of t writes of its document.
LEMMA TenantWrites ==
  ASSUME TypeOK, NEW t \in Tenants, TenantStep(t)
  PROVE  \/ docs' = docs
         \/ Pc(t) = "doc" /\ Written(t, TRUE, "unset", FALSE)
         \/ Pc(t) = "tier" /\ Written(t, docs[t].exists, Tier(t), docs[t].demo)
         \/ /\ Pc(t) = "origin" /\ Pc(t)' \in Past
            /\ Written(t, docs[t].exists, docs[t].tier, docs[t].exists)
         \/ UndoDoc(t) /\ Written(t, FALSE, "unset", FALSE)
<1>1. Tier(t) \in Tiers
  BY DEF Tier, Tiers
<1>2. CASE Provision(t) \/ Stamp(t) \/ UndoDoc(t)
  BY <1>1, <1>2, DocWritten DEF Provision, WriteDoc, Stamp, WriteTier, UndoDoc, Step
<1>3. CASE Origin(t)
  <2>1. Pc(t)' \in Past
    BY <1>3, TenantMoves, MovesTyped DEF Past
  <2> QED BY <1>3, <2>1, DocWritten DEF Origin, WriteOrigin, Step
<1>4. CASE Fails(t)
  <2>1. Pc(t)' \in Past
    BY <1>4, TenantMoves, MovesTyped DEF Past, Undoing
  <2>2. \/ docs' = docs
        \/ Pc(t) = "doc" /\ WriteDoc(t)
        \/ Pc(t) = "tier" /\ WriteTier(t)
        \/ Pc(t) = "origin" /\ WriteOrigin(t)
    BY <1>4 DEF Fails, LostWrite, WriteDb, WriteUser, WriteQuota, WriteSession, rows
  <2> QED BY <1>1, <2>1, <2>2, DocWritten DEF WriteDoc, WriteTier, WriteOrigin
<1>5. CASE \/ (\E e \in Emails : Register(t, e)) \/ BetaCap(t) \/ Precheck(t)
           \/ RequestDemo(t) \/ DemoCap(t) \/ Database(t) \/ Seed(t) \/ FindUser(t) \/ Insert(t)
  BY <1>5 DEF Register, BetaCap, Precheck, RequestDemo, DemoCap, Database, WriteDb, Seed, FindUser,
    Insert, WriteUser, rows
<1>6. CASE \/ Quota(t) \/ Session(t) \/ UndoDb(t) \/ UndoUsers(t) \/ UndoSessions(t)
           \/ UndoFails(t) \/ Crash(t)
  BY <1>6 DEF Quota, WriteQuota, Session, WriteSession, UndoDb, UndoUsers, UndoSessions, UndoFails,
    Crash, rows
<1> QED BY <1>2, <1>3, <1>4, <1>5, <1>6 DEF TenantStep, SignupStep, DemoStep, Build, Breaks

\* What it writes of everything else.
NewUser(t) == [tenant |-> t, email |-> task[t].email, scopes |-> task[t].scopes]
Touched(t) ==
  /\ \/ users' = users
     \/ users' = users \cup {NewUser(t)} /\ Pc(t) = "insert"
     \/ DropUsers(t)
  /\ dbs' = dbs \/ dbs' = dbs \cup {t} \/ dbs' = dbs \ {t}
  /\ sessions' = sessions \/ sessions' = sessions \cup {t} \/ sessions' = sessions \ {t}
  /\ quotas' = quotas \/ quotas' = [quotas EXCEPT ![t] = Tier(t)]
  /\ tokens' = tokens \/ (tokens' = tokens \cup {t} /\ Pc(t) = "insert")

LEMMA LostTouches ==
  ASSUME NEW t, UNCHANGED rows \/ LostWrite(t)
  PROVE  Touched(t)
<1>1. CASE UNCHANGED rows
  BY <1>1 DEF Touched, rows
<1>2. CASE \/ Pc(t) = "doc" /\ WriteDoc(t)
           \/ Pc(t) = "db" /\ WriteDb(t)
           \/ Pc(t) = "tier" /\ WriteTier(t)
           \/ Pc(t) = "origin" /\ WriteOrigin(t)
  BY <1>2 DEF Touched, WriteDoc, WriteDb, WriteTier, WriteOrigin
<1>3. CASE \/ Pc(t) = "quota" /\ WriteQuota(t)
           \/ Pc(t) = "session" /\ WriteSession(t)
  BY <1>3 DEF Touched, WriteQuota, WriteSession
<1>4. CASE Pc(t) = "insert" /\ ~Taken(t) /\ WriteUser(t)
  BY <1>4 DEF Touched, WriteUser, NewUser
<1> QED BY <1>1, <1>2, <1>3, <1>4 DEF LostWrite

LEMMA Touches ==
  ASSUME NEW t, TenantStep(t)
  PROVE  /\ Touched(t) /\ marred \subseteq marred'
         /\ UNCHANGED <<admin, raced, revived>>
<1> USE DEF history
<1>1. CASE \/ (\E e \in Emails : Register(t, e)) \/ BetaCap(t) \/ Precheck(t)
           \/ RequestDemo(t) \/ DemoCap(t) \/ FindUser(t)
  BY <1>1 DEF Register, BetaCap, Precheck, RequestDemo, DemoCap, FindUser, Touched, rows
<1>2. CASE Provision(t) \/ Database(t) \/ Stamp(t) \/ Seed(t)
  BY <1>2 DEF Provision, WriteDoc, Database, WriteDb, Stamp, WriteTier, Seed, Touched
<1>3. CASE Insert(t)
  BY <1>3 DEF Insert, WriteUser, NewUser, Step, Touched, rows
<1>4. CASE Quota(t) \/ Session(t) \/ Origin(t)
  BY <1>4 DEF Quota, WriteQuota, Session, WriteSession, Origin, WriteOrigin, Touched
<1>5. CASE UndoDoc(t) \/ UndoDb(t) \/ UndoUsers(t) \/ UndoSessions(t)
  BY <1>5 DEF UndoDoc, UndoDb, DropDb, UndoUsers, UndoSessions, DropSession, Touched
<1>6. CASE Fails(t)
  BY <1>6, LostTouches DEF Fails
<1>7. CASE UndoFails(t) \/ Crash(t)
  BY <1>7 DEF UndoFails, Crash, Touched, rows
<1> QED BY <1>1, <1>2, <1>3, <1>4, <1>5, <1>6, <1>7
  DEF TenantStep, SignupStep, DemoStep, Build, Breaks

LEMMA TouchedTyped ==
  ASSUME TypeOK, NEW t \in Tenants, Touched(t)
  PROVE  /\ users' \subseteq Account /\ dbs' \subseteq Tenants /\ sessions' \subseteq Tenants
         /\ quotas' \in [Tenants -> Tiers] /\ tokens' \subseteq Tenants
<1>1. NewUser(t) \in Account
  BY DEF TypeOK, NewUser, Account
<1>2. Tier(t) \in Tiers
  BY DEF Tier, Tiers
<1>3. users' \subseteq Account
  BY <1>1 DEF TypeOK, Touched, DropUsers
<1>4. quotas' \in [Tenants -> Tiers]
  BY <1>2 DEF TypeOK, Touched
<1>5. dbs' \subseteq Tenants /\ sessions' \subseteq Tenants /\ tokens' \subseteq Tenants
  BY DEF TypeOK, Touched
<1> QED BY <1>3, <1>4, <1>5

\* What it does to the variables that no other property of its own looks at.
Besides(t) ==
  /\ packs' = packs \/ \E P \in Mountable(t) : packs' = [packs EXCEPT ![t] = P]
  /\ attempts' = attempts \/ attempts' = attempts + 1
  /\ \/ sweep' = sweep
     \/ sweep' = [sweep EXCEPT ![t] = [pc |-> "claim", on |-> Nobody]]
     \/ sweep' = [c \in Collectors |-> IF c = t THEN NoSweep ELSE sweep[c]]
  /\ faults' = faults \/ Fault
  /\ marred' \subseteq marred \cup {t} \cup IF t \in Demos THEN {sweep[t].on} \ {Nobody} ELSE {}
  /\ crowded' = crowded \/ crowded' \in BOOLEAN

LEMMA TenantBesides ==
  ASSUME NEW t, TenantStep(t)
  PROVE  Besides(t)
<1> USE DEF history, Besides
<1>1. CASE \/ (\E e \in Emails : Register(t, e)) \/ BetaCap(t) \/ DemoCap(t) \/ RequestDemo(t)
  BY <1>1 DEF Register, BetaCap, DemoCap, Admit, RequestDemo, rows
<1>2. CASE Seed(t)
  BY <1>2 DEF Seed
<1>3. CASE Precheck(t) \/ FindUser(t) \/ Insert(t)
  BY <1>3 DEF Precheck, FindUser, Insert, WriteUser, rows
<1>4. CASE Provision(t) \/ Database(t) \/ Stamp(t) \/ Quota(t) \/ Session(t) \/ Origin(t)
  BY <1>4 DEF Provision, WriteDoc, Database, WriteDb, Stamp, WriteTier, Quota, WriteQuota,
    Session, WriteSession, Origin, WriteOrigin
<1>5. CASE UndoDoc(t) \/ UndoDb(t) \/ UndoUsers(t) \/ UndoSessions(t)
  BY <1>5 DEF UndoDoc, UndoDb, UndoUsers, UndoSessions
<1>6. CASE Fails(t)
  <2>1. packs' = packs
    BY <1>6 DEF Fails, LostWrite, WriteDoc, WriteDb, WriteTier, WriteUser, WriteQuota,
      WriteSession, WriteOrigin, rows
  <2>2. Fault /\ marred' \subseteq marred \cup {t} /\ UNCHANGED <<attempts, sweep, crowded>>
    BY <1>6 DEF Fails
  <2> QED BY <2>1, <2>2
<1>7. CASE UndoFails(t) \/ Crash(t)
  <2>1. Fault /\ UNCHANGED <<packs, attempts, crowded>>
    BY <1>7 DEF UndoFails, Crash, rows
  <2>2. marred' \subseteq marred \cup {t} \cup IF t \in Demos THEN {sweep[t].on} \ {Nobody} ELSE {}
    BY <1>7 DEF UndoFails, Crash
  <2>3. \/ sweep' = sweep
        \/ sweep' = [c \in Collectors |-> IF c = t THEN NoSweep ELSE sweep[c]]
    BY <1>7 DEF UndoFails, Crash
  <2> QED BY <2>1, <2>2, <2>3
<1> QED BY <1>1, <1>2, <1>3, <1>4, <1>5, <1>6, <1>7
  DEF TenantStep, SignupStep, DemoStep, Build, Breaks

LEMMA TenantTypes ==
  ASSUME TypeOK, NEW t \in Tenants, TenantStep(t)
  PROVE  TypeOK'
<1>1. /\ task' \in [Tenants -> [pc : Stages, email : Emails \cup {Nobody}, scopes : SUBSET Packs]]
      /\ docs' \in [Tenants -> Doc]
  BY TenantMovesOn, MovesTyped, TenantWrites, WrittenTyped DEF TypeOK
<1>2. /\ users' \subseteq Account /\ dbs' \subseteq Tenants /\ sessions' \subseteq Tenants
      /\ quotas' \in [Tenants -> Tiers] /\ tokens' \subseteq Tenants
      /\ UNCHANGED <<admin, raced, revived>>
  BY Touches, TouchedTyped
<1>3. Besides(t)
  BY TenantBesides
<1>4. packs' \in [Tenants -> SUBSET Packs]
  <2>1. \A P \in Mountable(t) : P \in SUBSET Packs
    BY DEF Mountable, Pack, Packs
  <2>2. packs \in [Tenants -> SUBSET Packs]
    BY DEF TypeOK
  <2> QED BY <1>3, <2>1, <2>2 DEF Besides
<1>5. attempts' \in Nat /\ crowded' \in BOOLEAN
  BY <1>3 DEF Besides, TypeOK
<1>6. sweep' \in [Collectors -> [pc : {"idle", "claim"} \cup TearingDown,
                                 on : Tenants \cup {Nobody}]]
  BY <1>3 DEF Besides, NoSweep, TypeOK
<1>7. faults' \in Nat
  BY <1>3 DEF Besides, Fault, TypeOK
<1>8. marred' \subseteq Tenants
  <2>1. t \in Demos => sweep[t].on \in Tenants \cup {Nobody}
    BY DEF TypeOK, Collectors
  <2>2. marred \subseteq Tenants
    BY DEF TypeOK
  <2>3. CASE t \in Demos
    BY <1>3, <2>1, <2>2, <2>3 DEF Besides
  <2>4. CASE t \notin Demos
    BY <1>3, <2>2, <2>4 DEF Besides
  <2> QED BY <2>3, <2>4
<1> QED BY <1>1, <1>2, <1>4, <1>5, <1>6, <1>7, <1>8 DEF TypeOK

\* A step of another request leaves the tenant alone.
Kept(t) ==
  /\ Pc(t)' = Pc(t) /\ docs'[t].exists = docs[t].exists /\ docs'[t].tier = docs[t].tier
  /\ docs'[t].demo = docs[t].demo /\ quotas'[t] = quotas[t]
  /\ (t \in dbs' <=> t \in dbs) /\ (t \in sessions' <=> t \in sessions)
  /\ (HasUser(t)' <=> HasUser(t))
  /\ (t \in marred => t \in marred') /\ (t \in revived => t \in revived')
  /\ (t \in revived' => t \in revived)

LEMMA OthersKept ==
  ASSUME TypeOK, NEW t \in Tenants, TenantStep(t), NEW u \in Tenants, u # t
  PROVE  Kept(u)
<1>1. Pc(u)' = Pc(u) /\ docs'[u] = docs[u]
  BY TenantMovesOn, MovesTyped, TenantWrites, WrittenTyped
<1>2. Touched(t) /\ marred \subseteq marred' /\ revived' = revived
  BY Touches
<1>3. HasUser(u)' <=> HasUser(u)
  BY <1>2 DEF Touched, HasUser, DropUsers, NewUser
<1>4. quotas'[u] = quotas[u]
  BY <1>2 DEF Touched, TypeOK
<1>5. (u \in dbs' <=> u \in dbs) /\ (u \in sessions' <=> u \in sessions)
  BY <1>2 DEF Touched
<1> QED BY <1>1, <1>2, <1>3, <1>4, <1>5 DEF Kept

-----------------------------------------------------------------------------
(* A step of the request of t itself                                       *)

\* What a request leaves to the others.
LEMMA TenantFrame ==
  ASSUME NEW t, TenantStep(t)
  PROVE  /\ UNCHANGED <<admin, raced, revived>> /\ marred \subseteq marred'
         /\ \A u : Pending(u)' <=> Pending(u)
<1>1. UNCHANGED <<admin, raced, revived>> /\ marred \subseteq marred'
  BY Touches
<1> QED BY <1>1 DEF Pending

\* Nothing that is known of t changes but the stage.
Still(t) == docs' = docs /\ dbs' = dbs /\ users' = users /\ sessions' = sessions /\ quotas' = quotas

LEMMA AdmissionSound ==
  ASSUME TypeOK, NEW t \in Tenants, Sound(t), TenantStep(t),
         \/ \E e \in Emails : Register(t, e)
         \/ BetaCap(t) \/ Precheck(t) \/ RequestDemo(t) \/ DemoCap(t)
  PROVE  Sound(t)'
<1>1. Pc(t) \in Early /\ Pc(t)' \in Early \cup {"refused"} /\ Still(t)
  <2>1. Pc(t) \in Early /\ Still(t)
    BY DEF Register, Arrives, BetaCap, Precheck, RequestDemo, DemoCap, Early, Still, rows, history
  <2>2. Pc(t)' \in {"refused", "cap", "email", "doc", "count"}
    BY TenantMoves, MovesTyped
  <2> QED BY <2>1, <2>2 DEF Early
<1>2. HasUser(t)' <=> HasUser(t)
  BY <1>1 DEF Still, HasUser
<1>3. Staged(t)'
  BY <1>1, <1>2 DEF Sound, Staged, Early, Still, Gone, Bare
<1>4. Marked(t)' /\ Stamped(t)'
  BY <1>1, TenantFrame DEF Sound, Staged, Marked, Stamped, Early, Still, Gone, Past, Undoing, Undo
<1>5. t \in Signups => Registered(t)'
  BY <1>1, <1>2, TenantFrame DEF Sound, Staged, Registered, Early, Still, Gone, Bare, Undo
<1> QED BY <1>3, <1>4, <1>5 DEF Sound

LEMMA ProvisionSound ==
  ASSUME TypeOK, NEW t \in Tenants, Sound(t), TenantStep(t),
         Provision(t) \/ Database(t) \/ Stamp(t)
  PROVE  Sound(t)'
<1>1. HasUser(t)' <=> HasUser(t)
  BY DEF Provision, WriteDoc, Database, WriteDb, Stamp, WriteTier, HasUser
<1> USE TenantFrame DEF Past, Undoing, Undo
<1>2. CASE Provision(t)
  <2>1. /\ Pc(t) = "doc" /\ Pc(t)' = "db" /\ docs'[t].exists /\ docs'[t].tier = "unset"
        /\ ~docs'[t].demo /\ UNCHANGED <<dbs, sessions, quotas>>
    <3>1. Written(t, TRUE, "unset", FALSE)
      BY <1>2, DocWritten DEF Provision, WriteDoc
    <3>2. docs'[t].exists /\ docs'[t].tier = "unset" /\ ~docs'[t].demo
      BY <3>1, WrittenTyped
    <3>3. Pc(t)' = "db"
      BY <1>2, TenantMoves, MovesTyped
    <3> QED BY <1>2, <3>2, <3>3 DEF Provision, WriteDoc, Step
  <2> QED BY <1>1, <2>1 DEF Sound, Staged, Marked, Stamped, Registered, Early, Gone, Bare
<1>3. CASE Database(t)
  <2>1. /\ Pc(t) = "db" /\ Pc(t)' = "tier" /\ dbs' = dbs \cup {t}
        /\ UNCHANGED <<docs, sessions, quotas>>
    BY <1>3, TenantMoves, MovesTyped DEF Database, WriteDb, Step
  <2> QED BY <1>1, <2>1 DEF Sound, Staged, Marked, Stamped, Registered, Early, Gone, Bare
<1>4. CASE Stamp(t)
  <2>1. /\ Pc(t) = "tier" /\ Pc(t)' = IF t \in Demos THEN "seed" ELSE "find"
        /\ UNCHANGED <<dbs, sessions, quotas>>
    BY <1>4, TenantMoves, MovesTyped DEF Stamp, WriteTier, Step
  <2>2. docs'[t].exists = docs[t].exists /\ docs'[t].tier = Tier(t) /\ docs'[t].demo = docs[t].demo
    <3>1. Tier(t) \in Tiers
      BY DEF Tier, Tiers
    <3>2. Written(t, docs[t].exists, Tier(t), docs[t].demo)
      BY <1>4, <3>1, DocWritten DEF Stamp, WriteTier
    <3> QED BY <3>2, WrittenTyped
  <2>3. (t \in Signups => t \notin Demos) /\ Tier(t) # "unset"
    BY Disjoint DEF Tier
  <2> QED BY <1>1, <2>1, <2>2, <2>3
    DEF Sound, Staged, Marked, Stamped, Registered, Early, Gone, Bare
<1> QED BY <1>2, <1>3, <1>4

LEMMA AccountSound ==
  ASSUME TypeOK, NEW t \in Tenants, Sound(t), TenantStep(t), Seed(t) \/ FindUser(t) \/ Insert(t)
  PROVE  Sound(t)'
<1>0. t \in Signups => t \notin Demos
  BY Disjoint
<1> USE TenantFrame DEF Past, Undoing, Undo
<1>1. CASE Seed(t)
  <2>1. /\ Pc(t) = "seed" /\ Pc(t)' = IF t \in Demos THEN "find" ELSE "done"
        /\ UNCHANGED <<docs, dbs, users, sessions, quotas>>
    BY <1>1, TenantMoves, MovesTyped DEF Seed
  <2>2. HasUser(t)' <=> HasUser(t)
    BY <2>1 DEF HasUser
  <2>3. Tier(t) # "unset" /\ (t \notin Demos => t \in Signups)
    BY DEF Tier, Tenants
  <2>4. Staged(t)' /\ Marked(t)'
    BY <1>0, <2>1, <2>2, <2>3 DEF Sound, Staged, Marked, Gone, Bare, Early
  <2>5. Stamped(t)'
    BY <1>0, <2>1, <2>2, <2>3 DEF Sound, Stamped
  <2>6. t \in Signups => Registered(t)'
    BY <1>0, <2>1, <2>2, <2>3 DEF Sound, Registered
  <2> QED BY <2>4, <2>5, <2>6 DEF Sound
<1>2. CASE FindUser(t)
  <2>1. /\ Pc(t) = "find" /\ Pc(t)' \in {Undo, "insert"}
        /\ UNCHANGED <<docs, dbs, users, sessions, quotas>>
    BY <1>2, TenantMoves, MovesTyped DEF FindUser, Step, rows
  <2>2. HasUser(t)' <=> HasUser(t)
    BY <2>1 DEF HasUser
  <2> QED BY <1>0, <2>1, <2>2 DEF Sound, Staged, Marked, Stamped, Registered, Early, Gone, Bare
<1>3. CASE Insert(t) /\ Taken(t)
  <2>1. Pc(t) = "insert" /\ Goes(t, Undo) /\ UNCHANGED <<docs, dbs, users, sessions, quotas>>
    BY <1>3 DEF Insert, Step, rows
  <2>2. Pc(t)' = Undo
    BY <2>1, GoesMoves, MovesTyped DEF Stages
  <2>3. HasUser(t)' <=> HasUser(t)
    BY <2>1 DEF HasUser
  <2> QED BY <1>0, <2>1, <2>2, <2>3
    DEF Sound, Staged, Marked, Stamped, Registered, Early, Gone, Bare
<1>4. CASE Insert(t) /\ ~Taken(t)
  <2>1. /\ Pc(t) = "insert" /\ Goes(t, "quota") /\ users' = users \cup {NewUser(t)}
        /\ UNCHANGED <<docs, dbs, sessions, quotas>>
    BY <1>4 DEF Insert, WriteUser, NewUser, Step
  <2>2. Pc(t)' = "quota"
    BY <2>1, GoesMoves, MovesTyped DEF Stages
  <2>3. HasUser(t)'
    <3>1. NewUser(t).tenant = t
      BY DEF NewUser
    <3> QED BY <2>1, <3>1 DEF HasUser
  <2> QED BY <1>0, <2>1, <2>2, <2>3
    DEF Sound, Staged, Marked, Stamped, Registered, Early, Gone, Bare
<1> QED BY <1>1, <1>2, <1>3, <1>4

LEMMA FinishSound ==
  ASSUME TypeOK, NEW t \in Tenants, Sound(t), TenantStep(t),
         Quota(t) \/ Session(t) \/ (t \in Demos /\ Origin(t))
  PROVE  Sound(t)'
<1>0. t \in Signups => t \notin Demos
  BY Disjoint
<1>1. HasUser(t)' <=> HasUser(t)
  BY DEF Quota, WriteQuota, Session, WriteSession, Origin, WriteOrigin, HasUser
<1> USE TenantFrame DEF Past, Undoing, Undo
<1>2. CASE Quota(t)
  <2>1. /\ Pc(t) = "quota" /\ Pc(t)' = "session" /\ quotas'[t] = Tier(t)
        /\ UNCHANGED <<docs, dbs, sessions>>
    BY <1>2, TenantMoves, MovesTyped DEF TypeOK, Quota, WriteQuota, Step
  <2> QED BY <1>0, <1>1, <2>1 DEF Sound, Staged, Marked, Stamped, Registered, Early, Gone, Bare
<1>3. CASE Session(t)
  <2>1. /\ Pc(t) = "session" /\ Pc(t)' = IF t \in Demos THEN "origin" ELSE "seed"
        /\ sessions' = sessions \cup {t} /\ UNCHANGED <<docs, dbs, quotas>>
    BY <1>3, TenantMoves, MovesTyped DEF Session, WriteSession, Step
  <2> QED BY <1>0, <1>1, <2>1
    DEF Sound, Staged, Marked, Stamped, Registered, Early, Gone, Bare, Whole
<1>4. CASE t \in Demos /\ Origin(t)
  <2>1. Pc(t) = "origin" /\ Pc(t)' = "done" /\ UNCHANGED <<dbs, sessions, quotas>>
    BY <1>4, TenantMoves, MovesTyped DEF Origin, WriteOrigin, Step
  <2>2. Written(t, docs[t].exists, docs[t].tier, docs[t].exists)
    BY <1>4, DocWritten DEF Origin, WriteOrigin
  <2>3. docs'[t].exists = docs[t].exists /\ docs'[t].tier = docs[t].tier
    BY <2>2, WrittenTyped
  <2> QED BY <1>0, <1>1, <1>4, <2>1, <2>3
    DEF Sound, Staged, Marked, Stamped, Registered, Early, Gone, Bare, Whole
<1> QED BY <1>2, <1>3, <1>4

LEMMA UndoSound ==
  ASSUME TypeOK, NEW t \in Tenants, Sound(t), TenantStep(t),
         UndoDoc(t) \/ UndoDb(t) \/ (t \in Demos /\ (UndoUsers(t) \/ UndoSessions(t)))
  PROVE  Sound(t)'
<1>0. t \in Signups => t \notin Demos
  BY Disjoint
<1>f. /\ UNCHANGED <<raced, revived, marred>> /\ (Pending(t)' <=> Pending(t))
      /\ (Aside(t)' <=> Aside(t))
  BY TenantFrame DEF UndoDoc, UndoDb, UndoUsers, UndoSessions, history, Aside
<1> USE <1>f DEF Past, Undoing, Undo
<1>1. CASE UndoDoc(t)
  <2>1. Pc(t) = Undo /\ Pc(t)' = "undo db" /\ UNCHANGED <<dbs, users, sessions, quotas>>
    BY <1>1, TenantMoves, MovesTyped DEF UndoDoc, Step
  <2>2. docs'[t].exists = FALSE /\ docs'[t].demo = FALSE
    <3>1. Written(t, FALSE, "unset", FALSE)
      BY <1>1, DocWritten DEF UndoDoc
    <3> QED BY <3>1, WrittenTyped
  <2>3. HasUser(t)' <=> HasUser(t)
    BY <2>1 DEF HasUser
  <2> QED BY <1>0, <2>1, <2>2, <2>3
    DEF Sound, Staged, Marked, Stamped, Registered, Early, Gone, Bare
<1>2. CASE UndoDb(t)
  <2>1. /\ Pc(t) = "undo db" /\ Pc(t)' = IF t \in Demos THEN "undo users" ELSE "failed"
        /\ dbs' = dbs \ {t} /\ UNCHANGED <<docs, users, sessions, quotas>>
    BY <1>2, TenantMoves, MovesTyped DEF UndoDb, DropDb, Step
  <2>2. HasUser(t)' <=> HasUser(t)
    BY <2>1 DEF HasUser
  <2> QED BY <1>0, <2>1, <2>2
    DEF Sound, Staged, Marked, Stamped, Registered, Early, Gone, Bare
<1>3. CASE t \in Demos /\ UndoUsers(t)
  <2>1. /\ Pc(t) = "undo users" /\ Pc(t)' = "undo sessions"
        /\ users' = {u \in users : u.tenant # t} /\ UNCHANGED <<docs, dbs, sessions, quotas>>
    BY <1>3, TenantMoves, MovesTyped DEF UndoUsers, DropUsers, Step
  <2>2. ~HasUser(t)'
    BY <2>1 DEF HasUser
  <2> QED BY <1>0, <1>3, <2>1, <2>2
    DEF Sound, Staged, Marked, Stamped, Registered, Early, Gone, Bare
<1>4. CASE t \in Demos /\ UndoSessions(t)
  <2>1. /\ Pc(t) = "undo sessions" /\ Pc(t)' = "failed" /\ sessions' = sessions \ {t}
        /\ UNCHANGED <<docs, dbs, users, quotas>>
    BY <1>4, TenantMoves, MovesTyped DEF UndoSessions, DropSession, Step
  <2>2. HasUser(t)' <=> HasUser(t)
    BY <2>1 DEF HasUser
  <2> QED BY <1>0, <1>4, <2>1, <2>2
    DEF Sound, Staged, Marked, Stamped, Registered, Early, Gone, Bare
<1> QED BY <1>1, <1>2, <1>3, <1>4

\* A failing call may have written all the same; what is not taken back then is set aside.
LEMMA FailSound ==
  ASSUME TypeOK, NEW t \in Tenants, Sound(t), TenantStep(t), Fails(t)
  PROVE  Sound(t)'
<1>0. t \in Signups => t \notin Demos
  BY Disjoint
<1>1. /\ Pc(t) \in {"doc", "db", "tier", "find", "insert", "quota", "session", "origin"}
      /\ Pc(t)' = IF Pc(t) \in {"tier", "find", "insert"} \/ (t \in Demos /\ Pc(t) \notin {"doc", "db"})
                    THEN Undo ELSE "failed"
  BY GoesMoves, MovesTyped DEF Fails, Stages, Undoing, Ended
<1>2. /\ Pc(t) = "db" => t \in marred'
      /\ Pc(t) = "doc" /\ docs' # docs => t \in marred'
      /\ t \in Signups /\ users' # users => t \in marred'
      /\ UNCHANGED rows \/ LostWrite(t)
  BY DEF Fails
<1>3. Staged(t)'
  <2>1. CASE Pc(t)' = Undo
    BY <2>1 DEF Staged, Early, Undo
  <2>2. CASE Pc(t)' = "failed"
    <3>1. t \in Demos => Pc(t) \in {"doc", "db"}
      BY <1>1, <2>2 DEF Undo
    <3>2. CASE t \in Demos /\ Pc(t) = "doc" /\ docs' = docs
      <4>0. ~docs[t].exists
        BY <3>2 DEF Sound, Staged, Early, Gone
      <4>1. ~WriteDoc(t)
        <5>1. WriteDoc(t) => docs'[t].exists
          BY DocWritten, WrittenTyped DEF WriteDoc
        <5> QED BY <3>2, <4>0, <5>1
      <4>2. UNCHANGED rows
        BY <1>2, <3>2, <4>1 DEF LostWrite
      <4>3. HasUser(t)' <=> HasUser(t)
        BY <4>2 DEF rows, HasUser
      <4>4. Gone(t)'
        BY <3>2, <4>2, <4>3 DEF rows, Sound, Staged, Early, Gone, Bare
      <4> QED BY <2>2, <4>4 DEF Staged, Early
    <3>3. CASE t \notin Demos \/ Pc(t) = "db" \/ docs' # docs
      BY <1>2, <2>2, <3>1, <3>3 DEF Staged, Early, Aside
    <3> QED BY <3>1, <3>2, <3>3
  <2> QED BY <1>1, <2>1, <2>2
<1>4. Marked(t)'
  <2>1. Pc(t)' \in Past
    BY <1>1 DEF Past, Undoing
  <2>2. docs'[t].demo => docs[t].demo \/ Pc(t) = "origin"
    <3>1. TenantStep(t) => ~UndoDoc(t)
      BY <1>1 DEF UndoDoc, Step, Undo
    <3> QED BY <3>1, TenantWrites, WrittenTyped
  <2> QED BY <2>1, <2>2 DEF Sound, Staged, Marked
<1>5. Stamped(t)'
  BY <1>1 DEF Stamped, Undo
<1>6. ASSUME t \in Signups PROVE Registered(t)'
  <2>1. Pc(t) # "origin"
    BY <1>0, <1>6 DEF Sound, Staged
  <2>2. CASE users' # users
    BY <1>1, <1>2, <1>6, <2>2 DEF Registered, Undo
  <2>3. CASE users' = users /\ Pc(t) \in {"doc", "db", "tier", "find", "insert"}
    <3>1. ~HasUser(t)'
      BY <2>3 DEF HasUser, Sound, Staged, Early, Gone, Bare
    <3> QED BY <1>1, <3>1 DEF Registered, Undo
  <2>4. CASE users' = users /\ Pc(t) \in {"quota", "session"}
    <3>1. docs' = docs
      BY <2>4, TenantWrites DEF UndoDoc, Step, Undo
    <3>2. HasUser(t)' <=> HasUser(t)
      BY <2>4 DEF HasUser
    <3>3. Pc(t)' = "failed"
      BY <1>0, <1>1, <1>6, <2>4
    <3> QED BY <1>6, <3>1, <3>2, <3>3, TenantFrame DEF Sound, Registered, Undo
  <2> QED BY <1>1, <2>1, <2>2, <2>3, <2>4
<1> QED BY <1>3, <1>4, <1>5, <1>6 DEF Sound

LEMMA BreakSound ==
  ASSUME TypeOK, NEW t \in Tenants, Sound(t), TenantStep(t), Breaks(t)
  PROVE  Sound(t)'
<1>0. t \in Signups => t \notin Demos
  BY Disjoint
<1>1. CASE UndoFails(t) \/ Crash(t)
  <2>1. UNCHANGED <<docs, dbs, users, sessions, quotas>> /\ t \in marred' /\ Pc(t) # "done"
    BY <1>1 DEF UndoFails, Crash, rows, Settled, Ended, Undo
  <2>2. Pc(t)' \in {"undo users", "failed", "dead"}
    BY <1>1, TenantMoves, MovesTyped
  <2> QED BY <1>0, <2>1, <2>2, TenantFrame
    DEF Sound, Staged, Marked, Stamped, Registered, Early, Aside, Past, Undoing, Undo
<1> QED BY <1>1, FailSound DEF Breaks

LEMMA OwnSound ==
  ASSUME TypeOK, NEW t \in Tenants, Sound(t), TenantStep(t)
  PROVE  Sound(t)'
BY AdmissionSound, ProvisionSound, AccountSound, FinishSound, UndoSound, BreakSound
  DEF TenantStep, SignupStep, DemoStep, Build

-----------------------------------------------------------------------------
(* A step of somebody else                                                 *)

\* Demos are torn down by those who claimed them, and one who drops out has marred his.
SweepsKept(t) ==
  t \notin marred' => \A c \in Collectors : sweep[c].on = t => sweep'[c].on = t

LEMMA KeptSound ==
  ASSUME NEW t \in Tenants, Sound(t), Kept(t), SweepsKept(t), t \in raced => t \in raced',
         Pending(t) => Pending(t)'
  PROVE  Sound(t)'
<1>1. Staged(t)'
  BY DEF Sound, Staged, Kept, SweepsKept, Aside, Gone, Bare, Whole
<1>2. Marked(t)' /\ (t \in Signups => Registered(t)')
  BY DEF Sound, Marked, Registered, Kept
<1>3. Stamped(t)'
  BY DEF Sound, Stamped, Kept
<1> QED BY <1>1, <1>2, <1>3 DEF Sound

\* No part of the tenant comes back, unless it is set aside.
Shrunk(t) ==
  /\ Pc(t) \in Past => Pc(t)' \in Past
  /\ Aside(t) => Aside(t)'
  /\ \/ Aside(t)'
     \/ /\ docs'[t].exists => docs[t].exists
        /\ t \in dbs' => t \in dbs
        /\ HasUser(t)' => HasUser(t)

LEMMA KeptShrunk ==
  ASSUME NEW t \in Tenants, Kept(t)
  PROVE  Shrunk(t)
BY DEF Kept, Shrunk, Aside

LEMMA ShrunkTorn ==
  ASSUME NEW c \in Collectors, Torn(c), sweep'[c] = sweep[c],
         sweep[c].on # Nobody => Shrunk(sweep[c].on),
         c \in Demos /\ sweep[c].pc # "idle" => Pc(c)' = Pc(c)
  PROVE  Torn(c)'
BY DEF Torn, Shrunk

\* A request that is being taken back takes its parts away.
LEMMA PastShrinks ==
  ASSUME TypeOK, NEW t \in Tenants, TenantStep(t), Pc(t) \in Past
  PROVE  Shrunk(t)
<1> USE DEF Step, Past, Undoing, Undo
<1>1. \/ UndoDoc(t) \/ UndoDb(t) \/ UndoUsers(t) \/ UndoSessions(t) \/ UndoFails(t) \/ Crash(t)
  <2>1. /\ ~(\E e \in Emails : Register(t, e)) /\ ~BetaCap(t) /\ ~Precheck(t)
        /\ ~RequestDemo(t) /\ ~DemoCap(t)
    BY DEF Register, Arrives, BetaCap, Precheck, RequestDemo, DemoCap
  <2>2. ~Provision(t) /\ ~Database(t) /\ ~Stamp(t) /\ ~Seed(t) /\ ~FindUser(t) /\ ~Insert(t)
    BY DEF Provision, Database, Stamp, Seed, FindUser, Insert
  <2>3. ~Quota(t) /\ ~Session(t) /\ ~Origin(t) /\ ~Fails(t)
    BY DEF Quota, Session, Origin, Fails
  <2> QED BY <2>1, <2>2, <2>3 DEF TenantStep, SignupStep, DemoStep, Build, Breaks
<1>2. Pc(t)' \in Past /\ (Aside(t) => Aside(t)')
  BY <1>1, TenantMoves, MovesTyped, TenantFrame DEF Aside
<1>3. CASE UndoDoc(t)
  <2>1. docs'[t].exists = FALSE /\ UNCHANGED <<dbs, users>>
    BY <1>3, DocWritten, WrittenTyped DEF UndoDoc
  <2> QED BY <1>2, <2>1 DEF Shrunk, HasUser
<1>4. CASE UndoDb(t) \/ UndoUsers(t) \/ UndoSessions(t)
  <2>1. docs' = docs /\ dbs' \subseteq dbs /\ users' \subseteq users
    BY <1>4 DEF UndoDb, DropDb, UndoUsers, DropUsers, UndoSessions
  <2>2. HasUser(t)' => HasUser(t)
    BY <2>1 DEF HasUser
  <2> QED BY <1>2, <2>1, <2>2 DEF Shrunk
<1>5. CASE UndoFails(t) \/ Crash(t)
  BY <1>2, <1>5 DEF UndoFails, Crash, Shrunk, Aside
<1> QED BY <1>1, <1>3, <1>4, <1>5

\* Only a demo that is still counting sweeps, and it goes on from there when that is over.
LEMMA StartsOf ==
  ASSUME NEW t \in Tenants, TenantStep(t)
  PROVE  /\ Pc(t) \notin Ended
         /\ Pc(t) = "count" => (DemoCap(t) /\ t \in Demos) \/ Crash(t)
<1> USE DEF Ended, Step, Undo
<1>1. CASE \/ (\E e \in Emails : Register(t, e)) \/ BetaCap(t) \/ Precheck(t) \/ RequestDemo(t)
           \/ (t \in Demos /\ DemoCap(t))
  BY <1>1 DEF Register, Arrives, BetaCap, Precheck, RequestDemo, DemoCap
<1>2. CASE Provision(t) \/ Database(t) \/ Stamp(t) \/ Seed(t) \/ FindUser(t) \/ Insert(t)
  BY <1>2 DEF Provision, Database, Stamp, Seed, FindUser, Insert
<1>3. CASE \/ Quota(t) \/ Session(t) \/ Origin(t) \/ UndoDoc(t) \/ UndoDb(t) \/ UndoUsers(t)
           \/ UndoSessions(t)
  BY <1>3 DEF Quota, Session, Origin, UndoDoc, UndoDb, UndoUsers, UndoSessions
<1>4. CASE Breaks(t)
  BY <1>4 DEF Breaks, Fails, UndoFails, Crash, Settled
<1> QED BY <1>1, <1>2, <1>3, <1>4 DEF TenantStep, SignupStep, DemoStep, Build

LEMMA SweepsOfOthers ==
  ASSUME TypeOK, NEW t \in Tenants, TenantStep(t), NEW c \in Collectors, Torn(c)
  PROVE  \/ sweep'[c] = sweep[c] /\ (c = t /\ Pc(t) = "count" => sweep[c].pc = "idle")
         \/ /\ c = t /\ t \in Demos /\ sweep'[c].on = Nobody
            /\ \/ sweep[c].on = Nobody /\ sweep'[c].pc = "claim" /\ Pc(c)' = "count"
               \/ sweep'[c].pc = "idle" /\ (sweep[c].on # Nobody => sweep[c].on \in marred')
<1>1. CASE RequestDemo(t)
  <2>1. sweep' = [sweep EXCEPT ![t] = [pc |-> "claim", on |-> Nobody]] /\ Pc(t) = "new"
    BY <1>1 DEF RequestDemo, Arrives
  <2>2. Pc(t)' = "count"
    BY <1>1, TenantMoves, MovesTyped
  <2>3. CASE c = t
    <3>1. c \in Demos
      BY <2>3, Disjoint DEF Collectors
    <3>2. sweep[c].pc = "idle"
      BY <2>1, <2>3, <3>1 DEF Torn
    <3>3. sweep[c].on = Nobody
      BY <3>2 DEF Torn, TearingDown
    <3> QED BY <2>1, <2>2, <2>3, <3>1, <3>3 DEF TypeOK
  <2>4. CASE c # t
    BY <2>1, <2>4 DEF TypeOK
  <2> QED BY <2>3, <2>4
<1>2. CASE Crash(t)
  <2>1. CASE c = t
    <3>1. t \in Demos
      BY <2>1, Disjoint DEF Collectors
    <3>2. /\ sweep'[c] = NoSweep
          /\ marred' = marred \cup ({t} \cup ({sweep[t].on} \ {Nobody}))
      BY <1>2, <2>1, <3>1 DEF Crash
    <3> QED BY <2>1, <3>1, <3>2 DEF NoSweep
  <2>2. CASE c # t
    BY <1>2, <2>2 DEF Crash
  <2> QED BY <2>1, <2>2
<1>3. CASE ~RequestDemo(t) /\ ~Crash(t)
  <2>1. sweep' = sweep
    <3>1. CASE \/ (\E e \in Emails : Register(t, e)) \/ BetaCap(t) \/ Precheck(t) \/ DemoCap(t)
               \/ Provision(t) \/ Database(t) \/ Stamp(t) \/ Seed(t) \/ FindUser(t) \/ Insert(t)
      BY <3>1 DEF Register, BetaCap, Precheck, DemoCap, Provision, Database, Stamp, Seed,
        FindUser, Insert
    <3>2. CASE \/ Quota(t) \/ Session(t) \/ Origin(t) \/ UndoDoc(t) \/ UndoDb(t) \/ UndoUsers(t)
               \/ UndoSessions(t) \/ Fails(t) \/ UndoFails(t)
      BY <3>2 DEF Quota, Session, Origin, UndoDoc, UndoDb, UndoUsers, UndoSessions, Fails, UndoFails
    <3> QED BY <1>3, <3>1, <3>2 DEF TenantStep, SignupStep, DemoStep, Build, Breaks
  <2>2. Pc(t) = "count" => sweep[t].pc = "idle"
    BY <1>3, StartsOf DEF DemoCap
  <2> QED BY <2>1, <2>2
<1> QED BY <1>1, <1>2, <1>3

\* A request's step keeps what is known of every tenant and of every reaper.
LEMMA TenantSound ==
  ASSUME TypeOK, NEW t \in Tenants, TenantStep(t),
         \A u \in Tenants : Sound(u), \A c \in Collectors : Torn(c)
  PROVE  /\ \A u \in Tenants : Sound(u)'
         /\ \A c \in Collectors : Torn(c)'
<1>1. ASSUME NEW u \in Tenants, u # t PROVE Sound(u)'
  <2>1. Kept(u)
    BY <1>1, OthersKept
  <2>2. SweepsKept(u)
    <3>1. Nobody # u
      BY Disjoint
    <3> QED BY <3>1, SweepsOfOthers DEF SweepsKept
  <2> QED BY <2>1, <2>2, KeptSound, TenantFrame
<1>2. ASSUME NEW c \in Collectors PROVE Torn(c)'
  <2>1. CASE sweep'[c] = sweep[c] /\ (c = t /\ Pc(t) = "count" => sweep[c].pc = "idle")
    <3> DEFINE u == sweep[c].on
    <3>1. u # Nobody => u \in Tenants /\ Pc(u) \in Past
      BY DEF Torn, Tenants
    <3>2. u # Nobody => Shrunk(u)
      BY <3>1, OthersKept, KeptShrunk, PastShrinks
    <3>3. c \in Demos /\ sweep[c].pc # "idle" => Pc(c)' = Pc(c)
      <4>1. c \in Demos /\ sweep[c].pc # "idle" => c # t /\ c \in Tenants
        BY <2>1 DEF Torn, Tenants
      <4> QED BY <4>1, OthersKept DEF Kept
    <3> QED BY <2>1, <3>2, <3>3, ShrunkTorn
  <2>2. CASE /\ c = t /\ t \in Demos /\ sweep'[c].on = Nobody
             /\ \/ sweep'[c].pc = "claim" /\ Pc(c)' = "count"
                \/ sweep'[c].pc = "idle"
    BY <2>2 DEF Torn, TearingDown
  <2> QED BY <2>1, <2>2, SweepsOfOthers
<1> QED BY <1>1, <1>2, OwnSound

-----------------------------------------------------------------------------
(* A reaper's step                                                         *)

\* Where a reaper goes, and what it gives up when it drops its demo.
Sweeps(c, s, t) == sweep' = [sweep EXCEPT ![c] = [pc |-> s, on |-> t]]

\* Nothing is taken from anybody but the demo that is being torn down.
LEMMA ReaperMoves ==
  ASSUME TypeOK, NEW c \in Collectors, Torn(c), ReaperStep(c), \A t \in Tenants : Marked(t)
  PROVE  /\ \/ /\ sweep[c].on = Nobody /\ UNCHANGED <<dbs, users, sessions, marred>>
               /\ \/ c \in Sweepers /\ Sweeps(c, "claim", Nobody) /\ UNCHANGED docs
                  \/ Sweeps(c, "idle", Nobody) /\ UNCHANGED docs
                  \/ \E t \in Demos :
                       /\ Pc(t) \in Past /\ Sweeps(c, "doc", t)
                       /\ c \in Sweepers \/ sweep[c].pc # "idle"
                       /\ docs' = docs \/ Written(t, docs[t].exists, docs[t].tier, docs[t].demo)
            \/ sweep[c].on # Nobody /\ Teardown(c)
            \/ /\ UNCHANGED <<docs, dbs, users, sessions>> /\ marred \subseteq marred'
               /\ \/ /\ sweep[c].on \in Demos /\ sweep[c].on \in marred'
                     /\ \/ Sweeps(c, "users", sweep[c].on)
                        \/ c \in Demos /\ Sweeps(c, "claim", Nobody)
                  \/ /\ sweep[c].on # Nobody => sweep[c].on \in marred'
                     /\ Sweeps(c, "idle", Nobody)
         /\ sweep[c].pc = "idle" => c \in Sweepers
         /\ UNCHANGED <<task, quotas, packs, tokens, admin, raced, revived, crowded, attempts>>
<1>1. CASE Sweep(c)
  <2>1. Sweeps(c, "claim", sweep[c].on) /\ sweep[c].on = Nobody
    BY <1>1, SweepMoves DEF Sweep, Sweeps, Torn, TearingDown
  <2> QED BY <1>1, <2>1 DEF Sweep, rows, history
<1>2. CASE Claim(c)
  <2>1. sweep[c].pc = "claim" /\ sweep[c].on = Nobody
    BY <1>2 DEF Claim, Torn, TearingDown
  <2>2. CASE SweepTo(c, "idle") /\ UNCHANGED docs
    BY <1>2, <2>1, <2>2, SweepMoves DEF Claim, Sweeps, history
  <2>3. ASSUME NEW t \in Reapable, docs' = [docs EXCEPT ![t].claimed = TRUE],
               sweep' = [sweep EXCEPT ![c] = [pc |-> "doc", on |-> t]]
        PROVE  \E d \in Demos :
                 /\ Pc(d) \in Past /\ Sweeps(c, "doc", d)
                 /\ Written(d, docs[d].exists, docs[d].tier, docs[d].demo)
    BY <2>3, DocWritten DEF Reapable, Marked, Sweeps
  <2> QED BY <1>2, <2>1, <2>2, <2>3 DEF Claim, history
<1>3. ASSUME NEW t \in Tenants, Delete(c, t) PROVE
        /\ sweep[c].on = Nobody /\ UNCHANGED <<rows, attempts, task, admin, history>>
        /\ c \in Sweepers /\ t \in Demos /\ Pc(t) \in Past /\ Sweeps(c, "doc", t)
  BY <1>3 DEF Delete, Torn, TearingDown, Marked, Sweeps
<1>4. CASE Teardown(c)
  BY <1>4 DEF Teardown, history, Torn, TearingDown
<1>5. CASE TeardownFails(c)
  <2>1. sweep[c].on \in Demos /\ sweep[c].on \in marred' /\ marred \subseteq marred'
    BY <1>5 DEF TeardownFails, Torn, TearingDown
  <2>2. \/ Sweeps(c, "users", sweep[c].on)
        \/ c \in Demos /\ Sweeps(c, "claim", Nobody)
        \/ Sweeps(c, "idle", Nobody)
    BY <1>5, SweepMoves DEF TeardownFails, Sweeps
  <2> QED BY <1>5, <2>1, <2>2 DEF TeardownFails, rows
<1>6. CASE SweeperCrash(c)
  BY <1>6 DEF SweeperCrash, Sweeps, NoSweep, rows
<1> QED BY <1>1, <1>2, <1>3, <1>4, <1>5, <1>6 DEF ReaperStep, Reap, rows, history, TeardownFails

LEMMA SweepsTyped ==
  ASSUME TypeOK, NEW c \in Collectors, NEW s, NEW t, Sweeps(c, s, t)
  PROVE  /\ sweep'[c].pc = s /\ sweep'[c].on = t
         /\ \A d \in Collectors \ {c} : sweep'[d] = sweep[d]
         /\ s \in {"idle", "claim"} \cup TearingDown /\ t \in Tenants \cup {Nobody}
              => sweep' \in [Collectors -> [pc : {"idle", "claim"} \cup TearingDown,
                                            on : Tenants \cup {Nobody}]]
BY DEF TypeOK, Sweeps

\* One part of the demo goes, in the order document, database, accounts, session.
LEMMA TeardownMoves ==
  ASSUME TypeOK, NEW c \in Collectors, Torn(c), Teardown(c), NEW t, t = sweep[c].on
  PROVE  /\ t \in Demos /\ Pc(t) \in Past
         /\ \/ /\ sweep[c].pc = "doc" /\ Sweeps(c, "db", t)
               /\ Written(t, FALSE, "unset", FALSE) /\ UNCHANGED <<dbs, users, sessions>>
            \/ /\ sweep[c].pc = "db" /\ Sweeps(c, "users", t)
               /\ dbs' = dbs \ {t} /\ UNCHANGED <<docs, users, sessions>>
            \/ /\ sweep[c].pc = "users" /\ Sweeps(c, "sessions", t)
               /\ users' = {u \in users : u.tenant # t} /\ UNCHANGED <<docs, dbs, sessions>>
            \/ /\ sweep[c].pc = "sessions"
               /\ (c \in Demos /\ Sweeps(c, "claim", Nobody)) \/ Sweeps(c, "idle", Nobody)
               /\ sessions' = sessions \ {t} /\ UNCHANGED <<docs, dbs, users>>
         /\ UNCHANGED <<quotas, packs, tokens, attempts, task, admin, history>>
<1>1. t \in Demos /\ Pc(t) \in Past /\ t \in Tenants
  BY DEF Teardown, Torn, TearingDown, Tenants
<1>2. CASE sweep[c].pc = "doc"
  BY <1>1, <1>2, SweepMoves, DocWritten DEF Teardown, Sweeps
<1>3. CASE sweep[c].pc = "db"
  BY <1>1, <1>3, SweepMoves DEF Teardown, Sweeps, DropDb
<1>4. CASE sweep[c].pc = "users"
  BY <1>1, <1>4, SweepMoves DEF Teardown, Sweeps, DropUsers
<1>5. CASE sweep[c].pc = "sessions"
  BY <1>1, <1>5 DEF Teardown, Sweeps, DropSession
<1> QED BY <1>1, <1>2, <1>3, <1>4, <1>5 DEF Teardown

LEMMA ReaperTypes ==
  ASSUME TypeOK, NEW c \in Collectors, Torn(c), ReaperStep(c), \A t \in Tenants : Marked(t)
  PROVE  TypeOK'
<1>1. UNCHANGED <<task, quotas, packs, tokens, admin, raced, revived, crowded, attempts>>
  BY ReaperMoves
<1>2. faults' \in Nat
  <2>1. faults' = faults \/ Fault
    BY DEF ReaperStep, Sweep, Reap, Claim, Teardown, TeardownFails, SweeperCrash, Delete, history
  <2> QED BY <2>1 DEF Fault, TypeOK
<1>3. marred' \subseteq Tenants
  BY DEF TypeOK, ReaperStep, Sweep, Reap, Claim, Teardown, TeardownFails, SweeperCrash, Delete,
    history, Torn, Tenants, TearingDown
<1>4. sweep' \in [Collectors -> [pc : {"idle", "claim"} \cup TearingDown,
                                 on : Tenants \cup {Nobody}]]
  <2>1. sweep[c].on \in Tenants \cup {Nobody}
    BY DEF TypeOK
  <2>2. \E s \in {"idle", "claim"} \cup TearingDown, t \in Tenants \cup {Nobody} : Sweeps(c, s, t)
    BY <2>1, ReaperMoves, TeardownMoves DEF Tenants, TearingDown
  <2> QED BY <2>2, SweepsTyped
<1>5. docs' \in [Tenants -> Doc] /\ dbs' \subseteq Tenants /\ users' \subseteq Account
      /\ sessions' \subseteq Tenants
  <2>1. docs' = docs \/ \E t \in Tenants : \E e, x, m : Written(t, e, x, m)
    BY ReaperMoves, TeardownMoves DEF Tenants
  <2>2. docs' \in [Tenants -> Doc]
    BY <2>1, WrittenTyped DEF TypeOK
  <2>3. dbs' \subseteq dbs /\ users' \subseteq users /\ sessions' \subseteq sessions
    BY ReaperMoves, TeardownMoves
  <2> QED BY <2>2, <2>3 DEF TypeOK
<1> QED BY <1>1, <1>2, <1>3, <1>4, <1>5 DEF TypeOK

\* A reaper takes nothing from the others, and what it takes from its demo stays gone.
LEMMA ReaperKeeps ==
  ASSUME TypeOK, NEW c \in Collectors, Torn(c), ReaperStep(c), \A t \in Tenants : Marked(t),
         NEW u \in Tenants
  PROVE  /\ Shrunk(u)
         /\ (Kept(u) /\ SweepsKept(u)) \/ (u = sweep[c].on /\ Teardown(c))
<1> USE ReaperMoves
<1>1. Pc(u)' = Pc(u) /\ quotas' = quotas /\ revived' = revived
  BY DEF Pc
<1>2. Nobody # u
  BY Disjoint
<1>3. CASE ~(sweep[c].on # Nobody /\ Teardown(c))
  <2>1. UNCHANGED <<dbs, users, sessions>> /\ marred \subseteq marred'
    BY <1>3
  <2>2. HasUser(u)' <=> HasUser(u)
    BY <2>1 DEF HasUser
  <2>3. docs' = docs \/ \E t \in Tenants : Written(t, docs[t].exists, docs[t].tier, docs[t].demo)
    BY <1>3 DEF Tenants
  <2>4. /\ docs'[u].exists = docs[u].exists /\ docs'[u].tier = docs[u].tier
        /\ docs'[u].demo = docs[u].demo
    BY <2>3, WrittenTyped
  <2>5. SweepsKept(u)
    BY <1>2, <1>3, SweepsTyped DEF SweepsKept
  <2>6. Kept(u)
    BY <1>1, <2>1, <2>2, <2>4 DEF Kept
  <2> QED BY <2>5, <2>6, KeptShrunk
<1>4. CASE sweep[c].on # Nobody /\ Teardown(c)
  <2> DEFINE t == sweep[c].on
  <2>1. dbs' \subseteq dbs /\ users' \subseteq users /\ marred' = marred
    BY <1>4, TeardownMoves DEF history
  <2>2. HasUser(u)' => HasUser(u)
    BY <2>1 DEF HasUser
  <2>3. t \in Tenants /\ (docs' = docs \/ Written(t, FALSE, "unset", FALSE))
    BY <1>4, TeardownMoves DEF Tenants
  <2>4. docs'[u].exists => docs[u].exists
    BY <2>3, WrittenTyped
  <2>5. Shrunk(u)
    BY <1>1, <2>1, <2>2, <2>4 DEF Shrunk, Aside
  <2>6. ASSUME u # t PROVE Kept(u) /\ SweepsKept(u)
    <3>1. docs'[u] = docs[u]
      BY <2>3, <2>6, WrittenTyped
    <3>2. \/ users' = users \/ users' = {v \in users : v.tenant # t}
      BY <1>4, TeardownMoves
    <3>3. HasUser(u)' <=> HasUser(u)
      BY <2>6, <3>2 DEF HasUser
    <3>4. (dbs' = dbs \/ dbs' = dbs \ {t}) /\ (sessions' = sessions \/ sessions' = sessions \ {t})
      BY <1>4, TeardownMoves
    <3>5. SweepsKept(u)
      BY <1>4, <2>6, TeardownMoves, SweepsTyped DEF SweepsKept
    <3> QED BY <1>1, <2>1, <2>6, <3>1, <3>3, <3>4, <3>5 DEF Kept
  <2> QED BY <1>4, <2>5, <2>6
<1> QED BY <1>3, <1>4

\* What a reaper leaves of the demo it is tearing down.
LEMMA TornOn ==
  ASSUME TypeOK, NEW c \in Collectors, Torn(c), Teardown(c), NEW t, t = sweep[c].on, Sound(t)
  PROVE  Sound(t)' /\ Torn(c)'
<1>1. /\ t \in Demos /\ t \in Tenants /\ Pc(t) \in Past /\ Pc(t)' = Pc(t) /\ t \notin Signups
      /\ Pc(t) \notin Early \cup {"db", "tier", "find", "insert", "seed", "quota", "session", "origin"}
  <2>1. t \in Demos /\ t \in Tenants /\ Pc(t) \in Past /\ Pc(t)' = Pc(t) /\ t \notin Signups
    BY TeardownMoves, Disjoint DEF Tenants, Pc
  <2> QED BY <2>1 DEF Past, Undoing, Undo, Early
<1>2. /\ t # Nobody /\ UNCHANGED <<raced, quotas>> /\ (Pending(t)' <=> Pending(t))
      /\ (Aside(t)' <=> Aside(t)) /\ marred' = marred /\ revived' = revived
  BY <1>1, Disjoint, TeardownMoves DEF history, Pending, Aside
<1>3. c \in Demos => Pc(c)' = "count"
  BY TeardownMoves DEF Torn, TearingDown, Teardown, Pc
<1>4. CASE /\ sweep[c].pc = "doc" /\ Sweeps(c, "db", t)
           /\ Written(t, FALSE, "unset", FALSE) /\ UNCHANGED <<dbs, users, sessions>>
  <2>0. HasUser(t)' <=> HasUser(t)
    BY <1>4 DEF HasUser
  <2>1. ~docs'[t].exists /\ ~docs'[t].demo
    BY <1>1, <1>4, WrittenTyped
  <2>2. sweep'[c].pc = "db" /\ sweep'[c].on = t
    BY <1>4, SweepsTyped
  <2>3. Sound(t)'
    BY <1>1, <1>2, <1>4, <2>0, <2>1, <2>2 DEF Sound, Staged, Marked, Stamped, Gone, Bare, Whole
  <2>4. Torn(c)'
    BY <1>1, <1>2, <1>3, <2>1, <2>2 DEF Torn, TearingDown
  <2> QED BY <2>3, <2>4
<1>5. CASE /\ sweep[c].pc = "db" /\ Sweeps(c, "users", t)
           /\ dbs' = dbs \ {t} /\ UNCHANGED <<docs, users, sessions>>
  <2>0. HasUser(t)' <=> HasUser(t)
    BY <1>5 DEF HasUser
  <2>2. sweep'[c].pc = "users" /\ sweep'[c].on = t
    BY <1>5, SweepsTyped
  <2>3. Sound(t)'
    BY <1>1, <1>2, <1>5, <2>2, <2>0 DEF Sound, Staged, Marked, Stamped, Gone, Bare, Whole
  <2>4. Torn(c)'
    BY <1>1, <1>2, <1>3, <1>5, <2>2 DEF Torn, TearingDown
  <2> QED BY <2>3, <2>4
<1>6. CASE /\ sweep[c].pc = "users" /\ Sweeps(c, "sessions", t)
           /\ users' = {u \in users : u.tenant # t} /\ UNCHANGED <<docs, dbs, sessions>>
  <2>1. ~HasUser(t)'
    BY <1>6 DEF HasUser
  <2>2. sweep'[c].pc = "sessions" /\ sweep'[c].on = t
    BY <1>6, SweepsTyped
  <2>3. Sound(t)'
    BY <1>1, <1>2, <1>6, <2>1, <2>2 DEF Sound, Staged, Marked, Stamped, Gone, Bare, Whole
  <2>4. Torn(c)'
    BY <1>1, <1>2, <1>3, <1>6, <2>1, <2>2 DEF Torn, TearingDown
  <2> QED BY <2>3, <2>4
<1>7. CASE /\ sweep[c].pc = "sessions"
           /\ (c \in Demos /\ Sweeps(c, "claim", Nobody)) \/ Sweeps(c, "idle", Nobody)
           /\ sessions' = sessions \ {t} /\ UNCHANGED <<docs, dbs, users>>
  <2>1. HasUser(t)' <=> HasUser(t)
    BY <1>7 DEF HasUser
  <2>2. sweep'[c].pc \in {"claim", "idle"} /\ sweep'[c].on = Nobody
    BY <1>7, SweepsTyped
  <2>3. ~Aside(t) => Gone(t)'
    BY <1>2, <1>7, <2>1 DEF Torn, Gone, Bare
  <2>4. Sound(t)'
    BY <1>1, <1>2, <1>7, <2>1, <2>3 DEF Sound, Staged, Marked, Stamped, Gone, Bare, Whole
  <2>5. Torn(c)'
    BY <1>2, <1>3, <2>2 DEF Torn, TearingDown
  <2> QED BY <2>4, <2>5
<1>8. sweep[c].pc \in TearingDown
  BY DEF Teardown, TearingDown
<1>9. CASE sweep[c].pc = "doc"
  BY <1>4, <1>9, TeardownMoves
<1>10. CASE sweep[c].pc = "db"
  BY <1>5, <1>10, TeardownMoves
<1>11. CASE sweep[c].pc = "users"
  BY <1>6, <1>11, TeardownMoves
<1>12. CASE sweep[c].pc = "sessions"
  BY <1>7, <1>12, TeardownMoves
<1> QED BY <1>8, <1>9, <1>10, <1>11, <1>12 DEF TearingDown

LEMMA ReaperSound ==
  ASSUME TypeOK, NEW c \in Collectors, ReaperStep(c),
         \A t \in Tenants : Sound(t), \A d \in Collectors : Torn(d)
  PROVE  /\ \A t \in Tenants : Sound(t)'
         /\ \A d \in Collectors : Torn(d)'
<1>0. \A t \in Tenants : Marked(t)
  BY DEF Sound
<1>1. ASSUME NEW t \in Tenants PROVE Sound(t)'
  <2>1. raced' = raced /\ (Pending(t) => Pending(t)')
    BY <1>0, ReaperMoves DEF Pending
  <2> QED BY <1>0, <2>1, ReaperKeeps, KeptSound, TornOn
<1>2. \A t \in Tenants : Shrunk(t)
  BY <1>0, ReaperKeeps
<1>3. ASSUME NEW d \in Collectors, d # c PROVE Torn(d)'
  <2>1. sweep'[d] = sweep[d] /\ task' = task
    BY <1>0, <1>3, ReaperMoves, TeardownMoves, SweepsTyped
  <2>2. sweep[d].on # Nobody => sweep[d].on \in Tenants
    BY DEF TypeOK
  <2>3. Pc(d)' = Pc(d)
    BY <2>1 DEF Pc
  <2>4. sweep[d].on # Nobody => Shrunk(sweep[d].on)
    BY <1>2, <2>2
  <2> QED BY <1>3, <2>1, <2>3, <2>4, ShrunkTorn
<1>4. Torn(c)'
  <2>1. CASE Teardown(c)
    BY <1>1, <2>1, TornOn, TeardownMoves DEF Tenants
  <2>2. CASE ~Teardown(c)
    <3>1. c \in Demos => c \notin Sweepers
      BY Disjoint DEF Tenants
    <3>2. task' = task
      BY <1>0, ReaperMoves
    <3>3. c \in Demos => Pc(c)' = "count"
      BY <1>0, <3>1, <3>2, ReaperMoves DEF Torn, Pc
    <3>4. CASE Sweeps(c, "claim", Nobody) \/ Sweeps(c, "idle", Nobody)
      BY <3>3, <3>4, SweepsTyped DEF Torn, TearingDown
    <3>5. ASSUME NEW t \in Demos, Pc(t) \in Past, Sweeps(c, "doc", t)
          PROVE  Torn(c)'
      <4>1. t # Nobody /\ Pc(t)' \in Past
        BY <3>2, <3>5, Disjoint DEF Tenants, Pc
      <4> QED BY <3>3, <3>5, <4>1, SweepsTyped DEF Torn, TearingDown
    <3>6. ASSUME sweep[c].on \in Demos, sweep[c].on \in marred', Sweeps(c, "users", sweep[c].on)
          PROVE  Torn(c)'
      <4>1. sweep[c].on # Nobody /\ Pc(sweep[c].on)' \in Past /\ sweep'[c].on = sweep[c].on
        BY <3>2, <3>6, Disjoint, SweepsTyped DEF Tenants, Pc, Torn
      <4> QED BY <3>3, <3>6, <4>1, SweepsTyped DEF Torn, TearingDown, Aside
    <3> QED BY <1>0, <2>2, <3>4, <3>5, <3>6, ReaperMoves
  <2> QED BY <2>1, <2>2
<1> QED BY <1>1, <1>3, <1>4

-----------------------------------------------------------------------------
(* Uses after the end                                                      *)

ReviveStep(t) == ReviveDoc(t) \/ ReviveDb(t)

\* What a token brings back is a document without a mark, or a database.
LEMMA ReviveMoves ==
  ASSUME TypeOK, NEW t \in Tenants, ReviveStep(t)
  PROVE  /\ t \in tokens /\ revived' = revived \cup {t} /\ Fault
         /\ UNCHANGED <<users, sessions, quotas, packs, tokens, attempts, task, sweep, admin,
                        marred, raced, crowded>>
         /\ \/ ~docs[t].exists /\ Written(t, TRUE, "unset", FALSE) /\ dbs' = dbs
            \/ t \notin dbs /\ docs' = docs /\ dbs' = dbs \cup {t}
<1>1. CASE ReviveDoc(t)
  BY <1>1, DocWritten DEF ReviveDoc, Revive, WriteDoc
<1>2. CASE ReviveDb(t)
  BY <1>2 DEF ReviveDb, Revive, WriteDb
<1> QED BY <1>1, <1>2 DEF ReviveStep

LEMMA ReviveTypes ==
  ASSUME TypeOK, NEW t \in Tenants, ReviveStep(t)
  PROVE  TypeOK'
<1>1. docs' \in [Tenants -> Doc]
  BY ReviveMoves, WrittenTyped DEF TypeOK
<1>2. dbs' \subseteq Tenants
  BY ReviveMoves DEF TypeOK
<1>3. revived' \subseteq Tenants
  BY ReviveMoves DEF TypeOK
<1>4. faults' \in Nat
  <2>1. Fault /\ faults \in Nat
    BY ReviveMoves DEF TypeOK
  <2> QED BY <2>1 DEF Fault
<1> QED BY <1>1, <1>2, <1>3, <1>4, ReviveMoves DEF TypeOK

LEMMA ReviveSound ==
  ASSUME TypeOK, NEW t \in Tenants, ReviveStep(t), Tokened(t),
         \A u \in Tenants : Sound(u), \A c \in Collectors : Torn(c)
  PROVE  /\ \A u \in Tenants : Sound(u)'
         /\ \A c \in Collectors : Torn(c)'
<1> USE ReviveMoves
<1>1. \A u \in Tenants : Pc(u)' = Pc(u) /\ (HasUser(u)' <=> HasUser(u)) /\ (Pending(u)' <=> Pending(u))
  BY DEF Pc, HasUser, Pending
<1>2. ASSUME NEW u \in Tenants, u # t PROVE Kept(u) /\ Sound(u)'
  <2>0. docs'[u] = docs[u]
    BY <1>2, WrittenTyped
  <2>1. docs'[u] = docs[u] /\ (u \in dbs' <=> u \in dbs)
    BY <1>2, <2>0
  <2>2. Kept(u)
    BY <1>1, <1>2, <2>1 DEF Kept
  <2> QED BY <1>1, <2>2, KeptSound DEF SweepsKept
<1>3. Aside(t)'
  BY DEF Aside
<1>4. /\ Pc(t) \notin Early \cup {"db", "tier", "find", "insert"}
      /\ Pc(t) = "seed" => t \notin Demos
      /\ t \in Demos => Pc(t) \notin {"quota", "session", "origin"}
      /\ Pc(t) # "origin"
  BY DEF Tokened, Sound, Staged, Whole
<1>5. Sound(t)'
  <2>1. Staged(t)'
    BY <1>1, <1>3, <1>4 DEF Staged
  <2>2. docs' = docs \/ (~docs[t].exists /\ ~docs'[t].demo)
    BY WrittenTyped
  <2>3. Marked(t)' /\ Stamped(t)'
    BY <1>1, <2>2 DEF Sound, Marked, Stamped
  <2>4. t \in Signups => Registered(t)'
    BY <1>1, <1>4, <2>2 DEF Sound, Registered
  <2> QED BY <2>1, <2>3, <2>4 DEF Sound
<1>6. Shrunk(t)
  BY <1>1, <1>3 DEF Shrunk
<1>7. ASSUME NEW c \in Collectors PROVE Torn(c)'
  <2>1. sweep[c].on # Nobody => sweep[c].on \in Tenants
    BY DEF TypeOK
  <2>2. sweep[c].on # Nobody => Shrunk(sweep[c].on)
    BY <1>2, <1>6, <2>1, KeptShrunk
  <2>3. c \in Demos => Pc(c)' = Pc(c)
    BY <1>1 DEF Tenants
  <2> QED BY <2>2, <2>3, ShrunkTorn
<1> QED BY <1>2, <1>5, <1>7

-----------------------------------------------------------------------------
(* Administrators and clocks                                               *)

LEMMA ClockTypes ==
  ASSUME TypeOK, ClockStep
  PROVE  TypeOK'
<1> USE DEF rows, history
<1>1. CASE NewWindow
  BY <1>1 DEF NewWindow, TypeOK
<1>2. ASSUME NEW d \in Demos, Expire(d) PROVE TypeOK'
  <2>1. docs' \in [Tenants -> Doc]
    BY <1>2, DocWritten, WrittenTyped DEF Expire, Tenants
  <2> QED BY <1>2, <2>1 DEF Expire, TypeOK
<1> QED BY <1>1, <1>2 DEF ClockStep

\* Only a deadline passes.
LEMMA ClockKeeps ==
  ASSUME TypeOK, ClockStep
  PROVE  /\ UNCHANGED <<task, sweep, users, dbs, sessions, quotas, tokens, admin, marred, revived,
                        raced, crowded>>
         /\ \A t \in Tenants : /\ docs'[t].exists = docs[t].exists /\ docs'[t].demo = docs[t].demo
                               /\ docs'[t].tier = docs[t].tier
<1> USE DEF rows, history
<1>1. CASE NewWindow
  BY <1>1 DEF NewWindow
<1>2. ASSUME NEW d \in Demos, Expire(d)
      PROVE  \A t \in Tenants : /\ docs'[t].exists = docs[t].exists /\ docs'[t].demo = docs[t].demo
                                /\ docs'[t].tier = docs[t].tier
  BY <1>2, DocWritten, WrittenTyped DEF Expire, Tenants
<1> QED BY <1>1, <1>2 DEF ClockStep, Expire

LEMMA AllKept ==
  ASSUME TypeOK, UNCHANGED <<task, sweep, admin>>, \A t \in Tenants : Kept(t), raced \subseteq raced',
         \A t \in Tenants : Sound(t), \A c \in Collectors : Torn(c)
  PROVE  /\ \A t \in Tenants : Sound(t)'
         /\ \A c \in Collectors : Torn(c)'
<1>1. ASSUME NEW t \in Tenants PROVE Sound(t)'
  <2>1. SweepsKept(t) /\ (Pending(t) => Pending(t)')
    BY DEF SweepsKept, Pending
  <2> QED BY <2>1, KeptSound
<1>2. ASSUME NEW c \in Collectors PROVE Torn(c)'
  <2>1. (sweep[c].on # Nobody => sweep[c].on \in Tenants) /\ Pc(c)' = Pc(c)
    BY DEF TypeOK, Pc
  <2>2. sweep[c].on # Nobody => Shrunk(sweep[c].on)
    BY <2>1, KeptShrunk
  <2> QED BY <2>1, <2>2, ShrunkTorn
<1> QED BY <1>1, <1>2

LEMMA ClockSound ==
  ASSUME TypeOK, ClockStep, \A t \in Tenants : Sound(t), \A c \in Collectors : Torn(c)
  PROVE  /\ \A t \in Tenants : Sound(t)'
         /\ \A c \in Collectors : Torn(c)'
<1>1. ASSUME NEW t \in Tenants PROVE Kept(t)
  <2>1. HasUser(t)' <=> HasUser(t)
    BY ClockKeeps DEF HasUser
  <2> QED BY <2>1, ClockKeeps DEF Kept, Pc
<1> QED BY <1>1, ClockKeeps, AllKept

AdminSet == [pc : {"idle", "quota"}, on : Tenants \cup {Nobody}, tier : Tiers, alone : BOOLEAN]

\* What a confirmation writes, and what it makes of the others that are on their way.
LEMMA ConfirmMoves ==
  ASSUME TypeOK, NEW a \in Admins, NEW x \in Tenants, NEW tier \in {"confirmed", "unconfirmed"},
         Confirm(a, x, tier)
  PROVE  /\ admin[a].pc = "idle" /\ docs[x].exists /\ Fault
         /\ Written(x, docs[x].exists, tier, docs[x].demo)
         /\ admin' \in [Admins -> AdminSet]
         /\ admin'[a].pc = "quota" /\ admin'[a].on = x /\ admin'[a].tier = tier
         /\ admin'[a].alone <=> Settled(x) /\ ~Pending(x)
         /\ \A b \in Admins \ {a} :
              /\ admin'[b].pc = admin[b].pc /\ admin'[b].on = admin[b].on
              /\ admin'[b].tier = admin[b].tier
              /\ admin'[b].alone <=> admin[b].alone /\ ~(admin[b].pc = "quota" /\ admin[b].on = x)
         /\ raced \subseteq raced' /\ (~admin'[a].alone => x \in raced') /\ raced' \subseteq raced \cup {x}
         /\ UNCHANGED <<dbs, users, sessions, quotas, packs, tokens, attempts, task, sweep, marred,
                        revived, crowded>>
<1> DEFINE alone == Settled(x) /\ Confirming(x) = {}
           q == [pc |-> "quota", on |-> x, tier |-> tier, alone |-> alone]
<1>1. /\ admin[a].pc = "idle" /\ docs[x].exists /\ Fault /\ docs' = [docs EXCEPT ![x].tier = tier]
      /\ raced' = IF alone THEN raced ELSE raced \cup {x}
      /\ UNCHANGED <<dbs, users, sessions, quotas, packs, tokens, attempts, task, sweep, marred,
                     revived, crowded>>
  BY DEF Confirm, Free
<1>2. admin' = [b \in Admins |-> IF b = a THEN q
                                 ELSE [admin[b] EXCEPT !.alone = admin[b].alone /\ b \notin Confirming(x)]]
  BY DEF Confirm
<1>3. tier \in Tiers /\ alone \in BOOLEAN /\ (alone <=> Settled(x) /\ ~Pending(x))
  BY DEF Tiers, Pending, Confirming
<1>4. Written(x, docs[x].exists, tier, docs[x].demo)
  BY <1>1, <1>3, DocWritten
<1> HIDE DEF alone
<1>5. q \in AdminSet /\ admin'[a] = q
  BY <1>2, <1>3 DEF AdminSet
<1>6. ASSUME NEW b \in Admins, b # a
      PROVE  /\ admin'[b] \in AdminSet
             /\ admin'[b].pc = admin[b].pc /\ admin'[b].on = admin[b].on
             /\ admin'[b].tier = admin[b].tier
             /\ admin'[b].alone <=> admin[b].alone /\ ~(admin[b].pc = "quota" /\ admin[b].on = x)
  <2> DEFINE v == admin[b].alone /\ b \notin Confirming(x)
  <2>1. admin[b] \in AdminSet
    BY DEF TypeOK, AdminSet
  <2>2. admin'[b] = [admin[b] EXCEPT !.alone = v]
    BY <1>2, <1>6
  <2>3. v \in BOOLEAN /\ (v <=> admin[b].alone /\ ~(admin[b].pc = "quota" /\ admin[b].on = x))
    BY DEF Confirming
  <2> HIDE DEF v
  <2>4. admin'[b] = [pc |-> admin[b].pc, on |-> admin[b].on, tier |-> admin[b].tier, alone |-> v]
    BY <2>1, <2>2 DEF AdminSet
  <2> QED BY <2>1, <2>3, <2>4 DEF AdminSet
<1>7. admin' \in [Admins -> AdminSet]
  <2> DEFINE r(b) == IF b = a THEN q
                     ELSE [admin[b] EXCEPT !.alone = admin[b].alone /\ b \notin Confirming(x)]
  <2>1. admin' = [b \in Admins |-> r(b)]
    BY <1>2
  <2>2. ASSUME NEW b \in Admins PROVE r(b) \in AdminSet
    <3>1. admin'[b] = r(b)
      BY <2>1
    <3> HIDE DEF r, q
    <3> QED BY <1>5, <1>6, <3>1
  <2> HIDE DEF r, q, AdminSet
  <2> QED BY <2>1, <2>2
<1>8. /\ admin'[a].pc = "quota" /\ admin'[a].on = x /\ admin'[a].tier = tier
      /\ admin'[a].alone <=> Settled(x) /\ ~Pending(x)
  BY <1>3, <1>5
<1>9. raced \subseteq raced' /\ (~admin'[a].alone => x \in raced') /\ raced' \subseteq raced \cup {x}
  <2>1. admin'[a].alone <=> alone
    BY <1>5
  <2>2. raced' = IF alone THEN raced ELSE raced \cup {x}
    BY <1>1
  <2> QED BY ONLY <2>1, <2>2
<1>10. \A b \in Admins \ {a} :
         /\ admin'[b].pc = admin[b].pc /\ admin'[b].on = admin[b].on
         /\ admin'[b].tier = admin[b].tier
         /\ admin'[b].alone <=> admin[b].alone /\ ~(admin[b].pc = "quota" /\ admin[b].on = x)
  BY <1>6
<1> QED BY <1>1, <1>4, <1>7, <1>8, <1>9, <1>10

\* The quota follows, or does not; the confirmation is over.
LEMMA QuotaMoves ==
  ASSUME TypeOK, NEW a \in Admins, ConfirmQuota(a) \/ ConfirmFails(a)
  PROVE  /\ admin[a].pc = "quota" /\ admin[a].on \in Tenants
         /\ admin' = [admin EXCEPT ![a] = NoAdmin]
         /\ \/ /\ ConfirmQuota(a) /\ quotas' = [quotas EXCEPT ![admin[a].on] = admin[a].tier]
               /\ raced' = IF admin[a].alone THEN raced \ {admin[a].on} ELSE raced
            \/ /\ quotas' = quotas \/ quotas' = [quotas EXCEPT ![admin[a].on] = admin[a].tier]
               /\ raced' = raced \cup {admin[a].on}
         /\ faults' = faults \/ Fault
         /\ UNCHANGED <<docs, dbs, users, sessions, packs, tokens, attempts, task, sweep, marred,
                        revived, crowded>>
BY DEF TypeOK, ConfirmQuota, ConfirmFails

LEMMA AdminTypes ==
  ASSUME TypeOK, NEW a \in Admins, AdminStep(a)
  PROVE  TypeOK'
<1>1. ASSUME NEW t \in Tenants, NEW tier \in {"confirmed", "unconfirmed"}, Confirm(a, t, tier)
      PROVE  TypeOK'
  <2>1. docs' \in [Tenants -> Doc]
    BY <1>1, ConfirmMoves, WrittenTyped
  <2>2. faults' \in Nat /\ raced' \subseteq Tenants
    BY <1>1, ConfirmMoves DEF Fault, TypeOK
  <2>3. admin' \in [Admins -> AdminSet] /\ \A b \in Admins : admin'[b].pc = "quota" => admin'[b].on \in Tenants
    BY <1>1, ConfirmMoves DEF TypeOK
  <2> QED BY <1>1, <2>1, <2>2, <2>3, ConfirmMoves DEF TypeOK, AdminSet
<1>2. CASE ConfirmQuota(a) \/ ConfirmFails(a)
  <2>1. admin[a].tier \in Tiers /\ NoAdmin \in AdminSet
    BY DEF TypeOK, NoAdmin, AdminSet, Tiers
  <2>2. quotas' \in [Tenants -> Tiers]
    BY <1>2, <2>1, QuotaMoves DEF TypeOK
  <2>3. faults' \in Nat /\ raced' \subseteq Tenants
    BY <1>2, QuotaMoves DEF Fault, TypeOK
  <2>4. admin' \in [Admins -> AdminSet] /\ \A b \in Admins : admin'[b].pc = "quota" => admin'[b].on \in Tenants
    <3>1. admin \in [Admins -> AdminSet] /\ admin' = [admin EXCEPT ![a] = NoAdmin]
      BY <1>2, QuotaMoves DEF TypeOK, AdminSet
    <3>2. admin' \in [Admins -> AdminSet]
      BY <2>1, <3>1
    <3>3. \A b \in Admins : b # a => admin'[b] = admin[b]
      BY <3>1
    <3>4. admin'[a].pc # "quota"
      BY <3>1 DEF NoAdmin
    <3> QED BY <3>2, <3>3, <3>4 DEF TypeOK
  <2> QED BY <1>2, <2>2, <2>3, <2>4, QuotaMoves DEF TypeOK, AdminSet
<1> QED BY <1>1, <1>2 DEF AdminStep

LEMMA ConfirmSound ==
  ASSUME TypeOK, NEW a \in Admins, NEW x \in Tenants, NEW tier \in {"confirmed", "unconfirmed"},
         Confirm(a, x, tier),
         \A t \in Tenants : Sound(t), \A c \in Collectors : Torn(c), \A b \in Admins : Confirmed(b)
  PROVE  /\ \A t \in Tenants : Sound(t)'
         /\ \A c \in Collectors : Torn(c)'
         /\ \A b \in Admins : Confirmed(b)'
<1> USE ConfirmMoves
<1>1. \A u \in Tenants : /\ Pc(u)' = Pc(u) /\ (HasUser(u)' <=> HasUser(u))
                         /\ docs'[u].exists = docs[u].exists /\ docs'[u].demo = docs[u].demo
                         /\ u # x => docs'[u].tier = docs[u].tier
  <2>1. \A u \in Tenants : Pc(u)' = Pc(u) /\ (HasUser(u)' <=> HasUser(u))
    BY DEF Pc, HasUser
  <2> QED BY <2>1, WrittenTyped
<1>2. docs'[x].tier = tier /\ tier # "unset"
  BY WrittenTyped
<1>3. \A b \in Admins \ {a} : admin'[b].pc = admin[b].pc /\ admin'[b].on = admin[b].on
  OBVIOUS
<1>4. admin[a].pc = "idle" /\ admin'[a].pc = "quota" /\ admin'[a].on = x
  OBVIOUS
<1>5. \A u \in Tenants : Pending(u) => Pending(u)'
  BY <1>3, <1>4 DEF Pending
<1>6. Pending(x)'
  BY <1>4 DEF Pending
<1>7. UNCHANGED <<dbs, sessions, quotas, task, sweep, marred, revived>> /\ raced \subseteq raced'
  OBVIOUS
<1>8. \A u \in Tenants \ {x} : Kept(u)
  BY <1>1, <1>7 DEF Kept
<1>9. x \notin raced' => Pc(x) \in Ended
  <2>1. docs[x].exists
    OBVIOUS
  <2>2. Pc(x) # "new"
    BY <2>1 DEF Sound, Staged, Early, Gone
  <2>3. x \notin raced' => Settled(x)
    OBVIOUS
  <2> QED BY <2>2, <2>3 DEF Settled
<1>10. ASSUME NEW u \in Tenants, u # x PROVE Sound(u)'
  <2>1. SweepsKept(u)
    BY <1>7 DEF SweepsKept
  <2> QED BY <1>5, <1>7, <1>8, <1>10, <2>1, KeptSound
<1>11. Sound(x)'
  <2>0. /\ Pc(x)' = Pc(x) /\ (HasUser(x)' <=> HasUser(x)) /\ docs'[x].exists = docs[x].exists
        /\ UNCHANGED <<dbs, sessions, sweep>> /\ (Aside(x)' <=> Aside(x)) /\ Staged(x)
    BY <1>1, <1>7 DEF Aside, Sound
  <2>1. Staged(x)'
    BY <2>0 DEF Staged, Gone, Bare, Whole
  <2>2. Marked(x)'
    BY <1>1 DEF Sound, Marked
  <2>3. x \in Signups => Registered(x)'
    BY <1>1, <1>2, <1>7 DEF Sound, Registered
  <2>4. Stamped(x)'
    BY <1>1, <1>6, <1>9 DEF Stamped, Ended
  <2> QED BY <2>1, <2>2, <2>3, <2>4 DEF Sound
<1>12. ASSUME NEW c \in Collectors PROVE Torn(c)'
  <2>1. \A u \in Tenants : Shrunk(u)
    BY <1>1, <1>7 DEF Shrunk, Aside
  <2>2. (sweep[c].on # Nobody => sweep[c].on \in Tenants) /\ Pc(c)' = Pc(c) /\ sweep'[c] = sweep[c]
    BY <1>7 DEF TypeOK, Pc
  <2> QED BY <2>1, <2>2, ShrunkTorn
<1>13. Confirmed(a)'
  <2>1. ~admin'[a].alone => x \in raced'
    OBVIOUS
  <2>2. ASSUME admin'[a].alone
        PROVE  Pc(x)' \in Ended /\ \A b \in Admins : admin'[b].pc = "quota" /\ admin'[b].on = x => b = a
    <3>1. Settled(x) /\ ~Pending(x)
      BY <2>2
    <3>2. Pc(x)' \in Ended
      <4>1. docs[x].exists
        OBVIOUS
      <4>2. Pc(x) # "new"
        BY <4>1 DEF Sound, Staged, Early, Gone
      <4> QED BY <1>1, <3>1, <4>2 DEF Settled
    <3> QED BY <1>3, <3>1, <3>2 DEF Pending
  <2>3. admin'[a].tier = tier
    OBVIOUS
  <2> QED BY <1>2, <1>4, <2>1, <2>2, <2>3 DEF Confirmed
<1>14. ASSUME NEW b \in Admins, b # a PROVE Confirmed(b)'
  <2> DEFINE t == admin[b].on
  <2>1. /\ admin'[b].pc = admin[b].pc /\ admin'[b].on = t /\ admin'[b].tier = admin[b].tier
        /\ admin'[b].alone <=> admin[b].alone /\ ~(admin[b].pc = "quota" /\ t = x)
    BY <1>14
  <2>2. CASE admin[b].pc # "quota"
    BY <2>1, <2>2 DEF Confirmed
  <2>3. CASE admin[b].pc = "quota" /\ t = x
    <3>1. Pending(x)
      BY <2>3 DEF Pending
    <3>2. x \in raced'
      BY <3>1
    <3> QED BY <2>1, <2>3, <3>2 DEF Confirmed
  <2>4. CASE admin[b].pc = "quota" /\ t # x
    <3>1. t \in Tenants
      BY <2>4 DEF TypeOK
    <3>2. \A c \in Admins : admin'[c].pc = "quota" /\ admin'[c].on = t
                              => admin[c].pc = "quota" /\ admin[c].on = t
      BY <1>3, <1>4, <2>4
    <3> QED BY <1>1, <1>7, <2>1, <2>4, <3>1, <3>2 DEF Confirmed
  <2> QED BY <2>2, <2>3, <2>4
<1> QED BY <1>10, <1>11, <1>12, <1>13, <1>14

LEMMA QuotaSound ==
  ASSUME TypeOK, NEW a \in Admins, ConfirmQuota(a) \/ ConfirmFails(a), NEW t, t = admin[a].on,
         \A u \in Tenants : Sound(u), \A c \in Collectors : Torn(c), \A b \in Admins : Confirmed(b)
  PROVE  /\ \A u \in Tenants : Sound(u)'
         /\ \A c \in Collectors : Torn(c)'
         /\ \A b \in Admins : Confirmed(b)'
<1>0. admin[a].pc = "quota" /\ t \in Tenants
  BY QuotaMoves
<1>1. UNCHANGED <<docs, dbs, users, sessions, task, sweep, marred, revived>>
  BY QuotaMoves
<1>2. \A u \in Tenants : Pc(u)' = Pc(u) /\ (HasUser(u)' <=> HasUser(u))
  BY <1>1 DEF Pc, HasUser
<1>3. admin'[a].pc = "idle" /\ \A b \in Admins \ {a} : admin'[b] = admin[b]
  <2>1. admin' = [admin EXCEPT ![a] = NoAdmin]
    BY QuotaMoves
  <2> QED BY <2>1 DEF TypeOK, NoAdmin
<1>4. \A u \in Tenants \ {t} : quotas'[u] = quotas[u] /\ (u \in raced' <=> u \in raced)
  <2>1. quotas' = quotas \/ quotas' = [quotas EXCEPT ![t] = admin[a].tier]
    BY QuotaMoves
  <2>2. raced' = raced \/ raced' = raced \ {t} \/ raced' = raced \cup {t}
    BY QuotaMoves
  <2> QED BY <2>1, <2>2 DEF TypeOK
<1>5. t \in raced' \/ (admin[a].alone /\ quotas'[t] = admin[a].tier)
  <2>1. CASE /\ ConfirmQuota(a) /\ quotas' = [quotas EXCEPT ![t] = admin[a].tier]
             /\ raced' = IF admin[a].alone THEN raced \ {t} ELSE raced
    BY <1>0, <2>1 DEF TypeOK, Confirmed
  <2>2. CASE raced' = raced \cup {t}
    BY <2>2
  <2> QED BY <2>1, <2>2, QuotaMoves
<1>6. admin[a].alone \/ raced \subseteq raced'
  BY QuotaMoves
<1>7. ASSUME NEW u \in Tenants, u # t PROVE Sound(u)'
  <2>1. Kept(u)
    BY <1>1, <1>2, <1>4, <1>7 DEF Kept
  <2>2. SweepsKept(u)
    BY <1>1 DEF SweepsKept
  <2>3. Pending(u) => Pending(u)'
    BY <1>3, <1>7 DEF Pending
  <2> QED BY <1>4, <1>7, <2>1, <2>2, <2>3, KeptSound
<1>8. Sound(t)'
  <2>0. /\ Pc(t)' = Pc(t) /\ (HasUser(t)' <=> HasUser(t)) /\ UNCHANGED <<docs, dbs, sessions, sweep>>
        /\ (Aside(t)' <=> Aside(t)) /\ Staged(t)
    BY <1>0, <1>1, <1>2 DEF Aside, Sound
  <2>1. Staged(t)'
    BY <2>0 DEF Staged, Gone, Bare, Whole
  <2>2. Marked(t)' /\ (t \in Signups => Registered(t)')
    BY <1>0, <1>1, <1>2 DEF Sound, Marked, Registered
  <2>3. Stamped(t)'
    <3>1. SUFFICES ASSUME t \notin raced', t \notin revived PROVE Stamped(t)'
      BY <1>1 DEF Stamped
    <3>2. admin[a].alone /\ quotas'[t] = admin[a].tier
      BY <1>5, <3>1
    <3>3. Pc(t) \in Ended /\ (docs[t].exists => docs[t].tier = admin[a].tier)
      BY <1>0, <3>1, <3>2 DEF Confirmed
    <3> QED BY <1>0, <1>1, <1>2, <3>2, <3>3 DEF Stamped, Ended
  <2> QED BY <2>1, <2>2, <2>3 DEF Sound
<1>9. ASSUME NEW c \in Collectors PROVE Torn(c)'
  <2>1. \A u \in Tenants : Shrunk(u)
    BY <1>1, <1>2 DEF Shrunk, Aside
  <2>2. (sweep[c].on # Nobody => sweep[c].on \in Tenants) /\ Pc(c)' = Pc(c) /\ sweep'[c] = sweep[c]
    BY <1>1 DEF TypeOK, Pc
  <2> QED BY <2>1, <2>2, ShrunkTorn
<1>10. ASSUME NEW b \in Admins, b # a PROVE Confirmed(b)'
  <2>1. admin'[b] = admin[b] /\ (admin[b].pc = "quota" => admin[b].on \in Tenants)
    BY <1>3, <1>10 DEF TypeOK
  <2>2. \A c \in Admins : admin'[c].pc = "quota" => c # a /\ admin'[c] = admin[c]
    BY <1>3
  <2>3. CASE admin[b].pc = "quota" /\ admin[b].on = t
    <3>1. ~admin[b].alone /\ ~admin[a].alone
      BY <1>0, <1>10, <2>3 DEF Confirmed
    <3>2. t \in raced
      BY <2>3, <3>1 DEF Confirmed
    <3> QED BY <1>6, <2>1, <2>3, <3>1, <3>2 DEF Confirmed
  <2>4. CASE admin[b].pc = "quota" /\ admin[b].on # t
    <3> DEFINE u == admin[b].on
    <3>1. u \in Tenants \ {t} /\ Pc(u)' = Pc(u) /\ (u \in raced' <=> u \in raced)
      BY <1>2, <1>4, <2>1, <2>4
    <3>2. \A c \in Admins : admin'[c].pc = "quota" /\ admin'[c].on = u
                              => admin[c].pc = "quota" /\ admin[c].on = u
      BY <2>2
    <3> QED BY <1>1, <2>1, <2>4, <3>1, <3>2 DEF Confirmed
  <2>5. CASE admin[b].pc # "quota"
    BY <2>1, <2>5 DEF Confirmed
  <2> QED BY <2>3, <2>4, <2>5
<1>11. Confirmed(a)'
  BY <1>3 DEF Confirmed
<1> QED BY <1>7, <1>8, <1>9, <1>10, <1>11

-----------------------------------------------------------------------------
(* Confirmations and tokens under the steps of the others                  *)

LEMMA ConfirmedKept ==
  ASSUME TypeOK, UNCHANGED <<admin, raced>>, NEW b \in Admins, Confirmed(b),
         \A t \in Tenants : Pc(t) \in Ended =>
           /\ Pc(t)' = Pc(t)
           /\ docs'[t].exists /\ t \notin revived' =>
                docs[t].exists /\ t \notin revived /\ docs'[t].tier = docs[t].tier
  PROVE  Confirmed(b)'
<1>1. admin[b].pc = "quota" => admin[b].on \in Tenants
  BY DEF TypeOK
<1> QED BY <1>1 DEF Confirmed

LEMMA TenantConfirmed ==
  ASSUME TypeOK, NEW t \in Tenants, TenantStep(t), NEW b \in Admins, Confirmed(b)
  PROVE  Confirmed(b)'
<1>1. \A u \in Tenants : Pc(u) \in Ended => Kept(u)
  BY StartsOf, OthersKept
<1> QED BY <1>1, TenantFrame, ConfirmedKept DEF Kept

LEMMA ReaperConfirmed ==
  ASSUME TypeOK, NEW c \in Collectors, Torn(c), ReaperStep(c), \A t \in Tenants : Marked(t),
         NEW b \in Admins, Confirmed(b)
  PROVE  Confirmed(b)'
<1>1. UNCHANGED <<admin, raced, revived, task>>
  BY ReaperMoves
<1>2. ASSUME NEW u \in Tenants
      PROVE  Kept(u) \/ docs'[u] = docs[u] \/ docs'[u].exists = FALSE
  <2>1. ASSUME u = sweep[c].on, Teardown(c) PROVE docs'[u] = docs[u] \/ docs'[u].exists = FALSE
    <3>1. docs' = docs \/ Written(u, FALSE, "unset", FALSE)
      BY <2>1, TeardownMoves
    <3> QED BY <3>1, WrittenTyped
  <2> QED BY <2>1, ReaperKeeps
<1>3. ASSUME NEW u \in Tenants
      PROVE  /\ Pc(u)' = Pc(u)
             /\ docs'[u].exists /\ u \notin revived' =>
                  docs[u].exists /\ u \notin revived /\ docs'[u].tier = docs[u].tier
  BY <1>1, <1>2 DEF Kept, Pc
<1> QED BY <1>1, <1>3, ConfirmedKept

LEMMA ReviveConfirmed ==
  ASSUME TypeOK, NEW t \in Tenants, ReviveStep(t), NEW b \in Admins, Confirmed(b)
  PROVE  Confirmed(b)'
<1>1. UNCHANGED <<admin, raced, task>> /\ revived' = revived \cup {t}
  BY ReviveMoves
<1>2. ASSUME NEW u \in Tenants, u # t PROVE docs'[u] = docs[u]
  BY <1>2, ReviveMoves, WrittenTyped
<1>3. ASSUME NEW u \in Tenants
      PROVE  /\ Pc(u)' = Pc(u)
             /\ docs'[u].exists /\ u \notin revived' =>
                  docs[u].exists /\ u \notin revived /\ docs'[u].tier = docs[u].tier
  BY <1>1, <1>2 DEF Pc
<1> QED BY <1>1, <1>3, ConfirmedKept

LEMMA ClockConfirmed ==
  ASSUME TypeOK, ClockStep, NEW b \in Admins, Confirmed(b)
  PROVE  Confirmed(b)'
<1>1. \A t \in Tenants : Pc(t)' = Pc(t)
  BY ClockKeeps DEF Pc
<1> QED BY <1>1, ClockKeeps, ConfirmedKept

LEMMA TokenedKept ==
  ASSUME NEW t, Tokened(t), Pc(t)' = Pc(t), t \in tokens' => t \in tokens
  PROVE  Tokened(t)'
BY DEF Tokened

\* Once there is an account, the request goes on to its end or is taken back.
LEMMA AfterAccount ==
  ASSUME TypeOK, NEW t \in Tenants, TenantStep(t),
         Pc(t) \notin Early \cup {"db", "tier", "find"}, Pc(t) = "seed" => t \notin Demos
  PROVE  /\ Pc(t)' \in Past \cup {"quota", "session", "origin", "seed"}
         /\ Pc(t)' = "seed" => t \notin Demos
<1> USE DEF Step, Past, Undoing, Undo
<1>1. /\ ~(\E e \in Emails : Register(t, e)) /\ ~BetaCap(t) /\ ~Precheck(t)
      /\ ~RequestDemo(t) /\ ~DemoCap(t) /\ ~Provision(t) /\ ~Database(t) /\ ~Stamp(t) /\ ~FindUser(t)
  BY DEF Early, Register, Arrives, BetaCap, Precheck, RequestDemo, DemoCap, Provision, Database,
    Stamp, FindUser
<1>2. CASE Seed(t)
  <2>1. t \notin Demos
    BY <1>2 DEF Seed
  <2> QED BY <1>2, <2>1, TenantMoves, MovesTyped
<1>3. CASE Insert(t) \/ Quota(t) \/ Origin(t)
  <2>1. Pc(t)' \in {Undo, "quota", "session", "done"}
    BY <1>3, TenantMoves, MovesTyped
  <2> QED BY <2>1
<1>3a. CASE Session(t)
  <2>1. Pc(t)' = IF t \in Demos THEN "origin" ELSE "seed"
    BY <1>3a, TenantMoves, MovesTyped
  <2> QED BY <2>1
<1>4. CASE Fails(t) \/ UndoFails(t) \/ Crash(t)
  <2>1. Pc(t)' \in {Undo, "undo users", "failed", "dead"}
    BY <1>4, TenantMoves, MovesTyped
  <2> QED BY <2>1
<1>5. CASE UndoDoc(t) \/ UndoDb(t) \/ UndoUsers(t) \/ UndoSessions(t)
  <2>1. Pc(t)' \in {"undo db", "undo users", "undo sessions", "failed"}
    BY <1>5, TenantMoves, MovesTyped
  <2> QED BY <2>1
<1> QED BY <1>1, <1>2, <1>3, <1>3a, <1>4, <1>5 DEF TenantStep, SignupStep, DemoStep, Build, Breaks

LEMMA TenantTokened ==
  ASSUME TypeOK, NEW t \in Tenants, TenantStep(t), \A u \in Tenants : Tokened(u), NEW u \in Tenants
  PROVE  Tokened(u)'
<1>1. tokens' = tokens \/ (tokens' = tokens \cup {t} /\ Pc(t) = "insert")
  BY Touches DEF Touched
<1>2. CASE u # t
  <2>1. Pc(u)' = Pc(u)
    BY <1>2, OthersKept DEF Kept
  <2> QED BY <1>1, <1>2, <2>1, TokenedKept
<1>3. CASE u = t
  <2>1. SUFFICES ASSUME t \in tokens' PROVE Tokened(t)'
    BY <1>3 DEF Tokened
  <2>2. Pc(t) \notin Early \cup {"db", "tier", "find"} /\ (Pc(t) = "seed" => t \notin Demos)
    BY <1>1, <2>1 DEF Tokened, Early
  <2>3. /\ Pc(t)' \in Past \cup {"quota", "session", "origin", "seed"}
        /\ Pc(t)' = "seed" => t \notin Demos
    BY <2>2, AfterAccount
  <2> QED BY <2>3 DEF Tokened, Early, Past, Undoing, Undo
<1> QED BY <1>2, <1>3

-----------------------------------------------------------------------------
(* The caps                                                                *)

LEMMA CapsAreNumbers == MaxTenants \in Nat /\ MaxDemos \in Nat
BY OnboardingAssumption

LEMMA WithinShrinks ==
  ASSUME NEW O, NEW C, NEW M \in Nat, IsFiniteSet(C), NEW P \in SUBSET O, NEW D \in SUBSET C
  PROVE  IsFiniteSet(D) /\ (Within(O, C, M) => Within(P, D, M))
<1>1. IsFiniteSet(D) /\ Cardinality(D) <= Cardinality(C)
  BY FS_Subset
<1>2. Cardinality(C) \in Nat /\ Cardinality(D) \in Nat
  BY <1>1, FS_CardinalityType
<1> QED BY <1>1, <1>2 DEF Within

\* A request is let past the cap while no other is on its way.
LEMMA WithinAdmits ==
  ASSUME NEW C, NEW M \in Nat, IsFiniteSet(C), M > 0 => Cardinality(C) < M, NEW t,
         NEW O \in SUBSET {t}
  PROVE  Within(O, C, M)
BY FS_CardinalityType DEF Within

\* A request that owes is counted.
LEMMA WithinCounts ==
  ASSUME NEW O, NEW C, NEW M \in Nat, IsFiniteSet(C), NEW t \in O, NEW P \in SUBSET (O \ {t}),
         NEW x, NEW D \in SUBSET (C \cup {x})
  PROVE  IsFiniteSet(D) /\ (Within(O, C, M) => Within(P, D, M))
<1>1. /\ IsFiniteSet(C \cup {x}) /\ Cardinality(C \cup {x}) \in Nat /\ Cardinality(C) \in Nat
      /\ Cardinality(C \cup {x}) <= Cardinality(C) + 1
  BY FS_AddElement, FS_CardinalityType
<1>2. IsFiniteSet(D) /\ Cardinality(D) <= Cardinality(C \cup {x}) /\ Cardinality(D) \in Nat
  BY <1>1, FS_Subset, FS_CardinalityType
<1>3. Within(O, C, M) /\ M > 0 => P = {} /\ Cardinality(C) < M
  BY DEF Within
<1> QED BY <1>1, <1>2, <1>3 DEF Within

\* Accounts and demos appear in one step each.
LEMMA TenantCounts ==
  ASSUME TypeOK, NEW t \in Tenants, TenantStep(t), Sound(t)
  PROVE  /\ \/ users' \subseteq users
            \/ /\ Pc(t) = "insert" /\ Pc(t)' \in Past \cup {"quota", "session", "origin", "seed"}
               /\ \E u : u.tenant = t /\ users' = users \cup {u}
         /\ \/ ActiveDemos' \subseteq ActiveDemos
            \/ /\ t \in Demos /\ Pc(t) = "origin" /\ Pc(t)' \in Past
               /\ ActiveDemos' \subseteq ActiveDemos \cup {t}
<1>1. \/ users' \subseteq users
      \/ /\ Pc(t) = "insert" /\ Pc(t)' \in Past \cup {"quota", "session", "origin", "seed"}
         /\ \E u : u.tenant = t /\ users' = users \cup {u}
  <2>1. \/ users' \subseteq users
        \/ Pc(t) = "insert" /\ users' = users \cup {NewUser(t)}
    BY Touches DEF Touched, DropUsers
  <2>2. CASE Pc(t) = "insert" /\ users' = users \cup {NewUser(t)}
    <3>1. NewUser(t).tenant = t
      BY DEF NewUser
    <3>2. Pc(t)' \in Past \cup {"quota", "session", "origin", "seed"}
      BY <2>2, AfterAccount DEF Early
    <3> HIDE DEF NewUser
    <3> QED BY <2>2, <3>1, <3>2
  <2> QED BY <2>1, <2>2
<1>2. \/ ActiveDemos' \subseteq ActiveDemos
      \/ /\ t \in Demos /\ Pc(t) = "origin" /\ Pc(t)' \in Past
         /\ ActiveDemos' \subseteq ActiveDemos \cup {t}
  <2>1. CASE /\ Pc(t) = "origin" /\ Pc(t)' \in Past
             /\ Written(t, docs[t].exists, docs[t].tier, docs[t].exists)
    <3>1. t \in Demos
      BY <2>1 DEF Sound, Staged
    <3>2. ActiveDemos' \subseteq ActiveDemos \cup {t}
      BY <2>1, WrittenTyped DEF ActiveDemos
    <3> QED BY <2>1, <3>1, <3>2
  <2>2. ASSUME NEW e, NEW x, Written(t, e, x, FALSE) PROVE ActiveDemos' \subseteq ActiveDemos
    BY <2>2, WrittenTyped DEF ActiveDemos
  <2>3. ASSUME NEW x, Written(t, docs[t].exists, x, docs[t].demo)
        PROVE  ActiveDemos' \subseteq ActiveDemos
    BY <2>3, WrittenTyped DEF ActiveDemos
  <2>4. CASE docs' = docs
    BY <2>4 DEF ActiveDemos
  <2> QED BY <2>1, <2>2, <2>3, <2>4, TenantWrites
<1> QED BY <1>1, <1>2

\* Nobody owes but who owed before, or was just let past the cap.
LEMMA BeginsToOwe ==
  ASSUME TypeOK, NEW t \in Tenants, TenantStep(t)
  PROVE  /\ t \in Signups /\ Pc(t)' \in SignupOwes => Pc(t) \in SignupOwes \/ BetaCap(t)
         /\ t \in Demos /\ Pc(t)' \in DemoOwes => Pc(t) \in DemoOwes \/ DemoCap(t)
<1> USE Disjoint DEF SignupOwes, DemoOwes, Step, Undo
<1>1. CASE (\E e \in Emails : Register(t, e)) \/ (t \in Demos /\ RequestDemo(t))
  <2>1. Pc(t)' \in {"refused", "cap", "count"}
    BY <1>1, TenantMoves, MovesTyped
  <2> QED BY <2>1
<1>2. CASE Precheck(t) /\ t \in Signups
  BY <1>2 DEF Precheck
<1>3. CASE (t \in Signups /\ BetaCap(t)) \/ (t \in Demos /\ DemoCap(t))
  BY <1>3
<1>4. CASE Provision(t) \/ Database(t) \/ Stamp(t)
  BY <1>4 DEF Provision, Database, Stamp
<1>5. CASE Seed(t)
  <2>1. Pc(t) = "seed" /\ (t \in Signups => Pc(t)' = "done")
    BY <1>5, TenantMoves, MovesTyped DEF Seed
  <2> QED BY <2>1
<1>6. CASE FindUser(t)
  <2>1. Pc(t) = "find"
    BY <1>6 DEF FindUser
  <2> QED BY <2>1
<1>7. CASE Insert(t)
  <2>1. Pc(t) = "insert"
    BY <1>7 DEF Insert
  <2> QED BY <2>1
<1>8. CASE Quota(t) \/ Session(t)
  <2>1. Pc(t) \in {"quota", "session"} /\ (t \in Signups => Pc(t)' \in {"session", "seed"})
    BY <1>8, TenantMoves, MovesTyped DEF Quota, Session
  <2> QED BY <2>1
<1>9. CASE \/ UndoDoc(t) \/ UndoDb(t) \/ Breaks(t)
           \/ (t \in Demos /\ (Origin(t) \/ UndoUsers(t) \/ UndoSessions(t)))
  <2>1. Pc(t)' \in Undoing \cup {"done", "failed", "dead"}
    BY <1>9, TenantMoves, MovesTyped DEF Breaks, Undoing
  <2> QED BY <2>1 DEF Undoing
<1> QED BY <1>1, <1>2, <1>3, <1>4, <1>5, <1>6, <1>7, <1>8, <1>9
  DEF TenantStep, SignupStep, DemoStep, Build

\* Whoever is let past a cap finds it not reached, and is alone or noticed.
LEMMA LetPast ==
  ASSUME TypeOK, NEW t \in Tenants
  PROVE  /\ BetaCap(t) /\ Pc(t)' = "email" =>
              /\ MaxTenants > 0 => ~(Cardinality(SelfRegistered) >= MaxTenants)
              /\ crowded' = (crowded \/ \E u \in Signups \ {t} : Uncounted(u))
         /\ DemoCap(t) /\ Pc(t)' = "doc" =>
              /\ MaxDemos > 0 => ~(Cardinality(ActiveDemos) >= MaxDemos)
              /\ crowded' = (crowded \/ \E u \in Demos \ {t} : Uncounted(u))
         /\ BetaCap(t) => Pc(t)' \in {"email", "refused"}
         /\ DemoCap(t) => Pc(t)' \in {"doc", "refused"}
<1>1. Goes(t, "refused") => Pc(t)' = "refused"
  BY GoesMoves, MovesTyped DEF Stages, Ended
<1> QED BY <1>1, TenantMoves, MovesTyped DEF BetaCap, DemoCap, Admit, Full

\* Everybody who owes could be noticed.
LEMMA OwingUncounted ==
  /\ \A s \in OwingSignups : Uncounted(s)
  /\ \A d \in OwingDemos : Uncounted(d)
BY DEF OwingSignups, OwingDemos, SignupOwes, DemoOwes, Uncounted

LEMMA CrowdedStays ==
  ASSUME TypeOK, NEW t \in Tenants, TenantStep(t), crowded
  PROVE  crowded'
<1>1. CASE BetaCap(t) \/ DemoCap(t)
  BY <1>1 DEF BetaCap, DemoCap, Admit
<1>2. CASE \/ (\E e \in Emails : Register(t, e)) \/ Precheck(t)
           \/ RequestDemo(t) \/ Provision(t) \/ Database(t) \/ Stamp(t) \/ Seed(t) \/ FindUser(t)
  BY <1>2 DEF Register, Precheck, RequestDemo, Provision, Database, Stamp, Seed, FindUser, history
<1>3. CASE \/ Insert(t) \/ Quota(t) \/ Session(t) \/ Origin(t) \/ UndoDoc(t) \/ UndoDb(t)
           \/ UndoUsers(t) \/ UndoSessions(t) \/ Breaks(t)
  BY <1>3 DEF Insert, Quota, Session, Origin, UndoDoc, UndoDb, UndoUsers, UndoSessions, Breaks,
    Fails, UndoFails, Crash, history
<1> QED BY <1>1, <1>2, <1>3 DEF TenantStep, SignupStep, DemoStep, Build

LEMMA TenantWithinCaps ==
  ASSUME TypeOK, NEW t \in Tenants, TenantStep(t), Sound(t), WithinCaps
  PROVE  WithinCaps'
<1> DEFINE S == SelfRegistered
           D == ActiveDemos
<1>0. IsFiniteSet(S) /\ IsFiniteSet(D) /\ Cardinality(S) \in Nat /\ Cardinality(D) \in Nat
  BY FS_CardinalityType DEF WithinCaps
<1>1. \A u \in Tenants \ {t} : Pc(u)' = Pc(u)
  BY TenantMovesOn, MovesTyped
<1>2. \A u : u \in OwingSignups' /\ u # t => u \in OwingSignups
  BY <1>1 DEF OwingSignups, Tenants
<1>3. \A u : u \in OwingDemos' /\ u # t => u \in OwingDemos
  BY <1>1 DEF OwingDemos, Tenants
<1>4. /\ IsFiniteSet(S')
      /\ (Within(OwingSignups, S, MaxTenants) /\ ~crowded' => Within(OwingSignups', S', MaxTenants))
  <2>1. CASE t \in Signups /\ BetaCap(t) /\ Pc(t)' = "email"
    <3>1. users' = users
      BY <2>1 DEF BetaCap, rows
    <3>2. S' = S
      BY <3>1 DEF SelfRegistered
    <3>3. ~crowded' => OwingSignups' \subseteq {t}
      BY <1>2, <2>1, LetPast, OwingUncounted DEF OwingSignups
    <3>4. MaxTenants > 0 => Cardinality(S) < MaxTenants
      BY <1>0, <2>1, LetPast, CapsAreNumbers
    <3> QED BY <1>0, <3>2, <3>3, <3>4, WithinAdmits, CapsAreNumbers
  <2>2. CASE ~(t \in Signups /\ BetaCap(t) /\ Pc(t)' = "email")
    <3>1. OwingSignups' \subseteq OwingSignups
      BY <1>2, <2>2, BeginsToOwe, LetPast DEF OwingSignups, SignupOwes
    <3>2. CASE S' \subseteq S
      BY <1>0, <3>1, <3>2, WithinShrinks, CapsAreNumbers
    <3>3. CASE ~(S' \subseteq S)
      <4>1. /\ Pc(t) = "insert" /\ Pc(t)' \in Past \cup {"quota", "session", "origin", "seed"}
            /\ t \in Signups
        BY <3>3, TenantCounts DEF SelfRegistered
      <4>2. PICK u : S' \subseteq S \cup {u}
        BY <3>3, TenantCounts DEF SelfRegistered
      <4>3. t \in OwingSignups /\ OwingSignups' \subseteq OwingSignups \ {t}
        BY <3>1, <4>1 DEF OwingSignups, SignupOwes, Past, Undoing, Undo
      <4>4. /\ OwingSignups' \in SUBSET (OwingSignups \ {t}) /\ S' \in SUBSET (S \cup {u})
            /\ IsFiniteSet(S) /\ MaxTenants \in Nat
        BY <1>0, <4>2, <4>3, CapsAreNumbers
      <4> HIDE DEF S
      <4>5. IsFiniteSet(S') /\ (Within(OwingSignups, S, MaxTenants) => Within(OwingSignups', S', MaxTenants))
        BY ONLY <4>3, <4>4, WithinCounts
      <4> QED BY <4>5
    <3> QED BY <3>2, <3>3
  <2> QED BY <2>1, <2>2
<1>5. /\ IsFiniteSet(D')
      /\ (Within(OwingDemos, D, MaxDemos) /\ ~crowded' => Within(OwingDemos', D', MaxDemos))
  <2>1. CASE t \in Demos /\ DemoCap(t) /\ Pc(t)' = "doc"
    <3>1. docs' = docs
      BY <2>1 DEF DemoCap, rows
    <3>2. D' = D
      BY <3>1 DEF ActiveDemos
    <3>3. ~crowded' => OwingDemos' \subseteq {t}
      BY <1>3, <2>1, LetPast, OwingUncounted DEF OwingDemos
    <3>4. MaxDemos > 0 => Cardinality(D) < MaxDemos
      BY <1>0, <2>1, LetPast, CapsAreNumbers
    <3> QED BY <1>0, <3>2, <3>3, <3>4, WithinAdmits, CapsAreNumbers
  <2>2. CASE ~(t \in Demos /\ DemoCap(t) /\ Pc(t)' = "doc")
    <3>1. OwingDemos' \subseteq OwingDemos
      BY <1>3, <2>2, BeginsToOwe, LetPast DEF OwingDemos, DemoOwes
    <3>2. CASE D' \subseteq D
      BY <1>0, <3>1, <3>2, WithinShrinks, CapsAreNumbers
    <3>3. CASE ~(D' \subseteq D)
      <4>1. /\ t \in Demos /\ Pc(t) = "origin" /\ Pc(t)' \in Past /\ D' \subseteq D \cup {t}
        BY <3>3, TenantCounts
      <4>2. t \in OwingDemos /\ OwingDemos' \subseteq OwingDemos \ {t}
        BY <3>1, <4>1 DEF OwingDemos, DemoOwes, Past, Undoing, Undo
      <4> QED BY <1>0, <4>1, <4>2, WithinCounts, CapsAreNumbers
    <3> QED BY <3>2, <3>3
  <2> QED BY <2>1, <2>2
<1>6. crowded => crowded'
  BY CrowdedStays
<1> QED BY <1>4, <1>5, <1>6 DEF WithinCaps

\* Nobody else lets a request past a cap, and whatever they do makes room at most.
LEMMA OthersWithinCaps ==
  ASSUME TypeOK, WithinCaps, task' = task, crowded' = crowded, users' \subseteq users,
         \A t \in Tenants :
           docs'[t].exists /\ docs'[t].demo => docs[t].exists /\ docs[t].demo
  PROVE  WithinCaps'
<1>1. OwingSignups' = OwingSignups /\ OwingDemos' = OwingDemos
  BY DEF OwingSignups, OwingDemos, Pc
<1>2. SelfRegistered' \subseteq SelfRegistered /\ ActiveDemos' \subseteq ActiveDemos
  BY DEF SelfRegistered, ActiveDemos
<1>3. /\ IsFiniteSet(SelfRegistered')
      /\ Within(OwingSignups, SelfRegistered, MaxTenants)
           => Within(OwingSignups', SelfRegistered', MaxTenants)
  BY <1>1, <1>2, WithinShrinks, CapsAreNumbers DEF WithinCaps
<1>4. /\ IsFiniteSet(ActiveDemos')
      /\ Within(OwingDemos, ActiveDemos, MaxDemos) => Within(OwingDemos', ActiveDemos', MaxDemos)
  BY <1>1, <1>2, WithinShrinks, CapsAreNumbers DEF WithinCaps
<1> QED BY <1>3, <1>4 DEF WithinCaps

LEMMA ReaperWithinCaps ==
  ASSUME TypeOK, WithinCaps, NEW c \in Collectors, Torn(c), ReaperStep(c),
         \A t \in Tenants : Marked(t)
  PROVE  WithinCaps'
<1>1. task' = task /\ crowded' = crowded /\ users' \subseteq users
  BY ReaperMoves, TeardownMoves
<1>2. docs' = docs \/ \E t \in Tenants : \/ Written(t, docs[t].exists, docs[t].tier, docs[t].demo)
                                         \/ Written(t, FALSE, "unset", FALSE)
  BY ReaperMoves, TeardownMoves DEF Tenants
<1>3. \A t \in Tenants : docs'[t].exists /\ docs'[t].demo => docs[t].exists /\ docs[t].demo
  <2>1. ASSUME NEW t \in Tenants, NEW e, NEW x, NEW m, Written(t, e, x, m),
               e /\ m => docs[t].exists /\ docs[t].demo
        PROVE  \A u \in Tenants : docs'[u].exists /\ docs'[u].demo => docs[u].exists /\ docs[u].demo
    <3>1. docs'[t].exists = e /\ docs'[t].demo = m /\ \A u \in Tenants \ {t} : docs'[u] = docs[u]
      BY <2>1, WrittenTyped
    <3> QED BY <2>1, <3>1
  <2>2. ASSUME NEW t \in Tenants, \/ Written(t, docs[t].exists, docs[t].tier, docs[t].demo)
                                 \/ Written(t, FALSE, "unset", FALSE)
        PROVE  \A u \in Tenants : docs'[u].exists /\ docs'[u].demo => docs[u].exists /\ docs[u].demo
    BY <2>1, <2>2
  <2> QED BY <1>2, <2>2
<1> QED BY <1>1, <1>3, OthersWithinCaps

LEMMA ReviveWithinCaps ==
  ASSUME TypeOK, WithinCaps, NEW t \in Tenants, ReviveStep(t)
  PROVE  WithinCaps'
<1>1. UNCHANGED <<task, crowded, users>>
  BY ReviveMoves
<1>2. docs' = docs \/ Written(t, TRUE, "unset", FALSE)
  BY ReviveMoves
<1>3. \A u \in Tenants : docs'[u].exists /\ docs'[u].demo => docs[u].exists /\ docs[u].demo
  BY <1>2, WrittenTyped
<1> QED BY <1>1, <1>3, OthersWithinCaps

LEMMA AdminWithinCaps ==
  ASSUME TypeOK, WithinCaps, NEW a \in Admins, AdminStep(a)
  PROVE  WithinCaps'
<1>1. CASE ConfirmQuota(a) \/ ConfirmFails(a)
  <2>1. UNCHANGED <<task, crowded, users, docs>>
    BY <1>1, QuotaMoves
  <2> QED BY <2>1, OthersWithinCaps
<1>2. ASSUME NEW x \in Tenants, NEW tier \in {"confirmed", "unconfirmed"}, Confirm(a, x, tier)
      PROVE  WithinCaps'
  <2>1. UNCHANGED <<task, crowded, users>> /\ Written(x, docs[x].exists, tier, docs[x].demo)
    BY <1>2, ConfirmMoves
  <2>2. \A u \in Tenants : docs'[u].exists /\ docs'[u].demo => docs[u].exists /\ docs[u].demo
    BY <2>1, WrittenTyped
  <2> QED BY <2>1, <2>2, OthersWithinCaps
<1> QED BY <1>1, <1>2 DEF AdminStep

LEMMA ClockWithinCaps ==
  ASSUME TypeOK, WithinCaps, ClockStep
  PROVE  WithinCaps'
BY ClockKeeps, OthersWithinCaps

-----------------------------------------------------------------------------
(* The invariant                                                           *)

LEMMA InitIInv == Init => IInv
<1> SUFFICES ASSUME Init PROVE IInv
  OBVIOUS
<1>1. TypeOK
  BY DEF Init, TypeOK, Doc, NoDoc, NoAdmin, Tiers, Packs, Stages, NoSweep, Nobody
<1>2. ASSUME NEW t \in Tenants PROVE Sound(t) /\ Tokened(t)
  <2>1. Pc(t) = "new" /\ docs[t] = NoDoc /\ ~HasUser(t) /\ t \notin tokens
    BY DEF Init, Pc, HasUser
  <2> QED BY <2>1 DEF Init, NoDoc, Sound, Staged, Marked, Stamped, Registered, Tokened, Gone, Bare,
    Early, Undo
<1>3. ASSUME NEW c \in Collectors PROVE Torn(c)
  BY DEF Init, Torn, NoSweep, TearingDown
<1>4. ASSUME NEW a \in Admins PROVE Confirmed(a)
  BY DEF Init, Confirmed, NoAdmin
<1>5. WithinCaps
  <2>1. SelfRegistered = {} /\ ActiveDemos = {} /\ OwingSignups = {} /\ OwingDemos = {}
    BY DEF Init, SelfRegistered, ActiveDemos, NoDoc, OwingSignups, OwingDemos, Pc, SignupOwes,
      DemoOwes, Tenants
  <2> QED BY <2>1, FS_EmptySet, CapsAreNumbers DEF WithinCaps, Within
<1> QED BY <1>1, <1>2, <1>3, <1>4, <1>5 DEF IInv

LEMMA StepIInv == IInv /\ [Next]_vars => IInv'
<1> SUFFICES ASSUME IInv, [Next]_vars PROVE IInv'
  OBVIOUS
<1>0. /\ TypeOK /\ WithinCaps
      /\ \A t \in Tenants : Sound(t) /\ Marked(t) /\ Tokened(t)
      /\ \A c \in Collectors : Torn(c)
      /\ \A a \in Admins : Confirmed(a)
  BY DEF IInv, Sound
<1>1. ASSUME NEW t \in Tenants, TenantStep(t) PROVE IInv'
  <2>1. TypeOK' /\ WithinCaps'
    BY <1>0, <1>1, TenantTypes, TenantWithinCaps
  <2>2. (\A u \in Tenants : Sound(u)') /\ \A c \in Collectors : Torn(c)'
    BY <1>0, <1>1, TenantSound
  <2>3. (\A u \in Tenants : Tokened(u)') /\ \A a \in Admins : Confirmed(a)'
    BY <1>0, <1>1, TenantTokened, TenantConfirmed
  <2> QED BY <2>1, <2>2, <2>3 DEF IInv
<1>2. ASSUME NEW c \in Collectors, ReaperStep(c) PROVE IInv'
  <2>1. TypeOK' /\ WithinCaps'
    BY <1>0, <1>2, ReaperTypes, ReaperWithinCaps
  <2>2. (\A u \in Tenants : Sound(u)') /\ \A d \in Collectors : Torn(d)'
    BY <1>0, <1>2, ReaperSound
  <2>3. \A a \in Admins : Confirmed(a)'
    BY <1>0, <1>2, ReaperConfirmed
  <2>4. UNCHANGED <<task, tokens>>
    BY <1>0, <1>2, ReaperMoves
  <2>5. \A u \in Tenants : Tokened(u)'
    BY <1>0, <2>4, TokenedKept DEF Pc
  <2> QED BY <2>1, <2>2, <2>3, <2>5 DEF IInv
<1>3. ASSUME NEW t \in Tenants, ReviveStep(t) PROVE IInv'
  <2>1. TypeOK' /\ WithinCaps'
    BY <1>0, <1>3, ReviveTypes, ReviveWithinCaps
  <2>2. (\A u \in Tenants : Sound(u)') /\ \A c \in Collectors : Torn(c)'
    BY <1>0, <1>3, ReviveSound
  <2>3. \A a \in Admins : Confirmed(a)'
    BY <1>0, <1>3, ReviveConfirmed
  <2>4. UNCHANGED <<task, tokens>>
    BY <1>0, <1>3, ReviveMoves
  <2>5. \A u \in Tenants : Tokened(u)'
    BY <1>0, <2>4, TokenedKept DEF Pc
  <2> QED BY <2>1, <2>2, <2>3, <2>5 DEF IInv
<1>4. ASSUME NEW a \in Admins, AdminStep(a) PROVE IInv'
  <2>1. TypeOK' /\ WithinCaps'
    BY <1>0, <1>4, AdminTypes, AdminWithinCaps
  <2>2. /\ \A u \in Tenants : Sound(u)'
        /\ \A c \in Collectors : Torn(c)'
        /\ \A b \in Admins : Confirmed(b)'
    BY <1>0, <1>4, ConfirmSound, QuotaSound DEF AdminStep
  <2>3. UNCHANGED <<task, tokens>>
    BY <1>0, <1>4, ConfirmMoves, QuotaMoves DEF AdminStep
  <2>4. \A u \in Tenants : Tokened(u)'
    BY <1>0, <2>3, TokenedKept DEF Pc
  <2> QED BY <2>1, <2>2, <2>4 DEF IInv
<1>5. CASE ClockStep
  <2>1. TypeOK' /\ WithinCaps'
    BY <1>0, <1>5, ClockTypes, ClockWithinCaps
  <2>2. (\A u \in Tenants : Sound(u)') /\ \A c \in Collectors : Torn(c)'
    BY <1>0, <1>5, ClockSound
  <2>3. \A a \in Admins : Confirmed(a)'
    BY <1>0, <1>5, ClockConfirmed
  <2>4. UNCHANGED <<task, tokens>>
    BY <1>0, <1>5, ClockKeeps
  <2>5. \A u \in Tenants : Tokened(u)'
    BY <1>0, <2>4, TokenedKept DEF Pc
  <2> QED BY <2>1, <2>2, <2>3, <2>5 DEF IInv
<1>6. CASE UNCHANGED vars
  <2>1. /\ UNCHANGED <<docs, dbs, users, sessions, quotas, packs, tokens, attempts, task, sweep, admin>>
        /\ UNCHANGED <<faults, marred, revived, raced, crowded>>
    BY <1>6 DEF vars, rows, history
  <2>2. TypeOK'
    BY <1>0, <2>1 DEF TypeOK
  <2>3. ASSUME NEW t \in Tenants PROVE Kept(t)
    BY <2>1 DEF Kept, Pc, HasUser
  <2>4. (\A t \in Tenants : Sound(t)') /\ \A c \in Collectors : Torn(c)'
    BY <1>0, <2>1, <2>3, AllKept
  <2>5. (\A t \in Tenants : Tokened(t)') /\ \A a \in Admins : Confirmed(a)'
    BY <1>0, <2>1, TokenedKept, ConfirmedKept DEF Pc
  <2>6. WithinCaps'
    BY <1>0, <2>1, OthersWithinCaps
  <2> QED BY <2>2, <2>4, <2>5, <2>6 DEF IInv
<1> QED BY <1>1, <1>2, <1>3, <1>4, <1>5, <1>6, Steps DEF ReviveStep

\* What is known of tenants, reapers, administrators and caps holds in every state.
THEOREM Invariance == Spec => []IInv
BY InitIInv, StepIInv, PTL DEF Spec

\* Every variable of the sign-ups, the demos and their clean-up keeps its type.
THEOREM TypeCorrect == Spec => []TypeOK
<1>1. IInv => TypeOK
  BY DEF IInv
<1> QED BY Invariance, <1>1, PTL

\* register_tenant stamps the tier before it creates the account and undoes nothing that
\* has one: nobody can log in to a sign-up whose tier is unset or whose document is gone,
\* unless a call failed after it took effect, or the clean-up did.
THEOREM CappedFromTheStart == Spec => []CappedUntilConfirmed
<1>1. IInv => CappedUntilConfirmed
  BY DEF IInv, CappedUntilConfirmed, SelfRegistered, Sound, Registered, HasUser, Tenants
<1> QED BY Invariance, <1>1, PTL

\* The beta cap and the demo cap hold where they are set (0 sets none), whatever fails and
\* whatever is used again after its end, as long as no request passes its check while
\* another is between its own and being counted.
THEOREM CapsAreKept == Spec => []CapsHold
<1>1. IInv => CapsHold
  BY DEF IInv, CapsHold, WithinCaps, Within
<1> QED BY Invariance, <1>1, PTL

\* provision_demo_workspace, its rollback and the reaper leave a demo whole or gone once
\* nobody is at work on it, unless a clean-up failed, or was never reached, or a token of it
\* was used after the end.
THEOREM WholeOrGone == Spec => []DemoAllOrNothing
<1>1. ASSUME IInv, NEW d \in Demos \ (marred \cup revived), Settled(d), \A c \in Collectors : sweep[c].on # d
      PROVE  Whole(d) \/ Gone(d)
  <2>1. Sound(d)
    BY <1>1 DEF IInv, Tenants
  <2>2. Pc(d) \in {"new", "refused", "failed", "dead", "done"}
    BY <1>1 DEF Settled, Ended
  <2> QED BY <1>1, <2>1, <2>2 DEF Sound, Staged, Early, Aside
<1>2. ASSUME IInv, NEW d \in Demos \ (marred \cup revived), Settled(d), \A c \in Collectors : sweep[c].on # d,
             NEW i \in 1..4, NEW j \in 1..4
      PROVE  LET parts == <<docs[d].exists, d \in dbs, d \in sessions, \E u \in users : u.tenant = d>>
             IN  parts[i] = parts[j]
  <2> DEFINE parts == <<docs[d].exists, d \in dbs, d \in sessions, \E u \in users : u.tenant = d>>
  <2>1. docs[d].exists \in BOOLEAN
    BY <1>2 DEF IInv, TypeOK, Doc, Tenants
  <2>0. i \in {1, 2, 3, 4} /\ j \in {1, 2, 3, 4}
    BY <1>2
  <2>2. ASSUME Whole(d) PROVE parts[i] = parts[j]
    <3>1. docs[d].exists = TRUE
      BY <2>1, <2>2 DEF Whole
    <3>2. (d \in dbs) = TRUE /\ (d \in sessions) = TRUE /\ (\E u \in users : u.tenant = d) = TRUE
      BY <2>2 DEF Whole, HasUser
    <3>3. parts[1] = TRUE /\ parts[2] = TRUE /\ parts[3] = TRUE /\ parts[4] = TRUE
      BY <3>1, <3>2
    <3> HIDE DEF parts
    <3> QED BY <2>0, <3>3
  <2>3. ASSUME Gone(d) PROVE parts[i] = parts[j]
    <3>1. docs[d].exists = FALSE
      BY <2>1, <2>3 DEF Gone
    <3>2. (d \in dbs) = FALSE /\ (d \in sessions) = FALSE /\ (\E u \in users : u.tenant = d) = FALSE
      BY <2>3 DEF Gone, Bare, HasUser
    <3>3. parts[1] = FALSE /\ parts[2] = FALSE /\ parts[3] = FALSE /\ parts[4] = FALSE
      BY <3>1, <3>2
    <3> HIDE DEF parts
    <3> QED BY <2>0, <3>3
  <2>4. parts[i] = parts[j]
    BY <1>1, <1>2, <2>2, <2>3
  <2> QED BY <2>4
<1>3. IInv => DemoAllOrNothing
  BY <1>2 DEF DemoAllOrNothing
<1> QED BY Invariance, <1>3, PTL

\* account_tier stamps a quota with every tier: they agree on a tenant whose request came
\* through once no change of its tier is on its way, unless the last one was disturbed, or
\* the tenant was used again after its end.
THEOREM QuotaOfTheTier == Spec => []QuotaFollowsTier
<1>1. ASSUME NEW t PROVE Pending(t) <=> Confirming(t) # {}
  BY DEF Pending, Confirming
<1>2. IInv => QuotaFollowsTier
  BY <1>1 DEF IInv, QuotaFollowsTier, Sound, Stamped
<1> QED BY Invariance, <1>2, PTL
=============================================================================

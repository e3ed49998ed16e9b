--------------------------- MODULE PendingActions ---------------------------
(***************************************************************************)
(* The approval queue of confirmation-gated tool calls:                    *)
(* services/pending_actions.py as driven by the /rpc tools/call handler    *)
(* (create, consume) and by the admin actions router (approve, reject).    *)
(*                                                                         *)
(* A handler task reads the wall clock, awaits one atomic find-and-update  *)
(* and, when nothing matched, awaits a second, diagnostic read.  Other     *)
(* tasks, of this or of another replica, and MongoDB's TTL monitor run     *)
(* between those awaits.  (server, tool, arguments fingerprint) is one     *)
(* abstract Target.                                                        *)
(***************************************************************************)
EXTENDS Naturals, FiniteSets

CONSTANTS
  Users,      \* authenticated principals (requesters and tenant admins)
  Targets,    \* server / tool / arguments-fingerprint triples
  ActionIds,  \* uuid4 values: never issued twice
  Handlers,   \* concurrently running request handlers
  TTL,        \* confirmation_ttl_seconds, after max(1, ...)
  Latency,    \* clock ticks a handler's database awaits may take altogether
  MaxTime     \* bound on the clock, for model checking only

ASSUME TimeAssumption == /\ TTL \in Nat \ {0}
                         /\ Latency \in Nat
                         /\ MaxTime \in Nat
ASSUME PeopleAssumption == Users # {} /\ Targets # {} /\ ActionIds # {}

VARIABLES
  clock,   \* datetime.now(UTC)
  docs,    \* last contents of every document ever inserted
  stored,  \* ids whose document is in the pending_actions collection
  req,     \* what every request handler was asked, and its clock reading
  step,    \* where it is: idle, before its update, before its second read, done
  outcome, \* what it will answer
  uses     \* history: how often an id was consumed successfully

task == <<req, step, outcome>>
vars == <<clock, docs, stored, req, step, outcome, uses>>

Decisions == {"approve", "reject"}
Ops == {"create", "consume"} \cup Decisions
NoUser == "nobody"
NewStatus(op) == IF op = "approve" THEN "approved" ELSE "rejected"

Doc == [status: {"unissued", "pending", "approved", "rejected", "consumed"},
        user: Users, target: Targets, expires: Nat,
        decided_by: Users \cup {NoUser}]

Outcomes == {"none", "confirmation_required", "ok", "not_found", "expired",
             "already_consumed", "not_approved", "mismatch",
             "self_approval_forbidden", "not_pending"}

Steps == {"idle", "update", "diagnose", "done"}
Request == [op: Ops, user: Users, target: Targets, id: ActionIds, now: Nat]

AnyUser == CHOOSE u \in Users : TRUE
AnyTarget == CHOOSE t \in Targets : TRUE
AnyId == CHOOSE i \in ActionIds : TRUE

NoRequest == [op |-> "create", user |-> AnyUser, target |-> AnyTarget,
              id |-> AnyId, now |-> 0]

Unissued == [status |-> "unissued", user |-> AnyUser, target |-> AnyTarget,
             expires |-> 0, decided_by |-> NoUser]

Init == /\ clock = 0
        /\ docs = [i \in ActionIds |-> Unissued]
        /\ stored = {}
        /\ req = [h \in Handlers |-> NoRequest]
        /\ step = [h \in Handlers |-> "idle"]
        /\ outcome = [h \in Handlers |-> "none"]
        /\ uses = [i \in ActionIds |-> 0]

-----------------------------------------------------------------------------
(* Request handlers                                                        *)

\* A handler enters one of the four operations and reads the clock once.
Begin(h, op, u, t, i) ==
  /\ step[h] = "idle"
  /\ req' = [req EXCEPT ![h] = [op |-> op, user |-> u, target |-> t, id |-> i,
                                now |-> clock]]
  /\ step' = [step EXCEPT ![h] = "update"]
  /\ UNCHANGED <<clock, docs, stored, outcome, uses>>

Done(h, o) ==
  /\ step' = [step EXCEPT ![h] = "done"]
  /\ outcome' = [outcome EXCEPT ![h] = o]

Diagnose(h) ==
  /\ step' = [step EXCEPT ![h] = "diagnose"]
  /\ UNCHANGED outcome

\* create_pending_action: insert_one under a fresh uuid.
Create(h) ==
  LET k == req[h] IN
  /\ k.op = "create" /\ step[h] = "update"
  /\ docs[k.id].status = "unissued"
  /\ docs' = [docs EXCEPT ![k.id] = [status |-> "pending", user |-> k.user,
                                     target |-> k.target, expires |-> k.now + TTL,
                                     decided_by |-> NoUser]]
  /\ stored' = stored \cup {k.id}
  /\ Done(h, "confirmation_required")
  /\ UNCHANGED <<clock, req, uses>>

\* Mutant: consume without the status test: a consumed approval is spent again.
ConsumableReplay(k) ==
  /\ k.id \in stored
  /\ docs[k.id].user = k.user
  /\ docs[k.id].target = k.target
  /\ docs[k.id].status \in {"approved", "consumed"}
  /\ docs[k.id].expires > k.now

\* Mutant: consume that relies on the lazy TTL monitor for expiry.
ConsumableStale(k) ==
  /\ k.id \in stored
  /\ docs[k.id].user = k.user
  /\ docs[k.id].target = k.target
  /\ docs[k.id].status = "approved"

\* Mutant: consume that is not bound to the arguments.
ConsumableAnyTarget(k) ==
  /\ k.id \in stored
  /\ docs[k.id].user = k.user
  /\ docs[k.id].status = "approved"
  /\ docs[k.id].expires > k.now

\* The filter of consume_approved_action's find_one_and_update.
Consumable(k) ==
  /\ k.id \in stored
  /\ docs[k.id].user = k.user
  /\ docs[k.id].target = k.target
  /\ docs[k.id].status = "approved"
  /\ docs[k.id].expires > k.now

ConsumeUpdate(h) ==
  LET k == req[h] IN
  /\ k.op = "consume" /\ step[h] = "update"
  /\ IF Consumable(k)
       THEN /\ docs' = [docs EXCEPT ![k.id].status = "consumed"]
            /\ uses' = [uses EXCEPT ![k.id] = @ + 1]
            /\ Done(h, "ok")
       ELSE /\ Diagnose(h)
            /\ UNCHANGED <<docs, uses>>
  /\ UNCHANGED <<clock, stored, req>>

\* What the second read tells a caller whose update matched nothing.
ConsumeReason(k) ==
  IF k.id \notin stored THEN "not_found"
  ELSE IF docs[k.id].expires <= k.now THEN "expired"
  ELSE IF docs[k.id].status = "consumed" THEN "already_consumed"
  ELSE IF docs[k.id].status # "approved" THEN "not_approved"
  ELSE IF docs[k.id].user # k.user \/ docs[k.id].target # k.target THEN "mismatch"
  ELSE "not_approved"

ConsumeDiagnose(h) ==
  /\ req[h].op = "consume" /\ step[h] = "diagnose"
  /\ Done(h, ConsumeReason(req[h]))
  /\ UNCHANGED <<clock, docs, stored, req, uses>>

\* Mutant: decide without the status test: a rejected or spent action is re-decided.
DecidableTwice(k) ==
  /\ k.id \in stored
  /\ docs[k.id].expires > k.now
  /\ docs[k.id].user # k.user

\* The filter of _decide_action's find_one_and_update.
Decidable(k) ==
  /\ k.id \in stored
  /\ docs[k.id].status = "pending"
  /\ docs[k.id].expires > k.now
  /\ docs[k.id].user # k.user

DecideUpdate(h) ==
  LET k == req[h] IN
  /\ k.op \in Decisions /\ step[h] = "update"
  /\ IF Decidable(k)
       THEN /\ docs' = [docs EXCEPT ![k.id].status = NewStatus(k.op),
                                    ![k.id].decided_by = k.user]
            /\ Done(h, "ok")
       ELSE /\ Diagnose(h)
            /\ UNCHANGED docs
  /\ UNCHANGED <<clock, stored, req, uses>>

DecideReason(k) ==
  IF k.id \notin stored THEN "not_found"
  ELSE IF docs[k.id].user = k.user THEN "self_approval_forbidden"
  ELSE IF docs[k.id].expires <= k.now THEN "expired"
  ELSE "not_pending"

DecideDiagnose(h) ==
  /\ req[h].op \in Decisions /\ step[h] = "diagnose"
  /\ Done(h, DecideReason(req[h]))
  /\ UNCHANGED <<clock, docs, stored, req, uses>>

Return(h) ==
  /\ req' = [req EXCEPT ![h] = NoRequest]
  /\ step' = [step EXCEPT ![h] = "idle"]
  /\ outcome' = [outcome EXCEPT ![h] = "none"]
  /\ UNCHANGED <<clock, docs, stored, uses>>

\* The response leaves the gateway; the handler can serve another request.
Reply(h) == step[h] = "done" /\ Return(h)

\* A database call raises before it takes effect: an INTERNAL_ERROR answer.
\* (An update whose acknowledgement is lost is the update, then an error reply.)
Fail(h) == step[h] \in {"update", "diagnose"} /\ Return(h)

-----------------------------------------------------------------------------
(* The environment                                                         *)

\* MongoDB's TTL monitor on expires_at (expireAfterSeconds = 0) sweeps lazily.
TtlDelete(i) ==
  /\ i \in stored /\ docs[i].expires <= clock
  /\ stored' = stored \ {i}
  /\ UNCHANGED <<clock, docs, task, uses>>

\* Time passes; a handler in the database is not slower than Latency.
Tick ==
  /\ clock < MaxTime
  /\ \A h \in Handlers : step[h] \in {"update", "diagnose"}
                           => clock < req[h].now + Latency
  /\ clock' = clock + 1
  /\ UNCHANGED <<docs, stored, task, uses>>

\* A create runs under an id nobody has used; deciding ignores the target.
BeginCreate(h) == \E u \in Users, t \in Targets, i \in ActionIds :
  /\ docs[i].status = "unissued"
  /\ \A g \in Handlers : req[g].op = "create" /\ step[g] = "update" => req[g].id # i
  /\ Begin(h, "create", u, t, i)
BeginConsume(h) == \E u \in Users, t \in Targets, i \in ActionIds :
  Begin(h, "consume", u, t, i)
BeginDecide(h) == \E u \in Users, i \in ActionIds, op \in Decisions :
  Begin(h, op, u, AnyTarget, i)

HandlerStep(h) == \/ Create(h) \/ ConsumeUpdate(h) \/ ConsumeDiagnose(h)
                  \/ DecideUpdate(h) \/ DecideDiagnose(h) \/ Reply(h)

Next == \/ \E h \in Handlers : \/ BeginCreate(h) \/ BeginConsume(h)
                               \/ BeginDecide(h) \/ HandlerStep(h) \/ Fail(h)
        \/ \E i \in ActionIds : TtlDelete(i)
        \/ Tick

Spec == Init /\ [][Next]_vars

-----------------------------------------------------------------------------
(* Properties                                                              *)

TypeOK == /\ clock \in Nat
          /\ docs \in [ActionIds -> Doc]
          /\ stored \subseteq ActionIds
          /\ req \in [Handlers -> Request]
          /\ step \in [Handlers -> Steps]
          /\ outcome \in [Handlers -> Outcomes]
          /\ uses \in [ActionIds -> Nat]

\* An approval is spent at most once, whatever the interleaving of the
\* handlers that re-submit the call (the consume update is the only gate).
SingleUse == \A i \in ActionIds : uses[i] <= 1

\* Second-person control: whatever was consumed had been approved by a user
\* other than its requester, and a rejected action was never consumed.
SecondPerson ==
  \A i \in ActionIds : uses[i] > 0 =>
    /\ docs[i].status = "consumed"
    /\ docs[i].decided_by \in Users
    /\ docs[i].decided_by # docs[i].user

\* A decision is final and a document's terms never change: an id only moves
\* pending -> approved -> consumed or pending -> rejected, and who asked, for
\* what, until when and who decided are fixed once written.
Transitions == {<<"unissued", "pending">>, <<"pending", "approved">>,
                <<"pending", "rejected">>, <<"approved", "consumed">>}
DecisionIsFinal ==
  [][\A i \in ActionIds : docs'[i] # docs[i] =>
       /\ <<docs[i].status, docs'[i].status>> \in Transitions
       /\ docs[i].status # "unissued" =>
            /\ docs'[i].user = docs[i].user
            /\ docs'[i].target = docs[i].target
            /\ docs'[i].expires = docs[i].expires
       /\ docs[i].decided_by # NoUser => docs'[i].decided_by = docs[i].decided_by]_vars

\* Expiry: the clock is read before the awaited update, so an action may be
\* approved or consumed after expires_at, but only within one round trip.
ExpiredIsInert ==
  [][\A i \in ActionIds : docs[i].status # "unissued" /\ docs'[i] # docs[i]
       => clock < docs[i].expires + Latency]_vars

\* What the caller is told is true of the action although it is worked out by
\* a second read: "ok" only for the requester's own target, "mismatch" (the
\* FORBIDDEN answer) only for somebody else's, "already_consumed" only after a
\* consumption, "expired" only past expires_at.
DiagnosisSound ==
  \A h \in Handlers : LET k == req[h]  d == docs[req[h].id] IN
    step[h] = "done" /\ k.op = "consume" =>
      /\ outcome[h] = "ok" => /\ uses[k.id] = 1
                             /\ d.user = k.user /\ d.target = k.target
      /\ outcome[h] = "mismatch" => d.user # k.user \/ d.target # k.target
      /\ outcome[h] = "already_consumed" => uses[k.id] = 1
      /\ outcome[h] = "expired" => d.expires <= clock

=============================================================================

--------------------------- MODULE ToolCallProofs ---------------------------
(***************************************************************************)
(* Proofs about ToolCall, for any number of callers, admins, users, tools  *)
(* and actions, and any number of attempts: what the pipeline promises on  *)
(* confirmation and billing, and that it drives the approval queue and the *)
(* meters only as their own specifications allow.                          *)
(*                                                                         *)
(* None of it is inductive alone.  The stage of a handler says where it is *)
(* in the queue (Linked) and in the meters (Metered) and what has run by   *)
(* then (Tried); QueueInv is the part of the queue's own invariant that    *)
(* "ok" stands for; ReserveInv keeps an id for the call it was given to;   *)
(* SpendInv says that a spent approval has one holder, whose executions    *)
(* are all that ever ran under it.                                         *)
(***************************************************************************)
EXTENDS ToolCall, TLAPS

Handlers == Callers \cup Admins
MeterSteps == {"idle", "quota", "admitted", "ms_usage", "ms_event", "call_usage", "call_event"}
Requests == [surface: {"rpc", "mcp"}, user: Users, target: Targets, confirm: BOOLEAN,
             id: ActionIds \cup {NoId}]

Stages == {"idle", "authz", "quota", "gate", "confirm", "lookup", "execute", "meter",
           "store", "invalidate", "bill", "done"}
Answers == {"none", "ok", "forbidden", "quota_exceeded", "code_disabled",
            "confirmation_required", "timeout", "error", "internal_error"}

TypeOK ==
  /\ load \in Loads
  /\ call \in [Callers -> Requests]
  /\ stage \in [Callers -> Stages] /\ reply \in [Callers -> Answers]
  /\ tries \in [Callers -> Nat] /\ ran \in [Callers -> Nat] /\ billed \in [Callers -> Nat]
  /\ approval \in [Callers -> ActionIds \cup {NoId}]
  /\ runs \in [ActionIds -> Nat]
  /\ mstep \in [Callers -> MeterSteps]

\* What the queue guarantees by itself: the parts of its own invariant that the
\* pipeline relies on.
QueueInv ==
  /\ PA!TypeOK
  /\ \A i \in ActionIds : docs[i].status \in {"approved", "rejected", "consumed"} =>
       docs[i].decided_by \in Users /\ docs[i].decided_by # docs[i].user
  /\ \A h \in Handlers : step[h] = "done" /\ req[h].op = "create" => outcome[h] # "ok"
  /\ \A h \in Handlers : step[h] = "done" /\ req[h].op = "consume" /\ outcome[h] = "ok" =>
       /\ docs[req[h].id].status = "consumed"
       /\ docs[req[h].id].user = req[h].user /\ docs[req[h].id].target = req[h].target

\* Stages before the confirmation gate has been passed.
Before == {"idle", "authz", "quota", "gate", "confirm"}
Charging == {"store", "invalidate"}
Refusals == {"forbidden", "quota_exceeded", "code_disabled", "confirmation_required"}

\* A handler is in the queue only while it is confirming, with its own request;
\* admins only decide.
Linked(h) ==
  /\ step[h] # "idle" => stage[h] = "confirm"
  /\ stage[h] = "confirm" =>
       /\ NeedsConfirmation(h)
       /\ req[h].op = IF call[h].confirm THEN "consume" ELSE "create"
       /\ req[h].user = call[h].user /\ req[h].target = call[h].target
       /\ req[h].id = call[h].id
  /\ stage[h] # "idle" /\ NeedsConfirmation(h) => call[h].id \in ActionIds

LinkInv == /\ \A h \in Callers : Linked(h)
           /\ \A a \in Admins : step[a] # "idle" => req[a].op \in {"approve", "reject"}

\* A call that is to be issued an action has the id for itself until it creates it.
ReserveInv ==
  /\ \A h \in Callers :
       stage[h] \in {"authz", "quota", "gate"} /\ call[h].id \in ActionIds /\ ~call[h].confirm
         => docs[call[h].id].status = "unissued"
  /\ \A g, h \in Callers :
       call[g].id \in ActionIds /\ call[g].id = call[h].id /\ ~call[g].confirm /\ ~call[h].confirm
         => g = h

\* Where the meters of a handler are at every stage, and what it was charged.
Metered(h) ==
  /\ stage[h] \in {"lookup", "execute", "gate", "confirm"} => mstep[h] = "admitted"
  /\ stage[h] \in Charging => mstep[h] = "call_usage"
  /\ stage[h] = "meter" => mstep[h] \in {"ms_usage", "ms_event", "call_usage"}
  /\ stage[h] = "bill" => \/ mstep[h] = "call_usage" /\ billed[h] = 0
                          \/ mstep[h] = "call_event" /\ billed[h] = 1
  /\ stage[h] \notin {"bill", "done"} => billed[h] = 0

\* What an answer says of the charge and of the execution.
Paid(h) ==
  stage[h] = "done" =>
    /\ reply[h] = "ok" => billed[h] = 1
    /\ billed[h] > 0 => reply[h] \in {"ok", "internal_error"}
    /\ reply[h] \in Refusals => approval[h] = NoId /\ ran[h] = 0

\* Nothing has run before the gate, and behind it no more often than was attempted.
Tried(h) ==
  /\ stage[h] \in Before => approval[h] = NoId /\ ran[h] = 0
  /\ stage[h] \in Before \cup {"lookup"} => tries[h] = 0 /\ ran[h] = 0
  /\ stage[h] = "execute" => ran[h] <= tries[h] /\ tries[h] < Attempts
  /\ ran[h] <= Attempts

CallerInv == \A h \in Callers : Metered(h) /\ Paid(h) /\ Tried(h)

\* Who passed the gate of a gated tool holds an approval; it is spent, and its own.
Cleared(h) ==
  NeedsConfirmation(h) /\ (stage[h] \notin Before \cup {"done"} \/ ran[h] > 0) =>
    approval[h] # NoId
Owned(h) ==
  approval[h] # NoId =>
    /\ approval[h] = call[h].id /\ docs[approval[h]].status = "consumed"
    /\ docs[approval[h]].user = call[h].user /\ docs[approval[h]].target = call[h].target

GateInv == \A h \in Callers : Cleared(h) /\ Owned(h)

\* Who has spent action i: it holds the approval, or is about to be told so.
Granted(h) == stage[h] = "confirm" /\ step[h] = "done" /\ call[h].confirm /\ outcome[h] = "ok"
Holds(h, i) == \/ approval[h] = i
               \/ Granted(h) /\ call[h].id = i

\* An approval has one holder at most; whatever ran under it was that holder's.
SpendInv ==
  \A i \in ActionIds :
    /\ runs[i] <= Attempts
    /\ docs[i].status # "consumed" => runs[i] = 0
    /\ \A h \in Callers : Holds(h, i) => docs[i].status = "consumed" /\ runs[i] = ran[h]
    /\ \A g, h \in Callers : Holds(g, i) /\ Holds(h, i) => g = h

IInv == /\ TypeOK /\ QueueInv /\ LinkInv /\ ReserveInv /\ CallerInv /\ GateInv
        /\ SpendInv

-----------------------------------------------------------------------------
(* The approval queue and the meters as the pipeline sees them             *)

USE DEF Handlers

\* The defaults that fill unused fields exist.
LEMMA DefaultsExist ==
  PA!AnyUser \in Users /\ PA!AnyTarget \in Targets /\ PA!AnyId \in ActionIds
BY QueueAssumption DEF PA!AnyUser, PA!AnyTarget, PA!AnyId

\* So does the request of a handler that has none.
LEMMA NoCallIsTyped == NoCall \in Requests
BY DefaultsExist DEF NoCall, Requests

\* A step of the queue by one of its handlers, or by the environment.
Entering(h) == \E op \in PA!Ops, u \in Users, t \in Targets, i \in ActionIds :
                 PA!Begin(h, op, u, t, i)
QueueMove == \/ \E h \in Handlers : Entering(h) \/ PA!HandlerStep(h) \/ PA!Fail(h)
             \/ \E i \in ActionIds : PA!TtlDelete(i)
             \/ PA!Tick
             \/ UNCHANGED queue

\* A create inserts the document of an id that was never issued.
LEMMA CreateEffect ==
  ASSUME PA!TypeOK, NEW h \in Handlers, PA!Create(h)
  PROVE  /\ req[h].op = "create" /\ step[h] = "update" /\ docs[req[h].id].status = "unissued"
         /\ \E d \in PA!Doc : d.status = "pending" /\ docs' = [docs EXCEPT ![req[h].id] = d]
         /\ step' = [step EXCEPT ![h] = "done"]
         /\ outcome' = [outcome EXCEPT ![h] = "confirmation_required"]
         /\ UNCHANGED <<clock, req, uses>> /\ stored' = stored \cup {req[h].id}
<1> DEFINE d == [status |-> "pending", user |-> req[h].user, target |-> req[h].target,
                 expires |-> req[h].now + TTL, decided_by |-> PA!NoUser]
<1>1. d \in PA!Doc
  BY QueueAssumption DEF PA!TypeOK, PA!Request, PA!Doc
<1>2. docs' = [docs EXCEPT ![req[h].id] = d]
  BY DEF PA!Create
<1>3. d.status = "pending"
  OBVIOUS
<1> HIDE DEF d
<1> QED BY <1>1, <1>2, <1>3 DEF PA!Create, PA!Done

\* The update of a consume spends an approval of the caller's own, or changes nothing.
LEMMA ConsumeEffect ==
  ASSUME PA!TypeOK, NEW h \in Handlers, PA!ConsumeUpdate(h)
  PROVE  LET old == docs[req[h].id] IN
         /\ req[h].op = "consume" /\ step[h] = "update" /\ UNCHANGED <<clock, stored, req>>
         /\ \/ /\ old.status = "approved"
               /\ old.user = req[h].user /\ old.target = req[h].target
               /\ \E d \in PA!Doc :
                    /\ d.status = "consumed" /\ d.user = old.user /\ d.target = old.target
                    /\ d.decided_by = old.decided_by
                    /\ docs' = [docs EXCEPT ![req[h].id] = d]
               /\ uses' = [uses EXCEPT ![req[h].id] = @ + 1]
               /\ step' = [step EXCEPT ![h] = "done"]
               /\ outcome' = [outcome EXCEPT ![h] = "ok"]
            \/ /\ UNCHANGED <<docs, uses, outcome>>
               /\ step' = [step EXCEPT ![h] = "diagnose"]
<1> DEFINE old == docs[req[h].id]
           d == [old EXCEPT !.status = "consumed"]
<1>1. CASE PA!Consumable(req[h])
  <2>1. old \in PA!Doc
    BY DEF PA!TypeOK, PA!Request
  <2>2. /\ d \in PA!Doc /\ d.status = "consumed" /\ d.user = old.user
        /\ d.target = old.target /\ d.decided_by = old.decided_by
    BY <2>1 DEF PA!Doc
  <2>3. docs' = [docs EXCEPT ![req[h].id] = d]
    BY <1>1 DEF PA!ConsumeUpdate
  <2> HIDE DEF d
  <2> QED BY <1>1, <2>2, <2>3 DEF PA!ConsumeUpdate, PA!Consumable, PA!Done
<1>2. CASE ~PA!Consumable(req[h])
  BY <1>2 DEF PA!ConsumeUpdate, PA!Diagnose
<1> QED BY <1>1, <1>2

\* A second read never ends in "ok".
LEMMA DiagnoseEffect ==
  ASSUME PA!TypeOK, NEW h \in Handlers, PA!ConsumeDiagnose(h) \/ PA!DecideDiagnose(h)
  PROVE  /\ step[h] = "diagnose" /\ UNCHANGED <<clock, docs, stored, req, uses>>
         /\ step' = [step EXCEPT ![h] = "done"]
         /\ \E o \in PA!Outcomes \ {"ok"} : outcome' = [outcome EXCEPT ![h] = o]
<1>1. PA!ConsumeReason(req[h]) \in PA!Outcomes \ {"ok"}
  BY DEF PA!ConsumeReason, PA!Outcomes
<1>2. PA!DecideReason(req[h]) \in PA!Outcomes \ {"ok"}
  BY DEF PA!DecideReason, PA!Outcomes
<1> QED BY <1>1, <1>2 DEF PA!ConsumeDiagnose, PA!DecideDiagnose, PA!Done

\* A decision is taken by somebody else, of a pending action, or changes nothing.
LEMMA DecideEffect ==
  ASSUME PA!TypeOK, NEW h \in Handlers, PA!DecideUpdate(h)
  PROVE  LET old == docs[req[h].id] IN
         /\ req[h].op \in {"approve", "reject"} /\ step[h] = "update"
         /\ UNCHANGED <<clock, stored, req, uses>>
         /\ \/ /\ old.status = "pending" /\ old.user # req[h].user
               /\ \E d \in PA!Doc :
                    /\ d.status \in {"approved", "rejected"} /\ d.user = old.user
                    /\ d.decided_by = req[h].user
                    /\ docs' = [docs EXCEPT ![req[h].id] = d]
               /\ step' = [step EXCEPT ![h] = "done"]
               /\ outcome' = [outcome EXCEPT ![h] = "ok"]
            \/ /\ UNCHANGED <<docs, outcome>>
               /\ step' = [step EXCEPT ![h] = "diagnose"]
<1> DEFINE old == docs[req[h].id]
           d == [old EXCEPT !.status = PA!NewStatus(req[h].op), !.decided_by = req[h].user]
<1>1. CASE PA!Decidable(req[h])
  <2>1. old \in PA!Doc /\ req[h].user \in Users
    BY DEF PA!TypeOK, PA!Request
  <2>2. PA!NewStatus(req[h].op) \in {"approved", "rejected"}
    BY DEF PA!NewStatus
  <2>3. /\ d \in PA!Doc /\ d.status \in {"approved", "rejected"} /\ d.user = old.user
        /\ d.decided_by = req[h].user
    BY <2>1, <2>2 DEF PA!Doc
  <2>4. docs' = [docs EXCEPT ![req[h].id] = d]
    BY <1>1, <2>1 DEF PA!DecideUpdate, PA!Doc
  <2> HIDE DEF d
  <2> QED BY <1>1, <2>3, <2>4 DEF PA!DecideUpdate, PA!Decidable, PA!Done, PA!Decisions
<1>2. CASE ~PA!Decidable(req[h])
  BY <1>2 DEF PA!DecideUpdate, PA!Diagnose, PA!Decisions
<1> QED BY <1>1, <1>2

\* An answered, or failed, request leaves the handler idle.
LEMMA ReturnEffect ==
  ASSUME PA!TypeOK, NEW h \in Handlers, PA!Reply(h) \/ PA!Fail(h)
  PROVE  /\ step[h] # "idle" /\ UNCHANGED <<clock, docs, stored, uses>>
         /\ req' = [req EXCEPT ![h] = PA!NoRequest]
         /\ step' = [step EXCEPT ![h] = "idle"] /\ outcome' = [outcome EXCEPT ![h] = "none"]
BY DEF PA!Reply, PA!Fail, PA!Return

\* A handler enters the queue with the request it was given.
LEMMA BeginEffect ==
  ASSUME PA!TypeOK, NEW h \in Handlers, NEW op \in PA!Ops, NEW u \in Users,
         NEW t \in Targets, NEW i \in ActionIds, PA!Begin(h, op, u, t, i)
  PROVE  /\ step[h] = "idle" /\ UNCHANGED <<clock, docs, stored, outcome, uses>>
         /\ step' = [step EXCEPT ![h] = "update"]
         /\ \E k \in PA!Request : /\ k.op = op /\ k.user = u /\ k.target = t /\ k.id = i
                                 /\ req' = [req EXCEPT ![h] = k]
<1> DEFINE k == [op |-> op, user |-> u, target |-> t, id |-> i, now |-> clock]
<1>1. k \in PA!Request /\ k.op = op /\ k.user = u /\ k.target = t /\ k.id = i
  BY DEF PA!TypeOK, PA!Request
<1>2. req' = [req EXCEPT ![h] = k]
  BY DEF PA!Begin
<1> HIDE DEF k
<1> QED BY <1>1, <1>2 DEF PA!Begin

\* Who acts on the queue changes nothing of the other handlers.
LEMMA QueueFrame ==
  ASSUME PA!TypeOK, NEW h \in Handlers, Entering(h) \/ PA!HandlerStep(h) \/ PA!Fail(h)
  PROVE  \A g \in Handlers \ {h} :
           req'[g] = req[g] /\ step'[g] = step[g] /\ outcome'[g] = outcome[g]
<1> USE DEF PA!TypeOK
<1>1. CASE Entering(h)
  BY <1>1, BeginEffect DEF Entering
<1>2. CASE PA!Create(h)
  BY <1>2, CreateEffect
<1>3. CASE PA!ConsumeUpdate(h)
  BY <1>3, ConsumeEffect
<1>4. CASE PA!ConsumeDiagnose(h) \/ PA!DecideDiagnose(h)
  BY <1>4, DiagnoseEffect
<1>5. CASE PA!DecideUpdate(h)
  BY <1>5, DecideEffect
<1>6. CASE PA!Reply(h) \/ PA!Fail(h)
  BY <1>6, ReturnEffect
<1> QED BY <1>1, <1>2, <1>3, <1>4, <1>5, <1>6 DEF PA!HandlerStep

\* A document that is spent stays as it is; an id that was never issued stays so, unless
\* the handler that has it reserved inserts the document.
LEMMA DocsMove ==
  ASSUME PA!TypeOK, QueueMove, NEW i \in ActionIds
  PROVE  /\ docs[i].status = "consumed" => docs'[i] = docs[i]
         /\ docs[i].status = "unissued" =>
              \/ docs'[i] = docs[i]
              \/ \E h \in Handlers : PA!Create(h) /\ req[h].id = i
         /\ docs'[i].status = "consumed" /\ docs[i].status # "consumed" =>
              \E h \in Handlers : PA!ConsumeUpdate(h) /\ req[h].id = i
<1> USE DEF PA!TypeOK
<1>0. \A h \in Handlers : req[h].id \in ActionIds
  BY DEF PA!Request
<1>1. ASSUME UNCHANGED docs PROVE docs'[i] = docs[i]
  BY <1>1
<1>2. ASSUME NEW h \in Handlers, PA!Create(h)
      PROVE  /\ docs[i].status = "consumed" => docs'[i] = docs[i]
             /\ docs[i].status = "unissued" => docs'[i] = docs[i] \/ req[h].id = i
             /\ docs'[i].status = "consumed" => docs[i].status = "consumed"
  BY <1>0, <1>2, CreateEffect
<1>3. ASSUME NEW h \in Handlers, PA!ConsumeUpdate(h)
      PROVE  /\ docs[i].status \in {"consumed", "unissued"} => docs'[i] = docs[i]
             /\ docs'[i].status = "consumed" => docs[i].status = "consumed" \/ req[h].id = i
  BY <1>0, <1>3, ConsumeEffect
<1>4. ASSUME NEW h \in Handlers, PA!DecideUpdate(h)
      PROVE  /\ docs[i].status \in {"consumed", "unissued"} => docs'[i] = docs[i]
             /\ docs'[i].status = "consumed" => docs[i].status = "consumed"
  BY <1>0, <1>4, DecideEffect
<1>5. CASE \E h \in Handlers : Entering(h) \/ PA!ConsumeDiagnose(h) \/ PA!DecideDiagnose(h)
                                \/ PA!Reply(h) \/ PA!Fail(h)
  BY <1>1, <1>5, BeginEffect, DiagnoseEffect, ReturnEffect DEF Entering
<1>6. CASE PA!Tick \/ (\E k \in ActionIds : PA!TtlDelete(k)) \/ UNCHANGED queue
  BY <1>1, <1>6 DEF PA!Tick, PA!TtlDelete, queue
<1> QED
  BY <1>2, <1>3, <1>4, <1>5, <1>6 DEF QueueMove, PA!HandlerStep

\* The queue stays well formed.
LEMMA QueueTypeStep == PA!TypeOK /\ QueueMove => PA!TypeOK'
<1> SUFFICES ASSUME PA!TypeOK, QueueMove PROVE PA!TypeOK'
  OBVIOUS
<1> USE DefaultsExist DEF PA!TypeOK, PA!Steps
<1>1. ASSUME NEW h \in Handlers, Entering(h) PROVE PA!TypeOK'
  BY <1>1, BeginEffect DEF Entering
<1>2. ASSUME NEW h \in Handlers, PA!Create(h) PROVE PA!TypeOK'
  <2>1. PICK d \in PA!Doc : docs' = [docs EXCEPT ![req[h].id] = d]
    BY <1>2, CreateEffect
  <2>2. req[h].id \in ActionIds
    BY DEF PA!Request
  <2> QED BY <1>2, <2>1, <2>2, CreateEffect DEF PA!Outcomes
<1>3. ASSUME NEW h \in Handlers, PA!ConsumeUpdate(h) PROVE PA!TypeOK'
  <2>1. req[h].id \in ActionIds
    BY DEF PA!Request
  <2>2. docs' \in [ActionIds -> PA!Doc]
    BY <1>3, <2>1, ConsumeEffect
  <2>3. uses' \in [ActionIds -> Nat]
    BY <1>3, <2>1, ConsumeEffect
  <2> QED BY <1>3, <2>1, <2>2, <2>3, ConsumeEffect DEF PA!Outcomes
<1>4. ASSUME NEW h \in Handlers, PA!ConsumeDiagnose(h) \/ PA!DecideDiagnose(h)
      PROVE  PA!TypeOK'
  <2>1. PICK o \in PA!Outcomes \ {"ok"} : outcome' = [outcome EXCEPT ![h] = o]
    BY <1>4, DiagnoseEffect
  <2> QED BY <1>4, <2>1, DiagnoseEffect
<1>5. ASSUME NEW h \in Handlers, PA!DecideUpdate(h) PROVE PA!TypeOK'
  <2>1. req[h].id \in ActionIds
    BY DEF PA!Request
  <2>3. docs' \in [ActionIds -> PA!Doc]
    BY <1>5, <2>1, DecideEffect
  <2> QED BY <1>5, <2>3, DecideEffect DEF PA!Outcomes
<1>6. ASSUME NEW h \in Handlers, PA!Reply(h) \/ PA!Fail(h) PROVE PA!TypeOK'
  <2>1. PA!NoRequest \in PA!Request
    BY DEF PA!NoRequest, PA!Request, PA!Ops
  <2> QED BY <1>6, <2>1, ReturnEffect DEF PA!Outcomes
<1>7. CASE PA!Tick \/ (\E k \in ActionIds : PA!TtlDelete(k)) \/ UNCHANGED queue
  BY <1>7 DEF PA!Tick, PA!TtlDelete, PA!task, queue
<1> QED
  BY <1>1, <1>2, <1>3, <1>4, <1>5, <1>6, <1>7 DEF QueueMove, PA!HandlerStep

\* What the queue guarantees by itself is kept by every step of it.
LEMMA QueueStep == QueueInv /\ QueueMove => QueueInv'
<1> SUFFICES ASSUME QueueInv, QueueMove PROVE QueueInv'
  OBVIOUS
<1> DEFINE Decided(i) == docs[i].status \in {"approved", "rejected", "consumed"} =>
                           docs[i].decided_by \in Users /\ docs[i].decided_by # docs[i].user
           Told(h) ==
             step[h] = "done" =>
               /\ req[h].op = "create" => outcome[h] # "ok"
               /\ req[h].op = "consume" /\ outcome[h] = "ok" =>
                    /\ docs[req[h].id].status = "consumed"
                    /\ docs[req[h].id].user = req[h].user
                    /\ docs[req[h].id].target = req[h].target
<1>0. /\ PA!TypeOK /\ PA!TypeOK'
      /\ \A h \in Handlers : req[h].id \in ActionIds /\ req[h].user \in Users
  BY QueueTypeStep DEF QueueInv, PA!TypeOK, PA!Request
<1>1. \A i \in ActionIds : Decided(i)'
  <2> SUFFICES ASSUME NEW i \in ActionIds PROVE Decided(i)'
    OBVIOUS
  <2>0. Decided(i)
    BY DEF QueueInv
  <2>1. CASE docs'[i] = docs[i]
    BY <2>0, <2>1
  <2>2. ASSUME NEW h \in Handlers, PA!Create(h) PROVE Decided(i)'
    BY <1>0, <2>0, <2>2, CreateEffect DEF PA!TypeOK
  <2>3. ASSUME NEW h \in Handlers, PA!ConsumeUpdate(h) PROVE Decided(i)'
    BY <1>0, <2>0, <2>3, ConsumeEffect DEF PA!TypeOK
  <2>4. ASSUME NEW h \in Handlers, PA!DecideUpdate(h) PROVE Decided(i)'
    BY <1>0, <2>0, <2>4, DecideEffect DEF PA!TypeOK
  <2>5. CASE \E h \in Handlers : Entering(h) \/ PA!ConsumeDiagnose(h) \/ PA!DecideDiagnose(h)
                                  \/ PA!Reply(h) \/ PA!Fail(h)
    BY <1>0, <2>1, <2>5, BeginEffect, DiagnoseEffect, ReturnEffect DEF Entering
  <2>6. CASE PA!Tick \/ (\E k \in ActionIds : PA!TtlDelete(k)) \/ UNCHANGED queue
    BY <2>1, <2>6 DEF PA!Tick, PA!TtlDelete, queue
  <2> QED BY <2>2, <2>3, <2>4, <2>5, <2>6 DEF QueueMove, PA!HandlerStep
<1>2. \A g \in Handlers : Told(g)'
  <2> SUFFICES ASSUME NEW g \in Handlers PROVE Told(g)'
    OBVIOUS
  <2>0. /\ Told(g) /\ req[g].id \in ActionIds
        /\ docs[req[g].id].status = "consumed" => docs'[req[g].id] = docs[req[g].id]
    BY <1>0, DocsMove DEF QueueInv
  <2>1. CASE step'[g] = step[g] /\ req'[g] = req[g] /\ outcome'[g] = outcome[g]
    BY <2>0, <2>1
  <2>2. ASSUME NEW h \in Handlers, h # g, Entering(h) \/ PA!HandlerStep(h) \/ PA!Fail(h)
        PROVE  Told(g)'
    BY <1>0, <2>1, <2>2, QueueFrame
  <2>3. CASE Entering(g)
    BY <1>0, <2>3, BeginEffect DEF Entering, PA!TypeOK
  <2>4. CASE PA!Create(g)
    BY <1>0, <2>4, CreateEffect DEF PA!TypeOK
  <2>5. CASE PA!ConsumeUpdate(g)
    BY <1>0, <2>5, ConsumeEffect DEF PA!TypeOK
  <2>6. CASE PA!ConsumeDiagnose(g) \/ PA!DecideDiagnose(g)
    BY <1>0, <2>6, DiagnoseEffect DEF PA!TypeOK
  <2>7. CASE PA!DecideUpdate(g)
    BY <1>0, <2>7, DecideEffect DEF PA!TypeOK
  <2>8. CASE PA!Reply(g) \/ PA!Fail(g)
    BY <1>0, <2>8, ReturnEffect DEF PA!TypeOK
  <2>9. CASE PA!Tick \/ (\E k \in ActionIds : PA!TtlDelete(k)) \/ UNCHANGED queue
    BY <2>1, <2>9 DEF PA!Tick, PA!TtlDelete, PA!task, queue
  <2> QED
    BY <2>2, <2>3, <2>4, <2>5, <2>6, <2>7, <2>8, <2>9 DEF QueueMove, PA!HandlerStep
<1> QED BY <1>0, <1>1, <1>2 DEF QueueInv

\* What every step of the metering service does to where the handler is in it.
LEMMA MeterMoves ==
  ASSUME NEW h \in Callers, mstep \in [Callers -> MeterSteps]
  PROVE  /\ \A ms : UM!CheckUsage(h, ms) => mstep' = [mstep EXCEPT ![h] = "quota"]
         /\ UM!CheckQuota(h) =>
              mstep' = [mstep EXCEPT ![h] = IF UM!Admissible(h) THEN "admitted" ELSE "idle"]
         /\ UM!Unbilled(h) \/ UM!EmitCall(h) \/ UM!Fault(h) =>
              mstep' = [mstep EXCEPT ![h] = "idle"]
         /\ UM!Answered(h) => mstep' = [mstep EXCEPT ![h] = "call_usage"]
         /\ UM!SandboxRan(h) => \E s \in {"ms_usage", "call_usage"} :
                                  mstep' = [mstep EXCEPT ![h] = s]
         /\ UM!RecordMs(h) => mstep' = [mstep EXCEPT ![h] = "ms_event"]
         /\ UM!EmitMs(h) => mstep' = [mstep EXCEPT ![h] = "call_usage"]
         /\ UM!RecordCall(h) => /\ mstep[h] = "call_usage"
                                /\ mstep' = [mstep EXCEPT ![h] = "call_event"]
         /\ UM!EmitCall(h) => mstep[h] = "call_event"
<1>1. UM!SandboxRan(h) => \E s \in {"ms_usage", "call_usage"} :
                            mstep' = [mstep EXCEPT ![h] = s]
  BY DEF UM!SandboxRan, UM!GoTo
<1> QED
  BY <1>1 DEF UM!CheckUsage, UM!CheckQuota, UM!Unbilled, UM!EmitCall, UM!Fault, UM!Answered,
     UM!RecordMs, UM!EmitMs, UM!RecordCall, UM!GoTo, UM!End

-----------------------------------------------------------------------------
(* The steps of the pipeline                                               *)

\* The request that arrives: well formed; if it is to be issued an action, the id is free.
LEMMA StartEffect ==
  ASSUME TypeOK, NEW h \in Callers, Start(h)
  PROVE  /\ stage[h] = "idle" /\ stage' = [stage EXCEPT ![h] = "authz"]
         /\ UNCHANGED <<queue, meters, config, tries, reply, approval, ran, billed, runs>>
         /\ \E k \in Requests :
              /\ call' = [call EXCEPT ![h] = k]
              /\ k.surface = "rpc" /\ k.target \in Gated => k.id \in ActionIds
              /\ k.id \in ActionIds /\ ~k.confirm =>
                   /\ docs[k.id].status = "unissued"
                   /\ \A g \in Callers : call[g].id = k.id => call[g].confirm
<1>1. PICK s \in load.surfaces, u \in load.users, t \in load.targets, c \in BOOLEAN,
           i \in ActionIds \cup {NoId} :
        /\ stage[h] = "idle" /\ h \in load.callers
        /\ IF s = "rpc" /\ t \in Gated
             THEN /\ i # NoId
                  /\ ~c => /\ docs[i].status = "unissued"
                           /\ \A g \in Callers : call[g].id = i => call[g].confirm
             ELSE i = NoId /\ ~c
        /\ call' = [call EXCEPT ![h] = [surface |-> s, user |-> u, target |-> t,
                                        confirm |-> c, id |-> i]]
        /\ GoTo(h, "authz")
        /\ UNCHANGED <<queue, meters, config, cache, tries, approval, ran, billed, runs>>
  BY Zenon DEF Start
<1> DEFINE k == [surface |-> s, user |-> u, target |-> t, confirm |-> c, id |-> i]
<1>2. k \in Requests
  BY ToolAssumption DEF Requests, TypeOK
<1>3. /\ k.surface = "rpc" /\ k.target \in Gated => k.id \in ActionIds
      /\ k.id \in ActionIds /\ ~k.confirm =>
           /\ docs[k.id].status = "unissued"
           /\ \A g \in Callers : call[g].id = k.id => call[g].confirm
  BY <1>1, QueueAssumption
<1>4. call' = [call EXCEPT ![h] = k]
  BY <1>1
<1>5. /\ stage[h] = "idle" /\ stage' = [stage EXCEPT ![h] = "authz"]
      /\ UNCHANGED <<queue, meters, config, tries, reply, approval, ran, billed, runs>>
  BY DEF Start, GoTo
<1> HIDE DEF k
<1> QED BY <1>2, <1>3, <1>4, <1>5

\* What a caller holds, outside the queue.
Mine(g) == <<call[g], stage[g], tries[g], reply[g], approval[g], ran[g], billed[g], mstep[g]>>

\* No caller touches what another caller holds.
LEMMA CallerFrame ==
  ASSUME TypeOK, NEW h \in Callers, Start(h) \/ CallerStep(h) \/ DbFault(h),
         NEW g \in Callers, g # h
  PROVE  Mine(g)' = Mine(g)
<1> USE DEF TypeOK, Mine, GoTo, Answer
<1>0. ASSUME NEW s, mstep' = [mstep EXCEPT ![h] = s] PROVE mstep'[g] = mstep[g]
  BY <1>0
<1>1. CASE Start(h) \/ Forbid(h) \/ CacheMiss(h) \/ Store(h) \/ Invalidate(h) \/ Return(h)
  BY <1>1 DEF Start, Forbid, CacheMiss, Store, Invalidate, Return, meters
<1>2. CASE CheckUsage(h) \/ CheckQuota(h)
  BY <1>2, MeterMoves DEF CheckUsage, CheckQuota
<1>3. CASE CodeDisabled(h) \/ DbFault(h)
  BY <1>3, MeterMoves DEF CodeDisabled, DbFault
<1>4. CASE Confirm(h) \/ ConfirmStep(h)
  BY <1>4 DEF Confirm, ConfirmStep, local, meters
<1>5. CASE Confirmed(h)
  BY <1>5, MeterMoves DEF Confirmed, meters
<1>6. CASE CacheHit(h) \/ AttemptOk(h)
  BY <1>6, MeterMoves DEF CacheHit, AttemptOk, Executed
<1>7. CASE NotCallable(h) \/ AttemptProtocolError(h)
  BY <1>7, MeterMoves DEF NotCallable, AttemptProtocolError, GiveUp, Executed, NotExecuted
<1>8. CASE AttemptFailed(h)
  BY <1>8, MeterMoves DEF AttemptFailed, GiveUp, Executed, NotExecuted, meters
<1>9. CASE RunCode(h)
  BY <1>9, MeterMoves DEF RunCode, GiveUp, Executed
<1>10. CASE MeterStep(h)
  BY <1>10, MeterMoves DEF MeterStep, GiveUp, NotExecuted, local, meters
<1>11. CASE Bill(h)
  BY <1>11, MeterMoves DEF Bill
<1> QED
  BY <1>1, <1>2, <1>3, <1>4, <1>5, <1>6, <1>7, <1>8, <1>9, <1>10, <1>11 DEF CallerStep

\* Admins and the environment touch nothing a caller holds.
LEMMA OthersFrame ==
  ASSUME (\E a \in Admins : AdminStep(a)) \/ Environment \/ UNCHANGED vars
  PROVE  UNCHANGED <<local, load, codeOn, mstep>>
BY DEF AdminStep, Environment, CacheExpire, UM!SetQuota, UM!Rollover, UM!locals, meters,
       config, vars

\* Every step does one step, or none, of the queue: a caller its own ...
LEMMA CallerInQueue ==
  ASSUME TypeOK, NEW h \in Callers, Linked(h), Start(h) \/ CallerStep(h) \/ DbFault(h)
  PROVE  Entering(h) \/ PA!HandlerStep(h) \/ PA!Fail(h) \/ UNCHANGED queue
<1>1. CASE Confirm(h)
  <2>1. CASE NeedsConfirmation(h)
    <3>1. call[h].user \in Users /\ call[h].target \in Targets /\ call[h].id \in ActionIds
      BY <1>1, <2>1 DEF TypeOK, Requests, Linked, Confirm
    <3>2. PA!Begin(h, IF call[h].confirm THEN "consume" ELSE "create",
                   call[h].user, call[h].target, call[h].id)
      BY <1>1, <2>1 DEF Confirm
    <3>3. (IF call[h].confirm THEN "consume" ELSE "create") \in PA!Ops
      BY DEF PA!Ops
    <3> QED BY <3>1, <3>2, <3>3 DEF Entering
  <2> QED BY <1>1, <2>1 DEF Confirm
<1>2. CASE ConfirmStep(h) \/ Confirmed(h) \/ DbFault(h)
  BY <1>2 DEF ConfirmStep, Confirmed, DbFault, PA!HandlerStep
<1>3. CASE Start(h)
  BY <1>3, StartEffect
<1>4. CASE \/ Forbid(h) \/ CheckUsage(h) \/ CheckQuota(h) \/ CodeDisabled(h) \/ CacheHit(h)
           \/ CacheMiss(h) \/ NotCallable(h) \/ AttemptOk(h) \/ AttemptProtocolError(h)
           \/ AttemptFailed(h) \/ RunCode(h) \/ MeterStep(h) \/ Store(h) \/ Invalidate(h)
           \/ Bill(h) \/ Return(h)
  BY <1>4 DEF Forbid, CheckUsage, CheckQuota, CodeDisabled, CacheHit, CacheMiss,
     NotCallable, AttemptOk, AttemptProtocolError, AttemptFailed, RunCode, MeterStep, Store,
     Invalidate, Bill, Return, GiveUp
<1> QED BY <1>1, <1>2, <1>3, <1>4 DEF CallerStep

\* ... an admin its own, which begins with a decision if it begins anything;
LEMMA AdminInQueue ==
  ASSUME NEW a \in Admins, AdminStep(a)
  PROVE  \/ \E op \in {"approve", "reject"}, u \in Users, i \in ActionIds :
              PA!Begin(a, op, u, PA!AnyTarget, i)
         \/ PA!DecideUpdate(a) \/ PA!DecideDiagnose(a) \/ PA!Reply(a) \/ PA!Fail(a)
<1>1. ASSUME PA!BeginDecide(a)
      PROVE  \E op \in {"approve", "reject"}, u \in Users, i \in ActionIds :
               PA!Begin(a, op, u, PA!AnyTarget, i)
  BY <1>1, Zenon DEF PA!BeginDecide, PA!Decisions
<1> QED BY <1>1 DEF AdminStep

\* so an admin, too, takes a step of a handler of the queue;
LEMMA AdminEnters ==
  ASSUME NEW a \in Admins, AdminStep(a)
  PROVE  Entering(a) \/ PA!HandlerStep(a) \/ PA!Fail(a)
BY AdminInQueue, DefaultsExist DEF Entering, PA!HandlerStep, PA!Ops, PA!Decisions

\* and the environment does none that a handler or a document would notice.
LEMMA OthersInQueue ==
  ASSUME Environment \/ UNCHANGED vars
  PROVE  /\ \/ PA!Tick \/ (\E i \in ActionIds : PA!TtlDelete(i)) \/ UNCHANGED queue
         /\ UNCHANGED <<docs, req, step, outcome>>
BY DEF Environment, CacheExpire, PA!Tick, PA!TtlDelete, PA!task, queue, vars

\* So every step of the pipeline is one of the queue, or none.
LEMMA StepsOfTheQueue ==
  ASSUME TypeOK, LinkInv, [Next]_vars
  PROVE  QueueMove
BY CallerInQueue, AdminEnters, OthersInQueue DEF LinkInv, Next, QueueMove

\* The pipeline's own state stays well formed.
LEMMA TypeStep == TypeOK /\ [Next]_vars => TypeOK'
<1> SUFFICES ASSUME TypeOK, [Next]_vars PROVE TypeOK'
  OBVIOUS
<1> USE DEF TypeOK, MeterSteps, Stages, Answers, GoTo, Answer, config, local, meters
<1>1. ASSUME NEW h \in Callers, Start(h) PROVE TypeOK'
  BY <1>1, StartEffect
<1>2. ASSUME NEW h \in Callers, Forbid(h) \/ CacheMiss(h) \/ Store(h) \/ Invalidate(h)
      PROVE  TypeOK'
  BY <1>2 DEF Forbid, CacheMiss, Store, Invalidate
<1>3. ASSUME NEW h \in Callers, Return(h) PROVE TypeOK'
  BY <1>3, NoCallIsTyped DEF Return
<1>4. ASSUME NEW h \in Callers, CheckUsage(h) \/ CheckQuota(h) PROVE TypeOK'
  BY <1>4, MeterMoves DEF CheckUsage, CheckQuota
<1>5. ASSUME NEW h \in Callers, CodeDisabled(h) \/ DbFault(h) PROVE TypeOK'
  BY <1>5, MeterMoves DEF CodeDisabled, DbFault
<1>6. ASSUME NEW h \in Callers, Confirm(h) \/ ConfirmStep(h) PROVE TypeOK'
  BY <1>6 DEF Confirm, ConfirmStep, AfterGates
<1>7. ASSUME NEW h \in Callers, Confirmed(h) PROVE TypeOK'
  <2>1. CASE outcome[h] = "ok"
    <3>1. call[h].id \in ActionIds \cup {NoId}
      BY DEF Requests
    <3> QED BY <1>7, <2>1, <3>1 DEF Confirmed, AfterGates
  <2>2. CASE outcome[h] # "ok"
    BY <1>7, <2>2, MeterMoves DEF Confirmed
  <2> QED BY <2>1, <2>2
<1>8. ASSUME NEW h \in Callers, CacheHit(h) PROVE TypeOK'
  BY <1>8, MeterMoves DEF CacheHit
<1>10. ASSUME NEW h \in Callers, Executed(h) \/ NotExecuted
       PROVE  (ran \in [Callers -> Nat] /\ runs \in [ActionIds -> Nat])'
  BY <1>10 DEF Executed, NotExecuted
<1>11. ASSUME NEW h \in Callers, NEW r \in {"error", "timeout"}, GiveUp(h, r)
       PROVE  (/\ load \in Loads /\ call \in [Callers -> Requests]
               /\ stage \in [Callers -> Stages] /\ reply \in [Callers -> Answers]
               /\ billed \in [Callers -> Nat] /\ approval \in [Callers -> ActionIds \cup {NoId}]
               /\ mstep \in [Callers -> MeterSteps])'
  BY <1>11, MeterMoves DEF GiveUp
<1>12. ASSUME NEW h \in Callers, NotCallable(h) \/ AttemptProtocolError(h) PROVE TypeOK'
  BY <1>10, <1>11, <1>12 DEF NotCallable, AttemptProtocolError
<1>13. ASSUME NEW h \in Callers, AttemptOk(h) PROVE TypeOK'
  BY <1>10, <1>13, MeterMoves DEF AttemptOk
<1>14. ASSUME NEW h \in Callers, AttemptFailed(h) PROVE TypeOK'
  BY <1>10, <1>11, <1>14 DEF AttemptFailed
<1>15. ASSUME NEW h \in Callers, RunCode(h) PROVE TypeOK'
  BY <1>10, <1>11, <1>15, MeterMoves DEF RunCode
<1>16. ASSUME NEW h \in Callers, MeterStep(h) PROVE TypeOK'
  BY <1>10, <1>11, <1>16, MeterMoves DEF MeterStep
<1>17. ASSUME NEW h \in Callers, Bill(h) PROVE TypeOK'
  BY <1>17, MeterMoves DEF Bill
<1>18. CASE (\E a \in Admins : AdminStep(a)) \/ Environment \/ UNCHANGED vars
  BY <1>18, OthersFrame
<1> QED
  BY <1>1, <1>2, <1>3, <1>4, <1>5, <1>6, <1>7, <1>8, <1>12, <1>13, <1>14, <1>15, <1>16,
     <1>17, <1>18 DEF Next, CallerStep

-----------------------------------------------------------------------------
(* The invariant                                                           *)

\* A call is metered, charged and attempted as its stage says.
LEMMA CallerInvStep == TypeOK /\ CallerInv /\ [Next]_vars => CallerInv'
<1> SUFFICES ASSUME TypeOK, CallerInv, [Next]_vars, NEW g \in Callers
             PROVE  (Metered(g) /\ Paid(g) /\ Tried(g))'
  BY DEF CallerInv
<1> DEFINE Fine == Metered(g) /\ Paid(g) /\ Tried(g)
<1>0. /\ Fine /\ TypeOK'
      /\ mstep \in [Callers -> MeterSteps] /\ Attempts \in Nat \ {0}
  BY TypeStep, ToolAssumption DEF CallerInv, TypeOK
<1>1. ASSUME Mine(g)' = Mine(g) PROVE Fine'
  BY <1>0, <1>1 DEF Mine, Metered, Paid, Tried
<1>2. ASSUME NEW h \in Callers, h # g, Start(h) \/ CallerStep(h) \/ DbFault(h) PROVE Fine'
  BY <1>1, <1>2, CallerFrame
<1>3. CASE (\E a \in Admins : AdminStep(a)) \/ Environment \/ UNCHANGED vars
  BY <1>1, <1>3, OthersFrame DEF Mine, local
<1> USE DEF TypeOK, Metered, Paid, Tried, Before, Charging, Refusals, GoTo, Answer, Answers
<1>4. CASE Start(g) \/ Forbid(g) \/ CacheMiss(g) \/ Store(g) \/ Invalidate(g) \/ Return(g)
  <2>1. CASE Start(g)
    BY <1>0, <2>1, StartEffect DEF meters
  <2>2. CASE Forbid(g) \/ CacheMiss(g)
    BY <1>0, <2>2 DEF Forbid, CacheMiss, meters
  <2>3. CASE Store(g) \/ Invalidate(g)
    BY <1>0, <2>3 DEF Store, Invalidate, meters
  <2>4. CASE Return(g)
    BY <1>0, <2>4 DEF Return, meters
  <2> QED BY <1>4, <2>1, <2>2, <2>3, <2>4
<1>5. CASE CheckUsage(g)
  BY <1>0, <1>5, MeterMoves DEF CheckUsage
<1>6. CASE CheckQuota(g)
  BY <1>0, <1>6, MeterMoves DEF CheckQuota
<1>7. CASE CodeDisabled(g) \/ DbFault(g)
  BY <1>0, <1>7, MeterMoves DEF CodeDisabled, DbFault
<1>8. CASE Confirm(g)
  BY <1>0, <1>8 DEF Confirm, AfterGates, meters
<1>9. CASE ConfirmStep(g)
  BY <1>0, <1>1, <1>9 DEF ConfirmStep, Mine, meters, local
<1>10. CASE Confirmed(g)
  <2>1. CASE outcome[g] = "ok"
    BY <1>0, <1>10, <2>1 DEF Confirmed, AfterGates, meters
  <2>2. CASE outcome[g] # "ok"
    BY <1>0, <1>10, <2>2, MeterMoves DEF Confirmed
  <2> QED BY <2>1, <2>2
<1>11. CASE CacheHit(g)
  BY <1>0, <1>11, MeterMoves DEF CacheHit
<1>12. CASE NotCallable(g) \/ AttemptProtocolError(g)
  BY <1>0, <1>12, MeterMoves DEF NotCallable, AttemptProtocolError, GiveUp, Executed, NotExecuted
<1>13. CASE AttemptOk(g)
  BY <1>0, <1>13, MeterMoves DEF AttemptOk, Executed
<1>14. CASE AttemptFailed(g)
  <2>1. CASE LastAttempt(g)
    BY <1>0, <1>14, <2>1, MeterMoves DEF AttemptFailed, GiveUp, Executed, NotExecuted
  <2>2. CASE ~LastAttempt(g)
    BY <1>0, <1>14, <2>2 DEF AttemptFailed, LastAttempt, Executed, NotExecuted, meters
  <2> QED BY <2>1, <2>2
<1>15. CASE RunCode(g)
  BY <1>0, <1>15, MeterMoves DEF RunCode, GiveUp, Executed
<1>16. CASE MeterStep(g)
  BY <1>0, <1>16, MeterMoves DEF MeterStep, GiveUp, NotExecuted, local, meters
<1>17. CASE Bill(g)
  BY <1>0, <1>17, MeterMoves DEF Bill
<1> QED
  BY <1>2, <1>3, <1>4, <1>5, <1>6, <1>7, <1>8, <1>9, <1>10, <1>11, <1>12, <1>13, <1>14,
     <1>15, <1>16, <1>17 DEF Next, CallerStep

\* Nobody's place in the queue is moved by anybody else.
LEMMA TaskFrame ==
  ASSUME TypeOK, PA!TypeOK, LinkInv, NEW g \in Handlers,
         \/ \E h \in Callers : h # g /\ (Start(h) \/ CallerStep(h) \/ DbFault(h))
         \/ \E a \in Admins : a # g /\ AdminStep(a)
         \/ Environment \/ UNCHANGED vars
  PROVE  req'[g] = req[g] /\ step'[g] = step[g] /\ outcome'[g] = outcome[g]
<1>1. ASSUME NEW h \in Handlers, h # g,
             Entering(h) \/ PA!HandlerStep(h) \/ PA!Fail(h) \/ UNCHANGED queue
      PROVE  req'[g] = req[g] /\ step'[g] = step[g] /\ outcome'[g] = outcome[g]
  BY <1>1, QueueFrame DEF queue
<1> QED BY <1>1, CallerInQueue, AdminEnters, OthersInQueue DEF LinkInv

\* A caller is in the queue only while it confirms, with its own request.
LEMMA LinkStep == TypeOK /\ PA!TypeOK /\ LinkInv /\ [Next]_vars => LinkInv'
<1> SUFFICES ASSUME TypeOK, PA!TypeOK, LinkInv, [Next]_vars PROVE LinkInv'
  OBVIOUS
<1>0. TypeOK' /\ Callers \cap Admins = {}
  BY TypeStep, ToolAssumption
<1>1. ASSUME NEW g \in Callers PROVE Linked(g)'
  <2>0. Linked(g)
    BY DEF LinkInv
  <2>1. ASSUME Mine(g)' = Mine(g), req'[g] = req[g], step'[g] = step[g] PROVE Linked(g)'
    BY <2>0, <2>1 DEF Linked, Mine, NeedsConfirmation
  <2>2. ASSUME NEW h \in Callers, h # g, Start(h) \/ CallerStep(h) \/ DbFault(h)
        PROVE  Linked(g)'
    BY <2>1, <2>2, CallerFrame, TaskFrame
  <2>3. CASE (\E a \in Admins : AdminStep(a)) \/ Environment \/ UNCHANGED vars
    BY <1>0, <2>1, <2>3, OthersFrame, TaskFrame DEF Mine, local
  <2> USE DEF TypeOK, Linked, NeedsConfirmation, GoTo, Answer
  <2>4. CASE Start(g)
    BY <2>0, <2>4, StartEffect DEF queue
  <2>5. CASE Return(g)
    BY <1>0, <2>0, <2>5 DEF Return, queue
  <2>6. CASE \/ Forbid(g) \/ CheckUsage(g) \/ CheckQuota(g) \/ CodeDisabled(g) \/ CacheHit(g)
             \/ CacheMiss(g) \/ Store(g) \/ Invalidate(g) \/ Bill(g)
    <3>1. /\ stage[g] # "confirm" /\ stage[g] # "idle" /\ stage'[g] # "confirm"
          /\ UNCHANGED <<call, step, req>>
      BY <2>6 DEF Forbid, CheckUsage, CheckQuota, CodeDisabled, CacheHit, CacheMiss, Store,
         Invalidate, Bill, queue
    <3> QED BY <2>0, <3>1
  <2>7. CASE \/ NotCallable(g) \/ AttemptOk(g) \/ AttemptProtocolError(g) \/ AttemptFailed(g)
             \/ RunCode(g) \/ MeterStep(g)
    <3>1. /\ stage[g] # "confirm" /\ stage[g] # "idle" /\ stage'[g] # "confirm"
          /\ UNCHANGED <<call, step, req>>
      BY <2>7 DEF NotCallable, AttemptOk, AttemptProtocolError, AttemptFailed, RunCode,
         MeterStep, GiveUp, queue, local
    <3> QED BY <2>0, <3>1
  <2>8. CASE Confirm(g)
    <3>1. CASE NeedsConfirmation(g)
      <4> DEFINE op == IF call[g].confirm THEN "consume" ELSE "create"
      <4>1. /\ op \in PA!Ops /\ call[g].user \in Users /\ call[g].target \in Targets
            /\ call[g].id \in ActionIds
        BY <2>0, <2>8, <3>1 DEF Confirm, Requests, PA!Ops
      <4>2. PA!Begin(g, op, call[g].user, call[g].target, call[g].id)
        BY <2>8, <3>1 DEF Confirm
      <4>3. PICK k \in PA!Request :
              /\ k.op = op /\ k.user = call[g].user /\ k.target = call[g].target
              /\ k.id = call[g].id /\ req' = [req EXCEPT ![g] = k]
        BY <4>1, <4>2, BeginEffect
      <4>4. stage' = [stage EXCEPT ![g] = "confirm"] /\ call' = call
        BY <2>8, <3>1 DEF Confirm
      <4> QED BY <3>1, <4>1, <4>3, <4>4 DEF PA!TypeOK
    <3>2. CASE ~NeedsConfirmation(g)
      BY <2>0, <2>8, <3>2 DEF Confirm, AfterGates, queue
    <3> QED BY <3>1, <3>2
  <2>9. CASE ConfirmStep(g)
    <3>1. stage[g] = "confirm" /\ UNCHANGED <<stage, call>>
      BY <2>9 DEF ConfirmStep, local
    <3>2. req' = req
      BY <2>9, CreateEffect, ConsumeEffect, DiagnoseEffect DEF ConfirmStep
    <3> QED BY <2>0, <3>1, <3>2
  <2>10. CASE Confirmed(g)
    <3>1. step'[g] = "idle"
      BY <2>10, ReturnEffect DEF Confirmed, PA!TypeOK
    <3>2. stage[g] = "confirm" /\ stage'[g] # "confirm" /\ call' = call
      BY <2>10 DEF Confirmed, AfterGates
    <3> QED BY <2>0, <3>1, <3>2
  <2>11. CASE DbFault(g)
    <3>1. stage[g] # "idle" /\ stage'[g] = "done" /\ call' = call
      BY <2>11 DEF DbFault
    <3>2. step'[g] = "idle"
      BY <2>0, <2>11, ReturnEffect DEF DbFault, PA!TypeOK, queue
    <3> QED BY <2>0, <3>1, <3>2
  <2> QED
    BY <2>2, <2>3, <2>4, <2>5, <2>6, <2>7, <2>8, <2>9, <2>10, <2>11 DEF Next, CallerStep
<1>2. ASSUME NEW b \in Admins PROVE step'[b] # "idle" => req'[b].op \in {"approve", "reject"}
  <2>0. step[b] # "idle" => req[b].op \in {"approve", "reject"}
    BY DEF LinkInv
  <2>1. CASE req'[b] = req[b] /\ step'[b] = step[b]
    BY <2>0, <2>1
  <2>2. CASE AdminStep(b)
    <3>1. ASSUME NEW op \in {"approve", "reject"}, NEW u \in Users, NEW i \in ActionIds,
                 PA!Begin(b, op, u, PA!AnyTarget, i)
          PROVE  req'[b].op \in {"approve", "reject"}
      BY <3>1, DefaultsExist, BeginEffect DEF PA!TypeOK, PA!Ops, PA!Decisions
    <3>2. CASE PA!DecideUpdate(b) \/ PA!DecideDiagnose(b)
      BY <2>0, <3>2, DecideEffect, DiagnoseEffect
    <3>3. CASE PA!Reply(b) \/ PA!Fail(b)
      BY <3>3, ReturnEffect DEF PA!TypeOK
    <3> QED BY <2>2, <3>1, <3>2, <3>3, AdminInQueue
  <2> QED BY <1>0, <2>1, <2>2, TaskFrame DEF Next
<1> QED BY <1>1, <1>2 DEF LinkInv

\* The request of a caller changes only when it arrives and when it has been answered.
LEMMA CallChanges ==
  ASSUME TypeOK, NEW g \in Callers, [Next]_vars, ~Start(g), ~Return(g)
  PROVE  call'[g] = call[g]
<1>1. ASSUME NEW h \in Callers, h # g, Start(h) \/ CallerStep(h) \/ DbFault(h)
      PROVE  call'[g] = call[g]
  BY <1>1, CallerFrame DEF Mine
<1>2. CASE (\E a \in Admins : AdminStep(a)) \/ Environment \/ UNCHANGED vars
  BY <1>2, OthersFrame DEF local
<1>3. CASE \/ Forbid(g) \/ CheckUsage(g) \/ CheckQuota(g) \/ CodeDisabled(g) \/ Confirm(g)
           \/ ConfirmStep(g) \/ Confirmed(g) \/ CacheHit(g) \/ CacheMiss(g) \/ Store(g)
           \/ Invalidate(g) \/ Bill(g) \/ DbFault(g)
  BY <1>3 DEF Forbid, CheckUsage, CheckQuota, CodeDisabled, Confirm, ConfirmStep, Confirmed,
     CacheHit, CacheMiss, Store, Invalidate, Bill, DbFault, local
<1>4. CASE \/ NotCallable(g) \/ AttemptOk(g) \/ AttemptProtocolError(g) \/ AttemptFailed(g)
           \/ RunCode(g) \/ MeterStep(g)
  BY <1>4 DEF NotCallable, AttemptOk, AttemptProtocolError, AttemptFailed, RunCode,
     MeterStep, GiveUp, local
<1> QED BY <1>1, <1>2, <1>3, <1>4 DEF Next, CallerStep

\* Before the confirmation gate a caller does nothing in the queue.
LEMMA BeforeTheGate ==
  ASSUME TypeOK, NEW g \in Callers, stage'[g] \in {"authz", "quota", "gate"},
         Start(g) \/ CallerStep(g) \/ DbFault(g)
  PROVE  /\ docs' = docs
         /\ Start(g) \/ (call' = call /\ stage[g] \in {"authz", "quota", "gate"})
<1> USE DEF TypeOK, GoTo, Answer
<1>1. CASE Start(g)
  BY <1>1, StartEffect DEF queue
<1>2. CASE CheckUsage(g) \/ CheckQuota(g)
  BY <1>2 DEF CheckUsage, CheckQuota, queue
<1>3. CASE \/ Forbid(g) \/ CodeDisabled(g) \/ Confirm(g) \/ ConfirmStep(g) \/ Confirmed(g)
           \/ CacheHit(g) \/ CacheMiss(g) \/ Store(g) \/ Invalidate(g) \/ Bill(g)
           \/ DbFault(g) \/ Return(g)
  BY <1>3 DEF Forbid, CodeDisabled, Confirm, AfterGates, ConfirmStep, Confirmed, CacheHit,
     CacheMiss, Store, Invalidate, Bill, DbFault, Return, local
<1>4. CASE \/ NotCallable(g) \/ AttemptOk(g) \/ AttemptProtocolError(g) \/ AttemptFailed(g)
           \/ RunCode(g) \/ MeterStep(g)
  BY <1>4 DEF NotCallable, AttemptOk, AttemptProtocolError, AttemptFailed, RunCode,
     MeterStep, GiveUp, local
<1> QED BY <1>1, <1>2, <1>3, <1>4 DEF CallerStep

\* An id that was handed to one call is not issued to another.
LEMMA ReserveStep ==
  TypeOK /\ PA!TypeOK /\ LinkInv /\ ReserveInv /\ [Next]_vars => ReserveInv'
<1> SUFFICES ASSUME TypeOK, PA!TypeOK, LinkInv, ReserveInv, [Next]_vars PROVE ReserveInv'
  OBVIOUS
<1>0. QueueMove /\ TypeOK'
  BY StepsOfTheQueue, TypeStep
<1>1. ASSUME NEW g \in Callers, stage[g] \in {"authz", "quota", "gate"},
             call[g].id \in ActionIds, ~call[g].confirm
      PROVE  docs'[call[g].id].status = "unissued"
  <2>1. docs[call[g].id].status = "unissued"
    BY <1>1 DEF ReserveInv
  <2>2. ASSUME NEW h \in Handlers, PA!Create(h), req[h].id = call[g].id PROVE FALSE
    <3>1. req[h].op = "create" /\ step[h] = "update"
      BY <2>2, CreateEffect
    <3>2. h \in Callers /\ stage[h] = "confirm" /\ ~call[h].confirm /\ call[h].id = call[g].id
      BY <2>2, <3>1 DEF LinkInv, Linked
    <3> QED BY <1>1, <3>2 DEF ReserveInv
  <2> QED BY <1>0, <1>1, <2>1, <2>2, DocsMove
<1>2. ASSUME NEW g \in Callers, stage'[g] \in {"authz", "quota", "gate"},
             call'[g].id \in ActionIds, ~call'[g].confirm
      PROVE  docs'[call'[g].id].status = "unissued"
  <2>1. CASE Mine(g)' = Mine(g)
    BY <1>1, <1>2, <2>1 DEF Mine
  <2>2. CASE Start(g)
    BY <1>2, <2>2, StartEffect DEF queue, TypeOK
  <2>3. CASE CallerStep(g) \/ DbFault(g)
    BY <1>1, <1>2, <2>2, <2>3, BeforeTheGate
  <2>4. ASSUME NEW h \in Callers, h # g, Start(h) \/ CallerStep(h) \/ DbFault(h)
        PROVE  Mine(g)' = Mine(g)
    BY <2>4, CallerFrame
  <2>5. CASE (\E a \in Admins : AdminStep(a)) \/ Environment \/ UNCHANGED vars
    BY <2>1, <1>2, <2>5, OthersFrame DEF Mine, local
  <2> QED BY <2>1, <2>2, <2>3, <2>4, <2>5 DEF Next
<1>3. ASSUME NEW g \in Callers, NEW h \in Callers, call'[g].id \in ActionIds,
             call'[g].id = call'[h].id, ~call'[g].confirm, ~call'[h].confirm
      PROVE  g = h
  <2> SUFFICES ASSUME g # h PROVE FALSE
    OBVIOUS
  <2>1. ASSUME NEW x \in Callers, Start(x) PROVE FALSE
    <3>1. PICK k \in Requests :
            /\ call' = [call EXCEPT ![x] = k]
            /\ k.id \in ActionIds /\ ~k.confirm =>
                 \A y \in Callers : call[y].id = k.id => call[y].confirm
      BY <2>1, StartEffect
    <3> QED BY <1>3, <3>1 DEF TypeOK, ReserveInv
  <2>2. ASSUME NEW x \in Callers, Return(x) PROVE FALSE
    <3>1. call' = [call EXCEPT ![x] = NoCall] /\ NoCall.id \notin ActionIds
      BY <2>2, QueueAssumption DEF Return, NoCall
    <3> QED BY <1>3, <3>1 DEF TypeOK, ReserveInv
  <2>3. CASE \A x \in Callers : ~Start(x) /\ ~Return(x)
    BY <1>3, <2>3, CallChanges DEF ReserveInv
  <2> QED BY <2>1, <2>2, <2>3
<1> QED BY <1>2, <1>3 DEF ReserveInv

\* How a call comes by an approval, and loses it.
LEMMA ApprovalMoves ==
  ASSUME TypeOK, NEW g \in Callers, [Next]_vars
  PROVE  \/ approval'[g] = approval[g]
         \/ /\ Confirmed(g) /\ outcome[g] = "ok"
            /\ approval'[g] = call[g].id /\ call'[g] = call[g]
         \/ Return(g) /\ approval'[g] = NoId
<1>1. ASSUME NEW h \in Callers, h # g, Start(h) \/ CallerStep(h) \/ DbFault(h)
      PROVE  approval'[g] = approval[g]
  BY <1>1, CallerFrame DEF Mine
<1>2. CASE (\E a \in Admins : AdminStep(a)) \/ Environment \/ UNCHANGED vars
  BY <1>2, OthersFrame DEF local
<1>3. CASE Confirmed(g) \/ Return(g)
  BY <1>3 DEF Confirmed, Return, TypeOK
<1>4. CASE \/ Forbid(g) \/ CheckUsage(g) \/ CheckQuota(g) \/ CodeDisabled(g) \/ Confirm(g)
           \/ ConfirmStep(g) \/ CacheHit(g) \/ CacheMiss(g) \/ Store(g)
           \/ Invalidate(g) \/ Bill(g) \/ DbFault(g)
  BY <1>4 DEF Forbid, CheckUsage, CheckQuota, CodeDisabled, Confirm, ConfirmStep,
     CacheHit, CacheMiss, Store, Invalidate, Bill, DbFault, local
<1>5. CASE \/ NotCallable(g) \/ AttemptOk(g) \/ AttemptProtocolError(g) \/ AttemptFailed(g)
           \/ RunCode(g) \/ MeterStep(g)
  BY <1>5 DEF NotCallable, AttemptOk, AttemptProtocolError, AttemptFailed, RunCode,
     MeterStep, GiveUp, local
<1>6. CASE Start(g)
  BY <1>6, StartEffect
<1> QED BY <1>1, <1>2, <1>3, <1>4, <1>5, <1>6 DEF Next, CallerStep

\* An "ok" of the queue means that the caller's own approval is now spent.
LEMMA OkIsConsumed ==
  ASSUME TypeOK, QueueInv, LinkInv, NEW g \in Callers, stage[g] = "confirm",
         step[g] = "done", outcome[g] = "ok"
  PROVE  /\ call[g].confirm /\ call[g].id \in ActionIds
         /\ docs[call[g].id].status = "consumed"
         /\ docs[call[g].id].user = call[g].user /\ docs[call[g].id].target = call[g].target
<1>1. /\ req[g].op = IF call[g].confirm THEN "consume" ELSE "create"
      /\ req[g].user = call[g].user /\ req[g].target = call[g].target
      /\ req[g].id = call[g].id /\ call[g].id \in ActionIds
  BY DEF LinkInv, Linked
<1>2. req[g].op # "create"
  BY DEF QueueInv
<1>3. req[g].op = "consume"
  BY <1>1, <1>2
<1> QED BY <1>1, <1>2, <1>3 DEF QueueInv

\* Nobody passes the confirmation gate without an approval of its own.
LEMMA GateStep ==
  /\ TypeOK /\ QueueInv /\ LinkInv /\ CallerInv /\ GateInv /\ [Next]_vars
  => GateInv'
<1> SUFFICES ASSUME TypeOK, QueueInv, LinkInv, CallerInv, GateInv, [Next]_vars,
                    NEW g \in Callers
             PROVE  (Cleared(g) /\ Owned(g))'
  BY DEF GateInv
<1>0. /\ Cleared(g) /\ Owned(g) /\ Tried(g) /\ TypeOK' /\ QueueMove /\ PA!TypeOK
  BY TypeStep, StepsOfTheQueue DEF GateInv, CallerInv, QueueInv
<1>1. Owned(g)'
  <2>1. CASE approval'[g] = approval[g] /\ call'[g] = call[g]
    <3>1. approval[g] # NoId => approval[g] \in ActionIds
      BY DEF TypeOK
    <3> QED BY <1>0, <2>1, <3>1, DocsMove DEF Owned
  <2>2. CASE Start(g)
    BY <1>0, <2>2, StartEffect DEF Owned, Tried, Before
  <2>3. CASE Confirmed(g) /\ outcome[g] = "ok" /\ approval'[g] = call[g].id
    <3>1. stage[g] = "confirm" /\ step[g] = "done"
      BY <2>3 DEF Confirmed, PA!Reply
    <3>2. docs' = docs /\ call' = call
      BY <1>0, <2>3, ReturnEffect DEF Confirmed
    <3>3. /\ docs[call[g].id].status = "consumed" /\ docs[call[g].id].user = call[g].user
          /\ docs[call[g].id].target = call[g].target
      BY <2>3, <3>1, OkIsConsumed
    <3> QED BY <2>3, <3>2, <3>3 DEF Owned
  <2>4. CASE Return(g)
    BY <2>4 DEF Return, Owned, TypeOK
  <2> QED BY <2>1, <2>2, <2>3, <2>4, ApprovalMoves, CallChanges
<1>2. Cleared(g)'
  <2>1. CASE Mine(g)' = Mine(g)
    BY <1>0, <2>1 DEF Mine, Cleared, NeedsConfirmation
  <2>2. ASSUME NEW h \in Callers, h # g, Start(h) \/ CallerStep(h) \/ DbFault(h)
        PROVE  Mine(g)' = Mine(g)
    BY <2>2, CallerFrame
  <2>3. CASE (\E a \in Admins : AdminStep(a)) \/ Environment \/ UNCHANGED vars
    BY <2>1, <2>3, OthersFrame DEF Mine, local
  <2> USE DEF TypeOK, Tried, Cleared, NeedsConfirmation, Before, GoTo, Answer
  <2>4. CASE Start(g)
    BY <1>0, <2>4, StartEffect
  <2>5. CASE \/ Forbid(g) \/ CheckUsage(g) \/ CheckQuota(g) \/ CodeDisabled(g) \/ Return(g)
             \/ DbFault(g)
    BY <1>0, <2>5 DEF Forbid, CheckUsage, CheckQuota, CodeDisabled, Return, DbFault
  <2>6. CASE Confirm(g) \/ ConfirmStep(g)
    BY <1>0, <2>6 DEF Confirm, ConfirmStep, local
  <2>7. CASE Confirmed(g)
    <3>1. CASE outcome[g] = "ok"
      <4>1. stage[g] = "confirm" /\ step[g] = "done" /\ approval'[g] = call[g].id
        BY <2>7, <3>1 DEF Confirmed, PA!Reply
      <4> QED BY <3>1, <4>1, OkIsConsumed, QueueAssumption
    <3>2. CASE outcome[g] # "ok"
      BY <1>0, <2>7, <3>2 DEF Confirmed
    <3> QED BY <3>1, <3>2
  <2>8. CASE CacheHit(g) \/ CacheMiss(g) \/ Store(g) \/ Invalidate(g) \/ Bill(g)
    BY <1>0, <2>8 DEF CacheHit, CacheMiss, Store, Invalidate, Bill
  <2>9. CASE \/ NotCallable(g) \/ AttemptOk(g) \/ AttemptProtocolError(g) \/ AttemptFailed(g)
             \/ RunCode(g) \/ MeterStep(g)
    <3>1. stage[g] \notin Before \cup {"done"} /\ approval' = approval /\ call' = call
      BY <2>9 DEF NotCallable, AttemptOk, AttemptProtocolError, AttemptFailed, RunCode,
         MeterStep, GiveUp, local
    <3> QED BY <1>0, <3>1
  <2> QED
    BY <2>1, <2>2, <2>3, <2>4, <2>5, <2>6, <2>7, <2>8, <2>9 DEF Next, CallerStep
<1> QED BY <1>1, <1>2

\* Who spends action i in this step: it had been approved until now.
Spends(h, i) == /\ ConfirmStep(h) /\ PA!ConsumeUpdate(h) /\ call[h].id = i
                /\ docs[i].status = "approved" /\ docs'[i].status = "consumed"

\* Nobody comes to hold an approval but by spending it.
LEMMA HoldsStep ==
  ASSUME IInv, [Next]_vars, NEW g \in Callers, NEW i \in ActionIds, Holds(g, i)'
  PROVE  Holds(g, i) \/ Spends(g, i)
<1>0. TypeOK /\ QueueInv /\ LinkInv /\ PA!TypeOK /\ Tried(g) /\ Linked(g) /\ i # NoId
  BY QueueAssumption DEF IInv, QueueInv, CallerInv, LinkInv
<1>1. CASE approval'[g] = i
  <2>1. CASE approval'[g] = approval[g]
    BY <1>1, <2>1 DEF Holds
  <2>2. CASE Confirmed(g) /\ outcome[g] = "ok" /\ approval'[g] = call[g].id
    <3>1. stage[g] = "confirm" /\ step[g] = "done"
      BY <2>2 DEF Confirmed, PA!Reply
    <3> QED BY <1>0, <1>1, <2>2, <3>1, OkIsConsumed DEF Holds, Granted
  <2> QED BY <1>0, <1>1, <2>1, <2>2, ApprovalMoves
<1>2. CASE Granted(g)' /\ call'[g].id = i
  <2>1. CASE Mine(g)' = Mine(g) /\ step'[g] = step[g] /\ outcome'[g] = outcome[g]
    BY <1>2, <2>1 DEF Mine, Granted, Holds
  <2>2. ASSUME NEW h \in Callers, h # g, Start(h) \/ CallerStep(h) \/ DbFault(h)
        PROVE  Mine(g)' = Mine(g) /\ step'[g] = step[g] /\ outcome'[g] = outcome[g]
    BY <1>0, <2>2, CallerFrame, TaskFrame
  <2>3. CASE (\E a \in Admins : AdminStep(a)) \/ Environment \/ UNCHANGED vars
    BY <1>0, <2>1, <2>3, OthersFrame, TaskFrame, ToolAssumption DEF Mine, local
  <2>4. CASE ConfirmStep(g)
    <3>1. /\ stage[g] = "confirm" /\ call' = call /\ req[g].id = call[g].id
          /\ req[g].id \in ActionIds
      BY <1>0, <2>4 DEF ConfirmStep, local, Linked, PA!TypeOK, PA!Request
    <3>2. ASSUME PA!Create(g) \/ PA!ConsumeDiagnose(g) PROVE FALSE
      BY <1>0, <1>2, <3>2, CreateEffect, DiagnoseEffect DEF Granted, PA!TypeOK
    <3>3. CASE PA!ConsumeUpdate(g)
      <4>1. step'[g] = "done"
        BY <1>2 DEF Granted
      <4>2. docs[i].status = "approved" /\ docs'[i].status = "consumed"
        BY <1>0, <1>2, <3>1, <3>3, <4>1, ConsumeEffect DEF PA!TypeOK
      <4> QED BY <1>2, <2>4, <3>1, <3>3, <4>2 DEF Spends
    <3> QED BY <2>4, <3>2, <3>3 DEF ConfirmStep
  <2>5. CASE Confirm(g)
    <3>1. stage[g] = "gate" /\ step[g] = "idle"
      BY <1>0, <2>5 DEF Confirm, Linked
    <3>2. CASE NeedsConfirmation(g)
      <4>1. step' = [step EXCEPT ![g] = "update"]
        BY <2>5, <3>2 DEF Confirm, PA!Begin
      <4> QED BY <1>0, <1>2, <4>1 DEF Granted, PA!TypeOK
    <3>3. CASE ~NeedsConfirmation(g)
      BY <1>0, <1>2, <2>5, <3>1, <3>3 DEF Confirm, Granted, queue
    <3> QED BY <3>2, <3>3
  <2> USE DEF GoTo, Answer, TypeOK
  <2>6. CASE Start(g)
    BY <1>0, <1>2, <2>6, StartEffect DEF Granted
  <2>7. CASE \/ Forbid(g) \/ CheckUsage(g) \/ CheckQuota(g) \/ CodeDisabled(g) \/ Confirmed(g)
             \/ CacheHit(g) \/ CacheMiss(g) \/ Store(g) \/ Invalidate(g) \/ Bill(g)
             \/ DbFault(g) \/ Return(g)
    <3>1. stage'[g] # "confirm"
      BY <1>0, <2>7 DEF Forbid, CheckUsage, CheckQuota, CodeDisabled, Confirmed, AfterGates,
         CacheHit, CacheMiss, Store, Invalidate, Bill, DbFault, Return
    <3> QED BY <1>2, <3>1 DEF Granted
  <2>8. CASE \/ NotCallable(g) \/ AttemptOk(g) \/ AttemptProtocolError(g) \/ AttemptFailed(g)
             \/ RunCode(g) \/ MeterStep(g)
    <3>1. stage'[g] # "confirm"
      BY <1>0, <2>8 DEF NotCallable, AttemptOk, AttemptProtocolError, AttemptFailed, RunCode,
         MeterStep, GiveUp, local
    <3> QED BY <1>2, <3>1 DEF Granted
  <2> QED BY <2>1, <2>2, <2>3, <2>4, <2>5, <2>6, <2>7, <2>8 DEF Next, CallerStep
<1> QED BY <1>1, <1>2 DEF Holds

\* What was executed, in this step, for which call.
LEMMA ExecutionMoves ==
  ASSUME TypeOK, [Next]_vars
  PROVE  \/ UNCHANGED <<ran, runs>>
         \/ \E x \in Callers : Executed(x) /\ stage[x] = "execute" /\ UNCHANGED <<approval, docs>>
         \/ \E x \in Callers : /\ UNCHANGED <<runs, docs>> /\ ran' = [ran EXCEPT ![x] = 0]
                               /\ approval'[x] = NoId /\ stage'[x] = "idle"
<1>1. ASSUME NEW x \in Callers,
             NotCallable(x) \/ AttemptOk(x) \/ AttemptProtocolError(x) \/ AttemptFailed(x)
               \/ RunCode(x)
      PROVE  \/ UNCHANGED <<ran, runs>>
             \/ Executed(x) /\ stage[x] = "execute" /\ UNCHANGED <<approval, docs>>
  BY <1>1 DEF NotCallable, AttemptOk, AttemptProtocolError, AttemptFailed, RunCode, GiveUp,
     NotExecuted, queue
<1>2. ASSUME NEW x \in Callers, Return(x)
      PROVE  /\ UNCHANGED <<runs, docs>> /\ ran' = [ran EXCEPT ![x] = 0]
             /\ approval'[x] = NoId /\ stage'[x] = "idle"
  BY <1>2 DEF Return, queue, TypeOK
<1>3. ASSUME NEW x \in Callers, Start(x) PROVE UNCHANGED <<ran, runs>>
  BY <1>3, StartEffect
<1>4. ASSUME NEW x \in Callers, 
             \/ Forbid(x) \/ CheckUsage(x) \/ CheckQuota(x) \/ CodeDisabled(x) \/ Confirm(x)
             \/ ConfirmStep(x) \/ Confirmed(x) \/ CacheHit(x) \/ CacheMiss(x) \/ MeterStep(x)
             \/ Store(x) \/ Invalidate(x) \/ Bill(x) \/ DbFault(x)
      PROVE  UNCHANGED <<ran, runs>>
  BY <1>4 DEF Forbid, CheckUsage, CheckQuota, CodeDisabled, Confirm, ConfirmStep, Confirmed,
     CacheHit, CacheMiss, MeterStep, Store, Invalidate, Bill, DbFault, NotExecuted, local
<1>5. ASSUME (\E a \in Admins : AdminStep(a)) \/ Environment \/ UNCHANGED vars
      PROVE  UNCHANGED <<ran, runs>>
  BY <1>5, OthersFrame DEF local
<1> QED BY <1>1, <1>2, <1>3, <1>4, <1>5 DEF Next, CallerStep

\* An approval has one holder at most, and pays for that holder's attempts only.
LEMMA SpendStep == IInv /\ [Next]_vars => SpendInv'
<1> SUFFICES ASSUME IInv, [Next]_vars, NEW i \in ActionIds
             PROVE  (/\ runs[i] <= Attempts
                     /\ docs[i].status # "consumed" => runs[i] = 0
                     /\ \A h \in Callers : Holds(h, i) =>
                          docs[i].status = "consumed" /\ runs[i] = ran[h]
                     /\ \A g, h \in Callers : Holds(g, i) /\ Holds(h, i) => g = h)'
  BY DEF SpendInv
<1>0. /\ TypeOK /\ TypeOK' /\ QueueInv /\ PA!TypeOK /\ LinkInv /\ CallerInv /\ CallerInv'
      /\ QueueMove /\ i # NoId
  BY TypeStep, CallerInvStep, StepsOfTheQueue, QueueAssumption DEF IInv, QueueInv
<1>a. /\ runs[i] \in Nat /\ Attempts \in Nat /\ runs[i] <= Attempts
      /\ docs[i].status # "consumed" => runs[i] = 0
      /\ \A h \in Callers : Holds(h, i) => docs[i].status = "consumed" /\ runs[i] = ran[h]
      /\ \A g, h \in Callers : Holds(g, i) /\ Holds(h, i) => g = h
  BY <1>0, ToolAssumption DEF IInv, SpendInv, TypeOK
<1>1. ASSUME NEW h \in Callers, Spends(h, i) PROVE
        /\ docs'[i].status = "consumed" /\ UNCHANGED <<ran, runs>>
        /\ runs[i] = 0 /\ ran[h] = 0
        /\ \A g \in Callers : Holds(g, i)' => g = h
  <2>1. runs[i] = 0 /\ \A g \in Callers : ~Holds(g, i)
    BY <1>a, <1>1 DEF Spends
  <2>2. stage[h] = "confirm" /\ UNCHANGED <<ran, runs>>
    BY <1>1 DEF Spends, ConfirmStep, local
  <2>3. ran[h] = 0
    BY <1>0, <2>2 DEF CallerInv, Tried, Before
  <2>4. ASSUME NEW g \in Callers, Holds(g, i)', g # h PROVE FALSE
    <3>1. step[g] = "update" /\ step'[g] # "update"
      <4>1. Spends(g, i)
        BY <2>1, <2>4, HoldsStep
      <4> QED BY <1>0, <4>1, ConsumeEffect DEF Spends, PA!TypeOK
    <3>2. step'[g] = step[g]
      BY <1>0, <1>1, <2>4, TaskFrame DEF Spends, CallerStep
    <3> QED BY <3>1, <3>2
  <2> QED BY <1>1, <2>1, <2>2, <2>3, <2>4 DEF Spends
<1>2. CASE \E h \in Callers : Spends(h, i)
  BY <1>a, <1>1, <1>2
<1>3. CASE \A h \in Callers : ~Spends(h, i)
  <2>1. \A h \in Callers : Holds(h, i)' => Holds(h, i)
    BY <1>3, HoldsStep
  <2>2. docs[i].status = "consumed" => docs'[i].status = "consumed"
    BY <1>0, DocsMove
  <2>3. CASE UNCHANGED <<ran, runs>>
    BY <1>a, <2>1, <2>2, <2>3
  <2>4. ASSUME NEW x \in Callers, Executed(x), stage[x] = "execute",
               UNCHANGED <<approval, docs>>
        PROVE  (/\ runs[i] <= Attempts
                /\ docs[i].status # "consumed" => runs[i] = 0
                /\ \A h \in Callers : Holds(h, i) => runs[i] = ran[h])'
    <3>1. /\ ran' = [ran EXCEPT ![x] = @ + 1] /\ ran[x] \in Nat /\ ran'[x] <= Attempts
          /\ runs'[i] = runs[i] + IF approval[x] = i THEN 1 ELSE 0
      BY <1>0, <2>4 DEF Executed, CallerInv, Tried, TypeOK
    <3>2. CASE approval[x] = i
      <4>1. Holds(x, i) /\ docs[i].status = "consumed" /\ runs[i] = ran[x]
        BY <1>a, <3>2 DEF Holds
      <4>2. \A h \in Callers : Holds(h, i)' => h = x
        BY <1>a, <2>1, <4>1
      <4>3. runs'[i] = ran'[x]
        BY <1>0, <3>1, <3>2, <4>1 DEF TypeOK
      <4> QED BY <2>4, <3>1, <4>1, <4>2, <4>3
    <3>3. CASE approval[x] # i
      <4>1. ~Holds(x, i) /\ runs'[i] = runs[i]
        BY <1>a, <2>4, <3>1, <3>3 DEF Holds, Granted
      <4>2. \A h \in Callers : Holds(h, i)' => Holds(h, i) /\ ran'[h] = ran[h]
        BY <1>0, <2>1, <3>1, <4>1 DEF TypeOK
      <4> QED BY <1>a, <2>4, <4>1, <4>2
    <3> QED BY <3>2, <3>3
  <2>5. ASSUME NEW x \in Callers, UNCHANGED <<runs, docs>>, ran' = [ran EXCEPT ![x] = 0],
               approval'[x] = NoId, stage'[x] = "idle"
        PROVE  \A h \in Callers : Holds(h, i)' => Holds(h, i) /\ ran'[h] = ran[h]
    <3>1. ~Holds(x, i)'
      BY <1>0, <2>5 DEF Holds, Granted
    <3> QED BY <1>0, <2>1, <2>5, <3>1 DEF TypeOK
  <2> QED BY <1>0, <1>a, <2>1, <2>2, <2>3, <2>4, <2>5, ExecutionMoves
<1> QED BY <1>2, <1>3

\* It holds at the start.
LEMMA InitIInv == Init => IInv
<1> SUFFICES ASSUME Init PROVE IInv
  OBVIOUS
<1> USE DEF Init, PA!Init, UM!MInit
<1>1. TypeOK
  BY NoCallIsTyped DEF TypeOK, Stages, Answers, MeterSteps
<1>2. QueueInv
  <2>1. PA!Unissued \in PA!Doc
    BY DefaultsExist DEF PA!Unissued, PA!Doc
  <2>2. PA!NoRequest \in PA!Request
    BY DefaultsExist DEF PA!NoRequest, PA!Request, PA!Ops
  <2>3. PA!TypeOK
    BY <2>1, <2>2 DEF PA!TypeOK, PA!Steps, PA!Outcomes
  <2>4. PA!Unissued.status = "unissued"
    BY DEF PA!Unissued
  <2> QED BY <2>3, <2>4, DefaultsExist DEF QueueInv
<1>3. LinkInv
  BY DEF LinkInv, Linked
<1>4. ReserveInv
  BY QueueAssumption DEF ReserveInv, NoCall
<1>5. CallerInv
  BY ToolAssumption DEF CallerInv, Metered, Paid, Tried, Charging
<1>6. GateInv
  BY DEF GateInv, Cleared, Owned, Before
<1>7. SpendInv
  BY ToolAssumption, QueueAssumption DEF SpendInv, Holds, Granted
<1> QED BY <1>1, <1>2, <1>3, <1>4, <1>5, <1>6, <1>7 DEF IInv

-----------------------------------------------------------------------------
(* The theorems                                                            *)

\* The inductive invariant holds in every reachable state.
THEOREM Invariance == Spec => []IInv
<1>1. IInv /\ [Next]_vars => IInv'
  <2> SUFFICES ASSUME IInv, [Next]_vars PROVE IInv'
    OBVIOUS
  <2>1. TypeOK' /\ QueueInv' /\ LinkInv'
    BY TypeStep, StepsOfTheQueue, QueueStep, LinkStep DEF IInv, QueueInv
  <2>2. ReserveInv' /\ CallerInv' /\ GateInv'
    BY ReserveStep, CallerInvStep, GateStep DEF IInv, QueueInv
  <2> QED BY <2>1, <2>2, SpendStep DEF IInv
<1> QED BY InitIInv, <1>1, PTL DEF Spec

\* The pipeline and the queue it drives are well formed.
THEOREM TypeCorrect == Spec => [](TypeOK /\ PA!TypeOK)
<1>1. IInv => TypeOK /\ PA!TypeOK
  BY DEF IInv, QueueInv
<1> QED BY Invariance, <1>1, PTL

\* A confirmation-gated tool called on /rpc never runs unless this very call spent an
\* approval that another user gave to this user for this tool and arguments.
THEOREM GateIsHonoured == Spec => []GatedNeedsApproval
<1>1. IInv => GatedNeedsApproval
  <2> SUFFICES ASSUME IInv, NEW h \in Callers, ran[h] > 0, NeedsConfirmation(h)
               PROVE  /\ approval[h] \in ActionIds
                      /\ docs[approval[h]].status = "consumed"
                      /\ docs[approval[h]].user = call[h].user
                      /\ docs[approval[h]].target = call[h].target
                      /\ docs[approval[h]].decided_by \in Users \ {call[h].user}
    BY DEF GatedNeedsApproval, NeedsConfirmation
  <2>1. approval[h] # NoId /\ approval[h] \in ActionIds
    BY DEF IInv, GateInv, Cleared, TypeOK
  <2>2. /\ docs[approval[h]].status = "consumed"
        /\ docs[approval[h]].user = call[h].user /\ docs[approval[h]].target = call[h].target
    BY <2>1 DEF IInv, GateInv, Owned
  <2> QED BY <2>1, <2>2 DEF IInv, QueueInv
<1> QED BY Invariance, <1>1, PTL

\* However often a call is submitted again, one approval pays for one call's attempts.
THEOREM ApprovalPaysOnce == Spec => []OneCallPerApproval
<1>1. IInv => OneCallPerApproval
  BY DEF IInv, SpendInv, OneCallPerApproval
<1> QED BY Invariance, <1>1, PTL

\* What is answered was charged once; what a gate refused cost and ran nothing.
THEOREM AnsweredIsPaid == Spec => []PaidIffAnswered
<1>1. IInv => PaidIffAnswered
  BY DEF IInv, CallerInv, Paid, Refusals, PaidIffAnswered
<1> QED BY Invariance, <1>1, PTL

\* The pipeline drives the approval queue as the queue's own specification says: it enters
\* it with an id that is free, and its admins with a decision.
THEOREM UsesTheQueue == Spec => QueueSpec
<1>1. Init => PA!Init
  BY DEF Init
<1>2. IInv /\ [Next]_vars => [PA!Next]_(PA!vars)
  <2> SUFFICES ASSUME IInv, [Next]_vars PROVE PA!Next \/ UNCHANGED PA!vars
    OBVIOUS
  <2>0. /\ TypeOK /\ PA!TypeOK /\ LinkInv
        /\ UNCHANGED queue => UNCHANGED PA!vars
    BY DEF IInv, QueueInv, queue, PA!vars
  <2>1. ASSUME NEW h \in Callers, Confirm(h), NeedsConfirmation(h) PROVE PA!Next
    <3>1. /\ call[h].user \in Users /\ call[h].target \in Targets
          /\ call[h].id \in ActionIds /\ stage[h] = "gate"
      BY <2>0, <2>1 DEF TypeOK, Requests, LinkInv, Linked, Confirm
    <3>2. CASE call[h].confirm
      <4>1. PA!Begin(h, "consume", call[h].user, call[h].target, call[h].id)
        BY <2>1, <3>2 DEF Confirm
      <4> QED BY <3>1, <4>1 DEF PA!Next, PA!BeginConsume
    <3>3. CASE ~call[h].confirm
      <4>1. PA!Begin(h, "create", call[h].user, call[h].target, call[h].id)
        BY <2>1, <3>3 DEF Confirm
      <4>2. docs[call[h].id].status = "unissued"
        BY <3>1, <3>3 DEF IInv, ReserveInv
      <4>3. ASSUME NEW g \in Handlers, req[g].op = "create", step[g] = "update",
                   req[g].id = call[h].id
            PROVE  FALSE
        <5>1. g \in Callers /\ stage[g] = "confirm" /\ ~call[g].confirm
              /\ call[g].id = call[h].id
          BY <2>0, <4>3 DEF LinkInv, Linked
        <5>2. g = h
          BY <3>1, <3>3, <5>1 DEF IInv, ReserveInv
        <5> QED BY <3>1, <5>1, <5>2
      <4>4. PA!BeginCreate(h)
        BY <3>1, <4>1, <4>2, <4>3 DEF PA!BeginCreate
      <4> QED BY <4>4 DEF PA!Next
    <3> QED BY <3>2, <3>3
  <2>2. ASSUME NEW h \in Callers, Start(h) \/ CallerStep(h) \/ DbFault(h),
               ~(Confirm(h) /\ NeedsConfirmation(h))
        PROVE  PA!HandlerStep(h) \/ PA!Fail(h) \/ UNCHANGED queue
    <3>1. CASE ConfirmStep(h) \/ Confirmed(h) \/ DbFault(h)
      BY <3>1 DEF ConfirmStep, Confirmed, DbFault, PA!HandlerStep
    <3>2. CASE Start(h)
      BY <2>0, <3>2, StartEffect
    <3>3. CASE \/ Forbid(h) \/ CheckUsage(h) \/ CheckQuota(h) \/ CodeDisabled(h)
               \/ CacheHit(h) \/ CacheMiss(h) \/ NotCallable(h) \/ AttemptOk(h)
               \/ AttemptProtocolError(h) \/ AttemptFailed(h) \/ RunCode(h) \/ MeterStep(h)
               \/ Store(h) \/ Invalidate(h) \/ Bill(h) \/ Return(h)
      BY <3>3 DEF Forbid, CheckUsage, CheckQuota, CodeDisabled, CacheHit, CacheMiss,
         NotCallable, AttemptOk, AttemptProtocolError, AttemptFailed, RunCode, MeterStep,
         Store, Invalidate, Bill, Return, GiveUp
    <3>4. CASE Confirm(h)
      BY <2>2, <3>4 DEF Confirm
    <3> QED BY <2>2, <3>1, <3>2, <3>3, <3>4 DEF CallerStep
  <2>3. ASSUME NEW a \in Admins, AdminStep(a) PROVE PA!Next
    BY <2>3 DEF AdminStep, PA!Next, PA!HandlerStep
  <2>4. CASE Environment \/ UNCHANGED vars
    BY <2>0, <2>4, OthersInQueue DEF PA!Next
  <2> QED BY <2>0, <2>1, <2>2, <2>3, <2>4 DEF Next, PA!Next, CallerStep
<1> QED BY Invariance, <1>1, <1>2, PTL DEF Spec, QueueSpec, PA!Spec

\* The pipeline calls the metering service as its own specification says.
THEOREM UsesTheMeters == Spec => MeteringSpec
<1>1. Init => UM!MInit
  BY DEF Init
<1>2. [Next]_vars => [UM!MNext]_(UM!mvars)
  <2> SUFFICES ASSUME [Next]_vars PROVE UM!MNext \/ UNCHANGED UM!mvars
    OBVIOUS
  <2>0. UNCHANGED meters => UNCHANGED UM!mvars
    BY DEF meters, UM!mvars, UM!counters, UM!locals
  <2>1. ASSUME NEW h \in Callers, CheckUsage(h) PROVE UM!MNext
    BY <2>1 DEF CheckUsage, UM!MNext
  <2>2. ASSUME NEW h \in Callers,
               Start(h) \/ CallerStep(h) \/ DbFault(h), ~CheckUsage(h)
        PROVE  UM!MStep(h) \/ UNCHANGED meters
    <3> USE DEF UM!MStep
    <3>1. CASE \/ Forbid(h) \/ Confirm(h) \/ ConfirmStep(h) \/ CacheMiss(h) \/ Store(h)
               \/ Invalidate(h) \/ Return(h)
      BY <3>1 DEF Forbid, Confirm, ConfirmStep, CacheMiss, Store, Invalidate, Return
    <3>2. CASE CheckQuota(h) \/ CodeDisabled(h) \/ CacheHit(h) \/ AttemptOk(h) \/ Bill(h)
      BY <3>2 DEF CheckQuota, CodeDisabled, CacheHit, AttemptOk, Bill
    <3>3. CASE NotCallable(h) \/ AttemptProtocolError(h) \/ AttemptFailed(h) \/ RunCode(h)
               \/ MeterStep(h)
      BY <3>3 DEF NotCallable, AttemptProtocolError, AttemptFailed, RunCode, MeterStep, GiveUp
    <3>4. CASE Confirmed(h) \/ DbFault(h)
      BY <3>4 DEF Confirmed, DbFault
    <3>5. CASE Start(h)
      BY <3>5 DEF Start
    <3> QED BY <2>2, <3>1, <3>2, <3>3, <3>4, <3>5 DEF CallerStep
  <2>3. ASSUME NEW a \in Admins, AdminStep(a) PROVE UNCHANGED meters
    BY <2>3 DEF AdminStep
  <2>4. CASE Environment
    BY <2>0, <2>4 DEF Environment, CacheExpire, UM!MNext
  <2>5. CASE UNCHANGED vars
    BY <2>0, <2>5 DEF vars
  <2> QED BY <2>0, <2>1, <2>2, <2>3, <2>4, <2>5 DEF Next, UM!MNext
<1> QED BY <1>1, <1>2, PTL DEF Spec, MeteringSpec, UM!MSpec
=============================================================================

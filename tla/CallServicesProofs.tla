--------------------------- MODULE CallServicesProofs -----------------------
(***************************************************************************)
(* Proofs about the services that a tools/call goes through.  Of the       *)
(* approval queue (PendingActions), for any number of users, targets, ids  *)
(* and handlers; of the metering (UsageMetering), for any number of        *)
(* callers, months, quotas and faults, that the quota is overrun by a      *)
(* bounded amount only and that the call ledger agrees with the counters;  *)
(* and of who may call (Access), for any number of accounts, edits at      *)
(* once, tokens, replicas, tools, catalogs and policies.                   *)
(***************************************************************************)
EXTENDS Access, PendingActions, UsageMetering, FiniteSetTheorems, TLAPS

-----------------------------------------------------------------------------
(* The approval queue                                                      *)

\* A document's history fixes its status: consumed exactly when used once,
\* decided by a second person, undecided while pending, issued when stored.
DocInv ==
  \A i \in ActionIds :
    /\ uses[i] = IF docs[i].status = "consumed" THEN 1 ELSE 0
    /\ docs[i].status \in {"approved", "rejected", "consumed"}
         => docs[i].decided_by \in Users /\ docs[i].decided_by # docs[i].user
    /\ docs[i].status \in {"unissued", "pending"} => docs[i].decided_by = NoUser
    /\ i \in stored => docs[i].status # "unissued"

\* A handler's clock reading is not in the future and not older than Latency
\* while it is in the database.
ClockInv ==
  \A h \in Handlers :
    /\ req[h].now <= clock
    /\ step[h] \in {"update", "diagnose"} => clock <= req[h].now + Latency

\* What a finished consume was told, in terms of facts no later step undoes.
ReplyInv ==
  \A h \in Handlers : LET k == req[h]  d == docs[req[h].id] IN
    step[h] = "done" /\ k.op = "consume" =>
      /\ outcome[h] = "ok" => /\ d.status = "consumed"
                              /\ d.user = k.user /\ d.target = k.target
      /\ outcome[h] = "mismatch" => /\ d.status # "unissued"
                                    /\ d.user # k.user \/ d.target # k.target
      /\ outcome[h] = "already_consumed" => d.status = "consumed"
      /\ outcome[h] = "expired" => /\ d.status # "unissued"
                                   /\ d.expires <= k.now

IInv == TypeOK /\ DocInv /\ ClockInv /\ ReplyInv

-----------------------------------------------------------------------------
\* The defaults that fill unused fields exist.
LEMMA DefaultsExist ==
  AnyUser \in Users /\ AnyTarget \in Targets /\ AnyId \in ActionIds
  BY PeopleAssumption DEF AnyUser, AnyTarget, AnyId

\* Every initial state satisfies the inductive invariant.
LEMMA InitIInv == Init => IInv
  BY DefaultsExist, TimeAssumption
  DEF Init, IInv, TypeOK, DocInv, ClockInv, ReplyInv, Doc, Request, Ops, Steps,
      Decisions, Outcomes, NoRequest, Unissued, NoUser

\* Every step of the approval queue keeps every variable in its type.
LEMMA TypeStep == TypeOK /\ [Next]_vars => TypeOK'
<1> SUFFICES ASSUME TypeOK, [Next]_vars PROVE TypeOK'
  OBVIOUS
<1> USE DefaultsExist, TimeAssumption
    DEF TypeOK, Doc, Request, Steps, Outcomes
<1>1. ASSUME NEW h \in Handlers, BeginCreate(h) PROVE TypeOK'
  BY <1>1 DEF BeginCreate, Begin, Ops
<1>2. ASSUME NEW h \in Handlers, BeginConsume(h) PROVE TypeOK'
  BY <1>2 DEF BeginConsume, Begin, Ops
<1>3. ASSUME NEW h \in Handlers, BeginDecide(h) PROVE TypeOK'
  BY <1>3 DEF BeginDecide, Begin, Ops
<1>4. ASSUME NEW h \in Handlers, Create(h) PROVE TypeOK'
  BY <1>4 DEF Create, Done
<1>5. ASSUME NEW h \in Handlers, ConsumeUpdate(h) PROVE TypeOK'
  <2>1. CASE Consumable(req[h])
    <3>0. docs' = [docs EXCEPT ![req[h].id].status = "consumed"]
      BY <1>5, <2>1 DEF ConsumeUpdate
    <3>1. docs' \in [ActionIds -> Doc]
      BY <3>0
    <3>2. uses' \in [ActionIds -> Nat]
      BY <1>5, <2>1 DEF ConsumeUpdate
    <3> QED BY <1>5, <2>1, <3>1, <3>2 DEF ConsumeUpdate, Done
  <2>2. CASE ~Consumable(req[h])
    BY <1>5, <2>2 DEF ConsumeUpdate, Diagnose
  <2> QED BY <2>1, <2>2
<1>6. ASSUME NEW h \in Handlers, ConsumeDiagnose(h) PROVE TypeOK'
  <2>1. ConsumeReason(req[h]) \in Outcomes
    BY DEF ConsumeReason
  <2> QED BY <1>6, <2>1 DEF ConsumeDiagnose, Done
<1>7. ASSUME NEW h \in Handlers, DecideUpdate(h) PROVE TypeOK'
  <2>1. CASE Decidable(req[h])
    <3>1. NewStatus(req[h].op) \in {"approved", "rejected"} /\ req[h].user \in Users
      BY DEF NewStatus
    <3>0. docs' = [docs EXCEPT ![req[h].id].status = NewStatus(req[h].op),
                               ![req[h].id].decided_by = req[h].user]
      BY <1>7, <2>1 DEF DecideUpdate
    <3>2. docs' \in [ActionIds -> Doc]
      <4> DEFINE d == [docs[req[h].id] EXCEPT !.status = NewStatus(req[h].op),
                                              !.decided_by = req[h].user]
      <4>0. docs[req[h].id] \in Doc
        OBVIOUS
      <4>1. d \in Doc
        BY <3>1, <4>0
      <4>2. docs' = [docs EXCEPT ![req[h].id] = d]
        BY <3>0, <4>0
      <4> HIDE DEF d
      <4> QED BY <4>1, <4>2
    <3> QED BY <1>7, <2>1, <3>2 DEF DecideUpdate, Done
  <2>2. CASE ~Decidable(req[h])
    BY <1>7, <2>2 DEF DecideUpdate, Diagnose
  <2> QED BY <2>1, <2>2
<1>8. ASSUME NEW h \in Handlers, DecideDiagnose(h) PROVE TypeOK'
  <2>1. DecideReason(req[h]) \in Outcomes
    BY DEF DecideReason
  <2> QED BY <1>8, <2>1 DEF DecideDiagnose, Done
<1>9. ASSUME NEW h \in Handlers, Reply(h) \/ Fail(h) PROVE TypeOK'
  <2>1. Return(h)
    BY <1>9 DEF Reply, Fail
  <2> QED BY <2>1 DEF Return, NoRequest, Ops
<1>10. ASSUME NEW i \in ActionIds, TtlDelete(i) PROVE TypeOK'
  BY <1>10 DEF TtlDelete, task
<1>11. CASE Tick
  BY <1>11 DEF Tick, task
<1>12. CASE UNCHANGED vars
  BY <1>12 DEF vars
<1> QED
  BY <1>1, <1>2, <1>3, <1>4, <1>5, <1>6, <1>7, <1>8, <1>9, <1>10, <1>11, <1>12
  DEF Next, HandlerStep

\* Every step keeps the history of every document consistent.
LEMMA DocStep == TypeOK /\ DocInv /\ [Next]_vars => DocInv'
<1> SUFFICES ASSUME TypeOK, DocInv, [Next]_vars PROVE DocInv'
  OBVIOUS
<1> USE DefaultsExist, TimeAssumption DEF TypeOK, Doc, Request, DocInv
<1>1. ASSUME UNCHANGED <<docs, stored, uses>> PROVE DocInv'
  BY <1>1
<1>2. ASSUME NEW h \in Handlers, Create(h) PROVE DocInv'
  BY <1>2 DEF Create
<1>3. ASSUME NEW h \in Handlers, ConsumeUpdate(h) PROVE DocInv'
  <2>1. CASE Consumable(req[h])
    BY <1>3, <2>1 DEF ConsumeUpdate, Consumable
  <2>2. CASE ~Consumable(req[h])
    BY <1>1, <1>3, <2>2 DEF ConsumeUpdate
  <2> QED BY <2>1, <2>2
<1>4. ASSUME NEW h \in Handlers, DecideUpdate(h) PROVE DocInv'
  <2>1. CASE Decidable(req[h])
    <3>1. NewStatus(req[h].op) \in {"approved", "rejected"}
      BY DEF NewStatus
    <3> QED BY <1>4, <2>1, <3>1 DEF DecideUpdate, Decidable
  <2>2. CASE ~Decidable(req[h])
    BY <1>1, <1>4, <2>2 DEF DecideUpdate
  <2> QED BY <2>1, <2>2
<1>5. ASSUME NEW i \in ActionIds, TtlDelete(i) PROVE DocInv'
  BY <1>5 DEF TtlDelete
<1> QED
  BY <1>1, <1>2, <1>3, <1>4, <1>5
  DEF Next, HandlerStep, BeginCreate, BeginConsume, BeginDecide, Begin, vars,
      ConsumeDiagnose, DecideDiagnose, Reply, Fail, Return, Tick

\* Every step keeps the handlers' clock readings recent.
LEMMA ClockStep == TypeOK /\ ClockInv /\ [Next]_vars => ClockInv'
<1> SUFFICES ASSUME TypeOK, ClockInv, [Next]_vars PROVE ClockInv'
  OBVIOUS
<1> USE DefaultsExist, TimeAssumption DEF TypeOK, Request, ClockInv
<1>1. ASSUME NEW h \in Handlers, BeginCreate(h) \/ BeginConsume(h) \/ BeginDecide(h)
      PROVE ClockInv'
  BY <1>1 DEF BeginCreate, BeginConsume, BeginDecide, Begin
<1>2. ASSUME NEW h \in Handlers, Create(h) \/ ConsumeDiagnose(h) \/ DecideDiagnose(h)
      PROVE ClockInv'
  BY <1>2 DEF Create, ConsumeDiagnose, DecideDiagnose, Done
<1>3. ASSUME NEW h \in Handlers, ConsumeUpdate(h) \/ DecideUpdate(h) PROVE ClockInv'
  <2>1. /\ clock' = clock /\ req' = req /\ step[h] = "update"
        /\ step' = [step EXCEPT ![h] = "done"] \/ step' = [step EXCEPT ![h] = "diagnose"]
    BY <1>3 DEF ConsumeUpdate, DecideUpdate, Done, Diagnose
  <2> QED BY <2>1
<1>4. ASSUME NEW h \in Handlers, Reply(h) \/ Fail(h) PROVE ClockInv'
  <2>1. /\ clock' = clock /\ req' = [req EXCEPT ![h] = NoRequest] /\ NoRequest.now = 0
        /\ step' = [step EXCEPT ![h] = "idle"]
    BY <1>4 DEF Reply, Fail, Return, NoRequest
  <2> QED BY <2>1
<1>5. ASSUME NEW i \in ActionIds, TtlDelete(i) PROVE ClockInv'
  BY <1>5 DEF TtlDelete, task
<1>6. CASE Tick
  BY <1>6 DEF Tick, task
<1>7. CASE UNCHANGED vars
  BY <1>7 DEF vars
<1> QED
  BY <1>1, <1>2, <1>3, <1>4, <1>5, <1>6, <1>7 DEF Next, HandlerStep

\* Nothing that happens after a consume was answered makes the answer false.
LEMMA ReplyStep ==
  TypeOK /\ DocInv /\ ClockInv /\ ReplyInv /\ [Next]_vars => ReplyInv'
<1> SUFFICES ASSUME TypeOK, DocInv, ClockInv, ReplyInv, [Next]_vars PROVE ReplyInv'
  OBVIOUS
<1> USE DefaultsExist, TimeAssumption DEF TypeOK, Doc, Request, ReplyInv
<1>1. ASSUME NEW h \in Handlers, BeginCreate(h) \/ BeginConsume(h) \/ BeginDecide(h)
      PROVE ReplyInv'
  <2>1. /\ docs' = docs /\ outcome' = outcome /\ step'[h] = "update"
        /\ \A g \in Handlers : g # h => step'[g] = step[g] /\ req'[g] = req[g]
    BY <1>1 DEF BeginCreate, BeginConsume, BeginDecide, Begin
  <2> QED BY <2>1
<1>2. ASSUME NEW h \in Handlers, Create(h) PROVE ReplyInv'
  <2>1. \A i \in ActionIds : docs[i].status # "unissued" => docs'[i] = docs[i]
    BY <1>2 DEF Create
  <2>2. req' = req /\ \A g \in Handlers : g # h => step'[g] = step[g] /\ outcome'[g] = outcome[g]
    BY <1>2 DEF Create, Done
  <2>3. req[h].op # "consume" /\ \A g \in Handlers : req[g].id \in ActionIds
    BY <1>2 DEF Create
  <2> QED BY <2>1, <2>2, <2>3
<1>3. ASSUME NEW h \in Handlers, ConsumeUpdate(h) PROVE ReplyInv'
  <2>1. CASE Consumable(req[h])
    <3>1. \A i \in ActionIds :
            /\ docs'[i].user = docs[i].user
            /\ docs'[i].target = docs[i].target
            /\ docs'[i].expires = docs[i].expires
            /\ docs[i].status = "consumed" => docs'[i].status = "consumed"
            /\ docs[i].status # "unissued" => docs'[i].status # "unissued"
      <4>1. docs' = [docs EXCEPT ![req[h].id].status = "consumed"]
        BY <1>3, <2>1 DEF ConsumeUpdate
      <4> QED BY <4>1
    <3>2. req' = req /\ \A g \in Handlers : g # h => step'[g] = step[g] /\ outcome'[g] = outcome[g]
      BY <1>3, <2>1 DEF ConsumeUpdate, Done
    <3>3. outcome'[h] = "ok" /\ docs'[req[h].id].status = "consumed"
      BY <1>3, <2>1 DEF ConsumeUpdate, Done
    <3>4. docs[req[h].id].user = req[h].user /\ docs[req[h].id].target = req[h].target
          /\ docs[req[h].id].expires > req[h].now
      BY <2>1 DEF Consumable
    <3>5. \A g \in Handlers : req[g].id \in ActionIds
      OBVIOUS
    <3> QED BY <3>1, <3>2, <3>3, <3>4, <3>5
  <2>2. CASE ~Consumable(req[h])
    BY <1>3, <2>2 DEF ConsumeUpdate, Diagnose
  <2> QED BY <2>1, <2>2
<1>4. ASSUME NEW h \in Handlers, ConsumeDiagnose(h) PROVE ReplyInv'
  BY <1>4 DEF ConsumeDiagnose, ConsumeReason, Done, DocInv
<1>5. ASSUME NEW h \in Handlers, DecideUpdate(h) PROVE ReplyInv'
  <2>0. req[h].op # "consume"
    BY <1>5 DEF DecideUpdate, Decisions
  <2>1. CASE Decidable(req[h])
    <3>1. NewStatus(req[h].op) # "unissued"
      BY DEF NewStatus
    <3>2. \A i \in ActionIds :
            /\ docs'[i].user = docs[i].user
            /\ docs'[i].target = docs[i].target
            /\ docs'[i].expires = docs[i].expires
            /\ docs[i].status = "consumed" => docs'[i].status = "consumed"
            /\ docs[i].status # "unissued" => docs'[i].status # "unissued"
      BY <1>5, <2>1, <3>1 DEF DecideUpdate, Decidable
    <3>3. req' = req /\ \A g \in Handlers : g # h => step'[g] = step[g] /\ outcome'[g] = outcome[g]
      BY <1>5, <2>1 DEF DecideUpdate, Done
    <3>4. \A g \in Handlers : req[g].id \in ActionIds
      OBVIOUS
    <3> QED BY <2>0, <3>2, <3>3, <3>4
  <2>2. CASE ~Decidable(req[h])
    BY <1>5, <2>0, <2>2 DEF DecideUpdate, Diagnose
  <2> QED BY <2>1, <2>2
<1>6. ASSUME NEW h \in Handlers, DecideDiagnose(h) PROVE ReplyInv'
  BY <1>6 DEF DecideDiagnose, Decisions, Done
<1>7. ASSUME NEW h \in Handlers, Reply(h) \/ Fail(h) PROVE ReplyInv'
  <2>1. docs' = docs /\ step'[h] # "done"
    BY <1>7 DEF Reply, Fail, Return
  <2>2. \A g \in Handlers : g # h => /\ step'[g] = step[g] /\ req'[g] = req[g]
                                    /\ outcome'[g] = outcome[g]
    BY <1>7 DEF Reply, Fail, Return
  <2>3. \A g \in Handlers : step'[g] = "done" =>
          step[g] = "done" /\ req'[g] = req[g] /\ outcome'[g] = outcome[g]
    BY <2>1, <2>2
  <2> QED BY <2>1, <2>3
<1>8. ASSUME NEW i \in ActionIds, TtlDelete(i) PROVE ReplyInv'
  BY <1>8 DEF TtlDelete, task
<1>9. CASE Tick
  BY <1>9 DEF Tick, task
<1>10. CASE UNCHANGED vars
  BY <1>10 DEF vars
<1> QED
  BY <1>1, <1>2, <1>3, <1>4, <1>5, <1>6, <1>7, <1>8, <1>9, <1>10
  DEF Next, HandlerStep

-----------------------------------------------------------------------------
\* The inductive invariant holds in every reachable state.
THEOREM Invariance == Spec => []IInv
<1>1. IInv /\ [Next]_vars => IInv'
  BY TypeStep, DocStep, ClockStep, ReplyStep DEF IInv
<1> QED
  BY InitIInv, <1>1, PTL DEF Spec

\* Type correctness of the approval queue.
THEOREM TypeCorrect == Spec => []TypeOK
<1>1. IInv => TypeOK
  BY DEF IInv
<1> QED BY Invariance, <1>1, PTL

\* No approval is ever spent twice, however many handlers race for it.
THEOREM ApprovalIsSingleUse == Spec => []SingleUse
<1>1. IInv => SingleUse
  BY DEF IInv, DocInv, SingleUse, TypeOK
<1> QED BY Invariance, <1>1, PTL

\* Whatever was consumed had been approved by somebody else.
THEOREM ApprovalIsSecondPerson == Spec => []SecondPerson
<1>1. IInv => SecondPerson
  BY DEF IInv, DocInv, SecondPerson, TypeOK
<1> QED BY Invariance, <1>1, PTL

\* The answer of the two-step consume is true of the action.
THEOREM AnswersAreSound == Spec => []DiagnosisSound
<1>1. IInv => DiagnosisSound
  <2> SUFFICES ASSUME IInv, NEW h \in Handlers, step[h] = "done", req[h].op = "consume"
               PROVE  LET k == req[h]  d == docs[req[h].id] IN
                        /\ outcome[h] = "ok" => /\ uses[k.id] = 1
                                                /\ d.user = k.user /\ d.target = k.target
                        /\ outcome[h] = "mismatch" => d.user # k.user \/ d.target # k.target
                        /\ outcome[h] = "already_consumed" => uses[k.id] = 1
                        /\ outcome[h] = "expired" => d.expires <= clock
    BY DEF DiagnosisSound
  <2>1. /\ req[h].id \in ActionIds /\ req[h].now \in Nat /\ clock \in Nat
        /\ docs[req[h].id].expires \in Nat
    BY DEF IInv, TypeOK, Request, Doc
  <2> QED BY <2>1 DEF IInv, DocInv, ClockInv, ReplyInv
<1> QED BY Invariance, <1>1, PTL

\* Decisions are final and the terms of an action never change.
THEOREM DecisionsAreFinal == Spec => DecisionIsFinal
<1> DEFINE Final ==
      \A i \in ActionIds : docs'[i] # docs[i] =>
       /\ <<docs[i].status, docs'[i].status>> \in Transitions
       /\ docs[i].status # "unissued" =>
            /\ docs'[i].user = docs[i].user
            /\ docs'[i].target = docs[i].target
            /\ docs'[i].expires = docs[i].expires
       /\ docs[i].decided_by # NoUser => docs'[i].decided_by = docs[i].decided_by
<1>1. IInv /\ [Next]_vars => [Final]_vars
  <2> SUFFICES ASSUME IInv, [Next]_vars PROVE Final
    OBVIOUS
  <2> USE DEF IInv, TypeOK, Doc, Request, Transitions
  <2>1. ASSUME UNCHANGED docs PROVE Final
    BY <2>1
  <2>2. ASSUME NEW h \in Handlers, Create(h) PROVE Final
    BY <2>2 DEF Create, DocInv
  <2>3. ASSUME NEW h \in Handlers, ConsumeUpdate(h) PROVE Final
    BY <2>3 DEF ConsumeUpdate, Consumable
  <2>4. ASSUME NEW h \in Handlers, DecideUpdate(h) PROVE Final
    <3>1. NewStatus(req[h].op) \in {"approved", "rejected"}
      BY DEF NewStatus
    <3>2. \A i \in ActionIds : docs'[i] # docs[i] =>
            /\ docs[i].status = "pending" /\ docs'[i].status \in {"approved", "rejected"}
            /\ docs'[i].user = docs[i].user /\ docs'[i].target = docs[i].target
            /\ docs'[i].expires = docs[i].expires
      BY <2>4, <3>1 DEF DecideUpdate, Decidable
    <3> QED BY <3>2 DEF DocInv
  <2> QED
    BY <2>1, <2>2, <2>3, <2>4
    DEF Next, HandlerStep, BeginCreate, BeginConsume, BeginDecide, Begin, vars,
        ConsumeDiagnose, DecideDiagnose, Reply, Fail, Return, TtlDelete, Tick
<1> QED BY Invariance, <1>1, PTL DEF Spec, DecisionIsFinal

\* Past its expiry an action only changes within one database round trip.
THEOREM ExpiryIsEnforced == Spec => ExpiredIsInert
<1> DEFINE Inert ==
      \A i \in ActionIds : docs[i].status # "unissued" /\ docs'[i] # docs[i]
        => clock < docs[i].expires + Latency
<1>1. IInv /\ [Next]_vars => [Inert]_vars
  <2> SUFFICES ASSUME IInv, [Next]_vars PROVE Inert
    OBVIOUS
  <2> USE TimeAssumption DEF IInv, TypeOK, Doc, Request, ClockInv
  <2>1. ASSUME UNCHANGED docs PROVE Inert
    BY <2>1
  <2>2. ASSUME NEW h \in Handlers, Create(h) PROVE Inert
    BY <2>2 DEF Create
  <2>3. ASSUME NEW h \in Handlers, ConsumeUpdate(h) PROVE Inert
    BY <2>3 DEF ConsumeUpdate, Consumable
  <2>4. ASSUME NEW h \in Handlers, DecideUpdate(h) PROVE Inert
    BY <2>4 DEF DecideUpdate, Decidable
  <2> QED
    BY <2>1, <2>2, <2>3, <2>4
    DEF Next, HandlerStep, BeginCreate, BeginConsume, BeginDecide, Begin, vars,
        ConsumeDiagnose, DecideDiagnose, Reply, Fail, Return, TtlDelete, Tick
<1> QED BY Invariance, <1>1, PTL DEF Spec, ExpiredIsInert

-----------------------------------------------------------------------------
(* The metering service                                                    *)

N == Cardinality(Callers)

\* Callers that may still charge a call: the quota let them in, or will,
\* whatever it is set to when they read it.
Pending == {h \in Callers :
              \/ mstep[h] = "quota" /\ snap[h].calls < MaxCalls
              \/ mstep[h] \in {"admitted", "ms_usage", "ms_event", "call_usage"}}

\* The strengthening of QuotaOverrunBounded: what has been charged to the
\* current month plus what may still be charged to it obeys the bound, and
\* nothing is charged to a month that has not begun.
QuotaInv ==
  \A p \in Periods :
    /\ calls[p] <= MaxCalls + N - 1
    /\ p = period => calls[p] + Cardinality(Pending) <= MaxCalls + N - 1
    /\ p > period => calls[p] = 0

MInv == MTypeOK /\ QuotaInv /\ CallLedgerTracksUsage

-----------------------------------------------------------------------------
\* The callers are finitely many, so subsets of them are counted by naturals.
LEMMA CallersCount ==
  /\ N \in Nat
  /\ \A S \in SUBSET Callers : /\ IsFiniteSet(S) /\ Cardinality(S) \in Nat
                                /\ Cardinality(S) <= N
  BY BoundAssumption, FS_CardinalityType, FS_Subset DEF N

\* Counting is monotone on sets of callers.
LEMMA CountMonotone ==
  ASSUME NEW S \in SUBSET Callers, NEW T \in SUBSET S
  PROVE  Cardinality(T) <= Cardinality(S)
  BY CallersCount, FS_Subset

\* Adding or removing one caller changes the count by one.
LEMMA CountOne ==
  ASSUME NEW S \in SUBSET Callers, NEW h \in Callers
  PROVE  /\ h \in S => Cardinality(S \ {h}) = Cardinality(S) - 1
         /\ h \notin S => Cardinality(S \cup {h}) = Cardinality(S) + 1
  BY CallersCount, FS_AddElement, FS_RemoveElement

-----------------------------------------------------------------------------
\* Every step keeps every variable in its type.
LEMMA MTypeStep == MTypeOK /\ [MNext]_mvars => MTypeOK'
<1> SUFFICES ASSUME MTypeOK, [MNext]_mvars PROVE MTypeOK'
  OBVIOUS
<1> DEFINE Costs == 0 .. Wall
           Snaps == [calls: Nat, ms: Nat]
<1>a. /\ 0 \in Periods /\ 0 \in Costs /\ [calls |-> 0, ms |-> 0] \in Snaps
      /\ \A c \in Costs : c \in Nat
      /\ Projections \subseteq Nat
  BY SandboxAssumption, BoundAssumption DEF Periods
<1>b. /\ period \in Periods /\ limit \in Limits /\ faults \in Nat
      /\ calls \in [Periods -> Nat] /\ callEvents \in [Periods -> Nat]
      /\ sandboxMs \in [Periods -> Nat] /\ msEvents \in [Periods -> Nat]
      /\ mstep \in [Callers -> MSteps] /\ snap \in [Callers -> Snaps]
      /\ projected \in [Callers -> Nat] /\ cost \in [Callers -> Costs]
      /\ billPeriod \in [Callers -> Periods]
  BY DEF MTypeOK
<1> DEFINE Typed ==
      /\ period' \in Periods /\ limit' \in Limits /\ faults' \in Nat
      /\ calls' \in [Periods -> Nat] /\ callEvents' \in [Periods -> Nat]
      /\ sandboxMs' \in [Periods -> Nat] /\ msEvents' \in [Periods -> Nat]
      /\ mstep' \in [Callers -> MSteps] /\ snap' \in [Callers -> Snaps]
      /\ projected' \in [Callers -> Nat] /\ cost' \in [Callers -> Costs]
      /\ billPeriod' \in [Callers -> Periods]
<1>c. SUFFICES Typed
  BY DEF MTypeOK
<1> HIDE DEF Costs, Snaps
<1>d. \A f, p, n : f \in [Periods -> Nat] /\ p \in Periods /\ n \in Nat
                  => [f EXCEPT ![p] = f[p] + n] \in [Periods -> Nat]
  OBVIOUS
<1>e. \A h \in Callers, s \in MSteps : [mstep EXCEPT ![h] = s] \in [Callers -> MSteps]
  BY <1>b
<1>f. ASSUME NEW h \in Callers, End(h)
      PROVE /\ mstep' \in [Callers -> MSteps] /\ snap' \in [Callers -> Snaps]
            /\ projected' \in [Callers -> Nat] /\ cost' \in [Callers -> Costs]
            /\ billPeriod' \in [Callers -> Periods]
  BY <1>a, <1>b, <1>f DEF End, GoTo, MSteps
<1>1. ASSUME NEW h \in Callers, NEW ms \in {0} \cup Projections, CheckUsage(h, ms)
      PROVE Typed
  <2>1. [calls |-> calls[period], ms |-> sandboxMs[period]] \in Snaps
    BY <1>b DEF Snaps
  <2>2. snap' \in [Callers -> Snaps] /\ projected' \in [Callers -> Nat]
    BY <1>1, <1>a, <1>b, <2>1 DEF CheckUsage
  <2>3. mstep' \in [Callers -> MSteps]
    BY <1>1, <1>e DEF CheckUsage, GoTo, MSteps
  <2> QED BY <1>1, <1>b, <2>2, <2>3 DEF CheckUsage, counters
<1>2. ASSUME NEW h \in Callers, CheckQuota(h) PROVE Typed
  <2>1. CASE Admissible(h)
    <3>1. mstep' \in [Callers -> MSteps]
      BY <1>2, <1>e, <2>1 DEF CheckQuota, GoTo, MSteps
    <3> QED BY <1>2, <1>b, <2>1, <3>1 DEF CheckQuota, counters
  <2>2. CASE ~Admissible(h)
    BY <1>f, <1>2, <1>b, <2>2 DEF CheckQuota, counters
  <2> QED BY <2>1, <2>2
<1>3. ASSUME NEW h \in Callers, Unbilled(h) PROVE Typed
  BY <1>f, <1>3, <1>b DEF Unbilled, counters
<1>4. ASSUME NEW h \in Callers, Answered(h) PROVE Typed
  <2>1. mstep' \in [Callers -> MSteps]
    BY <1>4, <1>e DEF Answered, GoTo, MSteps
  <2> QED BY <1>4, <1>b, <2>1 DEF Answered, counters
<1>5. ASSUME NEW h \in Callers, SandboxRan(h) PROVE Typed
  <2>1. mstep' \in [Callers -> MSteps]
    BY <1>5, <1>e DEF SandboxRan, GoTo, MSteps
  <2>2. cost' \in [Callers -> Costs]
    BY <1>5, <1>b DEF SandboxRan, Costs
  <2> QED BY <1>5, <1>b, <2>1, <2>2 DEF SandboxRan, counters
<1>6. ASSUME NEW h \in Callers, RecordMs(h) PROVE Typed
  <2>1. mstep' \in [Callers -> MSteps]
    BY <1>6, <1>e DEF RecordMs, GoTo, MSteps
  <2>2. cost[h] \in Nat
    BY <1>a, <1>b
  <2>3. sandboxMs' \in [Periods -> Nat]
    BY <1>6, <1>b, <1>d, <2>2 DEF RecordMs
  <2> QED BY <1>6, <1>b, <2>1, <2>3 DEF RecordMs
<1>7. ASSUME NEW h \in Callers, EmitMs(h) PROVE Typed
  <2>1. mstep' \in [Callers -> MSteps]
    BY <1>7, <1>e DEF EmitMs, GoTo, MSteps
  <2>2. cost[h] \in Nat
    BY <1>a, <1>b
  <2>3. msEvents' \in [Periods -> Nat]
    BY <1>7, <1>b, <1>d, <2>2 DEF EmitMs
  <2> QED BY <1>7, <1>b, <2>1, <2>3 DEF EmitMs
<1>8. ASSUME NEW h \in Callers, RecordCall(h) PROVE Typed
  <2>1. mstep' \in [Callers -> MSteps]
    BY <1>8, <1>e DEF RecordCall, GoTo, MSteps
  <2>2. calls' \in [Periods -> Nat] /\ billPeriod' \in [Callers -> Periods]
    BY <1>8, <1>b, <1>d DEF RecordCall
  <2> QED BY <1>8, <1>b, <2>1, <2>2 DEF RecordCall
<1>9. ASSUME NEW h \in Callers, EmitCall(h) PROVE Typed
  <2>1. callEvents' \in [Periods -> Nat]
    BY <1>9, <1>b, <1>d DEF EmitCall
  <2> QED BY <1>f, <1>9, <1>b, <2>1 DEF EmitCall
<1>10. ASSUME NEW h \in Callers, Fault(h) PROVE Typed
  BY <1>f, <1>10, <1>b DEF Fault, counters
<1>11. CASE SetQuota
  BY <1>11, <1>b DEF SetQuota, counters, locals
<1>12. CASE Rollover
  <2>1. period' \in Periods
    BY <1>12, <1>b, BoundAssumption DEF Rollover, Periods
  <2> QED BY <1>12, <1>b, <2>1 DEF Rollover, counters, locals
<1>13. CASE UNCHANGED mvars
  BY <1>13, <1>b DEF mvars, counters, locals
<1> QED
  BY <1>1, <1>2, <1>3, <1>4, <1>5, <1>6, <1>7, <1>8, <1>9, <1>10, <1>11, <1>12, <1>13
  DEF MNext, MStep

\* Every step keeps the charged and the chargeable calls within the bound.
LEMMA QuotaStep == MTypeOK /\ QuotaInv /\ [MNext]_mvars => QuotaInv'
<1> SUFFICES ASSUME MTypeOK, QuotaInv, [MNext]_mvars PROVE QuotaInv'
  OBVIOUS
<1>0. /\ Pending \in SUBSET Callers /\ Pending' \in SUBSET Callers
      /\ Cardinality(Pending) \in Nat /\ Cardinality(Pending') \in Nat
      /\ Cardinality(Pending') <= N /\ N \in Nat
      /\ \A p \in Periods : calls[p] \in Nat /\ p \in Nat
      /\ period \in Periods /\ limit <= MaxCalls /\ limit \in Nat
      /\ MaxCalls \in Nat /\ MaxCalls >= 1
  BY CallersCount, QuotaAssumption, BoundAssumption DEF Pending, MTypeOK, Periods
\* A step that charges nothing and admits nobody keeps the bound.
<1>1. ASSUME UNCHANGED <<calls, period>>, Pending' \subseteq Pending PROVE QuotaInv'
  <2>1. Cardinality(Pending') <= Cardinality(Pending)
    BY <1>0, <1>1, CountMonotone
  <2> QED BY <1>0, <1>1, <2>1 DEF QuotaInv
<1>2. ASSUME NEW h \in Callers, NEW ms \in {0} \cup Projections, CheckUsage(h, ms)
      PROVE QuotaInv'
  <2>1. UNCHANGED <<calls, period>> /\ snap'[h].calls = calls[period]
    BY <1>2 DEF CheckUsage, counters, MTypeOK
  <2>2. CASE calls[period] < MaxCalls
    BY <1>0, <2>1, <2>2 DEF QuotaInv
  <2>3. CASE ~(calls[period] < MaxCalls)
    <3>1. Pending' \subseteq Pending
      BY <1>2, <2>1, <2>3 DEF Pending, CheckUsage, GoTo, MTypeOK
    <3> QED BY <1>1, <2>1, <3>1
  <2> QED BY <2>2, <2>3
<1>3. ASSUME NEW h \in Callers, CheckQuota(h) PROVE QuotaInv'
  <2>1. UNCHANGED <<calls, period>>
    BY <1>3 DEF CheckQuota, counters
  <2>2. CASE Admissible(h)
    <3>1. h \in Pending
      BY <1>0, <1>3, <2>2 DEF Pending, CheckQuota, Admissible, WithinQuota, PreflightOk, MTypeOK
    <3>2. Pending' \subseteq Pending
      BY <1>3, <2>2, <3>1 DEF Pending, CheckQuota, GoTo, MTypeOK
    <3> QED BY <1>1, <2>1, <3>2
  <2>3. CASE ~Admissible(h)
    <3>1. Pending' \subseteq Pending
      BY <1>3, <2>3 DEF Pending, CheckQuota, End, GoTo, MTypeOK
    <3> QED BY <1>1, <2>1, <3>1
  <2> QED BY <2>2, <2>3
<1>4. ASSUME NEW h \in Callers,
             Unbilled(h) \/ Fault(h) \/ EmitCall(h)
      PROVE QuotaInv'
  <2>1. UNCHANGED <<calls, period>> /\ Pending' \subseteq Pending
    BY <1>4 DEF Pending, Unbilled, Fault, EmitCall, End, GoTo, counters, MTypeOK
  <2> QED BY <1>1, <2>1
<1>5. ASSUME NEW h \in Callers,
             Answered(h) \/ SandboxRan(h) \/ RecordMs(h) \/ EmitMs(h)
      PROVE QuotaInv'
  <2>1. UNCHANGED <<calls, period>> /\ Pending' \subseteq Pending
    BY <1>5 DEF Pending, Answered, SandboxRan, RecordMs, EmitMs, GoTo, counters, MTypeOK
  <2> QED BY <1>1, <2>1
<1>6. ASSUME NEW h \in Callers, RecordCall(h) PROVE QuotaInv'
  <2>1. h \in Pending /\ Pending' = Pending \ {h}
    BY <1>6 DEF Pending, RecordCall, GoTo, MTypeOK
  <2>2. Cardinality(Pending') = Cardinality(Pending) - 1
    BY <1>0, <2>1, CountOne
  <2>3. period' = period /\ \A p \in Periods :
          calls'[p] = IF p = period THEN calls[p] + 1 ELSE calls[p]
    BY <1>6 DEF RecordCall, MTypeOK
  <2> QED BY <1>0, <2>2, <2>3 DEF QuotaInv
<1>7. CASE SetQuota
  <2>1. UNCHANGED <<calls, period>> /\ Pending' \subseteq Pending
    BY <1>7 DEF Pending, SetQuota, counters, locals
  <2> QED BY <1>1, <2>1
<1>8. CASE Rollover
  <2>1. calls' = calls /\ period' = period + 1
    BY <1>8 DEF Rollover, counters
  <2>2. \A p \in Periods : p > period => calls'[p] = 0
    BY <1>0, <2>1 DEF QuotaInv
  <2> QED BY <1>0, <2>1, <2>2 DEF QuotaInv
<1>9. CASE UNCHANGED mvars
  <2>1. UNCHANGED <<calls, period>> /\ Pending' \subseteq Pending
    BY <1>9 DEF Pending, mvars, counters, locals
  <2> QED BY <1>1, <2>1
<1> QED
  BY <1>2, <1>3, <1>4, <1>5, <1>6, <1>7, <1>8, <1>9 DEF MNext, MStep

\* Every step keeps the call ledger within the counters, month by month.
LEMMA LedgerStep ==
  MTypeOK /\ CallLedgerTracksUsage /\ [MNext]_mvars => CallLedgerTracksUsage'
<1> SUFFICES ASSUME MTypeOK, CallLedgerTracksUsage, [MNext]_mvars, NEW p \in Periods
             PROVE  /\ callEvents'[p] + Cardinality(Owing(p)') <= calls'[p]
                    /\ calls'[p] <= callEvents'[p] + Cardinality(Owing(p)') + faults'
  BY DEF CallLedgerTracksUsage
<1>0. /\ Owing(p) \in SUBSET Callers /\ Cardinality(Owing(p)) \in Nat
      /\ calls[p] \in Nat /\ callEvents[p] \in Nat /\ faults \in Nat
      /\ callEvents[p] + Cardinality(Owing(p)) <= calls[p]
      /\ calls[p] <= callEvents[p] + Cardinality(Owing(p)) + faults
  BY CallersCount DEF Owing, MTypeOK, CallLedgerTracksUsage
<1> DEFINE Goal == /\ callEvents'[p] + Cardinality(Owing(p)') <= calls'[p]
                   /\ calls'[p] <= callEvents'[p] + Cardinality(Owing(p)') + faults'
<1>1. ASSUME UNCHANGED <<calls, callEvents, faults>>, Owing(p)' = Owing(p) PROVE Goal
  BY <1>0, <1>1
<1>2. ASSUME NEW h \in Callers, RecordCall(h) PROVE Goal
  <2>1. h \notin Owing(p) /\ faults' = faults /\ callEvents' = callEvents
    BY <1>2 DEF Owing, RecordCall
  <2>2. CASE p = period
    <3>1. Owing(p)' = Owing(p) \cup {h} /\ calls'[p] = calls[p] + 1
      BY <1>2, <2>2 DEF Owing, RecordCall, GoTo, MTypeOK
    <3>2. Cardinality(Owing(p)') = Cardinality(Owing(p)) + 1
      BY <1>0, <2>1, <3>1, CountOne
    <3> QED BY <1>0, <2>1, <3>1, <3>2
  <2>3. CASE p # period
    <3>1. Owing(p)' = Owing(p) /\ calls'[p] = calls[p]
      BY <1>2, <2>3 DEF Owing, RecordCall, GoTo, MTypeOK
    <3> QED BY <1>0, <2>1, <3>1
  <2> QED BY <2>2, <2>3
<1>3. ASSUME NEW h \in Callers, EmitCall(h) PROVE Goal
  <2>1. faults' = faults /\ calls' = calls /\ billPeriod[h] \in Periods
    BY <1>3 DEF EmitCall, MTypeOK
  <2>2. CASE p = billPeriod[h]
    <3>1. h \in Owing(p) /\ Owing(p)' = Owing(p) \ {h} /\ callEvents'[p] = callEvents[p] + 1
      BY <1>3, <2>2 DEF Owing, EmitCall, End, GoTo, MTypeOK
    <3>2. Cardinality(Owing(p)') = Cardinality(Owing(p)) - 1
      BY <1>0, <3>1, CountOne
    <3> QED BY <1>0, <2>1, <3>1, <3>2
  <2>3. CASE p # billPeriod[h]
    <3>1. Owing(p)' = Owing(p) /\ callEvents'[p] = callEvents[p]
      BY <1>3, <2>3 DEF Owing, EmitCall, End, GoTo, MTypeOK
    <3> QED BY <1>0, <2>1, <3>1
  <2> QED BY <2>2, <2>3
<1>4. ASSUME NEW h \in Callers, Fault(h) PROVE Goal
  <2>1. faults' = faults + 1 /\ calls' = calls /\ callEvents' = callEvents
    BY <1>4 DEF Fault, counters
  <2>2. CASE h \in Owing(p)
    <3>1. Owing(p)' = Owing(p) \ {h}
      BY <1>4, <2>2 DEF Owing, Fault, End, GoTo, MTypeOK
    <3>2. Cardinality(Owing(p)') = Cardinality(Owing(p)) - 1
      BY <1>0, <2>2, <3>1, CountOne
    <3> QED BY <1>0, <2>1, <3>1, <3>2
  <2>3. CASE h \notin Owing(p)
    <3>1. Owing(p)' = Owing(p)
      BY <1>4, <2>3 DEF Owing, Fault, End, GoTo, MTypeOK
    <3> QED BY <1>0, <2>1, <3>1
  <2> QED BY <2>2, <2>3
<1>5. ASSUME NEW h \in Callers, NEW ms \in {0} \cup Projections, CheckUsage(h, ms)
      PROVE Goal
  <2>1. Owing(p)' = Owing(p)
    BY <1>5 DEF Owing, CheckUsage, GoTo, MTypeOK
  <2> QED BY <1>1, <1>5, <2>1 DEF CheckUsage, counters
<1>6. ASSUME NEW h \in Callers, CheckQuota(h) PROVE Goal
  <2>1. Owing(p)' = Owing(p)
    BY <1>6 DEF Owing, CheckQuota, End, GoTo, MTypeOK
  <2> QED BY <1>1, <1>6, <2>1 DEF CheckQuota, counters
<1>7. ASSUME NEW h \in Callers, Unbilled(h) \/ Answered(h) \/ SandboxRan(h) PROVE Goal
  <2>1. Owing(p)' = Owing(p)
    BY <1>7 DEF Owing, Unbilled, Answered, SandboxRan, End, GoTo, MTypeOK
  <2> QED BY <1>1, <1>7, <2>1 DEF Unbilled, Answered, SandboxRan, counters
<1>8. ASSUME NEW h \in Callers, RecordMs(h) \/ EmitMs(h) PROVE Goal
  <2>1. Owing(p)' = Owing(p)
    BY <1>8 DEF Owing, RecordMs, EmitMs, GoTo, MTypeOK
  <2> QED BY <1>1, <1>8, <2>1 DEF RecordMs, EmitMs
<1>9. CASE SetQuota \/ Rollover \/ UNCHANGED mvars
  BY <1>1, <1>9 DEF Owing, SetQuota, Rollover, mvars, counters, locals
<1> QED
  BY <1>2, <1>3, <1>4, <1>5, <1>6, <1>7, <1>8, <1>9 DEF MNext, MStep

\* Every initial state satisfies the inductive invariant.
LEMMA InitMInv == MInit => MInv
<1> SUFFICES ASSUME MInit PROVE MInv
  OBVIOUS
<1>1. MTypeOK
  BY QuotaAssumption, SandboxAssumption, BoundAssumption
  DEF MInit, MTypeOK, Zero, Periods, MSteps
<1>2. Pending = {} /\ \A p \in Periods : Owing(p) = {}
  BY DEF MInit, Pending, Owing
<1>3. QuotaInv
  BY <1>2, FS_EmptySet, CallersCount, QuotaAssumption DEF MInit, Zero, QuotaInv
<1>4. CallLedgerTracksUsage
  BY <1>2, FS_EmptySet DEF MInit, Zero, CallLedgerTracksUsage
<1> QED BY <1>1, <1>3, <1>4 DEF MInv

-----------------------------------------------------------------------------
\* The inductive invariant holds in every reachable state.
THEOREM MInvariance == MSpec => []MInv
<1>1. MInv /\ [MNext]_mvars => MInv'
  BY MTypeStep, QuotaStep, LedgerStep DEF MInv
<1> QED BY InitMInv, <1>1, PTL DEF MSpec

\* Type correctness of the metering state.
THEOREM MTypeCorrect == MSpec => []MTypeOK
<1>1. MInv => MTypeOK
  BY DEF MInv
<1> QED BY MInvariance, <1>1, PTL

\* A month's calls exceed the largest quota by less than the concurrency.
THEOREM QuotaBound == MSpec => []QuotaOverrunBounded
<1>1. MInv => QuotaOverrunBounded
  BY DEF MInv, QuotaInv, QuotaOverrunBounded, N
<1> QED BY MInvariance, <1>1, PTL

\* The call ledger agrees with the counters up to unfinished and failed writes.
THEOREM LedgerAgrees == MSpec => []CallLedgerTracksUsage
<1>1. MInv => CallLedgerTracksUsage
  BY DEF MInv
<1> QED BY MInvariance, <1>1, PTL

-----------------------------------------------------------------------------
(* Who may call what                                                       *)

\* The types.  A password, a token and a row carry roles; a catalog fixes the scopes.
RoleNames == {"tool:invoke", "viewer", "tool:read", "admin", "platform-admin"}
Record == [exists : BOOLEAN, id : Nat, roles : SUBSET RoleNames, scopes : SUBSET Scopes,
           active : BOOLEAN]
Mirror == [exists : BOOLEAN, roles : SUBSET RoleNames, active : BOOLEAN]
Token == [form : {"bearer", "session"}, user : Addresses,
          roles : SUBSET RoleNames, scopes : SUBSET Scopes]
ToolPolicy == Policies \cup {OpenPolicy}
ToolDoc == [action : Actions \cup {"none"}, scopes : SUBSET Scopes]
EditEntry ==
  [pc : {"idle", "insert", "write", "reread", "sync", "find", "remove", "clear"},
   user : Addresses \cup {"none"}, id : Nat, root : BOOLEAN,
   op : Changes \cup {"delete", "none"}, doc : Record, alone : BOOLEAN, clean : BOOLEAN]
CallEntry ==
  [pc : {"idle", "rbac", "tool", "policy", "store", "ran"},
   user : Addresses \cup {"none"}, roles : SUBSET RoleNames, scopes : SUBSET Scopes,
   tool : Tools \cup {"none"}, at : Replicas \cup {"none"}, doc : ToolDoc, policy : ToolPolicy]
PutEntry == [pc : {"idle", "store"}, at : Replicas \cup {"none"}, policy : ToolPolicy]

StoresOK ==
  /\ catalog \in Catalogs
  /\ users \in [Addresses -> Record] /\ ctx \in [Addresses -> Mirror]
  /\ held \subseteq Token
  /\ edits \in Nat /\ changes \in Nat
  /\ torn \subseteq Addresses /\ safe \subseteq Addresses /\ shut \subseteq Replicas
EditOK ==
  /\ edit \in [Editors -> EditEntry]
  /\ \A a \in Editors : edit[a].pc # "idle" => edit[a].user \in Addresses
CallOK ==
  /\ policy \in ToolPolicy
  /\ cache \in [Replicas -> [live : BOOLEAN, policy : ToolPolicy]]
  /\ put \in [Setters -> PutEntry]
  /\ \A s \in Setters : put[s].pc = "store" => put[s].at \in Replicas
  /\ call \in [Calls -> CallEntry]
  /\ \A c \in Calls :
       /\ call[c].pc \notin {"idle", "ran"} => call[c].user \in Addresses
       /\ call[c].pc \in {"policy", "store"} => call[c].tool \in Tools /\ call[c].at \in Replicas
AccessTypeOK == StoresOK /\ EditOK /\ CallOK

-----------------------------------------------------------------------------
\* What is granted is a set of scopes of the catalog, and a new record is a record.
LEMMA ScopesTyped ==
  ASSUME catalog \in Catalogs
  PROVE  DeriveDemo \in SUBSET Scopes /\ DeriveSafe \in SUBSET Scopes
<1>1. \A S \in SUBSET Tools : ScopesOf(S) \in SUBSET Scopes
  BY AccessAssumption DEF ScopesOf, Scopes
<1>2. "server:*" \in Scopes
  BY DEF Scopes
<1> QED
  BY <1>1, <1>2 DEF DeriveDemo, DeriveSafe

LEMMA MadeTyped ==
  ASSUME catalog \in Catalogs, NEW p \in Presets, NEW id \in Nat
  PROVE  Made(p, id) \in Record /\ Roles[p] \in SUBSET RoleNames
<1>1. Roles[p] \in SUBSET RoleNames
  BY AccessAssumption DEF Roles, RoleNames
<1>2. Made(p, id).scopes \in SUBSET Scopes
  BY ScopesTyped DEF Made
<1> QED
  BY <1>1, <1>2 DEF Made, Record

LEMMA EmptyTyped ==
  /\ NoAccount \in Record /\ NoRow \in Mirror /\ NoEdit \in EditEntry /\ NoCall \in CallEntry
  /\ NoPut \in PutEntry /\ NoPolicy \in [live : BOOLEAN, policy : ToolPolicy]
BY DEF NoAccount, NoRow, NoEdit, NoCall, NoPut, NoPolicy, PutEntry, Record, Mirror, EditEntry, CallEntry, ToolDoc,
       ToolPolicy

LEMMA RowTyped == \A doc \in Record : Row(doc) \in Mirror
BY DEF Row, Record, Mirror

LEMMA ChangedTyped ==
  ASSUME catalog \in Catalogs, NEW doc \in Record, NEW op
  PROVE  /\ Changed(doc, op) \in Record /\ Changed(doc, op).exists = doc.exists
         /\ Changed(doc, op).id = doc.id
         /\ op \notin {"viewer", "root"} => Changed(doc, op).roles = doc.roles
         /\ op \notin {"viewer", "root", "scopes"} => Changed(doc, op).scopes = doc.scopes
         /\ (op # "root" /\ "platform-admin" \notin doc.roles)
               => "platform-admin" \notin Changed(doc, op).roles
<1>1. CASE op = "disable" \/ op = "enable"
  BY <1>1 DEF Changed, Record
<1>2. CASE op = "viewer" \/ op = "root"
  <2>1. Changed(doc, op) = [doc EXCEPT !.roles = Roles[op]]
    BY <1>2 DEF Changed
  <2>2. Roles[op] \in SUBSET RoleNames /\ (op # "root" => "platform-admin" \notin Roles[op])
    BY <1>2 DEF Roles, RoleNames
  <2> QED
    BY <1>2, <2>1, <2>2 DEF Record
<1>3. CASE op = "scopes"
  <2>1. Changed(doc, op) = [doc EXCEPT !.scopes = DeriveDemo]
    BY <1>3 DEF Changed
  <2> QED
    BY <1>3, <2>1, ScopesTyped DEF Record
<1>4. CASE op \notin {"disable", "enable", "viewer", "root", "scopes"}
  <2>1. Changed(doc, op) = doc
    BY <1>4 DEF Changed
  <2> QED
    BY <1>4, <2>1 DEF Record
<1> QED
  BY <1>1, <1>2, <1>3, <1>4

\* An entry that ends, and one that begins to write.
LEMMA EndsTyped ==
  ASSUME EditOK, NEW a \in Editors, Ends(a)
  PROVE  /\ EditOK' /\ edit'[a] = NoEdit
         /\ \A b \in Editors \ {a} : edit'[b] = edit[b]
<1>1. edit'[a] = NoEdit /\ \A b \in Editors \ {a} : edit'[b] = edit[b]
  BY DEF Ends, EditOK
<1>2. edit' \in [Editors -> EditEntry]
  BY EmptyTyped DEF Ends, EditOK
<1> QED
  <2>1. \A b \in Editors : edit'[b].pc # "idle" => edit'[b].user \in Addresses
    BY <1>1 DEF EditOK, NoEdit
  <2> QED
    BY <1>1, <1>2, <2>1 DEF EditOK

LEMMA BeginsTyped ==
  ASSUME EditOK, NEW a \in Editors, NEW entry \in EditEntry, entry.user \in Addresses,
         NEW found \in BOOLEAN, Begins(a, entry, found)
  PROVE  /\ EditOK'
         /\ edit'[a].pc = entry.pc /\ edit'[a].user = entry.user /\ edit'[a].doc = entry.doc
         /\ edit'[a].alone = (found /\ ~Busy(entry.user))
         /\ \A b \in Editors \ {a} :
              /\ edit'[b].pc = edit[b].pc /\ edit'[b].user = edit[b].user
              /\ edit'[b].doc = edit[b].doc /\ edit'[b].root = edit[b].root
              /\ edit'[b].op = edit[b].op /\ edit'[b].clean = edit[b].clean
              /\ edit'[b].alone =>
                   edit[b].alone /\ ~(Writing(b) /\ edit[b].user = entry.user)
<1>1. edit'[a] = [entry EXCEPT !.alone = found /\ ~Busy(entry.user)]
  BY DEF Begins
<1>2. \A b \in Editors \ {a} :
        edit'[b] = [edit[b] EXCEPT !.alone = @ /\ ~(Writing(b) /\ edit[b].user = entry.user)]
  BY DEF Begins
<1>3. \A e \in EditEntry, x \in BOOLEAN : [e EXCEPT !.alone = x] \in EditEntry
  BY DEF EditEntry
<1>4. \A b \in Editors : Writing(b) \in BOOLEAN /\ edit[b].alone \in BOOLEAN
  BY DEF Writing, EditOK, EditEntry
<1>5. /\ edit'[a] \in EditEntry
      /\ edit'[a].pc = entry.pc /\ edit'[a].user = entry.user /\ edit'[a].doc = entry.doc
      /\ edit'[a].alone = (found /\ ~Busy(entry.user))
  <2> DEFINE x == found /\ ~Busy(entry.user)
  <2>1. x \in BOOLEAN
    OBVIOUS
  <2>2. edit'[a] = [entry EXCEPT !.alone = x]
    BY <1>1
  <2> HIDE DEF x
  <2>3. edit'[a] \in EditEntry
    BY <1>3, <2>1, <2>2
  <2>4. edit'[a].pc = entry.pc /\ edit'[a].user = entry.user /\ edit'[a].doc = entry.doc
    BY <2>2 DEF EditEntry
  <2>5. edit'[a].alone = x
    BY <2>2 DEF EditEntry
  <2> QED
    BY <2>3, <2>4, <2>5 DEF x
<1>6. \A b \in Editors \ {a} :
        /\ edit'[b] \in EditEntry
        /\ edit'[b].pc = edit[b].pc /\ edit'[b].user = edit[b].user
        /\ edit'[b].doc = edit[b].doc /\ edit'[b].root = edit[b].root
        /\ edit'[b].op = edit[b].op /\ edit'[b].clean = edit[b].clean
        /\ edit'[b].alone => edit[b].alone /\ ~(Writing(b) /\ edit[b].user = entry.user)
  <2> TAKE b \in Editors \ {a}
  <2> DEFINE x == edit[b].alone /\ ~(Writing(b) /\ edit[b].user = entry.user)
  <2>1. x \in BOOLEAN
    BY <1>4
  <2>2. edit'[b] = [edit[b] EXCEPT !.alone = x]
    BY <1>2
  <2> HIDE DEF x
  <2>3. edit[b] \in EditEntry
    BY DEF EditOK
  <2>4. edit'[b] \in EditEntry
    BY <1>3, <2>1, <2>2, <2>3
  <2>5. /\ edit'[b].pc = edit[b].pc /\ edit'[b].user = edit[b].user
        /\ edit'[b].doc = edit[b].doc /\ edit'[b].root = edit[b].root
        /\ edit'[b].op = edit[b].op /\ edit'[b].clean = edit[b].clean
    BY <2>2, <2>3 DEF EditEntry
  <2>6. edit'[b].alone = x
    BY <2>2, <2>3 DEF EditEntry
  <2> QED
    BY <2>4, <2>5, <2>6 DEF x
<1>7. edit' \in [Editors -> EditEntry]
  BY <1>5, <1>6 DEF Begins
<1> QED
  BY <1>5, <1>6, <1>7 DEF EditOK

-----------------------------------------------------------------------------
(* The inductive invariant                                                 *)

\* An edit that is alone is the only one that writes its account, and holds what is there.
AloneInv ==
  \A a \in Editors : (Writing(a) /\ edit[a].alone) =>
    /\ \A b \in Editors \ {a} : ~(Writing(b) /\ edit[b].user = edit[a].user)
    /\ edit[a].pc = "sync" => edit[a].doc = users[edit[a].user]
    /\ edit[a].pc = "clear" => users[edit[a].user] = NoAccount

\* The row is the record's, but for edits that are at it, or were at it together.
MirrorInv == \A u \in Addresses : u \in torn \/ Busy(u) \/ ctx[u] = Row(users[u])

\* In shut no cache and no reading is behind on what is disabled.
ShutInv ==
  \A p \in shut :
    /\ cache[p].live => policy.off \subseteq cache[p].policy.off
    /\ \A c \in Calls : (call[c].pc = "store" /\ call[c].at = p)
                           => policy.off \subseteq call[c].policy.off
    /\ \A s \in Setters : (put[s].pc = "store" /\ put[s].at = p)
                             => policy.off \subseteq put[s].policy.off

\* A team account that is about to be made has the scopes of today's catalog.
CleanInv ==
  \A a \in Editors : (edit[a].pc = "insert" /\ edit[a].clean) =>
    /\ edit[a].doc.exists /\ edit[a].doc.roles = Roles.team
    /\ edit[a].doc.scopes = DeriveSafe

\* In safe neither the account, nor its row, nor what is still to be mirrored, nor a
\* token, nor a call has more than a team account may have.
SafeAccount(u) ==
  /\ users[u].exists /\ users[u].roles = Roles.team /\ users[u].scopes = DeriveSafe
  /\ ctx[u].roles \subseteq Roles.team
SafeEdits(u) ==
  \A a \in Editors : (edit[a].pc = "sync" /\ edit[a].user = u) => edit[a].doc.roles = Roles.team
SafeTokens(u) ==
  \A k \in held : k.user = u => k.roles = Roles.team /\ k.scopes \subseteq DeriveSafe
SafeCalls(u) ==
  \A c \in Calls : call[c].user = u =>
    /\ call[c].roles \subseteq Roles.team /\ call[c].scopes \subseteq DeriveSafe
    /\ call[c].pc \in {"policy", "store"} => call[c].doc = catalog[call[c].tool]
SafeInv == \A u \in safe : SafeAccount(u) /\ SafeEdits(u) /\ SafeTokens(u) /\ SafeCalls(u)

\* Whoever is no platform administrator has loaded none, and makes none.
GuardInv ==
  \A a \in Editors : (edit[a].pc \in {"insert", "write", "find", "remove"} /\ ~edit[a].root) =>
    "platform-admin" \notin edit[a].doc.roles /\ edit[a].op # "root"

AccessInv ==
  /\ AccessTypeOK /\ AloneInv /\ MirrorInv /\ ShutInv /\ CleanInv /\ SafeInv /\ GuardInv

-----------------------------------------------------------------------------
(* Edits                                                                   *)

LEMMA DerivedKept == catalog' = catalog => DeriveSafe' = DeriveSafe /\ DeriveDemo' = DeriveDemo
BY DEF DeriveSafe, DeriveDemo, ScopesOf

\* A step of an edit that writes nothing: it is loaded, or found, or gives up.
LEMMA QuietEdit ==
  ASSUME AccessInv, NEW a \in Editors, EditOK',
         \A b \in Editors \ {a} : edit'[b] = edit[b],
         ~Writing(a),
         edit'[a].pc \in {"idle", "insert", "write", "find", "remove"},
         edits' \in Nat, changes' \in Nat,
         (edit'[a].pc = "insert" /\ edit'[a].clean) =>
           edit'[a].doc.exists /\ edit'[a].doc.roles = Roles.team /\ edit'[a].doc.scopes = DeriveSafe,
         (edit'[a].pc # "idle" /\ ~edit'[a].root) =>
           "platform-admin" \notin edit'[a].doc.roles /\ edit'[a].op # "root",
         UNCHANGED <<stores, put, call, history>>
  PROVE  AccessInv'
<1> USE DEF AccessInv, stores, history
<1>1. AccessTypeOK'
  BY DEF AccessTypeOK, StoresOK, CallOK
<1>2. \A b \in Editors : Writing(b)' <=> Writing(b)
  BY DEF Writing
<1>3. \A b \in Editors : Writing(b) => edit'[b] = edit[b]
  BY DEF Writing
<1>4. AloneInv'
  BY <1>2, <1>3 DEF AloneInv
<1>5. MirrorInv'
  <2>1. \A u \in Addresses : Busy(u) => Busy(u)'
    BY <1>2, <1>3 DEF Busy
  <2> QED
    BY <2>1 DEF MirrorInv, Row
<1>6. ShutInv'
  BY DEF ShutInv
<1>7. CleanInv'
  BY DerivedKept DEF CleanInv
<1>8. SafeInv'
  BY DerivedKept DEF SafeInv, SafeAccount, SafeEdits, SafeTokens, SafeCalls
<1>9. GuardInv'
  BY DEF GuardInv
<1> QED
  BY <1>1, <1>4, <1>5, <1>6, <1>7, <1>8, <1>9

LEMMA CreateSound ==
  ASSUME AccessInv, NEW a \in Editors, NEW u \in Addresses, NEW p \in Presets,
         NEW root \in BOOLEAN, CreateUser(a, u, p, root)
  PROVE  AccessInv'
<1> USE DEF AccessInv
<1>1. edits' \in Nat /\ changes' \in Nat
  BY DEF CreateUser, Edit, AccessTypeOK, StoresOK
<1> DEFINE entry == [NoEdit EXCEPT
       !.pc = "insert", !.user = u, !.id = edits', !.root = root,
       !.clean = (p = "team"), !.doc = Made(p, edits')]
<1>2. entry \in EditEntry /\ Made(p, edits') \in Record
  BY <1>1, MadeTyped, EmptyTyped DEF EditEntry, AccessTypeOK, StoresOK, NoEdit
<1>3. edit' = [edit EXCEPT ![a] = entry]
  BY DEF CreateUser
<1>4. /\ entry.pc = "insert" /\ entry.user = u /\ entry.root = root /\ entry.op = "none"
      /\ entry.clean = (p = "team") /\ entry.doc = Made(p, edits')
  BY DEF NoEdit
<1> HIDE DEF entry
<1>5. edit'[a] = entry /\ \A b \in Editors \ {a} : edit'[b] = edit[b]
  BY <1>3 DEF AccessTypeOK, EditOK
<1>6. EditOK'
  BY <1>2, <1>3, <1>4, <1>5 DEF AccessTypeOK, EditOK
<1>7. p = "team" => /\ Made(p, edits').exists /\ Made(p, edits').roles = Roles.team
                    /\ Made(p, edits').scopes = DeriveSafe
  BY DEF Made
<1>8. ~root => "platform-admin" \notin Made(p, edits').roles
  BY DEF Made, CreateUser, MayAssign
<1>9. ~Writing(a) /\ UNCHANGED <<stores, put, call, history>>
  BY DEF CreateUser, Writing
<1> QED
  BY <1>1, <1>4, <1>5, <1>6, <1>7, <1>8, <1>9, QuietEdit

LEMMA LoadSound ==
  ASSUME AccessInv, NEW a \in Editors, NEW u \in Addresses, NEW op \in Edits,
         NEW root \in BOOLEAN, Load(a, u, root, op)
  PROVE  AccessInv'
<1> USE DEF AccessInv
<1>1. edits' \in Nat /\ changes' \in Nat
  BY DEF Load, Edit, AccessTypeOK, StoresOK
<1> DEFINE granted == users[u].roles \cap {"platform-admin"}
           doc == [NoAccount EXCEPT !.roles = granted]
           entry == [NoEdit EXCEPT
             !.pc = IF op = "delete" THEN "find" ELSE "write", !.user = u, !.id = users[u].id,
             !.root = root, !.op = op, !.doc = doc]
<1>2. users[u] \in Record /\ op \in Changes \cup {"delete"}
  BY AccessAssumption DEF AccessTypeOK, StoresOK
<1>3. edit' = [edit EXCEPT ![a] = entry]
  BY DEF Load
<1>4. /\ entry.pc \in {"find", "write"} /\ entry.user = u /\ entry.root = root /\ entry.op = op
      /\ entry.doc.roles = granted
  BY DEF NoEdit, NoAccount
<1>5. entry \in EditEntry
  <2>1. granted \in SUBSET RoleNames /\ users[u].id \in Nat
    BY <1>2 DEF Record, RoleNames
  <2>2. doc \in Record
    BY <2>1 DEF NoAccount, Record
  <2> HIDE DEF doc
  <2> QED
    BY <1>2, <2>1, <2>2 DEF NoEdit, EditEntry
<1>6. ~root => "platform-admin" \notin granted /\ op # "root"
  BY DEF Load, MayAssign, Roles
<1> HIDE DEF entry, doc, granted
<1>7. edit'[a] = entry /\ \A b \in Editors \ {a} : edit'[b] = edit[b]
  BY <1>3 DEF AccessTypeOK, EditOK
<1>8. EditOK'
  BY <1>3, <1>4, <1>5, <1>7 DEF AccessTypeOK, EditOK
<1>9. ~Writing(a) /\ UNCHANGED <<stores, put, call, history>>
  BY DEF Load, Writing
<1> QED
  BY <1>1, <1>4, <1>6, <1>7, <1>8, <1>9, QuietEdit

LEMMA FindSound ==
  ASSUME AccessInv, NEW a \in Editors, Find(a)
  PROVE  AccessInv'
<1> USE DEF AccessInv
<1>1. ~Writing(a) /\ UNCHANGED <<stores, put, call, counts, history>>
  BY DEF Find, Writing
<1>2. CASE Ends(a)
  <2>1. EditOK' /\ edit'[a] = NoEdit /\ \A b \in Editors \ {a} : edit'[b] = edit[b]
    BY <1>2, EndsTyped DEF AccessTypeOK
  <2> QED
    BY <1>1, <2>1, QuietEdit DEF NoEdit, counts, AccessTypeOK, StoresOK
<1>3. CASE edit' = [edit EXCEPT ![a].pc = "remove"]
  <2>1. edit[a] \in EditEntry /\ edit[a].pc = "find" /\ edit[a].user \in Addresses
    BY DEF Find, AccessTypeOK, EditOK
  <2>2. edit'[a] = [edit[a] EXCEPT !.pc = "remove"] /\ \A b \in Editors \ {a} : edit'[b] = edit[b]
    BY <1>3 DEF AccessTypeOK, EditOK
  <2>3. /\ edit'[a] \in EditEntry /\ edit'[a].pc = "remove" /\ edit'[a].user = edit[a].user
        /\ edit'[a].root = edit[a].root /\ edit'[a].doc = edit[a].doc /\ edit'[a].op = edit[a].op
    BY <2>1, <2>2 DEF EditEntry
  <2>4. EditOK'
    BY <1>3, <2>1, <2>2, <2>3 DEF AccessTypeOK, EditOK
  <2>5. ~edit[a].root => "platform-admin" \notin edit[a].doc.roles /\ edit[a].op # "root"
    BY <2>1 DEF GuardInv
  <2> QED
    BY <1>1, <2>2, <2>3, <2>4, <2>5, QuietEdit DEF counts, AccessTypeOK, StoresOK
<1> QED
  BY <1>2, <1>3 DEF Find

\* What a step of an edit leaves to every invariant that it does not touch.
LEMMA EditFrame ==
  ASSUME AccessInv, UNCHANGED <<catalog, held, policy, cache, put, call, counts, shut>>
  PROVE  /\ CallOK' /\ ShutInv' /\ DeriveSafe' = DeriveSafe /\ DeriveDemo' = DeriveDemo
         /\ \A u \in Addresses : SafeTokens(u) => SafeTokens(u)'
         /\ \A u \in Addresses : SafeCalls(u) => SafeCalls(u)'
         /\ catalog' \in Catalogs /\ held' \subseteq Token /\ edits' \in Nat /\ changes' \in Nat
         /\ shut' \subseteq Replicas
<1>1. DeriveSafe' = DeriveSafe /\ DeriveDemo' = DeriveDemo
  BY DerivedKept
<1> QED
  BY <1>1 DEF AccessInv, AccessTypeOK, StoresOK, CallOK, ShutInv, SafeTokens, SafeCalls, counts

\* An edit begins to write to an account, and nobody else does.
LEMMA WritingEdit ==
  ASSUME AccessInv, NEW a \in Editors, NEW entry \in EditEntry, NEW found \in BOOLEAN,
         entry.user \in Addresses, entry.pc \in {"reread", "sync", "clear"},
         Begins(a, entry, found), ~Writing(a),
         users' \in [Addresses -> Record],
         \A v \in Addresses \ {entry.user} : users'[v] = users[v],
         found => /\ entry.pc = "sync" => entry.doc = users'[entry.user]
                  /\ entry.pc = "clear" => users'[entry.user] = NoAccount,
         ~found => users' = users,
         UNCHANGED <<catalog, ctx, held, policy, cache, put, call, counts, torn, shut>>
  PROVE  /\ EditOK' /\ AloneInv' /\ MirrorInv' /\ CleanInv' /\ GuardInv'
         /\ edit'[a].pc = entry.pc /\ edit'[a].user = entry.user /\ edit'[a].doc = entry.doc
         /\ \A b \in Editors \ {a} :
              /\ edit'[b].pc = edit[b].pc /\ edit'[b].user = edit[b].user
              /\ edit'[b].doc = edit[b].doc
<1>1. /\ EditOK'
      /\ edit'[a].pc = entry.pc /\ edit'[a].user = entry.user /\ edit'[a].doc = entry.doc
      /\ edit'[a].alone = (found /\ ~Busy(entry.user))
      /\ \A b \in Editors \ {a} :
           /\ edit'[b].pc = edit[b].pc /\ edit'[b].user = edit[b].user
           /\ edit'[b].doc = edit[b].doc /\ edit'[b].root = edit[b].root
           /\ edit'[b].op = edit[b].op /\ edit'[b].clean = edit[b].clean
           /\ edit'[b].alone => edit[b].alone /\ ~(Writing(b) /\ edit[b].user = entry.user)
  <2>1. EditOK
    BY DEF AccessInv, AccessTypeOK
  <2> QED
    BY <2>1, BeginsTyped
<1>2. Writing(a)' /\ \A b \in Editors \ {a} : Writing(b)' <=> Writing(b)
  BY <1>1 DEF Writing
<1>3. AloneInv'
  <2> SUFFICES ASSUME NEW b \in Editors, Writing(b)', edit'[b].alone
               PROVE  /\ \A d \in Editors \ {b} : ~(Writing(d)' /\ edit'[d].user = edit'[b].user)
                      /\ edit'[b].pc = "sync" => edit'[b].doc = users'[edit'[b].user]
                      /\ edit'[b].pc = "clear" => users'[edit'[b].user] = NoAccount
    BY DEF AloneInv
  <2>1. CASE b = a
    <3>1. found /\ ~Busy(entry.user)
      BY <1>1, <2>1
    <3>2. \A d \in Editors \ {a} : ~(Writing(d)' /\ edit'[d].user = entry.user)
      BY <1>1, <1>2, <3>1 DEF Busy
    <3> QED
      BY <1>1, <2>1, <3>1, <3>2
  <2>2. CASE b # a
    <3>1. Writing(b) /\ edit[b].alone /\ edit[b].user # entry.user /\ edit[b].user \in Addresses
      BY <1>1, <1>2, <2>2 DEF Writing, AccessInv, AccessTypeOK, EditOK
    <3>2. users'[edit[b].user] = users[edit[b].user]
      BY <3>1
    <3>3. \A d \in Editors \ {b} : ~(Writing(d) /\ edit[d].user = edit[b].user)
      BY <3>1 DEF AccessInv, AloneInv
    <3>4. /\ edit[b].pc = "sync" => edit[b].doc = users[edit[b].user]
          /\ edit[b].pc = "clear" => users[edit[b].user] = NoAccount
      BY <3>1 DEF AccessInv, AloneInv
    <3> QED
      BY <1>1, <1>2, <2>2, <3>1, <3>2, <3>3, <3>4
  <2> QED
    BY <2>1, <2>2
<1>4. MirrorInv'
  <2>1. Busy(entry.user)'
    BY <1>1, <1>2 DEF Busy
  <2>2. \A u \in Addresses : Busy(u) => Busy(u)'
    BY <1>1, <1>2, <2>1 DEF Busy
  <2> QED
    BY <2>1, <2>2 DEF AccessInv, MirrorInv, Row
<1>5. CleanInv'
  <2>1. DeriveSafe' = DeriveSafe
    BY DerivedKept
  <2> QED
    BY <1>1, <2>1 DEF AccessInv, CleanInv
<1>6. GuardInv'
  BY <1>1 DEF AccessInv, GuardInv
<1> QED
  BY <1>1, <1>3, <1>4, <1>5, <1>6

LEMMA InsertSound ==
  ASSUME AccessInv, NEW a \in Editors, Insert(a)
  PROVE  AccessInv'
<1>0. PICK u \in Addresses : u = edit[a].user
  BY DEF Insert, AccessInv, AccessTypeOK, EditOK
<1> DEFINE entry == [NoEdit EXCEPT !.pc = "sync", !.user = u, !.doc = edit[a].doc]
<1>1. /\ edit[a] \in EditEntry /\ edit[a].pc = "insert" /\ ~Writing(a)
      /\ UNCHANGED <<catalog, ctx, held, policy, cache, put, call, counts, torn, shut>>
  BY DEF Insert, Writing, AccessInv, AccessTypeOK, EditOK
<1>2. CASE users[u].exists
  <2>1. Ends(a) /\ UNCHANGED <<users, safe>>
    BY <1>0, <1>2 DEF Insert
  <2>2. EditOK' /\ edit'[a] = NoEdit /\ \A b \in Editors \ {a} : edit'[b] = edit[b]
    BY <2>1, EndsTyped DEF AccessInv, AccessTypeOK
  <2>3. UNCHANGED <<stores, put, call, history>> /\ edits' \in Nat /\ changes' \in Nat
    BY <1>1, <2>1 DEF stores, history, counts, AccessInv, AccessTypeOK, StoresOK
  <2> QED
    BY <1>1, <2>2, <2>3, QuietEdit DEF NoEdit
<1>3. CASE ~users[u].exists
  <2>1. /\ users' = [users EXCEPT ![u] = edit[a].doc] /\ Begins(a, entry, TRUE)
        /\ safe' = safe \cup {x \in {u} : edit[a].clean /\ ~Known(x) /\ ctx[x] = NoRow /\ ~Busy(x)}
    BY <1>0, <1>3 DEF Insert
  <2>2. edit[a].doc \in Record
    BY <1>1 DEF EditEntry
  <2>3. entry \in EditEntry
    BY <1>1, <2>2, EmptyTyped DEF EditEntry, NoEdit
  <2>4. entry.pc = "sync" /\ entry.user = u /\ entry.doc = edit[a].doc
    BY DEF NoEdit
  <2>5. /\ users' \in [Addresses -> Record] /\ users'[u] = edit[a].doc
        /\ \A v \in Addresses \ {u} : users'[v] = users[v]
    BY <1>1, <2>1, <2>2 DEF AccessInv, AccessTypeOK, StoresOK
  <2> HIDE DEF entry
  <2>6. /\ EditOK' /\ AloneInv' /\ MirrorInv' /\ CleanInv' /\ GuardInv'
        /\ edit'[a].pc = "sync" /\ edit'[a].user = u /\ edit'[a].doc = edit[a].doc
        /\ \A b \in Editors \ {a} :
             /\ edit'[b].pc = edit[b].pc /\ edit'[b].user = edit[b].user
             /\ edit'[b].doc = edit[b].doc
    <3>1. ~Writing(a) /\ entry.user \in Addresses /\ entry.pc \in {"reread", "sync", "clear"}
      BY <1>1, <2>4 DEF Writing
    <3>2. /\ entry.doc = users'[entry.user] /\ entry.pc # "clear"
          /\ \A v \in Addresses \ {entry.user} : users'[v] = users[v]
      BY <2>4, <2>5
    <3>3. /\ EditOK' /\ AloneInv' /\ MirrorInv' /\ CleanInv' /\ GuardInv'
          /\ edit'[a].pc = entry.pc /\ edit'[a].user = entry.user /\ edit'[a].doc = entry.doc
          /\ \A b \in Editors \ {a} :
               /\ edit'[b].pc = edit[b].pc /\ edit'[b].user = edit[b].user
               /\ edit'[b].doc = edit[b].doc
      BY <1>1, <2>1, <2>3, <2>5, <3>1, <3>2, WritingEdit
    <3> QED
      BY <2>4, <3>3
  <2>7. AccessTypeOK' /\ ShutInv'
    BY <1>1, <2>1, <2>5, <2>6, EditFrame DEF AccessInv, AccessTypeOK, StoresOK
  <2>8. SafeInv'
    <3>3. ASSUME NEW v \in safe
          PROVE  SafeAccount(v)' /\ SafeEdits(v)' /\ SafeTokens(v)' /\ SafeCalls(v)'
      <4>1. v \in Addresses /\ SafeAccount(v) /\ SafeEdits(v) /\ SafeTokens(v) /\ SafeCalls(v)
        BY DEF AccessInv, SafeInv, AccessTypeOK, StoresOK
      <4>2. v # u
        BY <1>3, <4>1 DEF SafeAccount
      <4>3. SafeTokens(v)' /\ SafeCalls(v)' /\ DeriveSafe' = DeriveSafe
        BY <1>1, <4>1, EditFrame
      <4>4. SafeAccount(v)'
        BY <1>1, <2>5, <4>1, <4>2, <4>3 DEF SafeAccount
      <4>5. SafeEdits(v)'
        BY <2>6, <4>1, <4>2 DEF SafeEdits
      <4> QED
        BY <4>3, <4>4, <4>5
    <3>4. ASSUME edit[a].clean, ~Known(u), ctx[u] = NoRow, ~Busy(u)
          PROVE  SafeAccount(u)' /\ SafeEdits(u)' /\ SafeTokens(u)' /\ SafeCalls(u)'
      <4>1. DeriveSafe' = DeriveSafe
        BY <1>1, EditFrame
      <4>2. edit[a].doc.exists /\ edit[a].doc.roles = Roles.team /\ edit[a].doc.scopes = DeriveSafe
        BY <1>1, <3>4 DEF AccessInv, CleanInv
      <4>3. SafeAccount(u)'
        BY <1>1, <2>5, <3>4, <4>1, <4>2 DEF SafeAccount, NoRow
      <4>4. SafeEdits(u)'
        BY <2>6, <3>4, <4>2 DEF SafeEdits, Busy, Writing
      <4>5. SafeTokens(u)'
        BY <1>1, <3>4 DEF SafeTokens, Known
      <4>6. SafeCalls(u)'
        BY <1>1, <3>4 DEF SafeCalls, Known
      <4> QED
        BY <4>3, <4>4, <4>5, <4>6
    <3>5. \A v \in safe' :
            v \in safe \/ (v = u /\ edit[a].clean /\ ~Known(u) /\ ctx[u] = NoRow /\ ~Busy(u))
      BY <2>1
    <3> QED
      BY <3>3, <3>4, <3>5 DEF SafeInv
  <2> QED
    BY <2>6, <2>7, <2>8 DEF AccessInv
<1> QED
  BY <1>2, <1>3

\* An edit that gives up before it has written anything.
LEMMA GivesUp ==
  ASSUME AccessInv, NEW a \in Editors, Ends(a), ~Writing(a),
         UNCHANGED <<stores, put, call, counts, history>>
  PROVE  AccessInv'
<1>1. EditOK' /\ edit'[a] = NoEdit /\ \A b \in Editors \ {a} : edit'[b] = edit[b]
  BY EndsTyped DEF AccessInv, AccessTypeOK
<1> QED
  BY <1>1, QuietEdit DEF NoEdit, counts, AccessInv, AccessTypeOK, StoresOK

LEMMA WriteSound ==
  ASSUME AccessInv, NEW a \in Editors, Write(a)
  PROVE  AccessInv'
<1>0. PICK u \in Addresses : u = edit[a].user
  BY DEF Write, AccessInv, AccessTypeOK, EditOK
<1> DEFINE op == edit[a].op
           entry == [NoEdit EXCEPT !.pc = "reread", !.user = u, !.id = edit[a].id]
<1>1. /\ edit[a] \in EditEntry /\ edit[a].pc = "write" /\ ~Writing(a)
      /\ UNCHANGED <<catalog, ctx, held, policy, cache, put, call, counts, torn, shut>>
  BY DEF Write, Writing, AccessInv, AccessTypeOK, EditOK
<1>2. CASE ~Found(a)
  BY <1>1, <1>2, GivesUp DEF Write, stores, history
<1>3. CASE Found(a)
  <2>1. /\ users' = [users EXCEPT ![u] = Changed(@, op)] /\ Begins(a, entry, TRUE)
        /\ safe' = safe \ {x \in {u} : op \in {"viewer", "root", "scopes"}}
    BY <1>0, <1>3 DEF Write
  <2>2. entry \in EditEntry
    BY <1>1, EmptyTyped DEF EditEntry, NoEdit
  <2>3. entry.pc = "reread" /\ entry.user = u
    BY DEF NoEdit
  <2>4. users[u] \in Record /\ catalog \in Catalogs
    BY DEF AccessInv, AccessTypeOK, StoresOK
  <2>5. users'[u] = Changed(users[u], op) /\ \A v \in Addresses \ {u} : users'[v] = users[v]
    BY <2>1 DEF AccessInv, AccessTypeOK, StoresOK
  <2>6. /\ users'[u] \in Record /\ users'[u].exists = users[u].exists
        /\ op \notin {"viewer", "root"} => users'[u].roles = users[u].roles
        /\ op \notin {"viewer", "root", "scopes"} => users'[u].scopes = users[u].scopes
    BY <2>4, <2>5, ChangedTyped
  <2>7. users' \in [Addresses -> Record]
    BY <2>1, <2>4, <2>5, <2>6 DEF AccessInv, AccessTypeOK, StoresOK
  <2> HIDE DEF entry
  <2>8. /\ EditOK' /\ AloneInv' /\ MirrorInv' /\ CleanInv' /\ GuardInv'
        /\ edit'[a].pc = "reread"
        /\ \A b \in Editors \ {a} :
             /\ edit'[b].pc = edit[b].pc /\ edit'[b].user = edit[b].user
             /\ edit'[b].doc = edit[b].doc
    BY <1>1, <2>1, <2>2, <2>3, <2>5, <2>7, WritingEdit
  <2>9. AccessTypeOK' /\ ShutInv'
    BY <1>1, <2>1, <2>7, <2>8, EditFrame DEF AccessInv, AccessTypeOK, StoresOK
  <2>10. SafeInv'
    <3> SUFFICES ASSUME NEW v \in safe'
                 PROVE  SafeAccount(v)' /\ SafeEdits(v)' /\ SafeTokens(v)' /\ SafeCalls(v)'
      BY DEF SafeInv
    <3>1. v \in Addresses /\ SafeAccount(v) /\ SafeEdits(v) /\ SafeTokens(v) /\ SafeCalls(v)
      BY <2>1 DEF AccessInv, SafeInv, AccessTypeOK, StoresOK
    <3>2. v = u => op \notin {"viewer", "root", "scopes"}
      BY <2>1
    <3>3. SafeTokens(v)' /\ SafeCalls(v)' /\ DeriveSafe' = DeriveSafe
      BY <1>1, <3>1, EditFrame
    <3>4. /\ users'[v].exists = users[v].exists /\ users'[v].roles = users[v].roles
          /\ users'[v].scopes = users[v].scopes
      BY <2>5, <2>6, <3>1, <3>2
    <3>5. SafeAccount(v)'
      BY <1>1, <3>1, <3>3, <3>4 DEF SafeAccount
    <3>6. SafeEdits(v)'
      BY <2>8, <3>1 DEF SafeEdits
    <3> QED
      BY <3>3, <3>5, <3>6
  <2> QED
    BY <2>8, <2>9, <2>10 DEF AccessInv
<1> QED
  BY <1>2, <1>3

LEMMA RemoveSound ==
  ASSUME AccessInv, NEW a \in Editors, Remove(a)
  PROVE  AccessInv'
<1>0. PICK u \in Addresses : u = edit[a].user
  BY DEF Remove, AccessInv, AccessTypeOK, EditOK
<1>00. PICK found \in BOOLEAN : found = Found(a)
  BY DEF Found, AccessInv, AccessTypeOK, StoresOK, EditOK, EditEntry, Record
<1> DEFINE entry == [NoEdit EXCEPT !.pc = "clear", !.user = u]
<1>1. /\ edit[a] \in EditEntry /\ edit[a].pc = "remove" /\ ~Writing(a)
      /\ UNCHANGED <<catalog, ctx, held, policy, cache, put, call, counts, torn, shut>>
  BY DEF Remove, Writing, AccessInv, AccessTypeOK, EditOK
<1>2. /\ Begins(a, entry, found)
      /\ users' = IF found THEN [users EXCEPT ![u] = NoAccount] ELSE users
      /\ safe' = IF found THEN safe \ {u} ELSE safe
  BY <1>0, <1>00 DEF Remove
<1>3. entry \in EditEntry
  BY <1>1, EmptyTyped DEF EditEntry, NoEdit
<1>4. entry.pc = "clear" /\ entry.user = u
  BY DEF NoEdit
<1> HIDE DEF entry
<1>5. /\ users' \in [Addresses -> Record]
      /\ \A v \in Addresses \ {u} : users'[v] = users[v]
      /\ found => users'[u] = NoAccount
  BY <1>2, EmptyTyped DEF AccessInv, AccessTypeOK, StoresOK
<1>6. ~found => users' = users
  BY <1>2
<1>7. /\ EditOK' /\ AloneInv' /\ MirrorInv' /\ CleanInv' /\ GuardInv'
      /\ edit'[a].pc = "clear"
      /\ \A b \in Editors \ {a} :
           /\ edit'[b].pc = edit[b].pc /\ edit'[b].user = edit[b].user
           /\ edit'[b].doc = edit[b].doc
  BY <1>1, <1>2, <1>3, <1>4, <1>5, <1>6, WritingEdit
<1>8. safe' \subseteq safe /\ \A v \in safe' : users'[v] = users[v]
  BY <1>2, <1>5, <1>6 DEF AccessInv, AccessTypeOK, StoresOK
<1>9. AccessTypeOK' /\ ShutInv'
  BY <1>1, <1>5, <1>7, <1>8, EditFrame DEF AccessInv, AccessTypeOK, StoresOK
<1>10. SafeInv'
  <2> SUFFICES ASSUME NEW v \in safe'
               PROVE  SafeAccount(v)' /\ SafeEdits(v)' /\ SafeTokens(v)' /\ SafeCalls(v)'
    BY DEF SafeInv
  <2>1. v \in Addresses /\ SafeAccount(v) /\ SafeEdits(v) /\ SafeTokens(v) /\ SafeCalls(v)
    BY <1>8 DEF AccessInv, SafeInv, AccessTypeOK, StoresOK
  <2>2. SafeTokens(v)' /\ SafeCalls(v)' /\ DeriveSafe' = DeriveSafe
    BY <1>1, <2>1, EditFrame
  <2>3. SafeAccount(v)'
    BY <1>1, <1>8, <2>1, <2>2 DEF SafeAccount
  <2>4. SafeEdits(v)'
    BY <1>7, <2>1 DEF SafeEdits
  <2> QED
    BY <2>2, <2>3, <2>4
<1> QED
  BY <1>7, <1>9, <1>10 DEF AccessInv

LEMMA RereadFound ==
  ASSUME AccessInv, NEW a \in Editors, Reread(a), Found(a)
  PROVE  AccessInv'
<1>0. PICK u \in Addresses : u = edit[a].user
  BY DEF Reread, AccessInv, AccessTypeOK, EditOK
<1>1. /\ edit[a] \in EditEntry /\ edit[a].pc = "reread"
      /\ UNCHANGED <<stores, put, call, counts, torn, safe, shut>>
  BY DEF Reread, AccessInv, AccessTypeOK, EditOK
<1>2. edit' = [edit EXCEPT ![a].pc = "sync", ![a].id = 0, ![a].doc = users[u]]
  BY <1>0 DEF Reread
<1>3. users[u] \in Record
  BY DEF AccessInv, AccessTypeOK, StoresOK
<1>4. /\ edit'[a] = [edit[a] EXCEPT !.pc = "sync", !.id = 0, !.doc = users[u]]
      /\ \A b \in Editors \ {a} : edit'[b] = edit[b]
  BY <1>2 DEF AccessInv, AccessTypeOK, EditOK
<1>5. /\ edit'[a] \in EditEntry /\ edit'[a].pc = "sync" /\ edit'[a].user = u
      /\ edit'[a].doc = users[u] /\ edit'[a].alone = edit[a].alone
  <2>1. PICK doc \in Record : doc = users[u]
    BY <1>3
  <2>2. edit'[a] = [edit[a] EXCEPT !.pc = "sync", !.id = 0, !.doc = doc]
    BY <1>4, <2>1
  <2>3. /\ edit'[a].pc = "sync" /\ edit'[a].user = u /\ edit'[a].doc = doc
        /\ edit'[a].alone = edit[a].alone
    BY <1>0, <1>1, <2>2 DEF EditEntry
  <2>4. edit'[a] \in EditEntry
    <3>1. edit'[a] = [pc |-> "sync", user |-> edit[a].user, id |-> 0, root |-> edit[a].root,
                      op |-> edit[a].op, doc |-> doc, alone |-> edit[a].alone,
                      clean |-> edit[a].clean]
      BY <1>1, <2>2 DEF EditEntry
    <3> QED
      BY <1>1, <2>1, <3>1 DEF EditEntry
  <2> QED
    BY <2>1, <2>3, <2>4
<1>6. EditOK'
  BY <1>2, <1>4, <1>5 DEF AccessInv, AccessTypeOK, EditOK
<1>7. \A b \in Editors : (Writing(b)' <=> Writing(b)) /\ edit'[b].user = edit[b].user
                         /\ edit'[b].alone = edit[b].alone
  BY <1>0, <1>1, <1>4, <1>5 DEF Writing
<1>8. AloneInv'
  <2> SUFFICES ASSUME NEW b \in Editors, Writing(b)', edit'[b].alone
               PROVE  /\ \A d \in Editors \ {b} : ~(Writing(d)' /\ edit'[d].user = edit'[b].user)
                      /\ edit'[b].pc = "sync" => edit'[b].doc = users'[edit'[b].user]
                      /\ edit'[b].pc = "clear" => users'[edit'[b].user] = NoAccount
    BY DEF AloneInv
  <2>1. Writing(b) /\ edit[b].alone /\ users' = users
    BY <1>1, <1>7 DEF stores
  <2>2. /\ \A d \in Editors \ {b} : ~(Writing(d) /\ edit[d].user = edit[b].user)
        /\ edit[b].pc = "sync" => edit[b].doc = users[edit[b].user]
        /\ edit[b].pc = "clear" => users[edit[b].user] = NoAccount
    BY <2>1 DEF AccessInv, AloneInv
  <2> QED
    BY <1>4, <1>5, <1>7, <2>1, <2>2
<1>9. MirrorInv'
  <2>1. \A v \in Addresses : Busy(v)' <=> Busy(v)
    BY <1>7 DEF Busy
  <2> QED
    BY <1>1, <2>1 DEF AccessInv, MirrorInv, Row, stores
<1>10. AccessTypeOK' /\ ShutInv'
  BY <1>1, <1>6, EditFrame DEF AccessInv, AccessTypeOK, StoresOK, stores
<1>11. CleanInv' /\ GuardInv'
  <2>1. DeriveSafe' = DeriveSafe
    BY <1>1, DerivedKept DEF stores
  <2>2. CleanInv'
    <3> SUFFICES ASSUME NEW b \in Editors, edit'[b].pc = "insert", edit'[b].clean
                 PROVE  /\ edit'[b].doc.exists /\ edit'[b].doc.roles = Roles.team
                        /\ edit'[b].doc.scopes = DeriveSafe
      BY <2>1 DEF CleanInv
    <3>1. b # a
      BY <1>5
    <3>2. edit'[b] = edit[b]
      BY <1>4, <3>1
    <3> QED
      BY <3>2 DEF AccessInv, CleanInv
  <2>3. GuardInv'
    BY <1>4, <1>5 DEF AccessInv, GuardInv
  <2> QED
    BY <2>2, <2>3
<1>12. SafeInv'
  <2> SUFFICES ASSUME NEW v \in safe
               PROVE  SafeAccount(v)' /\ SafeEdits(v)' /\ SafeTokens(v)' /\ SafeCalls(v)'
    BY <1>1 DEF SafeInv
  <2>1. v \in Addresses /\ SafeAccount(v) /\ SafeEdits(v) /\ SafeTokens(v) /\ SafeCalls(v)
    BY DEF AccessInv, SafeInv, AccessTypeOK, StoresOK
  <2>2. SafeTokens(v)' /\ SafeCalls(v)' /\ DeriveSafe' = DeriveSafe
    BY <1>1, <2>1, EditFrame DEF stores
  <2>3. SafeAccount(v)'
    BY <1>1, <2>1, <2>2 DEF SafeAccount, stores
  <2>4. SafeEdits(v)'
    <3>1. u = v => edit'[a].doc.roles = Roles.team
      BY <1>5, <2>1 DEF SafeAccount
    <3> QED
      BY <1>4, <1>5, <2>1, <3>1 DEF SafeEdits
  <2> QED
    BY <2>2, <2>3, <2>4
<1> QED
  BY <1>8, <1>9, <1>10, <1>11, <1>12 DEF AccessInv

\* The last step of an edit, whichever way it goes: its account is torn from then on, or
\* its row is what the record says.
LEMMA SettlingEdit ==
  ASSUME AccessInv, NEW a \in Editors, Writing(a), Ends(a),
         NEW u \in Addresses, u = edit[a].user,
         ctx' \in [Addresses -> Mirror],
         \A v \in Addresses \ {u} : ctx'[v] = ctx[v],
         u \in safe => ctx'[u].roles \subseteq Roles.team,
         \/ torn' = torn \cup {u}
         \/ torn' = torn \ {u} /\ ctx'[u] = Row(users[u]),
         edits' \in Nat, changes' \in Nat,
         UNCHANGED <<catalog, users, held, policy, cache, put, call, safe, shut>>
  PROVE  AccessInv'
<1>1. EditOK' /\ edit'[a] = NoEdit /\ \A b \in Editors \ {a} : edit'[b] = edit[b]
  BY EndsTyped DEF AccessInv, AccessTypeOK
<1>2. ~Writing(a)' /\ \A b \in Editors \ {a} : Writing(b)' <=> Writing(b)
  BY <1>1 DEF Writing, NoEdit
<1>3. DeriveSafe' = DeriveSafe
  BY DerivedKept
<1>4. AccessTypeOK' /\ ShutInv'
  BY <1>1 DEF AccessInv, AccessTypeOK, StoresOK, CallOK, ShutInv
<1>5. AloneInv'
  BY <1>1, <1>2 DEF AccessInv, AloneInv
<1>6. MirrorInv'
  <2> SUFFICES ASSUME NEW v \in Addresses, v \notin torn', ~Busy(v)'
               PROVE  ctx'[v] = Row(users[v])
    BY DEF MirrorInv, Row
  <2>1. CASE v = u
    BY <2>1
  <2>2. CASE v # u
    <3>1. ~Busy(v)
      BY <1>1, <1>2, <2>2 DEF Busy
    <3>2. v \notin torn
      BY <2>2
    <3> QED
      BY <2>2, <3>1, <3>2 DEF AccessInv, MirrorInv
  <2> QED
    BY <2>1, <2>2
<1>7. CleanInv' /\ GuardInv'
  BY <1>1, <1>3 DEF AccessInv, CleanInv, GuardInv, NoEdit
<1>8. SafeInv'
  <2> SUFFICES ASSUME NEW v \in safe
               PROVE  SafeAccount(v)' /\ SafeEdits(v)' /\ SafeTokens(v)' /\ SafeCalls(v)'
    BY DEF SafeInv
  <2>1. v \in Addresses /\ SafeAccount(v) /\ SafeEdits(v) /\ SafeTokens(v) /\ SafeCalls(v)
    BY DEF AccessInv, SafeInv, AccessTypeOK, StoresOK
  <2>2. SafeTokens(v)' /\ SafeCalls(v)'
    BY <1>3, <2>1 DEF SafeTokens, SafeCalls
  <2>3. SafeAccount(v)'
    BY <1>3, <2>1 DEF SafeAccount
  <2>4. SafeEdits(v)'
    BY <1>1, <2>1 DEF SafeEdits, NoEdit
  <2> QED
    BY <2>2, <2>3, <2>4
<1> QED
  BY <1>4, <1>5, <1>6, <1>7, <1>8 DEF AccessInv

LEMMA SettleSound ==
  ASSUME AccessInv, NEW a \in Editors, Reread(a) \/ Sync(a) \/ Clear(a) \/ Breaks(a)
  PROVE  AccessInv'
<1>1. Writing(a) /\ edit[a] \in EditEntry
  BY DEF Reread, Sync, Clear, Breaks, Writing, AccessInv, AccessTypeOK, EditOK
<1>2. PICK u \in Addresses : u = edit[a].user
  BY <1>1 DEF Writing, AccessInv, AccessTypeOK, EditOK
<1>3. /\ edits \in Nat /\ changes \in Nat /\ ctx \in [Addresses -> Mirror]
      /\ u \in safe => SafeAccount(u) /\ SafeEdits(u)
  BY DEF AccessInv, SafeInv, AccessTypeOK, StoresOK
<1>4. CASE Reread(a)
  <2>1. CASE Found(a)
    BY <1>4, <2>1, RereadFound
  <2>2. CASE ~Found(a)
    <3>1. Ends(a) /\ torn' = torn \cup {u} /\ UNCHANGED <<stores, put, call, counts, safe, shut>>
      BY <1>2, <1>4, <2>2 DEF Reread
    <3> QED
      BY <1>1, <1>2, <1>3, <3>1, SettlingEdit DEF stores, counts, SafeAccount
  <2> QED
    BY <2>1, <2>2
<1>5. CASE Sync(a)
  <2>1. /\ ctx' = [ctx EXCEPT ![u] = Row(edit[a].doc)] /\ Ends(a) /\ Settles(a) /\ edit[a].pc = "sync"
        /\ UNCHANGED <<catalog, users, held, policy, cache, put, call, counts, safe, shut>>
    BY <1>2, <1>5 DEF Sync
  <2>2. edit[a].doc \in Record
    BY <1>1 DEF EditEntry
  <2>3. /\ ctx' \in [Addresses -> Mirror] /\ ctx'[u] = Row(edit[a].doc)
        /\ \A v \in Addresses \ {u} : ctx'[v] = ctx[v]
    BY <1>3, <2>1, <2>2, RowTyped
  <2>4. edit[a].alone => edit[a].doc = users[u]
    BY <1>1, <1>2, <2>1 DEF AccessInv, AloneInv
  <2>5. torn' = torn \cup {u} \/ (torn' = torn \ {u} /\ ctx'[u] = Row(users[u]))
    BY <1>2, <2>1, <2>3, <2>4 DEF Settles
  <2>6. u \in safe => ctx'[u].roles \subseteq Roles.team
    BY <1>2, <1>3, <2>1, <2>3 DEF SafeEdits, Row
  <2> QED
    BY <1>1, <1>2, <1>3, <2>1, <2>3, <2>5, <2>6, SettlingEdit DEF counts
<1>6. CASE Clear(a)
  <2>1. /\ ctx' = [ctx EXCEPT ![u] = NoRow] /\ Ends(a) /\ Settles(a) /\ edit[a].pc = "clear"
        /\ UNCHANGED <<catalog, users, held, policy, cache, put, call, counts, safe, shut>>
    BY <1>2, <1>6 DEF Clear
  <2>2. /\ ctx' \in [Addresses -> Mirror] /\ ctx'[u] = NoRow
        /\ \A v \in Addresses \ {u} : ctx'[v] = ctx[v]
    BY <1>3, <2>1, EmptyTyped
  <2>3. edit[a].alone => users[u] = NoAccount
    BY <1>1, <1>2, <2>1 DEF AccessInv, AloneInv
  <2>4. torn' = torn \cup {u} \/ (torn' = torn \ {u} /\ ctx'[u] = Row(users[u]))
    <3>1. Row(NoAccount) = NoRow
      BY DEF Row, NoAccount, NoRow
    <3> QED
      BY <1>2, <2>1, <2>2, <2>3, <3>1 DEF Settles
  <2>5. u \in safe => ctx'[u].roles \subseteq Roles.team
    BY <2>2 DEF NoRow
  <2> QED
    BY <1>1, <1>2, <1>3, <2>1, <2>2, <2>4, <2>5, SettlingEdit DEF counts
<1>7. CASE Breaks(a)
  <2>1. /\ Ends(a) /\ torn' = torn \cup {u} /\ UNCHANGED <<stores, put, call, safe, shut>>
        /\ edits' \in Nat /\ changes' \in Nat
    BY <1>2, <1>3, <1>7 DEF Breaks, Event
  <2> QED
    BY <1>1, <1>2, <1>3, <2>1, SettlingEdit DEF stores, SafeAccount
<1> QED
  BY <1>4, <1>5, <1>6, <1>7

LEMMA EditSound ==
  ASSUME AccessInv, NEW a \in Editors, EditStep(a)
  PROVE  AccessInv'
<1>1. CASE Insert(a)
  BY <1>1, InsertSound
<1>2. CASE Write(a)
  BY <1>2, WriteSound
<1>3. CASE Find(a)
  BY <1>3, FindSound
<1>4. CASE Remove(a)
  BY <1>4, RemoveSound
<1>5. CASE Reread(a) \/ Sync(a) \/ Clear(a) \/ Breaks(a)
  BY <1>5, SettleSound
<1>6. CASE \E u \in Addresses, root \in BOOLEAN, p \in Presets : CreateUser(a, u, p, root)
  BY <1>6, CreateSound
<1>7. CASE \E u \in Addresses, root \in BOOLEAN, op \in Edits : Load(a, u, root, op)
  BY <1>7, LoadSound
<1> QED
  BY <1>1, <1>2, <1>3, <1>4, <1>5, <1>6, <1>7 DEF EditStep

-----------------------------------------------------------------------------
(* Tokens and calls                                                        *)

\* What the edits need, and the stores, when neither is written.
LEMMA CallFrame ==
  ASSUME AccessInv, UNCHANGED <<catalog, users, ctx, edit, counts, torn, safe>>
  PROVE  /\ EditOK' /\ AloneInv' /\ MirrorInv' /\ CleanInv' /\ GuardInv'
         /\ DeriveSafe' = DeriveSafe
         /\ \A u \in Addresses : SafeAccount(u) => SafeAccount(u)'
         /\ \A u \in Addresses : SafeEdits(u) => SafeEdits(u)'
<1>1. DeriveSafe' = DeriveSafe
  BY DerivedKept
<1>2. \A a \in Editors : Writing(a)' <=> Writing(a)
  BY DEF Writing
<1>3. \A u : Busy(u)' <=> Busy(u)
  BY <1>2 DEF Busy
<1>4. AloneInv'
  BY <1>2 DEF AccessInv, AloneInv
<1>5. MirrorInv'
  BY <1>3 DEF AccessInv, MirrorInv, Row
<1> QED
  BY <1>1, <1>4, <1>5 DEF AccessInv, AccessTypeOK, EditOK, CleanInv, GuardInv, SafeAccount, SafeEdits

LEMMA TokenSound ==
  ASSUME AccessInv, NEW u \in Addresses, TokenStep(u)
  PROVE  AccessInv'
<1>1. UNCHANGED <<catalog, users, ctx, policy, cache, edit, put, call, counts, history>>
  BY DEF TokenStep, Login, MintToken
<1>2. PICK k \in {Bearer(u), SessionToken(u)} : held' = held \cup {k}
  BY DEF TokenStep, Login, MintToken, Hold
<1>3. users[u] \in Record /\ held \subseteq Token
  BY DEF AccessInv, AccessTypeOK, StoresOK
<1>4. /\ k \in Token /\ k.user = u /\ k.roles = users[u].roles
      /\ k.scopes \in {users[u].scopes, {}}
  BY <1>2, <1>3 DEF Bearer, SessionToken, Token, Record
<1>5. AccessTypeOK' /\ ShutInv'
  BY <1>1, <1>2, <1>3, <1>4 DEF AccessInv, AccessTypeOK, StoresOK, EditOK, CallOK, ShutInv, counts, history
<1>6. SafeInv'
  <2> SUFFICES ASSUME NEW v \in safe
               PROVE  SafeAccount(v)' /\ SafeEdits(v)' /\ SafeTokens(v)' /\ SafeCalls(v)'
    BY <1>1 DEF SafeInv, history
  <2>1. v \in Addresses /\ SafeAccount(v) /\ SafeEdits(v) /\ SafeTokens(v) /\ SafeCalls(v)
    BY DEF AccessInv, SafeInv, AccessTypeOK, StoresOK
  <2>2. SafeAccount(v)' /\ SafeEdits(v)' /\ DeriveSafe' = DeriveSafe
    BY <1>1, <2>1, CallFrame DEF history
  <2>3. SafeTokens(v)'
    BY <1>2, <1>4, <2>1, <2>2 DEF SafeTokens, SafeAccount
  <2>4. SafeCalls(v)'
    BY <1>1, <2>1, <2>2 DEF SafeCalls
  <2> QED
    BY <2>2, <2>3, <2>4
<1> QED
  BY <1>1, <1>5, <1>6, CallFrame DEF AccessInv, history

\* A step of one call that reads the stores: what it takes along has to be right.
LEMMA ReadingCall ==
  ASSUME AccessInv, NEW c \in Calls, NEW entry \in CallEntry,
         call' = [call EXCEPT ![c] = entry],
         UNCHANGED <<stores, edit, put, counts, history>>,
         entry.pc \notin {"idle", "ran"} => entry.user \in Addresses,
         entry.pc \in {"policy", "store"} => entry.tool \in Tools /\ entry.at \in Replicas,
         \A u \in safe : entry.user = u =>
           /\ entry.roles \subseteq Roles.team /\ entry.scopes \subseteq DeriveSafe
           /\ entry.pc \in {"policy", "store"} => entry.doc = catalog[entry.tool],
         entry.pc = "store" => entry.policy = policy
  PROVE  AccessInv'
<1>1. call'[c] = entry /\ \A d \in Calls \ {c} : call'[d] = call[d]
  BY DEF AccessInv, AccessTypeOK, CallOK
<1>2. CallOK'
  BY <1>1 DEF AccessInv, AccessTypeOK, CallOK, stores
<1>3. StoresOK'
  BY DEF AccessInv, AccessTypeOK, StoresOK, stores, counts, history
<1>4. ShutInv'
  BY <1>1 DEF AccessInv, ShutInv, stores, history
<1>5. SafeInv'
  <2> SUFFICES ASSUME NEW v \in safe
               PROVE  SafeAccount(v)' /\ SafeEdits(v)' /\ SafeTokens(v)' /\ SafeCalls(v)'
    BY DEF SafeInv, history
  <2>1. v \in Addresses /\ SafeAccount(v) /\ SafeEdits(v) /\ SafeTokens(v) /\ SafeCalls(v)
    BY DEF AccessInv, SafeInv, AccessTypeOK, StoresOK
  <2>2. SafeAccount(v)' /\ SafeEdits(v)' /\ DeriveSafe' = DeriveSafe
    BY <2>1, CallFrame DEF stores, history
  <2>3. SafeTokens(v)'
    BY <2>1, <2>2 DEF SafeTokens, stores
  <2>4. SafeCalls(v)'
    BY <1>1, <2>1, <2>2 DEF SafeCalls, stores
  <2> QED
    BY <2>2, <2>3, <2>4
<1> QED
  BY <1>2, <1>3, <1>4, <1>5, CallFrame DEF AccessInv, AccessTypeOK, stores, history

LEMMA GateSound ==
  ASSUME AccessInv, NEW c \in Calls, NEW u \in Addresses,
         NEW roles \in SUBSET RoleNames, NEW scopes \in SUBSET Scopes,
         u \in safe => roles \subseteq Roles.team /\ scopes \subseteq DeriveSafe,
         Gate(c, u, roles, scopes),
         UNCHANGED <<stores, edit, put, counts, history>>
  PROVE  AccessInv'
<1> DEFINE all == roles \cup ctx[u].roles
           entry == [NoCall EXCEPT !.pc = "tool", !.user = u, !.roles = all, !.scopes = scopes]
<1>1. ctx[u] \in Mirror /\ (u \in safe => SafeAccount(u))
  BY DEF AccessInv, SafeInv, AccessTypeOK, StoresOK
<1>2. all \in SUBSET RoleNames /\ (u \in safe => all \subseteq Roles.team)
  BY <1>1 DEF Mirror, SafeAccount
<1>3. call' = [call EXCEPT ![c] = NoCall] \/ call' = [call EXCEPT ![c] = entry]
  BY DEF Gate
<1> HIDE DEF all
<1>4. entry \in CallEntry
  BY <1>2, EmptyTyped DEF CallEntry, NoCall
<1>5. entry.pc = "tool" /\ entry.user = u /\ entry.roles = all /\ entry.scopes = scopes
  BY DEF NoCall
<1> HIDE DEF entry
<1>6. CASE call' = [call EXCEPT ![c] = NoCall]
  BY <1>6, EmptyTyped, ReadingCall DEF NoCall
<1>7. CASE call' = [call EXCEPT ![c] = entry]
  BY <1>2, <1>4, <1>5, <1>7, ReadingCall
<1> QED
  BY <1>3, <1>6, <1>7

\* What a call that is on its way has, as far as its account is safe.
LEMMA CallFields ==
  ASSUME AccessInv, NEW c \in Calls
  PROVE  /\ call[c] \in CallEntry
         /\ call[c].pc \notin {"idle", "ran"} => call[c].user \in Addresses
         /\ call[c].pc \in {"policy", "store"} => call[c].tool \in Tools /\ call[c].at \in Replicas
         /\ \A u \in safe : call[c].user = u =>
              /\ call[c].roles \subseteq Roles.team /\ call[c].scopes \subseteq DeriveSafe
              /\ call[c].pc \in {"policy", "store"} => call[c].doc = catalog[call[c].tool]
BY DEF AccessInv, AccessTypeOK, CallOK, SafeInv, SafeCalls

LEMMA AdmissionSound ==
  ASSUME AccessInv, NEW c \in Calls,
         \/ \E k \in held : Admit(c, k)
         \/ \E u \in Addresses : Authenticate(c, u)
         \/ AdmitBasic(c)
  PROVE  AccessInv'
<1>1. ASSUME NEW k \in held, Admit(c, k)
      PROVE  AccessInv'
  <2>1. k \in Token
    BY DEF AccessInv, AccessTypeOK, StoresOK
  <2>2. k.user \in Addresses /\ k.roles \in SUBSET RoleNames /\ k.scopes \in SUBSET Scopes
    BY <2>1 DEF Token
  <2>3. k.user \in safe => k.roles \subseteq Roles.team /\ k.scopes \subseteq DeriveSafe
    BY DEF AccessInv, SafeInv, SafeTokens
  <2> QED
    BY <1>1, <2>2, <2>3, GateSound DEF Admit
<1>2. ASSUME NEW u \in Addresses, Authenticate(c, u)
      PROVE  AccessInv'
  <2> DEFINE entry == [NoCall EXCEPT !.pc = "rbac", !.user = u, !.roles = users[u].roles]
  <2>1. users[u].roles \in SUBSET RoleNames /\ (u \in safe => users[u].roles = Roles.team)
    BY DEF AccessInv, AccessTypeOK, StoresOK, SafeInv, SafeAccount, Record
  <2>2. entry \in CallEntry
    BY <2>1, EmptyTyped DEF CallEntry, NoCall
  <2>3. entry.pc = "rbac" /\ entry.user = u /\ entry.roles = users[u].roles /\ entry.scopes = {}
    BY DEF NoCall
  <2>4. call' = [call EXCEPT ![c] = entry] /\ UNCHANGED <<stores, edit, put, counts, history>>
    BY <1>2 DEF Authenticate
  <2> HIDE DEF entry
  <2> QED
    BY <2>1, <2>2, <2>3, <2>4, ReadingCall
<1>3. CASE AdmitBasic(c)
  <2>1. /\ Gate(c, call[c].user, call[c].roles, {}) /\ call[c].pc = "rbac"
        /\ UNCHANGED <<stores, edit, put, counts, history>>
    BY <1>3 DEF AdmitBasic
  <2>2. call[c].user \in Addresses /\ call[c].roles \in SUBSET RoleNames
    BY <2>1, CallFields DEF CallEntry
  <2>3. call[c].user \in safe => call[c].roles \subseteq Roles.team
    BY CallFields
  <2> QED
    BY <2>1, <2>2, <2>3, GateSound
<1> QED
  BY <1>1, <1>2, <1>3

LEMMA GetToolSound ==
  ASSUME AccessInv, NEW c \in Calls, NEW t \in Tools, NEW p \in Replicas, GetTool(c, t, p)
  PROVE  AccessInv'
<1> DEFINE entry == [call[c] EXCEPT !.pc = "policy", !.tool = t, !.at = p, !.doc = catalog[t]]
<1>1. /\ call' = [call EXCEPT ![c] = entry] /\ call[c].pc = "tool"
      /\ UNCHANGED <<stores, edit, put, counts, history>>
  BY DEF GetTool, AccessInv, AccessTypeOK, CallOK
<1>2. PICK doc \in ToolDoc : doc = catalog[t]
  <2>1. catalog \in [Tools -> [action : Actions, scopes : SUBSET Scopes]]
    BY AccessAssumption DEF AccessInv, AccessTypeOK, StoresOK
  <2> QED
    BY <2>1 DEF ToolDoc
<1>3. PICK k \in CallEntry : k = call[c]
  BY CallFields
<1> DEFINE next == [k EXCEPT !.pc = "policy", !.tool = t, !.at = p, !.doc = doc]
<1>4. entry = next
  BY <1>2, <1>3
<1>5. next \in CallEntry
  BY DEF CallEntry
<1>6. /\ next.pc = "policy" /\ next.user = k.user /\ next.roles = k.roles
      /\ next.scopes = k.scopes /\ next.tool = t /\ next.at = p /\ next.doc = doc
  BY DEF CallEntry
<1> HIDE DEF entry, next
<1> QED
  BY <1>1, <1>2, <1>3, <1>4, <1>5, <1>6, CallFields, ReadingCall

LEMMA ReadPolicySound ==
  ASSUME AccessInv, NEW c \in Calls, ReadPolicy(c)
  PROVE  AccessInv'
<1> DEFINE entry == [call[c] EXCEPT !.pc = "store", !.policy = policy]
<1>1. /\ call' = [call EXCEPT ![c] = entry] /\ call[c].pc = "policy"
      /\ UNCHANGED <<stores, edit, put, counts, history>>
  BY DEF ReadPolicy, AccessInv, AccessTypeOK, CallOK
<1>2. policy \in ToolPolicy
  BY DEF AccessInv, AccessTypeOK, CallOK
<1>3. PICK k \in CallEntry : k = call[c]
  BY CallFields
<1>4. PICK pol \in ToolPolicy : pol = policy
  BY <1>2
<1> DEFINE next == [k EXCEPT !.pc = "store", !.policy = pol]
<1>5. entry = next
  BY <1>3, <1>4
<1>6. next \in CallEntry
  BY DEF CallEntry
<1>7. /\ next.pc = "store" /\ next.user = k.user /\ next.roles = k.roles
      /\ next.scopes = k.scopes /\ next.tool = k.tool /\ next.at = k.at
      /\ next.doc = k.doc /\ next.policy = pol
  BY DEF CallEntry
<1> HIDE DEF entry, next
<1>8. /\ next.user \in Addresses /\ next.tool \in Tools /\ next.at \in Replicas
      /\ next.policy = policy
      /\ \A u \in safe : next.user = u =>
           /\ next.roles \subseteq Roles.team /\ next.scopes \subseteq DeriveSafe
           /\ next.doc = catalog[next.tool]
  BY <1>1, <1>3, <1>4, <1>7, CallFields
<1> QED
  BY <1>1, <1>5, <1>6, <1>8, ReadingCall

\* A call that is decided takes nothing along.
LEMMA DecidedCall ==
  ASSUME NEW c \in Calls, NEW pol, Decide(c, pol)
  PROVE  \E entry \in CallEntry :
           /\ call' = [call EXCEPT ![c] = entry]
           /\ entry.pc \in {"idle", "ran"} /\ entry.roles = {} /\ entry.scopes = {}
<1> DEFINE entry == [NoCall EXCEPT !.pc = IF Allowed(c, pol) THEN "ran" ELSE "idle"]
<1>1. entry.pc \in {"idle", "ran"} /\ entry.roles = {} /\ entry.scopes = {}
  BY DEF NoCall
<1>2. entry \in CallEntry
  BY EmptyTyped DEF CallEntry, NoCall
<1> QED
  BY <1>1, <1>2 DEF Decide

LEMMA DecisionSound ==
  ASSUME AccessInv, NEW c \in Calls, CachedPolicy(c) \/ StorePolicy(c)
  PROVE  AccessInv'
<1>1. PICK entry \in CallEntry :
        /\ call' = [call EXCEPT ![c] = entry]
        /\ entry.pc \in {"idle", "ran"} /\ entry.roles = {} /\ entry.scopes = {}
  BY DecidedCall DEF CachedPolicy, StorePolicy
<1>2. CASE CachedPolicy(c)
  BY <1>1, <1>2, ReadingCall DEF CachedPolicy
<1>3. CASE StorePolicy(c)
  <2>1. /\ call[c].pc = "store"
        /\ cache' = [cache EXCEPT ![call[c].at] = [live |-> TRUE, policy |-> call[c].policy]]
        /\ UNCHANGED <<catalog, users, ctx, held, policy, edit, put, counts, history>>
    BY <1>3 DEF StorePolicy
  <2>2. /\ call'[c] = entry /\ \A d \in Calls \ {c} : call'[d] = call[d]
        /\ cache \in [Replicas -> [live : BOOLEAN, policy : ToolPolicy]]
    BY <1>1 DEF AccessInv, AccessTypeOK, CallOK
  <2>3. PICK p \in Replicas : p = call[c].at
    BY <2>1, CallFields
  <2>4. PICK pol \in ToolPolicy : pol = call[c].policy
    BY CallFields DEF CallEntry
  <2>5. /\ cache' \in [Replicas -> [live : BOOLEAN, policy : ToolPolicy]]
        /\ cache'[p].policy = pol /\ \A q \in Replicas \ {p} : cache'[q] = cache[q]
    BY <2>1, <2>2, <2>3, <2>4
  <2>6. CallOK'
    BY <1>1, <2>1, <2>2, <2>5 DEF AccessInv, AccessTypeOK, CallOK
  <2>7. StoresOK'
    BY <2>1 DEF AccessInv, AccessTypeOK, StoresOK, counts, history
  <2>8. ShutInv'
    <3>1. p \in shut => policy.off \subseteq pol.off
      BY <2>1, <2>3, <2>4 DEF AccessInv, ShutInv
    <3> QED
      BY <1>1, <2>1, <2>2, <2>5, <3>1 DEF AccessInv, AccessTypeOK, StoresOK, ShutInv, history
  <2>9. SafeInv'
    <3> SUFFICES ASSUME NEW v \in safe
                 PROVE  SafeAccount(v)' /\ SafeEdits(v)' /\ SafeTokens(v)' /\ SafeCalls(v)'
      BY <2>1 DEF SafeInv, history
    <3>1. v \in Addresses /\ SafeAccount(v) /\ SafeEdits(v) /\ SafeTokens(v) /\ SafeCalls(v)
      BY DEF AccessInv, SafeInv, AccessTypeOK, StoresOK
    <3>2. SafeAccount(v)' /\ SafeEdits(v)' /\ DeriveSafe' = DeriveSafe
      BY <2>1, <3>1, CallFrame DEF history
    <3>3. SafeTokens(v)'
      BY <2>1, <3>1, <3>2 DEF SafeTokens
    <3>4. SafeCalls(v)'
      BY <1>1, <2>1, <2>2, <3>1, <3>2 DEF SafeCalls
    <3> QED
      BY <3>2, <3>3, <3>4
  <2> QED
    BY <2>1, <2>6, <2>7, <2>8, <2>9, CallFrame DEF AccessInv, AccessTypeOK, history
<1> QED
  BY <1>2, <1>3

LEMMA CallSound ==
  ASSUME AccessInv, NEW c \in Calls, CallStep(c)
  PROVE  AccessInv'
BY AdmissionSound, GetToolSound, ReadPolicySound, DecisionSound DEF CallStep

-----------------------------------------------------------------------------
(* The catalog and the policy                                              *)

LEMMA SyncCatalogSound ==
  ASSUME AccessInv, NEW new \in Catalogs, SyncCatalog(new)
  PROVE  AccessInv'
<1>1. /\ catalog' = new /\ safe' = {} /\ edit' = [a \in Editors |-> [edit[a] EXCEPT !.clean = FALSE]]
      /\ UNCHANGED <<users, ctx, held, policy, cache, put, call, edits, torn, shut>>
      /\ changes' = changes + 1
  BY DEF SyncCatalog, Event
<1>2. \A a \in Editors :
        /\ edit'[a] \in EditEntry /\ ~edit'[a].clean
        /\ edit'[a].pc = edit[a].pc /\ edit'[a].user = edit[a].user /\ edit'[a].doc = edit[a].doc
        /\ edit'[a].alone = edit[a].alone /\ edit'[a].root = edit[a].root /\ edit'[a].op = edit[a].op
  BY <1>1 DEF AccessInv, AccessTypeOK, EditOK, EditEntry
<1>3. EditOK'
  BY <1>1, <1>2 DEF AccessInv, AccessTypeOK, EditOK
<1>4. \A a \in Editors : Writing(a)' <=> Writing(a)
  BY <1>2 DEF Writing
<1>5. \A u : Busy(u)' <=> Busy(u)
  BY <1>2, <1>4 DEF Busy
<1>6. AloneInv'
  <2> SUFFICES ASSUME NEW b \in Editors, Writing(b)', edit'[b].alone
               PROVE  /\ \A d \in Editors \ {b} : ~(Writing(d)' /\ edit'[d].user = edit'[b].user)
                      /\ edit'[b].pc = "sync" => edit'[b].doc = users'[edit'[b].user]
                      /\ edit'[b].pc = "clear" => users'[edit'[b].user] = NoAccount
    BY DEF AloneInv
  <2>1. Writing(b) /\ edit[b].alone
    BY <1>2, <1>4
  <2>2. /\ \A d \in Editors \ {b} : ~(Writing(d) /\ edit[d].user = edit[b].user)
        /\ edit[b].pc = "sync" => edit[b].doc = users[edit[b].user]
        /\ edit[b].pc = "clear" => users[edit[b].user] = NoAccount
    BY <2>1 DEF AccessInv, AloneInv
  <2> QED
    BY <1>1, <1>2, <1>4, <2>2
<1>7. MirrorInv'
  BY <1>1, <1>5 DEF AccessInv, MirrorInv, Row
<1>8. CleanInv' /\ GuardInv' /\ SafeInv'
  BY <1>1, <1>2 DEF AccessInv, CleanInv, GuardInv, SafeInv
<1>9. AccessTypeOK' /\ ShutInv'
  BY <1>1, <1>3 DEF AccessInv, AccessTypeOK, StoresOK, CallOK, ShutInv
<1> QED
  BY <1>6, <1>7, <1>8, <1>9 DEF AccessInv

\* A step that sets, stores or drops the policy.
LEMMA PolicyFrame ==
  ASSUME AccessInv, UNCHANGED <<catalog, users, ctx, held, edit, call, torn, safe>>,
         edits' \in Nat, changes' \in Nat, shut' \subseteq Replicas,
         policy' \in ToolPolicy, cache' \in [Replicas -> [live : BOOLEAN, policy : ToolPolicy]],
         put' \in [Setters -> PutEntry],
         \A s \in Setters : put'[s].pc = "store" => put'[s].at \in Replicas,
         ShutInv'
  PROVE  AccessInv'
<1>1. DeriveSafe' = DeriveSafe
  BY DerivedKept
<1>2. \A a \in Editors : Writing(a)' <=> Writing(a)
  BY DEF Writing
<1>3. \A u : Busy(u)' <=> Busy(u)
  BY <1>2 DEF Busy
<1>4. AloneInv' /\ MirrorInv'
  BY <1>2, <1>3 DEF AccessInv, AloneInv, MirrorInv, Row
<1>5. CleanInv' /\ GuardInv'
  BY <1>1 DEF AccessInv, CleanInv, GuardInv
<1>6. SafeInv'
  BY <1>1 DEF AccessInv, SafeInv, SafeAccount, SafeEdits, SafeTokens, SafeCalls
<1>7. AccessTypeOK'
  BY DEF AccessInv, AccessTypeOK, StoresOK, EditOK, CallOK
<1> QED
  BY <1>4, <1>5, <1>6, <1>7 DEF AccessInv

LEMMA SetPolicySound ==
  ASSUME AccessInv, NEW s \in Setters, NEW p \in Replicas, NEW new \in Policies,
         SetPolicy(s, p, new)
  PROVE  AccessInv'
<1>1. /\ policy' = new /\ put' = [put EXCEPT ![s] = [pc |-> "store", at |-> p, policy |-> new]]
      /\ shut' = IF new.off \subseteq policy.off THEN shut
                 ELSE {q \in shut : ~cache[q].live /\ ~Reading(q)}
      /\ UNCHANGED <<catalog, users, ctx, held, cache, edit, call, torn, safe>>
  BY DEF SetPolicy
<1>2. edits' \in Nat /\ changes' \in Nat /\ shut' \subseteq Replicas
  BY <1>1 DEF SetPolicy, Event, AccessInv, AccessTypeOK, StoresOK
<1>3. /\ put' \in [Setters -> PutEntry] /\ put'[s] = [pc |-> "store", at |-> p, policy |-> new]
      /\ \A r \in Setters \ {s} : put'[r] = put[r]
  BY <1>1 DEF AccessInv, AccessTypeOK, CallOK, PutEntry, ToolPolicy
<1>4. ShutInv'
  <2> SUFFICES ASSUME NEW q \in shut'
               PROVE  /\ cache[q].live => new.off \subseteq cache[q].policy.off
                      /\ \A c \in Calls : (call[c].pc = "store" /\ call[c].at = q)
                                             => new.off \subseteq call[c].policy.off
                      /\ \A r \in Setters : (put'[r].pc = "store" /\ put'[r].at = q)
                                               => new.off \subseteq put'[r].policy.off
    BY <1>1 DEF ShutInv
  <2>1. q \in shut
    BY <1>1
  <2>2. CASE new.off \subseteq policy.off
    BY <1>3, <2>1, <2>2 DEF AccessInv, ShutInv
  <2>3. CASE ~(new.off \subseteq policy.off)
    <3>1. ~cache[q].live /\ ~Reading(q)
      BY <1>1, <2>3
    <3> QED
      BY <1>3, <3>1 DEF Reading
  <2> QED
    BY <2>2, <2>3
<1>5. policy' \in ToolPolicy /\ \A r \in Setters : put'[r].pc = "store" => put'[r].at \in Replicas
  BY <1>1, <1>3 DEF AccessInv, AccessTypeOK, CallOK, ToolPolicy
<1> QED
  BY <1>1, <1>2, <1>3, <1>4, <1>5, PolicyFrame DEF AccessInv, AccessTypeOK, CallOK

LEMMA StorePutSound ==
  ASSUME AccessInv, NEW s \in Setters, StorePut(s)
  PROVE  AccessInv'
<1>1. /\ put[s].pc = "store" /\ put' = [put EXCEPT ![s] = NoPut]
      /\ cache' = [cache EXCEPT ![put[s].at] = [live |-> TRUE, policy |-> put[s].policy]]
      /\ UNCHANGED <<catalog, users, ctx, held, policy, edit, call, counts, torn, safe>>
      /\ shut' = shut \cup {q \in {put[s].at} : put[s].policy = policy /\ ~Reading(q)'}
  BY DEF StorePut
<1>2. put[s] \in PutEntry /\ put \in [Setters -> PutEntry]
  BY DEF AccessInv, AccessTypeOK, CallOK
<1>3. PICK p \in Replicas : p = put[s].at
  BY <1>1 DEF AccessInv, AccessTypeOK, CallOK
<1>4. PICK pol \in ToolPolicy : pol = put[s].policy
  BY <1>2 DEF PutEntry
<1>5. /\ cache' \in [Replicas -> [live : BOOLEAN, policy : ToolPolicy]]
      /\ cache'[p].policy = pol /\ \A q \in Replicas \ {p} : cache'[q] = cache[q]
  BY <1>1, <1>3, <1>4 DEF AccessInv, AccessTypeOK, CallOK
<1>6. /\ put' \in [Setters -> PutEntry] /\ put'[s] = NoPut
      /\ \A r \in Setters \ {s} : put'[r] = put[r]
  BY <1>1, <1>2, EmptyTyped
<1>7. shut' \subseteq Replicas /\ shut \subseteq Replicas
  BY <1>1, <1>3 DEF AccessInv, AccessTypeOK, StoresOK
<1>8. ShutInv'
  <2> SUFFICES ASSUME NEW q \in shut'
               PROVE  /\ cache'[q].live => policy.off \subseteq cache'[q].policy.off
                      /\ \A c \in Calls : (call[c].pc = "store" /\ call[c].at = q)
                                             => policy.off \subseteq call[c].policy.off
                      /\ \A r \in Setters : (put'[r].pc = "store" /\ put'[r].at = q)
                                               => policy.off \subseteq put'[r].policy.off
    BY <1>1 DEF ShutInv
  <2>1. CASE q \in shut
    <3>1. /\ cache[q].live => policy.off \subseteq cache[q].policy.off
          /\ \A c \in Calls : (call[c].pc = "store" /\ call[c].at = q)
                                 => policy.off \subseteq call[c].policy.off
          /\ \A r \in Setters : (put[r].pc = "store" /\ put[r].at = q)
                                   => policy.off \subseteq put[r].policy.off
      BY <2>1 DEF AccessInv, ShutInv
    <3>2. q = p => policy.off \subseteq pol.off
      BY <1>1, <1>3, <1>4, <3>1
    <3>3. \A r \in Setters : put'[r].pc = "store" => put'[r] = put[r]
      BY <1>6 DEF NoPut
    <3> QED
      BY <1>5, <1>7, <2>1, <3>1, <3>2, <3>3
  <2>2. CASE q \notin shut
    <3>1. q = p /\ pol = policy /\ ~Reading(q)'
      BY <1>1, <1>3, <1>4, <2>2
    <3>2. /\ \A c \in Calls : ~(call[c].pc = "store" /\ call[c].at = q)
          /\ \A r \in Setters : ~(put'[r].pc = "store" /\ put'[r].at = q)
      BY <1>1, <3>1 DEF Reading
    <3> QED
      BY <1>5, <3>1, <3>2
  <2> QED
    BY <2>1, <2>2
<1>9. \A r \in Setters : put'[r].pc = "store" => put'[r].at \in Replicas
  BY <1>6 DEF NoPut, AccessInv, AccessTypeOK, CallOK
<1> QED
  BY <1>1, <1>5, <1>6, <1>7, <1>8, <1>9, PolicyFrame DEF AccessInv, AccessTypeOK, StoresOK, CallOK, counts

LEMMA CacheExpiresSound ==
  ASSUME AccessInv, NEW p \in Replicas, CacheExpires(p)
  PROVE  AccessInv'
<1>1. /\ cache' = [cache EXCEPT ![p] = NoPolicy]
      /\ shut' = shut \cup {q \in {p} : ~Reading(p)}
      /\ UNCHANGED <<catalog, users, ctx, held, policy, edit, put, call, counts, torn, safe>>
  BY DEF CacheExpires
<1>2. /\ cache' \in [Replicas -> [live : BOOLEAN, policy : ToolPolicy]]
      /\ cache'[p] = NoPolicy /\ \A q \in Replicas \ {p} : cache'[q] = cache[q]
  BY <1>1, EmptyTyped DEF AccessInv, AccessTypeOK, CallOK
<1>3. shut' \subseteq Replicas /\ shut \subseteq Replicas
  BY <1>1 DEF AccessInv, AccessTypeOK, StoresOK
<1>4. ShutInv'
  <2> SUFFICES ASSUME NEW q \in shut'
               PROVE  /\ cache'[q].live => policy.off \subseteq cache'[q].policy.off
                      /\ \A c \in Calls : (call[c].pc = "store" /\ call[c].at = q)
                                             => policy.off \subseteq call[c].policy.off
                      /\ \A r \in Setters : (put[r].pc = "store" /\ put[r].at = q)
                                               => policy.off \subseteq put[r].policy.off
    BY <1>1 DEF ShutInv
  <2>1. CASE q \in shut
    BY <1>2, <1>3, <2>1 DEF AccessInv, ShutInv, NoPolicy
  <2>2. CASE q \notin shut
    <3>1. q = p /\ ~Reading(q)
      BY <1>1, <2>2
    <3> QED
      BY <1>2, <3>1 DEF Reading, NoPolicy
  <2> QED
    BY <2>1, <2>2
<1> QED
  BY <1>1, <1>2, <1>3, <1>4, PolicyFrame DEF AccessInv, AccessTypeOK, StoresOK, CallOK, counts

-----------------------------------------------------------------------------
LEMMA InitAccess == AccessInit => AccessInv
<1> SUFFICES ASSUME AccessInit PROVE AccessInv
  OBVIOUS
<1> USE DEF AccessInit
<1>1. \A u \in Addresses : users[u] = NoAccount \/ \E p \in Presets : users[u] = Made(p, 0)
  OBVIOUS
<1>2. \A u \in Addresses : users[u] \in Record
  BY <1>1, MadeTyped, EmptyTyped
<1>3. users \in [Addresses -> Record] /\ ctx \in [Addresses -> Mirror]
  BY <1>2, RowTyped
<1>4. StoresOK
  BY <1>3 DEF StoresOK
<1>5. EditOK
  BY EmptyTyped DEF EditOK, NoEdit
<1>6. CallOK
  BY EmptyTyped DEF CallOK, NoCall, NoPut, ToolPolicy
<1>7. AloneInv /\ CleanInv /\ GuardInv
  BY DEF AloneInv, CleanInv, GuardInv, NoEdit, Writing
<1>8. MirrorInv
  BY DEF MirrorInv
<1>9. ShutInv
  BY DEF ShutInv, NoPolicy, NoCall, NoPut
<1>10. SafeInv
  <2> SUFFICES ASSUME NEW u \in safe
               PROVE  SafeAccount(u) /\ SafeEdits(u) /\ SafeTokens(u) /\ SafeCalls(u)
    BY DEF SafeInv
  <2>1. u \in Addresses /\ users[u] = Made("team", 0)
    OBVIOUS
  <2>2. SafeAccount(u)
    BY <2>1 DEF SafeAccount, Made, Row
  <2>3. SafeEdits(u) /\ SafeTokens(u) /\ SafeCalls(u)
    BY DEF SafeEdits, SafeTokens, SafeCalls, NoEdit, NoCall
  <2> QED
    BY <2>2, <2>3
<1> QED
  BY <1>4, <1>5, <1>6, <1>7, <1>8, <1>9, <1>10 DEF AccessInv, AccessTypeOK

LEMMA StepAccess == AccessInv /\ [AccessNext]_accessVars => AccessInv'
<1> SUFFICES ASSUME AccessInv, [AccessNext]_accessVars PROVE AccessInv'
  OBVIOUS
<1>1. CASE \E a \in Editors : EditStep(a)
  BY <1>1, EditSound
<1>2. CASE \E u \in Addresses : TokenStep(u)
  BY <1>2, TokenSound
<1>3. CASE \E c \in Calls : CallStep(c)
  BY <1>3, CallSound
<1>4. CASE PolicyStep
  BY <1>4, SyncCatalogSound, SetPolicySound, StorePutSound, CacheExpiresSound DEF PolicyStep
<1>5. CASE UNCHANGED accessVars
  <2>1. UNCHANGED <<stores, edit, put, call, counts, history>>
    BY <1>5 DEF accessVars
  <2>2. UNCHANGED <<catalog, users, ctx, held, edit, call, torn, safe>>
    BY <2>1 DEF stores, history
  <2>3. UNCHANGED <<policy, cache, put, edits, changes, shut>>
    BY <2>1 DEF stores, counts, history
  <2>4. ShutInv'
    BY <2>2, <2>3 DEF AccessInv, ShutInv
  <2> QED
    BY <2>2, <2>3, <2>4, PolicyFrame DEF AccessInv, AccessTypeOK, StoresOK, CallOK
<1> QED
  BY <1>1, <1>2, <1>3, <1>4, <1>5 DEF AccessNext

THEOREM AccessInvariance == AccessSpec => []AccessInv
BY InitAccess, StepAccess, PTL DEF AccessSpec

\* Every variable of the accounts, their mirror, the tokens, the calls and the policies
\* keeps its type (the records of services/users.py and what is made of them).
THEOREM AccessTypeCorrect == AccessSpec => []AccessTypeOK
<1>1. AccessInv => AccessTypeOK
  BY DEF AccessInv
<1> QED
  BY <1>1, AccessInvariance, PTL

-----------------------------------------------------------------------------
(* What a step may never do                                                *)

\* Only its own step moves an edit, or a call.
LEMMA EditMoves ==
  ASSUME AccessInv, [AccessNext]_accessVars, NEW a \in Editors, edit'[a].pc # edit[a].pc
  PROVE  EditStep(a)
<1>1. edit \in [Editors -> EditEntry]
  BY DEF AccessInv, AccessTypeOK, EditOK
<1>2. ASSUME NEW b \in Editors, EditStep(b)
      PROVE  b = a
  <2>1. ASSUME NEW entry, NEW found, Begins(b, entry, found)
        PROVE  b = a
    <3>1. b # a => edit'[a] = [edit[a] EXCEPT !.alone = @ /\ ~(Writing(a) /\ edit[a].user = entry.user)]
      BY <2>1 DEF Begins
    <3> QED
      BY <1>1, <3>1 DEF EditEntry
  <2>2. ASSUME NEW entry, edit' = [edit EXCEPT ![b] = entry]
        PROVE  b = a
    BY <1>1, <2>2
  <2>3. Ends(b) => b = a
    BY <2>2 DEF Ends
  <2> QED
    BY <1>2, <2>1, <2>2, <2>3 DEF EditStep, Insert, Write, Reread, Sync, Find, Remove, Clear, Breaks,
                                  CreateUser, Load
<1>3. \A u \in Addresses : ~TokenStep(u)
  BY DEF TokenStep, Login, MintToken
<1>4. \A c \in Calls : ~CallStep(c)
  BY DEF CallStep, Admit, Authenticate, AdmitBasic, GetTool, CachedPolicy, ReadPolicy, StorePolicy
<1>5. ~PolicyStep
  <2>1. ASSUME NEW new \in Catalogs, SyncCatalog(new)
        PROVE  FALSE
    BY <1>1, <2>1 DEF SyncCatalog, EditEntry
  <2> QED
    BY <2>1 DEF PolicyStep, CacheExpires, StorePut, SetPolicy
<1> QED
  BY <1>2, <1>3, <1>4, <1>5 DEF AccessNext, accessVars

LEMMA CallMoves ==
  ASSUME AccessInv, [AccessNext]_accessVars, NEW c \in Calls, call'[c] # call[c]
  PROVE  CallStep(c)
<1>1. call \in [Calls -> CallEntry]
  BY DEF AccessInv, AccessTypeOK, CallOK
<1>2. ASSUME NEW d \in Calls, CallStep(d)
      PROVE  d = c
  <2>1. ASSUME NEW entry, call' = [call EXCEPT ![d] = entry]
        PROVE  d = c
    BY <1>1, <2>1
  <2>2. ASSUME NEW u, NEW roles, NEW scopes, Gate(d, u, roles, scopes)
        PROVE  d = c
    BY <2>1, <2>2 DEF Gate
  <2>3. ASSUME NEW pol, Decide(d, pol)
        PROVE  d = c
    BY <2>1, <2>3 DEF Decide
  <2> QED
    BY <1>2, <2>1, <2>2, <2>3 DEF CallStep, Admit, Authenticate, AdmitBasic, GetTool, CachedPolicy,
                                  ReadPolicy, StorePolicy
<1>3. ASSUME NEW a \in Editors, EditStep(a)
      PROVE  FALSE
  <2>1. ~Insert(a) /\ ~Write(a) /\ ~Reread(a) /\ ~Sync(a)
    BY DEF Insert, Write, Reread, Sync
  <2>2. ~Find(a) /\ ~Remove(a) /\ ~Clear(a) /\ ~Breaks(a)
    BY DEF Find, Remove, Clear, Breaks
  <2>3. \A u, root, p : ~CreateUser(a, u, p, root)
    BY DEF CreateUser
  <2>4. \A u, root, op : ~Load(a, u, root, op)
    BY DEF Load
  <2> QED
    BY <1>3, <2>1, <2>2, <2>3, <2>4 DEF EditStep
<1>4. \A u \in Addresses : ~TokenStep(u)
  BY DEF TokenStep, Login, MintToken
<1>5. ~PolicyStep
  BY DEF PolicyStep, SyncCatalog, CacheExpires, StorePut, SetPolicy
<1> QED
  BY <1>2, <1>3, <1>4, <1>5 DEF AccessNext, accessVars

\* Where the other steps of a call take it.
LEMMA StepsOn ==
  ASSUME NEW c \in Calls, call \in [Calls -> CallEntry]
  PROVE  /\ \A u \in Addresses : Authenticate(c, u) => call'[c].pc = "rbac"
         /\ \A t \in Tools, p \in Replicas : GetTool(c, t, p) => call'[c].pc = "policy"
         /\ ReadPolicy(c) => call'[c].pc = "store"
<1>1. ASSUME NEW u \in Addresses, Authenticate(c, u)
      PROVE  call'[c].pc = "rbac"
  <2>1. call'[c] = [NoCall EXCEPT !.pc = "rbac", !.user = u, !.roles = users[u].roles]
    BY <1>1 DEF Authenticate
  <2> QED
    BY <2>1 DEF NoCall
<1>2. PICK k \in CallEntry : k = call[c]
  OBVIOUS
<1>3. ASSUME NEW t \in Tools, NEW p \in Replicas, GetTool(c, t, p)
      PROVE  call'[c].pc = "policy"
  <2>1. call'[c] = [k EXCEPT !.pc = "policy", !.tool = t, !.at = p, !.doc = catalog[t]]
    BY <1>2, <1>3 DEF GetTool
  <2> QED
    BY <2>1 DEF CallEntry
<1>4. ASSUME ReadPolicy(c)
      PROVE  call'[c].pc = "store"
  <2>1. call'[c] = [k EXCEPT !.pc = "store", !.policy = policy]
    BY <1>2, <1>4 DEF ReadPolicy
  <2> QED
    BY <2>1 DEF CallEntry
<1> QED
  BY <1>1, <1>3, <1>4

\* A call that gets through RbacMiddleware has no row, or an active one.
LEMMA CallEnters ==
  ASSUME AccessInv, [AccessNext]_accessVars, NEW c \in Calls,
         call[c].pc # "tool", call'[c].pc = "tool"
  PROVE  /\ call'[c].user \in Addresses
         /\ ctx[call'[c].user].exists => ctx[call'[c].user].active
<1>1. CallStep(c)
  BY CallMoves
<1>2. call \in [Calls -> CallEntry] /\ call[c] \in CallEntry
  BY DEF AccessInv, AccessTypeOK, CallOK
<1>3. ASSUME NEW u \in Addresses, NEW roles, NEW scopes, Gate(c, u, roles, scopes)
      PROVE  call'[c].user \in Addresses /\ (ctx[call'[c].user].exists => ctx[call'[c].user].active)
  <2> DEFINE entry == [NoCall EXCEPT !.pc = "tool", !.user = u, !.roles = roles \cup ctx[u].roles,
                                     !.scopes = scopes]
  <2>1. entry.user = u /\ NoCall.pc = "idle"
    BY DEF NoCall
  <2>2. call'[c] = IF (ctx[u].exists /\ ~ctx[u].active)
                        \/ (roles \cup ctx[u].roles) \cap {"admin", "tool:invoke", "tool:read"} = {}
                     THEN NoCall ELSE entry
    BY <1>2, <1>3 DEF Gate
  <2> HIDE DEF entry
  <2> QED
    BY <2>1, <2>2
<1>4. ASSUME NEW k \in held, Admit(c, k)
      PROVE  call'[c].user \in Addresses /\ (ctx[call'[c].user].exists => ctx[call'[c].user].active)
  <2>1. k.user \in Addresses
    BY DEF AccessInv, AccessTypeOK, StoresOK, Token
  <2> QED
    BY <1>3, <1>4, <2>1 DEF Admit
<1>5. CASE AdmitBasic(c)
  <2>1. call[c].user \in Addresses
    BY <1>5, CallFields DEF AdmitBasic
  <2> QED
    BY <1>3, <1>5, <2>1 DEF AdmitBasic
<1>6. \A u \in Addresses : ~Authenticate(c, u)
  BY <1>2, StepsOn
<1>7. (\A t \in Tools, p \in Replicas : ~GetTool(c, t, p)) /\ ~ReadPolicy(c)
  BY <1>2, StepsOn
<1>8. ~CachedPolicy(c) /\ ~StorePolicy(c)
  BY <1>2, DecidedCall DEF CachedPolicy, StorePolicy
<1> QED
  BY <1>1, <1>4, <1>5, <1>6, <1>7, <1>8 DEF CallStep

\* A call that runs is allowed by the policy of its replica's cache, or by what it has read.
LEMMA CallRuns ==
  ASSUME AccessInv, [AccessNext]_accessVars, NEW c \in Calls, Runs(c)
  PROVE  \/ /\ call[c].pc = "policy" /\ cache[call[c].at].live
            /\ Allowed(c, cache[call[c].at].policy)
         \/ call[c].pc = "store" /\ Allowed(c, call[c].policy)
<1>1. CallStep(c)
  BY CallMoves DEF Runs
<1>2. call \in [Calls -> CallEntry] /\ call[c] \in CallEntry
  BY DEF AccessInv, AccessTypeOK, CallOK
<1>3. ASSUME NEW u, NEW roles, NEW scopes, Gate(c, u, roles, scopes)
      PROVE  FALSE
  BY <1>2, <1>3 DEF Gate, Runs, NoCall
<1>4. ASSUME NEW pol, Decide(c, pol)
      PROVE  Allowed(c, pol)
  <2>1. call'[c] = [NoCall EXCEPT !.pc = IF Allowed(c, pol) THEN "ran" ELSE "idle"]
    BY <1>2, <1>4 DEF Decide
  <2>2. ~Allowed(c, pol) => call'[c].pc = "idle"
    BY <2>1 DEF NoCall
  <2> QED
    BY <2>2 DEF Runs
<1>5. ~(\E k \in held : Admit(c, k)) /\ ~AdmitBasic(c)
  BY <1>3 DEF Admit, AdmitBasic
<1>6. \A u \in Addresses : ~Authenticate(c, u)
  BY <1>2, StepsOn DEF Runs
<1>7. (\A t \in Tools, p \in Replicas : ~GetTool(c, t, p)) /\ ~ReadPolicy(c)
  BY <1>2, StepsOn DEF Runs
<1> QED
  BY <1>1, <1>4, <1>5, <1>6, <1>7 DEF CallStep, CachedPolicy, StorePolicy

\* The account kill-switch of rbac.py: no token and no password of an account that is
\* disabled, with nobody at it and nothing torn, gets through, whatever was issued when.
THEOREM KillSwitch == AccessSpec => KillSwitchHolds
<1> DEFINE Holds == \A c \in Calls : (call[c].pc # "tool" /\ call'[c].pc = "tool") =>
                      LET u == call'[c].user IN
                      (users[u].exists /\ ~users[u].active) => (u \in torn \/ Busy(u))
<1>1. AccessInv /\ [AccessNext]_accessVars => [Holds]_accessVars
  <2> SUFFICES ASSUME AccessInv, [AccessNext]_accessVars, NEW c \in Calls,
                      call[c].pc # "tool", call'[c].pc = "tool",
                      users[call'[c].user].exists, ~users[call'[c].user].active
               PROVE  call'[c].user \in torn \/ Busy(call'[c].user)
    OBVIOUS
  <2>1. PICK u \in Addresses : u = call'[c].user /\ (ctx[u].exists => ctx[u].active)
    BY CallEnters
  <2>2. ctx[u] # Row(users[u])
    BY <2>1 DEF Row
  <2> QED
    BY <2>1, <2>2 DEF AccessInv, MirrorInv
<1> QED
  BY <1>1, AccessInvariance, PTL DEF AccessSpec, KillSwitchHolds

\* The scopes of team_demo.py's team accounts are as good as their name: such an account,
\* untouched and on the catalog it was made for, runs nothing that writes, but for tools
\* that ask for no scope of their own.
THEOREM TeamOnlyReads == AccessSpec => TeamRunsReadOnly
<1> DEFINE Reads == \A c \in Calls : (Runs(c) /\ call[c].user \in safe) =>
                      LET doc == call[c].doc IN
                      ReadOnly(doc) \/ doc.scopes = {} \/ "server:*" \in doc.scopes
<1>1. AccessInv /\ [AccessNext]_accessVars => [Reads]_accessVars
  <2> SUFFICES ASSUME AccessInv, [AccessNext]_accessVars, NEW c \in Calls,
                      Runs(c), call[c].user \in safe, ~ReadOnly(call[c].doc),
                      call[c].doc.scopes # {}
               PROVE  "server:*" \in call[c].doc.scopes
    OBVIOUS
  <2>1. call[c].pc \in {"policy", "store"} /\ \E pol : Allowed(c, pol)
    BY CallRuns
  <2>2. /\ call[c].tool \in Tools /\ call[c].doc = catalog[call[c].tool]
        /\ call[c].roles \subseteq Roles.team /\ call[c].scopes \subseteq DeriveSafe
    BY <2>1, CallFields
  <2>3. "admin" \notin call[c].roles
    BY <2>2 DEF Roles
  <2>4. PICK s \in call[c].doc.scopes : s \in DeriveSafe
    BY <2>1, <2>2, <2>3 DEF Allowed
  <2>5. s # "server:*" => s \in ScopesOf({t \in Tools : ~ReadOnly(catalog[t])})
    BY <2>2, <2>4 DEF ScopesOf
  <2> QED
    BY <2>4, <2>5 DEF DeriveSafe
<1> QED
  BY <1>1, AccessInvariance, PTL DEF AccessSpec, TeamRunsReadOnly

\* tenant_tool_policy.py: a disabled tool runs for nobody, from the moment a replica's
\* cache is known to hold a policy that says so.
THEOREM DisabledOut == AccessSpec => DisabledToolIsOut
<1> DEFINE Out == \A c \in Calls : (Runs(c) /\ call[c].at \in shut) => call[c].tool \notin policy.off
<1>1. AccessInv /\ [AccessNext]_accessVars => [Out]_accessVars
  <2> SUFFICES ASSUME AccessInv, [AccessNext]_accessVars, NEW c \in Calls,
                      Runs(c), call[c].at \in shut
               PROVE  call[c].tool \notin policy.off
    OBVIOUS
  <2>1. CASE call[c].pc = "policy" /\ cache[call[c].at].live /\ Allowed(c, cache[call[c].at].policy)
    BY <2>1 DEF Allowed, AccessInv, ShutInv
  <2>2. CASE call[c].pc = "store" /\ Allowed(c, call[c].policy)
    BY <2>2 DEF Allowed, AccessInv, ShutInv
  <2> QED
    BY <2>1, <2>2, CallRuns
<1> QED
  BY <1>1, AccessInvariance, PTL DEF AccessSpec, DisabledToolIsOut

\* gateway/routers/admin/users.py: who is no platform administrator neither makes one nor
\* changes or deletes the account of one that was one when the request looked.
THEOREM PlatformGuarded == AccessSpec => PlatformAccountsGuarded
<1> DEFINE Guarded ==
      \A a \in Editors :
        LET u == edit[a].user IN
        (edit[a].pc \in {"insert", "write", "remove"} /\ edit'[a].pc # edit[a].pc /\ ~edit[a].root) =>
          IF "platform-admin" \in users[u].roles
            THEN users'[u] = users[u] \/ "platform-admin" \notin edit[a].doc.roles
            ELSE "platform-admin" \notin users'[u].roles
<1>1. AccessInv /\ [AccessNext]_accessVars => [Guarded]_accessVars
  <2> SUFFICES ASSUME AccessInv, [AccessNext]_accessVars, NEW a \in Editors,
                      edit[a].pc \in {"insert", "write", "remove"}, edit'[a].pc # edit[a].pc,
                      ~edit[a].root, "platform-admin" \notin users[edit[a].user].roles
               PROVE  "platform-admin" \notin users'[edit[a].user].roles
    BY DEF AccessInv, GuardInv
  <2>1. "platform-admin" \notin edit[a].doc.roles /\ edit[a].op # "root"
    BY DEF AccessInv, GuardInv
  <2>2. PICK u \in Addresses : u = edit[a].user
    BY DEF AccessInv, AccessTypeOK, EditOK
  <2>3. users \in [Addresses -> Record] /\ catalog \in Catalogs
    BY DEF AccessInv, AccessTypeOK, StoresOK
  <2>4. EditStep(a)
    BY EditMoves
  <2>5. CASE Insert(a)
    BY <2>1, <2>2, <2>3, <2>5 DEF Insert
  <2>6. CASE Write(a)
    <3>1. users'[u] = users[u] \/ users'[u] = Changed(users[u], edit[a].op)
      BY <2>2, <2>3, <2>6 DEF Write
    <3>2. "platform-admin" \notin Changed(users[u], edit[a].op).roles
      BY <2>1, <2>2, <2>3, ChangedTyped
    <3> QED
      BY <2>2, <3>1, <3>2
  <2>7. CASE Remove(a)
    BY <2>2, <2>3, <2>7 DEF Remove, NoAccount
  <2>8. ~Reread(a) /\ ~Sync(a) /\ ~Clear(a) /\ ~Breaks(a)
    BY DEF Reread, Sync, Clear, Breaks, Writing
  <2>9. CASE Find(a) \/ \E v \in Addresses, root \in BOOLEAN :
               \/ \E p \in Presets : CreateUser(a, v, p, root)
               \/ \E op \in Edits : Load(a, v, root, op)
    BY <2>9 DEF Find, CreateUser, Load, stores
  <2> QED
    BY <2>4, <2>5, <2>6, <2>7, <2>8, <2>9 DEF EditStep
<1> QED
  BY <1>1, AccessInvariance, PTL DEF AccessSpec, PlatformAccountsGuarded
=============================================================================

------------------------------ MODULE ToolCall ------------------------------
(***************************************************************************)
(* One tools/call from the request to the response, on the two surfaces    *)
(* that offer it: _handle_tools_call of gateway/routers/rpc.py and         *)
(* call_downstream_tool of gateway/mcp_server.py, with the downstream      *)
(* attempts of ProxyRegistry.call_tool.                                    *)
(*                                                                         *)
(* It composes PendingActions (the approval queue) with UsageMetering      *)
(* (quota and billing): every step that touches their state is one of      *)
(* their actions, so the two specifications are also properties of this    *)
(* one.  Tenant admins decide actions while the calls run.                 *)
(***************************************************************************)
EXTENDS Naturals, FiniteSets

CONSTANTS
  Users, Targets, ActionIds, TTL, Latency, MaxTime,                 \* PendingActions
  MaxPeriod, Limits, MaxCalls, MsLimit, Wall, Projections, MaxFaults, \* UsageMetering
  Callers,    \* concurrently running tools/call handlers
  Admins,     \* handlers of the admin actions router
  Surfaces,   \* subset of {"rpc", "mcp"}
  Gated,      \* targets whose tool has requires_confirmation
  Cacheable,  \* targets whose tool is cacheable with a positive TTL
  Writers,    \* targets whose tool invalidates the cacheable ones
  Code,       \* targets whose tool runs in the local sandbox
  Attempts,   \* downstream attempts of one call: 3 in the code
  Loads       \* the traffic to explore: callers, users, targets and surfaces that take
              \* part, and whether time passes and quota and month change meanwhile

ASSUME ToolAssumption ==
  /\ Gated \cup Cacheable \cup Writers \cup Code \subseteq Targets
  /\ Surfaces \subseteq {"rpc", "mcp"} /\ Attempts \in Nat \ {0}
  /\ Callers \cap Admins = {}
  /\ \A l \in Loads : /\ l.callers \subseteq Callers /\ l.users \subseteq Users
                     /\ l.targets \subseteq Targets /\ l.surfaces \subseteq Surfaces
                     /\ l.clock \in BOOLEAN /\ l.billing \in BOOLEAN

VARIABLES
  clock, docs, stored, req, step, outcome, uses,              \* PendingActions
  period, limit, calls, callEvents, sandboxMs, msEvents,      \* UsageMetering
  mstep, snap, projected, cost, billPeriod, faults,
  load,      \* the traffic of this behaviour
  codeOn,    \* the code_tool_execution_enabled setting
  cache,     \* targets with an entry in the tenant's semantic cache
  call,      \* the request every caller handles
  stage,     \* where its handler is
  tries,     \* downstream attempts so far
  reply,     \* the answer
  approval,  \* history: the action the call consumed
  ran,       \* history: how often the tool was executed for this call
  billed,    \* history: how often the call was charged
  runs       \* history: how often the tool was executed under an approval

PA == INSTANCE PendingActions WITH Handlers <- Callers \cup Admins
UM == INSTANCE UsageMetering

queue == <<clock, docs, stored, req, step, outcome, uses>>
meters == <<period, limit, calls, callEvents, sandboxMs, msEvents, mstep, snap, projected,
            cost, billPeriod, faults>>
local == <<call, stage, tries, reply, approval, ran, billed, runs>>
config == <<load, codeOn>>
vars == <<config, queue, meters, cache, local>>

NoId == "no action"
ASSUME QueueAssumption ==
  /\ TTL \in Nat \ {0} /\ Users # {} /\ Targets # {} /\ ActionIds # {}
  /\ NoId \notin ActionIds
NoCall == [surface |-> "rpc", user |-> PA!AnyUser, target |-> PA!AnyTarget,
           confirm |-> FALSE, id |-> NoId]

Init == /\ PA!Init /\ UM!MInit
        /\ load \in Loads
        /\ codeOn \in IF load.targets \cap Code = {} THEN {TRUE} ELSE BOOLEAN
        /\ cache = {}
        /\ call = [h \in Callers |-> NoCall]
        /\ stage = [h \in Callers |-> "idle"]
        /\ tries = [h \in Callers |-> 0]
        /\ reply = [h \in Callers |-> "none"]
        /\ approval = [h \in Callers |-> NoId]
        /\ ran = [h \in Callers |-> 0]
        /\ billed = [h \in Callers |-> 0]
        /\ runs = [i \in ActionIds |-> 0]

GoTo(h, s) == stage' = [stage EXCEPT ![h] = s] /\ UNCHANGED reply
Answer(h, r) == /\ stage' = [stage EXCEPT ![h] = "done"]
                /\ reply' = [reply EXCEPT ![h] = r]

\* The tool was executed for h, under the approval h holds if it holds one.
Executed(h) == /\ ran' = [ran EXCEPT ![h] = @ + 1]
               /\ runs' = [i \in ActionIds |-> runs[i] + IF approval[h] = i THEN 1 ELSE 0]
NotExecuted == UNCHANGED <<ran, runs>>

-----------------------------------------------------------------------------
(* The gates: authorization, quota and preflight, confirmation             *)

\* A request for target t arrives.  Of a gated tool it either presents a
\* confirmation_id or is about to be issued a fresh one; /mcp knows neither.
Start(h) == \E s \in load.surfaces, u \in load.users, t \in load.targets, c \in BOOLEAN,
               i \in ActionIds \cup {NoId} :
  /\ stage[h] = "idle" /\ h \in load.callers
  /\ IF s = "rpc" /\ t \in Gated
       THEN /\ i # NoId
            /\ ~c => /\ docs[i].status = "unissued"
                     /\ \A g \in Callers : call[g].id = i => call[g].confirm
       ELSE i = NoId /\ ~c
  /\ call' = [call EXCEPT ![h] = [surface |-> s, user |-> u, target |-> t,
                                  confirm |-> c, id |-> i]]
  /\ GoTo(h, "authz")
  /\ UNCHANGED <<queue, meters, config, cache, tries, approval, ran, billed, runs>>

\* authorize_tool_call, or the tenant gates before it, refuse.
Forbid(h) ==
  /\ stage[h] = "authz"
  /\ Answer(h, "forbidden")
  /\ UNCHANGED <<queue, meters, config, cache, call, tries, approval, ran, billed, runs>>

\* Authorized: check_quota reads the usage counter.
CheckUsage(h) ==
  /\ stage[h] = "authz"
  /\ \E ms \in {0} \cup Projections :
       /\ ms > 0 <=> call[h].target \in Code
       /\ UM!CheckUsage(h, ms)
  /\ GoTo(h, "quota")
  /\ UNCHANGED <<queue, config, cache, call, tries, approval, ran, billed, runs>>

\* A sandbox tool while code_tool_execution_enabled is off.
CodeOff(h) == call[h].target \in Code /\ ~codeOn

\* On /rpc the flag is tested after the quota and before the preflight.
CheckQuota(h) ==
  /\ stage[h] = "quota"
  /\ UM!CheckQuota(h)
  /\ IF UM!Admissible(h) THEN GoTo(h, "gate")
     ELSE Answer(h, IF call[h].surface = "rpc" /\ UM!WithinQuota(h) /\ CodeOff(h)
                      THEN "code_disabled" ELSE "quota_exceeded")
  /\ UNCHANGED <<queue, config, cache, call, tries, approval, ran, billed, runs>>

\* On /mcp the flag is tested by the executor.
CodeDisabled(h) ==
  /\ stage[h] = "gate" /\ CodeOff(h)
  /\ UM!Unbilled(h)
  /\ Answer(h, "code_disabled")
  /\ UNCHANGED <<queue, config, cache, call, tries, approval, ran, billed, runs>>

\* Mutant: the confirmation gate looks at the presented id only.
GateTrusting(h) == call[h].surface = "rpc" /\ call[h].target \in Gated /\ ~call[h].confirm

\* The confirmation gate exists on /rpc only.
NeedsConfirmation(h) == call[h].surface = "rpc" /\ call[h].target \in Gated

AfterGates(h) == IF call[h].surface = "rpc" /\ call[h].target \in Cacheable
                   THEN "lookup" ELSE "execute"

Confirm(h) ==
  /\ stage[h] = "gate" /\ ~CodeOff(h)
  /\ IF NeedsConfirmation(h)
       THEN /\ PA!Begin(h, IF call[h].confirm THEN "consume" ELSE "create",
                        call[h].user, call[h].target, call[h].id)
            /\ GoTo(h, "confirm")
       ELSE GoTo(h, AfterGates(h)) /\ UNCHANGED queue
  /\ UNCHANGED <<meters, config, cache, call, tries, approval, ran, billed, runs>>

\* The awaits inside create_pending_action and consume_approved_action.
ConfirmStep(h) ==
  /\ stage[h] = "confirm"
  /\ PA!Create(h) \/ PA!ConsumeUpdate(h) \/ PA!ConsumeDiagnose(h)
  /\ UNCHANGED <<meters, config, cache, local>>

\* Mutant: the call is authorized, and perhaps forbidden, after the approval was spent.
ConfirmedLateAuthz(h) ==
  /\ stage[h] = "confirm" /\ PA!Reply(h)
  /\ IF outcome[h] = "ok"
       THEN /\ approval' = [approval EXCEPT ![h] = call[h].id]
            /\ \/ GoTo(h, AfterGates(h)) /\ UNCHANGED meters
               \/ Answer(h, "forbidden") /\ UM!Unbilled(h)
       ELSE /\ Answer(h, IF outcome[h] = "mismatch" THEN "forbidden"
                                                    ELSE "confirmation_required")
            /\ UM!Unbilled(h)
            /\ UNCHANGED approval
  /\ UNCHANGED <<config, cache, call, tries, ran, billed, runs>>


\* Only a consumed approval lets the call go on.
Confirmed(h) ==
  /\ stage[h] = "confirm" /\ PA!Reply(h)
  /\ IF outcome[h] = "ok"
       THEN /\ approval' = [approval EXCEPT ![h] = call[h].id]
            /\ GoTo(h, AfterGates(h))
            /\ UNCHANGED meters
       ELSE /\ Answer(h, IF outcome[h] = "mismatch" THEN "forbidden"
                                                    ELSE "confirmation_required")
            /\ UM!Unbilled(h)
            /\ UNCHANGED approval
  /\ UNCHANGED <<config, cache, call, tries, ran, billed, runs>>

-----------------------------------------------------------------------------
(* Semantic cache, execution                                               *)

\* Mutant: a cache hit writes its ledger event but not the usage counter.
CacheHitUncounted(h) ==
  /\ stage[h] = "lookup" /\ call[h].target \in cache
  /\ UM!End(h)
  /\ callEvents' = [callEvents EXCEPT ![period] = @ + 1]
  /\ UNCHANGED <<period, limit, calls, sandboxMs, msEvents, faults>>
  /\ Answer(h, "ok")
  /\ billed' = [billed EXCEPT ![h] = @ + 1]
  /\ UNCHANGED <<queue, config, cache, call, tries, approval, ran, runs>>

\* A similar call is cached: it is answered from there, and billed.
CacheHit(h) ==
  /\ stage[h] = "lookup" /\ call[h].target \in cache
  /\ UM!Answered(h)
  /\ GoTo(h, "bill")
  /\ UNCHANGED <<queue, config, cache, call, tries, approval, ran, billed, runs>>

\* Nothing similar, expired, or the index cannot be queried yet.
CacheMiss(h) ==
  /\ stage[h] = "lookup"
  /\ GoTo(h, "execute")
  /\ UNCHANGED <<queue, meters, config, cache, call, tries, approval, ran, billed, runs>>

\* Mutant: a call that fails downstream hands its approval back.
GiveUpRefund(h, r) ==
  /\ Answer(h, r)
  /\ UM!Unbilled(h)
  /\ docs' = [i \in ActionIds |-> IF i = approval[h]
                                    THEN [docs[i] EXCEPT !.status = "approved"] ELSE docs[i]]
  /\ UNCHANGED <<clock, stored, req, step, outcome, uses, config, cache, call, approval, billed>>

\* The exception of the last attempt becomes the error answer; nothing is billed.
GiveUp(h, r) ==
  /\ Answer(h, r)
  /\ UM!Unbilled(h)
  /\ UNCHANGED <<queue, config, cache, call, approval, billed>>

\* Not mounted on this replica (KeyError), no source, no credential, ...
NotCallable(h) ==
  /\ stage[h] = "execute"
  /\ GiveUp(h, "error")
  /\ NotExecuted /\ UNCHANGED tries

\* Mutant: one attempt too many.
LastAttemptLate(h) == tries[h] = Attempts

LastAttempt(h) == tries[h] + 1 = Attempts

\* A downstream attempt: the answer, a protocol error (never retried), or a
\* transport error or timeout, after which the tool may well have run.
AttemptOk(h) ==
  /\ stage[h] = "execute" /\ call[h].target \notin Code
  /\ UM!Answered(h)
  /\ GoTo(h, "store") /\ Executed(h)
  /\ UNCHANGED <<queue, config, cache, call, tries, approval, billed>>

AttemptProtocolError(h) ==
  /\ stage[h] = "execute" /\ call[h].target \notin Code
  /\ GiveUp(h, "error") /\ Executed(h) /\ UNCHANGED tries

AttemptFailed(h) ==
  /\ stage[h] = "execute" /\ call[h].target \notin Code
  /\ Executed(h) \/ NotExecuted
  /\ IF LastAttempt(h)
       THEN /\ \E r \in {"timeout", "error"} : GiveUp(h, r)
            /\ UNCHANGED tries
       ELSE /\ tries' = [tries EXCEPT ![h] = @ + 1]
            /\ UNCHANGED <<queue, meters, config, cache, call, stage, reply,
                           approval, billed>>

\* A sandbox run is tried once; it ends, times out or fails (then unmetered).  It may
\* also never end: the executor waits for its worker, and the deadline around the run
\* for the cancelled run (SandboxExec says when).
RunCode(h) ==
  /\ stage[h] = "execute" /\ call[h].target \in Code
  /\ Executed(h)
  /\ \/ /\ UM!SandboxRan(h) /\ GoTo(h, "meter")
        /\ UNCHANGED <<queue, config, cache, call, approval, billed>>
     \/ \E r \in {"timeout", "error"} : GiveUp(h, r)
  /\ UNCHANGED tries

\* The sandbox time is metered, then the payload is validated.
MeterStep(h) ==
  /\ stage[h] = "meter"
  /\ \/ /\ UM!RecordMs(h) \/ UM!EmitMs(h)
        /\ UNCHANGED <<queue, config, cache, local>>
     \/ /\ mstep[h] = "call_usage"
        /\ NotExecuted /\ UNCHANGED tries
        /\ \/ GiveUp(h, "error")
           \/ /\ GoTo(h, "store")
              /\ UNCHANGED <<queue, meters, config, cache, call, approval, billed>>

-----------------------------------------------------------------------------
(* After a successful execution: cache upkeep (on /rpc), billing, answer   *)

\* Only /rpc keeps a cache.
Store(h) ==
  /\ stage[h] = "store"
  /\ cache' = IF call[h].surface = "rpc" /\ call[h].target \in Cacheable
                THEN cache \cup {call[h].target} ELSE cache
  /\ GoTo(h, "invalidate")
  /\ UNCHANGED <<queue, meters, config, call, tries, approval, ran, billed, runs>>

Invalidate(h) ==
  /\ stage[h] = "invalidate"
  /\ cache' = IF call[h].surface = "rpc" /\ call[h].target \in Writers THEN {} ELSE cache
  /\ GoTo(h, "bill")
  /\ UNCHANGED <<queue, meters, config, call, tries, approval, ran, billed, runs>>

\* The entries expire by themselves (a TTL index).
CacheExpire == /\ cache # {}
               /\ \E t \in cache : cache' = cache \ {t}
               /\ UNCHANGED <<queue, meters, config, local>>

Bill(h) ==
  /\ stage[h] = "bill"
  /\ \/ /\ UM!RecordCall(h)
        /\ billed' = [billed EXCEPT ![h] = @ + 1]
        /\ UNCHANGED <<stage, reply>>
     \/ /\ UM!EmitCall(h)
        /\ Answer(h, "ok")
        /\ UNCHANGED billed
  /\ UNCHANGED <<queue, config, cache, call, tries, approval, ran, runs>>

\* A database call raises; the mapper of _dispatch answers INTERNAL_ERROR.
\* The update of the approval queue may have been applied by then.
DbFault(h) ==
  /\ \/ /\ stage[h] \in {"quota", "meter", "store", "invalidate", "bill"}
        /\ UM!Fault(h) /\ UNCHANGED queue
     \/ /\ stage[h] = "lookup" /\ UM!Unbilled(h) /\ UNCHANGED queue
     \/ /\ stage[h] = "confirm" /\ UM!Unbilled(h) /\ (PA!Fail(h) \/ PA!Reply(h))
  /\ Answer(h, "internal_error")
  /\ UNCHANGED <<config, cache, call, tries, approval, ran, billed, runs>>

Return(h) ==
  /\ stage[h] = "done"
  /\ stage' = [stage EXCEPT ![h] = "idle"]
  /\ reply' = [reply EXCEPT ![h] = "none"]
  /\ call' = [call EXCEPT ![h] = NoCall]
  /\ tries' = [tries EXCEPT ![h] = 0]
  /\ approval' = [approval EXCEPT ![h] = NoId]
  /\ ran' = [ran EXCEPT ![h] = 0]
  /\ billed' = [billed EXCEPT ![h] = 0]
  /\ UNCHANGED <<queue, meters, config, cache, runs>>

-----------------------------------------------------------------------------
AdminStep(h) ==
  /\ load.targets \cap Gated # {}
  /\ \/ PA!BeginDecide(h) \/ PA!DecideUpdate(h) \/ PA!DecideDiagnose(h) \/ PA!Reply(h)
     \/ PA!Fail(h)
  /\ UNCHANGED <<meters, config, cache, local>>

Environment ==
  \/ /\ load.clock
     /\ PA!Tick \/ \E i \in ActionIds : PA!TtlDelete(i)
     /\ UNCHANGED <<meters, config, cache, local>>
  \/ /\ load.billing
     /\ UM!SetQuota \/ UM!Rollover
     /\ UNCHANGED <<queue, config, cache, local>>
  \/ CacheExpire

CallerStep(h) ==
  \/ Forbid(h) \/ CheckUsage(h) \/ CheckQuota(h) \/ CodeDisabled(h)
  \/ Confirm(h) \/ ConfirmStep(h) \/ Confirmed(h) \/ CacheHit(h) \/ CacheMiss(h)
  \/ NotCallable(h) \/ AttemptOk(h) \/ AttemptProtocolError(h) \/ AttemptFailed(h)
  \/ RunCode(h) \/ MeterStep(h) \/ Store(h) \/ Invalidate(h) \/ Bill(h) \/ Return(h)

Next == \/ \E h \in Callers : Start(h) \/ CallerStep(h) \/ DbFault(h)
        \/ \E h \in Admins : AdminStep(h)
        \/ Environment

Spec == Init /\ [][Next]_vars

\* The call waits for the local sandbox.
InSandbox(h) == stage[h] = "execute" /\ call[h].target \in Code

\* The event loop runs every ready coroutine; database calls and downstream attempts
\* end, those by a deadline of their own.  Nothing makes a sandbox run end.
FairSpec == Spec /\ \A h \in Callers : WF_vars(~InSandbox(h) /\ CallerStep(h))

-----------------------------------------------------------------------------
(* Properties                                                              *)

\* A confirmation-gated tool called on /rpc never runs unless this very call spent an
\* approval that another user gave to this user for this tool and arguments.  (/mcp has
\* no such gate.)
GatedNeedsApproval ==
  \A h \in Callers : ran[h] > 0 /\ call[h].target \in Gated /\ call[h].surface = "rpc" =>
    \E i \in ActionIds :
      /\ approval[h] = i
      /\ docs[i].status = "consumed"
      /\ docs[i].user = call[h].user /\ docs[i].target = call[h].target
      /\ docs[i].decided_by \in Users \ {call[h].user}

\* However often the call is submitted again, and whatever fails downstream,
\* one approval pays for the attempts of one call.
OneCallPerApproval == \A i \in ActionIds : runs[i] <= Attempts

\* A call that is answered was charged, once.  One that is refused or failed was not,
\* unless the database failed while it was being charged; and one that a gate stopped
\* spent no approval and ran no tool.
PaidIffAnswered ==
  \A h \in Callers : stage[h] = "done" =>
    /\ reply[h] = "ok" => billed[h] = 1
    /\ billed[h] > 0 => reply[h] \in {"ok", "internal_error"}
    /\ reply[h] \in {"forbidden", "quota_exceeded", "code_disabled", "confirmation_required"}
         => approval[h] = NoId /\ ran[h] = 0

\* The handlers use the approval queue and the metering service as their own
\* specifications say, so what is proved of those holds here.
QueueSpec == PA!Spec
MeteringSpec == UM!MSpec

=============================================================================

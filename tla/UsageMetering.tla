---------------------------- MODULE UsageMetering ----------------------------
(***************************************************************************)
(* Quota checks, usage counters and the billing ledger of one tenant:      *)
(* services/usage_metering.py as called by services/data_plane.py, by the  *)
(* tools/call handlers of /rpc and /mcp and by the code-tool path of       *)
(* services/proxy_registry.py.                                             *)
(*                                                                         *)
(* Every database call is an await of its own: check_quota reads the usage *)
(* counter, then the quota; a billable call increments the counter and     *)
(* then appends a ledger event.  Other handlers, an operator changing the  *)
(* quota and the turn of the month run in between, and any call may fail.  *)
(***************************************************************************)
EXTENDS Naturals, FiniteSets

CONSTANTS
  Callers,      \* concurrently running tools/call handlers of the tenant
  MaxPeriod,    \* months are 0 .. MaxPeriod (bound of the model)
  Limits,       \* calls_limit values an operator may set (0 would be unlimited)
  MaxCalls,     \* the largest of them
  MsLimit,      \* sandbox_seconds_limit, in units of sandbox time
  Wall,         \* sandbox_wall_timeout_ms in the same unit: the longest run
  Projections,  \* wall_timeout_ms a code tool may declare, or Wall when it does not
  MaxFaults     \* bound on failing database calls

Periods == 0 .. MaxPeriod

ASSUME QuotaAssumption ==
  /\ MaxCalls \in Nat \ {0} /\ Limits \subseteq 1 .. MaxCalls /\ Limits # {}
ASSUME SandboxAssumption ==
  /\ MsLimit \in Nat \ {0} /\ Wall \in Nat \ {0} /\ Projections \subseteq Nat \ {0}
ASSUME BoundAssumption ==
  /\ IsFiniteSet(Callers) /\ MaxPeriod \in Nat /\ MaxFaults \in Nat

VARIABLES
  period,      \* current_period(): the calendar month
  limit,       \* tenant_quotas.calls_limit
  calls,       \* usage_counters.calls of every period
  callEvents,  \* ledger events of kind "calls", by the period they carry
  sandboxMs,   \* usage_counters.sandbox_ms of every period
  msEvents,    \* amounts of the ledger events of kind "sandbox_ms", by period
  mstep,       \* where every handler is
  snap,        \* the usage document check_quota read
  projected,   \* projected_ms of the handler's code tool; 0 for a proxied tool
  cost,        \* elapsed_ms of its sandbox run
  billPeriod,  \* the period record_usage returned
  faults       \* failed database calls so far

counters == <<calls, callEvents, sandboxMs, msEvents>>
locals == <<mstep, snap, projected, cost, billPeriod>>
mvars == <<period, limit, counters, locals, faults>>

Zero == [p \in Periods |-> 0]

MInit == /\ period = 0
         /\ limit \in Limits
         /\ calls = Zero /\ callEvents = Zero /\ sandboxMs = Zero /\ msEvents = Zero
         /\ mstep = [h \in Callers |-> "idle"]
         /\ snap = [h \in Callers |-> [calls |-> 0, ms |-> 0]]
         /\ projected = [h \in Callers |-> 0]
         /\ cost = [h \in Callers |-> 0]
         /\ billPeriod = [h \in Callers |-> 0]
         /\ faults = 0

GoTo(h, s) == mstep' = [mstep EXCEPT ![h] = s]

\* The handler returns and its locals are gone.
End(h) == /\ GoTo(h, "idle")
          /\ snap' = [snap EXCEPT ![h] = [calls |-> 0, ms |-> 0]]
          /\ projected' = [projected EXCEPT ![h] = 0]
          /\ cost' = [cost EXCEPT ![h] = 0]
          /\ billPeriod' = [billPeriod EXCEPT ![h] = 0]

-----------------------------------------------------------------------------
(* check_quota and check_sandbox_preflight                                 *)

\* get_usage of the current period.
CheckUsage(h, ms) ==
  /\ mstep[h] = "idle"
  /\ snap' = [snap EXCEPT ![h] = [calls |-> calls[period], ms |-> sandboxMs[period]]]
  /\ projected' = [projected EXCEPT ![h] = ms]
  /\ GoTo(h, "quota")
  /\ UNCHANGED <<period, limit, counters, cost, billPeriod, faults>>

\* Mutant: an off-by-one in the calls ceiling.
AdmissibleOneMore(h) ==
  /\ snap[h].calls <= limit
  /\ snap[h].ms < MsLimit
  /\ projected[h] <= MsLimit - snap[h].ms

\* The verdicts of check_quota and check_sandbox_preflight on that, by now
\* possibly stale, usage document.
WithinQuota(h) == snap[h].calls < limit /\ snap[h].ms < MsLimit
PreflightOk(h) == projected[h] <= MsLimit - snap[h].ms
Admissible(h) == WithinQuota(h) /\ PreflightOk(h)

CheckQuota(h) ==
  /\ mstep[h] = "quota"
  /\ IF Admissible(h)
       THEN GoTo(h, "admitted") /\ UNCHANGED <<snap, projected, cost, billPeriod>>
       ELSE End(h)
  /\ UNCHANGED <<period, limit, counters, faults>>

-----------------------------------------------------------------------------
(* The call itself, then its metering                                      *)

\* A failed, timed-out or not yet confirmed call is not billed, and neither is
\* a metered sandbox run whose payload does not validate.
Unbilled(h) ==
  /\ mstep[h] = "admitted" \/ (mstep[h] = "call_usage" /\ projected[h] > 0)
  /\ End(h)
  /\ UNCHANGED <<period, limit, counters, faults>>

\* A proxied call succeeded or the semantic cache answered.
Answered(h) ==
  /\ mstep[h] = "admitted"
  /\ GoTo(h, "call_usage")
  /\ UNCHANGED <<period, limit, counters, snap, projected, cost, billPeriod, faults>>

\* The sandbox returned within sandbox_wall_timeout_ms, the only deadline it
\* runs under; with elapsed_ms = 0 both metering calls are no-ops.
SandboxRan(h) ==
  /\ mstep[h] = "admitted" /\ projected[h] > 0
  /\ \E ms \in 0 .. Wall :
       /\ cost' = [cost EXCEPT ![h] = ms]
       /\ GoTo(h, IF ms = 0 THEN "call_usage" ELSE "ms_usage")
  /\ UNCHANGED <<period, limit, counters, snap, projected, billPeriod, faults>>

\* record_usage(sandbox_ms = elapsed).
RecordMs(h) ==
  /\ mstep[h] = "ms_usage"
  /\ sandboxMs' = [sandboxMs EXCEPT ![period] = @ + cost[h]]
  /\ GoTo(h, "ms_event")
  /\ UNCHANGED <<period, limit, calls, callEvents, msEvents, snap, projected, cost,
                 billPeriod, faults>>

\* emit_billing_event(kind = sandbox_ms) without a period: it uses today's.
EmitMs(h) ==
  /\ mstep[h] = "ms_event"
  /\ msEvents' = [msEvents EXCEPT ![period] = @ + cost[h]]
  /\ GoTo(h, "call_usage")
  /\ UNCHANGED <<period, limit, calls, callEvents, sandboxMs, snap, projected, cost,
                 billPeriod, faults>>

\* record_billable_call: record_usage(calls = 1) ...
RecordCall(h) ==
  /\ mstep[h] = "call_usage"
  /\ calls' = [calls EXCEPT ![period] = @ + 1]
  /\ billPeriod' = [billPeriod EXCEPT ![h] = period]
  /\ GoTo(h, "call_event")
  /\ UNCHANGED <<period, limit, callEvents, sandboxMs, msEvents, snap, projected, cost,
                 faults>>

\* Mutant: the ledger event of a call resolves its period again.
EmitCallToday(h) ==
  /\ mstep[h] = "call_event"
  /\ callEvents' = [callEvents EXCEPT ![period] = @ + 1]
  /\ End(h)
  /\ UNCHANGED <<period, limit, calls, sandboxMs, msEvents, faults>>

\* ... then emit_billing_event under the period the counter was charged to.
EmitCall(h) ==
  /\ mstep[h] = "call_event"
  /\ callEvents' = [callEvents EXCEPT ![billPeriod[h]] = @ + 1]
  /\ End(h)
  /\ UNCHANGED <<period, limit, calls, sandboxMs, msEvents, faults>>

\* A database call raises: the handler answers INTERNAL_ERROR.
Fault(h) ==
  /\ mstep[h] \notin {"idle", "admitted"} /\ faults < MaxFaults
  /\ faults' = faults + 1
  /\ End(h)
  /\ UNCHANGED <<period, limit, counters>>

-----------------------------------------------------------------------------
(* Environment                                                             *)

SetQuota == /\ limit' \in Limits
            /\ UNCHANGED <<period, counters, locals, faults>>

Rollover == /\ period < MaxPeriod
            /\ period' = period + 1
            /\ UNCHANGED <<limit, counters, locals, faults>>

MStep(h) == \/ CheckQuota(h) \/ Unbilled(h) \/ Answered(h) \/ SandboxRan(h)
            \/ RecordMs(h) \/ EmitMs(h) \/ RecordCall(h) \/ EmitCall(h) \/ Fault(h)

MNext == \/ \E h \in Callers : \/ \E ms \in {0} \cup Projections : CheckUsage(h, ms)
                               \/ MStep(h)
         \/ SetQuota \/ Rollover

MSpec == MInit /\ [][MNext]_mvars

-----------------------------------------------------------------------------
(* Properties                                                              *)

MSteps == {"idle", "quota", "admitted", "ms_usage", "ms_event", "call_usage", "call_event"}

MTypeOK == /\ period \in Periods /\ limit \in Limits /\ faults \in Nat
           /\ calls \in [Periods -> Nat] /\ callEvents \in [Periods -> Nat]
           /\ sandboxMs \in [Periods -> Nat] /\ msEvents \in [Periods -> Nat]
           /\ mstep \in [Callers -> MSteps]
           /\ snap \in [Callers -> [calls: Nat, ms: Nat]]
           /\ projected \in [Callers -> Nat] /\ cost \in [Callers -> 0 .. Wall]
           /\ billPeriod \in [Callers -> Periods]

\* The quota is checked long before the counter moves, so it can be overrun,
\* but never by more than the handlers that were running at the same time,
\* whatever the operator sets it to and however the months turn.
QuotaOverrunBounded ==
  \A p \in Periods : calls[p] <= MaxCalls + Cardinality(Callers) - 1

\* Callers that charged period p and still owe its ledger an event.
Owing(p) == {h \in Callers : mstep[h] = "call_event" /\ billPeriod[h] = p}

\* The ledger never bills what the counter does not hold, and lags behind it
\* by the events being written and those whose insert failed: month by month.
CallLedgerTracksUsage ==
  \A p \in Periods : /\ callEvents[p] + Cardinality(Owing(p)) <= calls[p]
                     /\ calls[p] <= callEvents[p] + Cardinality(Owing(p)) + faults
=============================================================================

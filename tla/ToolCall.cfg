\* Three kinds of traffic (MCLoads), one admin and one database failure.
CONSTANTS
  c1 = c1
  c2 = c2
  u1 = u1
  u2 = u2
  del = del
  run = run
  Users = {u1, u2}
  Targets = {del, run}
  ActionIds = {a1}
  TTL = 1
  Latency = 1
  MaxTime = 1
  MaxPeriod = 1
  Limits = {1}
  MaxCalls = 1
  MsLimit = 1
  Wall = 1
  Projections = {1}
  MaxFaults = 1
  Callers = {c1, c2}
  Admins = {d1}
  Surfaces = {"rpc", "mcp"}
  Gated = {del}
  Cacheable = {run}
  Writers = {del}
  Code = {run}
  Attempts = 2
  Loads <- MCLoads
SPECIFICATION FairSpec
INVARIANTS GatedNeedsApproval OneCallPerApproval PaidIffAnswered
PROPERTIES QueueSpec MeteringSpec 

\* Two replicas and one server; one admin at a time makes two changes, and one
\* thing goes wrong.
CONSTANTS
  Replicas = {r1, r2}
  Servers = {s1}
  Admins = {a1}
  MaxWrites = 2
  MaxFaults = 1
SPECIFICATION FairSpec
INVARIANTS AtLeastOnce Converged
PROPERTIES EveryWatcherCatchesUp
CHECK_DEADLOCK FALSE

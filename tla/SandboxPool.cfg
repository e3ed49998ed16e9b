\* Two workers, a third name for the replacement being spawned, and two callers,
\* which may relay to each other; one mishap and one spawn that fails.
CONSTANTS
  Workers = {w1, w2, w3}
  Callers = {c1, c2}
  Size = 2
  MaxJobs = 2
  MaxRelays = 1
  MaxMishaps = 1
  MaxLost = 1
SPECIFICATION FairSpec
INVARIANTS ExclusiveUse NoWorkerLost
PROPERTIES PoolKeepsWorking

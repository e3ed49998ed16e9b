\* An admin on one replica, requests on the other, one soft deletion, two failures.
CONSTANTS
  Replicas = {r1, r2}
  AdminOn = {r1}
  RequestsOn = {r2}
  Retention = 1
  AutoProvision = {TRUE, FALSE}
  Faults = {"claim", "delete", "drop", "client", "release", "task", "crash"}
  MaxFaults = 2
  MaxDeletions = 1
  MaxTime = 1
SPECIFICATION FairSpec
INVARIANTS KeptUntilDeleted
PROPERTIES ExpiredIsPurged

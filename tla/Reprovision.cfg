\* Two replicas, two embedding versions; a reprovision against one more change,
\* call, synchronization or fault.
CONSTANTS
  Replicas = {r1, r2}
  Rows = {x1}
  Keys = {k1}
  Versions = {1, 2}
  Admins = {a1, a2}
  Writers = {w1}
  Jobs = {j1, j2}
  Stale = 1
  MaxEvents = 2
SPECIFICATION FairSpec
INVARIANTS UndisturbedIsUniform LabelsAreTrue OneJobUnlessRaced
PROPERTIES LoneJobEnds
CHECK_DEADLOCK FALSE

\* Two users, two targets, one action id, two concurrent handlers; the action
\* expires one tick after it is created and the clock runs one tick past that.
CONSTANTS
  Users = {u1, u2}
  Targets = {t1, t2}
  ActionIds = {a1}
  Handlers = {h1, h2}
  TTL = 1
  Latency = 1
  MaxTime = 2
SPECIFICATION Spec
INVARIANTS SingleUse DiagnosisSound
PROPERTIES DecisionIsFinal ExpiredIsInert

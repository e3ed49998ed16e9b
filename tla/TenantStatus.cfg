\* Two replicas, two handlers.  A cache entry and the awaits of a handler last
\* one tick each, so the clock runs one tick past the bound of VerdictFresh.
CONSTANTS
  Processes = {r1, r2}
  Handlers = {h1, h2}
  TTL = 1
  Latency = 1
  MaxNow = 3
SPECIFICATION SSpec
SYMMETRY Symmetry
PROPERTIES VerdictFresh

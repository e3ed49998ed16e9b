\* Two concurrent handlers, two months, quotas 1 or 2 calls, one failing write.
CONSTANTS
  Callers = {h1, h2}
  MaxPeriod = 1
  Limits = {1, 2}
  MaxCalls = 2
  MsLimit = 2
  Wall = 1
  Projections = {1}
  MaxFaults = 1
SPECIFICATION MSpec
SYMMETRY Symmetry
INVARIANTS QuotaOverrunBounded CallLedgerTracksUsage

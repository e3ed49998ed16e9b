\* Two requests (sign-ups for the same or different addresses, demos), a reaper, two
\* administrators, two faults.
CONSTANTS
  Signups = {1, 2}
  Demos = {11, 12}
  Emails = {1, 2}
  Sweepers = {w1}
  Admins = {1, 2}
  MaxPerIp = 1
  MaxTenants = 1
  MaxDemos = 1
  DbBridge = TRUE
  MaxRequests = 2
  MaxFaults = 2
SPECIFICATION FairSpec
INVARIANTS CappedUntilConfirmed CapsHold DemoAllOrNothing QuotaFollowsTier
PROPERTIES ExpiredIsReaped
CHECK_DEADLOCK FALSE

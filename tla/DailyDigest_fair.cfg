\* No fault: two invocations that walk over the rows of two accounts in any
\* order, and users who change their settings.  The clock stands still.
SPECIFICATION FairSpec
CONSTANTS
  None = None
  Jobs = {j1, j2}
  Accounts = {a1, a2}
  Zones = {0}
  DailyAts = {0}
  DayLength = 10
  MaxTime = 0
  Lease = 2
  MaxAttempts = 2
  MaxRetryAfter = 1
  RetryAfters = {}
  Faults = {}
INVARIANTS AtMostOneDigest
PROPERTIES JobsEnd

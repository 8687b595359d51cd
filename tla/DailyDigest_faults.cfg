\* Two invocations, one account, every fault; the account is due from the start
\* or becomes due.
SPECIFICATION FairSpec
CONSTANTS
  None = None
  Jobs = {j1, j2}
  Accounts = {a1}
  Zones = {0}
  DailyAts = {0, 1}
  DayLength = 10
  MaxTime = 2
  Lease = 1
  MaxAttempts = 2
  MaxRetryAfter = 2
  RetryAfters = {1, 3}
  Faults = {"ambiguous", "overrun", "crash"}
INVARIANTS AttemptsHaveOneOwner OneMessagePerAttempt SentMeansAccepted
PROPERTIES ReclaimIsJustified KeepsPromise DueDigestIsSettled

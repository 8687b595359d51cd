\* Two users, one request besides the scheduler, two runs.
SPECIFICATION FairSpec
CONSTANTS
  None = None
  All = All
  Scheduler = Scheduler
  u1 = u1
  u2 = u2
  w1 = w1
  w2 = w2
  Users = {u1, u2}
  WalletIds = {w1, w2}
  Groups = {}
  Owner <- MCOwner
  Requests = {r1}
  Jobs = {1, 2}
  Codes = {202, 404, 500}
INVARIANTS AcceptedOnce RunsAreFounded
PROPERTIES SchedulerReachesEveryone

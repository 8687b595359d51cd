\* Two requests, a user with an old hash and two more, two Telegram users.
SPECIFICATION Spec
CONSTANTS
  None = None
  Deleted = Deleted
  Users = {u1, u2, u3}
  Emails = {e1, e2}
  Telegrams = {t1, t2}
  Words = {p1, p2}
  Prefix <- SamePrefix
  Veterans = {u1}
  Kinds = {"group"}
  Requests = {r1, r2}
SYMMETRY Interchangeable
INVARIANTS IdentitiesUnique NoOrphans ChosenPasswordStays
PROPERTIES IdentityStays CountedOnce MergeSparesOldData

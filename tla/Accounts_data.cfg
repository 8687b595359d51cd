\* One link, and wallets the caller creates meanwhile.
SPECIFICATION Spec
CONSTANTS
  None = None
  Deleted = Deleted
  Users = {u1, u2}
  Emails = {e1}
  Telegrams = {t1}
  Words = {p1, p2}
  Prefix <- OwnPrefix
  Veterans = {u1}
  Kinds = {"wallet"}
  Requests = {r1}
PROPERTIES MergeTakesNoData

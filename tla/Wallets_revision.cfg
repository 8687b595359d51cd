\* Two requests that change one wallet and one snapshot run of it.
SPECIFICATION Spec
CONSTANTS
  None = None
  Unset = Unset
  Users = {u1}
  Groups = {}
  WalletIds = {w1}
  Requests = {r1, r2}
  Runs = {n1}
  Types = {"evm"}
  Spellings <- MCSpellings
  Fold <- MCFold
  Payloads <- SomePayloads
  MaxTime = 6
INVARIANTS ShownIsCurrent

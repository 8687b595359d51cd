\* Two requests and two wallets of two users, one group, and one snapshot run.
SPECIFICATION Spec
CONSTANTS
  None = None
  Unset = Unset
  Users = {u1, u2}
  Groups = {g1}
  WalletIds = {w1, w2}
  Requests = {r1, r2}
  Runs = {n1}
  Types = {"evm", "manual"}
  Spellings <- MCSpellings
  Fold <- MCFold
  Payloads <- OnePayloads
  MaxTime = 3
SYMMETRY Interchangeable
INVARIANTS UniqueActiveAddress OneActivation LocksMoveOn GroupsOwned QuietRunIsCurrent

\* One wallet on a chain, one kept by hand, two runs of all or of the second.  A tick
\* is a day: what is fresh is of now, what is not yet stale is of the day before.
SPECIFICATION Spec
CONSTANTS
  None = None
  Wallets = {1, 2}
  Type <- MCType
  Runs = {1, 2}
  LegacyRows <- MCLegacyRows
  ManualRows <- MCManualRows
  Fresh = 0
  Stale = 1
  Day = 1
  VisibleAssets = 1
  User = u1
  Configured = TRUE
  Coins = {"SOL"}
  Scopes = {None, 2}
  Contents <- MCContents
  Answers <- MCAnswers
  Histories <- MCHistories
  Prices <- MCPrices
  Targets <- MCTargets
  MaxTime = 2
  Created <- MCCreated
  Patience = 1
  Windows = {0, 1}
PROPERTIES HealthCopiesAgree FreshIsHonest HistoryCarriesForward HintsBalance ChangeIsOfOneAddress StartAgreesWithHistory
CHECK_DEADLOCK FALSE

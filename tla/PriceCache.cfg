\* Two threads, two coins, a clock that lets a price expire.
SPECIFICATION FairSpec
CONSTANTS
  None = None
  Threads = {t1, t2}
  Coins = {eth, btc}
  Ethereum = eth
  TTL = 2
  MaxTime = 4
INVARIANTS AnswerWasCurrent ExpiredForAReason
PROPERTIES FetchesSpaced LockComesFree

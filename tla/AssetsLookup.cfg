\* Two requests, two addresses (so two tasks), one slot, one cache entry.
SPECIFICATION FairSpec
CONSTANTS
  None = None
  Requests = {r1, r2}
  Tasks = {t1, t2}
  Addresses <- MCAddresses
  Spellings <- MCSpellings
  KeyOf <- MCKeyOf
  TTL = 2
  MaxEntries = 1
  MaxLookups = 1
  MaxTime = 3
INVARIANTS SlotsAccounted SingleFlight NothingCached AnswersAreCurrent
PROPERTIES RequestsEnd

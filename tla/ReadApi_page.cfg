\* Two promises at a time, two changes of the book, two failures, one transaction.
SPECIFICATION FairReadSpec
CONSTANTS
  c1 = c1  c2 = c2
  Promises = {c1, c2}
  None = None
  Ttl = 3  BookCap = 1  SecondLook = 2
  MaxChanges = 2  MaxFailures = 2  MaxTxs = 1
INVARIANTS CacheIsSound SecondLookIsNew
PROPERTY PageCatchesUp
CHECK_DEADLOCK FALSE

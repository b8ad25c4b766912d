\* A book of up to two orders changes between any two reads of an answer.
SPECIFICATION ReadSpec
CONSTANTS
  a1 = a1
  Accounts = {a1}
  Cash <- CashEach
  Bonds <- BondsEach
  Unit = 1  Bps = 2  MaxFeeBps = 0
  Fees = {0}
  Bands = {0}
  Treasuries = {a1}
  Marks = {1}
  Eligibles <- AllEligible
  Amounts = {1, 2}
  Prices = {1, 2}
  Expiries = {0, 2}
  NoOrder = NoOrder
  MaxOrders = 2  MaxNow = 2
  PageSkew = 0  Delays = {0}
  Unread = Unread
INVARIANT AnswerIsABook
CHECK_DEADLOCK FALSE

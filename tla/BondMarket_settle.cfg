\* Two accounts, one of them the treasury, in every pair of roles; partial fills
\* with flooring and fees; expiry, band, mark, KYC and status move between place
\* and fill.
SPECIFICATION Spec
CONSTANTS
  a1 = a1  a2 = a2
  Accounts = {a1, a2}
  Cash <- CashEach
  Bonds <- BondsEach
  Unit = 2  Bps = 2  MaxFeeBps = 1
  Fees = {0, 1, 2}
  Bands = {0, 1}
  Treasuries = {a1}
  Marks = {1, 3}
  Eligibles <- OneOrAll
  Amounts = {1, 2}
  Prices = {1, 3}
  Expiries = {0, 2}
  NoOrder = NoOrder
  MaxOrders = 2  MaxNow = 2
  PageSkew = 1  Delays = {0, 2}
INVARIANTS Conserved FillsAreFair BookPageIsTrue
PROPERTY TradesAreLegal

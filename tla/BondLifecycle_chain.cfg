\* The chain of runs: the pool is full, arming may fail, somebody retries.  Coupons
\* at 1, 6 and 11; nobody can redeem before the last of them is paid.
SPECIFICATION FairSpec
CONSTANTS
  Bonds = {b1}
  Holders = {h1}
  Minted <- OneEach
  Face = 1  CouponNum = 1  CouponDen = 1
  FirstCoupon = 1  Interval = 5  Maturity = 15
  Lag = 1  MinAhead = 1  MaxAhead = 7  MaxSlide = 1  BlockSkew = 1
  RunsMayFail = FALSE  Patience = 1
  PageSkew = 0
  TokenStates <- Calm
  b1 = b1  b2 = b2
  Prefunded <- Plenty
  Amounts = {1}
  MaxFund = 6  MaxSchedules = 4  MaxNow = 16
PROPERTY CouponsArePaid
CHECK_DEADLOCK FALSE

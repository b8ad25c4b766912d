\* Two bonds in one settlement balance, coupons of 3 on two tokens at 1 and 2,
\* redemption from 2, one pool for both coupons and one that runs dry: holders
\* trade, claim and redeem while runs are armed, refused, paid by hand, reverted
\* and repeated.
SPECIFICATION Spec
CONSTANTS
  Bonds = {b1, b2}
  Holders = {h1, h2}
  Minted <- OneEach
  Face = 1  CouponNum = 3  CouponDen = 2
  FirstCoupon = 1  Interval = 1  Maturity = 2
  Lag = 1  MinAhead = 1  MaxAhead = 2  MaxSlide = 0  BlockSkew = 1
  RunsMayFail = TRUE  Patience = 8
  PageSkew = 1
  TokenStates <- Unruly
  b1 = b1  b2 = b2
  Prefunded <- RichAndPoor
  Amounts = {}
  MaxFund = 6  MaxSchedules = 2  MaxNow = 3
SYMMETRY Symmetry
INVARIANTS RunsServeCoupons CouponCalendar MoneyIsThere CouponPageIsTrue
CHECK_DEADLOCK FALSE

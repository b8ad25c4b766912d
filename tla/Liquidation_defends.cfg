\* Two overlapping runs, a price that falls, rises or vanishes, a node that refuses
\* some of what it is sent.
SPECIFICATION FairLiqSpec
CONSTANTS
  Runs = {r1, r2}
  TriggerHf = 120  TargetHf = 150  MaxRepay = 2  MaxDeposit = 6  Cooldown = 1
  Loans <- MCLoans
  Prices = {0, 60, 100}
  MaxMoves = 2  MaxRefusals = 2
INVARIANT PlansAreSound
PROPERTIES NothingWasted DefendedInTheEnd
CHECK_DEADLOCK FALSE

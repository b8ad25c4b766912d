\* Two clicks at a time on two mountings of the form and the mint button, one toast shown.
SPECIFICATION FairDeskSpec
CONSTANTS
  Size = 1
  Shown = 1
  MaxClicks = 2  MaxForms = 2
INVARIANTS TrayIsTrue ButtonsAreHonest
PROPERTY EveryClickEnds
CHECK_DEADLOCK FALSE

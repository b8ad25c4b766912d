\* Two wallets, one the issuer of both bonds, two handlers at a time; a fault and an officer's hand.
SPECIFICATION FairSpec
CONSTANTS
  w1 = w1  w2 = w2
  Wallets = {w1, w2}
  Ips = {i1}
  i1 = i1
  NBonds = 2
  Issuer <- IssuerOf  Registered = {2}
  Requests = {1, 2}
  Limit = 1  Window = 2
  Nobody = Nobody
  MaxAsks = 2  MaxNow = 2  MaxFaults = 1  MaxMeddles = 1
INVARIANTS LimitsHold AloneSucceeds
PROPERTIES KycIsAsAnswered EveryoneIsAnswered
CHECK_DEADLOCK FALSE

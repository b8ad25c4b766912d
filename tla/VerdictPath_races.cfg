\* Two overlapping runs, a key rotated under them, two freshness windows and clocks
\* a second off; maturity before the end.  The ladder's two rungs that move a
\* status, and the calm one only as what a Matured or Defaulted bond gets.
SPECIFICATION Spec
CONSTANTS
  Bonds = {b1}
  Runs = {r1, r2}
  Coverage = {"belowDefault", "belowFreeze"}
  Keys = {k1, k2}
  NoSnapshot = NoSnapshot
  NoVerdict = NoVerdict
  Windows = {0, 1}
  FutureSkew = 0  ClockSkew = 1  RunTimeout = 0
  Maturity = 2  MaxNow = 2
  MaxSigned = 2
SYMMETRY Symmetry
INVARIANTS NoNonceGap ObservationHolds SeizedIffDefaulted RiskPageIsTrue
PROPERTIES BoundedStaleness ImplementsPromise
CHECK_DEADLOCK FALSE

\* Two bonds behind one HBAR balance; a feed that moves and goes stale, a minimum
\* that moves, values that floor on both sides of the ratio, claims with dust.
SPECIFICATION Spec
CONSTANTS
  h1 = h1  h2 = h2
  Bonds = {b1, b2}
  Holders = {h1, h2}
  Minted <- TwoAndOne
  Face = 3  BondUnit = 2  FeedUnit = 2
  Prices = {0, 1, 3}
  Minimums = {0, 5000}
  Amounts = {1, 4}
  NotSeized = NotSeized
  MaxHbar = 6
SYMMETRY Symmetry
INVARIANTS VaultIsSound IssuerGetsItBack VaultPageIsTrue
PROPERTIES SeizureIsFinal WithdrawalsKeepCoverage

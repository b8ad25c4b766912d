---------------------------- MODULE CollateralView ----------------------------
(***************************************************************************)
(* The Collateral tab: the coverage badge and gauge, the value of the      *)
(* collateral, the coverage a withdrawal would leave and the warning and   *)
(* button that go with it.  The page computes with bigints from values the *)
(* vault has floored already, so its figures are near the vault's, not     *)
(* equal to them; the properties say how near.                             *)
(***************************************************************************)
EXTENDS CollateralVault

-----------------------------------------------------------------------------
(* What the page reads. *)

CoverageMax == 2147483647   \* type(uint256).max, and what the page derives from it

NoHint == -1   \* no figure shown

Known == price > 0   \* coverageBps and hbarUsd revert on a stale feed
Coverage(b) ==
  IF PrincipalUsd(b) = 0 THEN CoverageMax
  ELSE (CollateralUsd(collateral[b]) * 10000) \div PrincipalUsd(b)

-----------------------------------------------------------------------------
(* The badge and the gauge. *)

BandExclusive(bps, min) ==   \* slip: the floor itself counts as below it
  CASE bps = CoverageMax -> "none"
    [] bps # CoverageMax /\ bps >= 10000 -> "full"
    [] bps < 10000 /\ bps >= 2 * min -> "covered"
    [] bps < 10000 /\ bps < 2 * min /\ bps > min -> "thin"
    [] OTHER -> "below"
Band(bps, min) ==
  CASE bps = CoverageMax -> "none"
    [] bps # CoverageMax /\ bps >= 10000 -> "full"
    [] bps < 10000 /\ bps >= 2 * min -> "covered"
    [] bps < 10000 /\ bps < 2 * min /\ bps >= min -> "thin"
    [] OTHER -> "below"

Capped(bps) == IF bps > 10000 THEN 10000 ELSE bps

\* The position on the gauge, in parts of its length.
GaugeEnd == 30000
Gauge(bps, min) ==
  LET b == Capped(bps) IN
  CASE min = 0 -> 3 * b
    [] min > 0 /\ b <= min -> (10000 * b) \div min
    [] min > 0 /\ b > min /\ b <= 2 * min -> 10000 + (10000 * (b - min)) \div min
    [] OTHER -> 20000 + (10000 * (b - 2 * min)) \div (10000 - 2 * min)

\* What the tab shows of b; no badge and no needle while the feed is stale.
Stale == "feed stale"
Badge(b) == IF Known THEN Band(Coverage(b), minCoverageBps) ELSE Stale
Needle(b) == IF Known THEN Gauge(Coverage(b), minCoverageBps) ELSE NoHint

-----------------------------------------------------------------------------
(* The withdrawal form. *)

AfterBpsUnchanged(b, n) ==   \* slip: coverage before the withdrawal
  IF Known /\ collateral[b] > 0 /\ n <= collateral[b] THEN Coverage(b) ELSE NoHint
\* "coverage after: about"; nothing while the feed is stale.  Of the coverage of
\* nothing a withdrawal leaves a part beyond any minimum, and of everything 0.
AfterBps(b, n) ==
  IF Known /\ collateral[b] > 0 /\ n <= collateral[b]
    THEN IF PrincipalUsd(b) = 0 THEN IF n = collateral[b] THEN 0 ELSE CoverageMax
         ELSE (Coverage(b) * (collateral[b] - n)) \div collateral[b]
    ELSE NoHint

\* "the vault will revert with CoverageTooLow"
WarnsCoverage(b, n) == AfterBps(b, n) # NoHint /\ AfterBps(b, n) < minCoverageBps

WithdrawEnabled(b, n) == n > 0 /\ n <= collateral[b]

-----------------------------------------------------------------------------
(* Properties. *)

\* The badge, the gauge and the vault agree, for a minimum up to full coverage:
\* "below floor" is exactly a fresh feed under which the vault lets the issuer
\* withdraw nothing, and the needle, which is missing only on a stale feed,
\* stands left of the gauge's first third exactly then.
BandIsTheFloor ==
  \A b \in Bonds :
    /\ Badge(b) = "below" <=> Known /\ ~Covered(b, collateral[b])
    /\ Known /\ minCoverageBps > 0 =>
         (Needle(b) < 10000 <=> Capped(Coverage(b)) < minCoverageBps)
    /\ Needle(b) \in 0 .. GaugeEnd \/ (Needle(b) = NoHint /\ Badge(b) = Stale)

\* What the vault will find after a withdrawal, and refuse.
Found(b, n) ==
  IF PrincipalUsd(b) = 0 THEN CoverageMax
  ELSE (CollateralUsd(Kept(b, n)) * 10000) \div PrincipalUsd(b)
TooLow(b, n) == Known /\ ~Covered(b, Kept(b, n))

\* The two floors between the page's figure and the vault's: two basis points and
\* one settlement unit of collateral.
Slack(b) == 2 + 10000 \div PrincipalUsd(b)

\* The coverage announced for a withdrawal is the one the vault will compute, up
\* to the roundings.  When nothing is outstanding it is so but for a withdrawal of
\* everything, which is announced as 0 (Collateral.tsx:87) and found to be no
\* burden on any coverage.
HintIsClose ==
  \A b \in Bonds, n \in Amounts : AfterBps(b, n) # NoHint =>
    /\ PrincipalUsd(b) > 0 => /\ AfterBps(b, n) <= Found(b, n) + Slack(b)
                             /\ Found(b, n) <= AfterBps(b, n) + Slack(b)
    /\ PrincipalUsd(b) = 0 => (AfterBps(b, n) = Found(b, n) <=> n < collateral[b])

\* "The vault will revert with CoverageTooLow" is shown exactly when it will, unless
\* the coverage announced is within the roundings of the minimum.  When nothing is
\* outstanding the vault never does, and the page warns, wrongly, of a withdrawal of
\* everything and of no other.
WarningIsTrue ==
  \A b \in Bonds, n \in Amounts : Known /\ WithdrawEnabled(b, n) =>
    LET told == AfterBps(b, n) IN
    /\ PrincipalUsd(b) > 0 /\ (told + Slack(b) < minCoverageBps \/ told >= minCoverageBps + Slack(b))
         => (WarnsCoverage(b, n) <=> TooLow(b, n))
    /\ PrincipalUsd(b) = 0
         => ~TooLow(b, n) /\ (WarnsCoverage(b, n) <=> n = collateral[b] /\ minCoverageBps > 0)

\* A button that is enabled with a coverage announced, clear of the floor by the
\* roundings, does withdraw, and where nothing is outstanding so does every enabled
\* one: only a status or a seizure may refuse it then.  Where the tab shows no needle
\* the vault refuses all.
WithdrawWorks ==
  \A b \in Bonds, n \in Amounts :
    LET clear == /\ WithdrawEnabled(b, n)
                 /\ AfterBps(b, n) # NoHint
                 /\ PrincipalUsd(b) > 0 => AfterBps(b, n) >= minCoverageBps + Slack(b)
    IN /\ clear /\ Releasable(status[b]) /\ seizures[b] = NotSeized => CanWithdraw(b, n)
       /\ Needle(b) = NoHint => ~CanWithdraw(b, n)

\* The tab as a whole: badge, gauge, hint, warning and button agree with the vault.
VaultPageIsTrue == BandIsTheFloor /\ HintIsClose /\ WarningIsTrue /\ WithdrawWorks
=============================================================================

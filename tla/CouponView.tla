------------------------------ MODULE CouponView ------------------------------
(***************************************************************************)
(* What the Coupons tab makes of the lifecycle contract: the sentences of  *)
(* the schedule panel, the amounts of the claim and redeem buttons, what   *)
(* the issuer is warned of before a transaction is sent without a dry run. *)
(* Everything is a function of one state of BondLifecycle and of the       *)
(* browser's clock t, which may be PageSkew seconds away from the chain's; *)
(* the properties compare what the page announces with what the contract   *)
(* would do.                                                               *)
(***************************************************************************)
EXTENDS BondLifecycle

CONSTANT PageSkew
ASSUME PageAssumption == PageSkew \in Nat

\* What Date.now() may be.
Clocks == (now - PageSkew) .. (now + PageSkew)

-----------------------------------------------------------------------------
(* The schedule panel. *)

NoMore(b) == nextCoupon[b] > Maturity
Scheduled(b) == scheduleOf[b] # 0
DueNow(b, t) == nextCoupon[b] <= t
PoolShort(b) == funded[b] < Due(b)

CalendarIgnored(b, t) ==   \* slip: the last coupon is offered for ever
  {IF Scheduled(b) THEN "run is pending" ELSE "no run is pending"}
  \cup {s \in {"due now"} : DueNow(b, t)}
  \cup {s \in {"underfunded"} : PoolShort(b)}
\* The sentences the panel shows for b.
Panel(b, t) ==
  {IF Scheduled(b) THEN "run is pending" ELSE "no run is pending"}
  \cup {s \in {"all paid"} : NoMore(b)}
  \cup {s \in {"due now"} : DueNow(b, t) /\ ~NoMore(b)}
  \cup {s \in {"underfunded"} : PoolShort(b) /\ ~NoMore(b)}

\* claimable: h's part of paid coupon i, zero once it was claimed.
Claimable(b, i, h) == IF Unclaimed(b, i, h) THEN Share(coupons[b][i], h) ELSE 0

\* The rows of the table that show wallet h a claim button.
ClaimButtonsAll(b, h) == DOMAIN coupons[b]   \* slip: shown on every row
ClaimButtons(b, h) == {i \in DOMAIN coupons[b] : Claimable(b, i, h) > 0}

-----------------------------------------------------------------------------
(* The issuer's panel: both calls are sent without simulation. *)

NextDue(b, t) == DueNow(b, t) /\ ~NoMore(b)

ScheduleWarnsByDate(b) == DueNow(b, now)   \* slip
\* "the contract will revert with AlreadyScheduled"
ScheduleWarns(b) == Scheduled(b)
\* "the contract will revert with CouponNotDue"
PayWarns(b, t) == ~NextDue(b, t)

-----------------------------------------------------------------------------
(* Redemption. *)

\* What wallet h is told, and whether its button is enabled.
RedeemText(b, h, t) ==
  CASE status[b] = "Defaulted" -> "defaulted"
    [] status[b] # "Defaulted" /\ t < Maturity -> "opens at maturity"
    [] status[b] # "Defaulted" /\ t >= Maturity /\ bal[b][h] = 0 -> "nothing to redeem"
    [] status[b] # "Defaulted" /\ t >= Maturity /\ bal[b][h] > 0
         /\ funded[b] < bal[b][h] * Face -> "issuer must fund"
    [] OTHER -> "redeem"

CanRedeemAnyStatus(b, h, t) ==   \* slip: a defaulted bond is redeemed
  t >= Maturity /\ bal[b][h] > 0 /\ funded[b] >= bal[b][h] * Face
CanRedeem(b, h, t) ==
  /\ t >= Maturity /\ status[b] # "Defaulted"
  /\ bal[b][h] > 0 /\ funded[b] >= bal[b][h] * Face

-----------------------------------------------------------------------------
(* Properties. *)

CouponDates == {t \in FirstCoupon .. Maturity : (t - FirstCoupon) % Interval = 0}

\* The schedule panel is true of the contract.  "All paid" means that every date
\* of the calendar has its coupon; "a run is pending for the coupon of" names the
\* coupon that is next; where it says that none is pending the schedule service
\* holds none.  Of a bond at risk whose token is not paused, "due now" without
\* "underfunded" means that a payment by anyone would go through, unless the
\* browser's clock is ahead, and then it soon would; and what would go through is
\* announced unless that clock is behind.
PanelTellsTruth ==
  \A b \in Bonds, t \in Clocks :
    LET shown == Panel(b, t)
        offered == "due now" \in shown /\ "underfunded" \notin shown
    IN
    /\ "all paid" \in shown <=> Len(coupons[b]) = Cardinality(CouponDates)
    /\ "run is pending" \in shown => scheduledFor[b] = nextCoupon[b]
    /\ "no run is pending" \in shown =>
         \A i \in DOMAIN schedules : ~(Pending(i) /\ schedules[i].bond = b)
    /\ status[b] \in AtRisk /\ ~token[b].paused /\ offered =>
         nextCoupon[b] <= now + PageSkew /\ (t <= now => Payable(b))
    /\ t >= now /\ Payable(b) => offered

\* The two confirmations of the issuer, sent without a dry run, name the revert
\* that would follow: schedule() is warned about exactly when the contract would
\* refuse it, and a payment warned about would revert, unless the browser's clock
\* is behind and the coupon less than that overdue.
ConfirmTellsTruth ==
  \A b \in Bonds, t \in Clocks :
    /\ ScheduleWarns(b) <=> ~Schedulable(b)
    /\ PayWarns(b, t) /\ Payable(b) => t < now /\ now < nextCoupon[b] + PageSkew

\* The claim buttons shown to a wallet are exactly the claims the contract would
\* pay it.  Its redeem button agrees with the text beside it, works for a wallet
\* with KYC unless the browser's clock is ahead, and is offered whenever it would
\* work unless that clock is behind.
HolderButtonsWork ==
  \A b \in Bonds, h \in Holders :
    /\ ClaimButtons(b, h) = {i \in DOMAIN coupons[b] : CanClaim(b, i, h)}
    /\ \A t \in Clocks :
         /\ CanRedeem(b, h, t) <=> RedeemText(b, h, t) = "redeem"
         /\ t <= now /\ CanRedeem(b, h, t) /\ h \in token[b].kyc => Redeemable(b, h)
         /\ t >= now /\ Redeemable(b, h) => CanRedeem(b, h, t)

\* The tab as a whole: its panel, its warnings and its buttons are the contract's,
\* up to the browser's clock.
CouponPageIsTrue == PanelTellsTruth /\ ConfirmTellsTruth /\ HolderButtonsWork
=============================================================================

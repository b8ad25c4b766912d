---------------------------- MODULE BondLifecycle ----------------------------
(***************************************************************************)
(* Coupons, redemption and the Hedera Schedule Service.  The contract      *)
(* keeps one settlement pool per bond, reserves each coupon from it        *)
(* against a snapshot of the holders, and asks the schedule service (HSS)  *)
(* to call payCoupon at the next coupon: every run arms the one after it.  *)
(* Holders pull their shares whenever they like, transfer in between and   *)
(* redeem at maturity; the gate freezes and defaults bonds meanwhile, and  *)
(* the token is paused and its holders lose and regain their KYC.          *)
(*                                                                         *)
(* HSS answers with codes: any attempt to arm may fail (no capacity, the   *)
(* nested-scheduling limit), and an armed run executes once, in a block    *)
(* whose timestamp may be BlockSkew seconds before its own second.         *)
(***************************************************************************)
EXTENDS Integers, Sequences, FiniteSets, Sums

CONSTANTS
  Bonds, Holders,
  Minted,        \* balance each holder starts with, in every bond
  Face,          \* principal per token, in settlement units
  CouponNum, CouponDen,   \* a coupon is supply * CouponNum / CouponDen, floored
  FirstCoupon, Interval, Maturity,
  Lag,           \* SCHEDULE_LAG
  MinAhead,      \* an armed second is at least this far ahead (5 s)
  MaxAhead,      \* HSS accepts at most this far ahead (62 days)
  MaxSlide,      \* how far capacity probing may move a run
  BlockSkew,     \* how early a run's block timestamp may be
  RunsMayFail,   \* a run may revert for a reason outside (gas)
  TokenStates,   \* what the officers of each bond's token may make of it
  Patience,      \* seconds a due coupon may stay unarmed before somebody acts
  Prefunded,     \* settlement in the pool of each bond when the model starts
  Amounts,       \* amounts people fund with
  MaxFund, MaxSchedules, MaxNow   \* bounds

ASSUME TermsAssumption ==
  /\ IsFiniteSet(Bonds) /\ IsFiniteSet(Holders)
  /\ Minted \in [Holders -> Nat] /\ Face \in Nat
  /\ CouponNum \in Nat /\ CouponDen \in Nat \ {0}
  /\ FirstCoupon \in Nat /\ Interval \in Nat \ {0} /\ Maturity \in Nat
  /\ FirstCoupon <= Maturity
TokenState == [paused : BOOLEAN, kyc : SUBSET Holders]
ASSUME TokenAssumption == TokenStates \in [Bonds -> SUBSET TokenState]
ASSUME ScheduleAssumption ==
  /\ Lag \in Nat /\ MinAhead \in Nat /\ MaxAhead \in Nat /\ MaxSlide \in Nat
  /\ BlockSkew \in Nat /\ BlockSkew <= Lag
  /\ RunsMayFail \in BOOLEAN /\ Patience \in Nat
  /\ Amounts \subseteq Nat /\ Prefunded \in [Bonds -> Nat]
  /\ MaxFund \in Nat /\ MaxSchedules \in Nat /\ MaxNow \in Nat

VARIABLES
  status, nextCoupon,            \* BondRegistry
  token,                         \* the ATS token of each bond: paused or not, who has KYC
  bal,                           \* its balances, per bond and holder
  funded,                        \* pool per bond
  coupons,                       \* coupons paid, per bond
  claimed,                       \* <<coupon id, holder>> pairs, per bond
  usdc,                          \* settlement tokens the contract holds
  scheduleOf, scheduledFor,      \* the contract's pointer into HSS, 0 = none
  schedules,                     \* HSS: every schedule ever created
  now

moneyVars == <<bal, funded, coupons, claimed, usdc>>
runVars   == <<scheduleOf, scheduledFor, schedules>>
vars      == <<status, nextCoupon, token, moneyVars, runVars, now>>

AtRisk == {"Active", "Frozen"}
Status == {"Active", "Frozen", "Matured", "Defaulted"}

\* A paid coupon; shares are the holders' balances at its token snapshot.
Coupon == [amount : Nat, claimedTotal : Nat, shares : [Holders -> Nat], supply : Nat]
Schedule == [bond : Bonds, at : Nat, state : {"pending", "executed", "deleted"}]

Supply(b) == SumOver(bal[b], Holders)

Init ==
  /\ status = [b \in Bonds |-> "Active"]
  /\ nextCoupon = [b \in Bonds |-> FirstCoupon]
  /\ token = [b \in Bonds |-> [paused |-> FALSE, kyc |-> Holders]]
  /\ bal = [b \in Bonds |-> Minted]
  /\ funded = Prefunded
  /\ coupons = [b \in Bonds |-> <<>>]
  /\ claimed = [b \in Bonds |-> {}]
  /\ usdc = SumOver(Prefunded, Bonds)
  /\ scheduleOf = [b \in Bonds |-> 0]
  /\ scheduledFor = [b \in Bonds |-> 0]
  /\ schedules = <<>>
  /\ now = 0

-----------------------------------------------------------------------------
(* Arming a run: _schedule, scheduleWithProbe and HSS's own checks. *)

Max2(x, y) == IF x >= y THEN x ELSE y

\* The second _schedule asks for.
ArmAtNoLag(target) == Max2(target, now + MinAhead)   \* slip: no SCHEDULE_LAG
ArmAt(target) == Max2(target + Lag, now + MinAhead)

\* Arm a run for `target` on top of the schedules `hss`, or fail to: too far
\* ahead (skipped), no capacity in any probed second, or any other HSS code.
Arm(b, target, hss) ==
  /\ Len(hss) < MaxSchedules
  /\ \E d \in 0 .. MaxSlide :
       /\ ArmAt(target) + d <= now + MaxAhead
       /\ schedules' = Append(hss, [bond |-> b, at |-> ArmAt(target) + d,
                                    state |-> "pending"])
  /\ scheduleOf' = [scheduleOf EXCEPT ![b] = Len(hss) + 1]
  /\ scheduledFor' = [scheduledFor EXCEPT ![b] = target]

\* deleteSchedule(pending), its code ignored: a run that executed stays so.
KeepPending(b, hss) == hss   \* slip: a run paid by hand stays armed
DropPending(b, hss) ==
  LET p == scheduleOf[b] IN
  IF p # 0 /\ hss[p].state = "pending"
    THEN [hss EXCEPT ![p].state = "deleted"]
    ELSE hss

-----------------------------------------------------------------------------
(* payCoupon. *)

Due(b) == (Supply(b) * CouponNum) \div CouponDen

\* The conditions of payCoupon, in the order the code tests them; the token takes no
\* snapshot while it is paused.
PayableUnfunded(b) ==   \* slip: pool not checked
  status[b] \in AtRisk /\ now >= nextCoupon[b] /\ nextCoupon[b] <= Maturity /\ ~token[b].paused
Payable(b) ==
  /\ status[b] \in AtRisk
  /\ now >= nextCoupon[b]
  /\ nextCoupon[b] <= Maturity
  /\ ~token[b].paused
  /\ funded[b] >= Due(b)

PoolKept(b) == funded[b]           \* slip: coupon not reserved
PoolAfter(b) == funded[b] - Due(b)

NextAfterToday(b) == now + Interval   \* slip: calendar drifts with late payment
NextAfter(b) == nextCoupon[b] + Interval

PointerKept(f, b) == f   \* slip: pointer not deleted
Cleared(f, b) == [f EXCEPT ![b] = 0]

\* The body of payCoupon(b), given the schedules as they stand when it runs.
Pay(b, hss) ==
  LET left == DropPending(b, hss)
      next == NextAfter(b)
  IN
  /\ Payable(b)
  /\ funded' = [funded EXCEPT ![b] = PoolAfter(b)]
  /\ coupons' = [coupons EXCEPT ![b] = Append(@,
       [amount |-> Due(b), claimedTotal |-> 0, shares |-> bal[b], supply |-> Supply(b)])]
  /\ nextCoupon' = [nextCoupon EXCEPT ![b] = next]
  /\ \/ next <= Maturity /\ Arm(b, next, left)
     \/ /\ schedules' = left
        /\ scheduleOf' = Cleared(scheduleOf, b)
        /\ scheduledFor' = Cleared(scheduledFor, b)
  /\ UNCHANGED <<status, bal, claimed, usdc, token, now>>

\* Somebody calls payCoupon by hand.
PayByHand(b) == Pay(b, schedules)

Executed(i) == [schedules EXCEPT ![i].state = "executed"]

\* HSS executes run i: it counts as executed whether or not the call reverts.
RunDue(i) == schedules[i].state = "pending" /\ now + BlockSkew >= schedules[i].at

RunPays(i) == RunDue(i) /\ Pay(schedules[i].bond, Executed(i))

RunReverts(i) ==
  /\ RunDue(i)
  /\ RunsMayFail \/ ~Payable(schedules[i].bond)
  /\ schedules' = Executed(i)
  /\ UNCHANGED <<status, nextCoupon, moneyVars, scheduleOf, scheduledFor, token, now>>

-----------------------------------------------------------------------------
(* The other entry points. *)

\* schedule(): permissionless, refused while the pointer serves nextCoupon.
Schedulable(b) == ~(scheduledFor[b] = nextCoupon[b] /\ scheduleOf[b] # 0)

Rearm(b) ==
  /\ Schedulable(b)
  /\ Arm(b, nextCoupon[b], schedules)
  /\ UNCHANGED <<status, nextCoupon, moneyVars, token, now>>

Fund(b, n) ==
  /\ funded[b] + n <= MaxFund
  /\ funded' = [funded EXCEPT ![b] = @ + n]
  /\ usdc' = usdc + n
  /\ UNCHANGED <<status, nextCoupon, bal, coupons, claimed, runVars, token, now>>

Share(c, h) == IF c.supply = 0 THEN 0 ELSE (c.amount * c.shares[h]) \div c.supply
Shares(c) == [h \in Holders |-> Share(c, h)]

UnclaimedAlways(b, i, h) == TRUE   \* slip: no AlreadyClaimed
Unclaimed(b, i, h) == <<i, h>> \notin claimed[b]

CanClaim(b, i, h) == Unclaimed(b, i, h) /\ Share(coupons[b][i], h) > 0

Claim(b, i, h) ==
  LET amount == Share(coupons[b][i], h) IN
  /\ CanClaim(b, i, h)
  /\ claimed' = [claimed EXCEPT ![b] = @ \cup {<<i, h>>}]
  /\ coupons' = [coupons EXCEPT ![b][i].claimedTotal = @ + amount]
  /\ usdc' = usdc - amount
  /\ UNCHANGED <<status, nextCoupon, bal, funded, runVars, token, now>>

\* The conditions of redeem, the last one the token's own when it burns.
Redeemable(b, h) ==
  /\ status[b] # "Defaulted"
  /\ now >= Maturity
  /\ bal[b][h] > 0
  /\ funded[b] >= bal[b][h] * Face
  /\ h \in token[b].kyc

Redeem(b, h) ==
  LET principal == bal[b][h] * Face IN
  /\ Redeemable(b, h)
  /\ funded' = [funded EXCEPT ![b] = @ - principal]
  /\ bal' = [bal EXCEPT ![b][h] = 0]
  /\ usdc' = usdc - principal
  /\ status' = [status EXCEPT ![b] = "Matured"]
  /\ UNCHANGED <<nextCoupon, coupons, claimed, runVars, token, now>>

-----------------------------------------------------------------------------
(* The world around. *)

Transfer(b, g, h) ==
  /\ g # h /\ bal[b][g] > 0 /\ ~token[b].paused /\ {g, h} \subseteq token[b].kyc
  /\ bal' = [bal EXCEPT ![b][g] = @ - 1, ![b][h] = @ + 1]
  /\ UNCHANGED <<status, nextCoupon, funded, coupons, claimed, usdc, runVars, token, now>>

\* The risk gate: FREEZE, unfreeze, DEFAULT.
GateMoves(b, from, to) ==
  /\ status[b] \in from
  /\ status' = [status EXCEPT ![b] = to]
  /\ UNCHANGED <<nextCoupon, moneyVars, runVars, token, now>>

\* Officers pause the token, grant and revoke KYC.
TokenMoves(b, to) ==
  /\ to # token[b] /\ token' = [token EXCEPT ![b] = to]
  /\ UNCHANGED <<status, nextCoupon, moneyVars, runVars, now>>

\* HSS does not let a run's second pass, and nobody leaves a coupon that is due
\* unarmed for longer than Patience.
Tick ==
  /\ now < MaxNow
  /\ \A i \in DOMAIN schedules :
       schedules[i].state = "pending" => now < schedules[i].at
  /\ \A b \in Bonds :
       status[b] \in AtRisk /\ nextCoupon[b] <= Maturity /\ scheduleOf[b] = 0
         => now < nextCoupon[b] + Patience
  /\ now' = now + 1
  /\ UNCHANGED <<status, nextCoupon, token, moneyVars, runVars>>

Next ==
  \/ \E b \in Bonds : PayByHand(b) \/ Rearm(b)
  \/ \E i \in DOMAIN schedules : RunPays(i) \/ RunReverts(i)
  \/ \E b \in Bonds, n \in Amounts : Fund(b, n)
  \/ \E b \in Bonds, h \in Holders : Redeem(b, h)
  \/ \E b \in Bonds, h \in Holders : \E i \in DOMAIN coupons[b] : Claim(b, i, h)
  \/ \E b \in Bonds, g, h \in Holders : Transfer(b, g, h)
  \/ \E b \in Bonds : GateMoves(b, {"Active"}, "Frozen")
  \/ \E b \in Bonds : GateMoves(b, {"Frozen"}, "Active")
  \/ \E b \in Bonds : GateMoves(b, AtRisk, "Defaulted")
  \/ \E b \in Bonds : \E to \in TokenStates[b] : TokenMoves(b, to)
  \/ Tick

Spec == Init /\ [][Next]_vars

\* HSS executes what it accepted, time passes, and whoever calls schedule() when
\* it is possible gets a run armed in the end.
FairSpec ==
  /\ Spec
  /\ WF_vars(Tick)
  /\ \A i \in 1 .. MaxSchedules :
       WF_vars(i \in DOMAIN schedules /\ (RunPays(i) \/ RunReverts(i)))
  /\ \A b \in Bonds : SF_vars(Rearm(b))

-----------------------------------------------------------------------------
(* Properties. *)

\* Every variable keeps its type; in particular no pool and no claim ever goes
\* below zero.
TypeOK ==
  /\ status \in [Bonds -> Status]
  /\ nextCoupon \in [Bonds -> Nat]
  /\ token \in [Bonds -> TokenState]
  /\ bal \in [Bonds -> [Holders -> Nat]]
  /\ funded \in [Bonds -> Nat]
  /\ coupons \in [Bonds -> Seq(Coupon)]
  /\ claimed \in [Bonds -> SUBSET (Nat \X Holders)]
  /\ usdc \in Nat
  /\ scheduleOf \in [Bonds -> Nat]
  /\ scheduledFor \in [Bonds -> Nat]
  /\ schedules \in Seq(Schedule)
  /\ now \in Nat

Pending(i) == schedules[i].state = "pending"

\* At most one run is armed per bond and the contract's pointer names it: paying
\* by hand, re-arming and nested arming never leave an orphan behind that would
\* fire later and burn HBAR.
OneRunPerBond ==
  \A i \in DOMAIN schedules : Pending(i) => scheduleOf[schedules[i].bond] = i

\* A set pointer serves the coupon that is next: a payment never leaves behind a
\* pointer for a coupon already paid.
PointerServesNext ==
  \A b \in Bonds : scheduleOf[b] # 0 => scheduledFor[b] = nextCoupon[b]

\* No armed run can find its coupon not due, even when its block's timestamp is
\* BlockSkew early: the failure SCHEDULE_LAG was added for.
RunNeverEarly ==
  \A i \in DOMAIN schedules :
    Pending(i) => nextCoupon[schedules[i].bond] + BlockSkew <= schedules[i].at

\* Runs serve coupons: whatever is armed, nested, paid by hand or re-armed, one run
\* per bond is on its way, for the coupon that is next, and not early.
RunsServeCoupons == OneRunPerBond /\ PointerServesNext /\ RunNeverEarly

\* The n-th coupon is paid for the n-th date of the calendar, however late: no
\* date is paid twice or skipped.
CouponCalendar ==
  \A b \in Bonds : nextCoupon[b] = FirstCoupon + Interval * Len(coupons[b])

\* A bond's share of the balance: its pool, and what its paid coupons still owe.
Unpaid(cs) == [i \in DOMAIN cs |-> cs[i].amount - cs[i].claimedTotal]
Booked(b) == funded[b] + SumOver(Unpaid(coupons[b]), DOMAIN coupons[b])

\* What the contract holds is, to the unit, what is left in the pools plus what
\* paid coupons still owe: claims, payments and redemptions of all bonds share
\* one balance and never eat each other's.
Solvent == usdc = SumOver([b \in Bonds |-> Booked(b)], Bonds)

\* Of each coupon exactly the shares of the holders marked claimed are gone, and
\* they never exceed it, whatever was transferred or burned since.
ClaimsAccounted ==
  \A b \in Bonds : \A i \in DOMAIN coupons[b] :
    LET c == coupons[b][i]
        done == {h \in Holders : <<i, h>> \in claimed[b]}
    IN  c.claimedTotal = SumOver(Shares(c), done) /\ c.claimedTotal <= c.amount

\* The money is there: nothing below zero, the balance is what the books say, and
\* of each coupon just the claimed shares are gone.
MoneyIsThere == TypeOK /\ Solvent /\ ClaimsAccounted

\* With a pool that covers them and no redemption before the last one, every
\* coupon is paid: by hand, or by the chain of scheduled runs, re-armed through
\* schedule() where arming failed.  A freeze does not stop the chain, only a
\* default does, or a token that stays paused.
CouponsArePaid ==
  \A b \in Bonds : <>(nextCoupon[b] > Maturity \/ status[b] = "Defaulted")
=============================================================================

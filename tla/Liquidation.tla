------------------------------ MODULE Liquidation ------------------------------
(***************************************************************************)
(* The liquidation-protection workflow on a loan of its own wallet.  A run *)
(* reads position, price, reserves and nonces in one batch, plans, signs a *)
(* repayment and a deposit, and sends both in a second batch, of which the *)
(* node may take either.  Runs keep no state and may overlap; the guard on *)
(* the pending nonce is all that keeps one from repeating another.         *)
(*                                                                         *)
(* The lending contract, the wallet's tokens and the node's pool are       *)
(* modelled from how the workflow uses them.                               *)
(***************************************************************************)
EXTENDS Integers, FiniteSets, FiniteSetsExt

CONSTANTS
  Runs,                                              \* overlapping runs
  TriggerHf, TargetHf, MaxRepay, MaxDeposit, Cooldown,   \* the policy, from secrets
  Loans, Prices,                                     \* loans and prices to begin from
  MaxMoves, MaxRefusals                              \* bounds

ASSUME LiquidationAssumption ==
  /\ {TriggerHf, TargetHf, MaxRepay, MaxDeposit, Cooldown} \subseteq Nat /\ TargetHf > TriggerHf /\ MaxRepay > 0
  /\ Loans \subseteq [collateral : Nat, debt : Nat, vusd : Nat, veth : Nat]
  /\ Prices \subseteq Nat
  /\ {MaxMoves, MaxRefusals} \subseteq Nat

VARIABLES
  loan,        \* the position and the wallet's two reserves
  price, age,  \* the oracle; seconds since the position's lastUpdateTime, up to Cooldown
  latest, pool, \* the wallet's latest nonce; what the node holds of it
  run,         \* what each run has read and planned
  moves, refusals

liqVars == <<loan, price, age, latest, pool, run, moves, refusals>>

LT == 78

Least(a, b) == IF a < b THEN a ELSE b

HfX100(c, d, p) == IF d = 0 THEN 10 ^ 9 ELSE (c * p * LT) \div (100 * d)

-----------------------------------------------------------------------------
(* The policy: decideLiq of a read s. *)

Nothing == [repay |-> 0, deposit |-> 0]

SparedAlways(s) ==   \* slip: the cooldown is compared the wrong way round
  \/ s.debt = 0
  \/ HfX100(s.collateral, s.debt, s.price) > TriggerHf
  \/ s.age >= Cooldown
Spared(s) ==
  \/ s.debt = 0
  \/ HfX100(s.collateral, s.debt, s.price) > TriggerHf
  \/ s.age < Cooldown

TargetDebt(s) == (s.collateral * s.price * LT) \div (100 * TargetHf)

Repay(s) ==
  Least(IF s.debt > TargetDebt(s) THEN s.debt - TargetDebt(s) ELSE 0, Least(MaxRepay, s.vusd))

\* BigInt division throws on a zero price.
Throws(s) == ~Spared(s) /\ s.debt > Repay(s) /\ s.price = 0

NeedCFloor(s, debtAfter) ==   \* slip: the quotient is not rounded up
  (TargetHf * 100 * debtAfter) \div (s.price * LT)
NeedC(s, debtAfter) ==
  (TargetHf * 100 * debtAfter + s.price * LT - 1) \div (s.price * LT)

Deposit(s, debtAfter) ==
  IF debtAfter > 0 /\ NeedC(s, debtAfter) > s.collateral
  THEN Least(NeedC(s, debtAfter) - s.collateral, Least(MaxDeposit, s.veth))
  ELSE 0

DecideLiq(s) ==
  IF Spared(s) THEN Nothing
  ELSE [repay |-> Repay(s), deposit |-> Deposit(s, s.debt - Repay(s))]

-----------------------------------------------------------------------------
(* The node's view of the wallet. *)

Held == {t.nonce : t \in pool}

\* eth_getTransactionCount(pending): up to the first gap.
Pending == Min({n \in latest .. latest + Cardinality(pool) : n \notin Held})

\* fresh (history): since it was read no price has moved and nothing planned on an
\* older price was mined.
NoRead == [at |-> "idle"]
Read == [collateral |-> loan.collateral, debt |-> loan.debt, vusd |-> loan.vusd,
         veth |-> loan.veth, price |-> price, age |-> age]

LiqInit ==
  /\ loan \in Loans /\ price \in Prices
  /\ age = Cooldown
  /\ latest = 0 /\ pool = {}
  /\ run = [r \in Runs |-> NoRead]
  /\ moves = 0 /\ refusals = 0

Staled(runs) == [r \in Runs |-> IF runs[r] = NoRead THEN NoRead ELSE [runs[r] EXCEPT !.fresh = FALSE]]

PriceMoves ==
  /\ moves < MaxMoves /\ moves' = moves + 1
  /\ price' \in Prices \ {price}
  /\ run' = Staled(run) /\ pool' = {[t EXCEPT !.fresh = FALSE] : t \in pool}
  /\ UNCHANGED <<loan, age, latest, refusals>>

\* A run takes seconds and the cooldown is at least the cron's half minute: a tick
\* does not pass within a run.
Tick ==
  /\ age < Cooldown /\ age' = age + 1
  /\ \A r \in Runs : run[r] = NoRead
  /\ UNCHANGED <<loan, price, latest, pool, run, moves, refusals>>

-----------------------------------------------------------------------------
(* A run. *)

\* The simulated repay(1): it needs a debt and a unit of vUSD.
ProbePasses == loan.debt > 0 /\ loan.vusd > 0

PendingIgnored == TRUE   \* slip: no look at the pending nonce
NothingPending == Pending = latest

\* One batch of reads.  A run that is refused a read, is spared or has nothing to
\* send ends here and leaves no trace.
Decide(r) ==
  /\ run[r] = NoRead
  /\ ProbePasses /\ NothingPending
  /\ ~Throws(Read) /\ DecideLiq(Read) # Nothing
  /\ run' = [run EXCEPT ![r] =
       [at |-> "signed", read |-> Read, plan |-> DecideLiq(Read), nonce |-> latest, fresh |-> TRUE]]
  /\ UNCHANGED <<loan, price, age, latest, pool, moves, refusals>>

\* Nothing is signed for an amount of 0, and a deposit alone takes the first nonce.
Signed(x) ==
  LET call(of, amount, n) == [kind |-> of, amount |-> amount, nonce |-> n, fresh |-> x.fresh]
      next == IF x.plan.repay > 0 THEN x.nonce + 1 ELSE x.nonce
  IN {t \in {call("repay", x.plan.repay, x.nonce), call("deposit", x.plan.deposit, next)} :
        t.amount > 0}

\* What of it the node can take: a spent nonce never, a held one only to replace
\* what holds it.
Takable(x) == {t \in Signed(x) : t.nonce >= latest}
Replaced(took) == {t \in pool : t.nonce \in {u.nonce : u \in took}}

\* The second batch, settled call by call: the node takes what it likes.
SendBoth(r) ==
  /\ run[r] # NoRead
  /\ \E took \in SUBSET Takable(run[r]) :
       /\ pool' = (pool \ Replaced(took)) \cup took
       /\ refusals' = refusals + (IF took = Takable(run[r]) THEN 0 ELSE 1)
  /\ refusals' <= MaxRefusals
  /\ run' = [run EXCEPT ![r] = NoRead]
  /\ UNCHANGED <<loan, price, age, latest, moves>>

-----------------------------------------------------------------------------
(* The chain. *)

Repaid(n) ==
  IF n <= loan.debt /\ n <= loan.vusd THEN [loan EXCEPT !.debt = @ - n, !.vusd = @ - n] ELSE loan
Deposited(n) ==
  IF n <= loan.veth THEN [loan EXCEPT !.collateral = @ + n, !.veth = @ - n] ELSE loan

Mine(t) ==
  /\ t.nonce = latest /\ latest' = latest + 1
  /\ loan' = IF t.kind = "repay" THEN Repaid(t.amount) ELSE Deposited(t.amount)
  /\ age' = IF loan' = loan THEN age ELSE 0
  /\ pool' = {[u EXCEPT !.fresh = @ /\ t.fresh] : u \in pool \ {t}}
  /\ run' = IF t.fresh THEN run ELSE Staled(run)
  /\ UNCHANGED <<price, moves, refusals>>

LiqNext ==
  \/ PriceMoves \/ Tick
  \/ \E r \in Runs : Decide(r) \/ SendBoth(r)
  \/ \E t \in pool : Mine(t)

LiqSpec == LiqInit /\ [][LiqNext]_liqVars

\* The cron trigger starts runs for ever, each sends what it signed, time passes
\* and the chain mines what the node holds.
FairLiqSpec ==
  /\ LiqSpec
  /\ \A r \in Runs : WF_liqVars(Decide(r)) /\ WF_liqVars(SendBoth(r))
  /\ WF_liqVars(\E t \in pool : Mine(t)) /\ WF_liqVars(Tick)

-----------------------------------------------------------------------------
(* Properties. *)

Hf == HfX100(loan.collateral, loan.debt, price)

LiqTypeOK ==
  /\ loan \in [collateral : Nat, debt : Nat, vusd : Nat, veth : Nat]
  /\ price \in Prices /\ age \in 0 .. Cooldown
  /\ latest \in Nat
  /\ \A t, u \in pool : t.nonce >= latest /\ (t.nonce = u.nonce => t = u)

\* The target is met after repaying n and depositing m.
Met(s, n, m) == (s.collateral + m) * s.price * LT >= TargetHf * 100 * (s.debt - n)

LeastOrAll(S, Enough(_)) ==
  IF \E n \in S : Enough(n) THEN Min({n \in S : Enough(n)}) ELSE Max(S)

\* A plan repays the least that meets the target ("repay just enough",
\* workflow/shared/decide.ts), or all it may, and then deposits the least that does,
\* or all it may; it is never above the caps and the reserves.
PlanIsExact ==
  \A r \in {q \in Runs : run[q] # NoRead} :
    LET s == run[r].read  p == run[r].plan
        mayRepay == 0 .. Min({s.debt, MaxRepay, s.vusd})
        mayDeposit == 0 .. Min({MaxDeposit, s.veth})
    IN /\ p.repay = LeastOrAll(mayRepay, LAMBDA n : Met(s, n, 0))
       /\ p.deposit = LeastOrAll(mayDeposit, LAMBDA m : Met(s, p.repay, m))

PlansAreSound == LiqTypeOK /\ PlanIsExact

\* However runs overlap, and whichever of their transactions the node refuses,
\* replaces or holds behind a gap: while the price is what a plan was made for, a
\* transaction is mined only on a position below the target.
NothingWasted ==
  [][\A t \in pool : latest' = latest + 1 /\ t.nonce = latest /\ t.fresh => Hf < TargetHf]_liqVars

\* Once the price and the node have settled, the position ends above the trigger,
\* whatever was refused, replaced or planned on an older price before; or the vUSD
\* has run out, without which the probe ends every run, though vETH is left to
\* deposit; or the price is zero, on which a plan throws.
DefendedInTheEnd == <>[](Hf > TriggerHf \/ loan.vusd = 0 \/ price = 0)
=============================================================================

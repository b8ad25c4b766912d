--------------------------- MODULE CollateralVault ---------------------------
(***************************************************************************)
(* The vault: one HBAR balance behind all bonds.  The issuer deposits and  *)
(* withdraws against a live feed, the gate seizes everything on default,   *)
(* the holders of that moment claim their parts whenever they like; they   *)
(* trade and redeem all the time, the price moves and goes stale, the      *)
(* admin moves the minimum.                                                *)
(*                                                                         *)
(* The token's snapshot is an eager copy of the balances: theorem          *)
(* ATSBondProofs!LazyIsEager.  Calls the vault makes may only revert (a    *)
(* paused token, a receiver that takes no HBAR), which is no step.         *)
(***************************************************************************)
EXTENDS Integers, FiniteSets, Sums

CONSTANTS
  Bonds, Holders,
  Minted,       \* tokens each holder starts with, in every bond
  Face,         \* face value of BondUnit tokens, in settlement units
  BondUnit,     \* 10^bondDecimals
  FeedUnit,     \* tinybar x price in one settlement unit
  Prices,       \* answers of the feed; 0 stands for one that is stale or bad
  Minimums,     \* values the admin gives minCoverageBps
  Amounts,      \* what the issuer deposits and withdraws
  NotSeized,
  MaxHbar       \* bound on the vault's balance

ASSUME VaultAssumption ==
  /\ IsFiniteSet(Bonds) /\ Bonds # {} /\ IsFiniteSet(Holders)
  /\ Minted \in [Holders -> Nat]
  /\ Face \in Nat /\ BondUnit \in Nat \ {0} /\ FeedUnit \in Nat \ {0}
  /\ Prices \subseteq Nat /\ Minimums \subseteq Nat /\ Amounts \subseteq Nat \ {0}
  /\ MaxHbar \in Nat

VARIABLES
  status,           \* BondRegistry
  mature,           \* the maturity date has passed, for all bonds
  balance,          \* ATS tokens, per bond and holder
  price,            \* what oracle.hbarUsd would read
  minCoverageBps,
  collateral,
  seizures,         \* NotSeized, or amount and token snapshot
  claimed,          \* holders paid out, per bond
  hbar              \* HBAR the contract holds

tokenVars  == <<balance, mature>>
marketVars == <<price, minCoverageBps>>
vaultVars  == <<collateral, seizures, claimed, hbar>>
vars       == <<status, tokenVars, marketVars, vaultVars>>

Status  == {"Active", "Frozen", "Matured", "Defaulted"}
Seizure == [amount : Nat, shares : [Holders -> Nat], supply : Nat]

ASSUME NotSeizedAssumption == NotSeized \notin Seizure

Supply(b) == SumOver(balance[b], Holders)

Init ==
  /\ status = [b \in Bonds |-> "Active"] /\ mature = FALSE
  /\ balance = [b \in Bonds |-> Minted]
  /\ price \in Prices /\ minCoverageBps \in Minimums
  /\ collateral = [b \in Bonds |-> 0] /\ hbar = 0
  /\ seizures = [b \in Bonds |-> NotSeized]
  /\ claimed = [b \in Bonds |-> {}]

-----------------------------------------------------------------------------
(* Coverage. *)

CollateralUsd(held) == (held * price) \div FeedUnit
PrincipalUsd(b) == (Supply(b) * Face) \div BondUnit

\* coverageBps(b) >= minCoverageBps when b holds held; max when nothing is
\* outstanding.  A stale feed reverts either way.
Covered(b, held) ==
  /\ price > 0
  /\ \/ PrincipalUsd(b) = 0
     \/ PrincipalUsd(b) > 0
        /\ (CollateralUsd(held) * 10000) \div PrincipalUsd(b) >= minCoverageBps

-----------------------------------------------------------------------------
(* The issuer. *)

DepositableAlways(s) == TRUE   \* slip: HBAR deposited after a default
Depositable(s) == s \in {"Active", "Frozen"}

Deposit(b, n) ==
  /\ Depositable(status[b])
  /\ hbar + n <= MaxHbar
  /\ collateral' = [collateral EXCEPT ![b] = @ + n]
  /\ hbar' = hbar + n
  /\ UNCHANGED <<status, tokenVars, marketVars, seizures, claimed>>

ReleasableActive(s) == s = "Active"   \* slip: nothing is released after maturity
Releasable(s) == s \in {"Active", "Matured"}

KeptBefore(b, n) == collateral[b]   \* slip: coverage read before the subtraction
Kept(b, n) == collateral[b] - n

CanWithdraw(b, n) ==
  /\ Releasable(status[b])
  /\ seizures[b] = NotSeized
  /\ n <= collateral[b]
  /\ Covered(b, Kept(b, n))
  /\ hbar >= n

Withdraw(b, n) ==
  /\ CanWithdraw(b, n)
  /\ collateral' = [collateral EXCEPT ![b] = @ - n]
  /\ hbar' = hbar - n
  /\ UNCHANGED <<status, tokenVars, marketVars, seizures, claimed>>

-----------------------------------------------------------------------------
(* Default. *)

\* RiskGate.submit of a DEFAULT: status, snapshot, lock.
Seize(b) ==
  /\ status[b] \in {"Active", "Frozen"} /\ seizures[b] = NotSeized
  /\ status' = [status EXCEPT ![b] = "Defaulted"]
  /\ seizures' = [seizures EXCEPT ![b] =
       [amount |-> collateral[b], shares |-> balance[b], supply |-> Supply(b)]]
  /\ collateral' = [collateral EXCEPT ![b] = 0]
  /\ UNCHANGED <<tokenVars, marketVars, claimed, hbar>>

ShareUp(z, h) ==   \* slip: rounded up
  IF z.supply = 0 THEN 0 ELSE (z.amount * z.shares[h] + z.supply - 1) \div z.supply
Share(z, h) == IF z.supply = 0 THEN 0 ELSE (z.amount * z.shares[h]) \div z.supply
Shares(z) == [h \in Holders |-> Share(z, h)]

ClaimSeized(b, h) ==
  /\ seizures[b] # NotSeized /\ h \notin claimed[b]
  /\ LET share == Share(seizures[b], h) IN
       /\ share > 0
       /\ hbar >= share
       /\ hbar' = hbar - share
  /\ claimed' = [claimed EXCEPT ![b] = @ \cup {h}]
  /\ UNCHANGED <<status, tokenVars, marketVars, collateral, seizures>>

-----------------------------------------------------------------------------
(* Everybody else. *)

SetMinCoverage ==
  /\ minCoverageBps' \in Minimums
  /\ UNCHANGED <<status, tokenVars, price, vaultVars>>

FeedMoves ==
  /\ price' \in Prices
  /\ UNCHANGED <<status, tokenVars, minCoverageBps, vaultVars>>

\* A FREEZE verdict and the admin's unfreeze.
Gate(b, from, to) ==
  /\ status[b] = from
  /\ status' = [status EXCEPT ![b] = to]
  /\ UNCHANGED <<tokenVars, marketVars, vaultVars>>

HoldsAnyway(b, h) == Supply(b) > 0   \* slip
Holds(b, h) == balance[b][h] > 0

Transfer(b, from, to) ==
  /\ from # to /\ Holds(b, from)
  /\ balance' = [balance EXCEPT ![b][from] = @ - 1, ![b][to] = @ + 1]
  /\ UNCHANGED <<status, mature, marketVars, vaultVars>>

\* BondLifecycle.redeem: burns the holder's tokens, and the first one matures
\* the bond.
Redeem(b, h) ==
  /\ mature /\ status[b] # "Defaulted" /\ balance[b][h] > 0
  /\ balance' = [balance EXCEPT ![b][h] = 0]
  /\ status' = [status EXCEPT ![b] = "Matured"]
  /\ UNCHANGED <<mature, marketVars, vaultVars>>

Mature ==
  /\ ~mature /\ mature' = TRUE
  /\ UNCHANGED <<status, balance, marketVars, vaultVars>>

Next ==
  \/ \E b \in Bonds, n \in Amounts : Deposit(b, n) \/ Withdraw(b, n)
  \/ \E b \in Bonds : Seize(b)
  \/ \E b \in Bonds, h \in Holders : ClaimSeized(b, h) \/ Redeem(b, h)
  \/ \E b \in Bonds : Gate(b, "Active", "Frozen") \/ Gate(b, "Frozen", "Active")
  \/ \E b \in Bonds : \E from, to \in Holders : Transfer(b, from, to)
  \/ SetMinCoverage \/ FeedMoves \/ Mature

Spec == Init /\ [][Next]_vars

-----------------------------------------------------------------------------
(* Properties. *)

\* Every variable keeps its type: no balance below zero.
TypeOK ==
  /\ status \in [Bonds -> Status] /\ mature \in BOOLEAN
  /\ balance \in [Bonds -> [Holders -> Nat]]
  /\ price \in Prices /\ minCoverageBps \in Minimums
  /\ collateral \in [Bonds -> Nat] /\ hbar \in Nat
  /\ seizures \in [Bonds -> Seizure \cup {NotSeized}]
  /\ claimed \in [Bonds -> SUBSET Holders]

\* What the vault still owes on b: its collateral, and the parts of the holders
\* who have not claimed.
Owed(b) ==
  collateral[b] +
  IF seizures[b] = NotSeized THEN 0
  ELSE SumOver(Shares(seizures[b]), Holders \ claimed[b])

\* One balance pays everybody: whatever was withdrawn, seized and claimed, in
\* any order and for any bond, the HBAR there covers the collateral of all bonds
\* and every claim that may still come; what is left over is the dust of the
\* floored shares, less than one tinybar a holder.
EverybodyIsPaid ==
  LET owed == SumOver([b \in Bonds |-> Owed(b)], Bonds)
      seized == {b \in Bonds : seizures[b] # NotSeized /\ seizures[b].supply > 0}
  IN  /\ hbar >= owed
      /\ seized = Bonds => hbar - owed < Cardinality(Bonds) * Cardinality(Holders)

\* A seizure is final: its amount and its holders stay, and no HBAR joins or
\* leaves the bond's collateral afterwards, where nobody could reach it.
SeizureIsFinal ==
  [][\A b \in Bonds : seizures[b] # NotSeized =>
       seizures'[b] = seizures[b] /\ collateral[b] = 0 /\ collateral'[b] = 0]_vars

\* A withdrawal leaves the minimum coverage in force, at the price of that
\* moment, of all principal but less than one settlement unit (both values are
\* floored).
WithdrawalsKeepCoverage ==
  [][\A b \in Bonds :
       collateral'[b] < collateral[b] /\ seizures'[b] = seizures[b] =>
         /\ price > 0
         /\ collateral'[b] * price * BondUnit * 10000
              >= minCoverageBps * (Supply(b) * Face - BondUnit) * FeedUnit]_vars

\* When every token has been redeemed the issuer can have the rest back, frozen
\* or not on the way, as soon as the feed is fresh.
IssuerGetsItBack ==
  \A b \in Bonds :
    mature /\ status[b] # "Defaulted" /\ Supply(b) = 0 /\ collateral[b] > 0 /\ price > 0
      => CanWithdraw(b, collateral[b])

\* The vault is sound: nothing below zero, and it can pay whatever it owes.
VaultIsSound == TypeOK /\ EverybodyIsPaid
=============================================================================

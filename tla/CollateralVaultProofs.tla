------------------------ MODULE CollateralVaultProofs ------------------------
(***************************************************************************)
(* The vault for any bonds, holders, prices and amounts: a seizure is      *)
(* final, the one HBAR balance pays whatever the vault owes, a withdrawal  *)
(* keeps the minimum coverage, the issuer of a redeemed bond gets the rest *)
(* back.                                                                   *)
(*                                                                         *)
(* What ties a seizure to the status keeps HBAR from joining a seized bond:*)
(* Defaulted takes no deposit and has no way out.  What ties the HBAR to   *)
(* the debts is an exact account: each bond's part of it is what is owed on*)
(* it and the dust of its floored shares.  From these comes what the       *)
(* Collateral page says, up to its roundings.                              *)
(***************************************************************************)
EXTENDS CollateralView, SumTheorems, TLAPS

Typed ==
  /\ status \in [Bonds -> Status]
  /\ collateral \in [Bonds -> Int]
  /\ DOMAIN seizures = Bonds

LockedInv ==
  \A b \in Bonds : seizures[b] # NotSeized => status[b] = "Defaulted" /\ collateral[b] = 0

\* What a seized bond keeps in one step.
Final == \A b \in Bonds : seizures[b] # NotSeized =>
           seizures'[b] = seizures[b] /\ collateral[b] = 0 /\ collateral'[b] = 0

LEMMA InitLocked == Init => Typed /\ LockedInv
BY DEF Init, Typed, LockedInv, Status

LEMMA DepositLocked ==
  ASSUME Typed, LockedInv, NEW b \in Bonds, NEW n \in Amounts, Deposit(b, n)
  PROVE  Typed' /\ LockedInv' /\ Final
<1>1. n \in Int /\ seizures[b] = NotSeized
  BY VaultAssumption DEF Deposit, Depositable, LockedInv
<1> QED
  BY <1>1 DEF Deposit, Typed, LockedInv, Final

LEMMA WithdrawLocked ==
  ASSUME Typed, LockedInv, NEW b \in Bonds, NEW n \in Amounts, Withdraw(b, n)
  PROVE  Typed' /\ LockedInv' /\ Final
<1>1. n \in Int /\ seizures[b] = NotSeized
  BY VaultAssumption DEF Withdraw, CanWithdraw
<1> QED
  BY <1>1 DEF Withdraw, Typed, LockedInv, Final

LEMMA SeizeLocked ==
  ASSUME Typed, LockedInv, NEW b \in Bonds, Seize(b)
  PROVE  Typed' /\ LockedInv' /\ Final
BY DEF Seize, Typed, LockedInv, Final, Status

LEMMA StatusLocked ==
  ASSUME Typed, LockedInv, NEW b \in Bonds,
         status' = [status EXCEPT ![b] = status'[b]], status'[b] \in Status,
         status[b] # "Defaulted", UNCHANGED <<collateral, seizures>>
  PROVE  Typed' /\ LockedInv' /\ Final
BY DEF Typed, LockedInv, Final

LEMMA QuietLocked ==
  ASSUME Typed, LockedInv, UNCHANGED <<status, collateral, seizures>>
  PROVE  Typed' /\ LockedInv' /\ Final
BY DEF Typed, LockedInv, Final

LEMMA NextLocked ==
  ASSUME Typed, LockedInv, [Next]_vars
  PROVE  Typed' /\ LockedInv' /\ Final
<1>1. ASSUME NEW b \in Bonds, NEW n \in Amounts, Deposit(b, n) \/ Withdraw(b, n)
      PROVE  Typed' /\ LockedInv' /\ Final
  BY <1>1, DepositLocked, WithdrawLocked
<1>2. ASSUME NEW b \in Bonds, Seize(b)
      PROVE  Typed' /\ LockedInv' /\ Final
  BY <1>2, SeizeLocked
<1>3. ASSUME NEW b \in Bonds, NEW h \in Holders, ClaimSeized(b, h)
      PROVE  Typed' /\ LockedInv' /\ Final
  BY <1>3, QuietLocked DEF ClaimSeized
<1>4. ASSUME NEW b \in Bonds, NEW h \in Holders, Redeem(b, h)
      PROVE  Typed' /\ LockedInv' /\ Final
  <2>1. status[b] # "Defaulted" /\ status' = [status EXCEPT ![b] = "Matured"]
        /\ UNCHANGED <<collateral, seizures>>
    BY <1>4 DEF Redeem, vaultVars
  <2>2. status'[b] = "Matured"
    BY <2>1 DEF Typed
  <2> QED
    BY <2>1, <2>2, StatusLocked DEF Status
<1>5. ASSUME NEW b \in Bonds, Gate(b, "Active", "Frozen") \/ Gate(b, "Frozen", "Active")
      PROVE  Typed' /\ LockedInv' /\ Final
  <2>1. PICK s \in {"Active", "Frozen"} :
          status[b] # "Defaulted" /\ status' = [status EXCEPT ![b] = s]
          /\ UNCHANGED <<collateral, seizures>>
    BY <1>5 DEF Gate, vaultVars
  <2>2. status'[b] = s
    BY <2>1 DEF Typed
  <2> QED
    BY <2>1, <2>2, StatusLocked DEF Status
<1>6. ASSUME NEW b \in Bonds, NEW from \in Holders, NEW to \in Holders, Transfer(b, from, to)
      PROVE  Typed' /\ LockedInv' /\ Final
  BY <1>6, QuietLocked DEF Transfer, vaultVars
<1>7. CASE SetMinCoverage \/ FeedMoves \/ Mature \/ UNCHANGED vars
  BY <1>7, QuietLocked DEF SetMinCoverage, FeedMoves, Mature, vars, vaultVars
<1> QED
  BY <1>1, <1>2, <1>3, <1>4, <1>5, <1>6, <1>7 DEF Next

\* Once seized, a bond's amount and snapshot stay as they are and its collateral
\* stays at zero: nothing is deposited where nobody could ever take it out.
THEOREM SeizedForGood == Spec => SeizureIsFinal
<1>1. Spec => [](Typed /\ LockedInv)
  BY InitLocked, NextLocked, PTL DEF Spec
<1>2. ASSUME Typed, LockedInv, [Next]_vars
      PROVE  [Final]_vars
  BY <1>2, NextLocked
<1> QED
  BY <1>1, <1>2, PTL DEF Spec, SeizureIsFinal, Final

-----------------------------------------------------------------------------
(* The shares of a seizure. *)

LEMMA ShareNat ==
  ASSUME NEW z \in Seizure, NEW h \in Holders
  PROVE  Share(z, h) \in Nat /\ Shares(z)[h] = Share(z, h)
<1>1. z.amount * z.shares[h] \in Nat /\ z.supply \in Nat
  BY DEF Seizure
<1>2. CASE z.supply = 0
  BY <1>2 DEF Share, Shares
<1>3. CASE z.supply # 0
  BY <1>1, <1>3, Floors DEF Share, Shares
<1> QED
  BY <1>2, <1>3

\* The shares never exceed what was seized, and miss it by less than one tinybar
\* a holder.
LEMMA SharesFit ==
  ASSUME NEW z \in Seizure, z.supply = SumOver(z.shares, Holders)
  PROVE  LET t == SumOver(Shares(z), Holders) IN
           /\ t \in Nat /\ t <= z.amount
           /\ z.supply > 0 => z.amount - t <= Cardinality(Holders) - 1
<1>1. IsFiniteSet(Holders) /\ z.amount \in Nat /\ z.supply \in Nat
      /\ \A h \in Holders : z.shares[h] \in Nat
  BY VaultAssumption DEF Seizure
<1>2. CASE z.supply = 0
  <2>1. \A h \in Holders : Shares(z)[h] = 0
    BY <1>2 DEF Shares, Share
  <2> QED
    BY <1>1, <1>2, <2>1, SumZero
<1>3. CASE z.supply # 0
  <2>1. \A h \in Holders :
          Shares(z)[h] = (z.amount * z.shares[h]) \div SumOver(z.shares, Holders)
    BY <1>3 DEF Shares, Share
  <2> QED
    BY <1>1, <1>3, <2>1, FlooredParts
<1> QED
  BY <1>2, <1>3

-----------------------------------------------------------------------------
(* One HBAR balance: what each bond accounts for in it. *)

Dust(b) == IF seizures[b] = NotSeized THEN 0
           ELSE seizures[b].amount - SumOver(Shares(seizures[b]), Holders)
Part == [b \in Bonds |-> Owed(b) + Dust(b)]

SeizedInv ==
  \A b \in Bonds : IF seizures[b] = NotSeized THEN claimed[b] = {}
                   ELSE seizures[b].supply = SumOver(seizures[b].shares, Holders)
HbarInv == hbar = SumOver(Part, Bonds)

VaultInv == Typed /\ LockedInv /\ TypeOK /\ SeizedInv /\ HbarInv

LEMMA SupplyNat ==
  ASSUME TypeOK, NEW b \in Bonds
  PROVE  Supply(b) \in Nat
<1>1. IsFiniteSet(Holders) /\ \A h \in Holders : balance[b][h] \in Nat
  BY VaultAssumption DEF TypeOK
<1> QED
  BY <1>1, SumNat DEF Supply

\* What is owed on a bond and its dust, one by one: 0 <= dust < holders.
LEMMA PartOf ==
  ASSUME TypeOK, SeizedInv, NEW b \in Bonds
  PROVE  /\ Owed(b) \in Nat /\ Dust(b) \in Nat /\ Part[b] = Owed(b) + Dust(b)
         /\ seizures[b] # NotSeized /\ seizures[b].supply > 0 =>
              Dust(b) <= Cardinality(Holders) - 1
<1>1. collateral[b] \in Nat /\ claimed[b] \subseteq Holders
  BY DEF TypeOK
<1>2. Part[b] = Owed(b) + Dust(b)
  BY DEF Part
<1>3. CASE seizures[b] = NotSeized
  BY <1>1, <1>2, <1>3 DEF Owed, Dust
<1>4. CASE seizures[b] # NotSeized
  <2>1. PICK z \in Seizure : z = seizures[b]
    BY <1>4 DEF TypeOK
  <2>2. z.supply = SumOver(z.shares, Holders) /\ z.amount \in Nat
    BY <1>4, <2>1 DEF SeizedInv, Seizure
  <2>3. /\ SumOver(Shares(z), Holders) \in Nat /\ SumOver(Shares(z), Holders) <= z.amount
        /\ z.supply > 0 => z.amount - SumOver(Shares(z), Holders) <= Cardinality(Holders) - 1
    BY <2>2, SharesFit
  <2>4. SumOver(Shares(z), Holders \ claimed[b]) \in Nat
    <3>1. IsFiniteSet(Holders \ claimed[b])
      BY VaultAssumption, FS_Subset
    <3>2. \A h \in Holders \ claimed[b] : Shares(z)[h] \in Nat
      BY ShareNat
    <3> QED
      BY <3>1, <3>2, SumNat
  <2>5. Owed(b) = collateral[b] + SumOver(Shares(z), Holders \ claimed[b])
        /\ Dust(b) = z.amount - SumOver(Shares(z), Holders)
    BY <1>4, <2>1 DEF Owed, Dust
  <2> QED
    BY <1>1, <1>2, <2>1, <2>2, <2>3, <2>4, <2>5
<1> QED
  BY <1>3, <1>4

\* HBAR that comes or goes for one bond keeps the account exact.
LEMMA OneBondMoves ==
  ASSUME TypeOK, SeizedInv, HbarInv, TypeOK', SeizedInv', NEW b \in Bonds, NEW d \in Int,
         (Owed(b) + Dust(b))' = Owed(b) + Dust(b) + d, hbar' = hbar + d,
         \A c \in Bonds \ {b} : /\ collateral'[c] = collateral[c]
                                /\ seizures'[c] = seizures[c] /\ claimed'[c] = claimed[c]
  PROVE  HbarInv'
<1>1. \A c \in Bonds : Part[c] = Owed(c) + Dust(c) /\ Part[c] \in Int
  BY PartOf
<1>2. \A c \in Bonds : Part'[c] = (Owed(c) + Dust(c))'
  BY DEF Part
<1>3. \A c \in Bonds \ {b} : Part'[c] = Part[c]
  BY <1>1, <1>2 DEF Owed, Dust
<1>4. Part'[b] = Part[b] + d /\ Part'[b] \in Int
  BY <1>1, <1>2
<1>5. PICK new : new = Part'
  OBVIOUS
<1>6. SumOver(new, Bonds) = SumOver(Part, Bonds) - Part[b] + new[b]
  <2>1. /\ IsFiniteSet(Bonds) /\ new[b] \in Int
        /\ \A c \in Bonds : Part[c] \in Int
        /\ \A c \in Bonds \ {b} : new[c] = Part[c]
    BY <1>1, <1>3, <1>4, <1>5, VaultAssumption
  <2> QED
    BY <2>1, SumChange
<1>7. SumOver(Part, Bonds) \in Int
  BY <1>1, VaultAssumption, SumInt
<1>8. SumOver(new, Bonds) = hbar + d
  BY <1>1, <1>4, <1>5, <1>6, <1>7 DEF HbarInv
<1>9. SumOver(Part', Bonds) = hbar'
  BY <1>5, <1>8
<1> QED
  BY <1>9 DEF HbarInv

-----------------------------------------------------------------------------
(* Every step keeps the account. *)

LEMMA QuietSound ==
  ASSUME SeizedInv, HbarInv, UNCHANGED vaultVars
  PROVE  SeizedInv' /\ HbarInv'
<1>1. seizures' = seizures /\ collateral' = collateral /\ claimed' = claimed /\ hbar' = hbar
  BY DEF vaultVars
<1>2. Part' = Part
  BY <1>1 DEF Part, Owed, Dust
<1> QED
  BY <1>1, <1>2 DEF SeizedInv, HbarInv

LEMMA DepositSound ==
  ASSUME VaultInv, NEW b \in Bonds, NEW n \in Amounts, Deposit(b, n)
  PROVE  TypeOK' /\ SeizedInv' /\ HbarInv'
<1>1. n \in Nat
  BY VaultAssumption
<1>2. TypeOK'
  BY <1>1 DEF VaultInv, TypeOK, Deposit, tokenVars, marketVars
<1>3. SeizedInv'
  BY DEF VaultInv, SeizedInv, Deposit
<1>4. HbarInv'
  <2>1. Owed(b) \in Int /\ Dust(b) \in Int
    BY PartOf DEF VaultInv
  <2>2. (Owed(b) + Dust(b))' = Owed(b) + Dust(b) + n
    <3>1. collateral'[b] = collateral[b] + n /\ seizures' = seizures /\ claimed' = claimed
      BY DEF VaultInv, TypeOK, Deposit
    <3>2. Owed(b)' = Owed(b) + n /\ Dust(b)' = Dust(b)
      <4>1. seizures[b] = NotSeized
        BY DEF VaultInv, LockedInv, Deposit, Depositable
      <4>2. collateral[b] \in Nat
        BY DEF VaultInv, TypeOK
      <4> QED
        BY <1>1, <3>1, <4>1, <4>2 DEF Owed, Dust
    <3> QED
      BY <1>1, <2>1, <3>2
  <2> QED
    BY <1>1, <1>2, <1>3, <2>2, OneBondMoves DEF VaultInv, TypeOK, Deposit
<1> QED
  BY <1>2, <1>3, <1>4

LEMMA WithdrawSound ==
  ASSUME VaultInv, NEW b \in Bonds, NEW n \in Amounts, Withdraw(b, n)
  PROVE  TypeOK' /\ SeizedInv' /\ HbarInv'
<1>1. n \in Nat /\ 0 - n \in Int
  BY VaultAssumption
<1>2. TypeOK'
  BY <1>1 DEF VaultInv, TypeOK, Withdraw, CanWithdraw, tokenVars, marketVars
<1>3. SeizedInv'
  BY DEF VaultInv, SeizedInv, Withdraw
<1>4. HbarInv'
  <2>1. Owed(b) \in Int /\ Dust(b) \in Int
    BY PartOf DEF VaultInv
  <2>2. (Owed(b) + Dust(b))' = Owed(b) + Dust(b) + (0 - n)
    <3>1. collateral'[b] = collateral[b] - n /\ seizures' = seizures /\ claimed' = claimed
      BY DEF VaultInv, TypeOK, Withdraw
    <3>2. Owed(b)' = Owed(b) - n /\ Dust(b)' = Dust(b)
      <4>1. seizures[b] = NotSeized
        BY DEF Withdraw, CanWithdraw
      <4>2. collateral[b] \in Nat
        BY DEF VaultInv, TypeOK
      <4> QED
        BY <1>1, <3>1, <4>1, <4>2 DEF Owed, Dust
    <3> QED
      BY <1>1, <2>1, <3>2
  <2>3. hbar' = hbar + (0 - n)
    BY <1>1 DEF VaultInv, TypeOK, Withdraw
  <2> QED
    BY <1>1, <1>2, <1>3, <2>2, <2>3, OneBondMoves DEF VaultInv, TypeOK, Withdraw
<1> QED
  BY <1>2, <1>3, <1>4

\* A default moves the collateral from the issuer to the holders of that moment.
LEMMA SeizeSound ==
  ASSUME VaultInv, NEW b \in Bonds, Seize(b)
  PROVE  TypeOK' /\ SeizedInv' /\ HbarInv'
<1> DEFINE z == [amount |-> collateral[b], shares |-> balance[b], supply |-> Supply(b)]
<1>1. z \in Seizure /\ z # NotSeized
  <2>1. Supply(b) \in Nat /\ collateral[b] \in Nat /\ balance[b] \in [Holders -> Nat]
    BY SupplyNat DEF VaultInv, TypeOK
  <2> QED
    BY <2>1, NotSeizedAssumption DEF Seizure
<1>2. /\ seizures[b] = NotSeized /\ seizures' = [seizures EXCEPT ![b] = z]
      /\ collateral' = [collateral EXCEPT ![b] = 0]
      /\ claimed' = claimed /\ hbar' = hbar
  BY DEF Seize
<1>3. z.supply = SumOver(z.shares, Holders) /\ z.amount = collateral[b]
  BY DEF Supply
<1> HIDE DEF z
<1>4. seizures'[b] = z /\ collateral'[b] = 0
  BY <1>2 DEF VaultInv, TypeOK
<1>5. TypeOK'
  <2>1. /\ status' \in [Bonds -> Status] /\ UNCHANGED <<tokenVars, marketVars, claimed, hbar>>
    BY DEF VaultInv, TypeOK, Seize, Status
  <2>2. seizures' \in [Bonds -> Seizure \cup {NotSeized}] /\ collateral' \in [Bonds -> Nat]
    BY <1>1, <1>2 DEF VaultInv, TypeOK
  <2> QED
    BY <2>1, <2>2 DEF VaultInv, TypeOK, tokenVars, marketVars
<1>6. SeizedInv'
  <2>1. \A c \in Bonds \ {b} : seizures'[c] = seizures[c]
    BY <1>2 DEF VaultInv, TypeOK
  <2> QED
    BY <1>1, <1>2, <1>3, <1>4, <2>1 DEF VaultInv, SeizedInv
<1>7. HbarInv'
  <2>1. SumOver(Shares(z), Holders) \in Nat
    BY <1>1, <1>3, SharesFit
  <2>2. claimed[b] = {} /\ Holders \ {} = Holders
    BY <1>2 DEF VaultInv, SeizedInv
  <2>3. Owed(b)' = 0 + SumOver(Shares(z), Holders) /\ Dust(b)' = z.amount - SumOver(Shares(z), Holders)
    BY <1>1, <1>2, <1>4, <2>2 DEF Owed, Dust
  <2>4. Owed(b) = collateral[b] /\ Dust(b) = 0 /\ collateral[b] \in Nat
    BY <1>2 DEF Owed, Dust, VaultInv, TypeOK
  <2>5. (Owed(b) + Dust(b))' = Owed(b) + Dust(b) + 0
    BY <1>3, <2>1, <2>3, <2>4
  <2>6. hbar' = hbar + 0 /\ 0 \in Int
    BY <1>2 DEF VaultInv, TypeOK
  <2> QED
    BY <1>2, <1>5, <1>6, <2>5, <2>6, OneBondMoves DEF VaultInv, TypeOK
<1> QED
  BY <1>5, <1>6, <1>7

\* A claim takes the holder's share out of what is owed, and out of the HBAR.
LEMMA ClaimSound ==
  ASSUME VaultInv, NEW b \in Bonds, NEW h \in Holders, ClaimSeized(b, h)
  PROVE  TypeOK' /\ SeizedInv' /\ HbarInv'
<1>1. PICK z \in Seizure : z = seizures[b] /\ z # NotSeized
  BY DEF VaultInv, TypeOK, ClaimSeized
<1>2. /\ Share(z, h) \in Nat /\ Shares(z)[h] = Share(z, h)
      /\ \A k \in Holders : Shares(z)[k] \in Int
  BY ShareNat
<1>3. /\ h \notin claimed[b] /\ claimed' = [claimed EXCEPT ![b] = @ \cup {h}]
      /\ hbar >= Share(z, h) /\ hbar' = hbar - Share(z, h)
      /\ UNCHANGED <<status, tokenVars, marketVars, collateral, seizures>>
  BY <1>1 DEF ClaimSeized
<1>4. TypeOK'
  BY <1>2, <1>3 DEF VaultInv, TypeOK, tokenVars, marketVars
<1>5. SeizedInv'
  BY <1>1, <1>3 DEF VaultInv, TypeOK, SeizedInv
<1>6. HbarInv'
  <2>1. claimed'[b] = claimed[b] \cup {h} /\ claimed[b] \subseteq Holders
    BY <1>3 DEF VaultInv, TypeOK
  <2> DEFINE left == Holders \ claimed[b]
  <2>2. IsFiniteSet(left) /\ h \in left /\ Holders \ claimed'[b] = left \ {h}
    BY <1>3, <2>1, VaultAssumption, FS_Subset
  <2>3. \A k \in left : Shares(z)[k] \in Int
    BY <1>2
  <2> HIDE DEF left
  <2>4. SumOver(Shares(z), left) = Share(z, h) + SumOver(Shares(z), left \ {h})
    BY <1>2, <2>2, <2>3, SumWithout
  <2>5. SumOver(Shares(z), left \ {h}) \in Int
    <3>1. IsFiniteSet(left \ {h}) /\ \A k \in left \ {h} : Shares(z)[k] \in Int
      BY <2>2, <2>3, FS_Subset
    <3> QED
      BY <3>1, SumInt
  <2>6. Owed(b) = collateral[b] + SumOver(Shares(z), left)
        /\ Owed(b)' = collateral[b] + SumOver(Shares(z), left \ {h})
        /\ Dust(b)' = Dust(b)
    BY <1>1, <1>3, <2>2 DEF Owed, Dust, left
  <2>7. collateral[b] \in Nat /\ Dust(b) \in Int
    BY PartOf DEF VaultInv, TypeOK
  <2>8. (Owed(b) + Dust(b))' = Owed(b) + Dust(b) + (0 - Share(z, h))
    BY <1>2, <2>4, <2>5, <2>6, <2>7
  <2>9. hbar' = hbar + (0 - Share(z, h)) /\ 0 - Share(z, h) \in Int
    BY <1>2, <1>3 DEF VaultInv, TypeOK
  <2>10. \A c \in Bonds \ {b} : /\ collateral'[c] = collateral[c]
                                /\ seizures'[c] = seizures[c] /\ claimed'[c] = claimed[c]
    BY <1>3 DEF VaultInv, TypeOK
  <2> QED
    BY <1>4, <1>5, <2>8, <2>9, <2>10, OneBondMoves DEF VaultInv
<1> QED
  BY <1>4, <1>5, <1>6

LEMMA TokenSound ==
  ASSUME VaultInv, NEW b \in Bonds,
         \/ \E h \in Holders : Redeem(b, h)
         \/ \E from, to \in Holders : Transfer(b, from, to)
         \/ Gate(b, "Active", "Frozen") \/ Gate(b, "Frozen", "Active")
  PROVE  TypeOK' /\ SeizedInv' /\ HbarInv'
<1>1. UNCHANGED <<mature, marketVars, vaultVars>>
  BY DEF Redeem, Transfer, Gate, tokenVars
<1>2. SeizedInv' /\ HbarInv'
  BY <1>1, QuietSound DEF VaultInv
<1>3. status' \in [Bonds -> Status]
  BY DEF VaultInv, TypeOK, Status, Redeem, Transfer, Gate
<1>4. balance' \in [Bonds -> [Holders -> Nat]]
  <2>1. CASE \E h \in Holders : Redeem(b, h)
    BY <2>1 DEF VaultInv, TypeOK, Redeem
  <2>2. CASE \E from, to \in Holders : Transfer(b, from, to)
    <3>1. PICK from \in Holders, to \in Holders : Transfer(b, from, to)
      BY <2>2
    <3>2. from # to /\ balance[b][from] > 0 /\ balance[b] \in [Holders -> Nat]
          /\ balance' = [balance EXCEPT ![b][from] = @ - 1, ![b][to] = @ + 1]
      BY <3>1 DEF VaultInv, TypeOK, Transfer, Holds
    <3>3. balance[b][from] - 1 \in Nat /\ balance[b][to] + 1 \in Nat
      BY <3>2
    <3>4. [balance[b] EXCEPT ![from] = @ - 1, ![to] = @ + 1] \in [Holders -> Nat]
      BY <3>2, <3>3
    <3>5. balance' = [balance EXCEPT ![b] = [balance[b] EXCEPT ![from] = @ - 1, ![to] = @ + 1]]
      BY <3>2 DEF VaultInv, TypeOK
    <3> QED
      BY <3>4, <3>5 DEF VaultInv, TypeOK
  <2>3. CASE Gate(b, "Active", "Frozen") \/ Gate(b, "Frozen", "Active")
    BY <2>3 DEF VaultInv, TypeOK, Gate, tokenVars
  <2> QED
    BY <2>1, <2>2, <2>3
<1> QED
  BY <1>1, <1>2, <1>3, <1>4 DEF VaultInv, TypeOK, marketVars, vaultVars

LEMMA NextSound ==
  ASSUME VaultInv, [Next]_vars
  PROVE  VaultInv'
<1>1. Typed' /\ LockedInv'
  BY NextLocked DEF VaultInv
<1>2. TypeOK' /\ SeizedInv' /\ HbarInv'
  <2>1. ASSUME NEW b \in Bonds, NEW n \in Amounts, Deposit(b, n) \/ Withdraw(b, n)
        PROVE  TypeOK' /\ SeizedInv' /\ HbarInv'
    BY <2>1, DepositSound, WithdrawSound
  <2>2. ASSUME NEW b \in Bonds, Seize(b)
        PROVE  TypeOK' /\ SeizedInv' /\ HbarInv'
    BY <2>2, SeizeSound
  <2>3. ASSUME NEW b \in Bonds, NEW h \in Holders, ClaimSeized(b, h)
        PROVE  TypeOK' /\ SeizedInv' /\ HbarInv'
    BY <2>3, ClaimSound
  <2>4. ASSUME NEW b \in Bonds,
               \/ \E h \in Holders : Redeem(b, h)
               \/ \E from, to \in Holders : Transfer(b, from, to)
               \/ Gate(b, "Active", "Frozen") \/ Gate(b, "Frozen", "Active")
        PROVE  TypeOK' /\ SeizedInv' /\ HbarInv'
    BY <2>4, TokenSound
  <2>5. CASE SetMinCoverage \/ FeedMoves \/ Mature \/ UNCHANGED vars
    <3>1. UNCHANGED vaultVars /\ UNCHANGED <<status, balance>>
      BY <2>5 DEF SetMinCoverage, FeedMoves, Mature, vars, tokenVars
    <3>2. SeizedInv' /\ HbarInv'
      BY <3>1, QuietSound DEF VaultInv
    <3>3. price' \in Prices /\ minCoverageBps' \in Minimums /\ mature' \in BOOLEAN
      BY <2>5 DEF VaultInv, TypeOK, SetMinCoverage, FeedMoves, Mature, vars, tokenVars, marketVars
    <3> QED
      BY <3>1, <3>2, <3>3 DEF VaultInv, TypeOK, vaultVars
  <2> QED
    BY <2>1, <2>2, <2>3, <2>4, <2>5 DEF Next
<1> QED
  BY <1>1, <1>2 DEF VaultInv

LEMMA InitSound == Init => VaultInv
<1> SUFFICES ASSUME Init PROVE VaultInv
  OBVIOUS
<1>1. Typed /\ LockedInv
  BY InitLocked
<1>2. TypeOK
  BY VaultAssumption DEF Init, TypeOK, Status
<1>3. SeizedInv
  BY DEF Init, SeizedInv
<1>4. \A b \in Bonds : Part[b] = 0
  BY DEF Init, Part, Owed, Dust
<1>5. HbarInv
  BY <1>4, SumZero, VaultAssumption DEF Init, HbarInv
<1> QED
  BY <1>1, <1>2, <1>3, <1>5 DEF VaultInv

\* The exact account covers every debt, and what it holds besides is dust.
LEMMA AccountPays ==
  ASSUME VaultInv
  PROVE  EverybodyIsPaid
<1> DEFINE owed == [b \in Bonds |-> Owed(b)]
           n == Cardinality(Holders)
           seized == {b \in Bonds : seizures[b] # NotSeized /\ seizures[b].supply > 0}
<1>1. \A b \in Bonds : owed[b] = Owed(b) /\ owed[b] \in Int /\ Part[b] \in Int
                       /\ owed[b] <= Part[b]
  BY PartOf DEF VaultInv
<1>2. /\ IsFiniteSet(Bonds) /\ Cardinality(Bonds) \in Nat \ {0} /\ n \in Nat
      /\ 0 \in Int /\ 1 \in Int /\ n - 1 \in Int
  BY VaultAssumption, FS_CardinalityType, FS_EmptySet
<1>3. SumOver(owed, Bonds) \in Int /\ SumOver(Part, Bonds) \in Int
  BY <1>1, <1>2, SumInt
<1>4. SumOver(owed, Bonds) <= SumOver(Part, Bonds)
  <2>1. \A b \in Bonds : 1 * owed[b] <= 1 * Part[b] + 0 /\ owed[b] \in Int /\ Part[b] \in Int
    BY <1>1
  <2>2. 1 * SumOver(owed, Bonds) <= 1 * SumOver(Part, Bonds) + 0 * Cardinality(Bonds)
    BY <1>2, <2>1, SumCompare, Zenon
  <2> QED
    BY <1>2, <1>3, <2>2
<1>5. ASSUME seized = Bonds
      PROVE  SumOver(Part, Bonds) - SumOver(owed, Bonds) < Cardinality(Bonds) * n
  <2>1. \A b \in Bonds : /\ 1 * Part[b] <= 1 * owed[b] + (n - 1)
                         /\ owed[b] \in Int /\ Part[b] \in Int
    <3> TAKE b \in Bonds
    <3>1. Dust(b) <= n - 1 /\ Part[b] = Owed(b) + Dust(b) /\ Owed(b) \in Nat /\ Dust(b) \in Nat
      BY <1>5, PartOf DEF VaultInv
    <3>2. owed[b] = Owed(b)
      OBVIOUS
    <3> HIDE DEF n, owed
    <3> QED
      BY <1>2, <3>1, <3>2
  <2>2. 1 * SumOver(Part, Bonds) <= 1 * SumOver(owed, Bonds) + (n - 1) * Cardinality(Bonds)
    BY <1>2, <2>1, SumCompare, Zenon
  <2>3. (n - 1) * Cardinality(Bonds) = Cardinality(Bonds) * n - Cardinality(Bonds)
        /\ Cardinality(Bonds) * n \in Nat
    BY <1>2
  <2> HIDE DEF n, owed
  <2> QED
    BY <1>2, <1>3, <2>2, <2>3
<1>6. hbar = SumOver(Part, Bonds)
  BY DEF VaultInv, HbarInv
<1> HIDE DEF n
<1>7. hbar >= SumOver(owed, Bonds)
      /\ (seized = Bonds => hbar - SumOver(owed, Bonds) < Cardinality(Bonds) * n)
  BY <1>3, <1>4, <1>5, <1>6
<1> QED
  BY <1>7 DEF EverybodyIsPaid, n

\* The one balance covers the collateral of each bond that is not seized.
LEMMA HbarCovers ==
  ASSUME VaultInv, NEW b \in Bonds, seizures[b] = NotSeized
  PROVE  hbar >= collateral[b]
<1>1. \A c \in Bonds : Part[c] \in Nat
  BY PartOf DEF VaultInv
<1>2. SumOver(Part, Bonds) \in Nat /\ Part[b] <= SumOver(Part, Bonds)
  BY <1>1, SumNat, VaultAssumption
<1>3. Owed(b) = collateral[b] /\ collateral[b] \in Nat
  BY DEF Owed, VaultInv, TypeOK
<1>4. Owed(b) <= Part[b]
  BY <1>1, PartOf DEF VaultInv
<1> QED
  BY <1>1, <1>2, <1>3, <1>4 DEF VaultInv, HbarInv

LEMMA AlwaysSound == Spec => []VaultInv
BY InitSound, NextSound, PTL DEF Spec

\* Whatever is deposited, withdrawn, seized and claimed, for any bonds and in any
\* order, nothing goes below zero and the one HBAR balance covers all collateral
\* and every share still to be claimed; what nobody can claim is dust.
THEOREM PaysEverybody == Spec => []VaultIsSound
<1>1. VaultInv => VaultIsSound
  BY AccountPays DEF VaultInv, VaultIsSound
<1> QED
  BY <1>1, AlwaysSound, PTL

-----------------------------------------------------------------------------
(* Coverage. *)

\* The ratio the vault computes from floored values, and the one its properties
\* speak of.
FlooredRatio(kept, prc, principal, u, fu, min) ==
  \/ principal \div u = 0
  \/ (((kept * prc) \div fu) * 10000) \div (principal \div u) >= min
ExactRatio(kept, prc, principal, u, fu, min) ==
  kept * prc * u * 10000 >= min * (principal - u) * fu

\* Floored values that keep the ratio keep it for all principal but one unit.
LEMMA CoverageScales ==
  ASSUME NEW kept \in Nat, NEW prc \in Nat, NEW principal \in Nat,
         NEW u \in Nat \ {0}, NEW fu \in Nat \ {0}, NEW min \in Nat,
         FlooredRatio(kept, prc, principal, u, fu, min)
  PROVE  ExactRatio(kept, prc, principal, u, fu, min)
<1> USE DEF FlooredRatio, ExactRatio
<1> DEFINE value == kept * prc
           usd == value \div fu
           p == principal \div u
<1>1. value \in Nat
  OBVIOUS
<1>2. usd \in Nat /\ fu * usd <= value
  <2> HIDE DEF value
  <2> QED
    BY <1>1, Floors
<1>3. p \in Nat /\ principal < u * p + u
  BY Floors
<1>4. kept * prc * u * 10000 = value * (u * 10000)
  OBVIOUS
<1>5. CASE p = 0
  <2>1. principal - u <= 0 /\ principal - u \in Int
    BY <1>3, <1>5
  <2>2. min * (principal - u) <= 0
    BY <2>1
  <2>3. min * (principal - u) * fu <= 0
    BY <2>1, <2>2
  <2>4. value * (u * 10000) >= 0
    BY <1>1
  <2> QED
    BY <1>4, <2>1, <2>3, <2>4
<1>6. CASE p # 0 /\ (usd * 10000) \div p >= min
  <2> HIDE DEF value, usd, p
  <2>1. usd * 10000 \in Nat /\ p \in Nat \ {0}
    BY <1>2, <1>3, <1>6
  <2>2. p * ((usd * 10000) \div p) <= usd * 10000 /\ (usd * 10000) \div p \in Nat
    BY <2>1, Floors
  <2>3. p * min <= usd * 10000
    BY <1>6, <2>1, <2>2
  <2>4. min * (principal - u) <= min * (u * p)
    <3>1. principal - u <= u * p /\ u * p \in Nat /\ principal - u \in Int
      BY <1>3
    <3> QED
      BY <3>1
  <2>5. min * (u * p) <= u * (usd * 10000)
    <3>1. min * (u * p) = u * (p * min) /\ p * min \in Nat
      BY <2>1
    <3> QED
      BY <2>1, <2>3, <3>1
  <2>6. min * (principal - u) * fu <= u * (usd * 10000) * fu
    <3>1. min * (principal - u) <= u * (usd * 10000) /\ u * (usd * 10000) \in Nat
          /\ min * (principal - u) \in Int
      BY <2>1, <2>4, <2>5
    <3> QED
      BY <3>1
  <2>7. u * (usd * 10000) * fu = (fu * usd) * (u * 10000)
    BY <1>2
  <2>8. (fu * usd) * (u * 10000) <= value * (u * 10000)
    <3>1. fu * usd \in Nat /\ u * 10000 \in Nat
      BY <1>2
    <3> QED
      BY <1>1, <1>2, <3>1
  <2> QED
    BY <1>1, <1>2, <1>4, <2>6, <2>7, <2>8
<1> QED
  BY <1>5, <1>6

\* A withdrawal leaves the minimum coverage in force, at the price of that
\* moment, of all principal but less than one settlement unit.
THEOREM CoverageKept == Spec => WithdrawalsKeepCoverage
<1> DEFINE Keeps ==
      \A b \in Bonds :
        collateral'[b] < collateral[b] /\ seizures'[b] = seizures[b] =>
          /\ price > 0
          /\ collateral'[b] * price * BondUnit * 10000
               >= minCoverageBps * (Supply(b) * Face - BondUnit) * FeedUnit
<1>1. ASSUME VaultInv, [Next]_vars, NEW b \in Bonds,
             collateral'[b] < collateral[b], seizures'[b] = seizures[b]
      PROVE  /\ price > 0
             /\ collateral'[b] * price * BondUnit * 10000
                  >= minCoverageBps * (Supply(b) * Face - BondUnit) * FeedUnit
  <2>1. PICK n \in Amounts : Withdraw(b, n)
    <3>1. collateral \in [Bonds -> Nat] /\ collateral' # collateral
      BY <1>1 DEF VaultInv, TypeOK
    <3>2. ASSUME NEW c \in Bonds, NEW n \in Amounts, Deposit(c, n)
          PROVE  FALSE
      BY <1>1, <3>1, <3>2, VaultAssumption DEF Deposit
    <3>3. ASSUME NEW c \in Bonds, NEW n \in Amounts, Withdraw(c, n)
          PROVE  c = b
      BY <1>1, <3>1, <3>3 DEF Withdraw
    <3>4. ASSUME NEW c \in Bonds, Seize(c)
          PROVE  FALSE
      <4>1. c = b
        BY <1>1, <3>1, <3>4 DEF Seize
      <4>2. seizures[b] = NotSeized /\ seizures'[b] # NotSeized
        <5>1. Supply(b) \in Nat /\ collateral[b] \in Nat /\ balance[b] \in [Holders -> Nat]
          BY <1>1, SupplyNat DEF VaultInv, TypeOK
        <5>2. seizures'[b] = [amount |-> collateral[b], shares |-> balance[b], supply |-> Supply(b)]
          BY <1>1, <3>4, <4>1 DEF Seize, VaultInv, TypeOK
        <5>3. seizures'[b] \in Seizure
          BY <5>1, <5>2 DEF Seizure
        <5> QED
          BY <3>4, <4>1, <5>3, NotSeizedAssumption DEF Seize
      <4> QED
        BY <1>1, <4>2
    <3>5. ASSUME NEW c \in Bonds, NEW h \in Holders, ClaimSeized(c, h) \/ Redeem(c, h)
          PROVE  FALSE
      BY <3>1, <3>5 DEF ClaimSeized, Redeem, vaultVars
    <3>6. ASSUME NEW c \in Bonds, \/ Gate(c, "Active", "Frozen") \/ Gate(c, "Frozen", "Active")
                                  \/ \E from, to \in Holders : Transfer(c, from, to)
          PROVE  FALSE
      BY <3>1, <3>6 DEF Gate, Transfer, vaultVars
    <3>7. CASE SetMinCoverage \/ FeedMoves \/ Mature \/ UNCHANGED vars
      BY <3>1, <3>7 DEF SetMinCoverage, FeedMoves, Mature, vars, vaultVars
    <3> QED
      BY <1>1, <3>2, <3>3, <3>4, <3>5, <3>6, <3>7 DEF Next
  <2>2. /\ n \in Nat /\ n <= collateral[b] /\ collateral[b] \in Nat /\ collateral'[b] = collateral[b] - n
    BY <1>1, <2>1, VaultAssumption DEF Withdraw, CanWithdraw, VaultInv, TypeOK
  <2>3. Covered(b, collateral'[b])
    BY <2>1, <2>2 DEF Withdraw, CanWithdraw, Kept
  <2>4. /\ collateral'[b] \in Nat /\ price \in Nat /\ Supply(b) * Face \in Nat
        /\ BondUnit \in Nat \ {0} /\ FeedUnit \in Nat \ {0} /\ minCoverageBps \in Nat
    <3>1. Supply(b) \in Nat /\ price \in Nat /\ minCoverageBps \in Nat /\ Face \in Nat
      BY <1>1, SupplyNat, VaultAssumption DEF VaultInv, TypeOK
    <3> QED
      BY <2>2, <3>1, VaultAssumption
  <2>5. price > 0 /\ (PrincipalUsd(b) = 0
          \/ (CollateralUsd(collateral'[b]) * 10000) \div PrincipalUsd(b) >= minCoverageBps)
    BY <2>3 DEF Covered
  <2>6. collateral'[b] * price * BondUnit * 10000
          >= minCoverageBps * (Supply(b) * Face - BondUnit) * FeedUnit
    <3>1. FlooredRatio(collateral'[b], price, Supply(b) * Face, BondUnit, FeedUnit, minCoverageBps)
      BY <2>5 DEF FlooredRatio, PrincipalUsd, CollateralUsd
    <3>2. ExactRatio(collateral'[b], price, Supply(b) * Face, BondUnit, FeedUnit, minCoverageBps)
      BY <2>4, <3>1, CoverageScales
    <3> QED
      BY <3>2 DEF ExactRatio
  <2> QED
    BY <2>5, <2>6
<1>2. ASSUME VaultInv, [Next]_vars
      PROVE  [Keeps]_vars
  BY <1>1, <1>2
<1> QED
  BY <1>2, AlwaysSound, PTL DEF Spec, WithdrawalsKeepCoverage

-----------------------------------------------------------------------------
(* The issuer's way out. *)

\* Until a bond matures or defaults its tokens only change hands.
HeldInv ==
  \A b \in Bonds : status[b] \in {"Active", "Frozen"} => Supply(b) = SumOver(Minted, Holders)

LEMMA TransferKeepsSupply ==
  ASSUME TypeOK, NEW b \in Bonds, NEW from \in Holders, NEW to \in Holders, Transfer(b, from, to)
  PROVE  \A c \in Bonds : Supply(c)' = Supply(c)
<1>1. /\ from # to /\ balance[b] \in [Holders -> Nat] /\ IsFiniteSet(Holders)
      /\ balance' = [balance EXCEPT ![b][from] = @ - 1, ![b][to] = @ + 1]
  BY VaultAssumption DEF TypeOK, Transfer
<1> DEFINE mid == [balance[b] EXCEPT ![from] = @ - 1]
<1>2. PICK f \in [Holders -> Int] : f = mid
  <2>1. mid \in [Holders -> Int]
    BY <1>1
  <2> QED
    BY <2>1
<1>3. PICK g \in [Holders -> Int] : g = [f EXCEPT ![to] = @ + 1]
  <2>1. [f EXCEPT ![to] = @ + 1] \in [Holders -> Int]
    BY <1>2
  <2> QED
    BY <2>1, Zenon
<1>4. balance'[b] = g /\ \A c \in Bonds \ {b} : balance'[c] = balance[c]
  BY <1>1, <1>2, <1>3 DEF TypeOK
<1>5. SumOver(f, Holders) = SumOver(balance[b], Holders) - 1
  <2>1. PICK a \in [Holders -> Int] : a = balance[b]
    BY <1>1
  <2>2. f[from] = a[from] - 1 /\ (\A h \in Holders \ {from} : f[h] = a[h])
        /\ \A h \in Holders : a[h] \in Int
    BY <1>2, <2>1
  <2>3. SumOver(f, Holders) = SumOver(a, Holders) - a[from] + f[from] /\ SumOver(a, Holders) \in Int
    BY <1>1, <2>2, SumChange, SumInt
  <2> QED
    BY <2>1, <2>2, <2>3
<1>6. SumOver(g, Holders) = SumOver(f, Holders) + 1
  <2>1. g[to] = f[to] + 1 /\ (\A h \in Holders \ {to} : g[h] = f[h])
        /\ \A h \in Holders : f[h] \in Int
    BY <1>3
  <2>2. SumOver(g, Holders) = SumOver(f, Holders) - f[to] + g[to] /\ SumOver(f, Holders) \in Int
    BY <1>1, <2>1, SumChange, SumInt
  <2> QED
    BY <2>1, <2>2
<1>7. SumOver(balance[b], Holders) \in Int
  BY <1>1, SumInt
<1>8. SumOver(g, Holders) = SumOver(balance[b], Holders)
  BY <1>5, <1>6, <1>7
<1> QED
  BY <1>4, <1>8 DEF Supply

LEMMA NextHeld ==
  ASSUME VaultInv, HeldInv, [Next]_vars
  PROVE  HeldInv'
<1>1. ASSUME NEW b \in Bonds, NEW from \in Holders, NEW to \in Holders, Transfer(b, from, to)
      PROVE  HeldInv'
  BY <1>1, TransferKeepsSupply DEF VaultInv, HeldInv, Transfer
<1>2. ASSUME NEW b \in Bonds, NEW h \in Holders, Redeem(b, h)
      PROVE  HeldInv'
  <2>1. status'[b] = "Matured" /\ \A c \in Bonds \ {b} : status'[c] = status[c] /\ balance'[c] = balance[c]
    BY <1>2 DEF VaultInv, TypeOK, Redeem
  <2> QED
    BY <2>1 DEF HeldInv, Supply
<1>3. ASSUME NEW b \in Bonds, Seize(b) \/ Gate(b, "Active", "Frozen") \/ Gate(b, "Frozen", "Active")
      PROVE  HeldInv'
  <2>1. balance' = balance
    BY <1>3 DEF Seize, Gate, tokenVars
  <2>2. \A c \in Bonds : status'[c] \in {"Active", "Frozen"} => status[c] \in {"Active", "Frozen"}
    BY <1>3 DEF VaultInv, TypeOK, Seize, Gate
  <2> QED
    BY <2>1, <2>2 DEF HeldInv, Supply
<1>4. ASSUME UNCHANGED <<status, balance>>
      PROVE  HeldInv'
  BY <1>4 DEF HeldInv, Supply
<1>5. ASSUME NEW b \in Bonds, \/ \E n \in Amounts : Deposit(b, n) \/ Withdraw(b, n)
                              \/ \E h \in Holders : ClaimSeized(b, h)
      PROVE  HeldInv'
  BY <1>4, <1>5 DEF Deposit, Withdraw, ClaimSeized, tokenVars
<1>6. CASE SetMinCoverage \/ FeedMoves \/ Mature \/ UNCHANGED vars
  BY <1>4, <1>6 DEF SetMinCoverage, FeedMoves, Mature, vars, tokenVars
<1> QED
  BY <1>1, <1>2, <1>3, <1>5, <1>6 DEF Next

\* If the bonds had holders at all, the issuer of a bond that has been redeemed
\* to the last token can take the whole collateral as soon as the feed is fresh,
\* whatever was frozen on the way.
THEOREM IssuerNotStuck ==
  ASSUME SumOver(Minted, Holders) > 0
  PROVE  Spec => []IssuerGetsItBack
<1>1. Init => HeldInv
  BY DEF Init, HeldInv, Supply
<1>2. ASSUME VaultInv, HeldInv
      PROVE  IssuerGetsItBack
  <2> SUFFICES ASSUME NEW b \in Bonds, status[b] # "Defaulted", Supply(b) = 0,
                      collateral[b] > 0, price > 0
               PROVE  CanWithdraw(b, collateral[b])
    BY DEF IssuerGetsItBack
  <2>1. status[b] = "Matured"
    BY <1>2 DEF HeldInv, VaultInv, TypeOK, Status
  <2>2. seizures[b] = NotSeized
    BY <1>2 DEF VaultInv, LockedInv
  <2>3. PrincipalUsd(b) = 0
    <3>1. 0 * Face = 0 /\ 0 \in Nat /\ BondUnit \in Nat \ {0}
      BY VaultAssumption
    <3>2. 0 \div BondUnit = 0
      BY <3>1
    <3> QED
      BY <3>1, <3>2 DEF PrincipalUsd
  <2>4. collateral[b] \in Nat
    BY <1>2 DEF VaultInv, TypeOK
  <2> QED
    BY <1>2, <2>1, <2>2, <2>3, <2>4, HbarCovers DEF CanWithdraw, Releasable, Covered
<1> QED
  BY <1>1, <1>2, AlwaysSound, NextHeld, PTL DEF Spec
-----------------------------------------------------------------------------
(* The Collateral page. *)

\* q is x parts in u of y, floored.
IsPart(q, x, y, u) == q * u <= x * y /\ x * y < q * u + u

LEMMA PartExists ==
  ASSUME NEW x \in Nat, NEW y \in Nat, NEW u \in Nat \ {0}
  PROVE  \E q \in Nat : q = (x * y) \div u /\ IsPart(q, x, y, u)
<1>1. PICK n \in Nat : n = x * y
  OBVIOUS
<1>2. n \div u \in Nat /\ (n \div u) * u <= n /\ n < (n \div u) * u + u
  BY Floors
<1> QED
  BY <1>1, <1>2 DEF IsPart

\* The hint told, and the coverage found, when k of c are kept: v and w are the
\* values of c and k floored to settlement units of fu, over a principal of p, and
\* cover the ratio of v.  A unit of value is d basis points and a part.
LEMMA HintBounds ==
  ASSUME NEW c \in Nat \ {0}, NEW k \in Nat, k <= c, NEW prc \in Nat,
         NEW fu \in Nat \ {0}, NEW p \in Nat \ {0}, NEW v \in Nat, NEW w \in Nat,
         NEW cover \in Nat, NEW told \in Nat, NEW found \in Nat, NEW d \in Nat,
         NEW full \in Nat \ {0},
         IsPart(v, c, prc, fu), IsPart(w, k, prc, fu), IsPart(cover, v, full, p),
         IsPart(told, cover, k, c), IsPart(found, w, full, p), IsPart(d, 1, full, p)
  PROVE  told <= found + 2 + d /\ found <= told + 2 + d
<1> USE DEF IsPart
<1>1. told * p * fu <= k * prc * full
  <2>1. (told * c) * (p * fu) <= (cover * k) * (p * fu)
    BY Scaled
  <2>2. (cover * p) * (k * fu) <= (v * full) * (k * fu)
    BY Scaled
  <2>3. (v * fu) * (k * full) <= (c * prc) * (k * full)
    BY Scaled
  <2>4. /\ (told * c) * (p * fu) = c * (told * p * fu)
        /\ (cover * k) * (p * fu) = (cover * p) * (k * fu)
        /\ (v * full) * (k * fu) = (v * fu) * (k * full)
        /\ (c * prc) * (k * full) = (k * prc * full) * c
    OBVIOUS
  <2>5. /\ (told * c) * (p * fu) \in Nat /\ (cover * k) * (p * fu) \in Nat
        /\ (v * full) * (k * fu) \in Nat /\ (c * prc) * (k * full) \in Nat
    OBVIOUS
  <2>6. c * (told * p * fu) <= (k * prc * full) * c
    BY <2>1, <2>2, <2>3, <2>4, <2>5
  <2>7. told * p * fu \in Nat /\ k * prc * full \in Nat /\ 1 \in Nat \ {0}
    OBVIOUS
  <2> QED
    BY <2>6, <2>7, FactorOut
<1>2. told < found + 2 + d
  <2>1. k * prc * full < (w * fu + fu) * full
    <3>1. k * prc \in Nat /\ w * fu + fu \in Nat
      OBVIOUS
    <3> QED
      BY <3>1
  <2>2. (told * p) * fu < (w * full + full) * fu
    <3>1. (w * fu + fu) * full = (w * full + full) * fu /\ told * p * fu = (told * p) * fu
      OBVIOUS
    <3>2. told * p * fu \in Nat /\ k * prc * full \in Nat /\ (w * fu + fu) * full \in Nat
      OBVIOUS
    <3> QED
      BY <1>1, <2>1, <3>1, <3>2
  <2>3. told * p < w * full + full
    <3>1. told * p \in Nat /\ w * full + full \in Nat
      OBVIOUS
    <3> QED
      BY <2>2, <3>1, Scaled
  <2>4. told * p < (found + 2 + d) * p
    <3>1. (found + 2 + d) * p = found * p + p + (d * p + p)
      OBVIOUS
    <3>2. told * p \in Nat /\ found * p \in Nat /\ d * p \in Nat
      OBVIOUS
    <3> QED
      BY <2>3, <3>1, <3>2
  <2> QED
    BY <2>4, Scaled
<1>3. found * p * c <= (v * full + full) * k
  <2>1. ((found * p) * fu) * c <= ((w * fu) * full) * c
    <3>1. (found * p) * fu <= (w * full) * fu
      BY Scaled
    <3>2. (w * full) * fu = (w * fu) * full /\ (found * p) * fu \in Nat /\ (w * fu) * full \in Nat
      OBVIOUS
    <3> QED
      BY <3>1, <3>2, Scaled
  <2>2. (w * fu) * (full * c) <= (k * prc) * (full * c)
    BY Scaled
  <2>3. (c * prc) * (k * full) <= (v * fu + fu) * (k * full)
    <3>1. c * prc \in Nat /\ v * fu + fu \in Nat /\ k * full \in Nat
      OBVIOUS
    <3>2. c * prc <= v * fu + fu
      BY <3>1
    <3> QED
      BY <3>1, <3>2, Scaled
  <2>4. /\ ((found * p) * fu) * c = fu * (found * p * c)
        /\ ((w * fu) * full) * c = (w * fu) * (full * c)
        /\ (k * prc) * (full * c) = (c * prc) * (k * full)
        /\ (v * fu + fu) * (k * full) = ((v * full + full) * k) * fu
    OBVIOUS
  <2>5. /\ ((found * p) * fu) * c \in Nat /\ ((w * fu) * full) * c \in Nat
        /\ (k * prc) * (full * c) \in Nat /\ (v * fu + fu) * (k * full) \in Nat
    OBVIOUS
  <2>6. fu * (found * p * c) <= ((v * full + full) * k) * fu
    BY <2>1, <2>2, <2>3, <2>4, <2>5
  <2>7. found * p * c \in Nat /\ (v * full + full) * k \in Nat /\ 1 \in Nat \ {0}
    OBVIOUS
  <2> QED
    BY <2>6, <2>7, FactorOut
<1>4. found * c <= (cover + 2 + d) * k
  <2>1. (v * full + full) * k <= ((cover + 2 + d) * p) * k
    <3>1. (cover + 2 + d) * p = cover * p + p + (d * p + p)
      OBVIOUS
    <3>2. v * full + full \in Nat /\ (cover + 2 + d) * p \in Nat /\ cover * p \in Nat /\ d * p \in Nat
      OBVIOUS
    <3>3. v * full + full <= (cover + 2 + d) * p
      BY <3>1, <3>2
    <3> QED
      BY <3>2, <3>3, Scaled
  <2>2. found * p * c = p * (found * c) /\ ((cover + 2 + d) * p) * k = ((cover + 2 + d) * k) * p
    OBVIOUS
  <2>3. /\ found * p * c \in Nat /\ (v * full + full) * k \in Nat
        /\ ((cover + 2 + d) * p) * k \in Nat /\ found * c \in Nat /\ (cover + 2 + d) * k \in Nat
    OBVIOUS
  <2>4. p * (found * c) <= ((cover + 2 + d) * k) * p
    BY <1>3, <2>1, <2>2, <2>3
  <2> QED
    BY <2>3, <2>4, FactorOut
<1>5. found < told + 3 + d
  <2>1. k * (2 + d) <= c * (2 + d)
    BY Scaled
  <2>2. (cover + 2 + d) * k = cover * k + k * (2 + d) /\ (told + 3 + d) * c = told * c + c + c * (2 + d)
    OBVIOUS
  <2>3. /\ cover * k \in Nat /\ k * (2 + d) \in Nat /\ c * (2 + d) \in Nat /\ told * c \in Nat
        /\ found * c \in Nat
    OBVIOUS
  <2>4. found * c < (told + 3 + d) * c
    BY <1>4, <2>1, <2>2, <2>3
  <2> QED
    BY <2>4, Scaled
<1> QED
  BY <1>2, <1>5
LEMMA PrincipalNat ==
  ASSUME TypeOK, NEW b \in Bonds
  PROVE  PrincipalUsd(b) \in Nat
<1>1. PICK s \in Nat : s = Supply(b)
  BY SupplyNat
<1>2. s * Face \in Nat /\ BondUnit \in Nat \ {0}
  BY VaultAssumption
<1> QED
  BY <1>1, <1>2, Floors DEF PrincipalUsd

LEMMA ValueNat ==
  ASSUME TypeOK, NEW held \in Nat
  PROVE  /\ price \in Nat /\ held * price \in Nat /\ CollateralUsd(held) \in Nat
         /\ IsPart(CollateralUsd(held), held, price, FeedUnit)
<1>1. price \in Nat /\ FeedUnit \in Nat \ {0}
  BY VaultAssumption DEF TypeOK
<1>2. PICK x \in Nat : x = held * price
  BY <1>1
<1> QED
  BY <1>1, <1>2, Floors DEF CollateralUsd, IsPart

\* Where something is outstanding the coverage announced is a number, and off from
\* the one found by the roundings.
LEMMA HintNear ==
  ASSUME TypeOK, NEW b \in Bonds, NEW n \in Amounts,
         AfterBps(b, n) # NoHint, PrincipalUsd(b) > 0
  PROVE  /\ AfterBps(b, n) \in Nat /\ Found(b, n) \in Nat /\ Slack(b) \in Nat
         /\ Found(b, n) = (CollateralUsd(Kept(b, n)) * 10000) \div PrincipalUsd(b)
         /\ AfterBps(b, n) <= Found(b, n) + Slack(b)
         /\ Found(b, n) <= AfterBps(b, n) + Slack(b)
<1>1. PICK p \in Nat \ {0} : p = PrincipalUsd(b)
  BY PrincipalNat
<1>2. collateral[b] \in Nat /\ n \in Nat /\ collateral[b] > 0 /\ n <= collateral[b] /\ Known
  BY VaultAssumption DEF TypeOK, AfterBps
<1>3. PICK c \in Nat \ {0} : c = collateral[b]
  BY <1>2
<1>4. PICK k \in Nat : k = collateral[b] - n /\ k <= c
  BY <1>2, <1>3
<1>5. PICK prc \in Nat, fu \in Nat \ {0}, full \in Nat \ {0} :
        prc = price /\ fu = FeedUnit /\ full = 10000
  BY VaultAssumption DEF TypeOK
<1>6. PICK v \in Nat : v = CollateralUsd(c) /\ IsPart(v, c, prc, fu)
  BY <1>5, ValueNat
<1>7. PICK w \in Nat : w = CollateralUsd(k) /\ IsPart(w, k, prc, fu)
  BY <1>5, ValueNat
<1>8. PICK cover \in Nat : cover = (v * full) \div p /\ IsPart(cover, v, full, p)
  BY PartExists
<1>9. PICK told \in Nat : told = (cover * k) \div c /\ IsPart(told, cover, k, c)
  BY PartExists
<1>10. PICK found \in Nat : found = (w * full) \div p /\ IsPart(found, w, full, p)
  BY PartExists
<1>11. PICK d \in Nat : d = (1 * full) \div p /\ IsPart(d, 1, full, p)
  BY PartExists
<1>12. told <= found + 2 + d /\ found <= told + 2 + d
  <2>1. k <= c
    BY <1>4
  <2>2. IsPart(v, c, prc, fu) /\ IsPart(w, k, prc, fu) /\ IsPart(cover, v, full, p)
    BY <1>6, <1>7, <1>8
  <2>3. IsPart(told, cover, k, c) /\ IsPart(found, w, full, p) /\ IsPart(d, 1, full, p)
    BY <1>9, <1>10, <1>11
  <2> QED
    BY <2>1, <2>2, <2>3, HintBounds, Zenon
<1>13. AfterBps(b, n) = told
  <2>1. Coverage(b) = cover
    BY <1>1, <1>3, <1>5, <1>6, <1>8 DEF Coverage
  <2> QED
    BY <1>1, <1>2, <1>3, <1>4, <1>9, <2>1 DEF AfterBps
<1>14. Found(b, n) = found /\ (CollateralUsd(Kept(b, n)) * 10000) \div PrincipalUsd(b) = found
  BY <1>1, <1>4, <1>5, <1>7, <1>10 DEF Found, Kept
<1>15. Slack(b) = 2 + d
  BY <1>1, <1>5, <1>11 DEF Slack
<1> QED
  BY <1>12, <1>13, <1>14, <1>15

\* The coverage announced for a withdrawal is off by its roundings and no more; and
\* where nothing is outstanding it is the vault's except for a withdrawal of
\* everything, for any holdings, prices, decimals and amounts.
THEOREM HintHolds == Spec => []HintIsClose
<1>1. ASSUME TypeOK
      PROVE  HintIsClose
  <2> SUFFICES ASSUME NEW b \in Bonds, NEW n \in Amounts, AfterBps(b, n) # NoHint
               PROVE  /\ PrincipalUsd(b) > 0 => /\ AfterBps(b, n) <= Found(b, n) + Slack(b)
                                               /\ Found(b, n) <= AfterBps(b, n) + Slack(b)
                      /\ PrincipalUsd(b) = 0 => (AfterBps(b, n) = Found(b, n) <=> n < collateral[b])
    BY DEF HintIsClose
  <2>1. collateral[b] \in Nat /\ n \in Nat /\ n <= collateral[b] /\ collateral[b] > 0 /\ Known
    BY <1>1, VaultAssumption DEF TypeOK, AfterBps
  <2>2. ASSUME PrincipalUsd(b) = 0
        PROVE  AfterBps(b, n) = Found(b, n) <=> n < collateral[b]
    <3>1. Found(b, n) = CoverageMax
      BY <2>2 DEF Found
    <3>2. AfterBps(b, n) = IF n = collateral[b] THEN 0 ELSE CoverageMax
      BY <2>1, <2>2 DEF AfterBps
    <3> QED
      BY <2>1, <3>1, <3>2 DEF CoverageMax
  <2> QED
    BY <1>1, <2>2, HintNear
<1> QED
  BY <1>1, AlwaysSound, PTL DEF VaultInv

\* The vault's minimum, on the coverage it finds.
LEMMA TooLowIs ==
  ASSUME TypeOK, NEW b \in Bonds, NEW n \in Amounts, AfterBps(b, n) # NoHint
  PROVE  /\ PrincipalUsd(b) > 0 => (TooLow(b, n) <=> Found(b, n) < minCoverageBps)
         /\ PrincipalUsd(b) = 0 => ~TooLow(b, n)
<1>1. Known /\ price > 0
  BY DEF AfterBps, Known
<1>2. CASE PrincipalUsd(b) = 0
  BY <1>1, <1>2 DEF TooLow, Covered
<1>3. CASE PrincipalUsd(b) > 0
  <2>1. /\ Found(b, n) \in Nat
        /\ Found(b, n) = (CollateralUsd(Kept(b, n)) * 10000) \div PrincipalUsd(b)
    BY <1>3, HintNear
  <2>2. minCoverageBps \in Nat
    BY VaultAssumption DEF TypeOK
  <2>3. TooLow(b, n) <=> ~(Found(b, n) >= minCoverageBps)
    BY <1>1, <1>3, <2>1 DEF TooLow, Covered
  <2> QED
    BY <1>3, <2>1, <2>2, <2>3
<1>4. PrincipalUsd(b) \in Nat
  BY PrincipalNat
<1> QED
  BY <1>2, <1>3, <1>4

\* Up to full coverage, the lowest band begins at the minimum.
LEMMA BelowIsBelow ==
  ASSUME NEW bps \in Nat, NEW min \in Nat, min <= 10000
  PROVE  Band(bps, min) = "below" <=> bps < min
BY SMT DEF Band, CoverageMax

\* The needle crosses the first third at the minimum and stays on the gauge.
LEMMA GaugeStands ==
  ASSUME NEW bps \in Nat, NEW min \in Nat, min <= 10000
  PROVE  /\ Gauge(bps, min) \in Nat /\ Gauge(bps, min) <= GaugeEnd
         /\ min > 0 => (Gauge(bps, min) < 10000 <=> Capped(bps) < min)
<1>1. PICK b \in Nat : b = Capped(bps) /\ b <= 10000
  BY DEF Capped
<1>2. CASE min = 0
  BY <1>1, <1>2, SMT DEF Gauge, GaugeEnd
<1>3. CASE min > 0 /\ b <= min
  <2>1. PICK q \in Nat : q = (10000 * b) \div min /\ q * min <= 10000 * b /\ 10000 * b < q * min + min
    BY <1>3, Floors
  <2>2. Gauge(bps, min) = q
    BY <1>1, <1>3, <2>1 DEF Gauge
  <2>3. q <= 10000
    <3>1. min * q <= 10000 * min
      BY <1>3, <2>1
    <3> QED
      BY <1>3, <2>1, <3>1, FactorOut
  <2>4. ASSUME b < min PROVE q < 10000
    <3>1. q * min < 10000 * min
      BY <1>3, <2>1, <2>4
    <3> QED
      BY <2>1, <3>1, Scaled
  <2>5. ASSUME b = min PROVE q >= 10000
    <3>1. 10000 * min < (q + 1) * min
      BY <1>3, <2>1, <2>5
    <3> QED
      BY <2>1, <3>1, Scaled
  <2> QED
    BY <1>1, <1>3, <2>1, <2>2, <2>3, <2>4, <2>5, SMT DEF GaugeEnd
<1>4. CASE min > 0 /\ b > min /\ b <= 2 * min
  <2>1. PICK m \in Nat : m = b - min /\ m <= min
    BY <1>4
  <2>2. PICK q \in Nat : q = (10000 * m) \div min /\ q * min <= 10000 * m
    BY <1>4, <2>1, Floors
  <2>3. Gauge(bps, min) = 10000 + q
    BY <1>1, <1>4, <2>1, <2>2 DEF Gauge
  <2>4. q <= 10000
    <3>1. min * q <= 10000 * min
      BY <1>4, <2>1, <2>2
    <3> QED
      BY <1>4, <2>2, <3>1, FactorOut
  <2> QED
    BY <1>1, <1>4, <2>2, <2>3, <2>4, SMT DEF GaugeEnd
<1>5. CASE min > 0 /\ b > 2 * min
  <2>1. PICK m \in Nat, r \in Nat \ {0} : m = b - 2 * min /\ r = 10000 - 2 * min /\ m <= r
    <3>1. b - 2 * min \in Nat /\ 10000 - 2 * min \in Nat \ {0} /\ b - 2 * min <= 10000 - 2 * min
      BY <1>1, <1>5, SMT
    <3> QED
      BY <3>1
  <2>2. PICK q \in Nat : q = (10000 * m) \div r /\ q * r <= 10000 * m
    BY <2>1, Floors
  <2>3. Gauge(bps, min) = 20000 + q
    BY <1>1, <1>5, <2>1, <2>2 DEF Gauge
  <2>4. q <= 10000
    <3>1. r * q <= 10000 * r
      BY <2>1, <2>2
    <3> QED
      BY <2>1, <2>2, <3>1, FactorOut
  <2> QED
    BY <1>1, <1>5, <2>2, <2>3, <2>4, SMT DEF GaugeEnd
<1> QED
  BY <1>1, <1>2, <1>3, <1>4, <1>5

\* Badge and gauge are the vault's floor, as long as no minimum above full coverage
\* is set, for any holdings, prices and decimals.
THEOREM BadgeHolds ==
  ASSUME \A min \in Minimums : min <= 10000
  PROVE  Spec => []BandIsTheFloor
<1>1. ASSUME TypeOK
      PROVE  BandIsTheFloor
  <2> SUFFICES ASSUME NEW b \in Bonds
               PROVE  /\ Badge(b) = "below" <=> Known /\ ~Covered(b, collateral[b])
                      /\ Known /\ minCoverageBps > 0 =>
                           (Needle(b) < 10000 <=> Capped(Coverage(b)) < minCoverageBps)
                      /\ Needle(b) \in 0 .. GaugeEnd \/ (Needle(b) = NoHint /\ Badge(b) = Stale)
    BY DEF BandIsTheFloor
  <2>1. PICK min \in Nat : min = minCoverageBps /\ min <= 10000
    BY <1>1, VaultAssumption DEF TypeOK
  <2>2. PICK p \in Nat : p = PrincipalUsd(b)
    BY <1>1, PrincipalNat
  <2>3. PICK v \in Nat : v = CollateralUsd(collateral[b])
    BY <1>1, ValueNat DEF TypeOK
  <2>4. PICK bps \in Nat : /\ bps = Coverage(b)
                           /\ p = 0 => bps = CoverageMax
                           /\ p # 0 => bps = (v * 10000) \div p
    <3>1. CASE p = 0
      BY <2>2, <3>1, SMT DEF Coverage, CoverageMax
    <3>2. CASE p # 0
      <4>1. PICK x \in Nat : x = v * 10000
        OBVIOUS
      <4>2. x \div p \in Nat
        BY <3>2, Floors
      <4> QED
        BY <2>2, <2>3, <3>2, <4>1, <4>2 DEF Coverage
    <3> QED
      BY <3>1, <3>2
  <2>5. CASE Known
    <3>1. Badge(b) = Band(bps, min) /\ Needle(b) = Gauge(bps, min)
      BY <2>1, <2>4, <2>5 DEF Badge, Needle
    <3>2. Covered(b, collateral[b]) <=> bps >= min
      BY <2>1, <2>2, <2>3, <2>4, <2>5, SMT DEF Covered, Known, CoverageMax
    <3> QED
      BY <2>1, <2>4, <2>5, <3>1, <3>2, BelowIsBelow, GaugeStands
  <2>6. CASE ~Known
    BY <2>6 DEF Badge, Needle, Stale
  <2> QED
    BY <2>5, <2>6
<1> QED
  BY <1>1, AlwaysSound, PTL DEF VaultInv

\* The warning and the revert.
LEMMA WarningHolds ==
  ASSUME TypeOK, \A min \in Minimums : min <= 10000
  PROVE  WarningIsTrue
<1> SUFFICES ASSUME NEW b \in Bonds, NEW n \in Amounts, Known, WithdrawEnabled(b, n)
             PROVE  LET told == AfterBps(b, n) IN
                    /\ /\ PrincipalUsd(b) > 0
                       /\ told + Slack(b) < minCoverageBps \/ told >= minCoverageBps + Slack(b)
                       => (WarnsCoverage(b, n) <=> TooLow(b, n))
                    /\ PrincipalUsd(b) = 0 =>
                         /\ ~TooLow(b, n)
                         /\ WarnsCoverage(b, n) <=> n = collateral[b] /\ minCoverageBps > 0
  BY DEF WarningIsTrue
<1>1. /\ collateral[b] \in Nat /\ n \in Nat /\ n > 0 /\ n <= collateral[b] /\ collateral[b] > 0
      /\ minCoverageBps \in Nat /\ minCoverageBps <= 10000
  BY VaultAssumption DEF TypeOK, WithdrawEnabled
<1>2. PrincipalUsd(b) \in Nat
  BY PrincipalNat
<1>3. CASE PrincipalUsd(b) = 0
  <2>1. AfterBps(b, n) = IF n = collateral[b] THEN 0 ELSE CoverageMax
    BY <1>1, <1>3 DEF AfterBps
  <2>2. AfterBps(b, n) # NoHint
    BY <2>1 DEF NoHint, CoverageMax
  <2>3. ~TooLow(b, n)
    BY <1>3, <2>2, TooLowIs
  <2>4. WarnsCoverage(b, n) <=> AfterBps(b, n) < minCoverageBps
    BY <2>2 DEF WarnsCoverage
  <2> QED
    BY <1>1, <1>3, <2>1, <2>3, <2>4 DEF CoverageMax
<1>4. CASE PrincipalUsd(b) > 0
  <2>1. PICK c \in Nat \ {0}, k \in Nat : c = collateral[b] /\ k = collateral[b] - n
    BY <1>1
  <2>2. PICK w \in Nat : w = CollateralUsd(c)
    BY <2>1, ValueNat
  <2>3. PICK cover \in Nat : cover = Coverage(b)
    <3>1. w * 10000 \in Nat
      OBVIOUS
    <3> QED
      BY <1>2, <1>4, <2>1, <2>2, <3>1, Floors DEF Coverage
  <2>4. cover * k \in Nat
    OBVIOUS
  <2>5. (cover * k) \div c \in Nat
    BY <2>1, <2>4, Floors
  <2>6. AfterBps(b, n) = (cover * k) \div c
    BY <1>1, <1>4, <2>1, <2>3 DEF AfterBps
  <2>7. AfterBps(b, n) # NoHint
    BY <2>5, <2>6 DEF NoHint
  <2>8. /\ AfterBps(b, n) \in Nat /\ Found(b, n) \in Nat /\ Slack(b) \in Nat
        /\ AfterBps(b, n) <= Found(b, n) + Slack(b)
        /\ Found(b, n) <= AfterBps(b, n) + Slack(b)
    BY <1>4, <2>7, HintNear
  <2>9. TooLow(b, n) <=> Found(b, n) < minCoverageBps
    BY <1>4, <2>7, TooLowIs
  <2>10. WarnsCoverage(b, n) <=> AfterBps(b, n) < minCoverageBps
    BY <2>7 DEF WarnsCoverage
  <2> QED
    BY <1>1, <1>4, <2>8, <2>9, <2>10
<1> QED
  BY <1>2, <1>3, <1>4

\* The whole Collateral page agrees with the vault as far as it does: badge and gauge
\* are its floor, hint and warning are right up to the roundings and, where nothing is
\* outstanding, wrong of the withdrawal of everything alone; and a withdrawal the form
\* lets through, announced clear of the minimum, is granted and the HBAR is there.
THEOREM VaultPage ==
  ASSUME \A min \in Minimums : min <= 10000
  PROVE  Spec => []VaultPageIsTrue
<1>1. ASSUME VaultInv, BandIsTheFloor
      PROVE  WithdrawWorks
  <2> SUFFICES ASSUME NEW b \in Bonds, NEW n \in Amounts
               PROVE  LET clear == /\ WithdrawEnabled(b, n)
                                   /\ AfterBps(b, n) # NoHint
                                   /\ PrincipalUsd(b) > 0 =>
                                        AfterBps(b, n) >= minCoverageBps + Slack(b)
                      IN /\ clear /\ Releasable(status[b]) /\ seizures[b] = NotSeized
                              => CanWithdraw(b, n)
                         /\ Needle(b) = NoHint => ~CanWithdraw(b, n)
    BY DEF WithdrawWorks
  <2>1. /\ TypeOK /\ n \in Nat \ {0} /\ collateral[b] \in Nat /\ minCoverageBps \in Nat
        /\ PrincipalUsd(b) \in Nat
    BY <1>1, VaultAssumption, PrincipalNat DEF VaultInv, TypeOK
  <2>2. ASSUME WithdrawEnabled(b, n), AfterBps(b, n) # NoHint,
               PrincipalUsd(b) > 0 => AfterBps(b, n) >= minCoverageBps + Slack(b),
               Releasable(status[b]), seizures[b] = NotSeized
        PROVE  CanWithdraw(b, n)
    <3>1. n <= collateral[b] /\ Known
      BY <2>2 DEF WithdrawEnabled, AfterBps
    <3>2. hbar >= n
      <4>1. hbar >= collateral[b] /\ hbar \in Nat
        BY <1>1, <2>2, HbarCovers DEF VaultInv, TypeOK
      <4> QED
        BY <2>1, <3>1, <4>1
    <3>3. ~TooLow(b, n)
      <4>1. CASE PrincipalUsd(b) = 0
        BY <2>1, <2>2, <4>1, TooLowIs
      <4>2. CASE PrincipalUsd(b) > 0
        <5>1. /\ AfterBps(b, n) \in Nat /\ Found(b, n) \in Nat /\ Slack(b) \in Nat
              /\ AfterBps(b, n) <= Found(b, n) + Slack(b)
          BY <2>1, <2>2, <4>2, HintNear
        <5>2. AfterBps(b, n) >= minCoverageBps + Slack(b)
          BY <2>2, <4>2
        <5>3. TooLow(b, n) <=> Found(b, n) < minCoverageBps
          BY <2>1, <2>2, <4>2, TooLowIs
        <5> QED
          BY <2>1, <5>1, <5>2, <5>3
      <4> QED
        BY <2>1, <4>1, <4>2
    <3>4. Covered(b, Kept(b, n))
      BY <3>1, <3>3 DEF TooLow
    <3> QED
      BY <2>2, <3>1, <3>2, <3>4 DEF CanWithdraw
  <2>3. ASSUME Needle(b) = NoHint
        PROVE  ~CanWithdraw(b, n)
    <3>1. Badge(b) = Stale
      <4>1. ~(Needle(b) \in 0 .. GaugeEnd)
        BY <2>3 DEF NoHint, GaugeEnd
      <4> QED
        BY <1>1, <4>1 DEF BandIsTheFloor
    <3>2. \A bps, min : Band(bps, min) # Stale
      BY DEF Band, Stale
    <3>3. ~Known
      BY <3>1, <3>2 DEF Badge
    <3> QED
      BY <3>3 DEF Known, CanWithdraw, Covered
  <2> QED
    BY <2>2, <2>3
<1>2. Spec => []BandIsTheFloor
  BY BadgeHolds
<1>3. VaultInv => WarningIsTrue
  BY WarningHolds DEF VaultInv
<1> QED
  BY <1>1, <1>2, <1>3, AlwaysSound, HintHolds, PTL DEF VaultPageIsTrue
=============================================================================

------------------------------- MODULE ATSBond -------------------------------
(***************************************************************************)
(* The bond token, with the lazy snapshots of ATS: taking one costs a      *)
(* counter, and each balance writes a checkpoint of its own only when it   *)
(* first moves afterwards.  Reading a snapshot has to find, per holder,    *)
(* the first checkpoint written at or after it, or the current balance.    *)
(*                                                                         *)
(* Allowances and roles are guards outside this module.                    *)
(***************************************************************************)
EXTENDS Integers, Sequences, Sums

CONSTANTS
  Holders,
  MaxSupply, MaxSnapshots   \* bounds

ASSUME BondAssumption == IsFiniteSet(Holders) /\ MaxSupply \in Nat /\ MaxSnapshots \in Nat

VARIABLES
  balance, supply,
  currentSnapshotId,
  balanceCps, supplyCps,   \* checkpoints, oldest first
  kyc, frozen, paused,     \* compliance
  mature                   \* block.timestamp has reached the maturity date

snapVars == <<currentSnapshotId, balanceCps, supplyCps>>
ruleVars == <<kyc, frozen, paused>>
vars     == <<balance, supply, snapVars, ruleVars, mature>>

Checkpoint == [id : Nat, value : Nat]

Init ==
  /\ balance = [h \in Holders |-> 0] /\ supply = 0
  /\ currentSnapshotId = 0
  /\ balanceCps = [h \in Holders |-> <<>>] /\ supplyCps = <<>>
  /\ kyc = {} /\ frozen = {} /\ paused = FALSE
  /\ mature = FALSE

-----------------------------------------------------------------------------
(* Checkpoints. *)

Checkpointed(cps, value) ==
  IF currentSnapshotId # 0 /\ (cps = <<>> \/ cps[Len(cps)].id < currentSnapshotId)
  THEN Append(cps, [id |-> currentSnapshotId, value |-> value])
  ELSE cps

\* The linear scan of _at stops at i.
StopsAfter(cps, s, i) ==    \* slip: a checkpoint written in the snapshot's own period is passed over
  cps[i].id > s /\ \A j \in 1 .. i - 1 : cps[j].id <= s
StopsAt(cps, s, i) == cps[i].id >= s /\ \A j \in 1 .. i - 1 : cps[j].id < s

At(cps, s, current) ==
  IF \E i \in DOMAIN cps : StopsAt(cps, s, i)
  THEN cps[CHOOSE i \in DOMAIN cps : StopsAt(cps, s, i)].value
  ELSE current

BalanceOfAtSnapshot(s, h) == At(balanceCps[h], s, balance[h])
TotalSupplyAtSnapshot(s)  == At(supplyCps, s, supply)

TakeSnapshot ==
  /\ currentSnapshotId < MaxSnapshots
  /\ currentSnapshotId' = currentSnapshotId + 1
  /\ UNCHANGED <<balance, supply, balanceCps, supplyCps, ruleVars, mature>>

-----------------------------------------------------------------------------
(* _update: checkpoints first, then the balances. *)

\* Whose checkpoints a movement writes, and whether the supply's.
SenderOnly(from, to) == from   \* slip
Parties(from, to) == from \cup to
SupplyMoves(from, to) == from = {} \/ to = {}

\* from and to hold one holder each, or none for the zero address.
Update(from, to, n) ==
  /\ balanceCps' = [h \in Holders |->
       IF h \in Parties(from, to) THEN Checkpointed(balanceCps[h], balance[h]) ELSE balanceCps[h]]
  /\ supplyCps' = IF SupplyMoves(from, to) THEN Checkpointed(supplyCps, supply) ELSE supplyCps
  /\ balance' = [h \in Holders |->
       balance[h] - (IF h \in from THEN n ELSE 0) + (IF h \in to THEN n ELSE 0)]
  /\ supply' = supply + (IF from = {} THEN n ELSE 0) - (IF to = {} THEN n ELSE 0)
  /\ UNCHANGED <<currentSnapshotId, ruleVars, mature>>

EnoughAnyway(h, n) == n <= supply   \* slip: checked against the wrong total
Enough(h, n) == n <= balance[h]

CanTransfer(from, to, n) ==
  /\ ~paused
  /\ {from, to} \cap frozen = {} /\ {from, to} \subseteq kyc
  /\ Enough(from, n)

Transfer(from, to, n) == CanTransfer(from, to, n) /\ Update({from}, {to}, n)

Mint(to, n) ==
  /\ to \in kyc
  /\ supply + n <= MaxSupply
  /\ Update({}, {to}, n)

FullRedeemAtMaturity(h) ==
  /\ mature /\ h \in kyc
  /\ Update({h}, {}, balance[h])

-----------------------------------------------------------------------------
(* Compliance and time. *)

GrantKyc(h) == kyc' = kyc \cup {h} /\ UNCHANGED <<frozen, paused>>
RevokeKyc(h) == kyc' = kyc \ {h} /\ UNCHANGED <<frozen, paused>>
SetAddressFrozen(h, on) ==
  /\ frozen' = IF on THEN frozen \cup {h} ELSE frozen \ {h}
  /\ UNCHANGED <<kyc, paused>>
Pause   == paused' = TRUE  /\ UNCHANGED <<kyc, frozen>>
Unpause == paused' = FALSE /\ UNCHANGED <<kyc, frozen>>

Comply ==
  /\ \/ \E h \in Holders : GrantKyc(h) \/ RevokeKyc(h)
     \/ \E h \in Holders, on \in BOOLEAN : SetAddressFrozen(h, on)
     \/ Pause \/ Unpause
  /\ UNCHANGED <<balance, supply, snapVars, mature>>

Mature ==
  /\ mature' = TRUE
  /\ UNCHANGED <<balance, supply, snapVars, ruleVars>>

Next ==
  \/ TakeSnapshot
  \/ \E from, to \in Holders : \E n \in 0 .. MaxSupply : Transfer(from, to, n)
  \/ \E to \in Holders : \E n \in 0 .. MaxSupply : Mint(to, n)
  \/ \E h \in Holders : FullRedeemAtMaturity(h)
  \/ Comply \/ Mature

Spec == Init /\ [][Next]_vars

-----------------------------------------------------------------------------
(* Properties. *)

\* Every variable keeps its type: no balance below zero, and no checkpoint of a
\* snapshot that has not been taken.
TypeOK ==
  /\ balance \in [Holders -> Nat] /\ supply \in Nat
  /\ currentSnapshotId \in Nat
  /\ balanceCps \in [Holders -> Seq(Checkpoint)] /\ supplyCps \in Seq(Checkpoint)
  /\ kyc \subseteq Holders /\ frozen \subseteq Holders
  /\ paused \in BOOLEAN /\ mature \in BOOLEAN

\* What the two snapshot reads answer for every snapshot taken.
Snapshots ==
  [s \in 1 .. currentSnapshotId |->
    [balance |-> [h \in Holders |-> BalanceOfAtSnapshot(s, h)],
     supply  |-> TotalSupplyAtSnapshot(s)]]

Promise == INSTANCE SnapshotPromise WITH snapshots <- Snapshots

\* The lazy checkpoints answer as eager copies would: a snapshot shows the
\* balances and the supply of the moment it was taken, whoever moved what since
\* (MockATSBond.sol:171: "Checkpoints are written before balances move").
ImplementsPromise == Promise!Spec

\* Now and in each snapshot the balances add up to the supply, so that pro-rata
\* shares of a coupon or a seizure never exceed it.
AddsUp ==
  /\ SumOver(balance, Holders) = supply
  /\ \A s \in 1 .. currentSnapshotId :
       SumOver([h \in Holders |-> BalanceOfAtSnapshot(s, h)], Holders) = TotalSupplyAtSnapshot(s)

\* The books add up, with every variable of its type.
BooksAddUp == TypeOK /\ AddsUp
=============================================================================

---------------------------- MODULE ATSBondProofs ----------------------------
(***************************************************************************)
(* The lazy checkpoints of the token implement eager snapshots, for any    *)
(* holders and any number of snapshots.  The invariant says of each list   *)
(* that the scan for a snapshot either stops somewhere or passes over the  *)
(* whole list: without it nothing is known of the first entry it meets.    *)
(*                                                                         *)
(* And what the pages and the API say of a wallet is what the token does.  *)
(***************************************************************************)
EXTENDS ComplianceView, SumTheorems, SequenceTheorems, TLAPS

\* The scan for each of the first n snapshots has one outcome.
Scans(cps, n) ==
  /\ \A i \in DOMAIN cps : cps[i].id <= n
  /\ \A s \in 1 .. n :
       \/ \A i \in DOMAIN cps : cps[i].id < s
       \/ \E i \in DOMAIN cps : StopsAt(cps, s, i)

\* What the argument needs of types.  That neither balance nor supply can be
\* negative follows from their sum, which it does not need.
Entry == [id : Nat, value : Int]

Typed ==
  /\ balance \in [Holders -> Int] /\ supply \in Int
  /\ currentSnapshotId \in Nat
  /\ balanceCps \in [Holders -> Seq(Entry)] /\ supplyCps \in Seq(Entry)

ScanInv ==
  /\ \A h \in Holders : Scans(balanceCps[h], currentSnapshotId)
  /\ Scans(supplyCps, currentSnapshotId)

-----------------------------------------------------------------------------
(* The scan. *)

\* The entries of a list are typed.
LEMMA Entries ==
  ASSUME NEW cps \in Seq(Entry)
  PROVE  /\ Len(cps) \in Nat /\ DOMAIN cps = 1 .. Len(cps)
         /\ \A i \in DOMAIN cps : cps[i].id \in Nat /\ cps[i].value \in Int
<1>1. \A i \in DOMAIN cps : cps[i] \in Entry
  OBVIOUS
<1> QED
  BY <1>1 DEF Entry

LEMMA AtStop ==
  ASSUME NEW cps \in Seq(Entry), NEW s \in Nat, NEW current,
         NEW i \in DOMAIN cps, StopsAt(cps, s, i)
  PROVE  At(cps, s, current) = cps[i].value
<1>1. DOMAIN cps = 1 .. Len(cps) /\ Len(cps) \in Nat
  OBVIOUS
<1>2. \A k \in DOMAIN cps : cps[k] \in Entry
  OBVIOUS
<1>3. ASSUME NEW k \in DOMAIN cps, StopsAt(cps, s, k)
      PROVE  k = i
  <2>1. k \in Nat /\ i \in Nat /\ k >= 1 /\ i >= 1
    BY <1>1
  <2>2. cps[k].id \in Nat /\ cps[i].id \in Nat
    BY <1>2 DEF Entry
  <2>3. ~(k < i) /\ ~(i < k)
    BY <1>3, <2>1, <2>2 DEF StopsAt
  <2> QED
    BY <2>1, <2>3
<1>4. (CHOOSE k \in DOMAIN cps : StopsAt(cps, s, k)) = i
  BY <1>3
<1> QED
  BY <1>4 DEF At

LEMMA AtEnd ==
  ASSUME NEW cps \in Seq(Entry), NEW s \in Nat, NEW current,
         \A i \in DOMAIN cps : cps[i].id < s
  PROVE  At(cps, s, current) = current
<1>1. \A k \in DOMAIN cps : cps[k].id \in Nat
  BY Entries
<1>2. ~ \E i \in DOMAIN cps : StopsAt(cps, s, i)
  BY <1>1 DEF StopsAt
<1> QED
  BY <1>2 DEF At

\* Checkpointed, for any counter.
Written(cps, n, value) ==
  IF n # 0 /\ (cps = <<>> \/ cps[Len(cps)].id < n)
  THEN Append(cps, [id |-> n, value |-> value])
  ELSE cps

\* A checkpoint written before the balance moves leaves the answer to every
\* snapshot taken what it was.
LEMMA CheckpointKeeps ==
  ASSUME NEW cps \in Seq(Entry), NEW value \in Int,
         NEW n \in Nat, Scans(cps, n)
  PROVE  /\ Written(cps, n, value) \in Seq(Entry)
         /\ Scans(Written(cps, n, value), n)
         /\ \A s \in 1 .. n, moved \in Int :
              At(Written(cps, n, value), s, moved) = At(cps, s, value)
<1> DEFINE new == Written(cps, n, value)
           cp == [id |-> n, value |-> value]
<1>0. DOMAIN cps = 1 .. Len(cps) /\ Len(cps) \in Nat
      /\ \A i \in DOMAIN cps : cps[i].id \in Nat
  BY Entries
<1>1. CASE n # 0 /\ (cps = <<>> \/ cps[Len(cps)].id < n)
  <2>1. new = Append(cps, cp) /\ cp \in Entry
    BY <1>1 DEF Written, Entry
  <2>2. /\ new \in Seq(Entry) /\ Len(new) = Len(cps) + 1
        /\ DOMAIN new = 1 .. Len(cps) + 1
        /\ new[Len(cps) + 1] = cp /\ \A i \in DOMAIN cps : new[i] = cps[i]
    BY <1>0, <2>1
  <2>3. cp.id = n /\ cp.value = value
    OBVIOUS
  <2> HIDE DEF new, cp
  <2>4. ASSUME NEW s \in 1 .. n, NEW moved \in Int
        PROVE  /\ \E i \in DOMAIN new : StopsAt(new, s, i)
               /\ At(new, s, moved) = At(cps, s, value)
    <3>1. CASE \A i \in DOMAIN cps : cps[i].id < s
      <4>1. Len(cps) + 1 \in DOMAIN new /\ StopsAt(new, s, Len(cps) + 1)
        BY <1>0, <2>2, <2>3, <3>1 DEF StopsAt
      <4>2. At(new, s, moved) = value
        BY <2>2, <2>3, <4>1, AtStop
      <4>3. At(cps, s, value) = value
        BY <3>1, AtEnd
      <4> QED
        BY <4>1, <4>2, <4>3
    <3>2. CASE \E i \in DOMAIN cps : StopsAt(cps, s, i)
      <4>1. PICK i \in DOMAIN cps : StopsAt(cps, s, i)
        BY <3>2
      <4>2. i \in DOMAIN new /\ StopsAt(new, s, i) /\ new[i] = cps[i]
        BY <1>0, <2>2, <4>1 DEF StopsAt
      <4>3. At(new, s, moved) = cps[i].value /\ At(cps, s, value) = cps[i].value
        BY <2>2, <4>1, <4>2, AtStop
      <4> QED
        BY <4>2, <4>3
    <3> QED
      BY <3>1, <3>2 DEF Scans
  <2>5. \A i \in DOMAIN new : new[i].id <= n
    BY <1>0, <2>2, <2>3 DEF Scans
  <2>6. \A s \in 1 .. n : \E i \in DOMAIN new : StopsAt(new, s, i)
    BY <2>4
  <2> QED
    BY <2>2, <2>4, <2>5, <2>6 DEF Scans, new
<1>2. CASE ~(n # 0 /\ (cps = <<>> \/ cps[Len(cps)].id < n))
  <2>1. new = cps
    BY <1>2 DEF Written
  <2>2. ASSUME NEW s \in 1 .. n, NEW moved \in Int
        PROVE  At(cps, s, moved) = At(cps, s, value)
    <3>1. Len(cps) \in DOMAIN cps /\ ~(cps[Len(cps)].id < s)
      BY <1>0, <1>2
    <3>2. PICK i \in DOMAIN cps : StopsAt(cps, s, i)
      BY <3>1 DEF Scans
    <3> QED
      BY <3>2, AtStop
  <2> QED
    BY <2>1, <2>2
<1> QED
  BY <1>1, <1>2

\* What is read of a snapshot just taken is the current value.
LEMMA NewestIsCurrent ==
  ASSUME NEW cps \in Seq(Entry), NEW n \in Nat, NEW value \in Int, Scans(cps, n)
  PROVE  At(cps, n + 1, value) = value /\ Scans(cps, n + 1)
<1>1. \A i \in DOMAIN cps : cps[i].id \in Nat /\ cps[i].id <= n
  BY Entries DEF Scans
<1>2. \A i \in DOMAIN cps : cps[i].id < n + 1 /\ cps[i].id <= n + 1
  BY <1>1
<1>3. At(cps, n + 1, value) = value
  BY <1>2, AtEnd
<1>4. \A s \in 1 .. n + 1 : s = n + 1 \/ s \in 1 .. n
  OBVIOUS
<1> QED
  BY <1>2, <1>3, <1>4 DEF Scans

-----------------------------------------------------------------------------
(* The steps. *)

LEMMA UpdateKeeps ==
  ASSUME Typed, ScanInv, NEW from, NEW to, NEW n \in Int, Update(from, to, n)
  PROVE  Typed' /\ ScanInv' /\ Snapshots' = Snapshots
<1> DEFINE listOf(h) == IF h \in Parties(from, to)
                        THEN Checkpointed(balanceCps[h], balance[h]) ELSE balanceCps[h]
           ofSupply == IF SupplyMoves(from, to) THEN Checkpointed(supplyCps, supply) ELSE supplyCps
<1>1. /\ balanceCps' = [h \in Holders |-> listOf(h)] /\ supplyCps' = ofSupply
      /\ currentSnapshotId' = currentSnapshotId /\ currentSnapshotId \in Nat
  BY DEF Update, Typed
<1>2. balance' \in [Holders -> Int] /\ supply' \in Int
      /\ \A h \in Holders : h \notin Parties(from, to) => balance'[h] = balance[h]
  BY DEF Update, Typed, Parties
<1>3. ~SupplyMoves(from, to) => supply' = supply
  BY DEF Update, Typed, SupplyMoves
<1>4. ASSUME NEW h \in Holders
      PROVE  /\ listOf(h) \in Seq(Entry) /\ Scans(listOf(h), currentSnapshotId)
             /\ \A s \in 1 .. currentSnapshotId :
                  At(listOf(h), s, balance'[h]) = At(balanceCps[h], s, balance[h])
  <2>1. balanceCps[h] \in Seq(Entry) /\ balance[h] \in Int
        /\ Scans(balanceCps[h], currentSnapshotId)
    BY DEF Typed, ScanInv
  <2>2. CASE h \in Parties(from, to)
    <3>1. listOf(h) = Written(balanceCps[h], currentSnapshotId, balance[h])
      BY <2>2 DEF Checkpointed, Written
    <3> DEFINE w == Written(balanceCps[h], currentSnapshotId, balance[h])
    <3>2. /\ w \in Seq(Entry) /\ Scans(w, currentSnapshotId)
          /\ \A s \in 1 .. currentSnapshotId, moved \in Int :
               At(w, s, moved) = At(balanceCps[h], s, balance[h])
      BY <1>1, <2>1, CheckpointKeeps
    <3>3. balance'[h] \in Int
      BY <1>2
    <3>4. listOf(h) \in Seq(Entry) /\ Scans(listOf(h), currentSnapshotId)
      BY <3>1, <3>2
    <3>5. ASSUME NEW s \in 1 .. currentSnapshotId
          PROVE  At(listOf(h), s, balance'[h]) = At(balanceCps[h], s, balance[h])
      <4>1. At(w, s, balance'[h]) = At(balanceCps[h], s, balance[h])
        BY <3>2, <3>3
      <4> QED
        BY <3>1, <4>1
    <3> QED
      BY <3>4, <3>5
  <2>3. CASE h \notin Parties(from, to)
    BY <1>2, <2>1, <2>3
  <2> QED
    BY <2>2, <2>3
<1>5. /\ ofSupply \in Seq(Entry) /\ Scans(ofSupply, currentSnapshotId)
      /\ \A s \in 1 .. currentSnapshotId : At(ofSupply, s, supply') = At(supplyCps, s, supply)
  <2>1. supplyCps \in Seq(Entry) /\ supply \in Int /\ Scans(supplyCps, currentSnapshotId)
    BY DEF Typed, ScanInv
  <2>2. CASE SupplyMoves(from, to)
    <3>1. ofSupply = Written(supplyCps, currentSnapshotId, supply)
      BY <2>2 DEF Checkpointed, Written
    <3> DEFINE w == Written(supplyCps, currentSnapshotId, supply)
    <3>2. /\ w \in Seq(Entry) /\ Scans(w, currentSnapshotId)
          /\ \A s \in 1 .. currentSnapshotId, moved \in Int :
               At(w, s, moved) = At(supplyCps, s, supply)
      BY <1>1, <2>1, CheckpointKeeps
    <3>4. ofSupply \in Seq(Entry) /\ Scans(ofSupply, currentSnapshotId)
      BY <3>1, <3>2
    <3>5. ASSUME NEW s \in 1 .. currentSnapshotId
          PROVE  At(ofSupply, s, supply') = At(supplyCps, s, supply)
      <4>1. At(w, s, supply') = At(supplyCps, s, supply)
        BY <1>2, <3>2
      <4> QED
        BY <3>1, <4>1
    <3> QED
      BY <3>4, <3>5
  <2>3. CASE ~SupplyMoves(from, to)
    BY <1>3, <2>1, <2>3
  <2> QED
    BY <2>2, <2>3
<1> HIDE DEF listOf, ofSupply
<1>6. Typed'
  BY <1>1, <1>2, <1>4, <1>5 DEF Typed
<1>7. ScanInv'
  BY <1>1, <1>4, <1>5 DEF ScanInv
<1>8. \A s \in 1 .. currentSnapshotId :
        /\ \A h \in Holders : BalanceOfAtSnapshot(s, h)' = BalanceOfAtSnapshot(s, h)
        /\ TotalSupplyAtSnapshot(s)' = TotalSupplyAtSnapshot(s)
  BY <1>1, <1>4, <1>5 DEF BalanceOfAtSnapshot, TotalSupplyAtSnapshot
<1>9. Snapshots' = Snapshots
  BY <1>1, <1>8 DEF Snapshots
<1> QED
  BY <1>6, <1>7, <1>9

LEMMA TakeAppends ==
  ASSUME Typed, ScanInv, TakeSnapshot
  PROVE  Typed' /\ ScanInv' /\ Promise!TakeSnapshot
<1> DEFINE n == currentSnapshotId
           now == [balance |-> balance, supply |-> supply]
           shown(s) == [balance |-> [h \in Holders |-> BalanceOfAtSnapshot(s, h)],
                        supply  |-> TotalSupplyAtSnapshot(s)]
<1>1. /\ n \in Nat /\ currentSnapshotId' = n + 1
      /\ UNCHANGED <<balance, supply, balanceCps, supplyCps>>
  BY DEF TakeSnapshot, Typed
<1>2. /\ \A h \in Holders : /\ At(balanceCps[h], n + 1, balance[h]) = balance[h]
                           /\ Scans(balanceCps[h], n + 1)
      /\ At(supplyCps, n + 1, supply) = supply /\ Scans(supplyCps, n + 1)
  BY <1>1, NewestIsCurrent DEF Typed, ScanInv
<1>3. Typed' /\ ScanInv'
  BY <1>1, <1>2 DEF Typed, ScanInv
<1>4. \A s \in 1 .. n + 1 : shown(s)' = shown(s)
  BY <1>1 DEF BalanceOfAtSnapshot, TotalSupplyAtSnapshot
<1>5. shown(n + 1) = now
  <2>1. balance = [h \in Holders |-> balance[h]]
    BY DEF Typed
  <2> QED
    BY <1>2, <2>1 DEF BalanceOfAtSnapshot, TotalSupplyAtSnapshot
<1>6. Snapshots = [s \in 1 .. n |-> shown(s)] /\ Snapshots' = [s \in 1 .. n + 1 |-> shown(s)']
  BY <1>1 DEF Snapshots
<1> HIDE DEF shown, now
<1>7. Snapshots' = Append(Snapshots, now)
  <2> DEFINE old == [s \in 1 .. n |-> shown(s)]
             new == [s \in 1 .. n + 1 |-> shown(s)']
             T == {shown(s) : s \in 1 .. n} \cup {now}
  <2>1. old \in Seq(T) /\ Len(old) = n
    BY <1>1
  <2>2. Append(old, now) = [s \in 1 .. n + 1 |-> IF s = n + 1 THEN now ELSE old[s]]
    BY <1>1, <2>1
  <2>3. \A s \in 1 .. n + 1 : new[s] = IF s = n + 1 THEN now ELSE old[s]
    BY <1>1, <1>4, <1>5
  <2> QED
    BY <1>6, <2>2, <2>3
<1> QED
  BY <1>1, <1>3, <1>7 DEF Promise!TakeSnapshot, now

LEMMA QuietKeeps ==
  ASSUME Typed, ScanInv, UNCHANGED <<balance, supply, snapVars>>
  PROVE  Typed' /\ ScanInv' /\ Snapshots' = Snapshots
BY DEF Typed, ScanInv, Snapshots, BalanceOfAtSnapshot, TotalSupplyAtSnapshot, snapVars

LEMMA StepImplements ==
  ASSUME Typed, ScanInv, [Next]_vars
  PROVE  Typed' /\ ScanInv' /\ [Promise!Next]_(Promise!vars)
<1>1. CASE TakeSnapshot
  BY <1>1, TakeAppends DEF Promise!Next
<1>2. ASSUME NEW from, NEW to, NEW n \in Int, Update(from, to, n)
      PROVE  Typed' /\ ScanInv' /\ Promise!Next
  BY <1>2, UpdateKeeps DEF Promise!Next, Promise!Move
<1>3. ASSUME NEW from \in Holders, NEW to \in Holders, NEW n \in 0 .. MaxSupply,
             Transfer(from, to, n)
      PROVE  Typed' /\ ScanInv' /\ Promise!Next
  BY <1>2, <1>3, BondAssumption DEF Transfer, CanTransfer
<1>4. ASSUME NEW to \in Holders, NEW n \in 0 .. MaxSupply, Mint(to, n)
      PROVE  Typed' /\ ScanInv' /\ Promise!Next
  BY <1>2, <1>4, BondAssumption DEF Mint
<1>5. ASSUME NEW h \in Holders, FullRedeemAtMaturity(h)
      PROVE  Typed' /\ ScanInv' /\ Promise!Next
  BY <1>2, <1>5 DEF FullRedeemAtMaturity, Typed
<1>6. CASE Comply \/ Mature \/ UNCHANGED vars
  <2>1. UNCHANGED <<balance, supply, snapVars>>
    BY <1>6 DEF Comply, Mature, vars
  <2> QED
    BY <2>1, QuietKeeps DEF Promise!Next, Promise!Move
<1> QED
  BY <1>1, <1>3, <1>4, <1>5, <1>6 DEF Next

LEMMA InitImplements ==
  ASSUME Init
  PROVE  Typed /\ ScanInv /\ Promise!Init
<1>1. Typed /\ ScanInv
  BY DEF Init, Typed, ScanInv, Scans
<1>2. Snapshots = <<>>
  BY DEF Init, Snapshots
<1> QED
  BY <1>1, <1>2 DEF Init, Promise!Init

\* A snapshot of the token shows for ever what was true when it was taken,
\* although nothing is copied then: lazy checkpoints implement eager snapshots.
THEOREM LazyIsEager == Spec => ImplementsPromise
<1>1. Spec => [](Typed /\ ScanInv)
  BY InitImplements, StepImplements, PTL DEF Spec
<1> QED
  BY <1>1, InitImplements, StepImplements, PTL DEF Spec, ImplementsPromise, Promise!Spec

-----------------------------------------------------------------------------
(* The books add up. *)

CurrentAddsUp == SumOver(balance, Holders) = supply
PastAddsUp ==
  \A s \in 1 .. currentSnapshotId :
    SumOver(Snapshots[s].balance, Holders) = Snapshots[s].supply

BooksInv == Typed /\ ScanInv /\ TypeOK /\ CurrentAddsUp /\ PastAddsUp

LEMMA TwoParts == AddsUp <=> CurrentAddsUp /\ PastAddsUp
BY DEF AddsUp, CurrentAddsUp, PastAddsUp, Snapshots

\* One holder's tokens, or nobody's, change by d.
LEMMA OneChanges ==
  ASSUME NEW f \in [Holders -> Int], NEW g \in [Holders -> Int], NEW d \in Int, NEW X,
         X = {} \/ \E x \in Holders : X = {x},
         \A h \in X : g[h] = f[h] + d, \A h \in Holders \ X : g[h] = f[h]
  PROVE  /\ X = {} => SumOver(g, Holders) = SumOver(f, Holders)
         /\ X # {} => SumOver(g, Holders) = SumOver(f, Holders) + d
<1>1. IsFiniteSet(Holders) /\ \A h \in Holders : f[h] \in Int /\ g[h] \in Int
  BY BondAssumption
<1>2. SumOver(f, Holders) \in Int
  BY <1>1, SumInt
<1>3. CASE X = {}
  <2>1. \A h \in Holders : f[h] = g[h]
    BY <1>1, <1>3
  <2> QED
    BY <1>1, <1>2, <1>3, <2>1, SumEqual
<1>4. CASE \E x \in Holders : X = {x}
  <2>1. PICK x \in Holders : X = {x}
    BY <1>4
  <2>2. g[x] = f[x] + d /\ \A h \in Holders \ {x} : g[h] = f[h]
    BY <1>1, <2>1
  <2>3. SumOver(g, Holders) = SumOver(f, Holders) - f[x] + g[x]
    BY <1>1, <2>2, SumChange
  <2> QED
    BY <1>1, <1>2, <2>1, <2>2, <2>3
<1> QED
  BY <1>3, <1>4

\* Tokens that change hands, appear or go change the sum by as much as the supply.
LEMMA UpdateAddsUp ==
  ASSUME Typed, CurrentAddsUp, NEW from, NEW to, NEW n \in Nat,
         from = {} \/ \E x \in Holders : from = {x},
         to = {} \/ \E x \in Holders : to = {x},
         Update(from, to, n)
  PROVE  CurrentAddsUp'
<1>1. balance \in [Holders -> Int] /\ supply \in Int /\ n \in Int /\ 0 - n \in Int
  BY DEF Typed
<1>2. PICK mid \in [Holders -> Int] :
        \A h \in Holders : mid[h] = balance[h] + (IF h \in from THEN 0 - n ELSE 0)
  <2>1. [h \in Holders |-> balance[h] + (IF h \in from THEN 0 - n ELSE 0)] \in [Holders -> Int]
    BY <1>1
  <2> QED
    BY <2>1
<1>3. PICK after \in [Holders -> Int] :
        after = balance' /\ \A h \in Holders : after[h] = mid[h] + (IF h \in to THEN n ELSE 0)
  <2>1. balance' \in [Holders -> Int]
        /\ \A h \in Holders : balance'[h] = mid[h] + (IF h \in to THEN n ELSE 0)
    BY <1>1, <1>2 DEF Update
  <2> QED
    BY <2>1
<1>4. /\ from = {} => SumOver(mid, Holders) = SumOver(balance, Holders)
      /\ from # {} => SumOver(mid, Holders) = SumOver(balance, Holders) + (0 - n)
  <2>1. /\ \A h \in from : mid[h] = balance[h] + (0 - n)
        /\ \A h \in Holders \ from : mid[h] = balance[h]
    BY <1>1, <1>2
  <2> QED
    BY <1>1, <2>1, OneChanges, Zenon
<1>5. /\ to = {} => SumOver(after, Holders) = SumOver(mid, Holders)
      /\ to # {} => SumOver(after, Holders) = SumOver(mid, Holders) + n
  <2>1. /\ \A h \in to : after[h] = mid[h] + n
        /\ \A h \in Holders \ to : after[h] = mid[h]
    BY <1>1, <1>3
  <2> QED
    BY <1>1, <2>1, OneChanges, Zenon
<1>6. supply' = supply + (IF from = {} THEN n ELSE 0) - (IF to = {} THEN n ELSE 0)
  BY DEF Update
<1>7. SumOver(balance', Holders) = supply'
  BY <1>1, <1>3, <1>4, <1>5, <1>6 DEF CurrentAddsUp
<1> QED
  BY <1>7 DEF CurrentAddsUp

\* A checkpoint holds a balance or a supply that was never negative.
LEMMA CheckpointedNat ==
  ASSUME NEW cps \in Seq(Checkpoint), NEW value \in Nat, currentSnapshotId \in Nat
  PROVE  Checkpointed(cps, value) \in Seq(Checkpoint)
<1>1. [id |-> currentSnapshotId, value |-> value] \in Checkpoint
  BY DEF Checkpoint
<1>2. Append(cps, [id |-> currentSnapshotId, value |-> value]) \in Seq(Checkpoint)
  BY <1>1
<1> QED
  BY <1>2 DEF Checkpointed

LEMMA UpdateTypes ==
  ASSUME TypeOK, NEW from, NEW to, NEW n \in Nat,
         \A h \in from \cap Holders : n <= balance[h], Update(from, to, n), supply' \in Nat
  PROVE  TypeOK'
<1>1. balance' \in [Holders -> Nat]
  <2>1. ASSUME NEW h \in Holders
        PROVE  balance[h] - (IF h \in from THEN n ELSE 0) + (IF h \in to THEN n ELSE 0) \in Nat
    <3>1. balance[h] \in Nat /\ (h \in from => n <= balance[h])
      BY DEF TypeOK
    <3> QED
      BY <3>1
  <2> QED
    BY <2>1 DEF Update
<1>2. balanceCps' \in [Holders -> Seq(Checkpoint)]
  <2>1. \A h \in Holders : balanceCps[h] \in Seq(Checkpoint)
                           /\ Checkpointed(balanceCps[h], balance[h]) \in Seq(Checkpoint)
    BY CheckpointedNat DEF TypeOK
  <2> QED
    BY <2>1 DEF Update
<1>3. supplyCps' \in Seq(Checkpoint)
  BY CheckpointedNat DEF Update, TypeOK
<1> QED
  BY <1>1, <1>2, <1>3 DEF Update, ruleVars, TypeOK

\* Any movement of tokens keeps the books, if the sender has them.
LEMMA UpdateBooks ==
  ASSUME BooksInv, NEW from, NEW to, NEW n \in Nat,
         from = {} \/ \E x \in Holders : from = {x},
         to = {} \/ \E x \in Holders : to = {x},
         \A h \in from \cap Holders : n <= balance[h],
         from # {} \/ to # {}, Update(from, to, n)
  PROVE  BooksInv'
<1>1. Typed' /\ ScanInv' /\ Snapshots' = Snapshots
  BY UpdateKeeps DEF BooksInv
<1>2. CurrentAddsUp'
  BY UpdateAddsUp DEF BooksInv
<1>3. supply' \in Nat
  <2>1. \A h \in Holders : balance[h] \in Nat /\ balance[h] <= supply
    BY SumNat, BondAssumption DEF BooksInv, TypeOK, CurrentAddsUp
  <2>2. supply \in Nat /\ supply' = supply + (IF from = {} THEN n ELSE 0) - (IF to = {} THEN n ELSE 0)
    BY DEF BooksInv, TypeOK, Update
  <2>3. to = {} => n <= supply
    BY <2>1, <2>2
  <2> QED
    BY <2>2, <2>3
<1>4. TypeOK'
  BY <1>3, UpdateTypes DEF BooksInv
<1>5. PastAddsUp'
  BY <1>1 DEF BooksInv, PastAddsUp, Update
<1> QED
  BY <1>1, <1>2, <1>4, <1>5 DEF BooksInv

LEMMA TakeBooks ==
  ASSUME BooksInv, TakeSnapshot
  PROVE  BooksInv'
<1>1. Typed' /\ ScanInv' /\ Snapshots' = Append(Snapshots, [balance |-> balance, supply |-> supply])
  BY TakeAppends DEF BooksInv, Promise!TakeSnapshot
<1>2. /\ currentSnapshotId \in Nat /\ currentSnapshotId' = currentSnapshotId + 1
      /\ UNCHANGED <<balance, supply, balanceCps, supplyCps, ruleVars, mature>>
  BY DEF TakeSnapshot, BooksInv, TypeOK
<1>3. TypeOK' /\ CurrentAddsUp'
  BY <1>2 DEF BooksInv, TypeOK, CurrentAddsUp, ruleVars
<1>4. PastAddsUp'
  <2> DEFINE now == [balance |-> balance, supply |-> supply]
  <2>1. Snapshots \in Seq({Snapshots[s] : s \in 1 .. currentSnapshotId})
        /\ Len(Snapshots) = currentSnapshotId
    BY <1>2 DEF Snapshots
  <2>2. \A s \in 1 .. currentSnapshotId + 1 :
          Snapshots'[s] = IF s = currentSnapshotId + 1 THEN now ELSE Snapshots[s]
    BY <1>1, <1>2, <2>1
  <2>3. SumOver(now.balance, Holders) = now.supply
    BY DEF BooksInv, CurrentAddsUp
  <2> HIDE DEF now
  <2>4. ASSUME NEW s \in 1 .. currentSnapshotId + 1
        PROVE  SumOver(Snapshots'[s].balance, Holders) = Snapshots'[s].supply
    BY <1>2, <2>2, <2>3 DEF BooksInv, PastAddsUp
  <2> QED
    BY <1>2, <2>4 DEF PastAddsUp
<1> QED
  BY <1>1, <1>3, <1>4 DEF BooksInv

LEMMA QuietBooks ==
  ASSUME BooksInv, UNCHANGED <<balance, supply, snapVars>>,
         kyc' \subseteq Holders, frozen' \subseteq Holders, paused' \in BOOLEAN, mature' \in BOOLEAN
  PROVE  BooksInv'
<1>1. Typed' /\ ScanInv' /\ Snapshots' = Snapshots
  BY QuietKeeps DEF BooksInv
<1> QED
  BY <1>1 DEF BooksInv, TypeOK, CurrentAddsUp, PastAddsUp, snapVars

LEMMA StepBooks ==
  ASSUME BooksInv, [Next]_vars
  PROVE  BooksInv'
<1>1. CASE TakeSnapshot
  BY <1>1, TakeBooks
<1>2. ASSUME NEW from \in Holders, NEW to \in Holders, NEW n \in 0 .. MaxSupply,
             Transfer(from, to, n)
      PROVE  BooksInv'
  <2>1. n \in Nat /\ n <= balance[from] /\ Update({from}, {to}, n)
    BY <1>2, BondAssumption DEF Transfer, CanTransfer, Enough
  <2> QED
    BY <2>1, UpdateBooks
<1>3. ASSUME NEW to \in Holders, NEW n \in 0 .. MaxSupply, Mint(to, n)
      PROVE  BooksInv'
  <2>1. n \in Nat /\ Update({}, {to}, n)
    BY <1>3, BondAssumption DEF Mint
  <2> QED
    BY <2>1, UpdateBooks
<1>4. ASSUME NEW h \in Holders, FullRedeemAtMaturity(h)
      PROVE  BooksInv'
  <2>1. balance[h] \in Nat /\ Update({h}, {}, balance[h])
    BY <1>4 DEF FullRedeemAtMaturity, BooksInv, TypeOK
  <2> QED
    BY <2>1, UpdateBooks
<1>5. CASE Comply \/ Mature \/ UNCHANGED vars
  <2>1. /\ UNCHANGED <<balance, supply, snapVars>>
        /\ kyc' \subseteq Holders /\ frozen' \subseteq Holders
        /\ paused' \in BOOLEAN /\ mature' \in BOOLEAN
    BY <1>5 DEF Comply, GrantKyc, RevokeKyc, SetAddressFrozen, Pause, Unpause, Mature, vars,
                ruleVars, BooksInv, TypeOK
  <2> QED
    BY <2>1, QuietBooks
<1> QED
  BY <1>1, <1>2, <1>3, <1>4, <1>5 DEF Next

LEMMA InitBooks == Init => BooksInv
<1> SUFFICES ASSUME Init PROVE BooksInv
  OBVIOUS
<1>1. Typed /\ ScanInv
  BY InitImplements
<1>2. SumOver(balance, Holders) = 0
  <2>1. \A h \in Holders : balance[h] \in Int /\ 1 * balance[h] <= 0 * balance[h] + 0
    BY DEF Init
  <2>2. 1 * SumOver(balance, Holders) <= 0 * SumOver(balance, Holders) + 0 * Cardinality(Holders)
    <3>1. 0 \in Int /\ 1 \in Int /\ IsFiniteSet(Holders)
      BY BondAssumption
    <3> QED
      BY <2>1, <3>1, SumCompare, Zenon
  <2>3. SumOver(balance, Holders) \in Nat /\ Cardinality(Holders) \in Nat
    BY SumNat, FS_CardinalityType, BondAssumption DEF Init
  <2> QED
    BY <2>2, <2>3
<1>3. TypeOK
  <2>1. <<>> \in Seq(Checkpoint)
    OBVIOUS
  <2>2. balanceCps \in [Holders -> Seq(Checkpoint)] /\ supplyCps \in Seq(Checkpoint)
    BY <2>1, Zenon DEF Init
  <2>3. balance \in [Holders -> Nat]
    BY DEF Init
  <2> QED
    BY <2>2, <2>3 DEF Init, TypeOK
<1> QED
  BY <1>1, <1>2, <1>3 DEF BooksInv, CurrentAddsUp, PastAddsUp, Init

\* No balance, no supply and no checkpoint is ever negative, and the balances add
\* up to the supply now and in every snapshot: no pro-rata share exceeds the whole.
THEOREM Books == Spec => []BooksAddUp
<1>1. BooksInv => BooksAddUp
  BY TwoParts DEF BooksInv, BooksAddUp
<1> QED
  BY <1>1, InitBooks, StepBooks, PTL DEF Spec
-----------------------------------------------------------------------------
(* The Eligibility and Compliance pages. *)

\* The three checks, of which the first that fails is named.
LEMMA RefusalIs ==
  ASSUME NEW i \in Holders, NEW h \in Holders
  PROVE  /\ Refusal(i, h) \in Refusals \/ Refusal(i, h) = "none"
         /\ Refusal(i, h) = "none" <=> ~paused /\ {i, h} \cap frozen = {} /\ {i, h} \subseteq kyc
<1>1. CASE paused
  BY <1>1 DEF Refusal, Refusals
<1>2. CASE ~paused /\ {i, h} \cap frozen # {}
  BY <1>2 DEF Refusal, Refusals
<1>3. CASE ~paused /\ {i, h} \cap frozen = {} /\ ~({i, h} \subseteq kyc)
  BY <1>3 DEF Refusal, Refusals
<1>4. CASE ~paused /\ {i, h} \cap frozen = {} /\ {i, h} \subseteq kyc
  BY <1>4 DEF Refusal, Refusals
<1> QED
  BY <1>1, <1>2, <1>3, <1>4

\* The pages' probe passes, and the market's fails at most for the balance, when
\* nothing is refused.
LEMMA ProbesAgree ==
  ASSUME NEW i \in Holders, NEW h \in Holders
  PROVE  /\ Decision(i, h) = "pass" <=> Refusal(i, h) = "none"
         /\ MarketProbe(i, h, 1) \in Refusals <=> Refusal(i, h) # "none"
<1>1. CASE Refusal(i, h) = "none"
  BY <1>1 DEF Decision, IsAllowanceOnly, Probe, MarketProbe, Refusals
<1>2. CASE Refusal(i, h) # "none"
  BY <1>2, RefusalIs DEF Decision, IsAllowanceOnly, Probe, MarketProbe, Refusals
<1> QED
  BY <1>1, <1>2

-----------------------------------------------------------------------------
(* The API's answer. *)

\* A status that is not the bond's any more was its within the age of its entry.
EntryAged ==
  entry # None /\ entry.status # Unread /\ entry.status # status => steady <= entry.age

\* A question has seen the status and the KYC of now, and the status it was given.
QuestionSees ==
  Asked => /\ status \in question.seen /\ KycOf(question.wallet, kyc) \in question.held
           /\ question.status # Unread => question.status \in question.seen

DeskInv == DeskTypeOK /\ EntryAged /\ QuestionSees /\ AnswerIsRecent

\* The reason that is given is what was read.
LEMMA ReasonIs ==
  ASSUME NEW account \in BOOLEAN, NEW standing \in {"granted", "none"}, NEW read \in Statuses
  PROVE  /\ Reason(account, standing, read) \in Reasons
         /\ Reason(account, standing, read) = "no-kyc" => standing = "none"
         /\ Reason(account, standing, read) = "bond-not-active" =>
              standing = "granted" /\ read = "NotActive"
         /\ Reason(account, standing, read) = "kyc-granted" =>
              standing = "granted" /\ read = "Active"
<1>1. CASE ~account
  BY <1>1 DEF Reason, Reasons
<1>2. CASE account /\ standing = "none"
  BY <1>2 DEF Reason, Reasons
<1>3. CASE account /\ standing # "none" /\ read # "Active"
  BY <1>3 DEF Reason, Reasons, Statuses
<1>4. CASE account /\ standing # "none" /\ read = "Active"
  BY <1>4 DEF Reason, Reasons
<1> QED
  BY <1>1, <1>2, <1>3, <1>4

LEMMA KycTypes ==
  ASSUME NEW h, NEW granted
  PROVE  KycOf(h, granted) \in {"granted", "none"}
BY DEF KycOf

\* What was so since the time to live of a fresh entry.
LEMMA FreshIsLately ==
  ASSUME DeskTypeOK, EntryAged, Fresh
  PROVE  entry.status # Unread => entry.status \in Lately
<1> SUFFICES ASSUME entry.status # Unread PROVE entry.status \in Lately
  OBVIOUS
<1>1. entry # None /\ entry.age < Ttl
  BY DEF Fresh
<1>2. entry.status \in Statuses /\ entry.age \in Nat /\ steady \in Nat /\ status \in Statuses
  BY <1>1 DEF DeskTypeOK
<1>3. CASE entry.status = status
  BY <1>2, <1>3 DEF Lately
<1>4. CASE entry.status # status
  <2>1. steady < Ttl
    BY <1>1, <1>2, <1>4, DeskAssumption DEF EntryAged
  <2> QED
    BY <1>2, <2>1 DEF Lately
<1> QED
  BY <1>3, <1>4

LEMMA LatelyTypes == DeskTypeOK => Lately \subseteq Statuses /\ status \in Lately
BY DEF DeskTypeOK, Lately

\* What no answer depends on may change.
LEMMA AskKeeps ==
  ASSUME DeskInv, NEW h \in Holders, Ask(h)
  PROVE  DeskInv'
<1>1. /\ ~Asked /\ status' = status /\ steady' = steady /\ kyc' = kyc
      /\ entry' = IF Fresh THEN entry ELSE [status |-> Unread, age |-> 0]
      /\ question' = [wallet |-> h, shared |-> TRUE, status |-> entry'.status, reason |-> None,
                      seen |-> Lately, held |-> {KycOf(h, kyc)}]
  BY DEF Ask, vars, ruleVars
<1>2. entry' \in [status : Statuses \cup {Unread}, age : 0 .. Ttl]
      /\ EntryAged' /\ (entry'.status # Unread => entry'.status \in Lately)
  <2>1. CASE Fresh
    BY <1>1, <2>1, FreshIsLately DEF DeskInv, DeskTypeOK, EntryAged, Fresh
  <2>2. CASE ~Fresh
    BY <1>1, <2>2, DeskAssumption DEF EntryAged
  <2> QED
    BY <2>1, <2>2
<1>3. question' \in Question
  BY <1>1, <1>2, LatelyTypes, KycTypes DEF DeskInv, Question
<1>4. QuestionSees'
  BY <1>1, <1>2, LatelyTypes DEF DeskInv, QuestionSees, KycOf
<1>5. AnswerIsRecent'
  BY <1>1 DEF AnswerIsRecent, Waits, Asked
<1> QED
  BY <1>1, <1>2, <1>3, <1>4, <1>5 DEF DeskInv, DeskTypeOK

\* A question whose promise leaves the cache, or that ends, says what it said.
LEMMA LeavesCache ==
  ASSUME DeskInv, UNCHANGED <<vars, status, steady>>,
         entry' \in {None} \cup [status : Statuses \cup {Unread}, age : 0 .. Ttl], EntryAged',
         question' \in {None, question, Detached}
  PROVE  DeskInv'
<1>1. status' = status /\ steady' = steady /\ kyc' = kyc
  BY DEF vars, ruleVars
<1>2. CASE question' = None
  BY <1>1, <1>2 DEF DeskInv, DeskTypeOK, QuestionSees, AnswerIsRecent, Asked
<1>3. CASE question # None /\ question' \in {question, Detached}
  <2>1. question \in Question
    BY <1>3 DEF DeskInv, DeskTypeOK
  <2>2. /\ question' \in Question
        /\ question'.wallet = question.wallet /\ question'.status = question.status
        /\ question'.reason = question.reason
        /\ question'.seen = question.seen /\ question'.held = question.held
    BY <1>3, <2>1 DEF Detached, Asked, Question
  <2>3. QuestionSees'
    BY <1>1, <1>3, <2>2 DEF DeskInv, QuestionSees, Asked, KycOf
  <2>4. AnswerIsRecent'
    BY <1>1, <1>3, <2>2 DEF DeskInv, AnswerIsRecent, Asked, Waits, CanHold
  <2> QED
    BY <1>1, <2>2, <2>3, <2>4 DEF DeskInv, DeskTypeOK
<1>4. question = None => Detached = None
  BY DEF Detached, Asked
<1> QED
  BY <1>2, <1>3, <1>4

\* A question that is given the status of now.
LEMMA GivenStatus ==
  ASSUME DeskInv, UNCHANGED <<vars, status, steady>>,
         entry' \in {None} \cup [status : Statuses \cup {Unread}, age : 0 .. Ttl], EntryAged',
         Waits, question' = [question EXCEPT !.status = status]
  PROVE  DeskInv'
<1>1. status' = status /\ steady' = steady /\ kyc' = kyc
  BY DEF vars, ruleVars
<1>2. question # None /\ question \in Question /\ status \in Statuses
  BY DEF Waits, Asked, DeskInv, DeskTypeOK
<1>3. /\ question' \in Question
      /\ question'.wallet = question.wallet /\ question'.status = status
      /\ question'.reason = question.reason
      /\ question'.seen = question.seen /\ question'.held = question.held
  BY <1>2 DEF Question
<1>4. QuestionSees'
  BY <1>1, <1>2, <1>3 DEF DeskInv, QuestionSees, Asked, KycOf
<1>5. AnswerIsRecent'
  BY <1>1, <1>3 DEF AnswerIsRecent, Asked, Waits, CanHold
<1> QED
  BY <1>1, <1>3, <1>4, <1>5 DEF DeskInv, DeskTypeOK

LEMMA AnswerKeeps ==
  ASSUME DeskInv, NEW account \in BOOLEAN, Answer(account)
  PROVE  DeskInv'
<1> DEFINE given == Reason(account, KycOf(question.wallet, kyc), question.status)
<1>1. status' = status /\ steady' = steady /\ entry' = entry /\ kyc' = kyc
  BY DEF Answer, vars, ruleVars
<1>2. /\ question # None /\ question \in Question /\ question.status \in Statuses
      /\ question.status \in question.seen /\ KycOf(question.wallet, kyc) \in question.held
      /\ status \in question.seen
  BY DEF Answer, Waits, Asked, DeskInv, DeskTypeOK, Question, QuestionSees
<1>3. /\ given \in Reasons
      /\ given = "no-kyc" => "none" \in question.held
      /\ given = "bond-not-active" => "NotActive" \in question.seen /\ "granted" \in question.held
      /\ given = "kyc-granted" => "Active" \in question.seen /\ "granted" \in question.held
  BY <1>2, ReasonIs, KycTypes
<1>4. question' = [question EXCEPT !.reason = given]
  BY DEF Answer
<1> HIDE DEF given
<1>5. /\ question' \in Question
      /\ question'.wallet = question.wallet /\ question'.status = question.status
      /\ question'.reason = given
      /\ question'.seen = question.seen /\ question'.held = question.held
  BY <1>2, <1>3, <1>4 DEF Question
<1>6. QuestionSees'
  BY <1>1, <1>2, <1>5 DEF QuestionSees, Asked, KycOf
<1>7. AnswerIsRecent'
  BY <1>3, <1>5 DEF AnswerIsRecent, CanHold
<1>8. EntryAged'
  BY <1>1 DEF DeskInv, EntryAged
<1> QED
  BY <1>1, <1>5, <1>6, <1>7, <1>8 DEF DeskInv, DeskTypeOK

\* A change of the bond's status or of the lists is seen by the question on its way.
LEMMA ChangeIsSeen ==
  ASSUME DeskInv, NEW s, NEW k,
         entry' = entry, status' \in Statuses, steady' \in 0 .. Ttl, EntryAged',
         question' = IF Asked THEN [question EXCEPT !.seen = s, !.held = k] ELSE None,
         Asked => /\ s \subseteq Statuses /\ question.seen \cup {status'} \subseteq s
                  /\ k \subseteq {"granted", "none"}
                  /\ question.held \cup {KycOf(question.wallet, kyc')} \subseteq k
  PROVE  DeskInv'
<1>1. CASE ~Asked
  BY <1>1 DEF DeskInv, DeskTypeOK, QuestionSees, AnswerIsRecent, Asked
<1>2. CASE Asked
  <2>1. question # None /\ question \in Question
    BY <1>2 DEF Asked, DeskInv, DeskTypeOK
  <2>2. /\ question' \in Question
        /\ question'.wallet = question.wallet /\ question'.status = question.status
        /\ question'.reason = question.reason
        /\ question'.seen = s /\ question'.held = k
    BY <1>2, <2>1 DEF Question
  <2>3. QuestionSees'
    BY <1>2, <2>1, <2>2 DEF DeskInv, QuestionSees, KycOf
  <2>4. AnswerIsRecent'
    BY <1>2, <2>2 DEF DeskInv, AnswerIsRecent, Waits, CanHold, Asked
  <2> QED
    BY <2>2, <2>3, <2>4 DEF DeskInv, DeskTypeOK
<1> QED
  BY <1>1, <1>2

LEMMA StatusMovesKeeps ==
  ASSUME DeskInv, StatusMoves
  PROVE  DeskInv'
<1> DEFINE s == question.seen \cup {status'}
           k == question.held
<1>1. entry' = entry /\ status' \in Statuses /\ steady' = 0 /\ kyc' = kyc
  BY DEF StatusMoves, vars, ruleVars
<1>2. EntryAged' /\ steady' \in 0 .. Ttl
  BY <1>1, DeskAssumption DEF DeskInv, DeskTypeOK, EntryAged
<1>3. question' = IF Asked THEN [question EXCEPT !.seen = s, !.held = k] ELSE None
  <2>1. CASE Asked
    <3>1. question \in Question
      BY <2>1 DEF Asked, DeskInv, DeskTypeOK
    <3> QED
      BY <2>1, <3>1 DEF StatusMoves, Question
  <2>2. CASE ~Asked
    BY <2>2 DEF StatusMoves
  <2> QED
    BY <2>1, <2>2
<1>4. Asked => /\ s \subseteq Statuses /\ question.seen \cup {status'} \subseteq s
               /\ k \subseteq {"granted", "none"}
               /\ question.held \cup {KycOf(question.wallet, kyc')} \subseteq k
  BY <1>1 DEF Asked, DeskInv, DeskTypeOK, Question, QuestionSees
<1> QED
  BY <1>1, <1>2, <1>3, <1>4, ChangeIsSeen

LEMMA TokenMovesKeeps ==
  ASSUME DeskInv, TokenMoves
  PROVE  DeskInv'
<1> DEFINE s == question.seen
           k == question.held \cup {KycOf(question.wallet, kyc')}
<1>1. entry' = entry /\ status' = status /\ steady' = steady
  BY DEF TokenMoves
<1>2. EntryAged' /\ steady' \in 0 .. Ttl /\ status' \in Statuses
  BY <1>1 DEF DeskInv, DeskTypeOK, EntryAged
<1>3. question' = IF Asked THEN [question EXCEPT !.seen = s, !.held = k] ELSE None
  <2>1. CASE Asked
    <3>1. question \in Question
      BY <2>1 DEF Asked, DeskInv, DeskTypeOK
    <3> QED
      BY <2>1, <3>1 DEF TokenMoves, Question
  <2>2. CASE ~Asked
    BY <2>2 DEF TokenMoves
  <2> QED
    BY <2>1, <2>2
<1>4. Asked => /\ s \subseteq Statuses /\ question.seen \cup {status'} \subseteq s
               /\ k \subseteq {"granted", "none"}
               /\ question.held \cup {KycOf(question.wallet, kyc')} \subseteq k
  BY <1>1, KycTypes DEF Asked, DeskInv, DeskTypeOK, Question, QuestionSees
<1> QED
  BY <1>1, <1>2, <1>3, <1>4, ChangeIsSeen

LEMMA TickKeeps ==
  ASSUME DeskInv, Tick
  PROVE  DeskInv'
<1>1. /\ status' = status /\ kyc' = kyc /\ question' = question
      /\ steady' = Older(steady)
      /\ entry' = IF entry = None THEN None ELSE [entry EXCEPT !.age = Older(@)]
  BY DEF Tick, vars, ruleVars
<1>2. \A n \in 0 .. Ttl : Older(n) \in 0 .. Ttl
  BY DeskAssumption DEF Older
<1>3. \A m, n \in 0 .. Ttl : m <= n => Older(m) <= Older(n)
  BY DeskAssumption DEF Older
<1>4. entry' \in {None} \cup [status : Statuses \cup {Unread}, age : 0 .. Ttl] /\ EntryAged'
  <2>1. CASE entry = None
    BY <1>1, <2>1 DEF EntryAged
  <2>2. CASE entry # None
    <3>1. entry \in [status : Statuses \cup {Unread}, age : 0 .. Ttl] /\ steady \in 0 .. Ttl
      BY <2>2 DEF DeskInv, DeskTypeOK
    <3>2. /\ entry' \in [status : Statuses \cup {Unread}, age : 0 .. Ttl]
          /\ entry'.status = entry.status /\ entry'.age = Older(entry.age)
      BY <1>1, <1>2, <2>2, <3>1
    <3>3. EntryAged'
      BY <1>1, <1>3, <2>2, <3>1, <3>2 DEF DeskInv, EntryAged
    <3> QED
      BY <3>2, <3>3
  <2> QED
    BY <2>1, <2>2
<1>5. QuestionSees' /\ AnswerIsRecent'
  BY <1>1 DEF DeskInv, QuestionSees, AnswerIsRecent, Asked, Waits, CanHold, KycOf
<1> QED
  BY <1>1, <1>2, <1>4, <1>5 DEF DeskInv, DeskTypeOK

LEMMA StepDesk == DeskInv /\ [DeskNext]_<<vars, deskVars>> => DeskInv'
<1> SUFFICES ASSUME DeskInv, [DeskNext]_<<vars, deskVars>> PROVE DeskInv'
  OBVIOUS
<1>1. ASSUME NEW h \in Holders, Ask(h) PROVE DeskInv'
  BY <1>1, AskKeeps
<1>2. ASSUME NEW account \in BOOLEAN, Answer(account) PROVE DeskInv'
  BY <1>2, AnswerKeeps
<1>3. CASE OthersAsk
  <2>1. entry' = [status |-> Unread, age |-> 0] /\ question' = Detached
        /\ UNCHANGED <<vars, status, steady>>
    BY <1>3 DEF OthersAsk
  <2>2. entry' \in {None} \cup [status : Statuses \cup {Unread}, age : 0 .. Ttl] /\ EntryAged'
    BY <2>1, DeskAssumption DEF EntryAged
  <2> QED
    BY <2>1, <2>2, LeavesCache
<1>4. CASE ReadTerms
  <2>1. /\ UNCHANGED <<vars, status, steady>> /\ entry # None
        /\ entry' = [entry EXCEPT !.status = status]
        /\ question' = IF Waits /\ question.shared THEN [question EXCEPT !.status = status]
                       ELSE question
    BY <1>4 DEF ReadTerms
  <2>2. entry' \in {None} \cup [status : Statuses \cup {Unread}, age : 0 .. Ttl] /\ EntryAged'
    BY <2>1 DEF DeskInv, DeskTypeOK, EntryAged
  <2>3. CASE Waits /\ question.shared
    BY <2>1, <2>2, <2>3, GivenStatus
  <2>4. CASE ~(Waits /\ question.shared)
    BY <2>1, <2>2, <2>4, LeavesCache
  <2> QED
    BY <2>3, <2>4
<1>5. CASE ReadOwnTerms
  <2>1. /\ UNCHANGED <<vars, status, steady>> /\ entry' = entry /\ Waits
        /\ question' = [question EXCEPT !.status = status]
    BY <1>5 DEF ReadOwnTerms
  <2>2. entry' \in {None} \cup [status : Statuses \cup {Unread}, age : 0 .. Ttl] /\ EntryAged'
    BY <2>1 DEF DeskInv, DeskTypeOK, EntryAged
  <2> QED
    BY <2>1, <2>2, GivenStatus
<1>6. CASE SummaryFails
  <2>1. entry' = None /\ question' \in {None, Detached} /\ UNCHANGED <<vars, status, steady>>
    BY <1>6 DEF SummaryFails
  <2>2. EntryAged'
    BY <2>1 DEF EntryAged
  <2> QED
    BY <2>1, <2>2, LeavesCache
<1>7. CASE Ends
  <2>1. entry' = entry /\ question' = None /\ UNCHANGED <<vars, status, steady>>
    BY <1>7 DEF Ends
  <2>2. entry' \in {None} \cup [status : Statuses \cup {Unread}, age : 0 .. Ttl] /\ EntryAged'
    BY <2>1 DEF DeskInv, DeskTypeOK, EntryAged
  <2> QED
    BY <2>1, <2>2, LeavesCache
<1>8. CASE StatusMoves
  BY <1>8, StatusMovesKeeps
<1>9. CASE TokenMoves
  BY <1>9, TokenMovesKeeps
<1>10. CASE Tick
  BY <1>10, TickKeeps
<1>11. CASE UNCHANGED <<vars, deskVars>>
  <2>1. entry' = entry /\ question' = question /\ UNCHANGED <<vars, status, steady>>
    BY <1>11 DEF deskVars
  <2>2. entry' \in {None} \cup [status : Statuses \cup {Unread}, age : 0 .. Ttl] /\ EntryAged'
    BY <2>1 DEF DeskInv, DeskTypeOK, EntryAged
  <2> QED
    BY <2>1, <2>2, LeavesCache
<1> QED
  BY <1>1, <1>2, <1>3, <1>4, <1>5, <1>6, <1>7, <1>8, <1>9, <1>10, <1>11 DEF DeskNext

\* The questions leave the token as it is.
LEMMA DeskIsSpec == DeskSpec => Spec
<1>1. DeskInit => Init
  BY DEF DeskInit
<1>2. [DeskNext]_<<vars, deskVars>> => [Next]_vars
  BY DEF DeskNext, Ask, Answer, OthersAsk, ReadTerms, ReadOwnTerms, SummaryFails, Ends,
         StatusMoves, TokenMoves, Tick
<1> QED
  BY <1>1, <1>2, PTL DEF DeskSpec, Spec

\* A page's decision is the token's and the market's own; and an answer of the API,
\* whatever it shared or found in the cache, says of the bond's status what was so
\* within the cache's time to live before the question and of KYC what was so after
\* it, for any time to live, holders, lists and order of failures.
THEOREM Eligibility == DeskSpec => []EligibilityIsTrue
<1>1. ASSUME TypeOK
      PROVE  DecisionIsTheTokens
  <2> SUFFICES ASSUME NEW i \in Holders, NEW h \in Holders
               PROVE  /\ Decision(i, h) = "pass" /\ balance[i] > 0 <=> CanTransfer(i, h, 1)
                      /\ Decision(i, h) = "pass" <=> MarketProbe(i, h, 1) \notin Refusals
                      /\ i \in kyc \ frozen => (Fallback(h) = "allow" <=> Decision(i, h) = "pass")
    BY DEF DecisionIsTheTokens
  <2>1. Decision(i, h) = "pass" <=> ~paused /\ {i, h} \cap frozen = {} /\ {i, h} \subseteq kyc
    BY ProbesAgree, RefusalIs
  <2>2. balance[i] > 0 <=> Enough(i, 1)
    BY <1>1 DEF TypeOK, Enough
  <2>3. Fallback(h) = "allow" <=> h \in kyc /\ h \notin frozen /\ ~paused
    <3>1. CASE h \notin kyc
      BY <3>1 DEF Fallback
    <3>2. CASE h \in kyc /\ h \in frozen
      BY <3>2 DEF Fallback
    <3>3. CASE h \in kyc /\ h \notin frozen /\ paused
      BY <3>3 DEF Fallback
    <3>4. CASE h \in kyc /\ h \notin frozen /\ ~paused
      BY <3>4 DEF Fallback
    <3> QED
      BY <3>1, <3>2, <3>3, <3>4
  <2> QED
    BY <2>1, <2>2, <2>3, ProbesAgree DEF CanTransfer
<1>2. BooksInv => DecisionIsTheTokens
  BY <1>1 DEF BooksInv
<1>3. Spec => []DecisionIsTheTokens
  BY <1>2, InitBooks, StepBooks, PTL DEF Spec
<1>4. DeskInit => DeskInv
  BY DeskAssumption DEF DeskInit, DeskInv, DeskTypeOK, EntryAged, QuestionSees, AnswerIsRecent, Asked,
     Statuses
<1>5. DeskInv => DeskTypeOK /\ AnswerIsRecent
  BY DEF DeskInv
<1> QED
  BY <1>3, <1>4, <1>5, StepDesk, DeskIsSpec, PTL DEF DeskSpec, EligibilityIsTrue
=============================================================================

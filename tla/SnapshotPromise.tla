--------------------------- MODULE SnapshotPromise ---------------------------
(***************************************************************************)
(* What the vault and the lifecycle contract rely on when they ask an ATS  *)
(* token for a snapshot: all balances and the supply of that moment, for   *)
(* ever, whatever is traded, issued or redeemed afterwards.                *)
(***************************************************************************)
EXTENDS Naturals, Sequences

CONSTANT Holders

VARIABLES balance, supply,
          snapshots     \* what balanceOfAtSnapshot and totalSupplyAtSnapshot answer

vars == <<balance, supply, snapshots>>

Init ==
  /\ balance = [h \in Holders |-> 0]
  /\ supply = 0
  /\ snapshots = <<>>

TakeSnapshot ==
  /\ snapshots' = Append(snapshots, [balance |-> balance, supply |-> supply])
  /\ UNCHANGED <<balance, supply>>

\* A transfer, an issue or a redemption, by rules of the token's own.
Move == UNCHANGED snapshots

Next == TakeSnapshot \/ Move

Spec == Init /\ [][Next]_vars
=============================================================================

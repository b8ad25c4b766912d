----------------------------- MODULE VerdictPath -----------------------------
(***************************************************************************)
(* The path of a verdict: monitor runs in the enclave read one snapshot of *)
(* a bond, decide and sign; the signed verdict is public from then on, and *)
(* anybody may send it to RiskGate.submit, at any time, any number of      *)
(* times and in any order.  Runs overlap: a second cron tick, a simulator  *)
(* run or a slow enclave may hold a snapshot while other verdicts land.    *)
(* People act in between: the admin unfreezes and rotates the signer, the  *)
(* first holder redeems at maturity.                                       *)
(*                                                                         *)
(* Coverage is the rung of the private ladder it falls on: decideBond only *)
(* compares it with three thresholds.  Collateral, price and supply move   *)
(* at any time, so a read may see any rung; the ATS token may be paused at *)
(* any time, so a submission that seizes may revert, which changes nothing *)
(* and is not a step.  A signature is the name of the key that made it.    *)
(***************************************************************************)
EXTENDS Integers, FiniteSets

CONSTANTS
  Bonds,
  Runs,         \* monitor executions that can be under way together
  Coverage,     \* rungs of the ladder a read may see
  Keys,         \* verdict signer keys, as named by the admin and the secrets
  NoSnapshot,   \* a run that is not under way
  NoVerdict,    \* lastVerdict of a bond nothing has landed on
  Windows,      \* the freshness windows the admin uses (900 s deployed)
  FutureSkew,   \* MAX_FUTURE_SKEW (300 s deployed)
  ClockSkew,    \* how far the enclave's clock may be off, either way
  RunTimeout,   \* longest time between a run's snapshot and its signature
  Maturity,     \* maturity date of every bond
  MaxNow,       \* bound: last second of the model
  MaxSigned     \* bound: verdicts ever signed

ASSUME TimeAssumption ==
  /\ Windows \subseteq Nat /\ Windows # {}
  /\ FutureSkew \in Nat /\ ClockSkew \in Nat /\ RunTimeout \in Nat
  /\ Maturity \in Nat /\ MaxNow \in Nat /\ MaxSigned \in Nat
ASSUME KeysAssumption == Keys # {}

VARIABLES
  status,       \* BondRegistry status of each bond
  lastNonce,    \* RiskGate.lastNonce
  lastVerdict,  \* RiskGate.lastVerdict
  seized,       \* CollateralVault.seizures[b].snapshotId # 0
  signer,       \* RiskGate.signer
  freshness,    \* RiskGate.freshness
  run,          \* the snapshot each monitor run works from
  signed,       \* every verdict ever signed
  now,
  intervened    \* history: a person moved the status since the last landing

gateVars  == <<status, lastNonce, lastVerdict, seized, intervened>>
adminVars == <<signer, freshness>>
runVars   == <<run, signed>>
vars      == <<gateVars, adminVars, runVars, now>>

Promise == INSTANCE GatePromise WITH version <- lastNonce

Status   == {"None", "Active", "Frozen", "Matured", "Defaulted"}
Action   == {"OK", "WARN", "FREEZE", "DEFAULT"}

\* What decideBond makes of each rung while the bond is at risk.
Ladder == [belowDefault |-> "DEFAULT", belowFreeze |-> "FREEZE",
           belowWarn |-> "WARN", healthy |-> "OK"]

ASSUME CoverageAssumption == Coverage \subseteq DOMAIN Ladder

\* What a run takes from RiskGate.snapshot, and when.
Snapshot == [bond : Bonds, status : Status, coverage : Coverage,
             lastNonce : Nat, readAt : Nat]

\* A signed verdict; "seen" is history, it is not part of the message.
Verdict == [bond : Bonds, action : Action, coverage : Coverage,
            issuedAt : Nat, nonce : Nat, key : Keys, seen : Snapshot]

ASSUME NoneAssumption == NoSnapshot \notin Snapshot /\ NoVerdict \notin Verdict

Init ==
  /\ status = [b \in Bonds |-> "None"]
  /\ lastNonce = [b \in Bonds |-> 0]
  /\ lastVerdict = [b \in Bonds |-> NoVerdict]
  /\ seized = [b \in Bonds |-> FALSE]
  /\ signer \in Keys
  /\ freshness \in Windows
  /\ run = [r \in Runs |-> NoSnapshot]
  /\ signed = {}
  /\ now = 0
  /\ intervened = [b \in Bonds |-> FALSE]

-----------------------------------------------------------------------------
(* The policy, decideBond, and the gate's effect on the status. *)

Decide(s, c) == IF s \in {"Active", "Frozen"} THEN Ladder[c] ELSE "OK"

\* The nonce a run signs: one past the nonce its snapshot showed.
NonceReadLate(s) == lastNonce[s.bond] + 1   \* slip: a second, later read
NonceOffByOne(s) == s.lastNonce + 2         \* slip
NonceOf(s) == s.lastNonce + 1

\* What the enclave's clock may read at second t; a uint64, never negative.
StampsUnchecked(t) == (t - ClockSkew) .. (t + ClockSkew)   \* slip
Stamps(t) == {u \in (t - ClockSkew) .. (t + ClockSkew) : u >= 0}

Freezes(a, s)  == a = "FREEZE" /\ s = "Active"
Defaults(a, s) == a = "DEFAULT" /\ s \in {"Active", "Frozen"}

-----------------------------------------------------------------------------
(* Monitor runs (workflow/bond-monitor/handler.ts). *)

\* The run's single read: RiskGate.snapshot, which reverts for an unregistered
\* bond.
ReadSnapshot(r, b) ==
  /\ run[r] = NoSnapshot
  /\ status[b] # "None"
  /\ \E c \in Coverage :
       run' = [run EXCEPT ![r] =
         [bond |-> b, status |-> status[b], coverage |-> c,
          lastNonce |-> lastNonce[b], readAt |-> now]]
  /\ UNCHANGED <<gateVars, adminVars, signed, now>>

\* Decide from the snapshot, stamp the enclave's own clock, sign with whatever
\* key the secrets hold, and log.  The verdict is published whatever
\* shouldDeliver says: that filter only stops the run from sending it itself.
Sign(r) ==
  /\ run[r] # NoSnapshot
  /\ Cardinality(signed) < MaxSigned
  /\ \E t \in Stamps(now), k \in Keys :
       signed' = signed \cup
         {[bond |-> run[r].bond, action |-> Decide(run[r].status, run[r].coverage),
           coverage |-> run[r].coverage, issuedAt |-> t,
           nonce |-> NonceOf(run[r]), key |-> k, seen |-> run[r]]}
  /\ run' = [run EXCEPT ![r] = NoSnapshot]
  /\ UNCHANGED <<gateVars, adminVars, now>>

\* A run that ends without a verdict: the snapshot says the feed is stale, or the
\* run fails (timeout, secret missing, enclave gone).
RunFails(r) ==
  /\ run[r] # NoSnapshot
  /\ run' = [run EXCEPT ![r] = NoSnapshot]
  /\ UNCHANGED <<gateVars, adminVars, signed, now>>

-----------------------------------------------------------------------------
(* The chain. *)

\* submit's nonce check, and the nonce it stores.
NewNonceReplay(v) == v.nonce >= lastNonce[v.bond]   \* slip: replay allowed
NewNonce(v) == v.nonce > lastNonce[v.bond]

Stored(v) == [lastNonce EXCEPT ![v.bond] = v.nonce]

\* submit's freshness check.
FreshUnchecked(v) == v.issuedAt <= now + FutureSkew \* slip: no upper age
Fresh(v) ==
  /\ v.issuedAt <= now + FutureSkew
  /\ v.issuedAt < now => now - v.issuedAt <= freshness

\* What submit checks, CollateralVault.seize included: that call reverts the whole
\* submission when the collateral is already seized.
CanSubmit(v) ==
  /\ v \in signed
  /\ v.key = signer
  /\ NewNonce(v)
  /\ Fresh(v)
  /\ Defaults(v.action, status[v.bond]) => ~seized[v.bond]

\* RiskGate.submit, by whoever holds the message.
Submit(v) ==
  LET b == v.bond IN
  /\ CanSubmit(v)
  /\ lastNonce' = Stored(v)
  /\ lastVerdict' = [lastVerdict EXCEPT ![b] = v]
  /\ \/ /\ Freezes(v.action, status[b])
        /\ status' = [status EXCEPT ![b] = "Frozen"]
        /\ UNCHANGED seized
     \/ /\ Defaults(v.action, status[b])
        /\ seized' = [seized EXCEPT ![b] = TRUE]
        /\ status' = [status EXCEPT ![b] = "Defaulted"]
     \/ /\ ~Freezes(v.action, status[b]) /\ ~Defaults(v.action, status[b])
        /\ UNCHANGED <<status, seized>>
  /\ intervened' = [intervened EXCEPT ![b] = FALSE]
  /\ UNCHANGED <<adminVars, runVars, now>>

\* A person moves the status of b.
Move(b, to) ==
  /\ status' = [status EXCEPT ![b] = to]
  /\ intervened' = [intervened EXCEPT ![b] = TRUE]
  /\ UNCHANGED <<lastNonce, lastVerdict, seized, adminVars, runVars, now>>

\* BondRegistry.register: the bond appears, Active; it must mature later than now.
Register(b) == status[b] = "None" /\ now < Maturity /\ Move(b, "Active")

\* RiskGate.unfreeze, by the admin.  It leaves the nonce alone.
CanUnfreeze(b) == status[b] = "Frozen"
Unfreeze(b) == CanUnfreeze(b) /\ Move(b, "Active")

\* BondLifecycle.redeem as far as the status goes: it refuses a Defaulted bond,
\* and the first redemption at or after maturity moves the bond to Matured.
RedeemableAny(b) == status[b] \in {"Active", "Frozen", "Defaulted"}   \* slip
Redeemable(b) == status[b] \in {"Active", "Frozen"}

Redeem(b) ==
  /\ Redeemable(b)
  /\ now >= Maturity
  /\ Move(b, "Matured")

SetSigner(k) ==
  /\ k # signer
  /\ signer' = k
  /\ UNCHANGED <<gateVars, freshness, runVars, now>>

SetFreshness(w) ==
  /\ w # freshness
  /\ freshness' = w
  /\ UNCHANGED <<gateVars, signer, runVars, now>>

\* A second passes.  No run outlives RunTimeout between its read and its
\* signature: the enclave's HTTP calls carry their own timeout.
Tick ==
  /\ now < MaxNow
  /\ \A r \in Runs : run[r] # NoSnapshot => now < run[r].readAt + RunTimeout
  /\ now' = now + 1
  /\ UNCHANGED <<gateVars, adminVars, runVars>>

Next ==
  \/ \E r \in Runs, b \in Bonds : ReadSnapshot(r, b)
  \/ \E r \in Runs : Sign(r) \/ RunFails(r)
  \/ \E v \in signed : Submit(v)
  \/ \E b \in Bonds : Register(b) \/ Unfreeze(b) \/ Redeem(b)
  \/ \E k \in Keys : SetSigner(k)
  \/ \E w \in Windows : SetFreshness(w)
  \/ Tick

Spec == Init /\ [][Next]_vars

-----------------------------------------------------------------------------
(* Properties. *)

\* Every variable keeps its type.
TypeOK ==
  /\ status \in [Bonds -> Status]
  /\ lastNonce \in [Bonds -> Nat]
  /\ lastVerdict \in [Bonds -> Verdict \cup {NoVerdict}]
  /\ seized \in [Bonds -> BOOLEAN]
  /\ signer \in Keys
  /\ freshness \in Windows
  /\ run \in [Runs -> Snapshot \cup {NoSnapshot}]
  /\ signed \subseteq Verdict
  /\ now \in Nat
  /\ intervened \in [Bonds -> BOOLEAN]

\* However many runs overlap, no signed verdict is ever more than one nonce
\* ahead of its bond.  RiskGate.submit itself only asks for a larger nonce; a
\* verdict further ahead would void, once landed, every verdict signed below it.
NoNonceGap == \A v \in signed : v.nonce <= lastNonce[v.bond] + 1

\* Optimistic concurrency: a verdict that can still land was decided on the
\* status the bond has now, unless a person (unfreeze, redemption) moved it
\* since.  Two overlapping runs can never both act on one observation.
ObservationHolds ==
  \A v \in signed :
    v.nonce > lastNonce[v.bond] /\ ~intervened[v.bond]
      => v.seen.status = status[v.bond]

\* The collateral is seized exactly when the bond is Defaulted: no redemption,
\* unfreeze or late verdict separates the vault's record from the registry's.
SeizedIffDefaulted == \A b \in Bonds : seized[b] <=> status[b] = "Defaulted"

\* The verdict that lands was decided on a snapshot at most RunTimeout plus the
\* clock's error plus the freshness window old: the window counts from the
\* enclave's stamp, not from the snapshot's own timestamp.
BoundedStaleness ==
  [][\A b \in Bonds : lastVerdict'[b] # lastVerdict[b] =>
       now <= lastVerdict'[b].seen.readAt + RunTimeout + ClockSkew + freshness]_vars

\* VerdictPath implements the gate's promise: verdicts land one version at a
\* time and each fits the status it lands on.
ImplementsPromise == Promise!Spec
=============================================================================

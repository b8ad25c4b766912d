--------------------------- MODULE VerdictPathProofs ---------------------------
(***************************************************************************)
(* Theorems about VerdictPath for any sets of bonds, runs and keys and any *)
(* bounds.  IInv is the inductive invariant: what a run holds and what is  *)
(* signed, related to the state of the bond they are about.  The Risk page *)
(* comes last: what it says and which of its buttons work.                 *)
(***************************************************************************)
EXTENDS RiskView, TLAPS

\* A snapshot whose nonce is still the bond's own shows its present status,
\* unless a person moved it since; none comes from the future.
Current(s) ==
  /\ s.lastNonce <= lastNonce[s.bond]
  /\ s.lastNonce = lastNonce[s.bond] /\ ~intervened[s.bond]
       => s.status = status[s.bond]

RunInv ==
  \A r \in Runs : run[r] # NoSnapshot =>
    Current(run[r]) /\ now <= run[r].readAt + RunTimeout

\* A verdict is what its run made of its snapshot.
Derived(v) ==
  /\ v.bond = v.seen.bond
  /\ v.nonce = v.seen.lastNonce + 1
  /\ v.action = Decide(v.seen.status, v.seen.coverage)
  /\ v.issuedAt <= v.seen.readAt + RunTimeout + ClockSkew

SignedInv == \A v \in signed : Derived(v) /\ Current(v.seen)

IInv == TypeOK /\ RunInv /\ SignedInv /\ SeizedIffDefaulted

-----------------------------------------------------------------------------

LEMMA DecideType ==
  ASSUME NEW s \in Status, NEW c \in Coverage
  PROVE  Decide(s, c) \in Action
BY CoverageAssumption DEF Decide, Ladder, Action

\* The invariant holds initially.
LEMMA InitIInv == Init => IInv
<1> SUFFICES ASSUME Init PROVE IInv
  OBVIOUS
<1>1. TypeOK
  BY TimeAssumption, KeysAssumption DEF Init, TypeOK, Status
<1>2. RunInv /\ SignedInv /\ SeizedIffDefaulted
  BY DEF Init, RunInv, SignedInv, SeizedIffDefaulted
<1> QED
  BY <1>1, <1>2 DEF IInv

\* A landing verdict takes the very next nonce of its bond.
LEMMA LandsNext ==
  ASSUME IInv, NEW v \in signed, Submit(v)
  PROVE  /\ v \in Verdict
         /\ v.nonce = lastNonce[v.bond] + 1
         /\ ~intervened[v.bond] => v.seen.status = status[v.bond]
<1>1. v \in Verdict /\ lastNonce \in [Bonds -> Nat]
  BY DEF IInv, TypeOK
<1>2. v.bond \in Bonds /\ v.nonce \in Nat /\ v.seen \in Snapshot
      /\ v.seen.lastNonce \in Nat
  BY <1>1 DEF Verdict, Snapshot
<1>3. Derived(v) /\ Current(v.seen)
  BY DEF IInv, SignedInv
<1>4. v.nonce > lastNonce[v.bond]
  BY DEF Submit, CanSubmit, NewNonce
<1> QED
  BY <1>1, <1>2, <1>3, <1>4 DEF Derived, Current

\* A landing verdict preserves the invariant: every other snapshot of its bond
\* is left behind for good.
LEMMA SubmitIInv ==
  ASSUME IInv, NEW v \in signed, Submit(v)
  PROVE  IInv'
<1> DEFINE b == v.bond
<1>1. /\ v \in Verdict /\ b \in Bonds /\ v.nonce \in Nat
      /\ v.nonce = lastNonce[b] + 1
  BY LandsNext DEF Verdict
<1>2. /\ TypeOK /\ RunInv /\ SignedInv /\ SeizedIffDefaulted
  BY DEF IInv
<1>3. /\ lastNonce' = [lastNonce EXCEPT ![b] = v.nonce]
      /\ lastVerdict' = [lastVerdict EXCEPT ![b] = v]
      /\ intervened' = [intervened EXCEPT ![b] = FALSE]
      /\ UNCHANGED <<signer, freshness, run, signed, now>>
  BY DEF Submit, CanSubmit, Stored, adminVars, runVars
<1>4. /\ \A c \in Bonds \ {b} : status'[c] = status[c] /\ seized'[c] = seized[c]
      /\ status' \in [Bonds -> Status] /\ seized' \in [Bonds -> BOOLEAN]
      /\ seized'[b] <=> status'[b] = "Defaulted"
  BY <1>1, <1>2 DEF Submit, CanSubmit, Freezes, Defaults, TypeOK, Status,
                    SeizedIffDefaulted
<1>5. TypeOK'
  BY <1>1, <1>2, <1>3, <1>4 DEF TypeOK
<1>6. ASSUME NEW s \in Snapshot, Current(s)
      PROVE  Current(s)'
  <2>1. s.bond \in Bonds /\ s.lastNonce \in Nat
    BY DEF Snapshot
  <2>2. CASE s.bond = b
    BY <1>1, <1>2, <1>3, <1>6, <2>1, <2>2 DEF Current, TypeOK
  <2>3. CASE s.bond # b
    BY <1>2, <1>3, <1>4, <1>6, <2>1, <2>3 DEF Current, TypeOK
  <2> QED
    BY <2>2, <2>3
<1>7. RunInv'
  <2> SUFFICES ASSUME NEW r \in Runs, run[r] # NoSnapshot
               PROVE  Current(run[r])' /\ now <= run[r].readAt + RunTimeout
    BY <1>3 DEF RunInv
  <2>1. PICK s \in Snapshot : s = run[r]
    BY <1>2 DEF TypeOK
  <2>2. Current(s) /\ now <= s.readAt + RunTimeout
    BY <1>2, <2>1 DEF RunInv, Current
  <2>3. Current(s)'
    BY <1>6, <2>2
  <2>4. run'[r] = s
    BY <1>3, <2>1
  <2> QED
    BY <2>1, <2>2, <2>3, <2>4 DEF Current
<1>8. SignedInv'
  <2> SUFFICES ASSUME NEW w \in signed
               PROVE  Derived(w) /\ Current(w.seen)'
    BY <1>3 DEF SignedInv, Derived, Current
  <2>1. w.seen \in Snapshot
    BY <1>2 DEF TypeOK, Verdict
  <2> QED
    BY <1>2, <1>6, <2>1 DEF SignedInv
<1>9. SeizedIffDefaulted'
  BY <1>2, <1>4 DEF SeizedIffDefaulted
<1> QED
  BY <1>5, <1>7, <1>8, <1>9 DEF IInv

\* A person moving a status never makes a snapshot claim more than it did.
LEMMA MoveIInv ==
  ASSUME IInv, NEW b \in Bonds, NEW to \in Status \ {"Defaulted"},
         status[b] # "Defaulted", Move(b, to)
  PROVE  IInv'
<1>1. TypeOK /\ RunInv /\ SignedInv /\ SeizedIffDefaulted
  BY DEF IInv
<1>2. TypeOK'
  BY <1>1 DEF TypeOK, Move, adminVars, runVars
<1>3. ASSUME NEW s \in Snapshot, Current(s)
      PROVE  Current(s)'
  BY <1>1, <1>3 DEF Current, Move, TypeOK, Snapshot
<1>4. RunInv'
  <2> SUFFICES ASSUME NEW r \in Runs, run[r] # NoSnapshot
               PROVE  Current(run[r])' /\ now <= run[r].readAt + RunTimeout
    BY DEF RunInv, Move, runVars
  <2>1. PICK s \in Snapshot : s = run[r]
    BY <1>1 DEF TypeOK
  <2>2. Current(s) /\ now <= s.readAt + RunTimeout
    BY <1>1, <2>1 DEF RunInv, Current
  <2>3. Current(s)'
    BY <1>3, <2>2
  <2>4. run'[r] = s
    BY <2>1 DEF Move, runVars
  <2> QED
    BY <2>1, <2>2, <2>3, <2>4 DEF Current
<1>5. SignedInv'
  <2> SUFFICES ASSUME NEW w \in signed
               PROVE  Derived(w) /\ Current(w.seen)'
    BY DEF SignedInv, Derived, Current, Move, runVars
  <2> QED
    BY <1>1, <1>3 DEF SignedInv, TypeOK, Verdict
<1>6. SeizedIffDefaulted'
  BY <1>1 DEF SeizedIffDefaulted, Move, TypeOK
<1> QED
  BY <1>2, <1>4, <1>5, <1>6 DEF IInv

\* A fresh snapshot is current by definition.
LEMMA ReadIInv ==
  ASSUME IInv, NEW r \in Runs, NEW b \in Bonds, ReadSnapshot(r, b)
  PROVE  IInv'
<1>1. TypeOK /\ RunInv /\ SignedInv /\ SeizedIffDefaulted
  BY DEF IInv
<1>2. UNCHANGED <<status, lastNonce, lastVerdict, seized, intervened, signer,
                  freshness, signed, now>>
  BY DEF ReadSnapshot, gateVars, adminVars
<1>3. PICK c \in Coverage :
        run' = [run EXCEPT ![r] =
          [bond |-> b, status |-> status[b], coverage |-> c,
           lastNonce |-> lastNonce[b], readAt |-> now]]
  BY DEF ReadSnapshot
<1> DEFINE s == [bond |-> b, status |-> status[b], coverage |-> c,
                 lastNonce |-> lastNonce[b], readAt |-> now]
<1>4. s \in Snapshot /\ run'[r] = s
  BY <1>1, <1>3 DEF TypeOK, Snapshot
<1>5. TypeOK'
  BY <1>1, <1>2, <1>3, <1>4 DEF TypeOK
<1>6. RunInv'
  <2> SUFFICES ASSUME NEW q \in Runs, run'[q] # NoSnapshot
               PROVE  Current(run[q])' /\ now' <= run'[q].readAt + RunTimeout
    BY DEF RunInv
  <2>1. CASE q = r
    <3>1. s.bond = b /\ s.lastNonce = lastNonce[b] /\ s.status = status[b]
          /\ s.readAt = now
      OBVIOUS
    <3>2. now \in Nat /\ lastNonce[b] \in Nat
      BY <1>1 DEF TypeOK
    <3> QED
      BY <1>2, <1>4, <2>1, <3>1, <3>2, TimeAssumption DEF Current
  <2>2. CASE q # r
    <3>1. run'[q] = run[q]
      BY <1>1, <1>3, <2>2 DEF TypeOK
    <3> QED
      BY <1>1, <1>2, <3>1 DEF RunInv, Current
  <2> QED
    BY <2>1, <2>2
<1>7. SignedInv'
  BY <1>1, <1>2 DEF SignedInv, Derived, Current
<1>8. SeizedIffDefaulted'
  BY <1>1, <1>2 DEF SeizedIffDefaulted
<1> QED
  BY <1>5, <1>6, <1>7, <1>8 DEF IInv

\* What is signed is derived from the run's snapshot, stamped in time.
LEMMA SignIInv ==
  ASSUME IInv, NEW r \in Runs, Sign(r)
  PROVE  IInv'
<1>1. TypeOK /\ RunInv /\ SignedInv /\ SeizedIffDefaulted
  BY DEF IInv
<1>2. /\ UNCHANGED <<status, lastNonce, lastVerdict, seized, intervened, signer,
                     freshness, now>>
      /\ run' = [run EXCEPT ![r] = NoSnapshot]
  BY DEF Sign, gateVars, adminVars
<1>3. PICK s \in Snapshot : s = run[r]
  BY <1>1 DEF Sign, TypeOK
<1>4. PICK t \in Stamps(now), k \in Keys :
        signed' = signed \cup
          {[bond |-> s.bond, action |-> Decide(s.status, s.coverage),
            coverage |-> s.coverage, issuedAt |-> t,
            nonce |-> s.lastNonce + 1, key |-> k, seen |-> s]}
  BY <1>3 DEF Sign, NonceOf
<1> DEFINE v == [bond |-> s.bond, action |-> Decide(s.status, s.coverage),
                 coverage |-> s.coverage, issuedAt |-> t,
                 nonce |-> s.lastNonce + 1, key |-> k, seen |-> s]
<1>5. /\ s.bond \in Bonds /\ s.status \in Status /\ s.coverage \in Coverage
      /\ s.lastNonce \in Nat /\ s.readAt \in Nat
  BY DEF Snapshot
<1>6. t \in Nat /\ t <= now + ClockSkew
  BY <1>1, <1>4, TimeAssumption DEF Stamps, TypeOK
<1>7. Current(s) /\ now <= s.readAt + RunTimeout
  BY <1>1, <1>3 DEF RunInv, Current, Sign
<1>8. v \in Verdict
  BY <1>4, <1>5, <1>6, DecideType DEF Verdict
<1>9. Derived(v)
  <2>1. t <= s.readAt + RunTimeout + ClockSkew
    BY <1>1, <1>5, <1>6, <1>7, TimeAssumption DEF TypeOK
  <2>2. v.bond = s.bond /\ v.action = Decide(s.status, s.coverage)
        /\ v.issuedAt = t /\ v.nonce = s.lastNonce + 1 /\ v.seen = s
    OBVIOUS
  <2> QED
    BY <2>1, <2>2 DEF Derived
<1>10. TypeOK'
  BY <1>1, <1>2, <1>4, <1>8 DEF TypeOK
<1>11. RunInv'
  BY <1>1, <1>2 DEF RunInv, Current, TypeOK
<1>12. SignedInv'
  <2> SUFFICES ASSUME NEW w \in signed'
               PROVE  Derived(w) /\ Current(w.seen)
    BY <1>2 DEF SignedInv, Derived, Current
  <2>1. CASE w \in signed
    BY <1>1, <2>1 DEF SignedInv
  <2>2. CASE w = v
    <3>1. v.seen = s
      OBVIOUS
    <3> HIDE DEF v
    <3> QED
      BY <1>7, <1>9, <2>2, <3>1
  <2> QED
    BY <1>4, <2>1, <2>2
<1>13. SeizedIffDefaulted'
  BY <1>1, <1>2 DEF SeizedIffDefaulted
<1> QED
  BY <1>10, <1>11, <1>12, <1>13 DEF IInv

\* Steps that leave the bonds, their nonces and the signed verdicts alone.
LEMMA QuietIInv ==
  ASSUME IInv,
         UNCHANGED <<gateVars, signed>>,
         \/ \E r \in Runs : RunFails(r)
         \/ \E k \in Keys : SetSigner(k)
         \/ \E w \in Windows : SetFreshness(w)
         \/ Tick
         \/ UNCHANGED vars
  PROVE  IInv'
<1>1. TypeOK /\ RunInv /\ SignedInv /\ SeizedIffDefaulted
  BY DEF IInv
<1>2. UNCHANGED <<status, lastNonce, lastVerdict, seized, intervened, signed>>
  BY DEF gateVars
<1>3. TypeOK'
  BY <1>1, <1>2 DEF TypeOK, RunFails, SetSigner, SetFreshness, Tick, vars,
                    adminVars, runVars
<1>4. RunInv'
  <2> SUFFICES ASSUME NEW q \in Runs, run'[q] # NoSnapshot
               PROVE  Current(run[q])' /\ now' <= run'[q].readAt + RunTimeout
    BY DEF RunInv
  <2>1. run'[q] = run[q]
    BY <1>1 DEF RunFails, SetSigner, SetFreshness, Tick, vars, runVars, TypeOK
  <2>2. now' <= run[q].readAt + RunTimeout
    <3>1. CASE Tick
      <4>1. run[q] \in Snapshot /\ run[q].readAt \in Nat
        BY <1>1, <2>1 DEF TypeOK, Snapshot
      <4> QED
        BY <1>1, <2>1, <3>1, <4>1, TimeAssumption DEF Tick, TypeOK
    <3>2. CASE ~Tick
      BY <1>1, <2>1, <3>2 DEF RunInv, RunFails, SetSigner, SetFreshness, vars
    <3> QED
      BY <3>1, <3>2
  <2> QED
    BY <1>1, <1>2, <2>1, <2>2 DEF RunInv, Current
<1>5. SignedInv'
  BY <1>1, <1>2 DEF SignedInv, Derived, Current
<1>6. SeizedIffDefaulted'
  BY <1>1, <1>2 DEF SeizedIffDefaulted
<1> QED
  BY <1>3, <1>4, <1>5, <1>6 DEF IInv

\* Every step preserves the invariant.
LEMMA NextIInv == IInv /\ [Next]_vars => IInv'
<1> SUFFICES ASSUME IInv, [Next]_vars PROVE IInv'
  OBVIOUS
<1>1. CASE \E r \in Runs, b \in Bonds : ReadSnapshot(r, b)
  BY <1>1, ReadIInv
<1>2. CASE \E r \in Runs : Sign(r)
  BY <1>2, SignIInv
<1>3. CASE \E r \in Runs : RunFails(r)
  BY <1>3, QuietIInv DEF RunFails
<1>4. CASE \E v \in signed : Submit(v)
  BY <1>4, SubmitIInv
<1>5. CASE \E b \in Bonds : Register(b) \/ Unfreeze(b) \/ Redeem(b)
  <2>1. PICK b \in Bonds : Register(b) \/ Unfreeze(b) \/ Redeem(b)
    BY <1>5
  <2>2. CASE Register(b)
    BY <2>2, MoveIInv DEF Register, Status
  <2>3. CASE Unfreeze(b)
    BY <2>3, MoveIInv DEF Unfreeze, CanUnfreeze, Status
  <2>4. CASE Redeem(b)
    BY <2>4, MoveIInv DEF Redeem, Redeemable, Status
  <2> QED
    BY <2>1, <2>2, <2>3, <2>4
<1>6. CASE \E k \in Keys : SetSigner(k)
  BY <1>6, QuietIInv DEF SetSigner, runVars
<1>7. CASE \E w \in Windows : SetFreshness(w)
  BY <1>7, QuietIInv DEF SetFreshness, runVars
<1>8. CASE Tick
  BY <1>8, QuietIInv DEF Tick, runVars
<1>9. CASE UNCHANGED vars
  BY <1>9, QuietIInv DEF vars, runVars
<1> QED
  BY <1>1, <1>2, <1>3, <1>4, <1>5, <1>6, <1>7, <1>8, <1>9 DEF Next

THEOREM Invariance == Spec => []IInv
BY InitIInv, NextIInv, PTL DEF Spec

\* Type correctness of the verdict path.
THEOREM TypeCorrect == Spec => []TypeOK
<1>1. IInv => TypeOK
  BY DEF IInv
<1> QED
  BY <1>1, Invariance, PTL

\* No signed verdict is more than one nonce ahead of its bond.
THEOREM NoGap == Spec => []NoNonceGap
<1>1. IInv => NoNonceGap
  <2> SUFFICES ASSUME IInv, NEW v \in signed
               PROVE  v.nonce <= lastNonce[v.bond] + 1
    BY DEF NoNonceGap
  <2>1. v.bond \in Bonds /\ v.seen \in Snapshot /\ v.seen.lastNonce \in Nat
        /\ lastNonce \in [Bonds -> Nat]
    BY DEF IInv, TypeOK, Verdict, Snapshot
  <2>2. Derived(v) /\ Current(v.seen)
    BY DEF IInv, SignedInv
  <2> QED
    BY <2>1, <2>2 DEF Derived, Current
<1> QED
  BY <1>1, Invariance, PTL

\* A verdict that can still land was decided on the status the bond has now,
\* unless a person moved it.
THEOREM Observation == Spec => []ObservationHolds
<1>1. IInv => ObservationHolds
  <2> SUFFICES ASSUME IInv, NEW v \in signed, v.nonce > lastNonce[v.bond],
                      ~intervened[v.bond]
               PROVE  v.seen.status = status[v.bond]
    BY DEF ObservationHolds
  <2>1. v.bond \in Bonds /\ v.seen \in Snapshot /\ v.seen.lastNonce \in Nat
        /\ lastNonce \in [Bonds -> Nat]
    BY DEF IInv, TypeOK, Verdict, Snapshot
  <2>2. Derived(v) /\ Current(v.seen)
    BY DEF IInv, SignedInv
  <2> QED
    BY <2>1, <2>2 DEF Derived, Current
<1> QED
  BY <1>1, Invariance, PTL

\* The collateral is seized exactly when the bond is Defaulted.
THEOREM Seizure == Spec => []SeizedIffDefaulted
<1>1. IInv => SeizedIffDefaulted
  BY DEF IInv
<1> QED
  BY <1>1, Invariance, PTL

-----------------------------------------------------------------------------

\* A step that changes lastVerdict is the landing of that verdict.
LEMMA OnlySubmitLands ==
  ASSUME IInv, [Next]_vars, NEW b \in Bonds, lastVerdict'[b] # lastVerdict[b]
  PROVE  \E v \in signed : Submit(v) /\ v.bond = b /\ lastVerdict'[b] = v
<1>1. PICK v \in signed : Submit(v)
  BY DEF Next, vars, gateVars, ReadSnapshot, Sign, RunFails, Register, Unfreeze, CanUnfreeze,
         Redeem, Move, SetSigner, SetFreshness, Tick
<1>2. lastVerdict' = [lastVerdict EXCEPT ![v.bond] = v]
  BY <1>1 DEF Submit, CanSubmit
<1>3. lastVerdict \in [Bonds -> Verdict \cup {NoVerdict}] /\ v.bond \in Bonds
  BY <1>1 DEF IInv, TypeOK, Verdict
<1> QED
  BY <1>1, <1>2, <1>3

\* A verdict that lands was decided on a snapshot of bounded age.
THEOREM Staleness == Spec => BoundedStaleness
<1>1. ASSUME IInv, [Next]_vars, NEW b \in Bonds,
             lastVerdict'[b] # lastVerdict[b]
      PROVE  now <= lastVerdict'[b].seen.readAt + RunTimeout + ClockSkew + freshness
  <2>1. PICK v \in signed : Submit(v) /\ v.bond = b /\ lastVerdict'[b] = v
    BY <1>1, OnlySubmitLands
  <2>2. v \in Verdict /\ Derived(v) /\ now \in Nat /\ freshness \in Nat
    BY <1>1, TimeAssumption DEF IInv, SignedInv, TypeOK
  <2>3. v.issuedAt \in Nat /\ v.seen.readAt \in Nat
    BY <2>2 DEF Verdict, Snapshot
  <2>4. now <= v.issuedAt + freshness
    BY <2>1, <2>2, <2>3 DEF Submit, CanSubmit, Fresh
  <2> QED
    BY <2>1, <2>2, <2>3, <2>4, TimeAssumption DEF Derived
<1>2. IInv /\ [Next]_vars =>
        [\A b \in Bonds : lastVerdict'[b] # lastVerdict[b] =>
           now <= lastVerdict'[b].seen.readAt + RunTimeout + ClockSkew + freshness]_vars
  BY <1>1
<1> QED
  BY <1>2, Invariance, PTL DEF Spec, BoundedStaleness

-----------------------------------------------------------------------------

\* Landing a verdict is the abstract Land step.
LEMMA SubmitLands ==
  ASSUME IInv, NEW v \in signed, Submit(v)
  PROVE  Promise!Land(v.bond)
<1>1. v \in Verdict /\ v.nonce = lastNonce[v.bond] + 1
      /\ (~intervened[v.bond] => v.seen.status = status[v.bond])
  BY LandsNext
<1>2. v.bond \in Bonds /\ v.action \in Action /\ v.seen.coverage \in Coverage
      /\ v.seen.status \in Status
  BY <1>1 DEF Verdict, Snapshot
<1>3. v.action = Decide(v.seen.status, v.seen.coverage)
  BY DEF IInv, SignedInv, Derived
<1>4. intervened[v.bond] \/ v.action \in Promise!Decisions(status[v.bond])
  BY <1>1, <1>2, <1>3 DEF Decide, Promise!Decisions, Promise!AtRisk,
                          Promise!Action, Action
<1>5. status' = [status EXCEPT ![v.bond] = Promise!After(v.action, @)]
  BY <1>2 DEF Submit, CanSubmit, Freezes, Defaults, Promise!After, Promise!AtRisk, IInv, TypeOK
<1>6. /\ lastNonce' = [lastNonce EXCEPT ![v.bond] = @ + 1]
      /\ intervened' = [intervened EXCEPT ![v.bond] = FALSE]
  BY <1>1 DEF Submit, CanSubmit, Stored
<1> QED
  BY <1>2, <1>4, <1>5, <1>6 DEF Promise!Land, Promise!Action, Action

\* VerdictPath implements GatePromise: the concurrency of the runs and the
\* disorder of delivery are invisible in what lands.
THEOREM Refinement == Spec => ImplementsPromise
<1>1. Init => Promise!Init
  BY DEF Init, Promise!Init
<1>2. IInv /\ [Next]_vars => [Promise!Next]_Promise!vars
  <2> SUFFICES ASSUME IInv, Next
               PROVE  Promise!Next \/ UNCHANGED Promise!vars
    BY DEF vars, gateVars, Promise!vars
  <2>1. CASE \E v \in signed : Submit(v)
    <3>1. PICK v \in signed : Submit(v)
      BY <2>1
    <3>2. v.bond \in Bonds
      BY DEF IInv, TypeOK, Verdict
    <3> QED
      BY <3>1, <3>2, SubmitLands DEF Promise!Next
  <2>2. CASE \E b \in Bonds : Register(b) \/ Unfreeze(b) \/ Redeem(b)
    BY <2>2 DEF Register, Unfreeze, CanUnfreeze, Redeem, Redeemable, Move, Promise!Next,
                Promise!Intervene, Promise!AtRisk
  <2>3. CASE UNCHANGED <<status, lastNonce, intervened>>
    BY <2>3 DEF Promise!vars
  <2> QED
    BY <2>1, <2>2, <2>3 DEF Next, ReadSnapshot, Sign, RunFails, SetSigner,
                            SetFreshness, Tick, gateVars
<1> QED
  BY <1>1, <1>2, Invariance, PTL DEF Spec, Promise!Spec, ImplementsPromise

-----------------------------------------------------------------------------
(* The Risk page. *)

\* The verdict the gate keeps is the one that took its nonce.
LastStands(b) ==
  IF lastNonce[b] = 0 THEN lastVerdict[b] = NoVerdict
  ELSE lastVerdict[b] \in signed /\ lastVerdict[b].bond = b /\ lastVerdict[b].nonce = lastNonce[b]

TextInv ==
  \A b \in Bonds :
    /\ LastStands(b)
    /\ status[b] = "Frozen" => Applied(b, "FREEZE")
    /\ status[b] = "Defaulted" => Applied(b, "DEFAULT")
    /\ LastWasFreeze(b) /\ ~intervened[b] => status[b] # "Active"

\* What was applied stays applied: nonces and the verdicts signed only grow.
LEMMA StaysApplied ==
  ASSUME IInv, NEW b \in Bonds, NEW a, Applied(b, a),
         lastNonce[b] <= lastNonce'[b], lastNonce'[b] \in Nat, signed \subseteq signed'
  PROVE  Applied(b, a)'
<1>1. PICK v \in signed : v.bond = b /\ v.action = a /\ v.nonce <= lastNonce[b]
  BY DEF Applied
<1>2. v.nonce \in Nat /\ lastNonce[b] \in Nat
  BY DEF IInv, TypeOK, Verdict
<1>3. v \in signed' /\ v.nonce <= lastNonce'[b]
  BY <1>1, <1>2
<1> QED
  BY <1>1, <1>3 DEF Applied

LEMMA QuietText ==
  ASSUME IInv, TextInv, UNCHANGED gateVars, signed \subseteq signed'
  PROVE  TextInv'
<1> SUFFICES ASSUME NEW b \in Bonds
             PROVE  /\ LastStands(b)'
                    /\ status'[b] = "Frozen" => Applied(b, "FREEZE")'
                    /\ status'[b] = "Defaulted" => Applied(b, "DEFAULT")'
                    /\ LastWasFreeze(b)' /\ ~intervened'[b] => status'[b] # "Active"
  BY DEF TextInv
<1>1. /\ status' = status /\ lastNonce' = lastNonce /\ lastVerdict' = lastVerdict
      /\ intervened' = intervened
  BY DEF gateVars
<1>2. lastNonce[b] \in Nat
  BY DEF IInv, TypeOK
<1>3. /\ LastStands(b)
      /\ status[b] = "Frozen" => Applied(b, "FREEZE")
      /\ status[b] = "Defaulted" => Applied(b, "DEFAULT")
      /\ LastWasFreeze(b) /\ ~intervened[b] => status[b] # "Active"
  BY DEF TextInv
<1>4. \A a : Applied(b, a) => Applied(b, a)'
  BY <1>1, <1>2, StaysApplied
<1>5. LastStands(b)'
  BY <1>1, <1>3 DEF LastStands
<1>6. LastWasFreeze(b)' <=> LastWasFreeze(b)
  BY <1>1 DEF LastWasFreeze
<1> QED
  BY <1>1, <1>3, <1>4, <1>5, <1>6

LEMMA MoveText ==
  ASSUME IInv, TextInv, NEW c \in Bonds, NEW to \in {"Active", "Matured"}, Move(c, to)
  PROVE  TextInv'
<1> SUFFICES ASSUME NEW b \in Bonds
             PROVE  /\ LastStands(b)'
                    /\ status'[b] = "Frozen" => Applied(b, "FREEZE")'
                    /\ status'[b] = "Defaulted" => Applied(b, "DEFAULT")'
                    /\ LastWasFreeze(b)' /\ ~intervened'[b] => status'[b] # "Active"
  BY DEF TextInv
<1>1. /\ status' = [status EXCEPT ![c] = to] /\ intervened' = [intervened EXCEPT ![c] = TRUE]
      /\ lastNonce' = lastNonce /\ lastVerdict' = lastVerdict /\ signed' = signed
  BY DEF Move, runVars
<1>2. /\ lastNonce[b] \in Nat /\ DOMAIN status = Bonds /\ DOMAIN intervened = Bonds
  BY DEF IInv, TypeOK
<1>3. /\ LastStands(b)
      /\ status[b] = "Frozen" => Applied(b, "FREEZE")
      /\ status[b] = "Defaulted" => Applied(b, "DEFAULT")
      /\ LastWasFreeze(b) /\ ~intervened[b] => status[b] # "Active"
  BY DEF TextInv
<1>4. \A a : Applied(b, a) => Applied(b, a)'
  BY <1>1, <1>2, StaysApplied
<1>5. LastStands(b)' /\ (LastWasFreeze(b)' <=> LastWasFreeze(b))
  BY <1>1, <1>3 DEF LastStands, LastWasFreeze
<1>6. CASE b = c
  BY <1>1, <1>2, <1>5, <1>6
<1>7. CASE b # c
  BY <1>1, <1>2, <1>3, <1>4, <1>5, <1>7
<1> QED
  BY <1>6, <1>7

LEMMA SubmitText ==
  ASSUME IInv, TextInv, NEW v \in signed, Submit(v)
  PROVE  TextInv'
<1> SUFFICES ASSUME NEW b \in Bonds
             PROVE  /\ LastStands(b)'
                    /\ status'[b] = "Frozen" => Applied(b, "FREEZE")'
                    /\ status'[b] = "Defaulted" => Applied(b, "DEFAULT")'
                    /\ LastWasFreeze(b)' /\ ~intervened'[b] => status'[b] # "Active"
  BY DEF TextInv
<1>1. /\ v \in Verdict /\ v.bond \in Bonds /\ v.nonce \in Nat /\ v.nonce = lastNonce[v.bond] + 1
  BY LandsNext DEF Verdict
<1>2. /\ lastNonce' = [lastNonce EXCEPT ![v.bond] = v.nonce]
      /\ lastVerdict' = [lastVerdict EXCEPT ![v.bond] = v]
      /\ intervened' = [intervened EXCEPT ![v.bond] = FALSE] /\ signed' = signed
  BY DEF Submit, CanSubmit, Stored, runVars
<1>3. /\ lastNonce \in [Bonds -> Nat] /\ DOMAIN status = Bonds /\ DOMAIN intervened = Bonds
      /\ DOMAIN lastVerdict = Bonds /\ NoVerdict \notin Verdict
  BY NoneAssumption DEF IInv, TypeOK
<1>4. /\ LastStands(b)
      /\ status[b] = "Frozen" => Applied(b, "FREEZE")
      /\ status[b] = "Defaulted" => Applied(b, "DEFAULT")
      /\ LastWasFreeze(b) /\ ~intervened[b] => status[b] # "Active"
  BY DEF TextInv
<1>5. lastNonce'[b] \in Nat /\ lastNonce[b] <= lastNonce'[b]
  BY <1>1, <1>2, <1>3
<1>6. \A a : Applied(b, a) => Applied(b, a)'
  BY <1>2, <1>5, StaysApplied
<1>7. CASE b # v.bond
  <2>1. status'[b] = status[b] /\ intervened'[b] = intervened[b]
    BY <1>1, <1>2, <1>3, <1>7 DEF Submit, CanSubmit
  <2>2. lastNonce'[b] = lastNonce[b] /\ lastVerdict'[b] = lastVerdict[b]
    BY <1>1, <1>2, <1>3, <1>7
  <2>3. LastStands(b)' /\ (LastWasFreeze(b)' <=> LastWasFreeze(b))
    BY <1>2, <1>4, <2>2 DEF LastStands, LastWasFreeze
  <2> QED
    BY <1>4, <1>6, <2>1, <2>3
<1>8. CASE b = v.bond
  <2>1. lastNonce'[b] = v.nonce /\ lastVerdict'[b] = v /\ v.nonce # 0 /\ v \in signed'
    BY <1>1, <1>2, <1>3, <1>8
  <2>2. LastStands(b)'
    BY <1>8, <2>1 DEF LastStands
  <2>3. Applied(b, v.action)'
    BY <1>1, <1>8, <2>1 DEF Applied
  <2>4. LastWasFreeze(b)' <=> v.action = "FREEZE"
    BY <1>1, <1>3, <2>1 DEF LastWasFreeze
  <2>5. CASE Freezes(v.action, status[b])
    <3>1. status'[b] = "Frozen" /\ v.action = "FREEZE"
      BY <1>3, <1>8, <2>5 DEF Submit, CanSubmit, Freezes, Defaults
    <3> QED
      BY <2>2, <2>3, <3>1
  <2>6. CASE Defaults(v.action, status[b])
    <3>1. status'[b] = "Defaulted" /\ v.action = "DEFAULT"
      BY <1>3, <1>8, <2>6 DEF Submit, CanSubmit, Freezes, Defaults
    <3> QED
      BY <2>2, <2>3, <3>1
  <2>7. CASE ~Freezes(v.action, status[b]) /\ ~Defaults(v.action, status[b])
    <3>1. status'[b] = status[b]
      BY <1>8, <2>7 DEF Submit, CanSubmit
    <3>2. v.action = "FREEZE" => status[b] # "Active"
      BY <2>7 DEF Freezes
    <3> QED
      BY <1>4, <1>6, <2>2, <2>4, <3>1, <3>2
  <2> QED
    BY <2>5, <2>6, <2>7
<1> QED
  BY <1>7, <1>8

LEMMA NextText == IInv /\ TextInv /\ [Next]_vars => TextInv'
<1> SUFFICES ASSUME IInv, TextInv, [Next]_vars PROVE TextInv'
  OBVIOUS
<1>1. CASE \E r \in Runs, b \in Bonds : ReadSnapshot(r, b)
  BY <1>1, QuietText DEF ReadSnapshot
<1>2. CASE \E r \in Runs : Sign(r) \/ RunFails(r)
  BY <1>2, QuietText DEF Sign, RunFails
<1>3. CASE \E v \in signed : Submit(v)
  BY <1>3, SubmitText
<1>4. CASE \E b \in Bonds : Register(b) \/ Unfreeze(b) \/ Redeem(b)
  BY <1>4, MoveText DEF Register, Unfreeze, CanUnfreeze, Redeem
<1>5. CASE \/ \E k \in Keys : SetSigner(k)
           \/ \E w \in Windows : SetFreshness(w)
           \/ Tick \/ UNCHANGED vars
  BY <1>5, QuietText DEF SetSigner, SetFreshness, Tick, vars, runVars
<1> QED
  BY <1>1, <1>2, <1>3, <1>4, <1>5 DEF Next

\* What the Risk page says happened did happen, for any bonds, runs and verdicts,
\* in whatever order they landed and people acted.
THEOREM RiskText == Spec => []RiskTextIsTrue
<1>1. ASSUME IInv, TextInv
      PROVE  RiskTextIsTrue
  <2> SUFFICES ASSUME NEW b \in Bonds, status[b] # "None"
               PROVE  /\ Text(b) = "halted by a freeze" => Applied(b, "FREEZE")
                      /\ Text(b) = "unfrozen by the admin" => intervened[b] /\ Applied(b, "FREEZE")
                      /\ Text(b) = "collateral seized" => seized[b] /\ Applied(b, "DEFAULT")
                      /\ LastShown(b) = NoVerdict <=> \A a \in Action : ~Applied(b, a)
    BY DEF RiskTextIsTrue
  <2>1. /\ LastStands(b)
        /\ status[b] = "Frozen" => Applied(b, "FREEZE")
        /\ status[b] = "Defaulted" => Applied(b, "DEFAULT")
        /\ LastWasFreeze(b) /\ ~intervened[b] => status[b] # "Active"
    BY <1>1 DEF TextInv
  <2>2. lastNonce[b] \in Nat /\ signed \subseteq Verdict /\ NoVerdict \notin Verdict
    BY <1>1, NoneAssumption DEF IInv, TypeOK
  <2>3. status[b] = "Defaulted" => seized[b]
    BY <1>1 DEF IInv, SeizedIffDefaulted
  <2>4. ASSUME NEW v \in signed
        PROVE  v.nonce > 0 /\ v.nonce \in Nat /\ v.action \in Action
    <3>1. v \in Verdict /\ v.seen \in Snapshot
      BY <2>2 DEF Verdict
    <3>2. v.nonce = v.seen.lastNonce + 1 /\ v.action = Decide(v.seen.status, v.seen.coverage)
      BY <1>1 DEF IInv, SignedInv, Derived
    <3>3. v.seen.lastNonce \in Nat /\ v.seen.status \in Status /\ v.seen.coverage \in Coverage
      BY <3>1 DEF Snapshot
    <3> QED
      BY <3>2, <3>3, DecideType
  <2>5. CASE lastNonce[b] = 0
    <3>1. \A a : ~Applied(b, a)
      BY <2>4, <2>5 DEF Applied
    <3>2. LastShown(b) = NoVerdict /\ ~LastWasFreeze(b)
      BY <2>1, <2>5 DEF LastShown, LastStands, LastWasFreeze
    <3> QED
      BY <2>1, <2>3, <3>1, <3>2 DEF Text
  <2>6. CASE lastNonce[b] # 0
    <3>1. PICK v \in signed : v = lastVerdict[b] /\ v.bond = b /\ v.nonce = lastNonce[b]
      BY <2>1, <2>6 DEF LastStands
    <3>2. Applied(b, v.action) /\ v.action \in Action /\ v # NoVerdict
      BY <2>2, <2>4, <3>1 DEF Applied
    <3>3. LastShown(b) = v /\ (LastWasFreeze(b) <=> v.action = "FREEZE")
      BY <2>6, <3>1, <3>2 DEF LastShown, LastWasFreeze
    <3> QED
      BY <2>1, <2>3, <3>2, <3>3 DEF Text
  <2> QED
    BY <2>5, <2>6
<1>2. Init => TextInv
  BY DEF Init, TextInv, LastStands, LastWasFreeze
<1>3. Spec => [](IInv /\ TextInv)
  BY <1>2, InitIInv, NextIInv, NextText, PTL DEF Spec
<1> QED
  BY <1>1, <1>3, PTL

\* The whole page is true: what it tells, and its buttons: the admin's unfreezes
\* whenever the gate would, and a fresh verdict can be sent from its bond's page
\* exactly when the gate takes it, seizure included.
THEOREM RiskPage == Spec => []RiskPageIsTrue
<1>1. ASSUME IInv
      PROVE  RiskButtonsWork
  <2> SUFFICES ASSUME NEW b \in Bonds, status[b] # "None"
               PROVE  /\ UnfreezeEnabled(b) <=> CanUnfreeze(b)
                      /\ \A v \in signed :
                           /\ v.bond = b /\ CanSubmit(v) => SubmitEnabled(b, v)
                           /\ SubmitEnabled(b, v) /\ Fresh(v) => CanSubmit(v)
    BY DEF RiskButtonsWork
  <2>1. UnfreezeEnabled(b) <=> CanUnfreeze(b)
    BY DEF UnfreezeEnabled, CanUnfreeze
  <2>2. ASSUME NEW v \in signed
        PROVE  /\ v.bond = b /\ CanSubmit(v) => SubmitEnabled(b, v)
               /\ SubmitEnabled(b, v) /\ Fresh(v) => CanSubmit(v)
    <3>1. v.nonce \in Nat /\ lastNonce[b] \in Nat
      BY <1>1 DEF IInv, TypeOK, Verdict
    <3>2. SubmitEnabled(b, v) <=> v.key = signer /\ v.bond = b /\ v.nonce > lastNonce[b]
      <4>1. Problems(b, v) = {} <=> v.bond = b /\ ~(v.nonce <= lastNonce[b])
        BY DEF Problems
      <4> QED
        BY <3>1, <4>1 DEF SubmitEnabled, Verified
    <3>3. v.bond = b /\ Defaults(v.action, status[b]) => ~seized[b]
      BY <1>1 DEF Defaults, IInv, SeizedIffDefaulted
    <3> QED
      BY <3>2, <3>3 DEF CanSubmit, NewNonce
  <2> QED
    BY <2>1, <2>2
<1> QED
  BY <1>1, Invariance, RiskText, PTL DEF RiskPageIsTrue
=============================================================================

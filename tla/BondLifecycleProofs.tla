-------------------------- MODULE BondLifecycleProofs --------------------------
(***************************************************************************)
(* Theorems about coupons and their schedule, for any bonds, holders, terms*)
(* and delays with BlockSkew <= Lag.  IInv ties three things together: what*)
(* the schedule service has pending, the contract's pointer to it and the  *)
(* date the registry says is next.  MoneyInv, on top of it, ties the       *)
(* settlement balance to the pools and to what paid coupons still owe.     *)
(***************************************************************************)
EXTENDS CouponView, SumTheorems, SequenceTheorems, TLAPS

IsSequence(s) == \E S : s \in Seq(S)

Typed ==
  /\ nextCoupon \in [Bonds -> Nat]
  /\ scheduleOf \in [Bonds -> Nat]
  /\ scheduledFor \in [Bonds -> Nat]
  /\ schedules \in Seq(Schedule)
  /\ now \in Nat
  /\ DOMAIN coupons = Bonds
  /\ \A b \in Bonds : IsSequence(coupons[b])

\* A pointer names a schedule of its own bond.
PointerOwned ==
  \A b \in Bonds : scheduleOf[b] # 0 =>
    scheduleOf[b] \in DOMAIN schedules /\ schedules[scheduleOf[b]].bond = b

IInv ==
  /\ Typed
  /\ PointerOwned
  /\ OneRunPerBond
  /\ PointerServesNext
  /\ RunNeverEarly
  /\ CouponCalendar

-----------------------------------------------------------------------------
(* Sequences. *)

LEMMA AppendSequence ==
  ASSUME NEW s, NEW e, IsSequence(s)
  PROVE  IsSequence(Append(s, e)) /\ Len(Append(s, e)) = Len(s) + 1
<1>1. PICK S : s \in Seq(S)
  BY DEF IsSequence
<1>2. s \in Seq(S \cup {e})
  BY <1>1, SeqMonotonic
<1>3. Append(s, e) \in Seq(S \cup {e}) /\ Len(Append(s, e)) = Len(s) + 1
  BY <1>2, AppendProperties
<1> QED
  BY <1>3 DEF IsSequence

LEMMA AppendOne ==
  ASSUME NEW S, NEW s \in Seq(S), NEW e \in S
  PROVE  /\ DOMAIN Append(s, e) = 1 .. Len(s) + 1
         /\ \A i \in DOMAIN s : Append(s, e)[i] = s[i]
         /\ Append(s, e)[Len(s) + 1] = e
BY AppendProperties

LEMMA ExceptSequence ==
  ASSUME NEW s, NEW i \in DOMAIN s, NEW e, IsSequence(s)
  PROVE  IsSequence([s EXCEPT ![i] = e]) /\ Len([s EXCEPT ![i] = e]) = Len(s)
<1>1. PICK S : s \in Seq(S)
  BY DEF IsSequence
<1>2. s \in Seq(S \cup {e})
  BY <1>1, SeqMonotonic
<1>3. i \in 1 .. Len(s)
  BY <1>1
<1>4. [s EXCEPT ![i] = e] \in Seq(S \cup {e}) /\ Len([s EXCEPT ![i] = e]) = Len(s)
  BY <1>2, <1>3, ExceptSeq
<1> QED
  BY <1>4 DEF IsSequence

-----------------------------------------------------------------------------
(* The schedules as a call finds them. *)

\* hss differs from the schedules at most in that some of them are over.
Later(hss) ==
  /\ hss \in Seq(Schedule)
  /\ DOMAIN hss = DOMAIN schedules
  /\ \A i \in DOMAIN hss :
       /\ hss[i].bond = schedules[i].bond
       /\ hss[i].at = schedules[i].at
       /\ hss[i].state = "pending" => schedules[i].state = "pending"

\* Nothing is pending for bond b in hss.
NonePending(b, hss) ==
  \A i \in DOMAIN hss : hss[i].bond = b => hss[i].state # "pending"

LEMMA OverIsLater ==
  ASSUME IInv, NEW i \in DOMAIN schedules, NEW st \in {"executed", "deleted"},
         NEW hss, Later(hss)
  PROVE  Later([hss EXCEPT ![i].state = st])
<1>1. hss \in Seq(Schedule) /\ i \in 1 .. Len(hss) /\ hss[i] \in Schedule
  BY DEF Later
<1>2. [hss[i] EXCEPT !.state = st] \in Schedule
  BY <1>1 DEF Schedule
<1>3. /\ [hss EXCEPT ![i].state = st] \in Seq(Schedule)
      /\ DOMAIN [hss EXCEPT ![i].state = st] = DOMAIN hss
  BY <1>1, <1>2
<1>4. \A j \in DOMAIN hss : hss[j] \in Schedule
  BY <1>1
<1>5. \A j \in DOMAIN hss :
        [hss EXCEPT ![i].state = st][j] =
          IF j = i THEN [hss[i] EXCEPT !.state = st] ELSE hss[j]
  BY <1>1
<1> QED
  BY <1>1, <1>3, <1>4, <1>5 DEF Later, Schedule

\* After deleteSchedule nothing is pending for the bond that paid.
LEMMA DropClears ==
  ASSUME IInv, NEW b \in Bonds, NEW hss, Later(hss)
  PROVE  Later(DropPending(b, hss)) /\ NonePending(b, DropPending(b, hss))
<1>1. \A i \in DOMAIN hss : hss[i].bond = b /\ hss[i].state = "pending"
        => i = scheduleOf[b]
  BY DEF IInv, OneRunPerBond, Pending, Later
<1>2. CASE scheduleOf[b] # 0 /\ hss[scheduleOf[b]].state = "pending"
  <2> DEFINE p == scheduleOf[b]
  <2>1. p \in DOMAIN schedules
    BY <1>2 DEF IInv, PointerOwned
  <2>2. DropPending(b, hss) = [hss EXCEPT ![p].state = "deleted"]
    BY <1>2 DEF DropPending
  <2>3. Later([hss EXCEPT ![p].state = "deleted"])
    BY <2>1, OverIsLater
  <2>4. \A j \in DOMAIN hss : j # p => DropPending(b, hss)[j] = hss[j]
    BY <2>2
  <2>5. hss[p] \in Schedule /\ p \in DOMAIN hss
    BY <2>1 DEF Later
  <2>6. DropPending(b, hss)[p].state = "deleted"
    BY <2>2, <2>5 DEF Schedule
  <2>7. DOMAIN DropPending(b, hss) = DOMAIN hss
    BY <2>2
  <2> QED
    BY <1>1, <2>2, <2>3, <2>4, <2>6, <2>7 DEF NonePending
<1>3. CASE ~(scheduleOf[b] # 0 /\ hss[scheduleOf[b]].state = "pending")
  <2>1. DropPending(b, hss) = hss
    BY <1>3 DEF DropPending
  <2>2. Typed
    BY DEF IInv
  <2>3. \A i \in DOMAIN hss : i # 0
    BY DEF Later
  <2> QED
    BY <1>1, <1>3, <2>1, <2>3 DEF NonePending
<1> QED
  BY <1>2, <1>3

\* What every step that touches a pointer does: it drops the pointer of b or
\* sets it to a new run for the coupon that is next, on schedules where nothing
\* is pending for b.
LEMMA Repointed ==
  ASSUME IInv, NEW b \in Bonds, NEW hss, Later(hss), NonePending(b, hss),
         Typed', nextCoupon'[b] \in Nat,
         \A c \in Bonds \ {b} : nextCoupon'[c] = nextCoupon[c],
         \/ Arm(b, nextCoupon'[b], hss)
         \/ /\ schedules' = hss
            /\ scheduleOf' = Cleared(scheduleOf, b)
            /\ scheduledFor' = Cleared(scheduledFor, b)
  PROVE  PointerOwned' /\ OneRunPerBond' /\ PointerServesNext' /\ RunNeverEarly'
<1>1. /\ hss \in Seq(Schedule) /\ DOMAIN hss = 1 .. Len(hss) /\ Len(hss) \in Nat
      /\ DOMAIN hss = DOMAIN schedules
      /\ \A i \in DOMAIN hss : hss[i] \in Schedule
  BY DEF Later
<1>2. /\ \A i \in DOMAIN hss : hss[i].bond = schedules[i].bond
      /\ \A i \in DOMAIN hss : hss[i].at = schedules[i].at
      /\ \A i \in DOMAIN hss : hss[i].bond \in Bonds
      /\ \A i \in DOMAIN hss : hss[i].state = "pending" =>
           /\ hss[i].bond # b
           /\ scheduleOf[hss[i].bond] = i
           /\ nextCoupon[hss[i].bond] + BlockSkew <= hss[i].at
  BY <1>1 DEF Later, NonePending, Schedule, IInv, OneRunPerBond, RunNeverEarly, Pending
<1>3. /\ \A c \in Bonds : scheduleOf[c] # 0 =>
           /\ scheduleOf[c] \in DOMAIN hss /\ hss[scheduleOf[c]].bond = c
           /\ scheduledFor[c] = nextCoupon[c]
      /\ scheduleOf \in [Bonds -> Nat] /\ scheduledFor \in [Bonds -> Nat]
  BY <1>1, <1>2 DEF IInv, Typed, PointerOwned, PointerServesNext
<1>4. CASE /\ schedules' = hss
           /\ scheduleOf' = Cleared(scheduleOf, b)
           /\ scheduledFor' = Cleared(scheduledFor, b)
  <2>1. /\ \A c \in Bonds : scheduleOf'[c] = IF c = b THEN 0 ELSE scheduleOf[c]
        /\ \A c \in Bonds : scheduledFor'[c] = IF c = b THEN 0 ELSE scheduledFor[c]
    BY <1>4, <1>3 DEF Cleared
  <2>2. PointerOwned'
    BY <1>4, <1>3, <2>1 DEF PointerOwned
  <2>3. OneRunPerBond'
    BY <1>2, <1>4, <2>1 DEF OneRunPerBond, Pending
  <2>4. PointerServesNext'
    BY <1>3, <2>1 DEF PointerServesNext
  <2>5. RunNeverEarly'
    BY <1>2, <1>4 DEF RunNeverEarly, Pending
  <2> QED
    BY <2>2, <2>3, <2>4, <2>5
<1>5. CASE Arm(b, nextCoupon'[b], hss)
  <2> DEFINE n == Len(hss) + 1
  <2>1. ArmAt(nextCoupon'[b]) \in Nat /\ ArmAt(nextCoupon'[b]) >= nextCoupon'[b] + BlockSkew
    BY ScheduleAssumption DEF Typed, ArmAt, Max2, IInv
  <2>3. PICK d \in 0 .. MaxSlide :
          schedules' = Append(hss, [bond |-> b, at |-> ArmAt(nextCoupon'[b]) + d,
                                    state |-> "pending"])
    BY <1>5 DEF Arm
  <2>4. PICK e \in Schedule :
          /\ schedules' = Append(hss, e)
          /\ e.bond = b /\ e.state = "pending" /\ nextCoupon'[b] + BlockSkew <= e.at
    <3> DEFINE new == [bond |-> b, at |-> ArmAt(nextCoupon'[b]) + d, state |-> "pending"]
    <3>1. new \in Schedule /\ nextCoupon'[b] + BlockSkew <= new.at
      BY <2>1, ScheduleAssumption DEF Schedule
    <3> QED
      BY <2>3, <3>1
  <2>2. /\ \A c \in Bonds : scheduleOf'[c] = IF c = b THEN n ELSE scheduleOf[c]
        /\ \A c \in Bonds : scheduledFor'[c] =
             IF c = b THEN nextCoupon'[b] ELSE scheduledFor[c]
    BY <1>5, <1>3 DEF Arm
  <2>5. /\ DOMAIN schedules' = 1 .. n
        /\ \A i \in DOMAIN hss : schedules'[i] = hss[i]
        /\ schedules'[n] = e
    <3>1. /\ DOMAIN Append(hss, e) = 1 .. Len(hss) + 1
          /\ \A i \in DOMAIN hss : Append(hss, e)[i] = hss[i]
          /\ Append(hss, e)[Len(hss) + 1] = e
      BY <1>1, AppendOne
    <3> HIDE DEF n
    <3>2. schedules' = Append(hss, e)
      BY <2>4
    <3> QED
      BY <3>1, <3>2 DEF n
  <2>6. \A i \in 1 .. n : i = n \/ i \in DOMAIN hss
    BY <1>1
  <2>8. PointerOwned'
    <3>1. n \in DOMAIN schedules' /\ n # 0
      BY <1>1, <2>5
    <3>2. \A c \in Bonds \ {b} : scheduleOf'[c] # 0 =>
            scheduleOf'[c] \in DOMAIN schedules' /\ schedules'[scheduleOf'[c]].bond = c
      BY <1>1, <1>3, <2>2, <2>5
    <3> QED
      BY <2>2, <2>4, <2>5, <3>1, <3>2 DEF PointerOwned
  <2>9. OneRunPerBond'
    BY <1>2, <2>2, <2>4, <2>5, <2>6 DEF OneRunPerBond, Pending
  <2>10. PointerServesNext'
    BY <1>3, <2>2 DEF PointerServesNext
  <2>11. RunNeverEarly'
    BY <1>2, <2>4, <2>5, <2>6 DEF RunNeverEarly, Pending
  <2> QED
    BY <2>8, <2>9, <2>10, <2>11
<1> QED
  BY <1>4, <1>5

LEMMA RepointedTyped ==
  ASSUME IInv, NEW b \in Bonds, NEW hss, Later(hss), NEW target \in Nat,
         \/ Arm(b, target, hss)
         \/ /\ schedules' = hss
            /\ scheduleOf' = Cleared(scheduleOf, b)
            /\ scheduledFor' = Cleared(scheduledFor, b)
  PROVE  /\ schedules' \in Seq(Schedule)
         /\ scheduleOf' \in [Bonds -> Nat]
         /\ scheduledFor' \in [Bonds -> Nat]
<1>1. hss \in Seq(Schedule) /\ Len(hss) \in Nat
  BY DEF Later
<1>2. scheduleOf \in [Bonds -> Nat] /\ scheduledFor \in [Bonds -> Nat] /\ now \in Nat
  BY DEF IInv, Typed
<1>3. CASE Arm(b, target, hss)
  <2>1. PICK d \in 0 .. MaxSlide :
          schedules' = Append(hss, [bond |-> b, at |-> ArmAt(target) + d,
                                    state |-> "pending"])
    BY <1>3 DEF Arm
  <2>2. ArmAt(target) \in Nat
    BY <1>2, ScheduleAssumption DEF ArmAt, Max2
  <2>3. PICK e \in Schedule : schedules' = Append(hss, e)
    <3>1. [bond |-> b, at |-> ArmAt(target) + d, state |-> "pending"] \in Schedule
      BY <2>2, ScheduleAssumption DEF Schedule
    <3> QED
      BY <2>1, <3>1
  <2>4. Append(hss, e) \in Seq(Schedule)
    BY <1>1, AppendProperties
  <2> QED
    BY <1>1, <1>2, <1>3, <2>3, <2>4 DEF Arm
<1>4. CASE /\ schedules' = hss
           /\ scheduleOf' = Cleared(scheduleOf, b)
           /\ scheduledFor' = Cleared(scheduledFor, b)
  BY <1>1, <1>2, <1>4 DEF Cleared
<1> QED
  BY <1>3, <1>4

\* payCoupon keeps the invariant, whoever calls it.
LEMMA PayIInv ==
  ASSUME IInv, NEW b \in Bonds, NEW hss, Later(hss), Pay(b, hss)
  PROVE  IInv'
<1> DEFINE next == NextAfter(b)
           left == DropPending(b, hss)
<1>1. Later(left) /\ NonePending(b, left)
  BY DropClears
<1>2. PICK rest : rest = left
  OBVIOUS
<1>3. next \in Nat /\ next = nextCoupon[b] + Interval
  BY TermsAssumption DEF NextAfter, IInv, Typed
<1>4. /\ nextCoupon' \in [Bonds -> Nat]
      /\ \A c \in Bonds : nextCoupon'[c] = IF c = b THEN next ELSE nextCoupon[c]
  BY <1>3 DEF Pay, IInv, Typed
<1>5. \/ Arm(b, nextCoupon'[b], rest)
      \/ /\ schedules' = rest
         /\ scheduleOf' = Cleared(scheduleOf, b)
         /\ scheduledFor' = Cleared(scheduledFor, b)
  BY <1>2, <1>4 DEF Pay
<1>6. Later(rest) /\ NonePending(b, rest)
  BY <1>1, <1>2
<1>7. PICK target \in Nat : target = nextCoupon'[b]
  BY <1>4
<1>8. /\ schedules' \in Seq(Schedule)
      /\ scheduleOf' \in [Bonds -> Nat]
      /\ scheduledFor' \in [Bonds -> Nat]
  BY <1>5, <1>6, <1>7, RepointedTyped
<1>9. /\ DOMAIN coupons' = Bonds
      /\ \A c \in Bonds : IsSequence(coupons'[c])
      /\ \A c \in Bonds : Len(coupons'[c]) =
           IF c = b THEN Len(coupons[b]) + 1 ELSE Len(coupons[c])
  <2>1. DOMAIN coupons = Bonds /\ \A c \in Bonds : IsSequence(coupons[c])
    BY DEF IInv, Typed
  <2>2. PICK e : coupons' = [coupons EXCEPT ![b] = Append(@, e)]
    BY DEF Pay
  <2>3. IsSequence(Append(coupons[b], e)) /\ Len(Append(coupons[b], e)) = Len(coupons[b]) + 1
    BY <2>1, AppendSequence
  <2> QED
    BY <2>1, <2>2, <2>3
<1>10. Typed'
  BY <1>4, <1>8, <1>9 DEF Typed, Pay, IInv
<1>11. PointerOwned' /\ OneRunPerBond' /\ PointerServesNext' /\ RunNeverEarly'
  BY <1>4, <1>5, <1>6, <1>10, Repointed
<1>12. CouponCalendar'
  <2>1. \A c \in Bonds : Len(coupons[c]) \in Nat /\ nextCoupon[c] \in Nat
                         /\ nextCoupon[c] = FirstCoupon + Interval * Len(coupons[c])
    BY LenProperties DEF IInv, Typed, CouponCalendar, IsSequence
  <2>2. nextCoupon'[b] = FirstCoupon + Interval * Len(coupons'[b])
    <3>1. PICK n \in Nat : n = Len(coupons[b])
      BY <2>1
    <3>2. nextCoupon'[b] = (FirstCoupon + Interval * n) + Interval
          /\ Len(coupons'[b]) = n + 1
      BY <1>3, <1>4, <1>9, <2>1, <3>1
    <3>3. Interval * (n + 1) = Interval * n + Interval /\ Interval * n \in Nat
      BY TermsAssumption, <3>1
    <3> QED
      BY <3>2, <3>3, TermsAssumption
  <2> QED
    BY <1>4, <1>9, <2>1, <2>2 DEF CouponCalendar
<1> QED
  BY <1>10, <1>11, <1>12 DEF IInv

\* schedule() goes through only when nothing is pending for the bond.
LEMMA RearmIInv ==
  ASSUME IInv, NEW b \in Bonds, Rearm(b)
  PROVE  IInv'
<1>1. Later(schedules)
  BY DEF Later, IInv, Typed
<1>2. NonePending(b, schedules)
  <2>1. scheduleOf[b] = 0
    BY DEF Rearm, Schedulable, IInv, PointerServesNext
  <2>2. \A i \in DOMAIN schedules : i # 0
    BY DEF IInv, Typed
  <2> QED
    BY <2>1, <2>2 DEF NonePending, IInv, OneRunPerBond, Pending
<1>3. PICK hss : hss = schedules
  OBVIOUS
<1>4. Later(hss) /\ NonePending(b, hss)
  BY <1>1, <1>2, <1>3
<1>5. /\ nextCoupon' = nextCoupon /\ coupons' = coupons /\ now' = now
      /\ nextCoupon[b] \in Nat
  BY DEF Rearm, moneyVars, IInv, Typed
<1>6. Arm(b, nextCoupon[b], hss) /\ Arm(b, nextCoupon'[b], hss)
  BY <1>3, <1>5 DEF Rearm
<1>7. PICK target \in Nat : target = nextCoupon[b]
  BY <1>5
<1>8. /\ schedules' \in Seq(Schedule)
      /\ scheduleOf' \in [Bonds -> Nat]
      /\ scheduledFor' \in [Bonds -> Nat]
  BY <1>4, <1>6, <1>7, RepointedTyped
<1>9. Typed'
  BY <1>5, <1>8 DEF Typed, IInv
<1>10. PointerOwned' /\ OneRunPerBond' /\ PointerServesNext' /\ RunNeverEarly'
  BY <1>4, <1>5, <1>6, <1>9, Repointed
<1> QED
  BY <1>5, <1>9, <1>10 DEF IInv, CouponCalendar

\* A run that reverts is over; the pointer to it stays.
LEMMA RevertIInv ==
  ASSUME IInv, NEW i \in DOMAIN schedules, RunReverts(i)
  PROVE  IInv'
<1>1. Later(schedules)
  BY DEF Later, IInv, Typed
<1>2. Later(schedules')
  BY <1>1, OverIsLater DEF RunReverts, Executed
<1>3. UNCHANGED <<nextCoupon, scheduleOf, scheduledFor, coupons, now>>
  BY DEF RunReverts, moneyVars
<1>4. Typed'
  BY <1>2, <1>3 DEF Typed, IInv, Later
<1>5. PointerOwned' /\ OneRunPerBond' /\ PointerServesNext' /\ RunNeverEarly'
  BY <1>2, <1>3 DEF IInv, PointerOwned, OneRunPerBond, PointerServesNext, RunNeverEarly,
                    Pending, Later
<1> QED
  BY <1>3, <1>4, <1>5 DEF IInv, CouponCalendar

\* Claiming changes a coupon, never their number.
LEMMA ClaimIInv ==
  ASSUME IInv, NEW b \in Bonds, NEW h \in Holders, NEW i \in DOMAIN coupons[b],
         Claim(b, i, h)
  PROVE  IInv'
<1>1. UNCHANGED <<nextCoupon, scheduleOf, scheduledFor, schedules, now>>
  BY DEF Claim, CanClaim, runVars
<1>2. DOMAIN coupons = Bonds /\ \A c \in Bonds : IsSequence(coupons[c])
  BY DEF IInv, Typed
<1>3. PICK e : coupons' = [coupons EXCEPT ![b][i] = e]
  <2>1. coupons' = [coupons EXCEPT ![b][i] =
          [coupons[b][i] EXCEPT !.claimedTotal = @ + Share(coupons[b][i], h)]]
    BY DEF Claim, CanClaim
  <2> QED
    BY <2>1
<1>4. /\ IsSequence([coupons[b] EXCEPT ![i] = e])
      /\ Len([coupons[b] EXCEPT ![i] = e]) = Len(coupons[b])
  BY <1>2, ExceptSequence
<1>5. \A c \in Bonds : IsSequence(coupons'[c]) /\ Len(coupons'[c]) = Len(coupons[c])
  BY <1>2, <1>3, <1>4
<1>6. DOMAIN coupons' = Bonds
  BY <1>2, <1>3
<1> QED
  BY <1>1, <1>5, <1>6 DEF IInv, Typed, PointerOwned, OneRunPerBond, PointerServesNext,
                          RunNeverEarly, CouponCalendar, Pending

\* Every other step leaves the schedules, the dates and the coupons alone.
LEMMA QuietIInv ==
  ASSUME IInv, UNCHANGED <<nextCoupon, scheduleOf, scheduledFor, schedules, coupons>>,
         now' \in Nat
  PROVE  IInv'
BY DEF IInv, Typed, PointerOwned, OneRunPerBond, PointerServesNext, RunNeverEarly,
       CouponCalendar, Pending

LEMMA InitIInv == Init => IInv
<1> SUFFICES ASSUME Init PROVE IInv
  OBVIOUS
<1>1. schedules = <<>> /\ schedules \in Seq(Schedule) /\ DOMAIN schedules = {}
  BY DEF Init
<1>2. \A b \in Bonds : IsSequence(coupons[b]) /\ Len(coupons[b]) = 0
  BY DEF Init, IsSequence
<1>3. Typed
  BY <1>1, <1>2, TermsAssumption DEF Init, Typed
<1>4. CouponCalendar
  BY <1>2, TermsAssumption DEF Init, CouponCalendar
<1>5. PointerOwned /\ PointerServesNext
  BY DEF Init, PointerOwned, PointerServesNext
<1>6. OneRunPerBond /\ RunNeverEarly
  BY <1>1 DEF OneRunPerBond, RunNeverEarly
<1> QED
  BY <1>3, <1>4, <1>5, <1>6 DEF IInv

LEMMA NextIInv == IInv /\ [Next]_vars => IInv'
<1> SUFFICES ASSUME IInv, [Next]_vars PROVE IInv'
  OBVIOUS
<1>0. now \in Nat /\ Later(schedules)
  BY DEF IInv, Typed, Later
<1>1. ASSUME NEW b \in Bonds, PayByHand(b) PROVE IInv'
  <2>1. PICK hss : hss = schedules
    OBVIOUS
  <2> QED
    BY <1>0, <1>1, <2>1, PayIInv DEF PayByHand
<1>2. ASSUME NEW i \in DOMAIN schedules, RunPays(i) PROVE IInv'
  <2>1. PICK hss : hss = Executed(i)
    OBVIOUS
  <2>2. Later(hss)
    BY <1>0, <2>1, OverIsLater DEF Executed
  <2>3. schedules[i] \in Schedule /\ schedules[i].bond \in Bonds
    <3>1. schedules \in Seq(Schedule)
      BY DEF IInv, Typed
    <3>2. schedules[i] \in Schedule
      BY <3>1
    <3> QED
      BY <3>2 DEF Schedule
  <2>4. PICK b \in Bonds : b = schedules[i].bond
    BY <2>3
  <2> QED
    BY <1>2, <2>1, <2>2, <2>4, PayIInv DEF RunPays
<1>3. ASSUME NEW b \in Bonds, Rearm(b) PROVE IInv'
  BY <1>3, RearmIInv
<1>4. ASSUME NEW i \in DOMAIN schedules, RunReverts(i) PROVE IInv'
  BY <1>4, RevertIInv
<1>5. ASSUME NEW b \in Bonds, NEW h \in Holders, NEW i \in DOMAIN coupons[b], Claim(b, i, h)
      PROVE  IInv'
  BY <1>5, ClaimIInv
<1>6. ASSUME NEW b \in Bonds, NEW n \in Amounts, Fund(b, n) PROVE IInv'
  BY <1>0, <1>6, QuietIInv DEF Fund, runVars
<1>7. ASSUME NEW b \in Bonds, NEW h \in Holders, Redeem(b, h) PROVE IInv'
  BY <1>0, <1>7, QuietIInv DEF Redeem, Redeemable, runVars
<1>8. ASSUME NEW b \in Bonds, NEW g \in Holders, NEW h \in Holders, Transfer(b, g, h)
      PROVE  IInv'
  BY <1>0, <1>8, QuietIInv DEF Transfer, runVars
<1>9. ASSUME NEW b \in Bonds, NEW from, NEW to, GateMoves(b, from, to) PROVE IInv'
  BY <1>0, <1>9, QuietIInv DEF GateMoves, runVars, moneyVars
<1>10. ASSUME Tick PROVE IInv'
  BY <1>0, <1>10, QuietIInv DEF Tick, runVars, moneyVars
<1>11. ASSUME NEW b \in Bonds, NEW to, TokenMoves(b, to) PROVE IInv'
  BY <1>0, <1>11, QuietIInv DEF TokenMoves, runVars, moneyVars
<1>12. ASSUME UNCHANGED vars PROVE IInv'
  BY <1>0, <1>12, QuietIInv DEF vars, runVars, moneyVars
<1> QED
  BY <1>1, <1>2, <1>3, <1>4, <1>5, <1>6, <1>7, <1>8, <1>9, <1>10, <1>11, <1>12 DEF Next

-----------------------------------------------------------------------------

\* The inductive invariant holds in every reachable state.
THEOREM Invariance == Spec => []IInv
BY InitIInv, NextIInv, PTL DEF Spec

\* At most one run is ever armed per bond, and the contract's pointer names it,
\* however payments by hand, runs, reverted runs and re-arming interleave.
THEOREM OneRun == Spec => []OneRunPerBond
BY Invariance, PTL DEF IInv

\* A set pointer serves the coupon that is next.
THEOREM ServesNext == Spec => []PointerServesNext
BY Invariance, PTL DEF IInv

\* With BlockSkew <= Lag no armed run can find its coupon not due.
THEOREM NeverEarly == Spec => []RunNeverEarly
BY Invariance, PTL DEF IInv

\* Runs serve coupons: one armed run per bond at most, named by the pointer, for
\* the coupon that is next and never before it is due.
THEOREM Serves == Spec => []RunsServeCoupons
BY OneRun, ServesNext, NeverEarly, PTL DEF RunsServeCoupons

\* The n-th coupon is paid for the n-th date.
THEOREM Calendar == Spec => []CouponCalendar
BY Invariance, PTL DEF IInv

-----------------------------------------------------------------------------
(* Money. *)

MoneyTyped ==
  /\ status \in [Bonds -> Status]
  /\ bal \in [Bonds -> [Holders -> Nat]]
  /\ funded \in [Bonds -> Nat]
  /\ coupons \in [Bonds -> Seq(Coupon)]
  /\ claimed \in [Bonds -> SUBSET (Nat \X Holders)]

DoneOf(marks, i) == {h \in Holders : <<i, h>> \in marks}

\* A coupon's supply is that of its snapshot, and what is gone of it are the
\* shares of the holders marked.
CouponSound(c, done) ==
  c.supply = SumOver(c.shares, Holders) /\ c.claimedTotal = SumOver(Shares(c), done)

BondSound(cs, marks) ==
  /\ \A i \in DOMAIN cs : CouponSound(cs[i], DoneOf(marks, i))
  /\ \A h \in Holders, i \in Nat : <<i, h>> \in marks => i \in DOMAIN cs

CouponsInv == \A b \in Bonds : BondSound(coupons[b], claimed[b])

MoneyInv == IInv /\ MoneyTyped /\ CouponsInv /\ Solvent

LEMMA OneClaimed ==
  ASSUME NEW c \in Coupon, NEW n \in Nat, NEW e,
         e = [c EXCEPT !.claimedTotal = c.claimedTotal + n]
  PROVE  /\ e \in Coupon /\ e.claimedTotal = c.claimedTotal + n /\ e.amount = c.amount
         /\ e.supply = c.supply /\ e.shares = c.shares
         /\ c.claimedTotal \in Nat /\ c.amount \in Nat
<1>1. c.claimedTotal \in Nat /\ c.amount \in Nat
  BY DEF Coupon
<1>2. c.claimedTotal + n \in Nat
  BY <1>1
<1> QED
  BY <1>1, <1>2 DEF Coupon

LEMMA ShareNat ==
  ASSUME NEW c \in Coupon, NEW h \in Holders
  PROVE  Share(c, h) \in Nat /\ Shares(c)[h] = Share(c, h)
<1>1. c.amount * c.shares[h] \in Nat /\ c.supply \in Nat
  BY DEF Coupon
<1>2. CASE c.supply = 0
  BY <1>2 DEF Share, Shares
<1>3. CASE c.supply # 0
  BY <1>1, <1>3, Floors DEF Share, Shares
<1> QED
  BY <1>2, <1>3

\* Whoever has claimed, no more is gone than the coupon's amount.
LEMMA SharesFit ==
  ASSUME NEW c \in Coupon, NEW done \in SUBSET Holders, CouponSound(c, done)
  PROVE  c.claimedTotal <= c.amount
<1>1. /\ IsFiniteSet(Holders) /\ c.amount \in Nat /\ c.supply \in Nat
      /\ \A h \in Holders : c.shares[h] \in Nat /\ Shares(c)[h] \in Nat
      /\ c.supply = SumOver(c.shares, Holders) /\ c.claimedTotal = SumOver(Shares(c), done)
  BY ShareNat, TermsAssumption DEF Coupon, CouponSound
<1>2. SumOver(Shares(c), done) <= SumOver(Shares(c), Holders)
  BY <1>1, SumSubset
<1>3. SumOver(Shares(c), Holders) \in Nat /\ SumOver(Shares(c), Holders) <= c.amount
  <2>1. CASE c.supply = 0
    <3>1. \A h \in Holders : Shares(c)[h] = 0
      BY <2>1 DEF Shares, Share
    <3> QED
      BY <1>1, <3>1, SumZero
  <2>2. CASE c.supply # 0
    <3>1. \A h \in Holders :
            Shares(c)[h] = (c.amount * c.shares[h]) \div SumOver(c.shares, Holders)
      BY <1>1, <2>2 DEF Shares, Share
    <3> QED
      BY <1>1, <2>2, <3>1, FlooredParts
  <2> QED
    BY <2>1, <2>2
<1>4. SumOver(Shares(c), done) \in Int
  <2>1. IsFiniteSet(done) /\ \A h \in done : Shares(c)[h] \in Int
    BY <1>1, FS_Subset
  <2> QED
    BY <2>1, SumInt
<1> QED
  BY <1>1, <1>2, <1>3, <1>4

\* What a bond's coupons still owe is a sum of non-negative parts.
LEMMA UnpaidNat ==
  ASSUME NEW cs \in Seq(Coupon), NEW marks \in SUBSET (Nat \X Holders), BondSound(cs, marks)
  PROVE  /\ IsFiniteSet(DOMAIN cs) /\ \A i \in DOMAIN cs : Unpaid(cs)[i] \in Nat
         /\ SumOver(Unpaid(cs), DOMAIN cs) \in Nat
<1>1. DOMAIN cs = 1 .. Len(cs) /\ Len(cs) \in Nat /\ \A i \in DOMAIN cs : cs[i] \in Coupon
  OBVIOUS
<1>2. IsFiniteSet(DOMAIN cs)
  BY <1>1, FS_Interval
<1>3. ASSUME NEW i \in DOMAIN cs
      PROVE  Unpaid(cs)[i] \in Nat
  <2>1. cs[i] \in Coupon /\ CouponSound(cs[i], DoneOf(marks, i)) /\ DoneOf(marks, i) \subseteq Holders
    BY <1>1 DEF BondSound, DoneOf
  <2>2. cs[i].claimedTotal <= cs[i].amount /\ cs[i].claimedTotal \in Nat /\ cs[i].amount \in Nat
    BY <2>1, SharesFit DEF Coupon
  <2> QED
    BY <2>2 DEF Unpaid
<1> QED
  BY <1>2, <1>3, SumNat

LEMMA BookedNat ==
  ASSUME MoneyTyped, CouponsInv, NEW b \in Bonds
  PROVE  Booked(b) \in Nat
<1>1. /\ coupons[b] \in Seq(Coupon) /\ claimed[b] \in SUBSET (Nat \X Holders)
      /\ BondSound(coupons[b], claimed[b]) /\ funded[b] \in Nat
  BY DEF MoneyTyped, CouponsInv
<1> QED
  BY <1>1, UnpaidNat DEF Booked

LEMMA UsdcNat ==
  ASSUME MoneyTyped, CouponsInv, Solvent
  PROVE  usdc \in Nat
<1> DEFINE books == [b \in Bonds |-> Booked(b)]
<1>1. IsFiniteSet(Bonds) /\ \A b \in Bonds : books[b] \in Nat
  BY BookedNat, TermsAssumption
<1> HIDE DEF books
<1>2. SumOver(books, Bonds) \in Nat
  BY <1>1, SumNat
<1> QED
  BY <1>2 DEF Solvent, books

\* Money that comes or goes for one bond keeps the balance what the books say.
LEMMA OneBondMoves ==
  ASSUME MoneyTyped, CouponsInv, Solvent, MoneyTyped', CouponsInv',
         NEW b \in Bonds, NEW d \in Int, Booked(b)' = Booked(b) + d, usdc' = usdc + d,
         \A c \in Bonds \ {b} : funded'[c] = funded[c] /\ coupons'[c] = coupons[c]
  PROVE  Solvent'
<1> DEFINE old == [c \in Bonds |-> Booked(c)]
<1>1. PICK new : new = [c \in Bonds |-> Booked(c)']
  OBVIOUS
<1>2. /\ IsFiniteSet(Bonds) /\ new[b] \in Int
      /\ \A c \in Bonds : old[c] \in Int /\ old[c] = Booked(c)
      /\ \A c \in Bonds \ {b} : new[c] = old[c]
  BY <1>1, BookedNat, TermsAssumption DEF Booked
<1> HIDE DEF old
<1>3. SumOver(new, Bonds) = SumOver(old, Bonds) - old[b] + new[b] /\ SumOver(old, Bonds) \in Int
  BY <1>2, SumChange, SumInt
<1>4. new[b] = old[b] + d
  BY <1>1, <1>2
<1>5. usdc = SumOver(old, Bonds)
  BY DEF Solvent, old
<1>6. usdc' = SumOver(new, Bonds)
  BY <1>2, <1>3, <1>4, <1>5
<1> QED
  BY <1>1, <1>6 DEF Solvent

LEMMA QuietMoney ==
  ASSUME MoneyTyped, CouponsInv, Solvent, UNCHANGED <<funded, coupons, claimed, usdc>>
  PROVE  CouponsInv' /\ Solvent'
<1>1. \A b \in Bonds : Booked(b)' = Booked(b)
  BY DEF Booked
<1>2. [b \in Bonds |-> Booked(b)'] = [b \in Bonds |-> Booked(b)]
  BY <1>1
<1>3. Solvent'
  BY <1>2 DEF Solvent
<1> QED
  BY <1>3 DEF CouponsInv

\* A coupon more is owed by the amount it was paid with.
LEMMA OneCouponMore ==
  ASSUME NEW cs \in Seq(Coupon), NEW marks \in SUBSET (Nat \X Holders), BondSound(cs, marks),
         NEW c \in Coupon, c.supply = SumOver(c.shares, Holders), c.claimedTotal = 0
  PROVE  /\ BondSound(Append(cs, c), marks)
         /\ SumOver(Unpaid(Append(cs, c)), DOMAIN Append(cs, c))
              = SumOver(Unpaid(cs), DOMAIN cs) + c.amount
<1> DEFINE n == Len(cs) + 1
<1>1. /\ n \in Nat /\ n \notin DOMAIN cs /\ DOMAIN Append(cs, c) = DOMAIN cs \cup {n}
      /\ \A i \in DOMAIN cs : Append(cs, c)[i] = cs[i]
      /\ Append(cs, c)[n] = c /\ c.amount \in Nat
  BY AppendProperties DEF Coupon
<1>2. PICK more : more = Append(cs, c)
  OBVIOUS
<1> HIDE DEF n
<1>3. BondSound(more, marks)
  <2>1. DoneOf(marks, n) = {}
    BY <1>1 DEF BondSound, DoneOf
  <2>2. CouponSound(c, {})
    BY SumEmpty DEF CouponSound
  <2> QED
    BY <1>1, <1>2, <2>1, <2>2 DEF BondSound
<1>4. /\ IsFiniteSet(DOMAIN cs) /\ \A i \in DOMAIN cs : Unpaid(cs)[i] \in Nat
      /\ SumOver(Unpaid(cs), DOMAIN cs) \in Nat
  BY UnpaidNat
<1>5. \A i \in DOMAIN cs : Unpaid(more)[i] = Unpaid(cs)[i]
  BY <1>1, <1>2 DEF Unpaid
<1>6. Unpaid(more)[n] = c.amount
  BY <1>1, <1>2 DEF Unpaid
<1>7. SumOver(Unpaid(more), DOMAIN cs \cup {n}) = SumOver(Unpaid(more), DOMAIN cs) + Unpaid(more)[n]
  <2>1. \A i \in DOMAIN cs \cup {n} : Unpaid(more)[i] \in Int
    BY <1>1, <1>4, <1>5, <1>6
  <2> QED
    BY <1>1, <1>4, <2>1, SumWith, Zenon
<1>8. SumOver(Unpaid(more), DOMAIN cs) = SumOver(Unpaid(cs), DOMAIN cs)
  BY <1>4, <1>5, SumEqual
<1> QED
  BY <1>1, <1>2, <1>3, <1>6, <1>7, <1>8

WithClaim(cs, i, h) ==
  [cs EXCEPT ![i] = [cs[i] EXCEPT !.claimedTotal = cs[i].claimedTotal + Share(cs[i], h)]]

\* A claim takes the holder's share out of what the coupon owes, and marks him.
LEMMA OneClaimMore ==
  ASSUME NEW cs \in Seq(Coupon), NEW marks \in SUBSET (Nat \X Holders), BondSound(cs, marks),
         NEW i \in DOMAIN cs, NEW h \in Holders, <<i, h>> \notin marks,
         NEW more, more = WithClaim(cs, i, h), NEW m, m = marks \cup {<<i, h>>}
  PROVE  /\ more \in Seq(Coupon) /\ DOMAIN more = DOMAIN cs /\ BondSound(more, m)
         /\ SumOver(Unpaid(more), DOMAIN cs) = SumOver(Unpaid(cs), DOMAIN cs) - Share(cs[i], h)
<1>1. PICK c \in Coupon : c = cs[i]
  OBVIOUS
<1>2. PICK share \in Nat : share = Share(c, h) /\ Shares(c)[h] = share
  BY ShareNat
<1> DEFINE e == [c EXCEPT !.claimedTotal = c.claimedTotal + share]
<1>3. /\ e \in Coupon /\ e.claimedTotal = c.claimedTotal + share /\ e.amount = c.amount
      /\ e.supply = c.supply /\ e.shares = c.shares
      /\ c.claimedTotal \in Nat /\ c.amount \in Nat
  <2>1. PICK f : f = e
    OBVIOUS
  <2> QED
    BY <2>1, OneClaimed
<1>4. Shares(e) = Shares(c)
  BY <1>3 DEF Shares, Share
<1>5. more = [cs EXCEPT ![i] = e]
  BY <1>1, <1>2 DEF WithClaim
<1> HIDE DEF e
<1>6. /\ more \in Seq(Coupon) /\ DOMAIN more = DOMAIN cs /\ more[i] = e
      /\ \A j \in DOMAIN cs \ {i} : more[j] = cs[j]
  BY <1>3, <1>5
<1>7. BondSound(more, marks \cup {<<i, h>>})
  <2>1. \A j \in DOMAIN cs \ {i} : DoneOf(marks \cup {<<i, h>>}, j) = DoneOf(marks, j)
    BY DEF DoneOf
  <2>2. CouponSound(e, DoneOf(marks \cup {<<i, h>>}, i))
    <3> DEFINE done == DoneOf(marks, i)
    <3>1. DoneOf(marks \cup {<<i, h>>}, i) = done \cup {h} /\ h \notin done /\ done \subseteq Holders
      BY DEF DoneOf
    <3>2. c.claimedTotal = SumOver(Shares(c), done) /\ c.supply = SumOver(c.shares, Holders)
      BY <1>1 DEF BondSound, CouponSound
    <3> HIDE DEF done
    <3>3. IsFiniteSet(done) /\ \A x \in done \cup {h} : Shares(c)[x] \in Int
      BY <3>1, TermsAssumption, FS_Subset, ShareNat
    <3>4. SumOver(Shares(c), done \cup {h}) = SumOver(Shares(c), done) + Shares(c)[h]
      BY <3>1, <3>3, SumWith
    <3> QED
      BY <1>2, <1>3, <1>4, <3>1, <3>2, <3>4 DEF CouponSound
  <2>3. \A k \in Holders, j \in Nat : <<j, k>> \in marks \cup {<<i, h>>} => j \in DOMAIN more
    BY <1>6 DEF BondSound
  <2>4. \A j \in DOMAIN more : CouponSound(more[j], DoneOf(marks \cup {<<i, h>>}, j))
    BY <1>6, <2>1, <2>2 DEF BondSound
  <2> QED
    BY <2>3, <2>4 DEF BondSound
<1>8. SumOver(Unpaid(more), DOMAIN cs) = SumOver(Unpaid(cs), DOMAIN cs) - share
  <2>1. /\ IsFiniteSet(DOMAIN cs) /\ \A j \in DOMAIN cs : Unpaid(cs)[j] \in Nat
        /\ SumOver(Unpaid(cs), DOMAIN cs) \in Nat
    BY UnpaidNat
  <2>2. Unpaid(more)[i] = Unpaid(cs)[i] - share
    <3>1. /\ Unpaid(more)[i] = e.amount - e.claimedTotal
          /\ Unpaid(cs)[i] = c.amount - c.claimedTotal
      BY <1>1, <1>6 DEF Unpaid
    <3> QED
      BY <1>3, <3>1
  <2>3. \A j \in DOMAIN cs \ {i} : Unpaid(more)[j] = Unpaid(cs)[j]
    BY <1>6 DEF Unpaid
  <2>4. (\A j \in DOMAIN cs : Unpaid(cs)[j] \in Int) /\ Unpaid(more)[i] \in Int
    BY <2>1, <2>2
  <2>5. SumOver(Unpaid(more), DOMAIN cs)
          = SumOver(Unpaid(cs), DOMAIN cs) - Unpaid(cs)[i] + Unpaid(more)[i]
    <3>1. PICK D, f, g : D = DOMAIN cs /\ f = Unpaid(cs) /\ g = Unpaid(more)
      OBVIOUS
    <3>2. /\ IsFiniteSet(D) /\ i \in D /\ g[i] \in Int
          /\ \A j \in D : f[j] \in Int
          /\ \A j \in D \ {i} : g[j] = f[j]
      BY <2>1, <2>3, <2>4, <3>1
    <3>3. SumOver(g, D) = SumOver(f, D) - f[i] + g[i]
      BY <3>2, SumChange
    <3> QED
      BY <3>1, <3>3
  <2> QED
    BY <2>1, <2>2, <2>4, <2>5
<1> QED
  BY <1>1, <1>2, <1>6, <1>7, <1>8

-----------------------------------------------------------------------------
(* Every step keeps the money. *)

LEMMA SupplyNat ==
  ASSUME MoneyTyped, NEW b \in Bonds
  PROVE  Supply(b) \in Nat /\ Due(b) \in Nat
<1>1. IsFiniteSet(Holders) /\ \A h \in Holders : bal[b][h] \in Nat
  BY TermsAssumption DEF MoneyTyped
<1>2. PICK total \in Nat : total = Supply(b)
  BY <1>1, SumNat DEF Supply
<1>3. (total * CouponNum) \div CouponDen \in Nat
  <2>1. total * CouponNum \in Nat /\ CouponDen \in Nat \ {0}
    BY TermsAssumption
  <2> QED
    BY <2>1, Floors
<1> QED
  BY <1>2, <1>3 DEF Due

\* Paying a coupon moves its amount from the pool to what is owed on it.
LEMMA PayMoney ==
  ASSUME MoneyInv, NEW b \in Bonds, NEW hss, Pay(b, hss)
  PROVE  MoneyTyped' /\ CouponsInv' /\ Solvent'
<1>1. /\ coupons[b] \in Seq(Coupon) /\ claimed[b] \in SUBSET (Nat \X Holders)
      /\ BondSound(coupons[b], claimed[b]) /\ funded[b] \in Nat
      /\ bal[b] \in [Holders -> Nat] /\ Supply(b) \in Nat
  BY SupplyNat DEF MoneyInv, MoneyTyped, CouponsInv
<1>2. PICK due \in Nat : due = Due(b)
  BY SupplyNat DEF MoneyInv
<1>3. PICK c \in Coupon : /\ c = [amount |-> due, claimedTotal |-> 0, shares |-> bal[b],
                                  supply |-> Supply(b)]
                          /\ c.supply = SumOver(c.shares, Holders)
                          /\ c.claimedTotal = 0 /\ c.amount = due
  <2>1. [amount |-> due, claimedTotal |-> 0, shares |-> bal[b], supply |-> Supply(b)] \in Coupon
    BY <1>1 DEF Coupon
  <2> QED
    BY <2>1 DEF Supply
<1>4. /\ funded[b] >= due /\ funded' = [funded EXCEPT ![b] = funded[b] - due]
      /\ coupons' = [coupons EXCEPT ![b] = Append(coupons[b], c)]
      /\ UNCHANGED <<status, bal, claimed, usdc>>
  BY <1>2, <1>3 DEF Pay, Payable, PoolAfter
<1>5. PICK more : more = Append(coupons[b], c)
  OBVIOUS
<1>6. more \in Seq(Coupon)
  BY <1>1, <1>5
<1>7. /\ funded' \in [Bonds -> Nat] /\ funded'[b] = funded[b] - due
      /\ coupons' \in [Bonds -> Seq(Coupon)] /\ coupons'[b] = more
      /\ \A d \in Bonds \ {b} : funded'[d] = funded[d] /\ coupons'[d] = coupons[d]
  BY <1>1, <1>4, <1>5, <1>6 DEF MoneyInv, MoneyTyped
<1>8. MoneyTyped'
  BY <1>4, <1>7 DEF MoneyInv, MoneyTyped
<1>9. /\ BondSound(more, claimed[b])
      /\ SumOver(Unpaid(more), DOMAIN more) = SumOver(Unpaid(coupons[b]), DOMAIN coupons[b]) + due
  BY <1>1, <1>3, <1>5, OneCouponMore
<1>10. CouponsInv'
  BY <1>4, <1>7, <1>9 DEF MoneyInv, CouponsInv
<1>11. Booked(b)' = Booked(b) + 0
  <2>1. SumOver(Unpaid(coupons[b]), DOMAIN coupons[b]) \in Nat
    BY <1>1, UnpaidNat
  <2>2. Booked(b)' = (funded[b] - due) + (SumOver(Unpaid(coupons[b]), DOMAIN coupons[b]) + due)
    BY <1>7, <1>9 DEF Booked
  <2> QED
    BY <1>1, <2>1, <2>2 DEF Booked
<1>12. usdc' = usdc + 0
  BY <1>4, UsdcNat DEF MoneyInv
<1> QED
  BY <1>7, <1>8, <1>10, <1>11, <1>12, OneBondMoves DEF MoneyInv

\* A claim pays out what it takes from the coupon.
LEMMA ClaimMoney ==
  ASSUME MoneyInv, NEW b \in Bonds, NEW h \in Holders, NEW i \in DOMAIN coupons[b], Claim(b, i, h)
  PROVE  MoneyTyped' /\ CouponsInv' /\ Solvent'
<1>1. PICK cs, marks : cs = coupons[b] /\ marks = claimed[b]
  OBVIOUS
<1>2. /\ cs \in Seq(Coupon) /\ marks \in SUBSET (Nat \X Holders) /\ BondSound(cs, marks)
      /\ i \in DOMAIN cs /\ <<i, h>> \notin marks /\ funded[b] \in Nat
  BY <1>1 DEF MoneyInv, MoneyTyped, CouponsInv, Claim, CanClaim, Unclaimed
<1>3. PICK more, m : more = WithClaim(cs, i, h) /\ m = marks \cup {<<i, h>>}
  OBVIOUS
<1>4. /\ coupons' = [coupons EXCEPT ![b] = more] /\ claimed' = [claimed EXCEPT ![b] = m]
      /\ usdc' = usdc - Share(cs[i], h) /\ UNCHANGED <<status, bal, funded>>
  BY <1>1, <1>3 DEF Claim, CanClaim, WithClaim
<1>5. PICK share \in Nat : share = Share(cs[i], h)
  <2>1. cs[i] \in Coupon
    BY <1>2
  <2> QED
    BY <2>1, ShareNat
<1>6. /\ more \in Seq(Coupon) /\ DOMAIN more = DOMAIN cs /\ BondSound(more, m)
      /\ SumOver(Unpaid(more), DOMAIN cs) = SumOver(Unpaid(cs), DOMAIN cs) - share
  BY <1>2, <1>3, <1>5, OneClaimMore
<1>7. m \in SUBSET (Nat \X Holders)
  <2>1. i \in Nat
    BY <1>2
  <2> QED
    BY <1>2, <1>3, <2>1
<1>8. /\ coupons' \in [Bonds -> Seq(Coupon)] /\ coupons'[b] = more
      /\ claimed' \in [Bonds -> SUBSET (Nat \X Holders)] /\ claimed'[b] = m
      /\ \A d \in Bonds \ {b} : coupons'[d] = coupons[d] /\ claimed'[d] = claimed[d]
  BY <1>4, <1>6, <1>7 DEF MoneyInv, MoneyTyped
<1>9. MoneyTyped'
  BY <1>4, <1>8 DEF MoneyInv, MoneyTyped
<1>10. CouponsInv'
  BY <1>6, <1>8 DEF MoneyInv, CouponsInv
<1>11. Booked(b)' = Booked(b) + (0 - share)
  <2>1. SumOver(Unpaid(cs), DOMAIN cs) \in Nat
    BY <1>2, UnpaidNat
  <2>2. Booked(b)' = funded[b] + (SumOver(Unpaid(cs), DOMAIN cs) - share)
    BY <1>4, <1>6, <1>8 DEF Booked
  <2>3. Booked(b) = funded[b] + SumOver(Unpaid(cs), DOMAIN cs)
    BY <1>1 DEF Booked
  <2> QED
    BY <1>2, <1>5, <2>1, <2>2, <2>3
<1>12. usdc' = usdc + (0 - share) /\ 0 - share \in Int
  BY <1>4, <1>5, UsdcNat DEF MoneyInv
<1> QED
  BY <1>4, <1>8, <1>9, <1>10, <1>11, <1>12, OneBondMoves DEF MoneyInv

\* Funding and redeeming move pool and balance by the same amount.
LEMMA PoolMoney ==
  ASSUME MoneyInv, NEW b \in Bonds, NEW d \in Int, MoneyTyped',
         funded'[b] = funded[b] + d, usdc' = usdc + d, UNCHANGED <<coupons, claimed>>,
         \A c \in Bonds \ {b} : funded'[c] = funded[c]
  PROVE  CouponsInv' /\ Solvent'
<1>1. CouponsInv'
  BY DEF MoneyInv, CouponsInv
<1>2. Booked(b)' = Booked(b) + d
  <2>1. SumOver(Unpaid(coupons[b]), DOMAIN coupons[b]) \in Nat /\ funded[b] \in Nat
    BY UnpaidNat DEF MoneyInv, MoneyTyped, CouponsInv
  <2> QED
    BY <2>1 DEF Booked
<1> QED
  BY <1>1, <1>2, OneBondMoves DEF MoneyInv

LEMMA FundMoney ==
  ASSUME MoneyInv, NEW b \in Bonds, NEW n \in Amounts, Fund(b, n)
  PROVE  MoneyTyped' /\ CouponsInv' /\ Solvent'
<1>1. n \in Nat /\ funded \in [Bonds -> Nat]
  BY ScheduleAssumption DEF MoneyInv, MoneyTyped
<1>2. /\ funded' \in [Bonds -> Nat] /\ funded'[b] = funded[b] + n
      /\ \A c \in Bonds \ {b} : funded'[c] = funded[c]
  BY <1>1 DEF Fund
<1>3. MoneyTyped'
  BY <1>2 DEF Fund, MoneyInv, MoneyTyped
<1> QED
  BY <1>1, <1>2, <1>3, PoolMoney DEF Fund

LEMMA RedeemMoney ==
  ASSUME MoneyInv, NEW b \in Bonds, NEW h \in Holders, Redeem(b, h)
  PROVE  MoneyTyped' /\ CouponsInv' /\ Solvent'
<1>1. PICK principal \in Nat : principal = bal[b][h] * Face
  BY TermsAssumption DEF MoneyInv, MoneyTyped
<1>2. /\ funded' \in [Bonds -> Nat] /\ funded'[b] = funded[b] + (0 - principal)
      /\ \A c \in Bonds \ {b} : funded'[c] = funded[c]
  <2>1. /\ funded \in [Bonds -> Nat] /\ funded[b] >= principal
        /\ funded' = [funded EXCEPT ![b] = funded[b] - principal]
    BY <1>1 DEF Redeem, Redeemable, MoneyInv, MoneyTyped
  <2> QED
    BY <2>1
<1>3. usdc' = usdc + (0 - principal) /\ 0 - principal \in Int
  BY <1>1, UsdcNat DEF Redeem, Redeemable, MoneyInv
<1>4. MoneyTyped'
  <2>1. bal' \in [Bonds -> [Holders -> Nat]] /\ status' \in [Bonds -> Status]
    BY DEF Redeem, Redeemable, MoneyInv, MoneyTyped, Status
  <2> QED
    BY <1>2, <2>1 DEF Redeem, Redeemable, MoneyInv, MoneyTyped
<1> QED
  BY <1>2, <1>3, <1>4, PoolMoney DEF Redeem, Redeemable

LEMMA TransferMoney ==
  ASSUME MoneyInv, NEW b \in Bonds, NEW g \in Holders, NEW h \in Holders, Transfer(b, g, h)
  PROVE  MoneyTyped' /\ CouponsInv' /\ Solvent'
<1>1. /\ g # h /\ bal[b] \in [Holders -> Nat] /\ bal[b][g] > 0
      /\ bal' = [bal EXCEPT ![b][g] = @ - 1, ![b][h] = @ + 1]
  BY DEF Transfer, MoneyInv, MoneyTyped
<1>2. bal[b][g] - 1 \in Nat /\ bal[b][h] + 1 \in Nat
  BY <1>1
<1>3. [bal[b] EXCEPT ![g] = @ - 1, ![h] = @ + 1] \in [Holders -> Nat]
  BY <1>1, <1>2
<1>4. bal' = [bal EXCEPT ![b] = [bal[b] EXCEPT ![g] = @ - 1, ![h] = @ + 1]]
  BY <1>1 DEF MoneyInv, MoneyTyped
<1>5. MoneyTyped'
  BY <1>3, <1>4 DEF Transfer, MoneyInv, MoneyTyped
<1> QED
  BY <1>5, QuietMoney DEF Transfer, MoneyInv

LEMMA NextMoney ==
  ASSUME MoneyInv, [Next]_vars
  PROVE  MoneyTyped' /\ CouponsInv' /\ Solvent'
<1> DEFINE Goal == MoneyTyped' /\ CouponsInv' /\ Solvent'
<1>1. ASSUME NEW b \in Bonds, PayByHand(b) PROVE Goal
  <2>1. PICK hss : hss = schedules
    OBVIOUS
  <2> QED
    BY <1>1, <2>1, PayMoney DEF PayByHand
<1>2. ASSUME NEW i \in DOMAIN schedules, RunPays(i) PROVE Goal
  <2>1. PICK hss : hss = Executed(i)
    OBVIOUS
  <2>2. schedules \in Seq(Schedule)
    BY DEF MoneyInv, IInv, Typed
  <2>3. schedules[i] \in Schedule
    BY <2>2
  <2>4. PICK b \in Bonds : b = schedules[i].bond
    BY <2>3 DEF Schedule
  <2> QED
    BY <1>2, <2>1, <2>4, PayMoney DEF RunPays
<1>3. ASSUME NEW b \in Bonds, Rearm(b) PROVE Goal
  BY <1>3, QuietMoney DEF Rearm, moneyVars, MoneyInv, MoneyTyped
<1>4. ASSUME NEW i \in DOMAIN schedules, RunReverts(i) PROVE Goal
  BY <1>4, QuietMoney DEF RunReverts, moneyVars, MoneyInv, MoneyTyped
<1>5. ASSUME NEW b \in Bonds, NEW h \in Holders, NEW i \in DOMAIN coupons[b], Claim(b, i, h)
      PROVE  Goal
  BY <1>5, ClaimMoney
<1>6. ASSUME NEW b \in Bonds, NEW n \in Amounts, Fund(b, n) PROVE Goal
  BY <1>6, FundMoney
<1>7. ASSUME NEW b \in Bonds, NEW h \in Holders, Redeem(b, h) PROVE Goal
  BY <1>7, RedeemMoney
<1>8. ASSUME NEW b \in Bonds, NEW g \in Holders, NEW h \in Holders, Transfer(b, g, h)
      PROVE  Goal
  BY <1>8, TransferMoney
<1>9. ASSUME NEW b \in Bonds, NEW from, NEW to \in Status, GateMoves(b, from, to) PROVE Goal
  <2>1. MoneyTyped'
    BY <1>9 DEF GateMoves, moneyVars, MoneyInv, MoneyTyped
  <2> QED
    BY <1>9, <2>1, QuietMoney DEF GateMoves, moneyVars, MoneyInv
<1>10. ASSUME Tick \/ UNCHANGED vars PROVE Goal
  BY <1>10, QuietMoney DEF Tick, vars, moneyVars, MoneyInv, MoneyTyped
<1>11. ASSUME NEW b \in Bonds, NEW to, TokenMoves(b, to) PROVE Goal
  BY <1>11, QuietMoney DEF TokenMoves, moneyVars, MoneyInv, MoneyTyped
<1>12. {"Frozen", "Active", "Defaulted"} \subseteq Status
  BY DEF Status
<1> HIDE DEF Goal
<1>13. Goal
  BY <1>1, <1>2, <1>3, <1>4, <1>5, <1>6, <1>7, <1>8, <1>9, <1>10, <1>11, <1>12 DEF Next
<1> QED
  BY <1>13 DEF Goal

LEMMA InitMoney == Init => MoneyInv
<1> SUFFICES ASSUME Init PROVE MoneyInv
  OBVIOUS
<1>1. MoneyTyped
  <2>1. <<>> \in Seq(Coupon) /\ {} \in SUBSET (Nat \X Holders)
    OBVIOUS
  <2>2. coupons \in [Bonds -> Seq(Coupon)] /\ claimed \in [Bonds -> SUBSET (Nat \X Holders)]
    BY <2>1, Zenon DEF Init
  <2> QED
    BY <2>2, TermsAssumption, ScheduleAssumption DEF Init, MoneyTyped, Status
<1>2. CouponsInv
  BY DEF Init, CouponsInv, BondSound
<1>3. \A b \in Bonds : Booked(b) = Prefunded[b]
  <2> TAKE b \in Bonds
  <2>1. DOMAIN coupons[b] = {} /\ funded[b] = Prefunded[b] /\ Prefunded[b] \in Nat
    BY ScheduleAssumption DEF Init
  <2>2. SumOver(Unpaid(coupons[b]), DOMAIN coupons[b]) = 0
    BY <2>1, SumEmpty
  <2> QED
    BY <2>1, <2>2 DEF Booked
<1>4. SumOver([b \in Bonds |-> Booked(b)], Bonds) = SumOver(Prefunded, Bonds)
  BY <1>3, TermsAssumption, SumEqual
<1>5. Solvent
  BY <1>4 DEF Init, Solvent
<1> QED
  BY <1>1, <1>2, <1>5, InitIInv DEF MoneyInv

TokenTyped == token \in [Bonds -> TokenState]

LEMMA TokenStaysTyped == TokenTyped /\ [Next]_vars => TokenTyped'
<1> SUFFICES ASSUME TokenTyped, [Next]_vars PROVE TokenTyped'
  OBVIOUS
<1>1. ASSUME NEW b \in Bonds, NEW to \in TokenStates[b], TokenMoves(b, to)
      PROVE  TokenTyped'
  BY <1>1, TokenAssumption DEF TokenMoves, TokenTyped
<1>2. ASSUME NEW b, NEW hss, Pay(b, hss) PROVE UNCHANGED token
  BY <1>2 DEF Pay
<1>3. ASSUME Next, ~(\E b \in Bonds : \E to \in TokenStates[b] : TokenMoves(b, to))
      PROVE  UNCHANGED token
  BY <1>2, <1>3 DEF Next, PayByHand, RunPays, Rearm, RunReverts, Claim, Fund, Redeem,
                    Transfer, GateMoves, Tick
<1> QED
  BY <1>1, <1>3 DEF vars, TokenTyped

\* The money is there, for any bonds, holders, terms and amounts: nothing ever goes
\* below zero, the one settlement balance is the pools and what paid coupons still
\* owe, and of each coupon just the shares of those who claimed are gone.
THEOREM Money == Spec => []MoneyIsThere
<1>0. Init => TokenTyped
  BY DEF Init, TokenState, TokenTyped
<1>1. ASSUME MoneyInv, TokenTyped
      PROVE  MoneyIsThere
  <2>1. TypeOK
    BY <1>1, UsdcNat DEF MoneyInv, MoneyTyped, IInv, Typed, TokenTyped, TypeOK
  <2>2. ClaimsAccounted
    <3> SUFFICES ASSUME NEW b \in Bonds, NEW i \in DOMAIN coupons[b]
                 PROVE  /\ coupons[b][i].claimedTotal
                             = SumOver(Shares(coupons[b][i]), DoneOf(claimed[b], i))
                        /\ coupons[b][i].claimedTotal <= coupons[b][i].amount
      BY DEF ClaimsAccounted, DoneOf
    <3>1. coupons[b] \in Seq(Coupon) /\ BondSound(coupons[b], claimed[b])
      BY <1>1 DEF MoneyInv, MoneyTyped, CouponsInv
    <3>2. /\ coupons[b][i] \in Coupon /\ CouponSound(coupons[b][i], DoneOf(claimed[b], i))
          /\ DoneOf(claimed[b], i) \subseteq Holders
      <4>1. coupons[b][i] \in Coupon
        BY <3>1
      <4>2. CouponSound(coupons[b][i], DoneOf(claimed[b], i))
        BY <3>1, Zenon DEF BondSound
      <4> QED
        BY <4>1, <4>2 DEF DoneOf
    <3> QED
      BY <3>2, SharesFit DEF CouponSound
  <2> QED
    BY <1>1, <2>1, <2>2 DEF MoneyInv, MoneyIsThere
<1>2. MoneyInv /\ [Next]_vars => MoneyInv'
  BY NextIInv, NextMoney DEF MoneyInv
<1> QED
  BY <1>0, <1>1, <1>2, TokenStaysTyped, InitMoney, PTL DEF Spec
-----------------------------------------------------------------------------
(* The Coupons page. *)

\* No coupon is paid beyond maturity, so the calendar runs on by one interval at most.
NotBeyond == \A b \in Bonds : nextCoupon[b] <= Maturity + Interval

LEMMA BeyondStep == IInv /\ NotBeyond /\ [Next]_vars => NotBeyond'
<1> SUFFICES ASSUME IInv, NotBeyond, [Next]_vars PROVE NotBeyond'
  OBVIOUS
<1>1. nextCoupon \in [Bonds -> Nat] /\ Interval \in Nat /\ Maturity \in Nat
  BY TermsAssumption DEF IInv, Typed
<1>2. ASSUME UNCHANGED nextCoupon PROVE NotBeyond'
  BY <1>2 DEF NotBeyond
<1>3. ASSUME NEW b, NEW hss, Pay(b, hss) PROVE NotBeyond'
  <2>1. nextCoupon[b] <= Maturity /\ nextCoupon' = [nextCoupon EXCEPT ![b] = nextCoupon[b] + Interval]
    BY <1>3 DEF Pay, Payable, NextAfter
  <2> QED
    BY <1>1, <2>1 DEF NotBeyond
<1>4. ASSUME NEW b \in Bonds, PayByHand(b) PROVE NotBeyond'
  BY <1>3, <1>4 DEF PayByHand
<1>5. ASSUME NEW i \in DOMAIN schedules, RunPays(i) PROVE NotBeyond'
  BY <1>3, <1>5 DEF RunPays
<1>6. ASSUME NEW b \in Bonds, Rearm(b) PROVE NotBeyond'
  BY <1>2, <1>6 DEF Rearm
<1>7. ASSUME NEW i \in DOMAIN schedules, RunReverts(i) PROVE NotBeyond'
  BY <1>2, <1>7 DEF RunReverts
<1>8. ASSUME NEW b \in Bonds, NEW h \in Holders, NEW i \in DOMAIN coupons[b], Claim(b, i, h)
      PROVE  NotBeyond'
  BY <1>2, <1>8 DEF Claim, CanClaim
<1>9. ASSUME NEW b \in Bonds, NEW n \in Amounts, Fund(b, n) PROVE NotBeyond'
  BY <1>2, <1>9 DEF Fund
<1>10. ASSUME NEW b \in Bonds, NEW h \in Holders, Redeem(b, h) PROVE NotBeyond'
  BY <1>2, <1>10 DEF Redeem, Redeemable
<1>11. ASSUME NEW b \in Bonds, NEW g \in Holders, NEW h \in Holders, Transfer(b, g, h)
       PROVE  NotBeyond'
  BY <1>2, <1>11 DEF Transfer
<1>12. ASSUME NEW b \in Bonds, NEW from, NEW to, GateMoves(b, from, to) PROVE NotBeyond'
  BY <1>2, <1>12 DEF GateMoves
<1>13. ASSUME NEW b \in Bonds, NEW to, TokenMoves(b, to) PROVE NotBeyond'
  BY <1>2, <1>13 DEF TokenMoves
<1>14. ASSUME Tick \/ UNCHANGED vars PROVE NotBeyond'
  BY <1>2, <1>14 DEF Tick, vars
<1> QED
  BY <1>4, <1>5, <1>6, <1>7, <1>8, <1>9, <1>10, <1>11, <1>12, <1>13, <1>14 DEF Next

\* The calendar has as many dates as intervals fit before maturity, and one.
LEMMA DatesCounted ==
  LET most == (Maturity - FirstCoupon) \div Interval
  IN  most \in Nat /\ Cardinality(CouponDates) = most + 1
<1>1. PICK d \in Nat : d = Maturity - FirstCoupon
  BY TermsAssumption
<1>2. PICK most \in Nat : most = d \div Interval /\ most * Interval <= d /\ d < most * Interval + Interval
  BY TermsAssumption, Floors
<1> DEFINE Date == [k \in 1 .. most + 1 |-> FirstCoupon + Interval * (k - 1)]
<1>3. ASSUME NEW k \in 1 .. most + 1 PROVE Date[k] \in CouponDates
  <2>1. PICK j \in Nat : j = k - 1 /\ j <= most
    OBVIOUS
  <2>2. Interval * j \in Nat /\ Interval * j <= most * Interval
    BY <1>2, <2>1, TermsAssumption
  <2>3. (Interval * j) % Interval = 0
    BY <2>1, TermsAssumption
  <2>4. PICK x \in Nat : x = Interval * j
    BY <2>2
  <2>5. Date[k] = FirstCoupon + x /\ x <= d /\ x % Interval = 0
    <3>1. Date[k] = FirstCoupon + x
      BY <2>1, <2>4
    <3>2. most * Interval \in Nat
      BY <1>2, TermsAssumption
    <3>3. x <= d
      BY <1>1, <1>2, <2>2, <2>4, <3>2
    <3> QED
      BY <2>3, <2>4, <3>1, <3>3
  <2>6. (FirstCoupon + x) - FirstCoupon = x /\ FirstCoupon + x \in FirstCoupon .. Maturity
    BY <1>1, <2>5, TermsAssumption
  <2> QED
    BY <2>5, <2>6 DEF CouponDates
<1>4. ASSUME NEW k \in 1 .. most + 1, NEW l \in 1 .. most + 1, Date[k] = Date[l] PROVE k = l
  <2>1. Interval * (k - 1) = Interval * (l - 1)
    <3>1. Interval * (k - 1) \in Int /\ Interval * (l - 1) \in Int
      BY TermsAssumption
    <3> QED
      BY <1>4, <3>1, TermsAssumption
  <2>2. ASSUME NEW x \in Nat, NEW y \in Nat, Interval * x = Interval * y PROVE x <= y
    BY <2>2, TermsAssumption, FactorOut
  <2>3. k - 1 \in Nat /\ l - 1 \in Nat
    OBVIOUS
  <2>4. k - 1 <= l - 1 /\ l - 1 <= k - 1
    BY <2>1, <2>2, <2>3
  <2> QED
    BY <2>4
<1>5. ASSUME NEW t \in CouponDates PROVE \E k \in 1 .. most + 1 : Date[k] = t
  <2>1. t \in FirstCoupon .. Maturity /\ (t - FirstCoupon) % Interval = 0
    BY DEF CouponDates
  <2>2. PICK x \in Nat : x = t - FirstCoupon /\ x <= d /\ t = FirstCoupon + x
    BY <1>1, <2>1, TermsAssumption
  <2>3. x % Interval = 0
    BY <2>1, <2>2
  <2>4. PICK q \in Nat : q = x \div Interval /\ x = Interval * q
    BY <2>3, TermsAssumption
  <2>5. q <= most
    <3> SUFFICES ASSUME q >= most + 1 PROVE FALSE
      BY <1>2, <2>4
    <3>1. Interval * q >= Interval * (most + 1)
      BY <1>2, <2>4, TermsAssumption
    <3>2. Interval * (most + 1) = most * Interval + Interval
      BY <1>2, TermsAssumption
    <3> QED
      BY <1>2, <2>2, <2>4, <3>1, <3>2, TermsAssumption
  <2>6. q + 1 \in 1 .. most + 1 /\ (q + 1) - 1 = q
    BY <2>4, <2>5
  <2> QED
    BY <2>2, <2>4, <2>6
<1>6. Date \in Bijection(1 .. most + 1, CouponDates)
  BY <1>3, <1>4, <1>5 DEF Bijection, Injection, Surjection, IsInjective
<1>7. ExistsBijection(1 .. most + 1, CouponDates)
  BY <1>6 DEF ExistsBijection
<1>8. Cardinality(CouponDates) = most + 1
  BY <1>2, <1>7, FS_CountingElements
<1> QED
  BY <1>1, <1>2, <1>8

\* All coupons are paid exactly when there are as many as dates.
LEMMA AllPaidIsAll ==
  ASSUME IInv, NotBeyond, NEW b \in Bonds
  PROVE  nextCoupon[b] > Maturity <=> Len(coupons[b]) = Cardinality(CouponDates)
<1>1. PICK d \in Nat : d = Maturity - FirstCoupon /\ Maturity = FirstCoupon + d
  BY TermsAssumption
<1>2. PICK most \in Nat : /\ most * Interval <= d /\ d < most * Interval + Interval
                          /\ Cardinality(CouponDates) = most + 1
  <2>1. /\ d \div Interval \in Nat /\ (d \div Interval) * Interval <= d
        /\ d < (d \div Interval) * Interval + Interval
    BY TermsAssumption, Floors
  <2>2. Cardinality(CouponDates) = d \div Interval + 1
    BY <1>1, DatesCounted
  <2> QED
    BY <2>1, <2>2
<1>3. PICK n \in Nat : n = Len(coupons[b])
  <2>1. IsSequence(coupons[b])
    BY DEF IInv, Typed
  <2> QED
    BY <2>1, LenProperties DEF IsSequence
<1>4. PICK paid \in Nat : paid = Interval * n
  BY TermsAssumption
<1>5. nextCoupon[b] = FirstCoupon + paid /\ paid <= d + Interval
  <2>1. nextCoupon[b] = FirstCoupon + paid
    BY <1>3, <1>4 DEF IInv, CouponCalendar
  <2>2. nextCoupon[b] <= Maturity + Interval
    BY DEF NotBeyond
  <2> QED
    BY <1>1, <2>1, <2>2, TermsAssumption
<1>6. n <= most + 1
  <2> SUFFICES ASSUME n >= most + 2 PROVE FALSE
    BY <1>2, <1>3
  <2>1. Interval * n >= Interval * (most + 2)
    BY <1>2, <1>3, TermsAssumption
  <2>2. Interval * (most + 2) = most * Interval + Interval + Interval
    BY <1>2, TermsAssumption
  <2> QED
    BY <1>1, <1>2, <1>4, <1>5, <2>1, <2>2, TermsAssumption
<1>7. n <= most <=> paid <= d
  <2>1. ASSUME n <= most PROVE paid <= d
    <3>1. Interval * n <= most * Interval
      BY <1>2, <1>3, <2>1, TermsAssumption
    <3> QED
      BY <1>1, <1>2, <1>4, <3>1, TermsAssumption
  <2>2. ASSUME n >= most + 1 PROVE paid > d
    <3>1. Interval * n >= Interval * (most + 1)
      BY <1>2, <1>3, <2>2, TermsAssumption
    <3>2. Interval * (most + 1) = most * Interval + Interval
      BY <1>2, TermsAssumption
    <3> QED
      BY <1>1, <1>2, <1>4, <3>1, <3>2, TermsAssumption
  <2> QED
    BY <1>1, <1>2, <1>3, <1>4, <2>1, <2>2
<1>8. nextCoupon[b] > Maturity <=> paid > d
  BY <1>1, <1>4, <1>5, TermsAssumption
<1> QED
  BY <1>1, <1>2, <1>3, <1>4, <1>6, <1>7, <1>8

\* Which sentences stand in the panel.
LEMMA PanelSays ==
  ASSUME NEW b, NEW t
  PROVE  /\ "all paid" \in Panel(b, t) <=> NoMore(b)
         /\ "run is pending" \in Panel(b, t) <=> Scheduled(b)
         /\ "no run is pending" \in Panel(b, t) <=> ~Scheduled(b)
         /\ "due now" \in Panel(b, t) <=> DueNow(b, t) /\ ~NoMore(b)
         /\ "underfunded" \in Panel(b, t) <=> PoolShort(b) /\ ~NoMore(b)
BY DEF Panel

LEMMA DueNat == ASSUME MoneyTyped, NEW b \in Bonds PROVE Due(b) \in Nat
<1>1. IsFiniteSet(Holders) /\ \A h \in Holders : bal[b][h] \in Nat
  BY TermsAssumption DEF MoneyTyped
<1>2. PICK s \in Nat : s = Supply(b)
  BY <1>1, SumNat DEF Supply
<1>3. s * CouponNum \in Nat
  BY TermsAssumption
<1> QED
  BY <1>2, <1>3, Floors, TermsAssumption DEF Due

\* The schedule panel and the two confirmations, for any bonds, terms, calendar,
\* delays and any difference between the browser's clock and the chain's: "all
\* paid" when the last date has its coupon, a pending run for the coupon that is
\* next; "due now" of a token that is not paused when the contract would pay, and
\* a warning when it would not, except for coupons on either side of whose date
\* the two clocks stand.
THEOREM CouponPanel == Spec => [](PanelTellsTruth /\ ConfirmTellsTruth)
<1>1. ASSUME IInv, MoneyTyped, NotBeyond
      PROVE  PanelTellsTruth
  <2> SUFFICES ASSUME NEW b \in Bonds, NEW t \in Clocks
               PROVE  /\ "all paid" \in Panel(b, t) <=> Len(coupons[b]) = Cardinality(CouponDates)
                      /\ "run is pending" \in Panel(b, t) => scheduledFor[b] = nextCoupon[b]
                      /\ "no run is pending" \in Panel(b, t) =>
                           \A i \in DOMAIN schedules : ~(Pending(i) /\ schedules[i].bond = b)
                      /\ (status[b] \in AtRisk /\ ~token[b].paused /\
                          "due now" \in Panel(b, t) /\ "underfunded" \notin Panel(b, t)) =>
                           nextCoupon[b] <= now + PageSkew /\ (t <= now => Payable(b))
                      /\ t >= now /\ Payable(b) =>
                           "due now" \in Panel(b, t) /\ "underfunded" \notin Panel(b, t)
    BY Zenon DEF PanelTellsTruth
  <2>1. "all paid" \in Panel(b, t) <=> Len(coupons[b]) = Cardinality(CouponDates)
    BY <1>1, AllPaidIsAll, PanelSays DEF NoMore
  <2>2. "run is pending" \in Panel(b, t) => scheduledFor[b] = nextCoupon[b]
    BY <1>1, PanelSays DEF Scheduled, IInv, PointerServesNext
  <2>3. ASSUME "no run is pending" \in Panel(b, t), NEW i \in DOMAIN schedules, Pending(i),
               schedules[i].bond = b
        PROVE  FALSE
    <3>1. scheduleOf[b] = i /\ scheduleOf[b] = 0
      BY <1>1, <2>3, PanelSays DEF Scheduled, IInv, OneRunPerBond
    <3>2. i # 0
      BY <1>1 DEF IInv, Typed
    <3> QED
      BY <3>1, <3>2
  <2>4. funded[b] \in Int /\ Due(b) \in Int
    BY <1>1, DueNat DEF MoneyTyped
  <2>5. /\ nextCoupon[b] \in Nat /\ now \in Nat /\ Maturity \in Nat
        /\ t \in Int /\ t <= now + PageSkew /\ now - PageSkew <= t /\ PageSkew \in Nat
    BY <1>1, TermsAssumption, PageAssumption DEF IInv, Typed, Clocks
  <2>6. "due now" \in Panel(b, t) /\ "underfunded" \notin Panel(b, t)
          <=> (DueNow(b, t) /\ ~NoMore(b)) /\ ~PoolShort(b)
    <3>1. "due now" \in Panel(b, t) <=> DueNow(b, t) /\ ~NoMore(b)
      BY PanelSays, Zenon
    <3>2. "underfunded" \in Panel(b, t) <=> PoolShort(b) /\ ~NoMore(b)
      BY PanelSays, Zenon
    <3> QED
      BY <3>1, <3>2, Zenon
  <2>7. ASSUME status[b] \in AtRisk, ~token[b].paused, DueNow(b, t), ~NoMore(b), ~PoolShort(b)
        PROVE  nextCoupon[b] <= now + PageSkew /\ (t <= now => Payable(b))
    <3>1. nextCoupon[b] <= t /\ nextCoupon[b] <= Maturity /\ Due(b) <= funded[b]
      BY <2>4, <2>5, <2>7 DEF DueNow, NoMore, PoolShort
    <3>2. nextCoupon[b] <= now + PageSkew
      BY <2>5, <3>1
    <3>3. ASSUME t <= now PROVE Payable(b)
      <4>1. now >= nextCoupon[b]
        BY <2>5, <3>1, <3>3
      <4>2. funded[b] >= Due(b)
        BY <2>4, <3>1
      <4> QED
        BY <2>7, <3>1, <4>1, <4>2, Zenon DEF Payable
    <3> QED
      BY <3>2, <3>3
  <2>8. ASSUME t >= now, Payable(b)
        PROVE  DueNow(b, t) /\ ~NoMore(b) /\ ~PoolShort(b)
    BY <2>4, <2>5, <2>8 DEF Payable, DueNow, NoMore, PoolShort
  <2> QED
    BY <2>1, <2>2, <2>3, <2>6, <2>7, <2>8
<1>2. ASSUME IInv
      PROVE  ConfirmTellsTruth
  <2> SUFFICES ASSUME NEW b \in Bonds, NEW t \in Clocks
               PROVE  /\ ScheduleWarns(b) <=> ~Schedulable(b)
                      /\ PayWarns(b, t) /\ Payable(b) =>
                           t < now /\ now < nextCoupon[b] + PageSkew
    BY DEF ConfirmTellsTruth
  <2>1. /\ nextCoupon[b] \in Nat /\ now \in Nat /\ Maturity \in Nat
        /\ t \in Int /\ now - PageSkew <= t /\ PageSkew \in Nat
    BY <1>2, TermsAssumption, PageAssumption DEF IInv, Typed, Clocks
  <2>2. ScheduleWarns(b) <=> ~Schedulable(b)
    BY <1>2 DEF ScheduleWarns, Scheduled, Schedulable, IInv, PointerServesNext
  <2>3. PayWarns(b, t) /\ Payable(b) => t < now /\ now < nextCoupon[b] + PageSkew
    BY <2>1 DEF PayWarns, NextDue, DueNow, NoMore, Payable
  <2> QED
    BY <2>2, <2>3
<1>3. Init => NotBeyond
  BY TermsAssumption DEF Init, NotBeyond
<1>4. MoneyInv => IInv /\ MoneyTyped
  BY DEF MoneyInv
<1>5. Spec => [](MoneyInv /\ NotBeyond)
  <2>1. Init => MoneyInv /\ NotBeyond
    BY <1>3, InitIInv, InitMoney DEF MoneyInv
  <2>2. MoneyInv /\ NotBeyond /\ [Next]_vars => (MoneyInv /\ NotBeyond)'
    BY <1>4, BeyondStep, NextIInv, NextMoney DEF MoneyInv
  <2> QED
    BY <2>1, <2>2, PTL DEF Spec
<1> QED
  BY <1>1, <1>2, <1>4, <1>5, PTL

\* The Coupons page, for any bonds, holders, terms, pools, clocks and moods of the
\* token: its panel and warnings as above; its claim buttons are the claims the
\* contract pays; its redeem button agrees with the text beside it and works for a
\* wallet with KYC, but for a clock that differs from the chain's at maturity.
THEOREM CouponPage == Spec => []CouponPageIsTrue
<1>1. ASSUME MoneyInv
      PROVE  HolderButtonsWork
  <2> SUFFICES ASSUME NEW b \in Bonds, NEW h \in Holders, NEW t \in Clocks
               PROVE  /\ ClaimButtons(b, h) = {i \in DOMAIN coupons[b] : CanClaim(b, i, h)}
                      /\ CanRedeem(b, h, t) <=> RedeemText(b, h, t) = "redeem"
                      /\ t <= now /\ CanRedeem(b, h, t) /\ h \in token[b].kyc => Redeemable(b, h)
                      /\ t >= now /\ Redeemable(b, h) => CanRedeem(b, h, t)
    <3>1. now \in Clocks
      BY <1>1, PageAssumption DEF Clocks, MoneyInv, IInv, Typed
    <3> QED
      BY <3>1 DEF HolderButtonsWork
  <2>1. \A i \in DOMAIN coupons[b] : Claimable(b, i, h) > 0 <=> CanClaim(b, i, h)
    BY DEF Claimable, CanClaim
  <2>2. t \in Int /\ now \in Nat
    BY <1>1, PageAssumption DEF Clocks, MoneyInv, IInv, Typed
  <2>3. PICK n \in Nat, m \in Nat, x \in Nat, f \in Nat :
          n = now /\ m = Maturity /\ x = bal[b][h] /\ f = funded[b]
    BY <1>1, TermsAssumption DEF MoneyInv, MoneyTyped, IInv, Typed
  <2>4. PICK p \in Nat : p = bal[b][h] * Face
    BY <2>3, TermsAssumption
  <2>5. CanRedeem(b, h, t) <=> RedeemText(b, h, t) = "redeem"
    <3>1. CASE status[b] = "Defaulted"
      BY <3>1 DEF CanRedeem, RedeemText
    <3>2. CASE status[b] # "Defaulted" /\ t < m
      BY <2>2, <2>3, <3>2 DEF CanRedeem, RedeemText
    <3>3. CASE status[b] # "Defaulted" /\ t >= m /\ x = 0
      BY <2>2, <2>3, <3>3 DEF CanRedeem, RedeemText
    <3>4. CASE status[b] # "Defaulted" /\ t >= m /\ x > 0 /\ f < p
      BY <2>2, <2>3, <2>4, <3>4 DEF CanRedeem, RedeemText
    <3>5. CASE status[b] # "Defaulted" /\ t >= m /\ x > 0 /\ f >= p
      BY <2>2, <2>3, <2>4, <3>5 DEF CanRedeem, RedeemText
    <3> QED
      BY <2>2, <2>3, <2>4, <3>1, <3>2, <3>3, <3>4, <3>5
  <2>6. t <= now /\ CanRedeem(b, h, t) /\ h \in token[b].kyc => Redeemable(b, h)
    BY <2>2, <2>3 DEF CanRedeem, Redeemable
  <2>7. t >= now /\ Redeemable(b, h) => CanRedeem(b, h, t)
    BY <2>2, <2>3 DEF CanRedeem, Redeemable
  <2> QED
    BY <2>1, <2>5, <2>6, <2>7 DEF ClaimButtons
<1>2. MoneyInv /\ [Next]_vars => MoneyInv'
  BY NextIInv, NextMoney DEF MoneyInv
<1>3. Spec => []MoneyInv
  BY <1>2, InitMoney, PTL DEF Spec
<1> QED
  BY <1>1, <1>3, CouponPanel, PTL DEF CouponPageIsTrue
=============================================================================

------------------------------ MODULE ApiProofs ------------------------------
(***************************************************************************)
(* Theorems about the two parts of the API that keep state.                *)
(*                                                                         *)
(* The KYC desk, for any wallets, bonds, handlers, faults and officers: it *)
(* serves a wallet once at a time, a 200 tells the truth, nobody but the   *)
(* officer's hand takes an issuer's KYC, and a request left alone does not *)
(* fail.  The invariant says of every handler what its walk has            *)
(* established for the bonds behind it and for the call in its hands, and  *)
(* of every transaction whose it is.  And for any rate and window it keeps *)
(* the rate: whoever was let in in the last window has left a hit.         *)
(*                                                                         *)
(* The cache of promises and the page behind it, for any number of         *)
(* promises, changes, failures and transactions, and any times to live.    *)
(* The invariant says how old an entry from before the page's transaction  *)
(* must have become by the time the page's timer fires.                    *)
(***************************************************************************)
EXTENDS KycDesk, ReadApi, SumTheorems, TLAPS

(* The KYC desk.                                                           *)

Called == {"simulate", "nonce", "send", "wait"}   \* a call is in the handler's hands

\* The token would accept the call of h.
Good(h) ==
  CASE h.call = "addIssuer" -> h.bond \notin ssi
    [] h.call = "grantKyc"  -> h.bond \in ssi /\ h.wallet \notin granted[h.bond]
    [] h.call = "revokeKyc" -> h.wallet \in granted[h.bond]

\* The call is one the walk of h makes at its bond.
Fits(h) ==
  /\ h.bond \in Bonds
  /\ \/ h.verb = "request" /\ h.call \in {"addIssuer", "grantKyc"}
     \/ h.verb = "revocation" /\ h.call = "revokeKyc" /\ h.wallet # Issuer[h.bond]

\* The bonds behind h are as its verb wants them.
Walked(h) == \A b \in Bonds : b < h.bond => (h.wallet \in granted[b] <=> h.verb = "request")

\* h's own bond is still to be granted.
Wanting(h) == h.verb = "request" => h.wallet \notin granted[h.bond]

Alone(h) ==
  /\ h.pc = "ssi" => Wanting(h)
  /\ h.pc \in Called => Wanting(h) /\ Good(h)
  /\ h.pc = "send" => h.good
  /\ h.pc # "tx-failed"

Slot(h) ==
  /\ h.pc = "verify" => h.bond = 1
  /\ h.pc \in Active => h.bond >= 1
  /\ h.pc = "ssi" => h.bond \in Bonds /\ h.verb = "request"
  /\ h.pc \in Called => Fits(h)
  /\ h.pc \in Active /\ ~h.crossed => Walked(h)
  /\ ~h.raced => Alone(h)

Typed ==
  /\ granted \in [Bonds -> SUBSET Wallets] /\ ssi \in SUBSET Bonds
  /\ pending \in SUBSET Wallets /\ req \in [Requests -> Handler]
  /\ pool \in Seq(Tx)
  /\ meddles \in Nat

\* A transaction with a sender is the one its sender waits for.
Sent(t) ==
  /\ t.call = "revokeKyc" => t.wallet # Issuer[t.bond]
  /\ t.by # Nobody =>
       /\ req[t.by].pc = "wait" /\ t.call = req[t.by].call
       /\ t.bond = req[t.by].bond /\ t.wallet = req[t.by].wallet

PoolInv ==
  \A k \in 1 .. Len(pool) :
    /\ Sent(pool[k])
    /\ pool[k].by # Nobody => \A n \in 1 .. Len(pool) : pool[n].by = pool[k].by => n = k

IInv == Typed /\ OneAtATime /\ PoolInv /\ \A r \in Requests : Slot(req[r])

-----------------------------------------------------------------------------

LEMMA Desk ==
  /\ NBonds \in Nat /\ Bonds = 1 .. NBonds /\ Bonds \subseteq Nat
  /\ Issuer \in [Bonds -> Wallets] /\ Registered \in SUBSET Bonds
  /\ Nobody \notin Requests
  /\ Someone \in Wallets /\ Somewhere \in Ips
<1>1. Someone \in Wallets /\ Somewhere \in Ips
  BY DeskAssumption DEF Someone, Somewhere
<1> QED
  BY <1>1, DeskAssumption DEF Bonds

LEMMA AtTyped ==
  ASSUME NEW pc \in {"free", "verify"} \cup Active \cup Outcomes, NEW w \in Wallets,
         NEW i \in Ips, NEW verb \in Verbs
  PROVE  At(pc, w, i, verb) \in Handler
BY DEF At, Handler, Calls

\* A slot whose request has been answered, or not begun, asks nothing of the invariant
\* but that a failure was not its own.
LEMMA IdleSlot ==
  ASSUME NEW h \in Handler, h.pc \notin Active, h.pc = "tx-failed" => h.raced,
         h.pc = "verify" => h.bond = 1
  PROVE  Slot(h)
BY DEF Slot, Alone, Active, Called

LEMMA AnsweredSlot ==
  ASSUME Typed, NEW r \in Requests, NEW outcome \in Outcomes,
         outcome = "tx-failed" => req[r].raced
  PROVE  /\ Answered(r, outcome) \in Handler /\ Answered(r, outcome).pc = outcome
         /\ Answered(r, outcome).raced = req[r].raced
         /\ Slot(Answered(r, outcome))
<1> DEFINE h == Answered(r, outcome)
<1>1. At(outcome, Someone, Somewhere, "request") \in Handler /\ req[r] \in Handler
  BY Desk, AtTyped DEF Typed, Verbs
<1>2. h \in Handler /\ h.pc = outcome /\ h.raced = req[r].raced
  BY <1>1 DEF Answered, Handler, At
<1>3. outcome \notin Active /\ outcome # "verify"
  BY DEF Outcomes, Active
<1> QED
  BY <1>2, <1>3, IdleSlot

\* What Sent says of t after the step, t itself being what it is before.
SentAfter(t) ==
  /\ t.call = "revokeKyc" => t.wallet # Issuer[t.bond]
  /\ t.by # Nobody =>
       /\ req'[t.by].pc = "wait" /\ t.call = req'[t.by].call
       /\ t.bond = req'[t.by].bond /\ t.wallet = req'[t.by].wallet

\* PoolInv looks only at what a handler sent, while it waits.
LEMMA SentStays ==
  ASSUME IInv, NEW k \in 1 .. Len(pool),
         \A q \in Requests : req[q].pc = "wait" /\ q = pool[k].by =>
           /\ req'[q].pc = "wait" /\ req'[q].call = req[q].call
           /\ req'[q].bond = req[q].bond /\ req'[q].wallet = req[q].wallet
  PROVE  SentAfter(pool[k])
<1>1. pool[k] \in Tx /\ Sent(pool[k])
  BY DEF IInv, Typed, PoolInv
<1>2. pool[k].by \in Requests \cup {Nobody}
  BY <1>1 DEF Tx
<1> QED
  BY <1>1, <1>2 DEF Sent, SentAfter

LEMMA SendersWait ==
  ASSUME IInv, UNCHANGED pool,
         \A q \in Requests : req[q].pc = "wait" =>
           /\ req'[q].pc = "wait" /\ req'[q].call = req[q].call
           /\ req'[q].bond = req[q].bond /\ req'[q].wallet = req[q].wallet
  PROVE  PoolInv'
<1>1. \A k \in 1 .. Len(pool) : SentAfter(pool[k])
  BY SentStays
<1> QED
  BY <1>1 DEF IInv, PoolInv, Sent, SentAfter

\* One slot changes and nothing a transaction or another slot depends on.
LEMMA PrivateStep ==
  ASSUME IInv, NEW r \in Requests, NEW new \in Handler, Slot(new),
         req[r].pc # "wait", req' = [req EXCEPT ![r] = new],
         UNCHANGED <<granted, ssi, pool, meddles>>,
         \/ /\ pending' = pending
            /\ req[r].pc \in Active <=> new.pc \in Active
            /\ new.pc \in Active => new.wallet = req[r].wallet
         \/ /\ req[r].pc \in Active /\ new.pc \notin Active
            /\ pending' = pending \ {req[r].wallet}
         \/ /\ req[r].pc \notin Active /\ new.pc \in Active
            /\ new.wallet \notin pending /\ pending' = pending \cup {new.wallet}
  PROVE  IInv'
<1>1. /\ req \in [Requests -> Handler] /\ pending \in SUBSET Wallets
      /\ req'[r] = new /\ \A q \in Requests : q # r => req'[q] = req[q]
  BY DEF IInv, Typed
<1>2. Typed'
  BY <1>1 DEF IInv, Typed, Handler
<1>3. \A q \in Requests : Slot(req[q])' <=> Slot(req'[q])
  BY DEF Slot, Fits, Walked, Alone, Wanting, Good
<1>4. \A q \in Requests : Slot(req[q])'
  BY <1>1, <1>3 DEF IInv
<1>5. PoolInv'
  BY <1>1, SendersWait
<1>6. OneAtATime'
  BY <1>1 DEF IInv, OneAtATime
<1> QED
  BY <1>2, <1>4, <1>5, <1>6 DEF IInv

LEMMA InitIInv == Init => IInv
<1> SUFFICES ASSUME Init PROVE IInv
  OBVIOUS
<1>1. At("free", Someone, Somewhere, "request") \in Handler
  BY Desk, AtTyped DEF Verbs
<1>2. At("free", Someone, Somewhere, "request").pc = "free" /\ "free" \notin Active
  BY DEF At, Active
<1>3. Typed
  <2>1. granted \in [Bonds -> SUBSET Wallets]
    BY Desk DEF Init
  <2>2. pool \in Seq(Tx)
    BY DEF Init
  <2> QED
    BY <1>1, <2>1, <2>2, Desk DEF Init, Typed
<1>4. \A r \in Requests : Slot(req[r]) /\ req[r].pc \notin Active
  BY <1>1, <1>2, IdleSlot DEF Init
<1>5. PoolInv /\ OneAtATime
  BY <1>4 DEF Init, PoolInv, OneAtATime
<1> QED
  BY <1>3, <1>4, <1>5 DEF IInv

-----------------------------------------------------------------------------
(* The steps of one handler. *)

LEMMA HandlerFacts ==
  ASSUME IInv, NEW r \in Requests
  PROVE  /\ req[r] \in Handler /\ Slot(req[r])
         /\ req[r].wallet \in Wallets /\ req[r].ip \in Ips /\ req[r].verb \in Verbs
         /\ req[r].bond \in Nat /\ req[r].call \in Calls
         /\ req[r].crossed \in BOOLEAN /\ req[r].raced \in BOOLEAN /\ req[r].good \in BOOLEAN
BY DEF IInv, Typed, Handler

LEMMA ArriveIInv ==
  ASSUME IInv, NEW r \in Requests, NEW w \in Wallets, NEW i \in Ips, NEW v \in Verbs,
         Arrive(r, w, i, v)
  PROVE  IInv'
<1> DEFINE new == At("verify", w, i, v)
<1>1. new \in Handler /\ new.pc = "verify" /\ new.bond = 1 /\ "verify" \notin Active
  BY AtTyped DEF At, Active
<1>2. Slot(new)
  BY <1>1, IdleSlot
<1>3. req[r].pc \notin Active /\ req[r].pc # "wait"
  BY DEF Arrive, Active, Outcomes
<1>4. req' = [req EXCEPT ![r] = new] /\ UNCHANGED <<granted, ssi, pool, meddles, pending>>
  BY DEF Arrive, token, api
<1> QED
  BY <1>1, <1>2, <1>3, <1>4, PrivateStep

LEMMA AcceptIInv ==
  ASSUME IInv, NEW r \in Requests, Accept(r)
  PROVE  IInv'
<1>1. req[r].pc = "verify" /\ req[r].pc \notin Active /\ req[r].pc # "wait"
  BY DEF Accept, Active
<1>2. UNCHANGED <<granted, ssi, pool, meddles>>
  BY DEF Accept, token
<1>3. CASE /\ pending' = pending
           /\ \/ req' = [req EXCEPT ![r] = Answered(r, "pending")]
              \/ req' = [req EXCEPT ![r] = Answered(r, "rate-limited")]
  <2>1. ASSUME NEW o \in {"pending", "rate-limited"}
        PROVE  Answered(r, o) \in Handler /\ Answered(r, o).pc \notin Active /\ Slot(Answered(r, o))
    <3>1. o \in Outcomes /\ o # "tx-failed" /\ o \notin Active
      BY DEF Outcomes, Active
    <3> QED
      BY <3>1, AnsweredSlot DEF IInv
  <2> QED
    BY <1>1, <1>2, <1>3, <2>1, PrivateStep
<1>4. CASE /\ req[r].wallet \notin pending /\ pending' = pending \cup {req[r].wallet}
           /\ req' = [req EXCEPT ![r].pc = "walk"]
  <2> DEFINE new == [req[r] EXCEPT !.pc = "walk"]
  <2>1. new \in Handler /\ new.pc = "walk" /\ new.wallet = req[r].wallet /\ new.bond = 1
    BY <1>1, HandlerFacts DEF Handler, Active, Slot
  <2>2. Walked(new)
    BY <2>1, Desk DEF Walked
  <2>3. Slot(new) /\ new.pc \in Active
    BY <2>1, <2>2 DEF Slot, Alone, Called, Active
  <2>4. req' = [req EXCEPT ![r] = new]
    BY <1>4
  <2> QED
    BY <1>1, <1>2, <1>4, <2>1, <2>3, <2>4, PrivateStep
<1> QED
  BY <1>1, <1>3, <1>4 DEF Accept, api, Noted

\* A handler ends, its failure not its own fault.
LEMMA AnswerIInv ==
  ASSUME IInv, NEW r \in Requests, NEW outcome \in Outcomes, Answer(r, outcome),
         outcome = "tx-failed" => req[r].raced,
         req[r].pc \in Active, req[r].pc # "wait",
         UNCHANGED <<granted, ssi, pool, meddles>>
  PROVE  IInv'
<1>1. /\ Answered(r, outcome) \in Handler /\ Answered(r, outcome).pc = outcome
      /\ Slot(Answered(r, outcome))
  BY AnsweredSlot DEF IInv
<1>2. outcome \notin Active
  BY DEF Outcomes, Active
<1> QED
  BY <1>1, <1>2, PrivateStep DEF Answer

LEMMA LookIInv ==
  ASSUME IInv, NEW r \in Requests, Look(r)
  PROVE  IInv'
<1>1. req[r].pc = "walk" /\ req[r].pc \in Active /\ req[r].pc # "wait"
  BY DEF Look, Active
<1>2. UNCHANGED <<granted, ssi, pool, meddles>>
  BY DEF Look, token
<1>3. CASE Answer(r, "ok") \/ Answer(r, "issuer-kyc")
  BY <1>1, <1>2, <1>3, AnswerIInv DEF Outcomes
<1>4. CASE /\ req[r].bond <= NBonds /\ ~OwnIssuer(r)
           /\ req' = [req EXCEPT ![r] = Asked(r)] /\ pending' = pending
  <2> DEFINE h == req[r]
  <2>1. /\ h \in Handler /\ h.bond \in Nat /\ h.bond >= 1 /\ h.verb \in Verbs
        /\ ~h.crossed => Walked(h)
    BY <1>1, HandlerFacts DEF Slot
  <2>2. h.bond \in Bonds
    BY <1>4, <2>1, Desk
  <2>3. /\ Asked(r) \in Handler /\ Asked(r).pc \in Active /\ Asked(r).wallet = h.wallet
        /\ Slot(Asked(r))
    <3>1. CASE h.verb = "request" /\ ~HasIt(r)
      <4>1. Asked(r) = [h EXCEPT !.pc = "ssi"]
        BY <3>1 DEF Asked
      <4> QED
        BY <2>1, <2>2, <3>1, <4>1
           DEF Slot, Alone, Wanting, Walked, HasIt, Handler, Active, Called
    <3>2. CASE h.verb = "revocation" /\ HasIt(r)
      <4>1. Asked(r) = [h EXCEPT !.pc = "simulate", !.call = "revokeKyc"]
        BY <3>2 DEF Asked
      <4>2. /\ Asked(r) \in Handler /\ Asked(r).pc = "simulate" /\ Asked(r).call = "revokeKyc"
            /\ Asked(r).bond = h.bond /\ Asked(r).wallet = h.wallet /\ Asked(r).verb = h.verb
            /\ Asked(r).crossed = h.crossed
        BY <2>1, <4>1 DEF Handler, Active, Calls
      <4>3. Fits(Asked(r))
        BY <1>4, <2>2, <3>2, <4>2 DEF Fits, OwnIssuer
      <4>4. Wanting(Asked(r)) /\ Good(Asked(r))
        BY <3>2, <4>2 DEF Wanting, Good, HasIt
      <4>5. ~Asked(r).crossed => Walked(Asked(r))
        BY <2>1, <4>2 DEF Walked
      <4> QED
        BY <2>1, <4>2, <4>3, <4>4, <4>5 DEF Slot, Alone, Active, Called
    <3>3. CASE /\ h.verb = "request" <=> HasIt(r)
      <4>1. Asked(r) = [h EXCEPT !.bond = h.bond + 1]
        BY <2>1, <3>3 DEF Asked, Verbs
      <4>2. /\ Asked(r) \in Handler /\ Asked(r).pc = "walk" /\ Asked(r).bond = h.bond + 1
            /\ Asked(r).wallet = h.wallet /\ Asked(r).verb = h.verb /\ Asked(r).crossed = h.crossed
        BY <1>1, <2>1, <4>1 DEF Handler
      <4>3. ~Asked(r).crossed => Walked(Asked(r))
        BY <2>1, <3>3, <4>2, Desk DEF Walked, HasIt
      <4> QED
        BY <2>1, <4>2, <4>3 DEF Slot, Alone, Active, Called
    <3> QED
      BY <2>1, <3>1, <3>2, <3>3 DEF Verbs
  <2> QED
    BY <1>1, <1>2, <1>4, <2>3, PrivateStep
<1> QED
  BY <1>1, <1>3, <1>4 DEF Look

LEMMA AskSsiIInv ==
  ASSUME IInv, NEW r \in Requests, AskSsi(r)
  PROVE  IInv'
<1> DEFINE h == req[r]
           new == [req[r] EXCEPT !.pc = "simulate", !.call = FirstCall(req[r].bond)]
<1>1. h \in Handler /\ Slot(h) /\ h.pc = "ssi" /\ h.bond \in Bonds /\ h.verb = "request"
  BY HandlerFacts DEF AskSsi, Slot
<1>2. FirstCall(h.bond) \in {"addIssuer", "grantKyc"}
  BY DEF FirstCall
<1>3. /\ new \in Handler /\ new.pc = "simulate" /\ new.call = FirstCall(h.bond)
      /\ new.bond = h.bond /\ new.wallet = h.wallet /\ new.verb = h.verb
      /\ new.crossed = h.crossed /\ new.raced = h.raced
  BY <1>1, <1>2 DEF Handler, Active, Calls
<1>4. Fits(new)
  BY <1>1, <1>2, <1>3 DEF Fits
<1>5. ~new.crossed => Walked(new)
  BY <1>1, <1>3 DEF Slot, Active, Walked
<1>6. ~new.raced => Wanting(new)
  BY <1>1, <1>3 DEF Slot, Alone, Wanting
<1>7. ~new.raced => Good(new)
  <2> HIDE DEF new
  <2>1. CASE h.bond \in ssi
    <3>1. new.call = "grantKyc" /\ new.bond \in ssi
      BY <1>3, <2>1 DEF FirstCall
    <3> QED
      BY <1>1, <1>3, <1>6, <3>1 DEF Good, Wanting
  <2>2. CASE h.bond \notin ssi
    <3>1. new.call = "addIssuer" /\ new.bond \notin ssi
      BY <1>3, <2>2 DEF FirstCall
    <3> QED
      BY <3>1 DEF Good
  <2> QED
    BY <2>1, <2>2
<1>8. Slot(new)
  BY <1>1, <1>3, <1>4, <1>5, <1>6, <1>7, HandlerFacts DEF Slot, Alone, Active, Called
<1>9. /\ UNCHANGED <<granted, ssi, pool, meddles, pending>> /\ req' = [req EXCEPT ![r] = new]
      /\ h.pc \in Active /\ new.pc \in Active
  BY <1>1, <1>3 DEF AskSsi, token, api, Active
<1> QED
  BY <1>1, <1>3, <1>8, <1>9, PrivateStep

\* A handler goes from one step of send to the next.
LEMMA SendStepIInv ==
  ASSUME IInv, NEW r \in Requests, NEW pc \in {"nonce", "send"}, NEW good \in BOOLEAN,
         pc = "send" => good,
         req[r].pc \in {"simulate", "nonce"},
         req' = [req EXCEPT ![r].pc = pc, ![r].good = good],
         UNCHANGED <<granted, ssi, pool, meddles, pending>>
  PROVE  IInv'
<1> DEFINE h == req[r]
           new == [req[r] EXCEPT !.pc = pc, !.good = good]
<1>1. h \in Handler /\ Slot(h) /\ h.pc \in Called /\ h.pc \in Active /\ h.bond \in Nat
  BY HandlerFacts DEF Called, Active
<1>2. /\ new \in Handler /\ new.pc = pc /\ new.good = good /\ new.call = h.call
      /\ new.bond = h.bond /\ new.wallet = h.wallet /\ new.verb = h.verb
      /\ new.crossed = h.crossed /\ new.raced = h.raced
  BY <1>1 DEF Handler, Active
<1>3. Fits(new) /\ (~new.crossed => Walked(new))
  BY <1>1, <1>2 DEF Slot, Fits, Walked
<1>4. ~new.raced => Wanting(new) /\ Good(new)
  BY <1>1, <1>2 DEF Slot, Alone, Wanting, Good
<1>5. Slot(new) /\ new.pc \in Active
  BY <1>1, <1>2, <1>3, <1>4 DEF Slot, Alone, Active, Called
<1>6. req' = [req EXCEPT ![r] = new]
  BY DEF IInv, Typed
<1> QED
  BY <1>1, <1>2, <1>5, <1>6, PrivateStep

\* Valid is Good of the handler that sends.
LEMMA ValidIsGood ==
  ASSUME NEW r \in Requests
  PROVE  Valid(TxOf(r)) <=> Good(req[r])
BY DEF Valid, TxOf, Good

LEMMA SimulateIInv ==
  ASSUME IInv, NEW r \in Requests, Simulate(r) \/ ReadNonce(r)
  PROVE  IInv'
<1>1. UNCHANGED <<granted, ssi, pool, meddles>>
  BY DEF Simulate, ReadNonce, token
<1>2. CASE Simulate(r) /\ Valid(TxOf(r))
  <2>1. /\ req[r].pc = "simulate" /\ pending' = pending
        /\ req' = [req EXCEPT ![r].pc = "nonce", ![r].good = req[r].good]
    BY <1>2 DEF Simulate, Goto, IInv, Typed, Handler
  <2> QED
    BY <1>1, <2>1, SendStepIInv, HandlerFacts
<1>3. CASE Simulate(r) /\ ~Valid(TxOf(r))
  <2>1. Answer(r, "tx-failed") /\ req[r].pc = "simulate"
    BY <1>3 DEF Simulate
  <2>2. req[r].raced
    BY <1>3, <2>1, HandlerFacts, ValidIsGood DEF Slot, Alone, Called
  <2> QED
    BY <1>1, <2>1, <2>2, AnswerIInv DEF Outcomes, Active
<1>4. CASE ReadNonce(r)
  BY <1>1, <1>4, SendStepIInv DEF ReadNonce, api
<1> QED
  BY <1>2, <1>3, <1>4

-----------------------------------------------------------------------------
(* The steps the handlers see of each other: the node and the network. *)

LEMMA OthersKeep ==
  ASSUME Typed, NEW r, NEW wallet, NEW q \in Requests
  PROVE  LET o == Others(r, wallet)[q] IN
         /\ o \in Handler
         /\ o.pc = req[q].pc /\ o.wallet = req[q].wallet /\ o.verb = req[q].verb
         /\ o.bond = req[q].bond /\ o.call = req[q].call /\ o.good = req[q].good
         /\ q = r => o = req[q]
         /\ req[q].pc \notin Active => o = req[q]
         /\ q # r /\ req[q].pc \in Active =>
              o.raced /\ (~o.crossed => ~req[q].crossed /\ req[q].wallet # wallet)
<1> DEFINE o == Others(r, wallet)[q]
<1>1. req[q] \in Handler
  BY DEF Typed
<1>2. CASE q = r \/ req[q].pc \notin Active
  BY <1>1, <1>2 DEF Others
<1>3. CASE q # r /\ req[q].pc \in Active
  <2>1. o = [req[q] EXCEPT !.raced = TRUE,
                           !.crossed = req[q].crossed \/ req[q].wallet = wallet]
    BY <1>1, <1>3 DEF Others, Handler
  <2>2. (req[q].crossed \/ req[q].wallet = wallet) \in BOOLEAN
    OBVIOUS
  <2> QED
    BY <1>1, <1>3, <2>1, <2>2 DEF Handler
<1> QED
  BY <1>2, <1>3

\* What another's transaction, or the officer, leaves of a slot: its walk is as
\* before if the wallet is another, and else it is crossed.
LEMMA OtherSlot ==
  ASSUME IInv, NEW q \in Requests, NEW wallet, NEW o \in Handler,
         o.pc = req[q].pc, o.wallet = req[q].wallet, o.verb = req[q].verb,
         o.bond = req[q].bond, o.call = req[q].call,
         req[q].pc \notin Active => o = req[q],
         req[q].pc \in Active =>
           o.raced /\ (~o.crossed => ~req[q].crossed /\ req[q].wallet # wallet),
         \A b \in Bonds, w \in Wallets : w # wallet => (w \in granted'[b] <=> w \in granted[b]),
         req'[q] = o
  PROVE  Slot(req[q])'
<1>1. req[q] \in Handler /\ Slot(req[q]) /\ req[q].wallet \in Wallets
  BY HandlerFacts
<1>2. CASE req[q].pc \notin Active
  BY <1>1, <1>2 DEF Slot, Alone, Active, Called
<1>3. CASE req[q].pc \in Active
  <2>1. o.pc \in Called => Fits(o)
    BY <1>1 DEF Slot, Fits
  <2>2. o.pc \in Called => Fits(req[q])'
    BY <2>1 DEF Fits
  <2>3. ~o.crossed => \A b \in Bonds : b < o.bond => (o.wallet \in granted'[b] <=> o.verb = "request")
    BY <1>1, <1>3 DEF Slot, Walked
  <2>4. ~o.crossed => Walked(req[q])'
    BY <2>3 DEF Walked
  <2>5. o.pc \in Active => o.bond >= 1
    BY <1>1 DEF Slot
  <2>6. o.pc = "ssi" => o.bond \in Bonds /\ o.verb = "request"
    BY <1>1 DEF Slot
  <2> QED
    BY <1>3, <2>2, <2>4, <2>5, <2>6 DEF Slot, Active
<1> QED
  BY <1>2, <1>3

\* OneAtATime looks only at who is being served.
LEMMA ServedAsBefore ==
  ASSUME IInv, UNCHANGED pending,
         \A q \in Requests : /\ req[q].pc \in Active <=> req'[q].pc \in Active
                             /\ req[q].pc \in Active => req'[q].wallet = req[q].wallet
  PROVE  OneAtATime'
BY DEF IInv, OneAtATime

LEMMA ServedNoMore ==
  ASSUME IInv, NEW r \in Requests, req[r].pc \in Active, req'[r].pc \notin Active,
         pending' = pending \ {req[r].wallet},
         \A q \in Requests : q # r =>
           /\ req[q].pc \in Active <=> req'[q].pc \in Active
           /\ req[q].pc \in Active => req'[q].wallet = req[q].wallet
  PROVE  OneAtATime'
BY DEF IInv, OneAtATime

LEMMA OfficerIInv ==
  ASSUME IInv, NEW b \in Bonds, NEW w \in Wallets, Officer(b, w)
  PROVE  IInv'
<1>1. /\ UNCHANGED <<ssi, pending, pool>> /\ req' = Others(Nobody, w) /\ meddles' = meddles + 1
      /\ \/ granted' = [granted EXCEPT ![b] = granted[b] \ {w}]
         \/ granted' = [granted EXCEPT ![b] = granted[b] \cup {w}]
  BY DEF Officer, api
<1>2. \A q \in Requests :
        /\ req'[q] \in Handler
        /\ req'[q].pc = req[q].pc /\ req'[q].wallet = req[q].wallet /\ req'[q].verb = req[q].verb
        /\ req'[q].bond = req[q].bond /\ req'[q].call = req[q].call
        /\ req[q].pc \notin Active => req'[q] = req[q]
        /\ req[q].pc \in Active =>
             req'[q].raced /\ (~req'[q].crossed => ~req[q].crossed /\ req[q].wallet # w)
  BY <1>1, OthersKeep, Desk DEF IInv
<1>3. granted' \in [Bonds -> SUBSET Wallets]
      /\ \A c \in Bonds, v \in Wallets : v # w => (v \in granted'[c] <=> v \in granted[c])
  BY <1>1 DEF IInv, Typed
<1>4. Typed'
  <2>1. req' \in [Requests -> Handler]
    BY <1>1, <1>2 DEF Others
  <2> QED
    BY <1>1, <1>3, <2>1 DEF IInv, Typed
<1>5. \A q \in Requests : Slot(req[q])'
  BY <1>2, <1>3, OtherSlot
<1>6. PoolInv'
  BY <1>1, <1>2, SendersWait
<1>7. OneAtATime'
  BY <1>1, <1>2, ServedAsBefore
<1> QED
  BY <1>4, <1>5, <1>6, <1>7 DEF IInv

\* The node takes what a handler sends: every other handler is raced.
LEMMA TakenSlots ==
  ASSUME IInv, NEW r \in Requests, NEW q \in Requests, q # r, UNCHANGED <<granted, ssi>>,
         req'[q] = Taken(r)[q]
  PROVE  /\ req'[q] \in Handler /\ Slot(req[q])'
         /\ req'[q].pc = req[q].pc /\ req'[q].wallet = req[q].wallet
         /\ req'[q].bond = req[q].bond /\ req'[q].call = req[q].call
<1> DEFINE o == Others(r, Nobody)[q]
<1>1. req'[q] = [o EXCEPT !.good = FALSE]
  BY DEF Taken
<1>2. /\ o \in Handler
      /\ o.pc = req[q].pc /\ o.wallet = req[q].wallet /\ o.verb = req[q].verb
      /\ o.bond = req[q].bond /\ o.call = req[q].call /\ o.good = req[q].good
      /\ req[q].pc \notin Active => o = req[q]
      /\ req[q].pc \in Active => o.raced /\ (~o.crossed => ~req[q].crossed)
  BY OthersKeep DEF IInv
<1> HIDE DEF o
<1> DEFINE n == req'[q]
<1>3. /\ n \in Handler
      /\ n.pc = o.pc /\ n.wallet = o.wallet /\ n.verb = o.verb
      /\ n.bond = o.bond /\ n.call = o.call /\ n.crossed = o.crossed /\ n.raced = o.raced
  BY <1>1, <1>2 DEF Handler
<1>4. Slot(req[q])
  BY HandlerFacts
<1>5. n.pc \in Called => Fits(req[q])'
  BY <1>2, <1>3, <1>4 DEF Slot, Fits
<1>6. n.pc \in Active /\ ~n.crossed => Walked(req[q])'
  BY <1>2, <1>3, <1>4 DEF Slot, Walked
<1>7. ~n.raced => Alone(req[q])'
  <2>1. ~n.raced => n.pc \notin Active /\ ~req[q].raced /\ n.pc = req[q].pc
    BY <1>2, <1>3
  <2> QED
    BY <1>3, <1>4, <2>1 DEF Slot, Alone, Active, Called
<1> QED
  BY <1>2, <1>3, <1>4, <1>5, <1>6, <1>7 DEF Slot

LEMMA SubmitIInv ==
  ASSUME IInv, NEW r \in Requests, Submit(r)
  PROVE  IInv'
<1>1. req[r].pc = "send" /\ UNCHANGED <<granted, ssi, meddles>>
  BY DEF Submit, token
<1>2. CASE ~req[r].good
  <2>1. Answer(r, "tx-failed") /\ UNCHANGED pool /\ req[r].raced
    BY <1>1, <1>2, HandlerFacts DEF Submit, Slot, Alone
  <2> QED
    BY <1>1, <2>1, AnswerIInv DEF Outcomes, Active
<1>3. CASE req[r].good
  <2> DEFINE h == req[r]
  <2>1. /\ pool' = Append(pool, TxOf(r)) /\ pending' = pending
        /\ req' = [Taken(r) EXCEPT ![r].pc = "wait"]
    BY <1>1, <1>3 DEF Submit
  <2>2. h \in Handler /\ Slot(h) /\ Fits(h) /\ h.bond \in Nat
    BY <1>1, HandlerFacts DEF Slot, Called
  <2>3. DOMAIN Taken(r) = Requests /\ Taken(r)[r] = [h EXCEPT !.good = FALSE]
    <3>1. Others(r, Nobody)[r] = h
      BY OthersKeep DEF IInv
    <3> QED
      BY <3>1 DEF Taken
  <2>4. req'[r] = [h EXCEPT !.good = FALSE, !.pc = "wait"]
    BY <2>1, <2>3
  <2>5. \A q \in Requests : q # r => req'[q] = Taken(r)[q]
    BY <2>1, <2>3
  <2>6. /\ req'[r] \in Handler /\ req'[r].pc = "wait" /\ req'[r].wallet = h.wallet
        /\ req'[r].verb = h.verb /\ req'[r].bond = h.bond /\ req'[r].call = h.call
        /\ req'[r].crossed = h.crossed /\ req'[r].raced = h.raced
    BY <2>2, <2>4 DEF Handler, Active
  <2>7. Slot(req[r])'
    <3>1. Fits(req[r])' /\ (~req'[r].crossed => Walked(req[r])')
      BY <1>1, <2>2, <2>6 DEF Slot, Fits, Walked, Active
    <3>2. ~req'[r].raced => Wanting(req[r])' /\ Good(req[r])'
      BY <1>1, <2>2, <2>6 DEF Slot, Alone, Called, Wanting, Good
    <3> QED
      BY <1>1, <2>2, <2>6, <3>1, <3>2 DEF Slot, Alone, Active, Called
  <2>8. \A q \in Requests : q # r =>
          /\ req'[q] \in Handler /\ Slot(req[q])'
          /\ req'[q].pc = req[q].pc /\ req'[q].wallet = req[q].wallet
          /\ req'[q].bond = req[q].bond /\ req'[q].call = req[q].call
    BY <1>1, <2>5, TakenSlots
  <2>9. TxOf(r) \in Tx /\ TxOf(r).by = r /\ TxOf(r).call = h.call /\ TxOf(r).wallet = h.wallet
        /\ TxOf(r).bond = h.bond
    BY <2>2, <2>6 DEF TxOf, Tx, Fits, Handler
  <2>10. Typed'
    <3>1. req' \in [Requests -> Handler]
      BY <2>1, <2>3, <2>6, <2>8
    <3> QED
      BY <1>1, <2>1, <2>9, <3>1 DEF IInv, Typed
  <2>11. PoolInv'
    <3>1. /\ pool \in Seq(Tx) /\ Len(pool') = Len(pool) + 1 /\ Len(pool) \in Nat
          /\ pool'[Len(pool) + 1] = TxOf(r)
          /\ \A k \in 1 .. Len(pool) : pool'[k] = pool[k]
      BY <2>1, <2>9 DEF IInv, Typed
    <3>2. \A k \in 1 .. Len(pool) : pool[k] \in Tx /\ Sent(pool[k]) /\ pool[k].by # r
      <4>1. \A k \in 1 .. Len(pool) : pool[k] \in Tx /\ Sent(pool[k])
        BY <3>1 DEF IInv, PoolInv
      <4> QED
        BY <1>1, <4>1, Desk DEF Sent
    <3>3. \A k \in 1 .. Len(pool) : SentAfter(pool[k])
      BY <2>8, <3>2, SentStays
    <3>4. SentAfter(TxOf(r))
      BY <2>2, <2>6, <2>9 DEF SentAfter, Fits
    <3>5. \A k \in 1 .. Len(pool') : SentAfter(pool'[k])
      BY <3>1, <3>3, <3>4
    <3>6. ASSUME NEW k \in 1 .. Len(pool'), NEW n \in 1 .. Len(pool'),
                 pool'[k].by # Nobody, pool'[n].by = pool'[k].by
          PROVE  n = k
      <4>1. CASE k = Len(pool) + 1 \/ n = Len(pool) + 1
        BY <2>9, <3>1, <3>2, <3>6, <4>1
      <4>2. CASE k \in 1 .. Len(pool) /\ n \in 1 .. Len(pool)
        BY <3>1, <3>6, <4>2 DEF IInv, PoolInv
      <4> QED
        BY <3>1, <4>1, <4>2
    <3> QED
      BY <3>5, <3>6 DEF PoolInv, Sent, SentAfter
  <2>12. OneAtATime'
    BY <1>1, <2>1, <2>6, <2>8, ServedAsBefore DEF Active
  <2> QED
    BY <2>7, <2>8, <2>10, <2>11, <2>12 DEF IInv
<1> QED
  BY <1>2, <1>3

\* The network executes the call of a handler that waits, and it succeeds.
LEMMA MinedSlot ==
  ASSUME IInv, NEW r \in Requests, req[r].pc = "wait", Good(req[r]),
         req'[r] = Onwards(r),
         ssi' = IF req[r].call = "addIssuer" THEN ssi \cup {req[r].bond} ELSE ssi,
         granted' = CASE req[r].call = "grantKyc" ->
                           [granted EXCEPT ![req[r].bond] = @ \cup {req[r].wallet}]
                      [] req[r].call = "revokeKyc" ->
                           [granted EXCEPT ![req[r].bond] = @ \ {req[r].wallet}]
                      [] OTHER -> granted
  PROVE  /\ req'[r] \in Handler /\ req'[r].pc \in Active
         /\ req'[r].wallet = req[r].wallet /\ Slot(req[r])'
<1> DEFINE h == req[r]
           n == req'[r]
<1>1. /\ h \in Handler /\ Slot(h) /\ Fits(h) /\ h.bond \in Nat /\ h.bond \in Bonds /\ h.bond >= 1
      /\ h.wallet \in Wallets
      /\ ~h.crossed => Walked(h)
      /\ ~h.raced => Wanting(h)
  BY HandlerFacts DEF Slot, Alone, Called, Active, Fits
<1>2. granted \in [Bonds -> SUBSET Wallets] /\ ssi \in SUBSET Bonds
  BY DEF IInv, Typed
<1>3. CASE h.call = "addIssuer"
  <2>1. n = [h EXCEPT !.pc = "simulate", !.call = "grantKyc"]
    BY <1>3 DEF Onwards
  <2>2. /\ n \in Handler /\ n.pc = "simulate" /\ n.call = "grantKyc" /\ n.bond = h.bond
        /\ n.wallet = h.wallet /\ n.verb = h.verb /\ n.crossed = h.crossed /\ n.raced = h.raced
    BY <1>1, <2>1 DEF Handler, Calls, Active
  <2>3. granted' = granted /\ h.bond \in ssi' /\ h.verb = "request"
    BY <1>1, <1>3 DEF Fits
  <2>4. Fits(req[r])'
    BY <1>1, <2>2, <2>3 DEF Fits
  <2>5. ~n.crossed => Walked(req[r])'
    BY <1>1, <2>2, <2>3 DEF Walked
  <2>6. ~n.raced => Wanting(req[r])'
    BY <1>1, <2>2, <2>3 DEF Wanting
  <2>7. ~n.raced => Good(req[r])'
    BY <2>2, <2>3, <2>6 DEF Good, Wanting
  <2> QED
    BY <1>1, <2>2, <2>4, <2>5, <2>6, <2>7 DEF Slot, Alone, Active, Called
<1>4. CASE h.call \in {"grantKyc", "revokeKyc"}
  <2>1. n = [h EXCEPT !.pc = "walk", !.bond = h.bond + 1]
    BY <1>4 DEF Onwards
  <2>2. /\ n \in Handler /\ n.pc = "walk" /\ n.bond = h.bond + 1
        /\ n.wallet = h.wallet /\ n.verb = h.verb /\ n.crossed = h.crossed /\ n.raced = h.raced
    <3>1. h \in Handler /\ h.bond + 1 \in Nat /\ "walk" \in {"free", "verify"} \cup Active \cup Outcomes
      BY <1>1 DEF Active
    <3> HIDE DEF h, n
    <3> QED
      BY <2>1, <3>1 DEF Handler
  <2>3. h.wallet \in granted'[h.bond] <=> h.verb = "request"
    <3>1. CASE h.call = "grantKyc"
      BY <1>1, <1>2, <3>1 DEF Fits
    <3>2. CASE h.call = "revokeKyc"
      BY <1>1, <1>2, <3>2 DEF Fits
    <3> QED
      BY <1>4, <3>1, <3>2
  <2>4. \A b \in Bonds : b # h.bond => granted'[b] = granted[b]
    BY <1>1, <1>2, <1>4
  <2>5. ~n.crossed => \A b \in Bonds : b < n.bond => (n.wallet \in granted'[b] <=> n.verb = "request")
    BY <1>1, <2>2, <2>3, <2>4, Desk DEF Walked
  <2>6. ~n.crossed => Walked(req[r])'
    BY <2>5 DEF Walked
  <2> QED
    BY <1>1, <2>2, <2>6 DEF Slot, Alone, Active, Called
<1> QED
  BY <1>1, <1>3, <1>4 DEF Fits

\* The rest of the pool, once its first is executed.
LEMMA TailPool ==
  ASSUME IInv, pool # <<>>, pool' = Tail(pool),
         \A q \in Requests : req[q].pc = "wait" /\ q # Head(pool).by =>
           /\ req'[q].pc = "wait" /\ req'[q].call = req[q].call
           /\ req'[q].bond = req[q].bond /\ req'[q].wallet = req[q].wallet
  PROVE  PoolInv'
<1>1. /\ pool \in Seq(Tx) /\ Len(pool) \in Nat /\ Len(pool) > 0 /\ Len(pool') = Len(pool) - 1
      /\ Head(pool) = pool[1]
      /\ \A k \in 1 .. Len(pool') : k + 1 \in 1 .. Len(pool) /\ pool'[k] = pool[k + 1]
  BY DEF IInv, Typed
<1>2. ASSUME NEW k \in 1 .. Len(pool'), pool'[k].by # Nobody
      PROVE  pool'[k].by # Head(pool).by
  <2>1. 1 \in 1 .. Len(pool) /\ k + 1 # 1
    BY <1>1
  <2> QED
    BY <1>1, <1>2, <2>1 DEF IInv, PoolInv
<1>3. \A k \in 1 .. Len(pool') : SentAfter(pool'[k])
  <2> SUFFICES ASSUME NEW k \in 1 .. Len(pool') PROVE SentAfter(pool'[k])
    OBVIOUS
  <2>1. pool'[k] = pool[k + 1] /\ k + 1 \in 1 .. Len(pool)
    BY <1>1
  <2>2. CASE pool'[k].by = Nobody
    BY <2>1, <2>2 DEF IInv, PoolInv, Sent, SentAfter
  <2>3. CASE pool'[k].by # Nobody
    <3>1. pool[k + 1].by # Head(pool).by
      BY <1>2, <2>1, <2>3
    <3>2. SentAfter(pool[k + 1])
      BY <2>1, <3>1, SentStays
    <3> QED
      BY <2>1, <3>2
  <2> QED
    BY <2>2, <2>3
<1>4. ASSUME NEW k \in 1 .. Len(pool'), NEW n \in 1 .. Len(pool'),
             pool'[k].by # Nobody, pool'[n].by = pool'[k].by
      PROVE  n = k
  <2>1. n + 1 = k + 1
    BY <1>1, <1>4 DEF IInv, PoolInv
  <2> QED
    BY <2>1
<1> QED
  BY <1>3, <1>4 DEF PoolInv, Sent, SentAfter

LEMMA ExecuteIInv ==
  ASSUME IInv, Execute
  PROVE  IInv'
<1> DEFINE tx == Head(pool)
           ok == Valid(tx)
<1>1. pool # <<>> /\ pool' = Tail(pool) /\ meddles' = meddles
      /\ ssi' = (IF ok /\ tx.call = "addIssuer" THEN ssi \cup {tx.bond} ELSE ssi)
      /\ granted' = CASE ok /\ tx.call = "grantKyc" -> [granted EXCEPT ![tx.bond] = @ \cup {tx.wallet}]
                      [] ok /\ tx.call = "revokeKyc" -> [granted EXCEPT ![tx.bond] = @ \ {tx.wallet}]
                      [] OTHER -> granted
  BY DEF Execute
<1>2. /\ 1 \in 1 .. Len(pool) /\ tx = pool[1] /\ tx \in Tx /\ Sent(tx)
      /\ pool' \in Seq(Tx)
      /\ tx.by \in Requests \cup {Nobody} /\ tx.bond \in Bonds /\ tx.wallet \in Wallets
      /\ tx.call \in Calls
  <2>1. pool \in Seq(Tx)
    BY DEF IInv, Typed
  <2>2. 1 \in 1 .. Len(pool) /\ tx = pool[1] /\ pool[1] \in Tx /\ pool' \in Seq(Tx)
    BY <1>1, <2>1
  <2>3. Sent(pool[1])
    BY <2>2 DEF IInv, PoolInv
  <2> QED
    BY <2>2, <2>3 DEF Tx
<1>3. /\ granted' \in [Bonds -> SUBSET Wallets] /\ ssi' \in SUBSET Bonds
      /\ \A b \in Bonds, w \in Wallets : w # tx.wallet => (w \in granted'[b] <=> w \in granted[b])
  <2>1. granted \in [Bonds -> SUBSET Wallets] /\ ssi \in SUBSET Bonds
    BY DEF IInv, Typed
  <2>2. ssi' \in SUBSET Bonds
    BY <1>1, <1>2, <2>1
  <2>3. \/ granted' = granted
        \/ granted' = [granted EXCEPT ![tx.bond] = granted[tx.bond] \cup {tx.wallet}]
        \/ granted' = [granted EXCEPT ![tx.bond] = granted[tx.bond] \ {tx.wallet}]
    BY <1>1
  <2> QED
    BY <1>2, <2>1, <2>2, <2>3
<1>4. \A q \in Requests :
        LET o == Others(tx.by, tx.wallet)[q] IN
        /\ o \in Handler
        /\ o.pc = req[q].pc /\ o.wallet = req[q].wallet /\ o.verb = req[q].verb
        /\ o.bond = req[q].bond /\ o.call = req[q].call
        /\ req[q].pc \notin Active => o = req[q]
        /\ q # tx.by /\ req[q].pc \in Active =>
             o.raced /\ (~o.crossed => ~req[q].crossed /\ req[q].wallet # tx.wallet)
  BY OthersKeep DEF IInv
<1>5. Others(tx.by, tx.wallet) \in [Requests -> Handler]
  BY <1>4 DEF Others
<1>6. CASE tx.by = Nobody
  <2>1. req' = Others(tx.by, tx.wallet) /\ pending' = pending
    BY <1>6, Desk DEF Execute
  <2>2. \A q \in Requests : q # tx.by
    BY <1>6, Desk
  <2>3. \A q \in Requests : Slot(req[q])'
    BY <1>3, <1>4, <2>1, <2>2, OtherSlot
  <2>4. Typed'
    <3>1. req' \in [Requests -> Handler]
      BY <1>5, <2>1
    <3> QED
      BY <1>1, <1>2, <1>3, <2>1, <3>1 DEF IInv, Typed
  <2>5. PoolInv'
    BY <1>1, <1>4, <2>1, TailPool
  <2>6. OneAtATime'
    BY <1>4, <2>1, ServedAsBefore
  <2> QED
    BY <2>3, <2>4, <2>5, <2>6 DEF IInv
<1>7. CASE tx.by # Nobody
  <2>0. PICK r \in Requests : r = tx.by
    BY <1>2, <1>7
  <2>1. /\ r \in Requests /\ req[r].pc = "wait" /\ tx.call = req[r].call
        /\ tx.bond = req[r].bond /\ tx.wallet = req[r].wallet
    BY <1>2, <1>7, <2>0 DEF Sent
  <2>2. ok <=> Good(req[r])
    BY <2>1 DEF Valid, Good
  <2>3. \A q \in Requests : q # r /\ req'[q] = Others(r, tx.wallet)[q] => Slot(req[q])'
    BY <1>3, <1>4, <2>0, OtherSlot
  <2>4. CASE ok
    <3>1. req' = [Others(r, tx.wallet) EXCEPT ![r] = Onwards(r)] /\ pending' = pending
      BY <1>7, <2>0, <2>4 DEF Execute
    <3>2. req'[r] = Onwards(r) /\ \A q \in Requests : q # r => req'[q] = Others(r, tx.wallet)[q]
      BY <1>5, <2>0, <2>1, <3>1
    <3>3. /\ req'[r] \in Handler /\ req'[r].pc \in Active
          /\ req'[r].wallet = req[r].wallet /\ Slot(req[r])'
      <4>1. ssi' = IF req[r].call = "addIssuer" THEN ssi \cup {req[r].bond} ELSE ssi
        BY <1>1, <2>1, <2>4
      <4>2. granted' = CASE req[r].call = "grantKyc" ->
                              [granted EXCEPT ![req[r].bond] = @ \cup {req[r].wallet}]
                         [] req[r].call = "revokeKyc" ->
                              [granted EXCEPT ![req[r].bond] = @ \ {req[r].wallet}]
                         [] OTHER -> granted
        BY <1>1, <2>1, <2>4
      <4> QED
        BY <2>1, <2>2, <2>4, <3>2, <4>1, <4>2, MinedSlot
    <3>4. \A q \in Requests : Slot(req[q])' /\ req'[q] \in Handler
      BY <1>4, <2>0, <2>3, <3>2, <3>3
    <3>5. Typed'
      <4>1. req' \in [Requests -> Handler]
        BY <1>5, <2>0, <3>1, <3>4
      <4> QED
        BY <1>1, <1>2, <1>3, <3>1, <4>1 DEF IInv, Typed
    <3>6. PoolInv'
      BY <1>1, <1>4, <2>0, <3>2, TailPool
    <3>7. OneAtATime'
      BY <1>4, <2>0, <2>1, <3>1, <3>2, <3>3, ServedAsBefore DEF Active
    <3> QED
      BY <3>4, <3>5, <3>6, <3>7 DEF IInv
  <2>5. CASE ~ok
    <3>1. req' = [Others(r, tx.wallet) EXCEPT ![r] = Answered(r, "tx-failed")]
          /\ pending' = pending \ {req[r].wallet}
      BY <1>7, <2>0, <2>1, <2>5 DEF Execute
    <3>2. /\ req'[r] = Answered(r, "tx-failed")
          /\ \A q \in Requests : q # r => req'[q] = Others(r, tx.wallet)[q]
      BY <1>5, <2>0, <2>1, <3>1
    <3>3. req[r].raced
      BY <2>1, <2>2, <2>5, HandlerFacts DEF Slot, Alone, Called
    <3>4. req'[r] \in Handler /\ req'[r].pc = "tx-failed" /\ req'[r].raced
      BY <2>1, <3>2, <3>3, AnsweredSlot DEF IInv, Outcomes
    <3>5. Slot(req[r])'
      BY <3>4 DEF Slot, Alone, Active, Called
    <3>6. \A q \in Requests : Slot(req[q])' /\ req'[q] \in Handler
      BY <1>4, <2>0, <2>3, <3>2, <3>4, <3>5
    <3>7. Typed'
      <4>1. req' \in [Requests -> Handler]
        BY <1>5, <2>0, <3>1, <3>6
      <4>2. pending' \in SUBSET Wallets
        BY <3>1 DEF IInv, Typed
      <4> QED
        BY <1>1, <1>2, <1>3, <4>1, <4>2 DEF IInv, Typed
    <3>8. PoolInv'
      BY <1>1, <1>4, <2>0, <3>2, TailPool
    <3>9. OneAtATime'
      <4>1. req'[r].pc \notin Active /\ req[r].pc \in Active
        BY <2>1, <3>4 DEF Active
      <4> QED
        BY <1>4, <2>0, <2>1, <3>1, <3>2, <4>1, ServedNoMore
    <3> QED
      BY <3>6, <3>7, <3>8, <3>9 DEF IInv
  <2> QED
    BY <2>4, <2>5
<1> QED
  BY <1>6, <1>7

\* A call throws: its transaction, if the node has it, is nobody's from then on.
LEMMA ThrowIInv ==
  ASSUME IInv, NEW r \in Requests, Throw(r)
  PROVE  IInv'
<1> DEFINE gone == [Answered(r, "tx-failed") EXCEPT !.raced = TRUE]
<1>1. req[r].pc \in Active /\ pending' = pending \ {req[r].wallet}
      /\ UNCHANGED <<granted, ssi, meddles>>
  BY DEF Throw, Released, token
<1>2. gone \in Handler /\ gone.pc = "tx-failed" /\ gone.raced
  <2>1. Answered(r, "tx-failed") \in Handler /\ Answered(r, "tx-failed").pc = "tx-failed"
    <3>1. At("tx-failed", Someone, Somewhere, "request") \in Handler /\ req[r] \in Handler
      BY Desk, AtTyped, HandlerFacts DEF Verbs, Outcomes
    <3> QED
      BY <3>1 DEF Answered, At, Handler
  <2> QED
    BY <2>1 DEF Handler
<1> HIDE DEF gone
<1>3. req'[r] = gone => Slot(req[r])' /\ req'[r] \in Handler /\ req'[r].pc \notin Active
  BY <1>2 DEF Slot, Alone, Active, Called
<1>4. pool \in Seq(Tx) /\ Len(pool) \in Nat /\ \A k \in 1 .. Len(pool) : pool[k] \in Tx /\ Sent(pool[k])
  BY DEF IInv, Typed, PoolInv
<1>5. CASE /\ pool' = [k \in DOMAIN pool |->
                        IF pool[k].by = r THEN [pool[k] EXCEPT !.by = Nobody] ELSE pool[k]]
           /\ req' = [req EXCEPT ![r] = gone]
  <2>1. req'[r] = gone /\ \A q \in Requests : q # r => req'[q] = req[q]
    BY <1>5 DEF IInv, Typed
  <2>2. \A q \in Requests : Slot(req[q])' <=> Slot(req'[q])
    BY <1>1 DEF Slot, Fits, Walked, Alone, Wanting, Good
  <2>3. \A q \in Requests : Slot(req[q])' /\ req'[q] \in Handler
    BY <1>3, <2>1, <2>2, HandlerFacts
  <2>4. /\ pool' \in Seq(Tx) /\ Len(pool') = Len(pool)
        /\ \A k \in 1 .. Len(pool) :
             /\ pool[k].by = r => pool'[k] = [pool[k] EXCEPT !.by = Nobody]
             /\ pool[k].by # r => pool'[k] = pool[k]
    <3>1. DOMAIN pool = 1 .. Len(pool)
      BY <1>4
    <3>2. \A k \in 1 .. Len(pool) : pool'[k] \in Tx
      BY <1>4, <1>5, <3>1 DEF Tx
    <3>3. pool' = [k \in 1 .. Len(pool) |-> pool'[k]]
      BY <1>5, <3>1
    <3> QED
      BY <1>4, <1>5, <3>1, <3>2, <3>3
  <2>5. Typed'
    <3>1. req' \in [Requests -> Handler] /\ pending' \in SUBSET Wallets
      BY <1>1, <1>2, <1>5 DEF IInv, Typed
    <3> QED
      BY <1>1, <2>4, <3>1 DEF IInv, Typed
  <2>6. PoolInv'
    <3>1. ASSUME NEW k \in 1 .. Len(pool')
          PROVE  SentAfter(pool'[k]) /\ (pool'[k].by # Nobody => pool'[k].by = pool[k].by)
      <4>1. k \in 1 .. Len(pool) /\ pool[k] \in Tx /\ Sent(pool[k])
        BY <1>4, <2>4, <3>1
      <4>2. CASE pool[k].by = r
        <5>1. /\ pool'[k].by = Nobody /\ pool'[k].call = pool[k].call
              /\ pool'[k].wallet = pool[k].wallet /\ pool'[k].bond = pool[k].bond
          BY <2>4, <4>1, <4>2 DEF Tx
        <5> QED
          BY <4>1, <5>1 DEF Sent, SentAfter
      <4>3. CASE pool[k].by # r
        BY <2>1, <2>4, <4>1, <4>3, SentStays
      <4> QED
        BY <4>2, <4>3
    <3>2. ASSUME NEW k \in 1 .. Len(pool'), NEW n \in 1 .. Len(pool'),
                 pool'[k].by # Nobody, pool'[n].by = pool'[k].by
          PROVE  n = k
      BY <2>4, <3>1, <3>2 DEF IInv, PoolInv
    <3> QED
      BY <3>1, <3>2 DEF PoolInv, Sent, SentAfter
  <2>7. OneAtATime'
    BY <1>1, <1>3, <2>1, ServedNoMore
  <2> QED
    BY <2>3, <2>5, <2>6, <2>7 DEF IInv
<1>6. CASE /\ req[r].pc = "send"
           /\ pool' = Append(pool, [TxOf(r) EXCEPT !.by = Nobody])
           /\ req' = [Taken(r) EXCEPT ![r] = gone]
  <2> DEFINE tx == [TxOf(r) EXCEPT !.by = Nobody]
  <2>1. /\ tx \in Tx /\ tx.by = Nobody
        /\ tx.call = "revokeKyc" => tx.wallet # Issuer[tx.bond]
    <3>1. req[r] \in Handler /\ Fits(req[r])
      BY <1>6, HandlerFacts DEF Slot, Called
    <3>2. tx = [by |-> Nobody, call |-> req[r].call, bond |-> req[r].bond, wallet |-> req[r].wallet]
      BY DEF TxOf
    <3> QED
      BY <3>1, <3>2 DEF Tx, Handler, Fits
  <2>2. req'[r] = gone /\ \A q \in Requests : q # r => req'[q] = Taken(r)[q]
    BY <1>6 DEF Taken
  <2>3. \A q \in Requests : q # r =>
          /\ req'[q] \in Handler /\ Slot(req[q])'
          /\ req'[q].pc = req[q].pc /\ req'[q].wallet = req[q].wallet
          /\ req'[q].bond = req[q].bond /\ req'[q].call = req[q].call
    BY <1>1, <2>2, TakenSlots
  <2>4. \A q \in Requests : Slot(req[q])' /\ req'[q] \in Handler
    BY <1>3, <2>2, <2>3
  <2> HIDE DEF tx
  <2>5. /\ pool' \in Seq(Tx) /\ Len(pool') = Len(pool) + 1 /\ pool'[Len(pool) + 1] = tx
        /\ \A k \in 1 .. Len(pool) : pool'[k] = pool[k]
    BY <1>4, <1>6, <2>1 DEF tx
  <2>6. Typed'
    <3>1. req' \in [Requests -> Handler]
      BY <1>6, <2>4 DEF Taken
    <3>2. pending' \in SUBSET Wallets
      BY <1>1 DEF IInv, Typed
    <3> QED
      BY <1>1, <2>5, <3>1, <3>2 DEF IInv, Typed
  <2>7. PoolInv'
    <3>1. ASSUME NEW k \in 1 .. Len(pool) PROVE SentAfter(pool[k])
      <4>1. pool[k].by # r
        BY <1>4, <1>6, Desk DEF Sent
      <4> QED
        BY <2>3, <4>1, SentStays
    <3>2. SentAfter(tx)
      BY <2>1 DEF SentAfter
    <3>3. \A k \in 1 .. Len(pool') : SentAfter(pool'[k])
      BY <1>4, <2>5, <3>1, <3>2
    <3>4. ASSUME NEW k \in 1 .. Len(pool'), NEW n \in 1 .. Len(pool'),
                 pool'[k].by # Nobody, pool'[n].by = pool'[k].by
          PROVE  n = k
      <4>1. k \in 1 .. Len(pool) /\ n \in 1 .. Len(pool)
        BY <1>4, <2>1, <2>5, <3>4
      <4> QED
        BY <2>5, <3>4, <4>1 DEF IInv, PoolInv
    <3> QED
      BY <3>3, <3>4 DEF PoolInv, Sent, SentAfter
  <2>8. OneAtATime'
    BY <1>1, <1>3, <2>2, <2>3, ServedNoMore
  <2> QED
    BY <2>4, <2>6, <2>7, <2>8 DEF IInv
<1> QED
  BY <1>5, <1>6 DEF Throw, gone

LEMMA IdleIInv ==
  ASSUME IInv, Tick \/ UNCHANGED vars
  PROVE  IInv'
<1>1. UNCHANGED <<granted, ssi, pending, req, pool, meddles>>
  BY DEF Tick, vars, token, api
<1>2. Typed'
  BY <1>1 DEF IInv, Typed
<1>3. \A q \in Requests : Slot(req[q])' <=> Slot(req'[q])
  BY <1>1 DEF Slot, Fits, Walked, Alone, Wanting, Good
<1>4. \A q \in Requests : Slot(req[q])'
  BY <1>1, <1>3 DEF IInv
<1>5. PoolInv'
  BY <1>1, SendersWait
<1>6. OneAtATime'
  BY <1>1, ServedAsBefore
<1> QED
  BY <1>2, <1>4, <1>5, <1>6 DEF IInv

LEMMA NextIInv == IInv /\ [Next]_vars => IInv'
<1> SUFFICES ASSUME IInv, [Next]_vars PROVE IInv'
  OBVIOUS
<1>1. ASSUME NEW r \in Requests, NEW w \in Wallets, NEW i \in Ips, NEW v \in Verbs,
             Arrive(r, w, i, v)
      PROVE  IInv'
  BY <1>1, ArriveIInv
<1>2. ASSUME NEW r \in Requests, Step(r)
      PROVE  IInv'
  BY <1>2, AcceptIInv, LookIInv, AskSsiIInv, SimulateIInv, SubmitIInv DEF Step
<1>3. ASSUME NEW r \in Requests, Throw(r)
      PROVE  IInv'
  BY <1>3, ThrowIInv
<1>4. CASE Execute
  BY <1>4, ExecuteIInv
<1>5. ASSUME NEW b \in Bonds, NEW w \in Wallets, Officer(b, w)
      PROVE  IInv'
  BY <1>5, OfficerIInv
<1>6. CASE Tick \/ UNCHANGED vars
  BY <1>6, IdleIInv
<1> QED
  BY <1>1, <1>2, <1>3, <1>4, <1>5, <1>6 DEF Next

\* The invariant holds in every state of the desk.
THEOREM Invariance == Spec => []IInv
BY InitIInv, NextIInv, PTL DEF Spec

\* However many requests of a wallet are sent at once, the desk serves one at a
\* time, and its pending set is exactly who is being served.
THEOREM ServesOne == Spec => []OneAtATime
<1>1. IInv => OneAtATime
  BY DEF IInv
<1> QED
  BY <1>1, Invariance, PTL

\* Whatever the number of bonds and of other requests, a request that was alone
\* does not fail.
THEOREM Succeeds == Spec => []AloneSucceeds
<1>1. IInv => AloneSucceeds
  BY DEF IInv, Slot, Alone, AloneSucceeds
<1> QED
  BY <1>1, Invariance, PTL

-----------------------------------------------------------------------------
(* What the steps may not do. *)

\* A handler answers 200 only when its walk is over.
LEMMA OkAtTheEnd ==
  ASSUME IInv, Next, NEW r \in Requests, req[r].pc \in Active, req'[r].pc = "ok"
  PROVE  Look(r) /\ req[r].bond > NBonds
<1>1. req \in [Requests -> Handler] /\ req[r] \in Handler /\ "ok" \notin Active
  BY DEF IInv, Typed, Active
<1>2. \A q \in Requests, o \in Outcomes : Answered(q, o).pc = o
  BY AnsweredSlot, <1>1 DEF Answered, At
<1>3. ASSUME NEW q \in Requests, NEW new, req' = [req EXCEPT ![q] = new], new.pc # "ok"
      PROVE  FALSE
  BY <1>1, <1>3
<1>4. ASSUME NEW q \in Requests, NEW wallet, NEW new,
             \/ req' = Others(q, wallet)
             \/ req' = Others(Nobody, wallet)
             \/ req' = [Others(q, wallet) EXCEPT ![q] = new] /\ new.pc # "ok"
             \/ req' = [Taken(q) EXCEPT ![q] = new] /\ new.pc # "ok"
      PROVE  FALSE
  <2>1. Others(q, wallet)[r].pc \in Active /\ Others(Nobody, wallet)[r].pc \in Active
    BY OthersKeep DEF IInv
  <2>2. Taken(q)[r].pc \in Active
    <3>1. Others(q, Nobody)[r] \in Handler /\ Others(q, Nobody)[r].pc \in Active
      BY OthersKeep DEF IInv
    <3> QED
      BY <3>1 DEF Taken, Handler
  <2>3. DOMAIN Taken(q) = Requests /\ DOMAIN Others(q, wallet) = Requests
    BY DEF Taken, Others
  <2>4. "ok" \notin Active
    BY <1>1
  <2>5. CASE req' = Others(q, wallet) \/ req' = Others(Nobody, wallet)
    BY <2>1, <2>4, <2>5
  <2>6. CASE req' = [Others(q, wallet) EXCEPT ![q] = new] /\ new.pc # "ok"
    <3>1. req'[r] = IF r = q THEN new ELSE Others(q, wallet)[r]
      BY <2>3, <2>6
    <3> QED
      BY <2>1, <2>4, <2>6, <3>1
  <2>7. CASE req' = [Taken(q) EXCEPT ![q] = new] /\ new.pc # "ok"
    <3>1. req'[r] = IF r = q THEN new ELSE Taken(q)[r]
      BY <2>3, <2>7
    <3> QED
      BY <2>2, <2>4, <2>7, <3>1
  <2> QED
    BY <1>4, <2>5, <2>6, <2>7
<1>5. ASSUME NEW q \in Requests, NEW w \in Wallets, NEW j \in Ips, NEW v \in Verbs,
             Arrive(q, w, j, v)
      PROVE  FALSE
  <2>1. At("verify", w, j, v).pc # "ok"
    BY DEF At
  <2> QED
    BY <1>3, <1>5, <2>1 DEF Arrive
<1>6. ASSUME NEW q \in Requests, AskSsi(q) \/ Simulate(q) \/ ReadNonce(q) \/ Accept(q)
      PROVE  FALSE
  <2>1. Answered(q, "tx-failed").pc # "ok" /\ Answered(q, "pending").pc # "ok"
        /\ Answered(q, "rate-limited").pc # "ok"
    BY <1>2 DEF Outcomes
  <2>2. req[q] \in Handler /\ req[q].pc # "ok"
    BY <1>1, <1>6 DEF AskSsi, Simulate, ReadNonce, Accept
  <2>3. PICK new : req' = [req EXCEPT ![q] = new] /\ new.pc # "ok"
    <3>1. CASE AskSsi(q)
      BY <1>1, <2>2, <3>1 DEF AskSsi, Handler
    <3>2. CASE Simulate(q)
      BY <1>1, <2>1, <2>2, <3>2 DEF Simulate, Goto, Answer, Handler
    <3>3. CASE ReadNonce(q)
      BY <1>1, <2>2, <3>3 DEF ReadNonce, Handler
    <3>4. CASE Accept(q)
      BY <1>1, <2>1, <2>2, <3>4 DEF Accept, Handler
    <3> QED
      BY <1>6, <3>1, <3>2, <3>3, <3>4
  <2> QED
    BY <1>3, <2>3
<1>7. ASSUME NEW q \in Requests, Submit(q)
      PROVE  FALSE
  <2>1. Answered(q, "tx-failed").pc # "ok"
    BY <1>2 DEF Outcomes
  <2>2. CASE req' = [req EXCEPT ![q] = Answered(q, "tx-failed")]
    BY <1>3, <2>1, <2>2
  <2>3. CASE req' = [Taken(q) EXCEPT ![q].pc = "wait"]
    <3>1. Taken(q)[q] \in Handler
      <4>1. Others(q, Nobody)[q] \in Handler
        BY OthersKeep DEF IInv
      <4> QED
        BY <4>1 DEF Taken, Handler
    <3>2. /\ req' = [Taken(q) EXCEPT ![q] = [Taken(q)[q] EXCEPT !.pc = "wait"]]
          /\ [Taken(q)[q] EXCEPT !.pc = "wait"].pc # "ok"
      BY <2>3, <3>1 DEF Handler
    <3> QED
      BY <1>4, <3>2
  <2> QED
    BY <1>7, <2>2, <2>3 DEF Submit, Answer
<1>8. ASSUME NEW q \in Requests, Throw(q)
      PROVE  FALSE
  <2>1. /\ Answered(q, "tx-failed") \in Handler /\ Answered(q, "tx-failed").pc # "ok"
    <3>1. At("tx-failed", Someone, Somewhere, "request") \in Handler /\ req[q] \in Handler
      BY <1>1, Desk, AtTyped DEF Verbs, Outcomes
    <3> QED
      BY <1>2, <3>1 DEF Answered, At, Handler, Outcomes
  <2>2. [Answered(q, "tx-failed") EXCEPT !.raced = TRUE].pc # "ok"
    BY <2>1 DEF Handler
  <2> QED
    BY <1>3, <1>4, <1>8, <2>2 DEF Throw
<1>9. ASSUME Execute
      PROVE  FALSE
  <2>1. pool # <<>> /\ pool \in Seq(Tx)
    BY <1>9 DEF Execute, IInv, Typed
  <2>2. Head(pool) \in Tx
    BY <2>1
  <2>3. PICK by \in Requests \cup {Nobody} : by = Head(pool).by
    BY <2>2 DEF Tx
  <2>4. CASE req' = Others(by, Head(pool).wallet)
    BY <1>4, <2>3, <2>4
  <2>5. CASE by \in Requests
    <3>1. Answered(by, "tx-failed").pc # "ok"
      BY <1>2, <2>5 DEF Outcomes
    <3>2. Onwards(by).pc # "ok"
      <4>1. req[by] \in Handler
        BY <1>1, <2>5
      <4> QED
        BY <4>1 DEF Onwards, Handler
    <3> QED
      BY <1>4, <1>9, <2>3, <2>5, <3>1, <3>2 DEF Execute
  <2> QED
    BY <1>9, <2>3, <2>4, <2>5 DEF Execute
<1>10. ASSUME NEW b \in Bonds, NEW w \in Wallets, Officer(b, w)
       PROVE  FALSE
  BY <1>4, <1>10 DEF Officer
<1>11. ASSUME Tick
       PROVE  FALSE
  BY <1>1, <1>11 DEF Tick
<1>12. ASSUME NEW q \in Requests, Look(q)
       PROVE  q = r /\ req[r].bond > NBonds
  <2>1. req[q] \in Handler /\ req[q].pc = "walk"
    BY <1>1, <1>12 DEF Look
  <2>2. CASE req' = [req EXCEPT ![q] = Answered(q, "issuer-kyc")]
    BY <1>2, <1>3, <2>2 DEF Outcomes
  <2>3. CASE req' = [req EXCEPT ![q] = Asked(q)]
    <3>1. Asked(q).pc # "ok"
      BY <2>1 DEF Asked, Handler, Verbs
    <3> QED
      BY <1>3, <2>3, <3>1
  <2>4. CASE req[q].bond > NBonds /\ req' = [req EXCEPT ![q] = Answered(q, "ok")]
    BY <1>1, <2>4
  <2> QED
    BY <1>12, <2>2, <2>3, <2>4 DEF Look, Answer
<1>13. ASSUME NEW q \in Requests, Step(q) \/ Throw(q)
       PROVE  q = r /\ Look(q) /\ req[r].bond > NBonds
  BY <1>6, <1>7, <1>8, <1>12, <1>13 DEF Step
<1> QED
  BY <1>5, <1>9, <1>10, <1>11, <1>13 DEF Next

\* No step but one of the officer's own hand takes an issuer's KYC on its bond.
LEMMA TakenByHand ==
  ASSUME IInv, [Next]_vars, NEW b \in Bonds,
         Issuer[b] \in granted[b], Issuer[b] \notin granted'[b]
  PROVE  meddles' # meddles
<1>1. granted' # granted
  OBVIOUS
<1>2. CASE Execute
  <2>1. pool # <<>> /\ pool \in Seq(Tx) /\ granted \in [Bonds -> SUBSET Wallets]
    BY <1>2 DEF Execute, IInv, Typed
  <2>2. 1 \in 1 .. Len(pool) /\ Head(pool) = pool[1] /\ Head(pool) \in Tx
    BY <2>1
  <2>3. Sent(Head(pool))
    BY <2>2 DEF IInv, PoolInv
  <2>4. Head(pool).bond \in Bonds
    BY <2>2 DEF Tx
  <2>5. \/ granted' = [granted EXCEPT ![Head(pool).bond] = @ \cup {Head(pool).wallet}]
        \/ /\ Head(pool).call = "revokeKyc"
           /\ granted' = [granted EXCEPT ![Head(pool).bond] = @ \ {Head(pool).wallet}]
    BY <1>1, <1>2 DEF Execute
  <2> QED
    BY <2>1, <2>3, <2>4, <2>5 DEF Sent
<1>3. CASE \E c \in Bonds, w \in Wallets : Officer(c, w)
  <2>1. meddles \in Nat /\ meddles' = meddles + 1
    BY <1>3 DEF Officer, IInv, Typed
  <2> QED
    BY <2>1
<1>4. CASE \/ \E r \in Requests, w \in Wallets, i \in Ips, v \in Verbs : Arrive(r, w, i, v)
           \/ \E r \in Requests : Step(r) \/ Throw(r)
           \/ Tick \/ UNCHANGED vars
  BY <1>1, <1>4 DEF Arrive, Step, Throw, Accept, Look, AskSsi, Simulate, ReadNonce, Submit,
                    Tick, vars, token
<1> QED
  BY <1>2, <1>3, <1>4 DEF Next

\* When the desk answers 200 the tokens say what the answer says, unless somebody
\* else touched the wallet's KYC meanwhile; and only the officer's hand takes an
\* issuer's KYC on its own bond.
THEOREM KeepsItsWord == Spec => KycIsAsAnswered
<1>1. IInv /\ [Next]_vars =>
        [\A r \in Requests :
           req[r].pc \in Active /\ req'[r].pc = "ok" /\ ~req[r].crossed =>
             \A b \in Bonds : (req[r].wallet \in granted[b]) = (req[r].verb = "request")]_vars
  <2> SUFFICES ASSUME IInv, Next, NEW r \in Requests,
                      req[r].pc \in Active, req'[r].pc = "ok", ~req[r].crossed,
                      NEW b \in Bonds
               PROVE  (req[r].wallet \in granted[b]) = (req[r].verb = "request")
    OBVIOUS
  <2>1. req[r].bond > NBonds /\ req[r].bond \in Nat /\ Walked(req[r])
    BY OkAtTheEnd, HandlerFacts DEF Slot
  <2>2. b < req[r].bond
    BY <2>1, Desk
  <2> QED
    BY <2>1, <2>2 DEF Walked
<1>2. IInv /\ [Next]_vars =>
        [\A b \in Bonds :
           Issuer[b] \in granted[b] /\ Issuer[b] \notin granted'[b] => meddles' # meddles]_vars
  BY TakenByHand
<1> QED
  BY <1>1, <1>2, Invariance, PTL DEF Spec, KycIsAsAnswered, AnswerIsTrue, IssuerKeepsKyc

-----------------------------------------------------------------------------
(* The rate limit.                                                         *)

\* Those let in under a key since t, and in the window that begins at f; and how
\* many of the first i times of s are not before t.
Of(k, a)          == k = <<"addr", a.wallet>> \/ k = <<"ip", a.ip>>
Since(acc, k, t)  == {n \in DOMAIN acc : Of(k, acc[n]) /\ acc[n].at >= t}
Within(acc, k, f) == {n \in DOMAIN acc : Of(k, acc[n]) /\ acc[n].at \in f .. f + Window - 1}
Count(s, i, t)    == Cardinality({n \in 1 .. i : s[n] >= t})

Entrant == [wallet : Wallets, ip : Ips, at : Nat]

\* Whoever was let in in the last window has left a hit, so that what the desk
\* counts is never less than what it let in.
Rated(h, acc, m) ==
  /\ m \in Nat /\ h \in [Keys -> Seq(Nat)] /\ acc \in Seq(Entrant)
  /\ \A k \in Keys : \A n \in DOMAIN h[k] : h[k][n] <= m
  /\ \A n \in DOMAIN acc : acc[n].at <= m
  /\ \A k \in Keys, t \in Nat : t + Window > m =>
       Cardinality(Since(acc, k, t)) <= Count(h[k], Len(h[k]), t)
  /\ \A k \in Keys, f \in Nat : Cardinality(Within(acc, k, f)) <= Limit

RateInv == Rated(hits, accepted, now)

LEMMA PartFinite ==
  ASSUME NEW m \in Nat, NEW T \in SUBSET (1 .. m)
  PROVE  IsFiniteSet(T) /\ Cardinality(T) \in Nat /\ Cardinality(T) <= m
<1>1. IsFiniteSet(1 .. m) /\ Cardinality(1 .. m) = m
  BY FS_Interval
<1> QED
  BY <1>1, FS_Subset, FS_CardinalityType

LEMMA CountNat ==
  ASSUME NEW s, NEW i \in Nat, NEW t
  PROVE  Count(s, i, t) \in Nat /\ Count(s, i, t) <= i
<1>1. PICK T \in SUBSET (1 .. i) : T = {n \in 1 .. i : s[n] >= t}
  OBVIOUS
<1> QED
  BY <1>1, PartFinite DEF Count

LEMMA CountNone ==
  ASSUME NEW s, NEW t
  PROVE  Count(s, 0, t) = 0
<1>1. {n \in 1 .. 0 : s[n] >= t} = {}
  OBVIOUS
<1> QED
  BY <1>1, FS_EmptySet DEF Count

LEMMA CountOneMore ==
  ASSUME NEW s, NEW i \in Nat \ {0}, NEW t
  PROVE  Count(s, i, t) = Count(s, i - 1, t) + IF s[i] >= t THEN 1 ELSE 0
<1> DEFINE j == i - 1
<1>1. j \in Nat /\ i = j + 1
  OBVIOUS
<1> HIDE DEF j
<1>2. PICK T \in SUBSET (1 .. j) : T = {n \in 1 .. j : s[n] >= t}
  OBVIOUS
<1>3. {n \in 1 .. i : s[n] >= t} = IF s[i] >= t THEN T \cup {i} ELSE T
  BY <1>1, <1>2
<1>4. i \notin T
  BY <1>1, <1>2
<1>5. IsFiniteSet(T) /\ Cardinality(T) \in Nat
  BY <1>1, PartFinite
<1>6. Cardinality(T \cup {i}) = Cardinality(T) + 1
  BY <1>4, <1>5, FS_AddElement
<1>7. Count(s, i, t) = IF s[i] >= t THEN Cardinality(T) + 1 ELSE Cardinality(T)
  BY <1>3, <1>6 DEF Count
<1>8. Count(s, j, t) = Cardinality(T)
  BY <1>2 DEF Count
<1> QED
  BY <1>5, <1>7, <1>8 DEF j

LEMMA CountSame ==
  ASSUME NEW s, NEW r, NEW i \in Nat, NEW t, \A n \in 1 .. i : s[n] = r[n]
  PROVE  Count(s, i, t) = Count(r, i, t)
<1>1. {n \in 1 .. i : s[n] >= t} = {n \in 1 .. i : r[n] >= t}
  OBVIOUS
<1> QED
  BY <1>1 DEF Count

\* r is s and then x.
Longer(r, s, x) ==
  /\ r \in Seq(Nat) /\ Len(r) = Len(s) + 1 /\ r[Len(s) + 1] = x
  /\ \A n \in 1 .. Len(s) : r[n] = s[n]

LEMMA AppendIsLonger ==
  ASSUME NEW s \in Seq(Nat), NEW x \in Nat
  PROVE  Longer(Append(s, x), s, x)
BY DEF Longer

LEMMA CountLonger ==
  ASSUME NEW s \in Seq(Nat), NEW t, NEW x \in Nat, NEW r, Longer(r, s, x)
  PROVE  /\ x >= t => Count(r, Len(r), t) = Count(s, Len(s), t) + 1
         /\ ~(x >= t) => Count(r, Len(r), t) = Count(s, Len(s), t)
<1>1. PICK m \in Nat : m = Len(s)
  OBVIOUS
<1>2. Len(r) = m + 1 /\ r[m + 1] = x /\ \A n \in 1 .. m : r[n] = s[n]
  BY <1>1 DEF Longer
<1>3. PICK i \in Nat \ {0} : i = m + 1 /\ i - 1 = m
  OBVIOUS
<1>4. Count(r, i, t) = Count(r, i - 1, t) + IF r[i] >= t THEN 1 ELSE 0
  BY CountOneMore
<1>5. Count(r, m, t) = Count(s, m, t)
  BY <1>2, CountSame
<1>6. Count(s, m, t) \in Nat
  BY CountNat
<1> QED
  BY <1>1, <1>2, <1>3, <1>4, <1>5, <1>6

\* The scan of rateLimited, for every part of the list.
IsScan(g, s) ==
  g = [u \in SUBSET DOMAIN s |->
         IF u = {} THEN <<>> ELSE KeepRecent(g[u \ {Max(u)}], s[Max(u)])]
Scan(s) == CHOOSE g : IsScan(g, s)

LEMMA RecentIsScan ==
  ASSUME NEW k
  PROVE  Recent(k) = Scan(hits[k])[DOMAIN hits[k]]
BY DEF Recent, FoldLeft, MapThenFoldSet, Scan, IsScan

LEMMA ScanExists ==
  ASSUME NEW s \in Seq(Nat), now \in Nat
  PROVE  \E g : IsScan(g, s)
<1> DEFINE N == Len(s)
           F == [p \in Seq(Nat) \X (1 .. N) |-> KeepRecent(p[1], s[p[2]])]
<1>1. N \in Nat /\ DOMAIN s = 1 .. N /\ \A i \in 1 .. N : s[i] \in Nat
  OBVIOUS
<1>2. \A q \in Seq(Nat), i \in 1 .. N : KeepRecent(q, s[i]) \in Seq(Nat)
  BY <1>1 DEF KeepRecent
<1>3. F \in [Seq(Nat) \X (1 .. N) -> Seq(Nat)]
  BY <1>2
<1>4. \A q \in Seq(Nat), i \in 1 .. N : F[<<q, i>>] = KeepRecent(q, s[i])
  OBVIOUS
<1>5. <<>> \in Seq(Nat)
  OBVIOUS
<1> HIDE DEF F, N
<1>6. PICK g \in [SUBSET (1 .. N) -> Seq(Nat)] :
        \A u \in SUBSET (1 .. N) : FoldsAt(g, <<>>, F, u)
  BY <1>1, <1>3, <1>5, FoldExists, Zenon
<1>7. ASSUME NEW u \in SUBSET (1 .. N)
      PROVE  g[u] = IF u = {} THEN <<>> ELSE KeepRecent(g[u \ {Max(u)}], s[Max(u)])
  <2>1. u # {} => Max(u) \in 1 .. N /\ u \ {Max(u)} \in SUBSET (1 .. N)
    BY <1>1, MaxRest
  <2>2. u # {} => F[<<g[u \ {Max(u)}], Max(u)>>] = KeepRecent(g[u \ {Max(u)}], s[Max(u)])
    BY <1>4, <1>6, <2>1
  <2>3. g[u] = IF u = {} THEN <<>> ELSE F[<<g[u \ {Max(u)}], Max(u)>>]
    BY <1>6 DEF FoldsAt
  <2> QED
    BY <2>2, <2>3
<1>8. IsScan(g, s)
  BY <1>1, <1>6, <1>7 DEF IsScan
<1> QED
  BY <1>8

\* q is what a scan of the first i of s keeps.
KeptOf(q, s, i) ==
  /\ q \in Seq(Nat) /\ \A n \in DOMAIN q : q[n] <= now
  /\ \A t \in Nat : t + Window > now => Count(q, Len(q), t) = Count(s, i, t)

\* What is kept of a key's hits is what of them lies in the last window.
LEMMA RecentKeeps ==
  ASSUME NEW k, NEW s \in Seq(Nat), hits[k] = s, now \in Nat,
         \A n \in DOMAIN s : s[n] <= now
  PROVE  KeptOf(Recent(k), s, Len(s))
<1> DEFINE g == Scan(s)
           G == {i \in 0 .. Len(s) : KeptOf(g[1 .. i], s, i)}
<1>1. PICK N \in Nat : N = Len(s) /\ DOMAIN s = 1 .. N
  OBVIOUS
<1>2. IsScan(g, s)
  BY ScanExists DEF Scan
<1>3. Window \in Nat
  BY DeskAssumption
<1> HIDE DEF g
<1>4. 0 \in G
  <2>1. 1 .. 0 = {} /\ {} \in SUBSET DOMAIN s
    OBVIOUS
  <2>2. g[1 .. 0] = <<>>
    BY <1>2, <2>1 DEF IsScan
  <2>3. KeptOf(<<>>, s, 0)
    BY CountNone DEF KeptOf
  <2> QED
    BY <1>1, <2>2, <2>3
<1>5. ASSUME NEW i \in 1 .. N, i - 1 \in G
      PROVE  i \in G
  <2>1. PICK q : q = g[1 .. (i - 1)]
    OBVIOUS
  <2>2. i \in Nat \ {0} /\ i \in 0 .. N /\ s[i] \in Nat /\ s[i] <= now /\ KeptOf(q, s, i - 1)
    BY <1>1, <1>5, <2>1
  <2>3. g[1 .. i] = KeepRecent(q, s[i])
    <3>1. 1 .. i \in SUBSET DOMAIN s
      BY <1>1
    <3>2. 1 .. i # {} /\ Max(1 .. i) = i /\ (1 .. i) \ {i} = 1 .. (i - 1)
      BY <2>2, MaxOfRange
    <3> QED
      BY <1>2, <2>1, <3>1, <3>2 DEF IsScan
  <2>4. \A t \in Nat : Count(s, i, t) = Count(s, i - 1, t) + IF s[i] >= t THEN 1 ELSE 0
    BY <2>2, CountOneMore
  <2>5. \A t \in Nat : Count(s, i - 1, t) \in Nat
    BY <2>2, CountNat
  <2>6. KeptOf(KeepRecent(q, s[i]), s, i)
    <3>1. CASE now - s[i] < Window
      <4>1. \A t \in Nat : Count(Append(q, s[i]), Len(Append(q, s[i])), t) =
                              Count(q, Len(q), t) + IF s[i] >= t THEN 1 ELSE 0
        <5>1. PICK r : r = Append(q, s[i])
          OBVIOUS
        <5>2. PICK e \in Nat : e = s[i]
          BY <2>2
        <5>3. q \in Seq(Nat) /\ Longer(r, q, e)
          BY <2>2, <5>1, <5>2, AppendIsLonger DEF KeptOf
        <5>4. ASSUME NEW t
              PROVE  /\ s[i] >= t => Count(r, Len(r), t) = Count(q, Len(q), t) + 1
                     /\ ~(s[i] >= t) => Count(r, Len(r), t) = Count(q, Len(q), t)
          <6>1. /\ e >= t => Count(r, Len(r), t) = Count(q, Len(q), t) + 1
                /\ ~(e >= t) => Count(r, Len(r), t) = Count(q, Len(q), t)
            BY <5>3, CountLonger, Zenon
          <6> QED
            BY <5>2, <6>1
        <5>5. Len(q) \in Nat /\ \A t : Count(q, Len(q), t) \in Nat
          BY <5>3, CountNat
        <5> QED
          BY <5>1, <5>4, <5>5
      <4>2. /\ Append(q, s[i]) \in Seq(Nat)
            /\ \A n \in DOMAIN Append(q, s[i]) : Append(q, s[i])[n] <= now
        BY <2>2 DEF KeptOf
      <4>3. KeptOf(Append(q, s[i]), s, i)
        BY <2>2, <2>4, <4>1, <4>2 DEF KeptOf
      <4> QED
        BY <3>1, <4>3 DEF KeepRecent
    <3>2. CASE ~(now - s[i] < Window)
      <4>1. \A t \in Nat : t + Window > now => ~(s[i] >= t)
        BY <1>3, <2>2, <3>2
      <4>2. ASSUME NEW t \in Nat, t + Window > now
            PROVE  Count(s, i, t) = Count(s, i - 1, t)
        <5>1. Count(s, i, t) = Count(s, i - 1, t) + 0
          BY <2>4, <4>1, <4>2
        <5> QED
          BY <2>5, <5>1
      <4>3. KeptOf(q, s, i)
        BY <2>2, <4>2 DEF KeptOf
      <4> QED
        BY <3>2, <4>3 DEF KeepRecent
    <3> QED
      BY <3>1, <3>2
  <2> QED
    BY <1>1, <2>2, <2>3, <2>6
<1>6. N \in G
  <2>1. \A i \in 1 .. N : i - 1 \in G => i \in G
    BY <1>5
  <2> HIDE DEF G
  <2> QED
    BY <1>4, <2>1, RangeInduction
<1>7. Recent(k) = g[1 .. N]
  BY <1>1, RecentIsScan DEF g
<1> QED
  BY <1>1, <1>6, <1>7

\* What an accepted request does to the hits of a key.
LEMMA HitsOfKey ==
  ASSUME RateInv, NEW w \in Wallets, NEW i \in Ips, NEW k \in Keys,
         NEW h, h = HitsAfter(<<"addr", w>>, <<"ip", i>>)
  PROVE  /\ h \in [Keys -> Seq(Nat)]
         /\ h[k] \in {hits[k], Recent(k), Append(Recent(k), now)}
         /\ ~Limited(<<"addr", w>>) /\ ~Limited(<<"ip", i>>)
              /\ (k = <<"addr", w>> \/ k = <<"ip", i>>) => h[k] = Append(Recent(k), now)
<1> DEFINE addr == <<"addr", w>>
           ip == <<"ip", i>>
<1>1. addr \in Keys /\ ip \in Keys /\ addr # ip
  BY DEF Keys
<1>2. hits \in [Keys -> Seq(Nat)] /\ now \in Nat
  BY DEF RateInv, Rated
<1>3. \A l \in Keys : Hit(l) \in {Recent(l), Append(Recent(l), now)} /\ Hit(l) \in Seq(Nat)
                       /\ (~Limited(l) => Hit(l) = Append(Recent(l), now))
  <2> SUFFICES ASSUME NEW l \in Keys
               PROVE  Hit(l) \in {Recent(l), Append(Recent(l), now)} /\ Hit(l) \in Seq(Nat)
                      /\ (~Limited(l) => Hit(l) = Append(Recent(l), now))
    OBVIOUS
  <2>1. Recent(l) \in Seq(Nat)
    <3>1. hits[l] \in Seq(Nat) /\ \A n \in DOMAIN hits[l] : hits[l][n] <= now
      BY <1>2 DEF RateInv, Rated
    <3> QED
      BY <1>2, <3>1, RecentKeeps DEF KeptOf
  <2> QED
    BY <1>2, <2>1 DEF Hit
<1> HIDE DEF addr, ip
<1>4. h = [[hits EXCEPT ![addr] = Hit(addr)] EXCEPT ![ip] = IF Limited(addr) THEN @ ELSE Hit(ip)]
  BY DEF HitsAfter, addr, ip
<1>5. /\ h[addr] = Hit(addr) /\ h[ip] = IF Limited(addr) THEN hits[ip] ELSE Hit(ip)
      /\ \A l \in Keys : l # addr /\ l # ip => h[l] = hits[l]
      /\ h = [l \in Keys |-> h[l]]
  BY <1>1, <1>2, <1>4
<1>6. h[k] \in {hits[k], Recent(k), Append(Recent(k), now)}
  BY <1>1, <1>3, <1>5
<1>7. h \in [Keys -> Seq(Nat)]
  <2>1. \A l \in Keys : h[l] \in Seq(Nat)
    BY <1>1, <1>2, <1>3, <1>5
  <2> QED
    BY <1>5, <2>1
<1>8. ~Limited(addr) /\ ~Limited(ip) /\ (k = addr \/ k = ip) => h[k] = Append(Recent(k), now)
  BY <1>1, <1>3, <1>5
<1> QED
  BY <1>6, <1>7, <1>8 DEF addr, ip

\* b is acc and then a.
Joined(b, acc, a) == b = Append(acc, a)

\* Letting one more in: the sets of those let in grow by one at most.
LEMMA OneMoreIn ==
  ASSUME NEW acc \in Seq(Entrant), NEW a \in Entrant, NEW b, Joined(b, acc, a),
         NEW k, NEW t \in Nat
  PROVE  /\ Cardinality(Since(acc, k, t)) \in Nat
         /\ Of(k, a) /\ a.at >= t =>
              Cardinality(Since(b, k, t)) = Cardinality(Since(acc, k, t)) + 1
         /\ ~(Of(k, a) /\ a.at >= t) => Since(b, k, t) = Since(acc, k, t)
         /\ Within(b, k, t) = Within(acc, k, t) \/ (Of(k, a) /\ a.at \in t .. t + Window - 1)
         /\ Within(b, k, t) \subseteq Since(b, k, t) /\ IsFiniteSet(Since(b, k, t))
<1>1. PICK m \in Nat : m = Len(acc) /\ DOMAIN acc = 1 .. m
  OBVIOUS
<1>2. /\ b \in Seq(Entrant) /\ DOMAIN b = 1 .. (m + 1) /\ b[m + 1] = a
      /\ \A n \in 1 .. m : b[n] = acc[n]
  BY <1>1 DEF Joined
<1>3. PICK S \in SUBSET (1 .. m) : S = Since(acc, k, t)
  BY <1>1 DEF Since
<1>4. Since(b, k, t) = IF Of(k, a) /\ a.at >= t THEN S \cup {m + 1} ELSE S
  BY <1>1, <1>2, <1>3 DEF Since
<1>5. IsFiniteSet(S) /\ Cardinality(S) \in Nat
  BY PartFinite
<1>6. m + 1 \notin S
  BY <1>1
<1>7. IsFiniteSet(S \cup {m + 1}) /\ Cardinality(S \cup {m + 1}) = Cardinality(S) + 1
  BY <1>5, <1>6, FS_AddElement
<1>8. Within(b, k, t) = Within(acc, k, t) \/ (Of(k, a) /\ a.at \in t .. t + Window - 1)
  BY <1>1, <1>2 DEF Within
<1>9. Within(b, k, t) \subseteq Since(b, k, t)
  <2>1. Window \in Nat /\ \A n \in DOMAIN b : b[n] \in Entrant
    BY <1>2, DeskAssumption
  <2>2. \A n \in DOMAIN b : b[n].at \in Nat
    BY <2>1 DEF Entrant
  <2> QED
    BY <2>1, <2>2 DEF Within, Since
<1> QED
  BY <1>3, <1>4, <1>5, <1>7, <1>8, <1>9

LEMMA InitRate == Init => RateInv
<1> SUFFICES ASSUME Init PROVE RateInv
  OBVIOUS
<1>1. now = 0 /\ hits = [k \in Keys |-> <<>>] /\ accepted = <<>> /\ Limit \in Nat
  BY DeskAssumption DEF Init
<1>2. <<>> \in Seq(Nat) /\ <<>> \in Seq(Entrant) /\ DOMAIN <<>> = {} /\ Len(<<>>) = 0
  OBVIOUS
<1>3. hits \in [Keys -> Seq(Nat)]
  BY <1>1, <1>2, Zenon
<1>4. \A k, t : Since(<<>>, k, t) = {} /\ Within(<<>>, k, t) = {}
  BY <1>2 DEF Since, Within
<1>5. \A t : Count(<<>>, 0, t) = 0
  BY CountNone
<1>6. Cardinality({}) = 0
  BY FS_EmptySet
<1>7. ASSUME NEW k \in Keys
      PROVE  /\ hits[k] = <<>>
             /\ \A t : Cardinality(Since(<<>>, k, t)) = 0 /\ Count(hits[k], Len(hits[k]), t) = 0
             /\ \A t : Cardinality(Within(<<>>, k, t)) = 0
  <2>1. hits[k] = <<>>
    BY <1>1
  <2>2. \A t : Cardinality(Since(<<>>, k, t)) = 0 /\ Cardinality(Within(<<>>, k, t)) = 0
    BY <1>4, <1>6
  <2> QED
    BY <1>2, <1>5, <2>1, <2>2
<1>8. /\ \A k \in Keys : \A n \in DOMAIN hits[k] : hits[k][n] <= now
      /\ \A n \in DOMAIN accepted : accepted[n].at <= now
  BY <1>1, <1>2, <1>7
<1>9. \A k \in Keys, t \in Nat :
        /\ Cardinality(Since(accepted, k, t)) <= Count(hits[k], Len(hits[k]), t)
        /\ Cardinality(Within(accepted, k, t)) <= Limit
  BY <1>1, <1>7
<1> QED
  BY <1>1, <1>2, <1>3, <1>8, <1>9 DEF RateInv, Rated

\* The count of a key's hits is never behind: what a request adds to those let in
\* it adds to the hits, and only below the limit.
LEMMA RateStep ==
  ASSUME RateInv, NEW w \in Wallets, NEW i \in Ips, NEW h, NEW acc,
         h = HitsAfter(<<"addr", w>>, <<"ip", i>>),
         \/ acc = accepted
         \/ /\ ~Limited(<<"addr", w>>) /\ ~Limited(<<"ip", i>>)
            /\ acc = Append(accepted, [wallet |-> w, ip |-> i, at |-> now])
  PROVE  Rated(h, acc, now)
<1> DEFINE a == [wallet |-> w, ip |-> i, at |-> now]
<1>1. now \in Nat /\ Window \in Nat /\ Limit \in Nat /\ a \in Entrant /\ a.at = now
  BY DeskAssumption DEF RateInv, Rated, Entrant
<1>2. accepted \in Seq(Entrant) /\ \A n \in DOMAIN accepted : accepted[n].at <= now
  BY DEF RateInv, Rated
<1>3. acc \in Seq(Entrant) /\ \A n \in DOMAIN acc : acc[n].at <= now
  <2>1. CASE acc = accepted
    BY <1>2, <2>1
  <2>2. CASE acc = Append(accepted, a)
    <3>1. \A n \in DOMAIN acc : acc[n] = a \/ (n \in DOMAIN accepted /\ acc[n] = accepted[n])
      BY <1>1, <1>2, <2>2
    <3>2. acc \in Seq(Entrant)
      BY <1>1, <1>2, <2>2
    <3> HIDE DEF a
    <3> QED
      BY <1>1, <1>2, <3>1, <3>2
  <2> QED
    BY <2>1, <2>2
<1>4. \A k : Of(k, a) <=> (k = <<"addr", w>> \/ k = <<"ip", i>>)
  BY DEF Of
<1> HIDE DEF a
<1>5. h \in [Keys -> Seq(Nat)]
  <2>1. <<"addr", w>> \in Keys
    BY DEF Keys
  <2> QED
    BY <2>1, HitsOfKey
<1>6. ASSUME NEW k \in Keys
      PROVE  /\ \A n \in DOMAIN h[k] : h[k][n] <= now
             /\ \A t \in Nat : t + Window > now =>
                  Cardinality(Since(acc, k, t)) <= Count(h[k], Len(h[k]), t)
             /\ \A f \in Nat : Cardinality(Within(acc, k, f)) <= Limit
  <2>1. PICK s \in Seq(Nat) : s = hits[k]
    BY DEF RateInv, Rated
  <2>2. \A n \in DOMAIN s : s[n] <= now
    BY <2>1 DEF RateInv, Rated
  <2>3. PICK q \in Seq(Nat) : q = Recent(k) /\ KeptOf(q, s, Len(s))
    BY <1>1, <2>1, <2>2, RecentKeeps DEF KeptOf
  <2>4. \A n \in DOMAIN q : q[n] <= now
    BY <2>3 DEF KeptOf
  <2>5. \A t \in Nat : t + Window > now => Count(q, Len(q), t) = Count(s, Len(s), t)
    BY <2>3 DEF KeptOf
  <2>6. /\ h[k] \in {s, q, Append(q, now)}
        /\ acc # accepted /\ Of(k, a) => h[k] = Append(q, now) /\ ~Limited(k)
    BY <1>4, <2>1, <2>3, HitsOfKey
  <2>7. \A t \in Nat : t + Window > now =>
          Cardinality(Since(accepted, k, t)) <= Count(s, Len(s), t)
    BY <2>1 DEF RateInv, Rated
  <2>8. \A f \in Nat : Cardinality(Within(accepted, k, f)) <= Limit
    BY DEF RateInv, Rated
  <2>9. ASSUME NEW t \in Nat
        PROVE  /\ Cardinality(Since(accepted, k, t)) \in Nat
               /\ IF acc # accepted /\ Of(k, a) /\ now >= t
                  THEN Cardinality(Since(acc, k, t)) = Cardinality(Since(accepted, k, t)) + 1
                  ELSE Cardinality(Since(acc, k, t)) = Cardinality(Since(accepted, k, t))
               /\ \/ Within(acc, k, t) = Within(accepted, k, t)
                  \/ acc # accepted /\ Of(k, a) /\ now \in t .. t + Window - 1
               /\ acc # accepted =>
                    Within(acc, k, t) \subseteq Since(acc, k, t) /\ IsFiniteSet(Since(acc, k, t))
    <3>1. PICK e \in Seq(Entrant), x \in Entrant : e = accepted /\ x = a /\ x.at = now
      BY <1>1, <1>2
    <3>6. PICK b : Joined(b, e, x)
      BY DEF Joined
    <3>2. /\ Cardinality(Since(e, k, t)) \in Nat
          /\ Of(k, x) /\ x.at >= t =>
               Cardinality(Since(b, k, t)) = Cardinality(Since(e, k, t)) + 1
          /\ ~(Of(k, x) /\ x.at >= t) => Since(b, k, t) = Since(e, k, t)
          /\ Within(b, k, t) = Within(e, k, t)
               \/ (Of(k, x) /\ x.at \in t .. t + Window - 1)
          /\ Within(b, k, t) \subseteq Since(b, k, t) /\ IsFiniteSet(Since(b, k, t))
      BY <3>6, OneMoreIn, Zenon
    <3>3. acc = accepted \/ acc = b
      BY <3>1, <3>6 DEF a, Joined
    <3>4. PICK c \in Nat : c = Cardinality(Since(accepted, k, t))
      BY <3>1, <3>2
    <3>5. IF Of(k, a) /\ now >= t THEN Cardinality(Since(b, k, t)) = c + 1
                                 ELSE Cardinality(Since(b, k, t)) = c
      BY <3>1, <3>2, <3>4
    <3> QED
      BY <1>1, <3>1, <3>2, <3>3, <3>4, <3>5
  <2>10. \A n \in DOMAIN h[k] : h[k][n] <= now
    <3>1. \A n \in DOMAIN Append(q, now) : Append(q, now)[n] <= now
      BY <1>1, <2>4
    <3> QED
      BY <2>2, <2>4, <2>6, <3>1
  <2>11. ASSUME NEW t \in Nat, t + Window > now
         PROVE  Cardinality(Since(acc, k, t)) <= Count(h[k], Len(h[k]), t)
    <3>1. PICK p : p = Append(q, now)
      OBVIOUS
    <3>2. PICK c \in Nat, d \in Nat :
            /\ c = Cardinality(Since(accepted, k, t)) /\ d = Count(q, Len(q), t)
            /\ d = Count(s, Len(s), t) /\ c <= d
      <4>1. Len(q) \in Nat
        OBVIOUS
      <4>2. Count(q, Len(q), t) \in Nat
        BY <4>1, CountNat
      <4>3. Count(s, Len(s), t) = Count(q, Len(q), t)
        BY <2>5, <2>11
      <4>4. Cardinality(Since(accepted, k, t)) <= Count(s, Len(s), t)
        BY <2>7, <2>11
      <4>5. Cardinality(Since(accepted, k, t)) \in Nat
        BY <2>9
      <4>6. PICK c \in Nat, d \in Nat : c = Cardinality(Since(accepted, k, t)) /\ d = Count(q, Len(q), t)
        BY <4>2, <4>5, Zenon
      <4>7. c <= d
        BY <4>3, <4>4, <4>6
      <4> QED
        BY <4>3, <4>6, <4>7, Zenon
    <3>3. /\ now >= t => Count(p, Len(p), t) = Count(q, Len(q), t) + 1
          /\ ~(now >= t) => Count(p, Len(p), t) = Count(q, Len(q), t)
      <4>1. Longer(p, q, now)
        BY <1>1, <3>1, AppendIsLonger
      <4>2. now \in Nat
        BY <1>1
      <4> QED
        BY <4>1, <4>2, CountLonger, Zenon
    <3>4. IF now >= t THEN Count(p, Len(p), t) = d + 1 ELSE Count(p, Len(p), t) = d
      BY <3>2, <3>3
    <3>5. h[k] \in {s, q, p}
      BY <2>6, <3>1
    <3>6. CASE acc # accepted /\ Of(k, a)
      <4>1. h[k] = p
        BY <2>6, <3>1, <3>6
      <4>2. IF now >= t THEN Cardinality(Since(acc, k, t)) = c + 1
                        ELSE Cardinality(Since(acc, k, t)) = c
        BY <2>9, <3>2, <3>6
      <4> QED
        BY <3>2, <3>4, <4>1, <4>2
    <3>7. CASE ~(acc # accepted /\ Of(k, a))
      <4>1. Cardinality(Since(acc, k, t)) = c
        BY <2>9, <3>2, <3>7
      <4>2. Count(h[k], Len(h[k]), t) = d \/ Count(h[k], Len(h[k]), t) = d + 1
        BY <3>2, <3>4, <3>5
      <4> QED
        BY <3>2, <4>1, <4>2
    <3> QED
      BY <3>6, <3>7
  <2>12. ASSUME NEW f \in Nat
         PROVE  Cardinality(Within(acc, k, f)) <= Limit
    <3>1. CASE acc = accepted
      BY <2>8, <3>1
    <3>2. CASE acc # accepted /\ Of(k, a) /\ now \in f .. f + Window - 1
      <4>1. f + Window > now /\ f <= now
        BY <1>1, <3>2
      <4>2. Len(q) \in Nat /\ Count(q, Len(q), f) \in Nat /\ Count(q, Len(q), f) <= Len(q)
        BY CountNat
      <4>3. Len(q) < Limit
        BY <1>1, <2>3, <2>6, <3>2, <4>2 DEF Limited
      <4>4. Cardinality(Since(accepted, k, f)) <= Count(q, Len(q), f)
        BY <2>5, <2>7, <4>1
      <4>5. Cardinality(Since(acc, k, f)) <= Limit
        <5>1. PICK c \in Nat : c = Cardinality(Since(accepted, k, f))
          BY <2>9
        <5>2. Cardinality(Since(acc, k, f)) = c + 1
          BY <2>9, <3>2, <4>1, <5>1
        <5> QED
          BY <1>1, <4>2, <4>3, <4>4, <5>1, <5>2
      <4>6. PICK S : S = Since(acc, k, f)
        OBVIOUS
      <4>7. IsFiniteSet(S) /\ Within(acc, k, f) \in SUBSET S
        BY <2>9, <3>2, <4>6
      <4>8. PICK T \in SUBSET S : T = Within(acc, k, f)
        BY <4>7
      <4>9. Cardinality(T) <= Cardinality(S) /\ Cardinality(T) \in Nat /\ Cardinality(S) \in Nat
        BY <4>7, FS_Subset, FS_CardinalityType
      <4> QED
        BY <1>1, <4>5, <4>6, <4>8, <4>9
    <3>3. CASE Within(acc, k, f) = Within(accepted, k, f)
      BY <2>8, <3>3
    <3> QED
      BY <2>9, <3>1, <3>2, <3>3
  <2> QED
    BY <2>10, <2>11, <2>12
<1> QED
  BY <1>1, <1>3, <1>5, <1>6 DEF Rated

LEMMA NextRate == IInv /\ RateInv /\ [Next]_vars => RateInv'
<1> SUFFICES ASSUME IInv, RateInv, [Next]_vars PROVE RateInv'
  OBVIOUS
<1>1. CASE UNCHANGED <<hits, accepted, now>>
  BY <1>1 DEF RateInv
<1>2. ASSUME NEW r \in Requests, Accept(r)
      PROVE  RateInv'
  <2>1. PICK w \in Wallets, i \in Ips : w = req[r].wallet /\ i = req[r].ip
    BY DEF IInv, Typed, Handler
  <2>2. CASE UNCHANGED <<hits, accepted>>
    BY <1>1, <1>2, <2>2 DEF Accept
  <2>3. CASE hits' = HitsAfter(<<"addr", w>>, <<"ip", i>>)
    <3>1. \/ accepted' = accepted
          \/ /\ ~Limited(<<"addr", w>>) /\ ~Limited(<<"ip", i>>)
             /\ accepted' = Append(accepted, [wallet |-> w, ip |-> i, at |-> now])
      BY <1>2, <2>1 DEF Accept, api
    <3>2. now' = now
      BY <1>2 DEF Accept
    <3>3. PICK h, acc : h = hits' /\ acc = accepted'
      OBVIOUS
    <3>4. Rated(h, acc, now)
      BY <2>3, <3>1, <3>3, RateStep
    <3> QED
      BY <3>2, <3>3, <3>4 DEF RateInv
  <2> QED
    BY <1>2, <2>1, <2>2, <2>3 DEF Accept, api
<1>3. CASE Tick
  <2>1. now \in Nat /\ now' = now + 1 /\ UNCHANGED <<hits, accepted>>
    BY <1>3 DEF Tick, api, RateInv, Rated
  <2>2. PICK m \in Nat : m = now'
    BY <2>1
  <2>3. m >= now /\ \A x \in Nat : (x <= now => x <= m) /\ (x + Window > m => x + Window > now)
    BY <2>1, <2>2, DeskAssumption
  <2>4. \A k \in Keys : \A n \in DOMAIN hits[k] : hits[k][n] \in Nat
    BY DEF RateInv, Rated
  <2>5. \A n \in DOMAIN accepted : accepted[n].at \in Nat
    <3>1. \A n \in DOMAIN accepted : accepted[n] \in Entrant
      BY DEF RateInv, Rated
    <3> QED
      BY <3>1 DEF Entrant
  <2>6. Rated(hits, accepted, m)
    BY <2>3, <2>4, <2>5 DEF RateInv, Rated
  <2> QED
    BY <2>1, <2>2, <2>6 DEF RateInv
<1>4. ASSUME NEW r \in Requests, NEW w \in Wallets, NEW i \in Ips, NEW v \in Verbs,
             Arrive(r, w, i, v)
      PROVE  UNCHANGED <<hits, accepted, now>>
  BY <1>4 DEF Arrive, api
<1>5. ASSUME NEW r \in Requests, Step(r) \/ Throw(r), ~Accept(r)
      PROVE  UNCHANGED <<hits, accepted, now>>
  BY <1>5 DEF Step, Throw, Look, AskSsi, Simulate, ReadNonce, Submit, api
<1>6. CASE Execute
  BY <1>1, <1>6 DEF Execute
<1>7. ASSUME NEW b \in Bonds, NEW w \in Wallets, Officer(b, w)
      PROVE  UNCHANGED <<hits, accepted, now>>
  BY <1>7 DEF Officer, api
<1>8. CASE UNCHANGED vars
  BY <1>1, <1>8 DEF vars
<1> QED
  BY <1>1, <1>2, <1>3, <1>4, <1>5, <1>6, <1>7, <1>8 DEF Next

\* The desk keeps its limits, for any rate and window and however requests come:
\* one request of a wallet at a time, and in no stretch of time as long as the
\* window more than Limit let in of a wallet or from an IP.
THEOREM RateKept == Spec => []LimitsHold
<1>1. IInv /\ RateInv => LimitsHold
  <2> SUFFICES ASSUME IInv, RateInv PROVE LimitsHold
    OBVIOUS
  <2>1. TypeOK
    <3>1. \A k \in Keys : \A n \in DOMAIN hits[k] : hits[k][n] \in 0 .. now
      <4>1. \A k \in Keys : \A n \in DOMAIN hits[k] : hits[k][n] \in Nat
        BY DEF RateInv, Rated
      <4> QED
        BY <4>1 DEF RateInv, Rated
    <3> QED
      BY <3>1 DEF TypeOK, IInv, Typed, RateInv, Rated
  <2>2. RateBound
    <3> SUFFICES ASSUME NEW from \in 0 .. now,
                        NEW within,
                        within = {n \in DOMAIN accepted :
                                    accepted[n].at \in from .. from + Window - 1}
                 PROVE  /\ \A w \in Wallets :
                             Cardinality({n \in within : accepted[n].wallet = w}) <= Limit
                        /\ \A i \in Ips :
                             Cardinality({n \in within : accepted[n].ip = i}) <= Limit
      BY DEF RateBound
    <3>1. from \in Nat /\ \A k \in Keys : Cardinality(Within(accepted, k, from)) <= Limit
      BY DEF RateInv, Rated
    <3>2. ASSUME NEW w \in Wallets
          PROVE  /\ <<"addr", w>> \in Keys
                 /\ {n \in within : accepted[n].wallet = w} = Within(accepted, <<"addr", w>>, from)
      BY DEF Keys, Within, Of
    <3>3. ASSUME NEW i \in Ips
          PROVE  /\ <<"ip", i>> \in Keys
                 /\ {n \in within : accepted[n].ip = i} = Within(accepted, <<"ip", i>>, from)
      BY DEF Keys, Within, Of
    <3> QED
      BY <3>1, <3>2, <3>3
  <2> QED
    BY <2>1, <2>2 DEF LimitsHold, IInv
<1> QED
  BY <1>1, InitRate, NextRate, Invariance, PTL DEF Spec

-----------------------------------------------------------------------------
(* The cache of promises and the page.                                     *)

CallRec == [pc : Pc, body : Nat \cup {None}, from : Nat]
Entry   == [call : Promises, age : 0 .. BookTtl]

\* Nothing was begun, and nothing confirmed, after now.
FromThePast == page.confirmed <= book /\ \A c \in Promises : call[c].from <= book

\* While the timer runs, an entry begun before the confirmation is as old as the
\* timer has run, or too old.
OldByThen ==
  page.timer # None /\ cache # None /\ call[cache.call].from < page.confirmed =>
    cache.age >= BookTtl \/ cache.age + page.timer >= SecondLook

ReadInv == ReadTypeOK /\ FailureIsForgotten /\ FromThePast /\ OldByThen /\ SecondLookIsNew

-----------------------------------------------------------------------------

LEMMA Times == BookTtl \in Nat /\ BookTtl <= SecondLook /\ SecondLook \in Nat
BY ApiAssumption, SecondLookAssumption DEF BookTtl

\* Sweeping takes only settled promises that nobody holds.
LEMMA SweptKeeps ==
  ASSUME NEW calls \in [Promises -> CallRec], NEW entry \in {None} \cup Entry, NEW awaited
  PROVE  /\ Swept(calls, entry, awaited) \in [Promises -> CallRec]
         /\ \A d \in Promises :
              LET s == Swept(calls, entry, awaited)[d] IN
              /\ s = calls[d] \/ s = NoCall
              /\ awaited = d => s = calls[d]
              /\ entry # None /\ entry.call = d => s = calls[d]
              /\ s.pc = "failed" => s = calls[d] /\ (awaited = d \/ (entry # None /\ entry.call = d))
<1>1. NoCall \in CallRec /\ NoCall.pc = "free"
  BY DEF NoCall, CallRec, Pc
<1> QED
  BY <1>1 DEF Swept

LEMMA InitReadInv == ReadInit => ReadInv
<1> SUFFICES ASSUME ReadInit PROVE ReadInv
  OBVIOUS
<1>1. call \in [Promises -> CallRec] /\ \A c \in Promises : call[c].pc = "free" /\ call[c].from = 0
  BY DEF ReadInit, NoCall, CallRec, Pc
<1>2. page \in Page
  BY Times DEF ReadInit, Page
<1>3. ReadTypeOK
  BY <1>1, <1>2 DEF ReadInit, ReadTypeOK, CallRec
<1> QED
  BY <1>1, <1>3 DEF ReadInit, ReadInv, FailureIsForgotten, FromThePast, OldByThen, SecondLookIsNew

\* What a request leaves, whoever makes it: w is awaited afterwards.
LEMMA RequestKeeps ==
  ASSUME ReadInv, NEW c \in Promises, NEW w \in Promises \cup {None}, w = c \/ w = page.awaits,
         Request(c, w)
  PROVE  /\ cache' \in Entry /\ cache'.call = c
         /\ call' \in [Promises -> CallRec]
         /\ \A d \in Promises :
              /\ call'[d].pc \in {"read", "ok"} => call'[d].body \in call'[d].from .. book
              /\ call'[d].from <= book
              /\ call'[d].pc = "failed" => w # d /\ c # d
         /\ call'[c].pc # "free"
         /\ w # None => call'[w].pc # "free"
         /\ w # None /\ w # c => call'[w] = call[w]
         /\ \/ Fresh /\ cache' = cache /\ call'[c] = call[c]
            \/ cache'.age = 0 /\ call'[c].from = book
<1> DEFINE new == [pc |-> "reading", body |-> None, from |-> book]
           made == [call EXCEPT ![c] = new]
<1>1. call \in [Promises -> CallRec] /\ book \in Nat /\ cache \in {None} \cup Entry
  BY DEF ReadInv, ReadTypeOK, CallRec, Entry
<1>2. new \in CallRec /\ made \in [Promises -> CallRec]
  BY <1>1 DEF CallRec, Pc
<1>3. \A d \in Promises : call[d].pc = "failed" => page.awaits # d /\ (cache = None \/ cache.call # d)
  BY DEF ReadInv, FailureIsForgotten
<1>4. page.awaits # None => call[page.awaits].pc # "free"
  BY DEF ReadInv, FailureIsForgotten
<1>5. \A d \in Promises : call[d].from <= book
                       /\ (call[d].pc \in {"read", "ok"} => call[d].body \in call[d].from .. book)
  BY DEF ReadInv, FromThePast, ReadTypeOK
<1>6. NoCall.pc = "free" /\ NoCall.from = 0
  BY DEF NoCall
<1>7. CASE Fresh /\ c = cache.call /\ cache' = cache /\ call' = Swept(call, cache, w)
  <2>1. cache # None /\ cache \in Entry
    BY <1>1, <1>7 DEF Fresh
  <2>2. call[c].pc # "free" /\ call[c].pc # "failed"
    BY <1>3, <1>7, <2>1 DEF ReadInv, FailureIsForgotten
  <2>3. /\ call' \in [Promises -> CallRec]
        /\ \A d \in Promises :
             /\ call'[d] = call[d] \/ call'[d] = NoCall
             /\ w = d => call'[d] = call[d]
             /\ c = d => call'[d] = call[d]
             /\ call'[d].pc = "failed" => call'[d] = call[d] /\ (w = d \/ c = d)
    BY <1>1, <1>7, <2>1, SweptKeeps
  <2>4. \A d \in Promises : call'[d].pc = "failed" => w # d /\ c # d
    BY <1>3, <2>2, <2>3
  <2>5. w # None => call'[w].pc # "free"
    BY <1>4, <2>2, <2>3
  <2> QED
    BY <1>1, <1>5, <1>6, <1>7, <2>1, <2>2, <2>3, <2>4, <2>5
<1>8. CASE ~Fresh /\ call[c].pc = "free" /\ cache' = [call |-> c, age |-> 0]
           /\ call' = Swept(made, cache', w)
  <2>1. cache' \in {None} \cup Entry /\ cache' \in Entry /\ cache' # None /\ cache'.call = c
    <3>1. cache' \in Entry
      BY <1>8, Times DEF Entry
    <3>2. cache' # None
      BY <1>8, ApiAssumption
    <3> QED
      BY <1>8, <3>1, <3>2
  <2> HIDE DEF new, made
  <2>2. /\ call' \in [Promises -> CallRec]
        /\ \A d \in Promises :
             /\ call'[d] = made[d] \/ call'[d] = NoCall
             /\ w = d => call'[d] = made[d]
             /\ c = d => call'[d] = made[d]
             /\ call'[d].pc = "failed" => call'[d] = made[d] /\ (w = d \/ c = d)
    BY <1>2, <1>8, <2>1, SweptKeeps
  <2>3. made[c] = new /\ \A d \in Promises : d # c => made[d] = call[d]
    BY <1>1 DEF made
  <2>10. new.pc = "reading" /\ new.from = book
    BY DEF new
  <2>4. \A d \in Promises : call'[d].pc = "failed" => w # d /\ c # d
    BY <1>3, <1>8, <2>2, <2>3, <2>10
  <2>5. w # None => call'[w].pc # "free"
    BY <1>4, <2>2, <2>3, <2>10
  <2>6. \A d \in Promises : call'[d].from <= book
                         /\ (call'[d].pc \in {"read", "ok"} => call'[d].body \in call'[d].from .. book)
    BY <1>1, <1>5, <1>6, <2>2, <2>3, <2>10
  <2>7. call'[c] = new /\ cache'.call = c /\ cache'.age = 0
    BY <1>8, <2>2, <2>3
  <2>8. w # None /\ w # c => call'[w] = call[w]
    BY <2>2, <2>3
  <2>9. /\ call'[c].pc # "free" /\ call'[c].from = book
        /\ call' \in [Promises -> CallRec]
    BY <2>2, <2>7, <2>10
  <2> QED
    BY <2>1, <2>4, <2>5, <2>6, <2>7, <2>8, <2>9
<1> QED
  BY <1>7, <1>8 DEF Request

\* What Request leaves keeps the parts of the invariant that do not look at the
\* page, and OldByThen for every timer and confirmation it held for before.
LEMMA RequestReadInv ==
  ASSUME ReadInv, NEW c \in Promises, Request(c, page'.awaits), UNCHANGED book,
         page' \in Page, page'.confirmed <= book,
         page'.awaits = c \/ page'.awaits = page.awaits,
         \/ page'.timer = None
         \/ page'.timer = page.timer /\ page'.confirmed = page.confirmed
         \/ page'.timer = SecondLook,
         SecondLookIsNew'
  PROVE  ReadInv'
<1>1. page'.awaits \in Promises \cup {None}
  BY DEF Page
<1>2. /\ cache' \in Entry /\ cache'.call = c
      /\ call' \in [Promises -> CallRec]
      /\ \A d \in Promises :
           /\ call'[d].pc \in {"read", "ok"} => call'[d].body \in call'[d].from .. book
           /\ call'[d].from <= book
           /\ call'[d].pc = "failed" => page'.awaits # d /\ c # d
      /\ call'[c].pc # "free"
      /\ page'.awaits # None => call'[page'.awaits].pc # "free"
      /\ \/ Fresh /\ cache' = cache /\ call'[c] = call[c]
         \/ cache'.age = 0 /\ call'[c].from = book
  BY <1>1, RequestKeeps
<1>3. ReadTypeOK'
  BY <1>2 DEF ReadInv, ReadTypeOK, CallRec, Entry
<1>4. FailureIsForgotten'
  BY <1>2 DEF FailureIsForgotten
<1>5. FromThePast'
  BY <1>2 DEF FromThePast
<1>6. OldByThen'
  <2> SUFFICES ASSUME page'.timer # None, call'[c].from < page'.confirmed
               PROVE  cache'.age >= BookTtl \/ cache'.age + page'.timer >= SecondLook
    BY <1>2 DEF OldByThen
  <2>1. cache'.age \in 0 .. BookTtl /\ book \in Nat /\ call'[c].from \in Nat /\ page'.confirmed \in Nat
    BY <1>2 DEF Entry, CallRec, Page, ReadInv, ReadTypeOK
  <2>2. Fresh /\ cache' = cache /\ call'[c] = call[c]
    BY <1>2, <2>1
  <2>3. CASE page'.timer = page.timer /\ page'.confirmed = page.confirmed
    BY <1>2, <2>2, <2>3 DEF ReadInv, OldByThen, Fresh
  <2>4. CASE page'.timer = SecondLook
    BY <2>1, <2>4, Times
  <2> QED
    BY <2>3, <2>4
<1> QED
  BY <1>3, <1>4, <1>5, <1>6 DEF ReadInv

\* An entry still fresh when the timer has run out was begun after the confirmation.
LEMMA FreshIsNew ==
  ASSUME ReadInv, page.timer = 0, Fresh
  PROVE  call[cache.call].from >= page.confirmed
<1>1. /\ page.confirmed \in Nat /\ cache # None /\ cache \in Entry
      /\ call[cache.call].from \in Nat /\ cache.age \in Nat /\ cache.age < BookTtl
  BY Times DEF ReadInv, ReadTypeOK, Page, Fresh, Entry
<1>2. page.timer # None
  BY ApiAssumption
<1> QED
  BY <1>1, <1>2, Times DEF ReadInv, OldByThen

LEMMA PollReadInv ==
  ASSUME ReadInv, Poll
  PROVE  ReadInv'
<1>1. PICK c \in Promises : Request(c, c) /\ page' = [page EXCEPT !.awaits = c, !.second = FALSE]
  BY DEF Poll
<1>2. page' \in Page /\ page'.awaits = c /\ ~page'.second /\ page'.timer = page.timer
      /\ page'.confirmed = page.confirmed /\ page'.confirmed <= book
  BY <1>1 DEF ReadInv, ReadTypeOK, Page, FromThePast
<1>3. SecondLookIsNew'
  BY <1>2 DEF SecondLookIsNew
<1> QED
  BY <1>1, <1>2, <1>3, RequestReadInv DEF Poll

LEMMA ConfirmedReadInv ==
  ASSUME ReadInv, Confirmed
  PROVE  ReadInv'
<1>1. PICK c \in Promises :
        /\ Request(c, c)
        /\ page' = [page EXCEPT !.awaits = c, !.timer = SecondLook, !.confirmed = book,
                                !.second = FALSE]
  BY DEF Confirmed
<1>2. page' \in Page /\ page'.awaits = c /\ ~page'.second /\ page'.timer = SecondLook
      /\ page'.confirmed <= book
  <2>1. page \in Page /\ book \in Nat /\ SecondLook \in 0 .. SecondLook
    BY Times DEF ReadInv, ReadTypeOK
  <2>2. page' = [shows |-> page.shows, awaits |-> c, timer |-> SecondLook,
                 confirmed |-> book, second |-> FALSE]
    BY <1>1, <2>1 DEF Page
  <2>3. page.shows \in Nat \cup {None} /\ c \in Promises \cup {None}
        /\ SecondLook \in 0 .. SecondLook \cup {None}
    BY <2>1 DEF Page
  <2>4. page' \in Page
    BY <2>1, <2>2, <2>3 DEF Page
  <2> QED
    BY <2>1, <2>2, <2>4
<1>3. SecondLookIsNew'
  BY <1>2 DEF SecondLookIsNew
<1> QED
  BY <1>1, <1>2, <1>3, RequestReadInv DEF Confirmed

\* The second look shares an entry only if FreshIsNew lets it.
LEMMA LookAgainReadInv ==
  ASSUME ReadInv, LookAgain
  PROVE  ReadInv'
<1>1. PICK c \in Promises :
        /\ Request(c, c)
        /\ page' = [page EXCEPT !.awaits = c, !.timer = None, !.second = TRUE]
  BY DEF LookAgain
<1>2. page' \in Page /\ page'.awaits = c /\ page'.timer = None
      /\ page'.confirmed = page.confirmed /\ page'.confirmed <= book
  BY <1>1 DEF ReadInv, ReadTypeOK, Page, FromThePast
<1>3. cache'.call = c
      /\ (\/ Fresh /\ cache' = cache /\ call'[c] = call[c]
          \/ call'[c].from = book)
  BY <1>1, RequestKeeps
<1>4. call'[c].from >= page.confirmed
  <2>1. page.confirmed \in Nat /\ book \in Nat /\ page.confirmed <= book
    BY DEF ReadInv, ReadTypeOK, Page, FromThePast
  <2> QED
    BY <1>3, <2>1, FreshIsNew DEF LookAgain
<1>5. SecondLookIsNew'
  BY <1>2, <1>4 DEF SecondLookIsNew
<1> QED
  BY <1>1, <1>2, <1>5, RequestReadInv DEF LookAgain

LEMMA AgentReadInv ==
  ASSUME ReadInv, Agent
  PROVE  ReadInv'
<1>1. PICK c \in Promises : Request(c, page.awaits)
  BY DEF Agent
<1>2. page' = page /\ book' = book
  BY DEF Agent
<1>3. page' \in Page /\ page'.confirmed <= book
  BY <1>2 DEF ReadInv, ReadTypeOK, FromThePast
<1>4. SecondLookIsNew'
  <2>1. /\ cache' \in Entry /\ cache'.call = c
        /\ page.awaits # None /\ page.awaits # c => call'[page.awaits] = call[page.awaits]
        /\ (Fresh /\ call'[c] = call[c]) \/ call'[c].from = book
    BY <1>1, <1>3, <1>2, RequestKeeps DEF Page
  <2>2. page.confirmed \in Nat /\ book \in Nat /\ page.confirmed <= book
    BY DEF ReadInv, ReadTypeOK, Page, FromThePast
  <2> QED
    BY <1>2, <2>1, <2>2 DEF ReadInv, SecondLookIsNew
<1> QED
  BY <1>1, <1>2, <1>3, <1>4, RequestReadInv

-----------------------------------------------------------------------------

LEMMA ChangeReadInv ==
  ASSUME ReadInv, Change
  PROVE  ReadInv'
<1>1. book \in Nat /\ book' = book + 1 /\ UNCHANGED <<cache, call, page>>
  BY DEF ReadInv, ReadTypeOK, Change
<1>2. ReadTypeOK'
  BY <1>1 DEF ReadInv, ReadTypeOK
<1>3. FromThePast'
  <2>1. page.confirmed \in Nat /\ \A c \in Promises : call[c].from \in Nat
    BY DEF ReadInv, ReadTypeOK, Page
  <2> QED
    BY <1>1, <2>1 DEF ReadInv, FromThePast
<1> QED
  BY <1>1, <1>2, <1>3 DEF ReadInv, FailureIsForgotten, OldByThen, SecondLookIsNew

\* A promise moves on; whatever is held keeps its age and its beginning.
LEMMA SettleReadInv ==
  ASSUME ReadInv, NEW c \in Promises, call[c].pc \in {"reading", "read"},
         NEW new \in CallRec, new.from = call[c].from, new.pc \in {"read", "ok", "failed"},
         new.pc \in {"read", "ok"} => new.body \in new.from .. book,
         page' = page \/ page' = [page EXCEPT !.awaits = None],
         cache' = cache \/ cache' = None,
         new.pc = "failed" => page'.awaits # c /\ cache' = None,
         \/ call' = [call EXCEPT ![c] = new]
         \/ call' = Swept([call EXCEPT ![c] = new], cache', page'.awaits),
         UNCHANGED book
  PROVE  ReadInv'
<1> DEFINE made == [call EXCEPT ![c] = new]
<1>1. call \in [Promises -> CallRec] /\ book \in Nat /\ cache \in {None} \cup Entry /\ page \in Page
  BY DEF ReadInv, ReadTypeOK, CallRec, Entry
<1>2. made \in [Promises -> CallRec] /\ cache' \in {None} \cup Entry
  BY <1>1
<1>3. page' \in Page /\ page'.timer = page.timer /\ page'.confirmed = page.confirmed
      /\ page'.second = page.second /\ page'.awaits \in {None, page.awaits}
  BY <1>1 DEF Page
<1>4. made[c] = new /\ \A d \in Promises : d # c => made[d] = call[d]
  BY <1>1
<1> HIDE DEF made
<1>5. /\ call' \in [Promises -> CallRec]
      /\ \A d \in Promises :
           /\ call'[d] = made[d] \/ call'[d] = NoCall
           /\ page'.awaits = d => call'[d] = made[d]
           /\ cache' # None /\ cache'.call = d => call'[d] = made[d]
  <2>1. call' = made \/ call' = Swept(made, cache', page'.awaits)
    BY DEF made
  <2>2. \A w :
          /\ Swept(made, cache', w) \in [Promises -> CallRec]
          /\ \A d \in Promises :
               /\ Swept(made, cache', w)[d] = made[d] \/ Swept(made, cache', w)[d] = NoCall
               /\ w = d => Swept(made, cache', w)[d] = made[d]
               /\ cache' # None /\ cache'.call = d => Swept(made, cache', w)[d] = made[d]
    BY <1>2, SweptKeeps
  <2> QED
    BY <1>2, <2>1, <2>2
<1>6. NoCall.pc = "free" /\ NoCall.from = 0
  BY DEF NoCall
<1>7. ReadTypeOK'
  <2>1. \A d \in Promises : call'[d].pc \in {"read", "ok"} => call'[d].body \in call'[d].from .. book
    BY <1>4, <1>5, <1>6 DEF ReadInv, ReadTypeOK
  <2> QED
    BY <1>1, <1>2, <1>3, <1>5, <2>1 DEF ReadInv, ReadTypeOK, CallRec, Entry
<1>8. FailureIsForgotten'
  <2>1. \A d \in Promises : call'[d].pc = "failed" =>
          page'.awaits # d /\ (cache' = None \/ cache'.call # d)
    <3>1. \A d \in Promises : call[d].pc = "failed" =>
            (d = None \/ page.awaits # d) /\ (cache = None \/ cache.call # d)
      BY DEF ReadInv, FailureIsForgotten
    <3>2. None \notin Promises
      BY ApiAssumption
    <3> QED
      BY <1>3, <1>4, <1>5, <1>6, <3>1, <3>2
  <2>2. cache' # None => call'[cache'.call].pc # "free"
    BY <1>1, <1>4, <1>5 DEF ReadInv, FailureIsForgotten, Entry
  <2>3. page'.awaits # None => call'[page'.awaits].pc # "free"
    BY <1>3, <1>4, <1>5 DEF ReadInv, FailureIsForgotten, Page
  <2> QED
    BY <2>1, <2>2, <2>3 DEF FailureIsForgotten
<1>9. FromThePast'
  BY <1>1, <1>3, <1>4, <1>5, <1>6 DEF ReadInv, FromThePast
<1>10. OldByThen'
  BY <1>1, <1>3, <1>4, <1>5 DEF ReadInv, OldByThen, Entry
<1>11. SecondLookIsNew'
  BY <1>1, <1>3, <1>4, <1>5 DEF ReadInv, SecondLookIsNew, Page
<1> QED
  BY <1>7, <1>8, <1>9, <1>10, <1>11 DEF ReadInv

LEMMA ReadBookReadInv ==
  ASSUME ReadInv, NEW c \in Promises, ReadBook(c)
  PROVE  ReadInv'
<1> DEFINE new == [call[c] EXCEPT !.pc = "read", !.body = book]
<1>1. call[c] \in CallRec /\ book \in Nat /\ call[c].from <= book /\ call[c].from \in Nat
  BY DEF ReadInv, ReadTypeOK, CallRec, FromThePast
<1>2. /\ new \in CallRec /\ new.from = call[c].from /\ new.pc = "read"
      /\ new.body \in new.from .. book
  <2>1. new.from = call[c].from /\ new.pc = "read" /\ new.body = book
    BY <1>1 DEF CallRec
  <2>2. book \in Nat \cup {None} /\ "read" \in Pc
    BY <1>1 DEF Pc
  <2>3. new \in CallRec
    BY <1>1, <2>2 DEF CallRec
  <2> QED
    BY <1>1, <2>1, <2>3
<1>3. call' = [call EXCEPT ![c] = new] /\ UNCHANGED <<book, cache, page>>
      /\ call[c].pc = "reading"
  BY <1>1 DEF ReadBook
<1> QED
  BY <1>2, <1>3, SettleReadInv

LEMMA ResolveReadInv ==
  ASSUME ReadInv, NEW c \in Promises, Resolve(c)
  PROVE  ReadInv'
<1> DEFINE new == [call[c] EXCEPT !.pc = "ok"]
<1>1. call[c] \in CallRec /\ call[c].pc = "read" /\ call[c].body \in call[c].from .. book
  BY DEF ReadInv, ReadTypeOK, CallRec, Resolve
<1>2. new \in CallRec /\ new.from = call[c].from /\ new.pc = "ok" /\ new.body \in new.from .. book
  BY <1>1 DEF CallRec, Pc
<1>3. UNCHANGED <<book, cache, page>>
      /\ call' = Swept([call EXCEPT ![c] = new], cache', page'.awaits)
  BY DEF Resolve
<1> QED
  BY <1>1, <1>2, <1>3, SettleReadInv

LEMMA RejectReadInv ==
  ASSUME ReadInv, NEW c \in Promises, Reject(c)
  PROVE  ReadInv'
<1> DEFINE new == [call[c] EXCEPT !.pc = "failed"]
<1>1. call[c] \in CallRec /\ call[c].pc \in {"reading", "read"} /\ page \in Page
  BY DEF ReadInv, ReadTypeOK, CallRec, Reject
<1>2. new \in CallRec /\ new.from = call[c].from /\ new.pc = "failed"
  BY <1>1 DEF CallRec, Pc
<1>3. /\ UNCHANGED book /\ cache' = None
      /\ call' = Swept([call EXCEPT ![c] = new], cache', page'.awaits)
      /\ page' = page \/ page' = [page EXCEPT !.awaits = None]
  BY DEF Reject, Forget, Refused
<1>4. page'.awaits # c
  BY <1>1, ApiAssumption DEF Reject, Refused, Page
<1> QED
  BY <1>1, <1>2, <1>3, <1>4, SettleReadInv

LEMMA ReceiveReadInv ==
  ASSUME ReadInv, Receive
  PROVE  ReadInv'
<1>1. /\ call \in [Promises -> CallRec] /\ cache \in {None} \cup Entry /\ page \in Page
      /\ page.awaits \in Promises /\ call[page.awaits].body \in call[page.awaits].from .. book
      /\ book \in Nat /\ call[page.awaits].from \in Nat
  BY DEF ReadInv, ReadTypeOK, CallRec, Entry, Receive, Page
<1>2. /\ page' \in Page /\ page'.awaits = None /\ page'.timer = page.timer
      /\ page'.confirmed = page.confirmed
  <2>1. call[page.awaits].body \in Nat
    BY <1>1
  <2>2. page' = [page EXCEPT !.shows = call[page.awaits].body, !.awaits = None]
    BY DEF Receive
  <2> QED
    BY <1>1, <2>1, <2>2 DEF Page
<1>3. /\ call' \in [Promises -> CallRec]
      /\ \A d \in Promises :
           /\ call'[d] = call[d] \/ call'[d] = NoCall
           /\ cache # None /\ cache.call = d => call'[d] = call[d]
  <2>1. /\ Swept(call, cache, None) \in [Promises -> CallRec]
        /\ \A d \in Promises :
             LET s == Swept(call, cache, None)[d] IN
             /\ s = call[d] \/ s = NoCall
             /\ cache # None /\ cache.call = d => s = call[d]
    BY <1>1, SweptKeeps
  <2> QED
    BY <2>1 DEF Receive
<1>4. NoCall.pc = "free" /\ NoCall.from = 0
  BY DEF NoCall
<1>5. UNCHANGED <<book, cache>>
  BY DEF Receive
<1>6. ReadTypeOK'
  BY <1>2, <1>3, <1>4, <1>5 DEF ReadInv, ReadTypeOK, CallRec
<1>7. FailureIsForgotten'
  BY <1>1, <1>2, <1>3, <1>4, <1>5, ApiAssumption DEF ReadInv, FailureIsForgotten, Entry
<1>8. FromThePast'
  BY <1>1, <1>2, <1>3, <1>4, <1>5 DEF ReadInv, FromThePast
<1>9. OldByThen'
  BY <1>1, <1>2, <1>3, <1>5 DEF ReadInv, OldByThen, Entry
<1> QED
  BY <1>2, <1>6, <1>7, <1>8, <1>9 DEF ReadInv, SecondLookIsNew

\* A tick adds one to the age for each it takes from the timer.
LEMMA TimePassesReadInv ==
  ASSUME ReadInv, TimePasses
  PROVE  ReadInv'
<1>1. /\ cache \in {None} \cup Entry /\ page \in Page /\ UNCHANGED <<book, call>>
      /\ page.timer \in 0 .. SecondLook \cup {None}
  BY DEF ReadInv, ReadTypeOK, Entry, TimePasses, Page
<1>2. /\ cache' \in {None} \cup Entry /\ (cache' = None <=> cache = None)
      /\ cache # None => cache'.call = cache.call
           /\ (cache'.age >= BookTtl \/ cache'.age = cache.age + 1)
  <2>1. CASE cache = None
    BY <2>1 DEF TimePasses
  <2>2. CASE cache # None /\ cache.age >= BookTtl
    BY <1>1, <2>2 DEF TimePasses
  <2>3. CASE cache # None /\ ~(cache.age >= BookTtl)
    <3>1. cache \in Entry /\ cache' = [cache EXCEPT !.age = cache.age + 1]
      BY <1>1, <2>3 DEF TimePasses
    <3>2. cache' \in Entry /\ cache'.call = cache.call /\ cache'.age = cache.age + 1
      BY <2>3, <3>1, Times DEF Entry
    <3>3. cache' # None
      BY <3>2, ApiAssumption, Times DEF Entry
    <3> QED
      BY <2>3, <3>2, <3>3
  <2> QED
    BY <2>1, <2>2, <2>3
<1>3. Down(page.timer) \in 0 .. SecondLook \cup {None}
      /\ (Down(page.timer) # None => page.timer # None /\ Down(page.timer) >= page.timer - 1)
  BY <1>1, Times, ApiAssumption DEF Down
<1>4. page' \in Page /\ page'.awaits = page.awaits /\ page'.confirmed = page.confirmed
      /\ page'.second = page.second /\ page'.timer = Down(page.timer)
  BY <1>1, <1>3 DEF TimePasses, Page
<1>5. ReadTypeOK'
  BY <1>1, <1>2, <1>4 DEF ReadInv, ReadTypeOK, Entry
<1>6. OldByThen'
  <2> SUFFICES ASSUME page'.timer # None, cache' # None,
                      call[cache.call].from < page.confirmed
               PROVE  cache'.age >= BookTtl \/ cache'.age + page'.timer >= SecondLook
    BY <1>1, <1>2, <1>4 DEF OldByThen
  <2>1. cache.age >= BookTtl \/ cache.age + page.timer >= SecondLook
    BY <1>2, <1>3, <1>4 DEF ReadInv, OldByThen
  <2>2. /\ cache.age \in 0 .. BookTtl /\ cache'.age \in 0 .. BookTtl
        /\ page'.timer \in 0 .. SecondLook /\ page.timer \in 0 .. SecondLook
    BY <1>1, <1>2, <1>3, <1>4 DEF Entry
  <2>3. cache.age >= BookTtl => cache'.age >= BookTtl
    BY <1>2, <2>2, Times DEF TimePasses
  <2> QED
    BY <1>2, <1>3, <1>4, <2>1, <2>2, <2>3, Times
<1>7. FailureIsForgotten' /\ FromThePast' /\ SecondLookIsNew'
  BY <1>1, <1>2, <1>4 DEF ReadInv, FailureIsForgotten, FromThePast, SecondLookIsNew
<1> QED
  BY <1>5, <1>6, <1>7 DEF ReadInv

LEMMA ReadNextReadInv == ReadInv /\ [ReadNext]_readVars => ReadInv'
<1> SUFFICES ASSUME ReadInv, [ReadNext]_readVars PROVE ReadInv'
  OBVIOUS
<1>1. CASE Change
  BY <1>1, ChangeReadInv
<1>2. ASSUME NEW c \in Promises, ReadBook(c) \/ Resolve(c) \/ Reject(c)
      PROVE  ReadInv'
  BY <1>2, ReadBookReadInv, ResolveReadInv, RejectReadInv
<1>3. CASE Agent \/ Poll \/ Confirmed \/ LookAgain
  BY <1>3, AgentReadInv, PollReadInv, ConfirmedReadInv, LookAgainReadInv
<1>4. CASE Receive \/ TimePasses
  BY <1>4, ReceiveReadInv, TimePassesReadInv
<1>5. CASE UNCHANGED readVars
  BY <1>5 DEF readVars, ReadInv, ReadTypeOK, FailureIsForgotten, FromThePast, OldByThen, SecondLookIsNew
<1> QED
  BY <1>1, <1>2, <1>3, <1>4, <1>5 DEF ReadNext

\* The invariant holds in every state of the API and its page.
THEOREM ReadInvariance == ReadSpec => []ReadInv
BY InitReadInv, ReadNextReadInv, PTL DEF ReadSpec

\* However many promises overlap and fail, what the cache holds is alive and good,
\* and nobody is left waiting for a failure.
THEOREM CacheSound == ReadSpec => []CacheIsSound
<1>1. ReadInv => CacheIsSound
  BY DEF ReadInv, CacheIsSound
<1> QED
  BY <1>1, ReadInvariance, PTL

\* Whenever the second look is no sooner than the cache forgets the book, it finds
\* the page's own transaction, whoever's answer it shares.
THEOREM SecondLookFinds == ReadSpec => []SecondLookIsNew
<1>1. ReadInv => SecondLookIsNew
  BY DEF ReadInv
<1> QED
  BY <1>1, ReadInvariance, PTL
=============================================================================

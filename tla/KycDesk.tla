------------------------------- MODULE KycDesk -------------------------------
(***************************************************************************)
(* The self-service KYC desk of the API: a wallet signs a request, the API *)
(* walks every bond token and has the officer's key grant or revoke KYC,   *)
(* one transaction at a time.                                              *)
(*                                                                         *)
(* Node runs a handler without interruption between two awaits, so a step  *)
(* here is what happens from one await to the next.  All requests share    *)
(* the pending set, the hits of the rate limit, the officer's account and  *)
(* with it the nonce.  The HTTP server, the node of the network and the    *)
(* officer at the Compliance page are the environment.                     *)
(***************************************************************************)
EXTENDS Integers, Sequences, SequencesExt, FiniteSets

CONSTANTS
  Wallets, Ips,
  NBonds,            \* registered bonds, walked in the order 1 .. NBonds
  Issuer,            \* of each bond
  Registered,        \* bonds whose issuer is an SSI issuer from the start
  Requests,          \* handlers that may run at one time
  Limit, Window,     \* KYC_RATE, the window in units of the clock
  Nobody,            \* no request waits for this transaction any more
  MaxAsks, MaxNow, MaxFaults, MaxMeddles   \* bounds

Bonds == 1 .. NBonds

ASSUME DeskAssumption ==
  /\ NBonds \in Nat /\ Issuer \in [Bonds -> Wallets] /\ Registered \subseteq Bonds
  /\ Limit \in Nat /\ Window \in Nat
  /\ Nobody \notin Requests
  /\ Wallets # {} /\ Ips # {}

VARIABLES
  granted, ssi,        \* the tokens: KYC of each wallet, registered SSI issuers
  hits, pending,       \* the process
  req,                 \* one handler per slot
  pool,                \* the officer's transactions the node has taken
  now,
  accepted,            \* history: who was let in, when
  faults, meddles

api   == <<hits, pending, accepted>>
token == <<granted, ssi>>
vars  == <<granted, ssi, hits, pending, req, pool, now, accepted, faults, meddles>>

Verbs == {"request", "revocation"}
Calls == {"addIssuer", "grantKyc", "revokeKyc"}
Active == {"walk", "ssi", "simulate", "nonce", "send", "wait"}
Outcomes == {"ok", "pending", "rate-limited", "issuer-kyc", "tx-failed"}

\* good: the node has taken no transaction of the officer's since the nonce was
\* read.  crossed: a transaction this handler did not send touched the wallet's KYC
\* while it ran.  raced: anything at all came from elsewhere, a fault included.
Handler == [pc : {"free", "verify"} \cup Active \cup Outcomes, wallet : Wallets, ip : Ips,
            verb : Verbs, bond : Nat, call : Calls, good : BOOLEAN,
            crossed : BOOLEAN, raced : BOOLEAN]
Tx == [by : Requests \cup {Nobody}, call : Calls, bond : Bonds, wallet : Wallets]

Keys == {<<"addr", w>> : w \in Wallets} \cup {<<"ip", i>> : i \in Ips}

At(pc, w, i, verb) ==
  [pc |-> pc, wallet |-> w, ip |-> i, verb |-> verb, bond |-> 1, call |-> "grantKyc",
   good |-> FALSE, crossed |-> FALSE, raced |-> FALSE]

\* What the fields of a slot nobody uses say.
Someone   == CHOOSE w \in Wallets : TRUE
Somewhere == CHOOSE i \in Ips : TRUE

Init ==
  /\ granted = [b \in Bonds |-> {Issuer[b]}]
  /\ ssi = Registered
  /\ hits = [k \in Keys |-> <<>>] /\ pending = {}
  /\ req = [r \in Requests |-> At("free", Someone, Somewhere, "request")]
  /\ pool = <<>> /\ now = 0
  /\ accepted = <<>> /\ faults = 0 /\ meddles = 0

-----------------------------------------------------------------------------
(* Letting a request in. *)

\* The page's mutation, or anybody: the body is well formed, the minute fresh and
\* the signature the wallet's.  A request that fails one of these is answered 400
\* or 401 and touches nothing, and so is no step.  The answer of the request that
\* held the slot before has been sent.
Arrive(r, w, i, verb) ==
  /\ req[r].pc \in {"free"} \cup Outcomes
  /\ Len(accepted) + Cardinality({q \in Requests : req[q].pc = "verify"}) < MaxAsks
  /\ req' = [req EXCEPT ![r] = At("verify", w, i, verb)]
  /\ UNCHANGED <<token, api, pool, now, faults, meddles>>

\* Of the earlier hits, those of the last window count.
KeepOneLess(kept, t) == IF now - t <= Window - 2 THEN Append(kept, t) ELSE kept   \* slip
KeepRecent(kept, t) == IF now - t < Window THEN Append(kept, t) ELSE kept
Recent(k) == FoldLeft(KeepRecent, <<>>, hits[k])

Limited(k) == Len(Recent(k)) >= Limit

HitUntil(k) == IF Limited(k) THEN Recent(k) ELSE Append(Recent(k), now + Window)   \* slip: the end of the window is kept
Hit(k) == IF Limited(k) THEN Recent(k) ELSE Append(Recent(k), now)

\* rateLimited(addr) || rateLimited(ip): the address is hit even when the IP
\* refuses, the IP only when the address passes.
HitsAfter(addr, ip) ==
  [hits EXCEPT ![addr] = Hit(addr), ![ip] = IF Limited(addr) THEN @ ELSE Hit(ip)]

LeavesDoorOpen(w) == pending   \* slip: the wallet is not noted as pending
Noted(w) == pending \cup {w}

Answered(r, outcome) ==
  [At(outcome, Someone, Somewhere, "request") EXCEPT !.raced = req[r].raced]

\* From the await of the signature's verification to the next await: nothing
\* comes between the question whether a request is pending and the note that
\* one is.
Accept(r) ==
  LET w == req[r].wallet  addr == <<"addr", w>>  ip == <<"ip", req[r].ip>> IN
  /\ req[r].pc = "verify"
  /\ UNCHANGED <<token, pool, now, faults, meddles>>
  /\ \/ /\ w \in pending
        /\ req' = [req EXCEPT ![r] = Answered(r, "pending")]
        /\ UNCHANGED api
     \/ /\ w \notin pending
        /\ hits' = HitsAfter(addr, ip)
        /\ IF Limited(addr) \/ Limited(ip)
           THEN /\ req' = [req EXCEPT ![r] = Answered(r, "rate-limited")]
                /\ UNCHANGED <<pending, accepted>>
           ELSE /\ req' = [req EXCEPT ![r].pc = "walk"]
                /\ pending' = Noted(w)
                /\ accepted' = Append(accepted, [wallet |-> w, ip |-> req[r].ip, at |-> now])

-----------------------------------------------------------------------------
(* The walk over the bonds.                                                *)

Goto(r, pc) == req' = [req EXCEPT ![r].pc = pc]

\* The finally block runs on every way out.
Answer(r, outcome) ==
  /\ req' = [req EXCEPT ![r] = Answered(r, outcome)]
  /\ pending' = pending \ {req[r].wallet}

NotOurIssuer(r) == FALSE   \* slip: the issuer may take its own KYC away
OwnIssuer(r) == req[r].verb = "revocation" /\ Issuer[req[r].bond] = req[r].wallet

HasIt(r) == req[r].wallet \in granted[req[r].bond]

\* A request looks for what is not granted yet, a revocation for what is.
Asked(r) ==
  CASE req[r].verb = "request" /\ ~HasIt(r)  -> [req[r] EXCEPT !.pc = "ssi"]
    [] req[r].verb = "revocation" /\ HasIt(r) -> [req[r] EXCEPT !.pc = "simulate", !.call = "revokeKyc"]
    [] OTHER -> [req[r] EXCEPT !.bond = @ + 1]

\* terms and getKycStatusFor of the next bond; the bonds already walked keep what
\* was done to them when the issuer is refused at its own.
Look(r) ==
  /\ req[r].pc = "walk"
  /\ \/ req[r].bond > NBonds /\ Answer(r, "ok")
     \/ /\ req[r].bond <= NBonds /\ OwnIssuer(r)
        /\ Answer(r, "issuer-kyc")
     \/ /\ req[r].bond <= NBonds /\ ~OwnIssuer(r)
        /\ req' = [req EXCEPT ![r] = Asked(r)]
        /\ UNCHANGED pending
  /\ UNCHANGED <<token, hits, accepted, pool, now, faults, meddles>>

GrantAnyway(b) == "grantKyc"   \* slip: the issuer is never registered
FirstCall(b) == IF b \in ssi THEN "grantKyc" ELSE "addIssuer"

\* chain.grantKyc asks isIssuer first.
AskSsi(r) ==
  /\ req[r].pc = "ssi"
  /\ req' = [req EXCEPT ![r].pc = "simulate", ![r].call = FirstCall(req[r].bond)]
  /\ UNCHANGED <<token, api, pool, now, faults, meddles>>

\* What the token accepts.
Valid(tx) ==
  CASE tx.call = "addIssuer" -> tx.bond \notin ssi
    [] tx.call = "grantKyc"  -> tx.bond \in ssi /\ tx.wallet \notin granted[tx.bond]
    [] tx.call = "revokeKyc" -> tx.wallet \in granted[tx.bond]

TxOf(r) == [by |-> r, call |-> req[r].call, bond |-> req[r].bond, wallet |-> req[r].wallet]

\* send: simulate against the state of this moment ...
Simulate(r) ==
  /\ req[r].pc = "simulate"
  /\ IF Valid(TxOf(r)) THEN Goto(r, "nonce") /\ UNCHANGED pending
                       ELSE Answer(r, "tx-failed")
  /\ UNCHANGED <<token, hits, accepted, pool, now, faults, meddles>>

\* ... ask the node for the account's next nonce ...
ReadNonce(r) ==
  /\ req[r].pc = "nonce"
  /\ req' = [req EXCEPT ![r].pc = "send", ![r].good = TRUE]
  /\ UNCHANGED <<token, api, pool, now, faults, meddles>>

\* Whoever else is being served did not do this.
Others(r, wallet) ==
  [q \in Requests |->
     IF q = r \/ req[q].pc \notin Active THEN req[q]
     ELSE [req[q] EXCEPT !.raced = TRUE, !.crossed = @ \/ req[q].wallet = wallet]]

\* The node takes a transaction of r's: every other nonce read is void.
Taken(r) == [q \in Requests |-> [Others(r, Nobody)[q] EXCEPT !.good = FALSE]]

\* ... and send: the node takes only the nonce that is next.
Submit(r) ==
  /\ req[r].pc = "send"
  /\ IF req[r].good
     THEN /\ pool' = Append(pool, TxOf(r))
          /\ req' = [Taken(r) EXCEPT ![r].pc = "wait"]
          /\ UNCHANGED pending
     ELSE Answer(r, "tx-failed") /\ UNCHANGED pool
  /\ UNCHANGED <<token, hits, accepted, now, faults, meddles>>

OnwardsAtOnce(r) == [req[r] EXCEPT !.pc = "walk", !.bond = @ + 1]   \* slip: registering the issuer is taken for the grant
\* What a successful receipt leads to.
Onwards(r) ==
  IF req[r].call = "addIssuer" THEN [req[r] EXCEPT !.pc = "simulate", !.call = "grantKyc"]
                               ELSE [req[r] EXCEPT !.pc = "walk", !.bond = @ + 1]

\* The network executes in order of the nonces; the sender that still waits gets
\* the receipt.
Execute ==
  LET tx == Head(pool)  ok == Valid(tx)
      next == Others(tx.by, tx.wallet) IN
  /\ pool # <<>> /\ pool' = Tail(pool)
  /\ ssi' = IF ok /\ tx.call = "addIssuer" THEN ssi \cup {tx.bond} ELSE ssi
  /\ granted' = CASE ok /\ tx.call = "grantKyc" -> [granted EXCEPT ![tx.bond] = @ \cup {tx.wallet}]
                  [] ok /\ tx.call = "revokeKyc" -> [granted EXCEPT ![tx.bond] = @ \ {tx.wallet}]
                  [] OTHER -> granted
  /\ \/ /\ tx.by = Nobody
        /\ req' = next /\ UNCHANGED pending
     \/ /\ tx.by # Nobody /\ ok
        /\ req' = [next EXCEPT ![tx.by] = Onwards(tx.by)] /\ UNCHANGED pending
     \/ /\ tx.by # Nobody /\ ~ok
        /\ req' = [next EXCEPT ![tx.by] = Answered(tx.by, "tx-failed")]
        /\ pending' = pending \ {tx.wallet}
  /\ UNCHANGED <<hits, accepted, now, faults, meddles>>

-----------------------------------------------------------------------------
(* Faults and the world. *)

KeptPending(r) == pending   \* slip: a failing handler keeps its wallet pending
Released(r) == pending \ {req[r].wallet}

\* A read, the send or the wait throws.  The send may fail after the node has
\* taken the transaction, the wait before it is mined: it lands all the same.
Throw(r) ==
  /\ faults < MaxFaults /\ faults' = faults + 1
  /\ req[r].pc \in Active
  /\ pending' = Released(r)
  /\ \/ pool' = [k \in DOMAIN pool |-> IF pool[k].by = r THEN [pool[k] EXCEPT !.by = Nobody] ELSE pool[k]]
        /\ req' = [req EXCEPT ![r] = [Answered(r, "tx-failed") EXCEPT !.raced = TRUE]]
     \/ /\ req[r].pc = "send" /\ req[r].good
        /\ pool' = Append(pool, [TxOf(r) EXCEPT !.by = Nobody])
        /\ req' = [Taken(r) EXCEPT ![r] = [Answered(r, "tx-failed") EXCEPT !.raced = TRUE]]
  /\ UNCHANGED <<token, hits, accepted, now, meddles>>

\* The officer, from the Compliance page with a wallet of its own.
Officer(b, w) ==
  /\ meddles < MaxMeddles /\ meddles' = meddles + 1
  /\ \/ w \in granted[b] /\ granted' = [granted EXCEPT ![b] = @ \ {w}]
     \/ b \in ssi /\ w \notin granted[b] /\ granted' = [granted EXCEPT ![b] = @ \cup {w}]
  /\ req' = Others(Nobody, w)
  /\ UNCHANGED <<ssi, api, pool, now, faults>>

Tick ==
  /\ now < MaxNow /\ now' = now + 1
  /\ UNCHANGED <<token, api, req, pool, faults, meddles>>

Step(r) == Accept(r) \/ Look(r) \/ AskSsi(r) \/ Simulate(r) \/ ReadNonce(r) \/ Submit(r)

Next ==
  \/ \E r \in Requests, w \in Wallets, i \in Ips, v \in Verbs : Arrive(r, w, i, v)
  \/ \E r \in Requests : Step(r) \/ Throw(r)
  \/ Execute
  \/ \E b \in Bonds, w \in Wallets : Officer(b, w)
  \/ Tick

Spec == Init /\ [][Next]_vars

\* The event loop runs every continuation, and the network executes what it took.
FairSpec == Spec /\ WF_vars(Execute) /\ \A r \in Requests : WF_vars(Step(r))

-----------------------------------------------------------------------------
(* Properties. *)

TypeOK ==
  /\ granted \in [Bonds -> SUBSET Wallets] /\ ssi \subseteq Bonds
  /\ pending \subseteq Wallets /\ req \in [Requests -> Handler]
  /\ \A k \in Keys : \A n \in DOMAIN hits[k] : hits[k][n] \in 0 .. now
  /\ \A k \in DOMAIN pool : pool[k] \in Tx
  /\ now \in Nat

\* The desk never serves one wallet twice at a time, whatever the requests of it
\* and of others do meanwhile: two of them cannot both see "not pending".
OneAtATime ==
  /\ \A r, q \in Requests :
       req[r].pc \in Active /\ req[q].pc \in Active /\ req[r].wallet = req[q].wallet => r = q
  /\ pending = {req[r].wallet : r \in {q \in Requests : req[q].pc \in Active}}

\* In no stretch of time as long as the window are more than Limit requests of one
\* wallet, or from one IP, let in (KYC_RATE).
RateBound ==
  \A from \in 0 .. now :
    LET within == {n \in DOMAIN accepted : accepted[n].at \in from .. from + Window - 1}
    IN  /\ \A w \in Wallets : Cardinality({n \in within : accepted[n].wallet = w}) <= Limit
        /\ \A i \in Ips : Cardinality({n \in within : accepted[n].ip = i}) <= Limit

\* When the desk answers 200, every bond token says what the answer says, unless
\* a transaction this request did not send touched the wallet's KYC meanwhile.
AnswerIsTrue ==
  [][\A r \in Requests :
       req[r].pc \in Active /\ req'[r].pc = "ok" /\ ~req[r].crossed =>
         \A b \in Bonds : (req[r].wallet \in granted[b]) = (req[r].verb = "request")]_vars

\* A request that had the officer's account and the tokens to itself, and met no
\* fault, does not fail: the desk does for it all a grant or a revocation needs.
AloneSucceeds ==
  \A r \in Requests : req[r].pc = "tx-failed" => req[r].raced

\* Nothing but the officer's own hand takes an issuer's KYC on its own bond.
IssuerKeepsKyc ==
  [][\A b \in Bonds :
       Issuer[b] \in granted[b] /\ Issuer[b] \notin granted'[b] => meddles' # meddles]_vars

\* Every wallet being served is answered and may ask again.
EveryoneIsAnswered == \A w \in Wallets : w \in pending ~> w \notin pending

\* The limits of the desk hold: one request of a wallet at a time, and no more of
\* a wallet or an IP in a window than KYC_RATE lets.
LimitsHold == TypeOK /\ OneAtATime /\ RateBound

\* A wallet's KYC is as the last answer said, and an issuer's own is never taken.
KycIsAsAnswered == AnswerIsTrue /\ IssuerKeepsKyc
=============================================================================

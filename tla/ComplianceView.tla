---------------------------- MODULE ComplianceView ----------------------------
(***************************************************************************)
(* What the desk tells a wallet about a bond's token: the probe that the   *)
(* Eligibility and Compliance pages make of the token, the sentences they  *)
(* fall back on when it fails, and the API's eligibility answer.           *)
(*                                                                         *)
(* The pages ask the token itself, and the market asks it again at every   *)
(* fill.  The API puts two reads together that are not of one moment: the  *)
(* bond's status comes from a summary that is cached and shared, KYC from  *)
(* the token once the summary is there.  Time is in ticks as fine as the   *)
(* cache's time to live.                                                   *)
(***************************************************************************)
EXTENDS ATSBond

CONSTANTS Ttl,           \* CACHE_TTL_MS
          None, Unread

Statuses == {"Active", "NotActive"}   \* Frozen, Default and Matured are alike here

ASSUME DeskAssumption ==
  /\ Ttl \in Nat \ {0}
  /\ Unread \notin Statuses
  /\ None \notin [status : Statuses \cup {Unread}, age : 0 .. Ttl]

VARIABLES
  status,     \* of the bond in the registry
  steady,     \* history: ticks since it last changed, Ttl for as many or more
  entry,      \* the cache under bond:<id>: a promise's status and age, or None
  question    \* the request for eligibility on its way, or None

deskVars == <<status, steady, entry, question>>

-----------------------------------------------------------------------------
(* canTransferFrom: the first check that fails, in the token's order. *)

Refusals == {"IsPaused", "AccountIsBlocked", "InvalidKycStatus"}

RefusalKycFirst(from, to) ==   \* slip: a receiver's freeze is not looked at
  CASE paused -> "IsPaused"
    [] ~paused /\ from \in frozen -> "AccountIsBlocked"
    [] ~paused /\ from \notin frozen /\ ~({from, to} \subseteq kyc) -> "InvalidKycStatus"
    [] OTHER -> "none"
Refusal(from, to) ==
  CASE paused -> "IsPaused"
    [] ~paused /\ {from, to} \cap frozen # {} -> "AccountIsBlocked"
    [] ~paused /\ {from, to} \cap frozen = {} /\ ~({from, to} \subseteq kyc) -> "InvalidKycStatus"
    [] OTHER -> "none"

\* The pages' probe has no operator: where compliance passes, the allowance of
\* nobody is what fails.
Probe(from, to) ==
  IF Refusal(from, to) = "none" THEN "InsufficientAllowance" ELSE Refusal(from, to)
\* The market's probe, for an approved seller.
MarketProbe(from, to, n) ==
  IF Refusal(from, to) # "none" THEN Refusal(from, to)
  ELSE IF balance[from] < n THEN "InsufficientBalance" ELSE "ok"

-----------------------------------------------------------------------------
(* The pages. *)

IsAllowanceOnly(reason) == reason = "InsufficientAllowance"

\* decision, with the token's answer at hand.
Decision(from, to) == IF IsAllowanceOnly(Probe(from, to)) THEN "pass" ELSE "refuse"

\* What the report of wallet h says without the token's answer.
Fallback(h) ==
  CASE h \notin kyc -> "refuse: no KYC"
    [] h \in kyc /\ h \in frozen -> "refuse: frozen"
    [] h \in kyc /\ h \notin frozen /\ paused -> "refuse: paused"
    [] OTHER -> "allow"

-----------------------------------------------------------------------------
(* GET /wallets/:address/eligibility.  A question's promise of the summary is
   the cache's (shared) or one the cache no longer has. *)

Reasons == {"no-hedera-account", "no-kyc", "bond-not-active", "kyc-granted"}

\* seen, held (history): what the status was since Ttl before the question, and
\* the wallet's KYC since the question.
Question == [wallet : Holders, shared : BOOLEAN, status : Statuses \cup {Unread},
             reason : Reasons \cup {None},
             seen : SUBSET Statuses, held : SUBSET {"granted", "none"}]

DeskInit ==
  /\ Init
  /\ status = "Active" /\ steady = Ttl
  /\ entry = None /\ question = None

KycOf(h, granted) == IF h \in granted THEN "granted" ELSE "none"

Reason(account, standing, read) ==
  CASE ~account -> "no-hedera-account"
    [] account /\ standing = "none" -> "no-kyc"
    [] account /\ standing # "none" /\ read # "Active" -> "bond-not-active"
    [] OTHER -> "kyc-granted"

FreshForever == entry # None   \* slip: the entry never expires
Fresh == entry # None /\ entry.age < Ttl

Asked == question # None
Waits == Asked /\ question.reason = None
\* Its promise is no longer in the cache.
Detached == IF Asked THEN [question EXCEPT !.shared = FALSE] ELSE None

Lately == IF steady < Ttl THEN Statuses ELSE {status}

\* summary(id): a fresh promise is shared, else a new one is made and kept.
Ask(h) ==
  /\ ~Asked
  /\ entry' = IF Fresh THEN entry ELSE [status |-> Unread, age |-> 0]
  /\ question' = [wallet |-> h, shared |-> TRUE, status |-> entry'.status, reason |-> None,
                  seen |-> Lately, held |-> {KycOf(h, kyc)}]
  /\ UNCHANGED <<vars, status, steady>>

\* Anybody's request for the list, the bond, its risk, or another wallet's.
OthersAsk ==
  /\ ~Fresh
  /\ entry' = [status |-> Unread, age |-> 0]
  /\ question' = Detached
  /\ UNCHANGED <<vars, status, steady>>

\* chain.terms, in the promise of the cache or in one it no longer has.
ReadTerms ==
  /\ entry # None /\ entry.status = Unread
  /\ entry' = [entry EXCEPT !.status = status]
  /\ question' = IF Waits /\ question.shared THEN [question EXCEPT !.status = status] ELSE question
  /\ UNCHANGED <<vars, status, steady>>

ReadOwnTerms ==
  /\ Waits /\ ~question.shared /\ question.status = Unread
  /\ question' = [question EXCEPT !.status = status]
  /\ UNCHANGED <<vars, status, steady, entry>>

\* The summary is there: getKycStatusFor is read, and the mirror node's account.
Answer(account) ==
  /\ Waits /\ question.status # Unread
  /\ question' = [question EXCEPT !.reason = Reason(account, KycOf(question.wallet, kyc), question.status)]
  /\ UNCHANGED <<vars, status, steady, entry>>

CanHold == Asked /\ question.reason = "kyc-granted"

\* A promise fails: the key is deleted, whichever promise is under it by now, and
\* the question that awaited it gets 502.  So it does when KYC cannot be read.
SummaryFails ==
  /\ entry' = None
  /\ \/ Waits /\ question' = None
     \/ question' = Detached
  /\ UNCHANGED <<vars, status, steady>>

Ends ==
  /\ Asked /\ question' = None
  /\ UNCHANGED <<vars, status, steady, entry>>

-----------------------------------------------------------------------------
(* The token, the bond's status and time. *)

\* RiskGate, BondLifecycle and the issuer's admin write the registry.
StatusMoves ==
  /\ status' \in Statuses \ {status} /\ steady' = 0
  /\ question' = IF Asked THEN [question EXCEPT !.seen = @ \cup {status'}] ELSE None
  /\ UNCHANGED <<vars, entry>>

TokenMoves ==
  /\ Next
  /\ question' = IF Asked THEN [question EXCEPT !.held = @ \cup {KycOf(question.wallet, kyc')}] ELSE None
  /\ UNCHANGED <<status, steady, entry>>

Older(age) == IF age < Ttl THEN age + 1 ELSE Ttl

Tick ==
  /\ steady' = Older(steady)
  /\ entry' = IF entry = None THEN None ELSE [entry EXCEPT !.age = Older(@)]
  /\ UNCHANGED <<vars, status, question>>

DeskNext ==
  \/ \E h \in Holders : Ask(h)
  \/ \E account \in BOOLEAN : Answer(account)
  \/ OthersAsk \/ ReadTerms \/ ReadOwnTerms \/ SummaryFails \/ Ends
  \/ StatusMoves \/ TokenMoves \/ Tick

DeskSpec == DeskInit /\ [][DeskNext]_<<vars, deskVars>>

-----------------------------------------------------------------------------
(* Properties. *)

DeskTypeOK ==
  /\ status \in Statuses /\ steady \in 0 .. Ttl
  /\ entry \in {None} \cup [status : Statuses \cup {Unread}, age : 0 .. Ttl]
  /\ question \in {None} \cup Question

\* A decision a page shows is the token's: "pass" exactly when a transfer of one
\* bond would go through if the sender had one, which is also when the market's
\* own check fails at most for the balance; and a page without the token's answer
\* says the same of a wallet whose counterpart is in order.
DecisionIsTheTokens ==
  \A i, h \in Holders :
    /\ Decision(i, h) = "pass" /\ balance[i] > 0 <=> CanTransfer(i, h, 1)
    /\ Decision(i, h) = "pass" <=> MarketProbe(i, h, 1) \notin Refusals
    /\ i \in kyc \ frozen => (Fallback(h) = "allow" <=> Decision(i, h) = "pass")

\* Whatever was cached, shared, failed or superseded, an answer is never older
\* than the cache's time to live: what it says of the bond's status was so at some
\* moment since Ttl before the question, and what it says of KYC at some moment
\* since the question.  It need not be so any more, and the two need never have
\* been so together.
AnswerIsRecent ==
  Asked /\ ~Waits =>
    /\ question.reason = "no-kyc" => "none" \in question.held
    /\ question.reason = "bond-not-active" =>
         "NotActive" \in question.seen /\ "granted" \in question.held
    /\ CanHold => "Active" \in question.seen /\ "granted" \in question.held

\* A page's decision is the token's own, and the API's answer is recent.
EligibilityIsTrue == DeskTypeOK /\ DecisionIsTheTokens /\ AnswerIsRecent
=============================================================================

------------------------------- MODULE RiskView -------------------------------
(***************************************************************************)
(* The Risk tab of a bond: what it says of the last verdict, and the panel *)
(* in which anyone may paste a VERDICT_JSON line, have it checked against  *)
(* the gate's signer and send it.  Functions of one state of VerdictPath;  *)
(* a pasted line is one of the signed verdicts (parseVerdictBlob refuses   *)
(* anything that is not of its form), for this chain and this gate, that   *)
(* its run did not send itself.                                            *)
(***************************************************************************)
EXTENDS VerdictPath

-----------------------------------------------------------------------------
(* The status sentence. *)

LastWasFreeze(b) == lastVerdict[b] # NoVerdict /\ lastVerdict[b].action = "FREEZE"

Text(b) ==
  CASE status[b] = "Frozen" -> "halted by a freeze"
    [] status[b] = "Active" /\ LastWasFreeze(b) -> "unfrozen by the admin"
    [] status[b] = "Active" /\ ~LastWasFreeze(b) -> "trades normally"
    [] status[b] = "Defaulted" -> "collateral seized"
    [] OTHER -> "matured"

\* The row "Last verdict": none while the stored nonce is 0.
LastShown(b) == IF lastNonce[b] = 0 THEN NoVerdict ELSE lastVerdict[b]

UnfreezeByVerdict(b) == LastWasFreeze(b)   \* slip: asks the verdict, not the registry
\* The admin's button.
UnfreezeEnabled(b) == status[b] = "Frozen"

-----------------------------------------------------------------------------
(* The relay panel on the page of bond b, with verdict v pasted. *)

\* verifyVerdict recovers the signer of the typed data.
Verified(v) == v.key = signer

ProblemsOffByOne(b, v) ==   \* slip: the verdict already applied may go again
  {p \in {"another bond"} : v.bond # b} \cup {p \in {"old nonce"} : v.nonce < lastNonce[b]}
Problems(b, v) ==
  {p \in {"another bond"} : v.bond # b} \cup {p \in {"old nonce"} : v.nonce <= lastNonce[b]}

SubmitEnabled(b, v) == Verified(v) /\ Problems(b, v) = {}

-----------------------------------------------------------------------------
(* Properties. *)

\* A verdict that has been applied to b, as far as its nonce can tell.
Applied(b, a) == \E v \in signed : v.bond = b /\ v.action = a /\ v.nonce <= lastNonce[b]

\* What the tab says happened did happen, in whatever order verdicts landed and
\* people acted: a halted bond had a FREEZE applied, a bond said to be unfrozen
\* was moved by a person after the verdict shown, a seizure followed a DEFAULT
\* and the verdict row is empty exactly when no verdict was ever applied.
RiskTextIsTrue ==
  \A b \in Bonds : status[b] # "None" =>
    /\ Text(b) = "halted by a freeze" => Applied(b, "FREEZE")
    /\ Text(b) = "unfrozen by the admin" => intervened[b] /\ Applied(b, "FREEZE")
    /\ Text(b) = "collateral seized" => seized[b] /\ Applied(b, "DEFAULT")
    /\ LastShown(b) = NoVerdict <=> \A a \in Action : ~Applied(b, a)

\* The admin's button is there exactly when the gate would unfreeze, and the panel
\* neither withholds a verdict the gate would take nor sends one it would refuse,
\* except for age: freshness is left to the simulation.
RiskButtonsWork ==
  \A b \in Bonds : status[b] # "None" =>
    /\ UnfreezeEnabled(b) <=> CanUnfreeze(b)
    /\ \A v \in signed :
         /\ v.bond = b /\ CanSubmit(v) => SubmitEnabled(b, v)
         /\ SubmitEnabled(b, v) /\ Fresh(v) => CanSubmit(v)

\* The tab as a whole: what it tells and what its buttons send.
RiskPageIsTrue == RiskTextIsTrue /\ RiskButtonsWork
=============================================================================

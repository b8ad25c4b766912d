----------------------------- MODULE GatePromise -----------------------------
(***************************************************************************)
(* What the risk gate promises, with no verdicts, signatures, clocks or    *)
(* concurrent monitor runs: each bond has a status and a version, and a    *)
(* verdict lands as ONE step that takes the very next version and that,    *)
(* unless a person moved the status since the previous landing, is a       *)
(* decision the policy takes for the status the bond has at that moment.   *)
(* VerdictPath is shown to implement this.                                 *)
(***************************************************************************)
EXTENDS Naturals

CONSTANT Bonds

VARIABLES status,      \* BondRegistry._terms[b].status
          version,     \* verdicts landed on the bond so far
          intervened   \* somebody other than the gate moved the status since
                       \* the last landing

vars == <<status, version, intervened>>

Status   == {"None", "Active", "Frozen", "Matured", "Defaulted"}
Action   == {"OK", "WARN", "FREEZE", "DEFAULT"}

\* The statuses in which a bond is still at risk and the policy looks at its
\* coverage at all.
AtRisk == {"Active", "Frozen"}

\* The decisions the policy can take for a bond it sees in status s.
Decisions(s) == IF s \in AtRisk THEN Action ELSE {"OK"}

\* The status a landed verdict leaves behind.
After(a, s) ==
  IF a = "FREEZE" /\ s = "Active"      THEN "Frozen"
  ELSE IF a = "DEFAULT" /\ s \in AtRisk THEN "Defaulted"
  ELSE s

Init ==
  /\ status = [b \in Bonds |-> "None"]
  /\ version = [b \in Bonds |-> 0]
  /\ intervened = [b \in Bonds |-> FALSE]

\* Exactly one verdict lands on b.
Land(b) ==
  \E a \in Action :
    /\ intervened[b] \/ a \in Decisions(status[b])
    /\ version' = [version EXCEPT ![b] = @ + 1]
    /\ status' = [status EXCEPT ![b] = After(a, @)]
    /\ intervened' = [intervened EXCEPT ![b] = FALSE]

\* A person moves the status: issuer registers, admin unfreezes, the first
\* holder redeems at maturity.
Intervene(b, from, to) ==
  /\ status[b] \in from
  /\ status' = [status EXCEPT ![b] = to]
  /\ intervened' = [intervened EXCEPT ![b] = TRUE]
  /\ UNCHANGED version

Next ==
  \E b \in Bonds :
    \/ Land(b)
    \/ Intervene(b, {"None"}, "Active")
    \/ Intervene(b, {"Frozen"}, "Active")
    \/ Intervene(b, AtRisk, "Matured")

Spec == Init /\ [][Next]_vars
=============================================================================

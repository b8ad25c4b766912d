------------------------------- MODULE Relayer -------------------------------
(***************************************************************************)
(* relayer watch: a process that takes signed verdicts from an inbox of    *)
(* files to RiskGate.submit.  A timer starts a tick every five seconds;    *)
(* every await inside it is a point where files, the chain and the next    *)
(* timer event move.  The RPC endpoint may fail at each call, also after   *)
(* it passed a transaction on, and the process may crash and be restarted  *)
(* with nothing but the inbox left.                                        *)
(*                                                                         *)
(* All files are about one bond.  A verdict is its nonce; by the theorem   *)
(* VerdictPathProofs!NoGap a signed nonce is at most one past the bond's.  *)
(* The gate refuses a verdict before and after its window of time, and a   *)
(* DEFAULT while the token is paused; refusals come and go (a clock that   *)
(* catches up, an unpause, a longer window), but relay() asks only once.   *)
(***************************************************************************)
EXTENDS Integers, Sequences, FiniteSets

CONSTANTS
  Files,        \* names in the inbox
  Ticks,        \* timer callbacks that may be under way together
  Attempts,     \* tries of one retry unit (3)
  Refusable,    \* files whose verdict the gate may refuse for a time (bound)
  MaxNonce, MaxFaults, MaxCrashes   \* bounds

ASSUME RelayerAssumption ==
  /\ Attempts \in Nat \ {0}
  /\ MaxNonce \in Nat /\ MaxFaults \in Nat /\ MaxCrashes \in Nat

VARIABLES
  inbox,      \* what the directory shows of each file
  nonce,      \* the nonce of the verdict in it
  kind,       \* a verdict to submit, one the run sent itself, or a bad file
  refused,    \* verdicts the gate would not take now, whatever their nonce
  lastNonce,  \* RiskGate.lastNonce of the bond
  txs,        \* transactions this relayer put on the wire
  up, busy, seen,   \* the process and its two variables
  tick,       \* where each timer callback stands
  taken,      \* history: times this process took the file up
  turned,     \* history: files in whose turn the gate refused them, in this process's life
  faults, crashes   \* history, for the bounds

world == <<inbox, nonce, kind, refused, lastNonce, txs>>
vars  == <<world, up, busy, seen, tick, taken, turned, faults, crashes>>

Kind == {"plain", "direct", "bad"}
PC   == {"idle", "loop", "verify", "read", "simulate", "send", "receipt"}
Tx   == [file : Files, status : {"pending", "success", "reverted"}]
Flow == [pc : PC, todo : SUBSET Files, file : SUBSET Files, tries : Nat, tx : Nat]

AtRest == [pc |-> "idle", todo |-> {}, file |-> {}, tries |-> 0, tx |-> 0]

Init ==
  /\ inbox = [f \in Files |-> "absent"]
  /\ nonce = [f \in Files |-> 0]
  /\ kind = [f \in Files |-> "plain"]
  /\ refused = {}
  /\ lastNonce = 0
  /\ txs = <<>>
  /\ up = TRUE /\ busy = FALSE /\ seen = {}
  /\ tick = [t \in Ticks |-> AtRest]
  /\ taken = [f \in Files |-> 0] /\ turned = {}
  /\ faults = 0 /\ crashes = 0

-----------------------------------------------------------------------------
(* The inbox and the chain. *)

\* Somebody starts to write a verdict file, and finishes it.
Write(f) ==
  /\ inbox[f] = "absent"
  /\ inbox' = [inbox EXCEPT ![f] = "partial"]
  /\ \E n \in 1 .. lastNonce + 1 : n <= MaxNonce /\ nonce' = [nonce EXCEPT ![f] = n]
  /\ \E k \in Kind : kind' = [kind EXCEPT ![f] = k]
  /\ UNCHANGED <<refused, lastNonce, txs, up, busy, seen, tick, taken, turned, faults, crashes>>

Complete(f) ==
  /\ inbox[f] = "partial"
  /\ inbox' = [inbox EXCEPT ![f] = "ready"]
  /\ UNCHANGED <<nonce, kind, refused, lastNonce, txs,
                 up, busy, seen, tick, taken, turned, faults, crashes>>

\* What RiskGate.submit answers to the verdict in f now.
Accepts(f) == nonce[f] > lastNonce /\ f \notin refused

Turned(f) == IF f \in refused /\ nonce[f] > lastNonce THEN turned \cup {f} ELSE turned

Land(i) ==
  LET f == txs[i].file IN
  /\ txs[i].status = "pending"
  /\ \/ /\ Accepts(f)
        /\ txs' = [txs EXCEPT ![i].status = "success"]
        /\ lastNonce' = nonce[f]
     \/ /\ ~Accepts(f)
        /\ txs' = [txs EXCEPT ![i].status = "reverted"]
        /\ UNCHANGED lastNonce
  /\ turned' = Turned(f)
  /\ UNCHANGED <<inbox, nonce, kind, refused, up, busy, seen, tick, taken, faults, crashes>>

\* A verdict of the bond lands without this relayer: the run's own transaction,
\* another relayer, anybody.
OthersLand ==
  /\ lastNonce < MaxNonce
  /\ lastNonce' = lastNonce + 1
  /\ UNCHANGED <<inbox, nonce, kind, refused, txs,
                 up, busy, seen, tick, taken, turned, faults, crashes>>

\* StaleVerdict or FutureVerdict by the gate's clock, a DEFAULT on a paused token;
\* and the end of each.  It matters of a verdict that is still open only.
GateTurns(f) ==
  /\ f \in Refusable
  /\ inbox[f] = "ready" /\ kind[f] = "plain" /\ nonce[f] > lastNonce
  /\ \/ f \notin refused /\ refused' = refused \cup {f}
     \/ f \in refused /\ refused' = refused \ {f}
  /\ UNCHANGED <<inbox, nonce, kind, lastNonce, txs,
                 up, busy, seen, tick, taken, turned, faults, crashes>>

-----------------------------------------------------------------------------
(* One tick of watch, and relay() inside it. *)

Unbusy == TRUE      \* slip: ticks overlap
NotBusy == ~busy

StartTick(t) ==
  /\ up /\ NotBusy
  /\ tick[t].pc = "idle"
  /\ busy' = TRUE
  /\ tick' = [tick EXCEPT ![t].pc = "loop",
                          ![t].todo = {f \in Files : inbox[f] \in {"partial", "ready"}}]
  /\ UNCHANGED <<world, up, seen, taken, turned, faults, crashes>>

EndTick(t) ==
  /\ tick[t].pc = "loop" /\ tick[t].todo = {}
  /\ busy' = FALSE
  /\ tick' = [tick EXCEPT ![t] = AtRest]
  /\ UNCHANGED <<world, up, seen, taken, turned, faults, crashes>>

Working(t, f) == tick[t].file = {f}
Goto(t, pc) == tick' = [tick EXCEPT ![t].pc = pc]

SeenAlways(f) == seen \cup {f}   \* slip: marked before it parses
SeenNow(f) == IF inbox[f] = "ready" THEN seen \cup {f} ELSE seen

\* The next name of the listing, in any order: skip it when seen; try to parse
\* it; mark it seen; start relay().  No await in between.
TakeFile(t, f) ==
  /\ tick[t].pc = "loop" /\ f \in tick[t].todo
  /\ \/ /\ f \notin seen /\ inbox[f] = "ready"
        /\ taken' = [taken EXCEPT ![f] = @ + 1]
        /\ tick' = [tick EXCEPT ![t].pc = "verify", ![t].file = {f},
                                ![t].tries = 0, ![t].todo = @ \ {f}]
     \/ /\ ~(f \notin seen /\ inbox[f] = "ready")
        /\ tick' = [tick EXCEPT ![t].todo = @ \ {f}]
        /\ UNCHANGED taken
  /\ seen' = SeenNow(f)
  /\ UNCHANGED <<world, up, busy, turned, faults, crashes>>

\* relay() returned a result that counts as done: rename to .done.json.
Done(t, f) ==
  /\ inbox' = [inbox EXCEPT ![f] = "done"]
  /\ Goto(t, "loop")

\* Signer read, local signature check, delivered-direct.
Verify(t, f) ==
  /\ tick[t].pc = "verify" /\ Working(t, f)
  /\ \/ kind[f] = "bad" /\ Goto(t, "loop") /\ UNCHANGED inbox
     \/ kind[f] = "direct" /\ Done(t, f)
     \/ /\ kind[f] = "plain"
        /\ tick' = [tick EXCEPT ![t].pc = "read", ![t].tries = 0]
        /\ UNCHANGED inbox
  /\ UNCHANGED <<nonce, kind, refused, lastNonce, txs,
                 up, busy, seen, taken, turned, faults, crashes>>

\* gate.snapshot, and already-applied.
ReadNonce(t, f) ==
  /\ tick[t].pc = "read" /\ Working(t, f)
  /\ \/ nonce[f] <= lastNonce /\ Done(t, f)
     \/ nonce[f] > lastNonce /\ Goto(t, "simulate") /\ UNCHANGED inbox
  /\ UNCHANGED <<nonce, kind, refused, lastNonce, txs,
                 up, busy, seen, taken, turned, faults, crashes>>

\* simulateContract: a revert ends relay() with an error.
Simulate(t, f) ==
  /\ tick[t].pc = "simulate" /\ Working(t, f)
  /\ Goto(t, IF Accepts(f) THEN "send" ELSE "loop")
  /\ turned' = Turned(f)
  /\ UNCHANGED <<world, up, busy, seen, taken, faults, crashes>>

OnWire(f) == txs' = Append(txs, [file |-> f, status |-> "pending"])

Send(t, f) ==
  /\ tick[t].pc = "send" /\ Working(t, f)
  /\ OnWire(f)
  /\ tick' = [tick EXCEPT ![t].pc = "receipt", ![t].tx = Len(txs) + 1]
  /\ UNCHANGED <<inbox, nonce, kind, refused, lastNonce,
                 up, busy, seen, taken, turned, faults, crashes>>

DoneAnyway(status) == status # "pending"   \* slip: a reverted receipt counts as done
IsDone(status) == status = "success"

Receipt(t, f) ==
  LET status == txs[tick[t].tx].status IN
  /\ tick[t].pc = "receipt" /\ Working(t, f)
  /\ status # "pending"
  /\ \/ IsDone(status) /\ Done(t, f)
     \/ ~IsDone(status) /\ Goto(t, "loop") /\ UNCHANGED inbox
  /\ UNCHANGED <<nonce, kind, refused, lastNonce, txs,
                 up, busy, seen, taken, turned, faults, crashes>>

-----------------------------------------------------------------------------
(* Faults. *)

GivesUpLate(n) == n >= Attempts   \* slip: one try too many
GivesUp(n) == n + 1 >= Attempts

\* A transport error in an RPC call.  retry() starts the unit again: the signer
\* read alone, or everything from the snapshot on.  An error of the send may
\* come after the node took the transaction.
RpcFault(t, f) ==
  /\ faults < MaxFaults
  /\ tick[t].pc \notin {"idle", "loop"} /\ Working(t, f)
  /\ faults' = faults + 1
  /\ \/ /\ GivesUp(tick[t].tries)
        /\ Goto(t, "loop")
     \/ /\ ~GivesUp(tick[t].tries)
        /\ tick' = [tick EXCEPT ![t].tries = @ + 1,
                                ![t].pc = IF @ = "verify" THEN "verify" ELSE "read"]
  /\ \/ tick[t].pc = "send" /\ OnWire(f)
     \/ UNCHANGED txs
  /\ UNCHANGED <<inbox, nonce, kind, refused, lastNonce, up, busy, seen, taken, turned, crashes>>

\* waitForTransactionReceipt gives up: not a transport error, never retried.
NoReceipt(t, f) ==
  /\ faults < MaxFaults
  /\ tick[t].pc = "receipt" /\ Working(t, f)
  /\ txs[tick[t].tx].status = "pending"
  /\ faults' = faults + 1
  /\ Goto(t, "loop")
  /\ UNCHANGED <<world, up, busy, seen, taken, turned, crashes>>

Crash ==
  /\ up /\ crashes < MaxCrashes
  /\ up' = FALSE /\ crashes' = crashes + 1
  /\ busy' = FALSE /\ seen' = {}
  /\ tick' = [t \in Ticks |-> AtRest]
  /\ taken' = [f \in Files |-> 0] /\ turned' = {}
  /\ UNCHANGED <<world, faults>>

Restart ==
  /\ ~up /\ up' = TRUE
  /\ UNCHANGED <<world, busy, seen, tick, taken, turned, faults, crashes>>

-----------------------------------------------------------------------------

Relay(t, f) ==
  Verify(t, f) \/ ReadNonce(t, f) \/ Simulate(t, f) \/ Send(t, f) \/ Receipt(t, f)

Next ==
  \/ \E f \in Files : Write(f) \/ Complete(f) \/ GateTurns(f)
  \/ \E i \in DOMAIN txs : Land(i)
  \/ OthersLand
  \/ \E t \in Ticks : StartTick(t) \/ EndTick(t)
  \/ \E t \in Ticks, f \in Files : TakeFile(t, f) \/ Relay(t, f)
  \/ \E t \in Ticks, f \in Files : RpcFault(t, f) \/ NoReceipt(t, f)
  \/ Crash \/ Restart

Spec == Init /\ [][Next]_vars

\* The timer keeps firing, the event loop keeps turning, the network executes
\* what it took, and somebody restarts a crashed relayer.
FairSpec ==
  /\ Spec
  /\ WF_vars(\E t \in Ticks : StartTick(t))
  /\ \A t \in Ticks :
       WF_vars(EndTick(t) \/ \E f \in Files : TakeFile(t, f) \/ Relay(t, f))
  /\ WF_vars(\E i \in DOMAIN txs : Land(i))
  /\ WF_vars(Restart)

-----------------------------------------------------------------------------
(* Properties. *)

\* Every variable keeps its type, and a retry unit never runs more than Attempts
\* times.
TypeOK ==
  /\ inbox \in [Files -> {"absent", "partial", "ready", "done"}]
  /\ nonce \in [Files -> Nat]
  /\ kind \in [Files -> Kind]
  /\ refused \subseteq Files
  /\ lastNonce \in Nat
  /\ txs \in Seq(Tx)
  /\ up \in BOOLEAN /\ busy \in BOOLEAN /\ seen \subseteq Files
  /\ tick \in [Ticks -> Flow]
  /\ \A t \in Ticks : tick[t].tries < Attempts
  /\ taken \in [Files -> Nat] /\ turned \subseteq Files
  /\ faults \in Nat /\ crashes \in Nat

\* Ticks never overlap, whatever the timer does while one waits for the chain,
\* and within one life of the process each file is taken up once (relayer/README.md:81:
\* "Ticks never overlap"; relayer/src/index.ts:80: "each file is attempted once per
\* process").
OneAtATime ==
  /\ \A t, u \in Ticks : tick[t].pc # "idle" /\ tick[u].pc # "idle" => t = u
  /\ \A f \in Files : taken[f] <= 1

\* A verdict whose file was put away can never matter again: the bond's nonce
\* has reached it, through this relayer or another way.  Files of verdicts the
\* run sent itself are put away without looking.
DoneIsSettled ==
  \A f \in Files : inbox[f] = "done" /\ kind[f] = "plain" => nonce[f] <= lastNonce

\* A complete verdict in the inbox gets to the chain, through restarts and fewer
\* transport faults than a retry unit has attempts, unless the gate refuses it in
\* its turn.  A refusal may be for now only, too early or of a paused token, and the
\* file is not tried again before a restart all the same: nothing is promised of it.
\* Nor that a file is put away: a transaction sent twice may revert the second time.
VerdictLands ==
  \A f \in Files :
    inbox[f] = "ready" /\ kind[f] = "plain" ~>
      nonce[f] <= lastNonce \/ f \in turned \/ faults >= Attempts
=============================================================================

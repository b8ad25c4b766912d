--------------------------- MODULE OffChainProofs ---------------------------
(***************************************************************************)
(* Theorems about the two programs that act on their own off the chain:    *)
(* the watching relayer and the agent's liquidation protection.            *)
(*                                                                         *)
(* The relayer's are for any files, any number of timer callbacks,         *)
(* attempts, faults and restarts.  IInv says what busy and seen guarantee, *)
(* and that nothing a tick or a transaction refers to is a file that could *)
(* still be written.                                                       *)
(*                                                                         *)
(* Liquidation's are for any policy, loans, prices and number of runs.     *)
(* LiqInv says that whatever is still fresh, a run before it sends or a    *)
(* transaction it sent, counts from one nonce, and what it stands on in    *)
(* the present position.                                                   *)
(***************************************************************************)
EXTENDS Relayer, Liquidation, SumTheorems

-----------------------------------------------------------------------------
(* The relayer. *)

\* busy is up whenever a callback is under way, and one is at most.
BusyInv ==
  /\ \A t \in Ticks : tick[t].pc # "idle" => busy
  /\ \A t, u \in Ticks : tick[t].pc # "idle" /\ tick[u].pc # "idle" => t = u

SeenInv == \A f \in Files : taken[f] = 0 \/ (taken[f] = 1 /\ f \in seen)

Present(f) == inbox[f] # "absent"

FlowInv ==
  \A t \in Ticks :
    /\ \A f \in tick[t].todo \cup tick[t].file : Present(f)
    /\ tick[t].pc = "receipt" =>
         tick[t].tx \in DOMAIN txs /\ tick[t].file = {txs[tick[t].tx].file}

TxInv ==
  \A i \in DOMAIN txs :
    /\ Present(txs[i].file)
    /\ txs[i].status = "success" => nonce[txs[i].file] <= lastNonce

IInv == TypeOK /\ BusyInv /\ SeenInv /\ FlowInv /\ TxInv /\ DoneIsSettled

-----------------------------------------------------------------------------

LEMMA TxFiles ==
  ASSUME IInv
  PROVE  \A i \in DOMAIN txs :
           txs[i] \in Tx /\ txs[i].file \in Files /\ nonce[txs[i].file] \in Nat
<1>1. \A i \in DOMAIN txs : txs[i] \in Tx
  BY DEF IInv, TypeOK
<1> QED
  BY <1>1 DEF Tx, IInv, TypeOK

LEMMA InitIInv == Init => IInv
<1> SUFFICES ASSUME Init PROVE IInv
  OBVIOUS
<1>1. TypeOK
  <2>1. AtRest \in Flow /\ AtRest.tries = 0
    BY DEF AtRest, Flow, PC
  <2>2. tick \in [Ticks -> Flow] /\ \A t \in Ticks : tick[t].tries < Attempts
    BY <2>1, RelayerAssumption DEF Init
  <2>3. txs \in Seq(Tx)
    BY DEF Init
  <2> QED
    BY <2>2, <2>3 DEF Init, TypeOK, Kind
<1>2. BusyInv /\ SeenInv /\ FlowInv
  BY DEF Init, BusyInv, SeenInv, FlowInv, AtRest
<1>3. TxInv /\ DoneIsSettled
  BY DEF Init, TxInv, DoneIsSettled
<1> QED
  BY <1>1, <1>2, <1>3 DEF IInv

LEMMA WriteIInv ==
  ASSUME IInv, NEW f \in Files, Write(f)
  PROVE  IInv'
<1>1. TypeOK'
  BY DEF IInv, TypeOK, Write
<1>2. \A g \in Files : Present(g) => nonce'[g] = nonce[g] /\ inbox'[g] = inbox[g]
  BY DEF IInv, TypeOK, Write, Present
<1>3. inbox'[f] = "partial"
  BY DEF IInv, TypeOK, Write
<1>4. BusyInv' /\ SeenInv'
  BY DEF IInv, BusyInv, SeenInv, Write
<1>5. FlowInv'
  BY <1>2 DEF IInv, TypeOK, FlowInv, Write, Present, Flow
<1>6. TxInv'
  BY <1>2 DEF IInv, TypeOK, TxInv, Write, Present, Tx
<1>7. DoneIsSettled'
  BY <1>2, <1>3 DEF IInv, TypeOK, DoneIsSettled, Write, Present
<1> QED
  BY <1>1, <1>4, <1>5, <1>6, <1>7 DEF IInv

LEMMA LandIInv ==
  ASSUME IInv, NEW i \in DOMAIN txs, Land(i)
  PROVE  IInv'
<1>0. txs \in Seq(Tx) /\ i \in 1 .. Len(txs) /\ txs[i] \in Tx
  BY DEF IInv, TypeOK
<1>9. PICK s \in {"success", "reverted"} : txs' = [txs EXCEPT ![i].status = s]
  BY DEF Land
<1>10. [txs[i] EXCEPT !.status = s] \in Tx /\ [txs[i] EXCEPT !.status = s].file = txs[i].file
  BY <1>0 DEF Tx
<1>1. /\ txs \in Seq(Tx) /\ txs[i] \in Tx
      /\ DOMAIN txs' = DOMAIN txs
      /\ \A j \in DOMAIN txs : txs'[j].file = txs[j].file
      /\ \A j \in DOMAIN txs : j # i => txs'[j] = txs[j]
      /\ txs' \in Seq(Tx)
  BY <1>0, <1>9, <1>10
<1>2. lastNonce' \in Nat /\ lastNonce' >= lastNonce
  BY <1>1 DEF IInv, TypeOK, Land, Accepts, Tx
<1>3. txs'[i].status = "success" => nonce[txs[i].file] <= lastNonce'
  BY <1>1 DEF IInv, TypeOK, Land, Accepts, Tx
<1>4. TypeOK'
  <2>1. turned' \subseteq Files
    BY <1>1 DEF IInv, TypeOK, Land, Turned, Tx
  <2> QED
    BY <1>1, <1>2, <2>1 DEF IInv, TypeOK, Land
<1>5. BusyInv' /\ SeenInv'
  BY DEF IInv, BusyInv, SeenInv, Land
<1>6. FlowInv'
  BY <1>1 DEF IInv, FlowInv, Land, Present
<1>7. TxInv'
  <2>1. UNCHANGED <<inbox, nonce>>
    BY DEF Land
  <2>2. \A j \in DOMAIN txs : Present(txs[j].file) /\ nonce[txs[j].file] \in Nat
    BY TxFiles DEF IInv, TxInv
  <2>3. \A j \in DOMAIN txs : j # i /\ txs'[j].status = "success"
          => nonce[txs[j].file] <= lastNonce'
    BY <1>1, <1>2, <2>2 DEF IInv, TxInv, TypeOK
  <2> QED
    BY <1>1, <1>3, <2>1, <2>2, <2>3 DEF TxInv, Present
<1>8. DoneIsSettled'
  BY <1>2 DEF IInv, TypeOK, DoneIsSettled, Land
<1> QED
  BY <1>4, <1>5, <1>6, <1>7, <1>8 DEF IInv

\* Steps outside the relayer that only complete a file, refuse a verdict or move
\* the bond's nonce up.
LEMMA WorldIInv ==
  ASSUME IInv, (\E f \in Files : Complete(f) \/ GateTurns(f)) \/ OthersLand
  PROVE  IInv'
<1>1. \A g \in Files : /\ Present(g) => inbox'[g] # "absent"
                       /\ inbox'[g] = "done" => inbox[g] = "done"
  BY DEF IInv, TypeOK, Complete, GateTurns, OthersLand, Present
<1>2. lastNonce' \in Nat /\ lastNonce' >= lastNonce
  BY DEF IInv, TypeOK, Complete, GateTurns, OthersLand
<1>3. UNCHANGED <<nonce, kind, txs, up, busy, seen, tick, taken, turned, faults, crashes>>
  BY DEF Complete, GateTurns, OthersLand
<1>4. TypeOK'
  BY <1>2, <1>3 DEF IInv, TypeOK, Complete, GateTurns, OthersLand
<1>5. BusyInv' /\ SeenInv'
  BY <1>3 DEF IInv, BusyInv, SeenInv
<1>6. FlowInv'
  BY <1>1, <1>3 DEF IInv, TypeOK, FlowInv, Present, Flow
<1>7. TxInv'
  BY <1>1, <1>2, <1>3, TxFiles DEF IInv, TypeOK, TxInv, Present
<1>8. DoneIsSettled'
  BY <1>1, <1>2, <1>3 DEF IInv, TypeOK, DoneIsSettled
<1> QED
  BY <1>4, <1>5, <1>6, <1>7, <1>8 DEF IInv

-----------------------------------------------------------------------------
(* The steps of a tick. *)

\* A step of a tick leaves the chain alone, may put the tick's own file away if
\* it is settled, and may send the tick's own file.
Moves(t) ==
  /\ UNCHANGED <<nonce, kind, refused, lastNonce, up>>
  /\ \/ UNCHANGED inbox
     \/ \E f \in tick[t].file \cap Files :
          /\ inbox' = [inbox EXCEPT ![f] = "done"]
          /\ kind[f] = "plain" => nonce[f] <= lastNonce
  /\ \/ UNCHANGED txs
     \/ \E f \in tick[t].file \cap Files :
          txs' = Append(txs, [file |-> f, status |-> "pending"])
  /\ \A u \in Ticks \ {t} : tick'[u] = tick[u]
  /\ \A f \in tick'[t].todo \cup tick'[t].file : f \in Files /\ Present(f)

LEMMA MovesKeeps ==
  ASSUME IInv, NEW t \in Ticks, Moves(t), tick' \in [Ticks -> Flow],
         tick'[t].tries < Attempts,
         seen' \subseteq Files, taken' \in [Files -> Nat], SeenInv',
         busy' \in BOOLEAN, BusyInv',
         turned' \subseteq Files, faults' \in Nat, crashes' = crashes,
         tick'[t].pc = "receipt" =>
           tick'[t].tx \in DOMAIN txs' /\ tick'[t].file = {txs'[tick'[t].tx].file}
  PROVE  IInv'
<1>0. tick \in [Ticks -> Flow] /\ txs \in Seq(Tx)
  BY DEF IInv, TypeOK
<1>1. \A g \in Files : Present(g) => inbox'[g] # "absent"
  BY DEF Moves, IInv, TypeOK, Present
<1>2. inbox' \in [Files -> {"absent", "partial", "ready", "done"}]
  BY DEF Moves, IInv, TypeOK
<1>3. /\ txs' \in Seq(Tx) /\ DOMAIN txs \subseteq DOMAIN txs'
      /\ \A i \in DOMAIN txs : txs'[i] = txs[i]
      /\ \A i \in DOMAIN txs' : i \notin DOMAIN txs =>
           txs'[i].status = "pending" /\ txs'[i].file \in tick[t].file \cap Files
  <2>1. CASE UNCHANGED txs
    BY <1>0, <2>1
  <2>2. ASSUME NEW f \in tick[t].file \cap Files,
               txs' = Append(txs, [file |-> f, status |-> "pending"])
        PROVE  <1>3!:
    <3>1. [file |-> f, status |-> "pending"] \in Tx
      BY DEF Tx
    <3> QED
      BY <1>0, <2>2, <3>1
  <2> QED
    BY <2>1, <2>2 DEF Moves
<1>4. TypeOK'
  <2>1. \A u \in Ticks : tick'[u].tries < Attempts
    BY DEF Moves, IInv, TypeOK
  <2> QED
    BY <1>2, <1>3, <2>1 DEF Moves, IInv, TypeOK
<1>6. \A f \in tick[t].file \cup tick[t].todo : f \in Files /\ Present(f)
  BY <1>0 DEF IInv, FlowInv, Flow
<1>7. FlowInv'
  <2>1. ASSUME NEW u \in Ticks \ {t}
        PROVE  /\ \A f \in tick'[u].todo \cup tick'[u].file : Present(f)'
               /\ tick'[u].pc = "receipt" =>
                    tick'[u].tx \in DOMAIN txs' /\ tick'[u].file = {txs'[tick'[u].tx].file}
    <3>1. tick'[u] = tick[u] /\ tick[u] \in Flow
      BY <1>0 DEF Moves
    <3> QED
      BY <1>1, <1>3, <3>1 DEF IInv, FlowInv, Flow, Present
  <2>2. \A f \in tick'[t].todo \cup tick'[t].file : Present(f)'
    BY <1>1 DEF Moves, Present
  <2> QED
    BY <2>1, <2>2 DEF FlowInv
<1>8. TxInv'
  <2>1. \A i \in DOMAIN txs : Present(txs[i].file) /\ txs[i].file \in Files
    BY TxFiles DEF IInv, TxInv
  <2> QED
    BY <1>1, <1>3, <1>6, <2>1 DEF Moves, IInv, TxInv, Present
<1>9. DoneIsSettled'
  BY DEF Moves, IInv, TypeOK, DoneIsSettled
<1> QED
  BY <1>4, <1>7, <1>8, <1>9 DEF IInv

\* A tick that keeps busy, seen and the history: the common case.
LEMMA QuietMove ==
  ASSUME IInv, NEW t \in Ticks, Moves(t), tick' \in [Ticks -> Flow],
         tick[t].pc # "idle", tick'[t].tries < Attempts,
         UNCHANGED <<busy, seen, taken, crashes>>, turned' \subseteq Files, faults' \in Nat,
         tick'[t].pc = "receipt" =>
           tick'[t].tx \in DOMAIN txs' /\ tick'[t].file = {txs'[tick'[t].tx].file}
  PROVE  IInv'
<1>1. BusyInv'
  BY DEF Moves, IInv, BusyInv
<1>2. SeenInv'
  BY DEF IInv, SeenInv
<1>3. seen' \subseteq Files /\ taken' \in [Files -> Nat] /\ busy' \in BOOLEAN
  BY DEF IInv, TypeOK
<1> QED
  BY <1>1, <1>2, <1>3, MovesKeeps

\* What is known of a working tick.
LEMMA WorkingFacts ==
  ASSUME IInv, NEW t \in Ticks
  PROVE  /\ tick \in [Ticks -> Flow] /\ tick[t] \in Flow
         /\ tick[t].tries \in Nat /\ tick[t].tries < Attempts
         /\ \A f \in tick[t].todo \cup tick[t].file : f \in Files /\ Present(f)
BY DEF IInv, TypeOK, FlowInv, Flow

LEMMA StartIInv ==
  ASSUME IInv, NEW t \in Ticks, StartTick(t)
  PROVE  IInv'
<1>1. tick \in [Ticks -> Flow] /\ tick[t] \in Flow /\ tick[t].tries < Attempts
      /\ \A f \in tick[t].todo \cup tick[t].file : f \in Files /\ Present(f)
  BY WorkingFacts
<1> DEFINE todo == {f \in Files : inbox[f] \in {"partial", "ready"}}
<1>2. tick' = [tick EXCEPT ![t] = [tick[t] EXCEPT !.pc = "loop", !.todo = todo]]
  BY DEF StartTick
<1>3. [tick[t] EXCEPT !.pc = "loop", !.todo = todo] \in Flow
  BY <1>1 DEF Flow, PC
<1>4. tick' \in [Ticks -> Flow] /\ tick'[t].pc = "loop" /\ tick'[t].tries < Attempts
      /\ tick'[t].todo = todo /\ tick'[t].file = tick[t].file
      /\ \A u \in Ticks \ {t} : tick'[u] = tick[u]
  BY <1>1, <1>2, <1>3 DEF Flow
<1>5. Moves(t)
  BY <1>1, <1>4 DEF Moves, StartTick, world, Present
<1>6. BusyInv'
  BY <1>4 DEF StartTick, NotBusy, IInv, BusyInv
<1>7. SeenInv'
  BY DEF StartTick, IInv, SeenInv
<1>8. /\ seen' \subseteq Files /\ taken' \in [Files -> Nat] /\ busy' \in BOOLEAN
      /\ turned' \subseteq Files /\ faults' \in Nat /\ crashes' = crashes
  BY DEF IInv, TypeOK, StartTick
<1> QED
  BY <1>4, <1>5, <1>6, <1>7, <1>8, MovesKeeps

LEMMA EndIInv ==
  ASSUME IInv, NEW t \in Ticks, EndTick(t)
  PROVE  IInv'
<1>1. tick \in [Ticks -> Flow]
  BY WorkingFacts
<1>2. AtRest \in Flow /\ AtRest.pc = "idle" /\ AtRest.tries = 0
      /\ AtRest.todo = {} /\ AtRest.file = {}
  BY DEF AtRest, Flow, PC
<1>3. tick' \in [Ticks -> Flow] /\ tick'[t] = AtRest
      /\ \A u \in Ticks \ {t} : tick'[u] = tick[u]
  BY <1>1, <1>2 DEF EndTick
<1>4. Moves(t)
  BY <1>2, <1>3 DEF Moves, EndTick, world
<1>5. BusyInv'
  BY <1>2, <1>3 DEF EndTick, IInv, BusyInv
<1>6. SeenInv'
  BY DEF EndTick, IInv, SeenInv
<1>7. /\ seen' \subseteq Files /\ taken' \in [Files -> Nat] /\ busy' \in BOOLEAN
      /\ turned' \subseteq Files /\ faults' \in Nat /\ crashes' = crashes
  BY DEF IInv, TypeOK, EndTick
<1> QED
  BY <1>2, <1>3, <1>4, <1>5, <1>6, <1>7, RelayerAssumption, MovesKeeps

LEMMA TakeIInv ==
  ASSUME IInv, NEW t \in Ticks, NEW f \in Files, TakeFile(t, f)
  PROVE  IInv'
<1>1. tick \in [Ticks -> Flow] /\ tick[t] \in Flow /\ tick[t].tries < Attempts
      /\ \A g \in tick[t].todo \cup tick[t].file : g \in Files /\ Present(g)
  BY WorkingFacts
<1>2. PICK r \in Flow :
        /\ tick' \in [Ticks -> Flow] /\ tick'[t] = r
        /\ \A u \in Ticks \ {t} : tick'[u] = tick[u]
        /\ r.pc \in {"loop", "verify"} /\ r.tries < Attempts
        /\ r.todo \cup r.file \subseteq tick[t].todo \cup tick[t].file
  <2>1. f \in tick[t].todo /\ tick[t].pc = "loop"
    BY DEF TakeFile
  <2>2. tick' \in [Ticks -> Flow] /\ \A u \in Ticks \ {t} : tick'[u] = tick[u]
    BY <1>1 DEF TakeFile, Flow, PC
  <2>3. /\ tick'[t].pc \in {"loop", "verify"}
        /\ tick'[t].tries < Attempts
        /\ tick'[t].todo \cup tick'[t].file \subseteq tick[t].todo \cup tick[t].file
    <3>1. CASE f \notin seen /\ inbox[f] = "ready"
      BY <1>1, <2>1, <3>1, RelayerAssumption DEF TakeFile, Flow
    <3>2. CASE ~(f \notin seen /\ inbox[f] = "ready")
      BY <1>1, <2>1, <3>2 DEF TakeFile, Flow
    <3> QED
      BY <3>1, <3>2
  <2> QED
    BY <1>1, <2>2, <2>3
<1>3. tick' \in [Ticks -> Flow] /\ tick'[t] = r
      /\ \A u \in Ticks \ {t} : tick'[u] = tick[u]
  BY <1>1, <1>2
<1>4. Moves(t)
  BY <1>1, <1>2, <1>3 DEF Moves, TakeFile, world
<1>5. BusyInv'
  BY <1>3 DEF TakeFile, IInv, BusyInv
<1>6. SeenInv' /\ taken' \in [Files -> Nat] /\ seen' \subseteq Files
  <2>1. seen \subseteq Files /\ taken \in [Files -> Nat]
    BY DEF IInv, TypeOK
  <2>2. CASE f \notin seen /\ inbox[f] = "ready"
    <3>1. seen' = seen \cup {f} /\ taken' = [taken EXCEPT ![f] = @ + 1] /\ taken[f] = 0
      BY <2>2 DEF TakeFile, SeenNow, IInv, SeenInv
    <3> QED
      BY <2>1, <3>1 DEF IInv, SeenInv
  <2>3. CASE ~(f \notin seen /\ inbox[f] = "ready")
    <3>1. seen' = seen /\ taken' = taken
      BY <2>3 DEF TakeFile, SeenNow
    <3> QED
      BY <2>1, <3>1 DEF IInv, SeenInv
  <2> QED
    BY <2>2, <2>3
<1>7. busy' \in BOOLEAN /\ turned' \subseteq Files /\ faults' \in Nat /\ crashes' = crashes
  BY DEF IInv, TypeOK, TakeFile
<1> QED
  BY <1>2, <1>3, <1>4, <1>5, <1>6, <1>7, MovesKeeps

\* What Goto leaves of a working tick.
LEMMA GotoFacts ==
  ASSUME IInv, NEW t \in Ticks, NEW q \in PC, Goto(t, q)
  PROVE  /\ tick' \in [Ticks -> Flow]
         /\ tick'[t].pc = q /\ tick'[t].tries = tick[t].tries /\ tick'[t].tx = tick[t].tx
         /\ tick'[t].todo = tick[t].todo /\ tick'[t].file = tick[t].file
         /\ \A u \in Ticks \ {t} : tick'[u] = tick[u]
BY WorkingFacts DEF Goto, Flow

\* A working tick goes to a place other than the receipt, putting its file away
\* if the verdict in it is settled, and perhaps leaves a transaction behind.
LEMMA GotoKeeps ==
  ASSUME IInv, NEW t \in Ticks, NEW f \in Files, Working(t, f),
         tick[t].pc # "idle", NEW q \in PC \ {"receipt"}, Goto(t, q),
         UNCHANGED <<nonce, kind, refused, lastNonce, up, busy, seen, taken, crashes>>,
         turned' \subseteq Files, faults' \in Nat,
         UNCHANGED txs \/ OnWire(f),
         \/ UNCHANGED inbox
         \/ inbox' = [inbox EXCEPT ![f] = "done"] /\ (kind[f] = "plain" => nonce[f] <= lastNonce)
  PROVE  IInv'
<1>1. /\ tick' \in [Ticks -> Flow]
      /\ tick'[t].pc = q /\ tick'[t].tries = tick[t].tries
      /\ tick'[t].todo = tick[t].todo /\ tick'[t].file = tick[t].file
      /\ \A u \in Ticks \ {t} : tick'[u] = tick[u]
  BY GotoFacts
<1>2. tick'[t].tries < Attempts /\ f \in tick[t].file \cap Files
      /\ \A g \in tick'[t].todo \cup tick'[t].file : g \in Files /\ Present(g)
  BY <1>1, WorkingFacts DEF Working
<1>3. Moves(t)
  BY <1>1, <1>2 DEF Moves, OnWire
<1> QED
  BY <1>1, <1>2, <1>3, QuietMove

LEMMA VerifyIInv ==
  ASSUME IInv, NEW t \in Ticks, NEW f \in Files, Verify(t, f)
  PROVE  IInv'
<1>1. tick[t].pc = "verify" /\ Working(t, f) /\ turned' \subseteq Files /\ faults' \in Nat /\ Attempts > 0
      /\ UNCHANGED <<nonce, kind, refused, lastNonce, txs, up, busy, seen, taken, crashes>>
  BY RelayerAssumption DEF Verify, IInv, TypeOK
<1>2. CASE kind[f] = "bad" /\ Goto(t, "loop") /\ UNCHANGED inbox
  BY <1>1, <1>2, GotoKeeps DEF PC
<1>3. CASE kind[f] = "direct" /\ Done(t, f)
  BY <1>1, <1>3, GotoKeeps DEF PC, Done
<1>4. CASE /\ tick' = [tick EXCEPT ![t].pc = "read", ![t].tries = 0]
           /\ UNCHANGED inbox
  <2>1. /\ tick' \in [Ticks -> Flow]
        /\ tick'[t].pc = "read" /\ tick'[t].tries = 0
        /\ tick'[t].todo = tick[t].todo /\ tick'[t].file = tick[t].file
        /\ \A u \in Ticks \ {t} : tick'[u] = tick[u]
    BY <1>4, WorkingFacts DEF Flow, PC
  <2>2. Moves(t)
    BY <1>1, <1>4, <2>1, WorkingFacts DEF Moves
  <2> QED
    BY <1>1, <2>1, <2>2, QuietMove
<1> QED
  BY <1>2, <1>3, <1>4 DEF Verify

LEMMA ReadIInv ==
  ASSUME IInv, NEW t \in Ticks, NEW f \in Files, ReadNonce(t, f)
  PROVE  IInv'
<1>1. tick[t].pc # "idle" /\ Working(t, f) /\ turned' \subseteq Files /\ faults' \in Nat
      /\ UNCHANGED <<nonce, kind, refused, lastNonce, txs, up, busy, seen, taken, crashes>>
  BY DEF ReadNonce, IInv, TypeOK
<1>2. CASE nonce[f] <= lastNonce /\ Done(t, f)
  BY <1>1, <1>2, GotoKeeps DEF PC, Done
<1>3. CASE Goto(t, "simulate") /\ UNCHANGED inbox
  BY <1>1, <1>3, GotoKeeps DEF PC
<1> QED
  BY <1>2, <1>3 DEF ReadNonce

LEMMA SimulateIInv ==
  ASSUME IInv, NEW t \in Ticks, NEW f \in Files, Simulate(t, f)
  PROVE  IInv'
<1>1. PICK q \in {"send", "loop"} : Goto(t, q)
  BY DEF Simulate
<1>2. turned' \subseteq Files /\ faults' \in Nat
  BY DEF Simulate, Turned, IInv, TypeOK
<1>3. /\ tick[t].pc # "idle" /\ Working(t, f)
      /\ UNCHANGED <<inbox, nonce, kind, refused, lastNonce, txs, up, busy, seen, taken, crashes>>
  BY DEF Simulate, world
<1> QED
  BY <1>1, <1>2, <1>3, GotoKeeps DEF PC

LEMMA SendIInv ==
  ASSUME IInv, NEW t \in Ticks, NEW f \in Files, Send(t, f)
  PROVE  IInv'
<1>1. txs \in Seq(Tx) /\ Len(txs) \in Nat
  BY DEF IInv, TypeOK
<1>2. [file |-> f, status |-> "pending"] \in Tx
  BY DEF Tx
<1>3. Len(txs) + 1 \in DOMAIN txs' /\ txs'[Len(txs) + 1].file = f
  BY <1>1, <1>2 DEF Send, OnWire
<1>4. /\ tick' \in [Ticks -> Flow]
      /\ tick'[t].pc = "receipt" /\ tick'[t].tries = tick[t].tries
      /\ tick'[t].tx = Len(txs) + 1
      /\ tick'[t].todo = tick[t].todo /\ tick'[t].file = {f}
      /\ \A u \in Ticks \ {t} : tick'[u] = tick[u]
  <2>1. tick' = [tick EXCEPT ![t] = [tick[t] EXCEPT !.pc = "receipt", !.tx = Len(txs) + 1]]
    BY DEF Send
  <2> DEFINE r == [tick[t] EXCEPT !.pc = "receipt", !.tx = Len(txs) + 1]
  <2>2. tick[t] \in Flow /\ tick \in [Ticks -> Flow] /\ Len(txs) + 1 \in Nat
    BY <1>1, WorkingFacts
  <2>3. /\ r \in Flow /\ r.pc = "receipt" /\ r.tries = tick[t].tries
        /\ r.tx = Len(txs) + 1 /\ r.todo = tick[t].todo /\ r.file = tick[t].file
    BY <2>2 DEF Flow, PC
  <2>4. tick[t].file = {f}
    BY DEF Send, Working
  <2> QED
    BY <2>1, <2>2, <2>3, <2>4
<1>5. Moves(t)
  BY <1>4, WorkingFacts DEF Moves, Send, OnWire, Working
<1> QED
  BY <1>3, <1>4, <1>5, WorkingFacts, QuietMove DEF Send, IInv, TypeOK

LEMMA ReceiptIInv ==
  ASSUME IInv, NEW t \in Ticks, NEW f \in Files, Receipt(t, f)
  PROVE  IInv'
<1>1. tick[t].pc # "idle" /\ Working(t, f) /\ turned' \subseteq Files /\ faults' \in Nat
      /\ UNCHANGED <<nonce, kind, refused, lastNonce, txs, up, busy, seen, taken, crashes>>
  BY DEF Receipt, IInv, TypeOK
<1>2. CASE IsDone(txs[tick[t].tx].status) /\ Done(t, f)
  <2>1. tick[t].tx \in DOMAIN txs /\ txs[tick[t].tx].file = f
    BY DEF Receipt, Working, IInv, FlowInv
  <2>2. nonce[f] <= lastNonce
    BY <1>2, <2>1 DEF IsDone, IInv, TxInv
  <2> QED
    BY <1>1, <1>2, <2>2, GotoKeeps DEF PC, Done
<1>3. CASE Goto(t, "loop") /\ UNCHANGED inbox
  BY <1>1, <1>3, GotoKeeps DEF PC
<1> QED
  BY <1>2, <1>3 DEF Receipt

LEMMA FaultIInv ==
  ASSUME IInv, NEW t \in Ticks, NEW f \in Files, RpcFault(t, f)
  PROVE  IInv'
<1>1. /\ tick[t].pc # "idle" /\ Working(t, f) /\ turned' \subseteq Files /\ faults' \in Nat
      /\ UNCHANGED <<inbox, nonce, kind, refused, lastNonce, up, busy, seen, taken, crashes>>
      /\ UNCHANGED txs \/ OnWire(f)
  BY DEF RpcFault, IInv, TypeOK
<1>2. CASE Goto(t, "loop")
  BY <1>1, <1>2, GotoKeeps DEF PC
<1>3. CASE /\ ~GivesUp(tick[t].tries)
           /\ tick' = [tick EXCEPT ![t].tries = @ + 1,
                                   ![t].pc = IF @ = "verify" THEN "verify" ELSE "read"]
  <2>1. tick[t].tries + 1 < Attempts /\ tick[t].tries + 1 \in Nat
    BY <1>3, WorkingFacts, RelayerAssumption DEF GivesUp
  <2>2. /\ tick' \in [Ticks -> Flow]
        /\ tick'[t].pc \in {"verify", "read"} /\ tick'[t].tries = tick[t].tries + 1
        /\ tick'[t].todo = tick[t].todo /\ tick'[t].file = tick[t].file
        /\ \A u \in Ticks \ {t} : tick'[u] = tick[u]
    BY <1>3, <2>1, WorkingFacts DEF Flow, PC
  <2>3. Moves(t)
    BY <1>1, <2>2, WorkingFacts DEF Moves, OnWire, Working
  <2> QED
    BY <1>1, <2>1, <2>2, <2>3, QuietMove
<1> QED
  BY <1>2, <1>3 DEF RpcFault

LEMMA NoReceiptIInv ==
  ASSUME IInv, NEW t \in Ticks, NEW f \in Files, NoReceipt(t, f)
  PROVE  IInv'
<1>1. "loop" \in PC \ {"receipt"} /\ Goto(t, "loop")
  BY DEF PC, NoReceipt
<1>2. /\ tick[t].pc # "idle" /\ Working(t, f) /\ turned' \subseteq Files /\ faults' \in Nat
      /\ UNCHANGED <<inbox, nonce, kind, refused, lastNonce, txs, up, busy, seen, taken, crashes>>
  BY DEF NoReceipt, IInv, TypeOK, world
<1> QED
  BY <1>1, <1>2, GotoKeeps

LEMMA CrashIInv ==
  ASSUME IInv, Crash
  PROVE  IInv'
<1>1. AtRest \in Flow /\ AtRest.pc = "idle" /\ AtRest.tries = 0
      /\ AtRest.todo = {} /\ AtRest.file = {}
  BY DEF AtRest, Flow, PC
<1>2. \A t \in Ticks : tick'[t] = AtRest
  BY DEF Crash
<1>3. TypeOK'
  <2>1. tick' \in [Ticks -> Flow] /\ \A t \in Ticks : tick'[t].tries < Attempts
    BY <1>1, RelayerAssumption DEF Crash
  <2>2. taken' \in [Files -> Nat] /\ crashes' \in Nat
    BY DEF Crash, IInv, TypeOK
  <2> QED
    BY <2>1, <2>2 DEF Crash, world, IInv, TypeOK
<1>4. BusyInv' /\ SeenInv'
  BY <1>1, <1>2 DEF Crash, BusyInv, SeenInv
<1>5. FlowInv'
  BY <1>1, <1>2 DEF FlowInv
<1>6. TxInv' /\ DoneIsSettled'
  BY DEF Crash, world, IInv, TxInv, DoneIsSettled, Present
<1> QED
  BY <1>3, <1>4, <1>5, <1>6 DEF IInv

LEMMA IdleIInv ==
  ASSUME IInv, Restart \/ UNCHANGED vars
  PROVE  IInv'
<1>1. up' \in BOOLEAN
  BY DEF Restart, vars, IInv, TypeOK
<1>2. UNCHANGED <<inbox, nonce, kind, refused, lastNonce, txs,
                  busy, seen, tick, taken, turned, faults, crashes>>
  BY DEF Restart, vars, world
<1> QED
  BY <1>1, <1>2 DEF IInv, TypeOK, BusyInv, SeenInv, FlowInv, TxInv, DoneIsSettled, Present

LEMMA NextIInv ==
  ASSUME IInv, [Next]_vars
  PROVE  IInv'
<1>1. ASSUME NEW f \in Files, Write(f)
      PROVE  IInv'
  BY <1>1, WriteIInv
<1>2. ASSUME NEW f \in Files, Complete(f) \/ GateTurns(f)
      PROVE  IInv'
  BY <1>2, WorldIInv
<1>3. ASSUME NEW i \in DOMAIN txs, Land(i)
      PROVE  IInv'
  BY <1>3, LandIInv
<1>4. CASE OthersLand
  BY <1>4, WorldIInv
<1>5. ASSUME NEW t \in Ticks, StartTick(t) \/ EndTick(t)
      PROVE  IInv'
  BY <1>5, StartIInv, EndIInv
<1>6. ASSUME NEW t \in Ticks, NEW f \in Files, TakeFile(t, f)
      PROVE  IInv'
  BY <1>6, TakeIInv
<1>7. ASSUME NEW t \in Ticks, NEW f \in Files, Relay(t, f)
      PROVE  IInv'
  BY <1>7, VerifyIInv, ReadIInv, SimulateIInv, SendIInv, ReceiptIInv DEF Relay
<1>8. ASSUME NEW t \in Ticks, NEW f \in Files, RpcFault(t, f) \/ NoReceipt(t, f)
      PROVE  IInv'
  BY <1>8, FaultIInv, NoReceiptIInv
<1>9. CASE Crash
  BY <1>9, CrashIInv
<1>10. CASE Restart \/ UNCHANGED vars
  BY <1>10, IdleIInv
<1> QED
  BY <1>1, <1>2, <1>3, <1>4, <1>5, <1>6, <1>7, <1>8, <1>9, <1>10 DEF Next

\* The invariant holds in every state the relayer reaches.
THEOREM Invariance == Spec => []IInv
BY InitIInv, NextIInv, PTL DEF Spec

\* Every variable keeps its type and a retry unit never outruns its attempts.
THEOREM TypeCorrect == Spec => []TypeOK
<1>1. IInv => TypeOK
  BY DEF IInv
<1> QED
  BY <1>1, Invariance, PTL

\* However many timer callbacks there are, they never overlap, and no file is
\* taken up twice by one process.
THEOREM NeverOverlaps == Spec => []OneAtATime
<1>1. IInv => OneAtATime
  BY DEF IInv, TypeOK, BusyInv, SeenInv, OneAtATime
<1> QED
  BY <1>1, Invariance, PTL

\* A file put away never held a verdict that could still take effect, through
\* any number of lost answers, crashes and competing relayers.
THEOREM Settled == Spec => []DoneIsSettled
<1>1. IInv => DoneIsSettled
  BY DEF IInv
<1> QED
  BY <1>1, Invariance, PTL

-----------------------------------------------------------------------------
(* Liquidation protection. *)

LoanType == [collateral : Nat, debt : Nat, vusd : Nat, veth : Nat]
ReadType == [collateral : Nat, debt : Nat, vusd : Nat, veth : Nat, price : Nat, age : Nat]
PlanType == [repay : Nat, deposit : Nat]
RunType  == [at : {"signed"}, read : ReadType, plan : PlanType, nonce : Nat, fresh : BOOLEAN]
TxType   == [kind : {"repay", "deposit"}, amount : Nat, nonce : Nat, fresh : BOOLEAN]

\* A state on which the policy acts.
Endangered(s) == s.debt > 0 /\ s.vusd > 0 /\ HfX100(s.collateral, s.debt, s.price) <= TriggerHf

\* Every run under way carries what decideLiq made of its read.
Planned(x) ==
  /\ Endangered(x.read)
  /\ ~Throws(x.read) /\ ~Spared(x.read)
  /\ x.plan = DecideLiq(x.read)

LiqShape ==
  /\ LiqTypeOK
  /\ IsFiniteSet(pool) /\ pool \subseteq TxType
  /\ run \in [Runs -> {NoRead} \cup RunType]
  /\ \A r \in Runs : run[r] # NoRead => Planned(run[r])
  /\ \A t \in pool : t.amount > 0

Fresh(r) == run[r] # NoRead /\ run[r].fresh

Base(t) == IF t.kind = "repay" THEN t.nonce ELSE t.nonce - 1

\* The nonces that what is fresh counts from.
Bases == {run[r].nonce : r \in {q \in Runs : Fresh(q)}} \cup {Base(t) : t \in {u \in pool : u.fresh}}

OneBase == \A a, b \in Bases : a = b /\ a <= latest

Ages == \A r \in Runs : Fresh(r) /\ run[r].nonce < latest => age = 0

SameRead(s) ==
  /\ s.collateral = loan.collateral /\ s.debt = loan.debt /\ s.vusd = loan.vusd
  /\ s.veth = loan.veth /\ s.price = price

Short == ~Met(Read, 0, 0)
ShortAfter == ~Met(Read, Repay(Read), 0)

RunStands(x) ==
  /\ latest = x.nonce => SameRead(x.read)
  /\ latest = x.nonce + 1 /\ x.plan.deposit > 0 => Short

TxStands(t) ==
  /\ t.kind = "repay" => t.amount = Repay(Read) /\ Endangered(Read)
  /\ t.kind = "deposit" => IF t.nonce = latest THEN Short ELSE ShortAfter

Stands ==
  /\ \A r \in Runs : Fresh(r) => RunStands(run[r])
  /\ \A t \in pool : t.fresh => TxStands(t)

LiqInv == LiqShape /\ OneBase /\ Ages /\ Stands
-----------------------------------------------------------------------------
(* The plan. *)

\* What a read is worth to the policy: the value of the collateral at 78 % of its price,
\* and a hundred times the target.
Worth(s) == s.collateral * s.price * LT
Goal == TargetHf * 100

LEMMA GoalNat == Goal \in Nat \ {0}
BY LiquidationAssumption DEF Goal

LEMMA WorthNat ==
  ASSUME NEW s \in ReadType
  PROVE  Worth(s) \in Nat /\ s.debt \in Nat /\ s.collateral \in Nat /\ s.price \in Nat
BY DEF ReadType, Worth, LT

LEMMA MetIs ==
  ASSUME NEW s \in ReadType, NEW n \in Nat, NEW k \in Nat, s.debt = n + k
  PROVE  Met(s, n, 0) <=> k * Goal <= Worth(s)
<1>1. s.debt - n = k /\ s.collateral + 0 = s.collateral
  BY DEF ReadType
<1>2. Goal * k = k * Goal
  BY GoalNat
<1> QED
  BY <1>1, <1>2, GoalNat, WorthNat DEF Met, Goal, Worth

LEMMA TargetIs ==
  ASSUME NEW s \in ReadType
  PROVE  /\ TargetDebt(s) \in Nat
         /\ \A k \in Nat : k * Goal <= Worth(s) <=> k <= TargetDebt(s)
<1>1. TargetDebt(s) = Worth(s) \div Goal
  BY LiquidationAssumption DEF TargetDebt, Worth, Goal
<1>2. PICK w \in Nat, g \in Nat \ {0} : w = Worth(s) /\ g = Goal
  BY GoalNat, WorthNat
<1>3. PICK q \in Nat : q = w \div g /\ q * g <= w /\ w < q * g + g
  BY Floors
<1>4. ASSUME NEW k \in Nat, k <= q PROVE k * g <= w
  <2>1. k * g <= q * g
    BY <1>4, Scaled
  <2>2. k * g \in Nat /\ q * g \in Nat
    OBVIOUS
  <2> QED
    BY <2>1, <2>2, <1>3
<1>5. ASSUME NEW k \in Nat, q < k PROVE w < k * g
  <2>1. q + 1 <= k /\ q + 1 \in Nat
    BY <1>5
  <2>2. (q + 1) * g <= k * g
    BY <2>1, Scaled
  <2>3. (q + 1) * g = q * g + g /\ k * g \in Nat /\ q * g \in Nat
    OBVIOUS
  <2> QED
    BY <2>2, <2>3, <1>3
<1>6. \A k \in Nat : k * g <= w <=> k <= q
  <2> SUFFICES ASSUME NEW k \in Nat PROVE k * g <= w <=> k <= q
    OBVIOUS
  <2>1. k * g \in Nat
    OBVIOUS
  <2> QED
    BY <2>1, <1>4, <1>5
<1> QED
  BY <1>1, <1>2, <1>3, <1>6

\* The repayment is within debt, cap and reserve; whatever is less does not meet the
\* target, and it does itself unless it is one of them.
LEMMA RepayFacts ==
  ASSUME NEW s \in ReadType
  PROVE  /\ Repay(s) \in Nat /\ Repay(s) <= s.debt /\ Repay(s) <= MaxRepay /\ Repay(s) <= s.vusd
         /\ \A n \in Nat : n < Repay(s) => ~Met(s, n, 0)
         /\ Met(s, Repay(s), 0) \/ Repay(s) = MaxRepay \/ Repay(s) = s.vusd
         /\ ~Met(s, 0, 0) /\ s.vusd > 0 => Repay(s) > 0
<1>1. s.debt \in Nat /\ s.vusd \in Nat /\ MaxRepay \in Nat /\ MaxRepay > 0
  BY LiquidationAssumption DEF ReadType
<1>2. TargetDebt(s) \in Nat
  BY TargetIs
<1>3. /\ Repay(s) \in Nat /\ Repay(s) <= s.debt /\ Repay(s) <= MaxRepay /\ Repay(s) <= s.vusd
      /\ Repay(s) > 0 => s.debt - Repay(s) >= TargetDebt(s)
      /\ s.debt - Repay(s) <= TargetDebt(s) \/ Repay(s) = MaxRepay \/ Repay(s) = s.vusd
      /\ s.debt > TargetDebt(s) /\ s.vusd > 0 => Repay(s) > 0
  BY <1>1, <1>2 DEF Repay, Least
<1>4. \A n \in Nat : n <= s.debt => (Met(s, n, 0) <=> s.debt - n <= TargetDebt(s))
  <2> SUFFICES ASSUME NEW n \in Nat, n <= s.debt
               PROVE  Met(s, n, 0) <=> s.debt - n <= TargetDebt(s)
    OBVIOUS
  <2>1. s.debt - n \in Nat /\ s.debt = n + (s.debt - n)
    BY <1>1
  <2> QED
    BY <2>1, MetIs, TargetIs
<1>5. ASSUME NEW n \in Nat, n < Repay(s) PROVE ~Met(s, n, 0)
  <2>1. n <= s.debt /\ ~(s.debt - n <= TargetDebt(s))
    BY <1>1, <1>2, <1>3, <1>5
  <2> QED
    BY <2>1, <1>4
<1>6. Met(s, Repay(s), 0) <=> s.debt - Repay(s) <= TargetDebt(s)
  BY <1>3, <1>4
<1>7. Met(s, 0, 0) <=> s.debt <= TargetDebt(s)
  BY <1>1, <1>2, <1>4
<1> QED
  BY <1>1, <1>2, <1>3, <1>5, <1>6, <1>7

\* A position at the trigger or below misses the target.
LEMMA HfIs ==
  ASSUME NEW s \in ReadType, s.debt > 0
  PROVE  /\ HfX100(s.collateral, s.debt, s.price) \in Nat
         /\ HfX100(s.collateral, s.debt, s.price) < TargetHf <=> ~Met(s, 0, 0)
<1>1. PICK d \in Nat \ {0}, w \in Nat : d = s.debt /\ w = Worth(s)
  BY WorthNat
<1>2. HfX100(s.collateral, s.debt, s.price) = w \div (100 * d)
  BY <1>1 DEF HfX100, Worth
<1>3. PICK e \in Nat \ {0} : e = 100 * d
  BY <1>1
<1>4. PICK q \in Nat : q = w \div e /\ q * e <= w /\ w < q * e + e
  BY Floors
<1>5. TargetHf \in Nat /\ d * Goal = TargetHf * e
  BY <1>3, LiquidationAssumption DEF Goal
<1>6. PICK h \in Nat : h = TargetHf
  BY <1>5
<1>7. ASSUME q < h PROVE w < h * e
  <2>1. q + 1 <= h /\ q + 1 \in Nat
    BY <1>7
  <2>2. (q + 1) * e <= h * e
    BY <2>1, Scaled
  <2>3. (q + 1) * e = q * e + e /\ h * e \in Nat /\ q * e \in Nat
    OBVIOUS
  <2> QED
    BY <2>2, <2>3, <1>4
<1>8. ASSUME h <= q PROVE h * e <= w
  <2>1. h * e <= q * e
    BY <1>8, Scaled
  <2>2. h * e \in Nat /\ q * e \in Nat
    OBVIOUS
  <2> QED
    BY <2>1, <2>2, <1>4
<1>9. h * e \in Nat /\ (q < h <=> ~(h * e <= w))
  <2>1. h * e \in Nat
    OBVIOUS
  <2> QED
    BY <2>1, <1>7, <1>8
<1>10. Met(s, 0, 0) <=> d * Goal <= w
  <2>1. s.debt = 0 + d
    BY <1>1
  <2> QED
    BY <2>1, <1>1, MetIs
<1>11. HfX100(s.collateral, s.debt, s.price) = q
  BY <1>2, <1>3, <1>4
<1> QED
  BY <1>5, <1>6, <1>9, <1>10, <1>11

\* A quotient rounded up is the least that is enough.
LEMMA Ceiling ==
  ASSUME NEW a \in Nat, NEW u \in Nat \ {0}
  PROVE  /\ (a + u - 1) \div u \in Nat
         /\ \A k \in Nat : a <= k * u <=> (a + u - 1) \div u <= k
<1>1. PICK q \in Nat : q = (a + u - 1) \div u /\ q * u <= a + u - 1 /\ a + u - 1 < q * u + u
  <2>1. a + u - 1 \in Nat
    OBVIOUS
  <2> QED
    BY <2>1, Floors
<1>2. q * u \in Nat
  OBVIOUS
<1>3. ASSUME NEW k \in Nat, q <= k PROVE a <= k * u
  <2>1. q * u <= k * u /\ k * u \in Nat
    BY <1>3, Scaled
  <2> QED
    BY <2>1, <1>1, <1>2
<1>4. ASSUME NEW k \in Nat, k < q PROVE k * u < a
  <2>1. (k + 1) * u <= q * u
    BY <1>4, Scaled
  <2>2. (k + 1) * u = k * u + u /\ k * u \in Nat
    OBVIOUS
  <2> QED
    BY <2>1, <2>2, <1>1, <1>2
<1>5. \A k \in Nat : a <= k * u <=> q <= k
  <2> SUFFICES ASSUME NEW k \in Nat PROVE a <= k * u <=> q <= k
    OBVIOUS
  <2>1. k * u \in Nat
    OBVIOUS
  <2> QED
    BY <2>1, <1>3, <1>4
<1> QED
  BY <1>1, <1>5

\* The deposit on top of a repayment of n that leaves a debt of k is within cap and
\* reserve; whatever is less does not meet the target, and it does itself unless it is
\* one of them.
LEMMA DepositFacts ==
  ASSUME NEW s \in ReadType, NEW n \in Nat, NEW k \in Nat, s.debt = n + k, k = 0 \/ s.price > 0
  PROVE  /\ Deposit(s, k) \in Nat /\ Deposit(s, k) <= MaxDeposit /\ Deposit(s, k) <= s.veth
         /\ \A m \in Nat : m < Deposit(s, k) => ~Met(s, n, m)
         /\ Met(s, n, Deposit(s, k)) \/ Deposit(s, k) = MaxDeposit \/ Deposit(s, k) = s.veth
<1>1. s.collateral \in Nat /\ s.price \in Nat /\ s.veth \in Nat /\ MaxDeposit \in Nat
  BY LiquidationAssumption DEF ReadType
<1>2. s.debt - n = k
  OBVIOUS
<1>3. CASE k = 0
  <2>1. Deposit(s, k) = 0
    BY <1>3 DEF Deposit
  <2>2. (s.collateral + 0) * s.price * LT >= TargetHf * 100 * 0
    <3>1. s.collateral * s.price * LT \in Nat
      BY <1>1 DEF LT
    <3> QED
      BY <3>1, <1>1, LiquidationAssumption
  <2>3. Met(s, n, 0)
    BY <2>2, <1>2, <1>3 DEF Met
  <2> QED
    BY <2>1, <2>3, <1>1
<1>4. CASE k > 0
  <2>1. PICK u \in Nat \ {0} : u = s.price * LT
    BY <1>1, <1>4 DEF LT
  <2>2. PICK a \in Nat : a = TargetHf * 100 * k
    BY LiquidationAssumption
  <2>3. NeedC(s, k) = (a + u - 1) \div u
    BY <2>1, <2>2 DEF NeedC
  <2>4. PICK q \in Nat : q = NeedC(s, k) /\ \A c \in Nat : a <= c * u <=> q <= c
    BY <2>3, Ceiling
  <2>5. \A m \in Nat : Met(s, n, m) <=> q <= s.collateral + m
    <3> SUFFICES ASSUME NEW m \in Nat
                 PROVE  Met(s, n, m) <=> q <= s.collateral + m
      OBVIOUS
    <3>1. PICK c \in Nat : c = s.collateral + m
      BY <1>1
    <3>2. c * s.price * LT = c * u
      BY <2>1, <1>1 DEF LT
    <3>3. Met(s, n, m) <=> c * u >= a
      BY <3>1, <3>2, <2>2, <1>2 DEF Met
    <3>4. c * u \in Nat
      OBVIOUS
    <3> QED
      BY <3>1, <3>3, <3>4, <2>4
  <2>6. Deposit(s, k) = IF q > s.collateral THEN Least(q - s.collateral, Least(MaxDeposit, s.veth)) ELSE 0
    BY <1>4, <2>4 DEF Deposit
  <2>7. /\ Deposit(s, k) \in Nat /\ Deposit(s, k) <= MaxDeposit /\ Deposit(s, k) <= s.veth
        /\ \A m \in Nat : m < Deposit(s, k) => s.collateral + m < q
        /\ q <= s.collateral + Deposit(s, k) \/ Deposit(s, k) = MaxDeposit \/ Deposit(s, k) = s.veth
    BY <2>6, <1>1 DEF Least
  <2> QED
    BY <2>5, <2>7, <1>1
<1> QED
  BY <1>3, <1>4

\* What decideLiq plans on a read it does not throw on.
LEMMA PlanFacts ==
  ASSUME NEW s \in ReadType, ~Throws(s), ~Spared(s)
  PROVE  /\ DecideLiq(s) \in PlanType
         /\ DecideLiq(s).repay = Repay(s)
         /\ \A m \in Nat : m < DecideLiq(s).deposit => ~Met(s, Repay(s), m)
         /\ DecideLiq(s).deposit <= MaxDeposit /\ DecideLiq(s).deposit <= s.veth
         /\ \/ Met(s, Repay(s), DecideLiq(s).deposit)
            \/ DecideLiq(s).deposit = MaxDeposit \/ DecideLiq(s).deposit = s.veth
<1>1. Repay(s) \in Nat /\ Repay(s) <= s.debt /\ s.debt \in Nat /\ s.price \in Nat
  BY RepayFacts DEF ReadType
<1>2. PICK k \in Nat : k = s.debt - Repay(s)
  BY <1>1
<1>3. s.debt = Repay(s) + k /\ (k = 0 \/ s.price > 0)
  BY <1>1, <1>2 DEF Throws
<1>4. DecideLiq(s) = [repay |-> Repay(s), deposit |-> Deposit(s, k)]
  BY <1>2 DEF DecideLiq
<1>5. /\ Deposit(s, k) \in Nat /\ Deposit(s, k) <= MaxDeposit /\ Deposit(s, k) <= s.veth
      /\ \A m \in Nat : m < Deposit(s, k) => ~Met(s, Repay(s), m)
      /\ Met(s, Repay(s), Deposit(s, k)) \/ Deposit(s, k) = MaxDeposit \/ Deposit(s, k) = s.veth
  BY <1>1, <1>3, DepositFacts
<1> QED
  BY <1>1, <1>4, <1>5 DEF PlanType

LEMMA PlannedIsExact ==
  ASSUME NEW x \in RunType, Planned(x)
  PROVE  LET s == x.read  p == x.plan IN
         /\ p.repay = LeastOrAll(0 .. Min({s.debt, MaxRepay, s.vusd}), LAMBDA n : Met(s, n, 0))
         /\ p.deposit = LeastOrAll(0 .. Min({MaxDeposit, s.veth}), LAMBDA m : Met(s, p.repay, m))
<1> DEFINE s == x.read
           p == x.plan
<1>1. s \in ReadType /\ ~Throws(s) /\ ~Spared(s) /\ p = DecideLiq(s)
  BY DEF RunType, Planned
<1>2. s.debt \in Nat /\ s.vusd \in Nat /\ s.veth \in Nat /\ MaxRepay \in Nat /\ MaxDeposit \in Nat
  BY <1>1, LiquidationAssumption DEF ReadType
<1>3. PICK a \in Nat : /\ a = p.repay /\ a = Repay(s)
                       /\ a <= s.debt /\ a <= MaxRepay /\ a <= s.vusd
                       /\ \A n \in Nat : n < a => ~Met(s, n, 0)
                       /\ Met(s, a, 0) \/ a = MaxRepay \/ a = s.vusd
  BY <1>1, PlanFacts, RepayFacts
<1>4. PICK d \in Nat : /\ d = p.deposit
                       /\ d <= MaxDeposit /\ d <= s.veth
                       /\ \A m \in Nat : m < d => ~Met(s, a, m)
                       /\ Met(s, a, d) \/ d = MaxDeposit \/ d = s.veth
  BY <1>1, <1>3, PlanFacts DEF PlanType
<1> HIDE DEF s, p
<1>5. a = LeastOrAll(0 .. Min({s.debt, MaxRepay, s.vusd}), LAMBDA n : Met(s, n, 0))
  <2>1. PICK b \in Nat : /\ b \in {s.debt, MaxRepay, s.vusd}
                         /\ b <= s.debt /\ b <= MaxRepay /\ b <= s.vusd
    BY <1>2
  <2>2. Min({s.debt, MaxRepay, s.vusd}) = b
    <3>1. {s.debt, MaxRepay, s.vusd} \in SUBSET Int /\ \A n \in {s.debt, MaxRepay, s.vusd} : b <= n
      BY <1>2, <2>1
    <3> QED
      BY <3>1, <2>1, LeastIs
  <2>3. a <= b /\ (a = b \/ Met(s, a, 0))
    BY <1>2, <1>3, <2>1
  <2>4. CASE Met(s, a, 0)
    <3>1. a \in {n \in 0 .. b : Met(s, n, 0)} /\ {n \in 0 .. b : Met(s, n, 0)} \in SUBSET Int
      BY <2>3, <2>4
    <3>2. \A n \in {n \in 0 .. b : Met(s, n, 0)} : a <= n
      BY <1>3
    <3>3. Min({n \in 0 .. b : Met(s, n, 0)}) = a
      BY <3>1, <3>2, LeastIs
    <3> QED
      BY <3>1, <3>3, <2>2 DEF LeastOrAll
  <2>5. CASE ~Met(s, a, 0)
    <3>1. a = b /\ \A n \in 0 .. b : ~Met(s, n, 0)
      BY <1>3, <2>3, <2>5
    <3>2. 0 .. b \in SUBSET Int /\ b \in 0 .. b /\ \A n \in 0 .. b : n <= b
      OBVIOUS
    <3>3. Max(0 .. b) = b
      BY <3>2, GreatestIs
    <3> QED
      BY <3>1, <3>3, <2>2 DEF LeastOrAll
  <2> QED
    BY <2>4, <2>5
<1>6. d = LeastOrAll(0 .. Min({MaxDeposit, s.veth}), LAMBDA m : Met(s, a, m))
  <2>1. PICK b \in Nat : b \in {MaxDeposit, s.veth} /\ b <= MaxDeposit /\ b <= s.veth
    BY <1>2
  <2>2. Min({MaxDeposit, s.veth}) = b
    <3>1. {MaxDeposit, s.veth} \in SUBSET Int /\ \A n \in {MaxDeposit, s.veth} : b <= n
      BY <1>2, <2>1
    <3> QED
      BY <3>1, <2>1, LeastIs
  <2>3. d <= b /\ (d = b \/ Met(s, a, d))
    BY <1>2, <1>4, <2>1
  <2>4. CASE Met(s, a, d)
    <3>1. d \in {m \in 0 .. b : Met(s, a, m)} /\ {m \in 0 .. b : Met(s, a, m)} \in SUBSET Int
      BY <2>3, <2>4
    <3>2. \A m \in {m \in 0 .. b : Met(s, a, m)} : d <= m
      BY <1>4
    <3>3. Min({m \in 0 .. b : Met(s, a, m)}) = d
      BY <3>1, <3>2, LeastIs
    <3> QED
      BY <3>1, <3>3, <2>2 DEF LeastOrAll
  <2>5. CASE ~Met(s, a, d)
    <3>1. d = b /\ \A m \in 0 .. b : ~Met(s, a, m)
      BY <1>4, <2>3, <2>5
    <3>2. 0 .. b \in SUBSET Int /\ b \in 0 .. b /\ \A n \in 0 .. b : n <= b
      OBVIOUS
    <3>3. Max(0 .. b) = b
      BY <3>2, GreatestIs
    <3> QED
      BY <3>1, <3>3, <2>2 DEF LeastOrAll
  <2> QED
    BY <2>4, <2>5
<1> QED
  BY <1>3, <1>4, <1>5, <1>6 DEF s, p

\* Whoever is at the trigger repays.
LEMMA EndangeredRepays ==
  ASSUME NEW s \in ReadType, Endangered(s)
  PROVE  ~Met(s, 0, 0) /\ Repay(s) > 0 /\ Repay(s) <= s.debt /\ Repay(s) <= s.vusd
<1>1. HfX100(s.collateral, s.debt, s.price) < TargetHf
  BY HfIs, LiquidationAssumption DEF Endangered
<1>2. ~Met(s, 0, 0)
  BY <1>1, HfIs DEF Endangered
<1> QED
  BY <1>2, RepayFacts DEF Endangered

-----------------------------------------------------------------------------
(* The shape of runs and transactions. *)

LEMMA ImageFinite ==
  ASSUME NEW S, IsFiniteSet(S), NEW f, DOMAIN f = S
  PROVE  IsFiniteSet({f[x] : x \in S}) /\ Cardinality({f[x] : x \in S}) <= Cardinality(S)
<1> DEFINE T == {f[x] : x \in S}
           g == [x \in S |-> f[x]]
<1>1. g \in Surjection(S, T)
  BY DEF Surjection
<1> QED
  BY <1>1, FS_Surjection

LEMMA Idle == NoRead \notin RunType
<1>1. \A x \in RunType : x.at = "signed"
  BY DEF RunType
<1> QED
  BY <1>1 DEF NoRead

LEMMA ReadIsRead ==
  ASSUME LiqTypeOK
  PROVE  /\ Read \in ReadType
         /\ Read.collateral = loan.collateral /\ Read.debt = loan.debt /\ Read.vusd = loan.vusd
         /\ Read.veth = loan.veth /\ Read.price = price /\ Read.age = age
<1>1. age \in Nat /\ price \in Nat
  BY LiquidationAssumption DEF LiqTypeOK
<1> QED
  BY <1>1 DEF LiqTypeOK, Read, ReadType

LEMMA StaledFacts ==
  ASSUME run \in [Runs -> {NoRead} \cup RunType]
  PROVE  /\ Staled(run) \in [Runs -> {NoRead} \cup RunType]
         /\ \A r \in Runs : run[r] = NoRead => Staled(run)[r] = NoRead
         /\ \A r \in Runs : run[r] # NoRead =>
              /\ run[r] \in RunType /\ Staled(run)[r] \in RunType /\ ~Staled(run)[r].fresh
              /\ Staled(run)[r].read = run[r].read /\ Staled(run)[r].plan = run[r].plan
<1>1. \A r \in Runs : run[r] = NoRead => Staled(run)[r] = NoRead
  BY DEF Staled
<1>2. ASSUME NEW r \in Runs, run[r] # NoRead
      PROVE  /\ run[r] \in RunType /\ Staled(run)[r] \in RunType /\ ~Staled(run)[r].fresh
             /\ Staled(run)[r].read = run[r].read /\ Staled(run)[r].plan = run[r].plan
  <2>1. run[r] \in RunType /\ Staled(run)[r] = [run[r] EXCEPT !.fresh = FALSE]
    BY <1>2 DEF Staled
  <2> QED
    BY <2>1 DEF RunType
<1>3. Staled(run) \in [Runs -> {NoRead} \cup RunType]
  BY <1>1, <1>2 DEF Staled
<1> QED
  BY <1>1, <1>2, <1>3

\* What is left of the pool's freshness.
Left(S, b) == {[u EXCEPT !.fresh = @ /\ b] : u \in S}

LEMMA LeftFacts ==
  ASSUME NEW S \in SUBSET TxType, IsFiniteSet(S), NEW b \in BOOLEAN
  PROVE  /\ IsFiniteSet(Left(S, b)) /\ Left(S, b) \subseteq TxType
         /\ \A v \in Left(S, b) : \E u \in S :
              /\ v = [u EXCEPT !.fresh = @ /\ b]
              /\ v.kind = u.kind /\ v.amount = u.amount /\ v.nonce = u.nonce
              /\ v.fresh <=> u.fresh /\ b
<1> DEFINE f == [u \in S |-> [u EXCEPT !.fresh = @ /\ b]]
<1>1. IsFiniteSet({f[u] : u \in S})
  <2>1. PICK g : g = f
    OBVIOUS
  <2>2. DOMAIN g = S
    BY <2>1
  <2>3. IsFiniteSet({g[u] : u \in S})
    BY <2>2, ImageFinite
  <2> QED
    BY <2>1, <2>3
<1>2. Left(S, b) = {f[u] : u \in S}
  BY DEF Left
<1>3. ASSUME NEW u \in S
      PROVE  LET v == [u EXCEPT !.fresh = @ /\ b] IN
             /\ v \in TxType
             /\ v.kind = u.kind /\ v.amount = u.amount /\ v.nonce = u.nonce
             /\ v.fresh <=> u.fresh /\ b
  <2>1. u \in TxType /\ (u.fresh /\ b) \in BOOLEAN
    OBVIOUS
  <2> QED
    BY <2>1 DEF TxType
<1>4. ASSUME NEW v \in Left(S, b)
      PROVE  /\ v \in TxType
             /\ \E u \in S :
                  /\ v = [u EXCEPT !.fresh = @ /\ b]
                  /\ v.kind = u.kind /\ v.amount = u.amount /\ v.nonce = u.nonce
                  /\ v.fresh <=> u.fresh /\ b
  <2>1. PICK u \in S : v = [u EXCEPT !.fresh = @ /\ b]
    BY DEF Left
  <2>2. /\ v \in TxType
        /\ v.kind = u.kind /\ v.amount = u.amount /\ v.nonce = u.nonce
        /\ v.fresh <=> u.fresh /\ b
    BY <2>1, <1>3
  <2> QED
    BY <2>1, <2>2
<1>5. IsFiniteSet(Left(S, b))
  BY <1>1, <1>2
<1> HIDE DEF f
<1> QED
  BY <1>4, <1>5

\* What a run signs: the repayment under its nonce, the deposit under the next.
LEMMA SignedFacts ==
  ASSUME NEW x \in RunType, Planned(x)
  PROVE  /\ Signed(x) \subseteq TxType /\ IsFiniteSet(Signed(x))
         /\ \A t \in Signed(x) :
              /\ t.amount > 0 /\ t.fresh = x.fresh
              /\ \/ t.kind = "repay" /\ t.nonce = x.nonce /\ t.amount = x.plan.repay
                 \/ t.kind = "deposit" /\ t.nonce = x.nonce + 1 /\ t.amount = x.plan.deposit
         /\ \A t, u \in Signed(x) : t.nonce = u.nonce => t = u
<1>1. /\ x.read \in ReadType /\ x.plan \in PlanType /\ x.nonce \in Nat /\ x.fresh \in BOOLEAN
      /\ Endangered(x.read) /\ x.plan.repay = Repay(x.read)
  BY PlanFacts DEF RunType, Planned
<1>2. x.plan.repay > 0 /\ x.plan.repay \in Nat /\ x.plan.deposit \in Nat
  BY <1>1, EndangeredRepays DEF PlanType
<1> DEFINE a == [kind |-> "repay", amount |-> x.plan.repay, nonce |-> x.nonce, fresh |-> x.fresh]
           d == [kind |-> "deposit", amount |-> x.plan.deposit, nonce |-> x.nonce + 1, fresh |-> x.fresh]
<1>3. Signed(x) = {t \in {a, d} : t.amount > 0}
  BY <1>2 DEF Signed
<1>4. a \in TxType /\ d \in TxType
  BY <1>1, <1>2 DEF TxType
<1>5. IsFiniteSet({a, d}) /\ Signed(x) \in SUBSET {a, d}
  <2>1. IsFiniteSet({a} \cup {d})
    BY FS_Singleton, FS_Union
  <2>2. {a} \cup {d} = {a, d}
    OBVIOUS
  <2> QED
    BY <1>3, <2>1, <2>2
<1>6. IsFiniteSet(Signed(x))
  BY <1>5, FS_Subset
<1>7. a.nonce = x.nonce /\ d.nonce = x.nonce + 1 /\ x.nonce # x.nonce + 1
  BY <1>1
<1>8. /\ a.kind = "repay" /\ a.amount = x.plan.repay /\ a.fresh = x.fresh
      /\ d.kind = "deposit" /\ d.amount = x.plan.deposit /\ d.fresh = x.fresh
  OBVIOUS
<1> HIDE DEF a, d
<1> QED
  BY <1>3, <1>4, <1>6, <1>7, <1>8

LEMMA InitShape == LiqInit => LiqShape
<1> SUFFICES ASSUME LiqInit PROVE LiqShape
  OBVIOUS
<1>1. pool = {} /\ IsFiniteSet(pool)
  BY FS_EmptySet DEF LiqInit
<1>2. \A r \in Runs : run[r] = NoRead
  BY DEF LiqInit
<1>3. run \in [Runs -> {NoRead} \cup RunType]
  BY <1>2 DEF LiqInit
<1>4. LiqTypeOK
  BY <1>1, LiquidationAssumption DEF LiqInit, LiqTypeOK
<1> QED
  BY <1>1, <1>2, <1>3, <1>4 DEF LiqShape

LEMMA LeftShape ==
  ASSUME LiqShape, NEW S \in SUBSET pool, NEW b \in BOOLEAN, pool' = Left(S, b),
         NEW n \in Nat, \A u \in S : u.nonce >= n
  PROVE  /\ IsFiniteSet(pool') /\ pool' \subseteq TxType
         /\ \A t, u \in pool' : t.nonce >= n /\ (t.nonce = u.nonce => t = u)
         /\ \A t \in pool' : t.amount > 0
<1>1. S \in SUBSET TxType /\ IsFiniteSet(S)
  BY FS_Subset DEF LiqShape
<1>2. /\ IsFiniteSet(pool') /\ pool' \subseteq TxType
      /\ \A v \in pool' : \E u \in S :
           /\ v = [u EXCEPT !.fresh = @ /\ b]
           /\ v.kind = u.kind /\ v.amount = u.amount /\ v.nonce = u.nonce
           /\ v.fresh <=> u.fresh /\ b
  BY <1>1, LeftFacts
<1>3. \A t, u \in S : t.nonce = u.nonce => t = u
  BY DEF LiqShape, LiqTypeOK
<1>4. \A t \in pool : t.amount > 0
  BY DEF LiqShape
<1>5. ASSUME NEW t \in pool', NEW u \in pool'
      PROVE  t.nonce >= n /\ t.amount > 0 /\ (t.nonce = u.nonce => t = u)
  <2>1. PICK x \in S : t = [x EXCEPT !.fresh = @ /\ b] /\ t.nonce = x.nonce /\ t.amount = x.amount
    BY <1>2
  <2>2. PICK y \in S : u = [y EXCEPT !.fresh = @ /\ b] /\ u.nonce = y.nonce
    BY <1>2
  <2>3. t.nonce = u.nonce => x = y
    BY <2>1, <2>2, <1>3
  <2>4. x = y => t = u
    BY <2>1, <2>2
  <2> QED
    BY <2>1, <2>3, <2>4, <1>4
<1> QED
  BY <1>2, <1>5

LEMMA StaledShape ==
  ASSUME LiqShape, run' = Staled(run)
  PROVE  /\ run' \in [Runs -> {NoRead} \cup RunType]
         /\ \A r \in Runs : run'[r] # NoRead => Planned(run'[r])
<1>1. run \in [Runs -> {NoRead} \cup RunType]
  BY DEF LiqShape
<1>2. ASSUME NEW r \in Runs, run'[r] # NoRead
      PROVE  Planned(run'[r])
  <2>1. run[r] # NoRead /\ run'[r].read = run[r].read /\ run'[r].plan = run[r].plan
    BY <1>1, <1>2, StaledFacts
  <2>2. Planned(run[r])
    BY <2>1 DEF LiqShape
  <2> QED
    BY <2>1, <2>2 DEF Planned
<1> QED
  BY <1>1, <1>2, StaledFacts

LEMMA PriceShape ==
  ASSUME LiqShape, PriceMoves
  PROVE  LiqShape'
<1>1. pool' = Left(pool, FALSE)
  BY DEF PriceMoves, Left
<1>2. latest \in Nat /\ \A u \in pool : u.nonce >= latest
  BY DEF LiqShape, LiqTypeOK
<1>3. /\ IsFiniteSet(pool') /\ pool' \subseteq TxType
      /\ \A t, u \in pool' : t.nonce >= latest /\ (t.nonce = u.nonce => t = u)
      /\ \A t \in pool' : t.amount > 0
  BY <1>1, <1>2, LeftShape
<1>4. /\ run' \in [Runs -> {NoRead} \cup RunType]
      /\ \A r \in Runs : run'[r] # NoRead => Planned(run'[r])
  BY StaledShape DEF PriceMoves
<1>5. LiqTypeOK'
  BY <1>3 DEF PriceMoves, LiqShape, LiqTypeOK
<1> QED
  BY <1>3, <1>4, <1>5 DEF LiqShape

LEMMA DecideShape ==
  ASSUME LiqShape, NEW r \in Runs, Decide(r)
  PROVE  /\ LiqShape'
         /\ run[r] = NoRead
         /\ run' = [run EXCEPT ![r] = run'[r]] /\ run'[r] # NoRead
         /\ run'[r].read = Read /\ run'[r].nonce = latest /\ run'[r].fresh /\ Endangered(Read)
         /\ ~Spared(Read)
<1> DEFINE x == [at |-> "signed", read |-> Read, plan |-> DecideLiq(Read), nonce |-> latest, fresh |-> TRUE]
<1>1. Read \in ReadType /\ latest \in Nat
  BY ReadIsRead DEF LiqShape, LiqTypeOK
<1>2. ~Throws(Read) /\ ~Spared(Read)
  BY DEF Decide, DecideLiq
<1>3. Endangered(Read)
  <2>1. Read.debt > 0 /\ Read.vusd > 0
    BY ReadIsRead DEF Decide, ProbePasses, LiqShape
  <2>2. HfX100(Read.collateral, Read.debt, Read.price) \in Nat
    BY <1>1, <2>1, HfIs
  <2>3. ~(HfX100(Read.collateral, Read.debt, Read.price) > TriggerHf)
    BY <1>2 DEF Spared
  <2>4. HfX100(Read.collateral, Read.debt, Read.price) <= TriggerHf
    BY <2>2, <2>3, LiquidationAssumption
  <2> QED
    BY <2>1, <2>4 DEF Endangered
<1>4. x \in RunType /\ Planned(x)
  BY <1>1, <1>2, <1>3, PlanFacts DEF RunType, Planned
<1>5. x.read = Read /\ x.nonce = latest /\ x.fresh = TRUE
  OBVIOUS
<1>6. run[r] = NoRead /\ run' = [run EXCEPT ![r] = x]
  BY DEF Decide
<1> HIDE DEF x
<1>7. run \in [Runs -> {NoRead} \cup RunType] /\ \A q \in Runs : run[q] # NoRead => Planned(run[q])
  BY DEF LiqShape
<1>8. /\ run' \in [Runs -> {NoRead} \cup RunType]
      /\ \A q \in Runs : run'[q] # NoRead => Planned(run'[q])
      /\ run'[r] = x
  BY <1>4, <1>6, <1>7
<1>9. LiqTypeOK'
  BY DEF Decide, LiqShape, LiqTypeOK
<1>10. LiqShape'
  BY <1>8, <1>9 DEF LiqShape, Decide
<1> QED
  BY <1>2, <1>3, <1>4, <1>5, <1>6, <1>8, <1>10, Idle

LEMMA SendShape ==
  ASSUME LiqShape, NEW r \in Runs, SendBoth(r)
  PROVE  /\ LiqShape'
         /\ run[r] \in RunType /\ Planned(run[r])
         /\ run' = [run EXCEPT ![r] = NoRead]
         /\ \A t \in pool' : t \in pool \/ (t \in Signed(run[r]) /\ t.nonce >= latest)
         /\ UNCHANGED <<loan, price, age, latest>>
<1>1. PICK took \in SUBSET Takable(run[r]) : pool' = (pool \ Replaced(took)) \cup took
  BY DEF SendBoth
<1>2. run[r] # NoRead /\ run' = [run EXCEPT ![r] = NoRead] /\ UNCHANGED <<loan, price, age, latest>>
  BY DEF SendBoth
<1>3. run[r] \in RunType /\ Planned(run[r])
  BY <1>2 DEF LiqShape
<1>4. /\ Signed(run[r]) \subseteq TxType /\ IsFiniteSet(Signed(run[r]))
      /\ \A t \in Signed(run[r]) : t.amount > 0
      /\ \A t, u \in Signed(run[r]) : t.nonce = u.nonce => t = u
  BY <1>3, SignedFacts
<1>5. took \in SUBSET Signed(run[r]) /\ \A t \in took : t.nonce >= latest
  BY DEF Takable
<1>6. pool \in SUBSET TxType /\ IsFiniteSet(pool) /\ \A t \in pool : t.amount > 0
  BY DEF LiqShape
<1>7. \A t, u \in pool : t.nonce >= latest /\ (t.nonce = u.nonce => t = u)
  BY DEF LiqShape, LiqTypeOK
<1>8. IsFiniteSet(pool')
  <2>1. IsFiniteSet(took) /\ IsFiniteSet(pool \ Replaced(took))
    BY <1>4, <1>5, <1>6, FS_Subset
  <2> QED
    BY <2>1, <1>1, FS_Union
<1>9. pool' \subseteq TxType /\ \A t \in pool' : t.amount > 0
  BY <1>1, <1>4, <1>5, <1>6
<1>10. \A t, u \in pool' : t.nonce >= latest /\ (t.nonce = u.nonce => t = u)
  <2>1. \A t \in pool \ Replaced(took), u \in took : t.nonce # u.nonce
    BY DEF Replaced
  <2> QED
    BY <2>1, <1>1, <1>4, <1>5, <1>7
<1>11. LiqTypeOK'
  BY <1>2, <1>10 DEF LiqShape, LiqTypeOK
<1>12. run' \in [Runs -> {NoRead} \cup RunType] /\ \A q \in Runs : run'[q] # NoRead => Planned(run'[q])
  BY <1>2 DEF LiqShape
<1>13. LiqShape'
  BY <1>8, <1>9, <1>11, <1>12 DEF LiqShape
<1> QED
  BY <1>1, <1>2, <1>3, <1>5, <1>13

LEMMA MineShape ==
  ASSUME LiqShape, NEW t \in pool, Mine(t)
  PROVE  /\ LiqShape'
         /\ t \in TxType /\ t.nonce = latest /\ latest' = latest + 1
         /\ \A v \in pool' : \E u \in pool :
              /\ u # t /\ v.kind = u.kind /\ v.amount = u.amount /\ v.nonce = u.nonce
              /\ v.fresh <=> u.fresh /\ t.fresh
         /\ run' = IF t.fresh THEN run ELSE Staled(run)
         /\ price' = price
<1>1. /\ t.nonce = latest /\ latest' = latest + 1 /\ price' = price
      /\ loan' = IF t.kind = "repay" THEN Repaid(t.amount) ELSE Deposited(t.amount)
      /\ age' = IF loan' = loan THEN age ELSE 0
      /\ run' = IF t.fresh THEN run ELSE Staled(run)
  BY DEF Mine
<1>2. t \in TxType /\ t.amount \in Nat /\ t.fresh \in BOOLEAN
  BY DEF LiqShape, TxType
<1>3. latest \in Nat /\ \A u, w \in pool : u.nonce >= latest /\ (u.nonce = w.nonce => u = w)
  BY DEF LiqShape, LiqTypeOK
<1>4. pool' = Left(pool \ {t}, t.fresh) /\ pool \ {t} \in SUBSET pool
  BY DEF Mine, Left
<1>5. latest + 1 \in Nat /\ \A u \in pool \ {t} : u.nonce >= latest + 1
  <2>1. ASSUME NEW u \in pool \ {t} PROVE u.nonce >= latest + 1
    <3>1. u.nonce \in Nat
      BY DEF LiqShape, TxType
    <3>2. u.nonce # latest /\ u.nonce >= latest
      BY <1>1, <1>3
    <3> QED
      BY <3>1, <3>2, <1>3
  <2> QED
    BY <2>1, <1>3
<1>6. /\ IsFiniteSet(pool') /\ pool' \subseteq TxType
      /\ \A v, u \in pool' : v.nonce >= latest + 1 /\ (v.nonce = u.nonce => v = u)
      /\ \A v \in pool' : v.amount > 0
  BY <1>2, <1>4, <1>5, LeftShape
<1>7. ASSUME NEW v \in pool'
      PROVE  \E u \in pool :
               /\ u # t /\ v.kind = u.kind /\ v.amount = u.amount /\ v.nonce = u.nonce
               /\ v.fresh <=> u.fresh /\ t.fresh
  <2>1. pool \ {t} \in SUBSET TxType /\ IsFiniteSet(pool \ {t})
    BY FS_Subset DEF LiqShape
  <2>2. \E u \in pool \ {t} :
               /\ v.kind = u.kind /\ v.amount = u.amount /\ v.nonce = u.nonce
               /\ v.fresh <=> u.fresh /\ t.fresh
    BY <2>1, <1>2, <1>4, LeftFacts
  <2> QED
    BY <2>2
<1>8. run' \in [Runs -> {NoRead} \cup RunType] /\ \A r \in Runs : run'[r] # NoRead => Planned(run'[r])
  <2>1. CASE t.fresh
    BY <2>1, <1>1 DEF LiqShape
  <2>2. CASE ~t.fresh
    BY <2>2, <1>1, StaledShape
  <2> QED
    BY <2>1, <2>2
<1>9. loan' \in LoanType
  <2>1. loan \in LoanType
    BY DEF LiqShape, LiqTypeOK, LoanType
  <2> QED
    <3>1. Repaid(t.amount) \in LoanType
      <4>1. CASE t.amount <= loan.debt /\ t.amount <= loan.vusd
        <5>1. loan.debt - t.amount \in Nat /\ loan.vusd - t.amount \in Nat
          BY <2>1, <4>1, <1>2 DEF LoanType
        <5> QED
          BY <2>1, <4>1, <5>1 DEF LoanType, Repaid
      <4> QED
        BY <2>1, <4>1 DEF Repaid
    <3>2. Deposited(t.amount) \in LoanType
      <4>1. CASE t.amount <= loan.veth
        <5>1. loan.veth - t.amount \in Nat /\ loan.collateral + t.amount \in Nat
          BY <2>1, <4>1, <1>2 DEF LoanType
        <5> QED
          BY <2>1, <4>1, <5>1 DEF LoanType, Deposited
      <4> QED
        BY <2>1, <4>1 DEF Deposited
    <3> QED
      BY <3>1, <3>2, <1>1
<1>10. LiqTypeOK'
  <2>1. age \in 0 .. Cooldown /\ Cooldown \in Nat /\ price \in Prices
    BY LiquidationAssumption DEF LiqShape, LiqTypeOK
  <2>2. age' \in 0 .. Cooldown
    BY <2>1, <1>1
  <2> QED
    BY <2>1, <2>2, <1>1, <1>5, <1>6, <1>9 DEF LiqTypeOK, LoanType
<1>11. LiqShape'
  BY <1>6, <1>8, <1>10 DEF LiqShape
<1> QED
  BY <1>1, <1>2, <1>7, <1>11

LEMMA TickShape ==
  ASSUME LiqShape, Tick
  PROVE  LiqShape'
<1>1. age' \in 0 .. Cooldown
  BY LiquidationAssumption DEF LiqShape, LiqTypeOK, Tick
<1> QED
  BY <1>1 DEF LiqShape, LiqTypeOK, Tick

LEMMA NextShape == LiqShape /\ [LiqNext]_liqVars => LiqShape'
<1> SUFFICES ASSUME LiqShape, [LiqNext]_liqVars PROVE LiqShape'
  OBVIOUS
<1>1. CASE PriceMoves
  BY <1>1, PriceShape
<1>2. CASE Tick
  BY <1>2, TickShape
<1>3. ASSUME NEW r \in Runs, Decide(r) \/ SendBoth(r) PROVE LiqShape'
  BY <1>3, DecideShape, SendShape
<1>4. ASSUME NEW t \in pool, Mine(t) PROVE LiqShape'
  BY <1>4, MineShape
<1>5. CASE UNCHANGED liqVars
  BY <1>5 DEF liqVars, LiqShape, LiqTypeOK
<1> QED
  BY <1>1, <1>2, <1>3, <1>4, <1>5 DEF LiqNext

LEMMA ShapeHolds == LiqSpec => []LiqShape
BY InitShape, NextShape, PTL DEF LiqSpec

\* Every plan under way repays the least that meets the target, or all that cap, debt
\* and reserve allow, and then deposits the least that does, or all it may - for any
\* policy, loans, prices and number of runs.
THEOREM PlansAreExact == LiqSpec => []PlansAreSound
<1>1. LiqShape => PlansAreSound
  <2> SUFFICES ASSUME LiqShape PROVE PlansAreSound
    OBVIOUS
  <2>1. ASSUME NEW r \in Runs, run[r] # NoRead PROVE run[r] \in RunType /\ Planned(run[r])
    BY <2>1 DEF LiqShape
  <2>2. PlanIsExact
    BY <2>1, PlannedIsExact DEF PlanIsExact
  <2> QED
    BY <2>2 DEF PlansAreSound, LiqShape
<1> QED
  BY <1>1, ShapeHolds, PTL

-----------------------------------------------------------------------------
(* What is fresh stands on the present position. *)

LEMMA BasesAre ==
  /\ \A r \in Runs : Fresh(r) => run[r].nonce \in Bases
  /\ \A t \in pool : t.fresh => Base(t) \in Bases
BY DEF Bases

LEMMA BasesCome ==
  ASSUME NEW a \in Bases
  PROVE  \/ \E r \in Runs : Fresh(r) /\ a = run[r].nonce
         \/ \E t \in pool : t.fresh /\ a = Base(t)
BY DEF Bases

NoneFresh == (\A r \in Runs : ~Fresh(r)) /\ (\A t \in pool : ~t.fresh)

LEMMA NothingFresh == NoneFresh => OneBase /\ Ages /\ Stands
<1> SUFFICES ASSUME \A r \in Runs : ~Fresh(r), \A t \in pool : ~t.fresh
             PROVE  OneBase /\ Ages /\ Stands
  BY DEF NoneFresh
<1>1. Bases = {}
  BY BasesCome
<1> QED
  BY <1>1 DEF OneBase, Ages, Stands

LEMMA InitLiq == LiqInit => LiqInv
<1> SUFFICES ASSUME LiqInit PROVE LiqInv
  OBVIOUS
<1>1. NoneFresh
  BY DEF LiqInit, Fresh, NoneFresh
<1> QED
  BY <1>1, InitShape, NothingFresh DEF LiqInv

\* Two reads that differ in age at most are one to the policy.
LEMMA SameReads ==
  ASSUME NEW s, NEW u,
         s.collateral = u.collateral, s.debt = u.debt, s.vusd = u.vusd, s.veth = u.veth, s.price = u.price
  PROVE  /\ Repay(s) = Repay(u) /\ (Endangered(s) <=> Endangered(u))
         /\ \A n, m : Met(s, n, m) <=> Met(u, n, m)
BY DEF Repay, TargetDebt, Endangered, Met

LEMMA TimeKeepsStands ==
  ASSUME loan' = loan, price' = price
  PROVE  /\ Short' <=> Short
         /\ ShortAfter' <=> ShortAfter
         /\ Repay(Read)' = Repay(Read) /\ (Endangered(Read)' <=> Endangered(Read))
         /\ \A s : SameRead(s)' <=> SameRead(s)
<1>1. PICK s, u : s = Read /\ u = Read'
  OBVIOUS
<1>2. s.collateral = u.collateral /\ s.debt = u.debt /\ s.vusd = u.vusd /\ s.veth = u.veth /\ s.price = u.price
  BY <1>1 DEF Read
<1>3. /\ Repay(s) = Repay(u) /\ (Endangered(s) <=> Endangered(u))
      /\ \A n, m : Met(s, n, m) <=> Met(u, n, m)
  BY <1>2, SameReads
<1>4. /\ Short <=> ~Met(s, 0, 0)
      /\ ShortAfter <=> ~Met(s, Repay(s), 0)
  BY <1>1 DEF Short, ShortAfter
<1>5. /\ Short' <=> ~Met(u, 0, 0)
      /\ ShortAfter' <=> ~Met(u, Repay(u), 0)
  BY <1>1 DEF Short, ShortAfter
<1>6. Repay(Read)' = Repay(u) /\ (Endangered(Read)' <=> Endangered(u))
  BY <1>1
<1> QED
  BY <1>1, <1>3, <1>4, <1>5, <1>6 DEF SameRead

\* A pending nonce that is the latest is held by nothing.
LEMMA NothingHeld ==
  ASSUME LiqShape, NothingPending
  PROVE  \A t \in pool : t.nonce # latest
<1> DEFINE N == latest .. latest + Cardinality(pool)
           S == {n \in N : n \notin Held}
<1>1. latest \in Nat /\ IsFiniteSet(pool) /\ Cardinality(pool) \in Nat
  BY FS_CardinalityType DEF LiqShape, LiqTypeOK
<1>2. IsFiniteSet(N) /\ Cardinality(N) = Cardinality(pool) + 1
  BY <1>1, FS_Interval
<1>3. IsFiniteSet(Held) /\ Cardinality(Held) <= Cardinality(pool)
  <2>1. PICK f : f = [t \in pool |-> t.nonce]
    OBVIOUS
  <2>2. Held = {f[t] : t \in pool} /\ DOMAIN f = pool
    BY <2>1 DEF Held
  <2> QED
    BY <2>2, <1>1, ImageFinite
<1>4. S # {}
  <2> SUFFICES ASSUME S = {} PROVE FALSE
    OBVIOUS
  <2>1. N \in SUBSET Held
    OBVIOUS
  <2>2. Cardinality(N) <= Cardinality(Held) /\ Cardinality(Held) \in Nat
    BY <2>1, <1>3, FS_Subset, FS_CardinalityType
  <2> QED
    BY <2>2, <1>1, <1>2, <1>3
<1>5. PICK n \in S : \A k \in S : n <= k
  <2>1. S \in SUBSET Nat
    BY <1>1
  <2> QED
    BY <2>1, <1>4, LeastNumber
<1>6. Min(S) = n
  <2>1. S \in SUBSET Int
    BY <1>1
  <2> QED
    BY <2>1, <1>5, LeastIs
<1>7. latest \notin Held
  BY <1>5, <1>6 DEF NothingPending, Pending
<1> QED
  BY <1>7 DEF Held

LEMMA FreshTypes ==
  ASSUME LiqInv
  PROVE  /\ latest \in Nat
         /\ \A r \in Runs : Fresh(r) =>
              /\ run[r] \in RunType /\ Planned(run[r]) /\ RunStands(run[r])
              /\ run[r].nonce \in Nat /\ run[r].nonce \in Bases /\ run[r].nonce <= latest
              /\ run[r].nonce < latest => age = 0
         /\ \A t \in pool : t.fresh =>
              /\ TxStands(t) /\ t.nonce >= latest /\ t.nonce \in Nat /\ t.amount \in Nat
              /\ Base(t) \in Bases /\ Base(t) <= latest
              /\ \/ t.kind = "repay" /\ Base(t) = t.nonce /\ t.nonce = latest
                 \/ t.kind = "deposit" /\ Base(t) = t.nonce - 1
<1>1. latest \in Nat
  BY DEF LiqInv, LiqShape, LiqTypeOK
<1>2. ASSUME NEW r \in Runs, Fresh(r)
      PROVE  /\ run[r] \in RunType /\ Planned(run[r]) /\ RunStands(run[r])
             /\ run[r].nonce \in Nat /\ run[r].nonce \in Bases /\ run[r].nonce <= latest
             /\ run[r].nonce < latest => age = 0
  <2>1. run[r] \in RunType /\ Planned(run[r]) /\ RunStands(run[r])
    BY <1>2 DEF LiqInv, LiqShape, Stands, Fresh
  <2>2. run[r].nonce \in Nat
    BY <2>1 DEF RunType
  <2>3. run[r].nonce \in Bases /\ run[r].nonce <= latest
    BY <1>2, BasesAre DEF LiqInv, OneBase
  <2> QED
    BY <1>2, <2>1, <2>2, <2>3 DEF LiqInv, Ages
<1>3. ASSUME NEW t \in pool, t.fresh
      PROVE  /\ TxStands(t) /\ t.nonce >= latest /\ t.nonce \in Nat /\ t.amount \in Nat
             /\ Base(t) \in Bases /\ Base(t) <= latest
             /\ \/ t.kind = "repay" /\ Base(t) = t.nonce /\ t.nonce = latest
                \/ t.kind = "deposit" /\ Base(t) = t.nonce - 1
  <2>1. t.nonce \in Nat /\ t.amount \in Nat /\ t.kind \in {"repay", "deposit"}
    BY DEF LiqInv, LiqShape, TxType
  <2>2. TxStands(t) /\ t.nonce >= latest
    BY <1>3 DEF LiqInv, LiqShape, LiqTypeOK, Stands
  <2>3. Base(t) \in Bases /\ Base(t) <= latest
    BY <1>3, BasesAre DEF LiqInv, OneBase
  <2> QED
    BY <1>1, <2>1, <2>2, <2>3 DEF Base
<1> QED
  BY <1>1, <1>2, <1>3

\* When a run decides, all that is fresh counts from this nonce.
LEMMA DecideBase ==
  ASSUME LiqInv, Cooldown > 0, NothingPending, ~Spared(Read)
  PROVE  \A a \in Bases : a = latest
<1> SUFFICES ASSUME NEW a \in Bases PROVE a = latest
  OBVIOUS
<1>1. CASE \E r \in Runs : Fresh(r) /\ a = run[r].nonce
  <2>1. PICK r \in Runs : Fresh(r) /\ a = run[r].nonce
    BY <1>1
  <2>2. a \in Nat /\ latest \in Nat /\ a <= latest /\ (a < latest => age = 0)
    BY <2>1, FreshTypes
  <2>3. age # 0
    BY ReadIsRead, LiquidationAssumption DEF Spared, LiqInv, LiqShape
  <2> QED
    BY <2>2, <2>3
<1>2. CASE \E t \in pool : t.fresh /\ a = Base(t)
  <2>1. PICK t \in pool : t.fresh /\ a = Base(t)
    BY <1>2
  <2>2. t.nonce # latest
    BY NothingHeld DEF LiqInv
  <2> QED
    BY <2>1, <2>2, FreshTypes
<1> QED
  BY <1>1, <1>2, BasesCome

LEMMA PriceLiq ==
  ASSUME LiqInv, PriceMoves
  PROVE  LiqInv'
<1>1. LiqShape /\ LiqShape'
  BY PriceShape DEF LiqInv
<1>2. \A r \in Runs : ~Fresh(r)'
  BY <1>1, StaledFacts DEF PriceMoves, LiqShape, Fresh
<1>3. \A t \in pool' : ~t.fresh
  <2>1. pool' = Left(pool, FALSE) /\ pool \in SUBSET TxType /\ IsFiniteSet(pool)
    BY <1>1 DEF PriceMoves, Left, LiqShape
  <2> QED
    BY <2>1, LeftFacts
<1>4. (OneBase /\ Ages /\ Stands)'
  <2>1. NoneFresh'
    BY <1>2, <1>3 DEF NoneFresh
  <2> QED
    BY <2>1, NothingFresh, PTL
<1> QED
  BY <1>1, <1>4 DEF LiqInv

LEMMA DecideLiqInv ==
  ASSUME LiqInv, Cooldown > 0, NEW r \in Runs, Decide(r)
  PROVE  LiqInv'
<1>1. /\ LiqShape'
      /\ run[r] = NoRead /\ run' = [run EXCEPT ![r] = run'[r]] /\ run'[r] # NoRead
      /\ run'[r].read = Read /\ run'[r].nonce = latest /\ run'[r].fresh /\ Endangered(Read)
      /\ ~Spared(Read)
  BY DecideShape DEF LiqInv
<1>2. UNCHANGED <<loan, price, age, latest, pool>> /\ NothingPending
  BY DEF Decide
<1>3. \A a \in Bases : a = latest
  BY <1>1, <1>2, DecideBase
<1>4. \A q \in Runs : q # r => run'[q] = run[q]
  BY <1>1 DEF LiqInv, LiqShape
<1>5. latest \in Nat
  BY FreshTypes
<1>6. OneBase'
  <2>1. ASSUME NEW a \in Bases' PROVE a = latest
    <3>1. \/ \E q \in Runs : Fresh(q)' /\ a = run'[q].nonce
          \/ \E t \in pool' : t.fresh /\ a = Base(t)
      BY <2>1 DEF Bases
    <3>2. ASSUME NEW q \in Runs, Fresh(q)', a = run'[q].nonce, q # r PROVE a \in Bases
      BY <3>2, <1>4, BasesAre DEF Fresh
    <3>3. ASSUME NEW t \in pool', t.fresh, a = Base(t) PROVE a \in Bases
      BY <3>3, <1>2, BasesAre
    <3> QED
      BY <3>1, <3>2, <3>3, <1>1, <1>3
  <2> QED
    BY <2>1, <1>2, <1>5 DEF OneBase
<1>7. Ages'
  <2>1. ASSUME NEW q \in Runs, Fresh(q)', run'[q].nonce < latest' PROVE age' = 0
    <3>1. CASE q = r
      BY <3>1, <2>1, <1>1, <1>2, <1>5
    <3>2. CASE q # r
      BY <3>2, <2>1, <1>2, <1>4 DEF LiqInv, Ages, Fresh
    <3> QED
      BY <3>1, <3>2
  <2> QED
    BY <2>1 DEF Ages
<1>8. Stands'
  <2>1. /\ Short' <=> Short
        /\ ShortAfter' <=> ShortAfter
        /\ Repay(Read)' = Repay(Read) /\ (Endangered(Read)' <=> Endangered(Read))
        /\ \A s : SameRead(s)' <=> SameRead(s)
    BY <1>2, TimeKeepsStands
  <2>2. SameRead(Read)
    BY ReadIsRead DEF SameRead, LiqInv, LiqShape
  <2>3. ASSUME NEW q \in Runs, Fresh(q)' PROVE RunStands(run[q])' 
    <3>1. CASE q = r
      <4>1. latest # latest + 1
        BY <1>5
      <4>2. PICK x : x = run'[r]
        OBVIOUS
      <4>3. SameRead(x.read)'
        BY <4>2, <1>1, <2>1, <2>2
      <4>4. RunStands(x)'
        BY <4>1, <4>2, <4>3, <1>1, <1>2 DEF RunStands
      <4> QED
        BY <3>1, <4>2, <4>4
    <3>2. CASE q # r
      <4>1. Fresh(q) /\ run'[q] = run[q]
        BY <3>2, <2>3, <1>4 DEF Fresh
      <4>2. RunStands(run[q])
        BY <4>1, FreshTypes
      <4> QED
        BY <4>1, <4>2, <2>1, <1>2 DEF RunStands
    <3> QED
      BY <3>1, <3>2
  <2>4. ASSUME NEW t \in pool', t.fresh PROVE TxStands(t)'
    <3>1. TxStands(t)
      BY <2>4, <1>2, FreshTypes
    <3> QED
      BY <3>1, <2>1, <1>2 DEF TxStands
  <2> QED
    BY <2>3, <2>4 DEF Stands
<1> QED
  BY <1>1, <1>6, <1>7, <1>8 DEF LiqInv

LEMMA SendLiq ==
  ASSUME LiqInv, NEW r \in Runs, SendBoth(r)
  PROVE  LiqInv'
<1> DEFINE x == run[r]
<1>1. /\ LiqShape'
      /\ x \in RunType /\ Planned(x)
      /\ run' = [run EXCEPT ![r] = NoRead]
      /\ \A t \in pool' : t \in pool \/ (t \in Signed(x) /\ t.nonce >= latest)
      /\ UNCHANGED <<loan, price, age, latest>>
  BY SendShape DEF LiqInv
<1>2. ASSUME NEW q \in Runs, Fresh(q)' PROVE Fresh(q) /\ run'[q] = run[q]
  BY <1>1, <1>2 DEF LiqInv, LiqShape, Fresh
<1>3. x # NoRead /\ latest \in Nat /\ x.nonce \in Nat
  BY <1>1, Idle, FreshTypes DEF RunType
<1>4. ASSUME NEW t \in pool', t.fresh, t \notin pool
      PROVE  /\ Fresh(r) /\ Base(t) = x.nonce /\ t.nonce >= latest /\ t.amount > 0
             /\ \/ t.kind = "repay" /\ t.nonce = x.nonce /\ t.amount = x.plan.repay
                \/ t.kind = "deposit" /\ t.nonce = x.nonce + 1 /\ t.amount = x.plan.deposit
  <2>1. t \in Signed(x) /\ t.nonce >= latest
    BY <1>1, <1>4
  <2>2. /\ t.amount > 0 /\ t.fresh = x.fresh
        /\ \/ t.kind = "repay" /\ t.nonce = x.nonce /\ t.amount = x.plan.repay
           \/ t.kind = "deposit" /\ t.nonce = x.nonce + 1 /\ t.amount = x.plan.deposit
    BY <2>1, <1>1, SignedFacts
  <2>3. Fresh(r)
    BY <2>2, <1>3, <1>4 DEF Fresh
  <2> HIDE DEF x
  <2> QED
    BY <2>1, <2>2, <2>3, <1>3 DEF Base
<1>5. OneBase'
  <2>1. ASSUME NEW a \in Bases' PROVE a \in Bases
    <3>1. \/ \E q \in Runs : Fresh(q)' /\ a = run'[q].nonce
          \/ \E t \in pool' : t.fresh /\ a = Base(t)
      BY <2>1 DEF Bases
    <3>2. ASSUME NEW q \in Runs, Fresh(q)', a = run'[q].nonce PROVE a \in Bases
      BY <3>2, <1>2, BasesAre
    <3>3. ASSUME NEW t \in pool', t.fresh, a = Base(t) PROVE a \in Bases
      BY <3>3, <1>4, BasesAre
    <3> QED
      BY <3>1, <3>2, <3>3
  <2> QED
    BY <2>1, <1>1 DEF LiqInv, OneBase
<1>6. Ages'
  BY <1>1, <1>2 DEF LiqInv, Ages
<1>7. Stands'
  <2>1. /\ Short' <=> Short
        /\ ShortAfter' <=> ShortAfter
        /\ Repay(Read)' = Repay(Read) /\ (Endangered(Read)' <=> Endangered(Read))
        /\ \A s : SameRead(s)' <=> SameRead(s)
    BY <1>1, TimeKeepsStands
  <2>2. ASSUME NEW q \in Runs, Fresh(q)' PROVE RunStands(run[q])'
    <3>1. RunStands(run[q]) /\ run'[q] = run[q]
      BY <2>2, <1>2, FreshTypes
    <3> QED
      BY <3>1, <2>1, <1>1 DEF RunStands
  <2>3. ASSUME NEW t \in pool', t.fresh PROVE TxStands(t)'
    <3>1. CASE t \in pool
      <4>1. TxStands(t)
        BY <3>1, <2>3, FreshTypes
      <4> QED
        BY <4>1, <2>1, <1>1 DEF TxStands
    <3>2. CASE t \notin pool
      <4>1. /\ Fresh(r) /\ t.nonce >= latest /\ t.amount > 0
            /\ \/ t.kind = "repay" /\ t.nonce = x.nonce /\ t.amount = x.plan.repay
               \/ t.kind = "deposit" /\ t.nonce = x.nonce + 1 /\ t.amount = x.plan.deposit
        BY <3>2, <2>3, <1>4
      <4>2. RunStands(x) /\ x.nonce <= latest
        BY <4>1, FreshTypes
      <4>3. /\ x.read \in ReadType /\ Endangered(x.read) /\ x.plan.repay = Repay(x.read)
            /\ x.plan.deposit > 0 => ~Met(x.read, Repay(x.read), 0)
        <5>1. x.read \in ReadType /\ ~Throws(x.read) /\ ~Spared(x.read) /\ x.plan = DecideLiq(x.read)
              /\ Endangered(x.read)
          BY <1>1 DEF RunType, Planned
        <5> QED
          BY <5>1, PlanFacts
      <4>4. SameRead(x.read) =>
              Repay(x.read) = Repay(Read) /\ Endangered(Read) /\ (Met(x.read, Repay(x.read), 0) <=> ~ShortAfter)
        <5>1. ASSUME SameRead(x.read)
              PROVE  /\ x.read.collateral = Read.collateral /\ x.read.debt = Read.debt /\ x.read.vusd = Read.vusd
                     /\ x.read.veth = Read.veth /\ x.read.price = Read.price
          BY <5>1, ReadIsRead DEF SameRead, LiqInv, LiqShape
        <5>2. ASSUME SameRead(x.read)
              PROVE  /\ Repay(x.read) = Repay(Read) /\ Endangered(Read)
                     /\ \A n, m : Met(x.read, n, m) <=> Met(Read, n, m)
          BY <5>1, <5>2, <4>3, SameReads
        <5> QED
          BY <5>2 DEF ShortAfter
      <4> HIDE DEF x
      <4>5. CASE t.kind = "repay"
        <5>1. x.nonce = latest
          BY <4>1, <4>2, <4>5, <1>3
        <5> QED
          BY <5>1, <4>1, <4>2, <4>3, <4>4, <4>5, <2>1 DEF TxStands, RunStands
      <4>6. CASE t.kind = "deposit"
        <5>1. t.nonce = x.nonce + 1 /\ x.plan.deposit > 0
          BY <4>1, <4>6
        <5>2. t.nonce = latest => Short
          BY <5>1, <4>2 DEF RunStands
        <5>3. t.nonce # latest => ShortAfter
          <6>1. t.nonce # latest => x.nonce = latest
            BY <5>1, <4>1, <4>2, <1>3
          <6> QED
            BY <6>1, <5>1, <4>2, <4>3, <4>4 DEF RunStands
        <5> QED
          BY <5>2, <5>3, <4>6, <2>1, <1>1 DEF TxStands
      <4> QED
        BY <4>1, <4>5, <4>6
    <3> QED
      BY <3>1, <3>2
  <2> QED
    BY <2>2, <2>3 DEF Stands
<1> QED
  BY <1>1, <1>5, <1>6, <1>7 DEF LiqInv

LEMMA TickLiq ==
  ASSUME LiqInv, Tick
  PROVE  LiqInv'
<1>1. LiqShape' /\ UNCHANGED <<loan, price, latest, pool, run>>
  BY TickShape DEF LiqInv, Tick
<1>2. \A r \in Runs : ~Fresh(r)
  BY DEF Tick, Fresh
<1>3. OneBase' /\ Ages'
  BY <1>1, <1>2 DEF LiqInv, OneBase, Bases, Fresh, Ages
<1>4. Stands'
  <2>1. /\ Short' <=> Short
        /\ ShortAfter' <=> ShortAfter
        /\ Repay(Read)' = Repay(Read) /\ (Endangered(Read)' <=> Endangered(Read))
    BY <1>1, TimeKeepsStands
  <2>2. ASSUME NEW t \in pool', t.fresh PROVE TxStands(t)'
    <3>1. TxStands(t)
      BY <2>2, <1>1, FreshTypes
    <3> QED
      BY <3>1, <2>1, <1>1 DEF TxStands
  <2> QED
    BY <2>2, <1>1, <1>2 DEF Stands, Fresh
<1> QED
  BY <1>1, <1>3, <1>4 DEF LiqInv

\* A fresh repayment executes, and what remains afterwards is what the plan left.
LEMMA RepayExecutes ==
  ASSUME LiqShape, NEW t \in pool, Mine(t), t.kind = "repay", t.amount = Repay(Read), Endangered(Read)
  PROVE  age' = 0 /\ (Short' <=> ShortAfter)
<1>1. Read \in ReadType /\ Read.debt = loan.debt /\ Read.vusd = loan.vusd
  BY ReadIsRead DEF LiqShape
<1>2. PICK n \in Nat : n = t.amount /\ n > 0 /\ n <= loan.debt /\ n <= loan.vusd
  BY <1>1, EndangeredRepays, RepayFacts
<1>3. loan \in LoanType
  BY DEF LiqShape, LiqTypeOK, LoanType
<1>4. loan' = [loan EXCEPT !.debt = @ - n, !.vusd = @ - n] /\ price' = price
  BY <1>2 DEF Mine, Repaid
<1>5. loan'.debt = loan.debt - n /\ loan'.collateral = loan.collateral /\ loan.debt \in Nat
  BY <1>3, <1>4 DEF LoanType
<1>6. loan' # loan
  BY <1>2, <1>5
<1>7. age' = 0
  BY <1>6 DEF Mine
<1>8. /\ Short' <=> ~((loan'.collateral + 0) * price' * LT >= TargetHf * 100 * (loan'.debt - 0))
      /\ ShortAfter <=> ~((loan.collateral + 0) * price * LT >= TargetHf * 100 * (loan.debt - n))
  BY <1>2 DEF Short, ShortAfter, Met, Read
<1>9. loan'.debt - 0 = loan.debt - n
  BY <1>2, <1>5
<1> QED
  BY <1>4, <1>5, <1>7, <1>8, <1>9

LEMMA MineLiq ==
  ASSUME LiqInv, NEW t \in pool, Mine(t)
  PROVE  LiqInv'
<1>1. /\ LiqShape'
      /\ t \in TxType /\ t.nonce = latest /\ latest' = latest + 1
      /\ \A v \in pool' : \E u \in pool :
           /\ u # t /\ v.kind = u.kind /\ v.amount = u.amount /\ v.nonce = u.nonce
           /\ v.fresh <=> u.fresh /\ t.fresh
      /\ run' = IF t.fresh THEN run ELSE Staled(run)
  BY MineShape DEF LiqInv
<1>2. CASE ~t.fresh
  <2>1. NoneFresh'
    <3>1. \A r \in Runs : ~Fresh(r)'
      BY <1>1, <1>2, StaledFacts DEF LiqInv, LiqShape, Fresh
    <3>2. \A v \in pool' : ~v.fresh
      BY <1>1, <1>2
    <3> QED
      BY <3>1, <3>2 DEF NoneFresh
  <2>2. (OneBase /\ Ages /\ Stands)'
    BY <2>1, NothingFresh, PTL
  <2> QED
    BY <1>1, <2>2 DEF LiqInv
<1>3. CASE t.fresh
  <2>1. run' = run /\ \A r \in Runs : Fresh(r)' <=> Fresh(r)
    BY <1>1, <1>3 DEF Fresh
  <2>2. latest \in Nat
    BY FreshTypes
  <2>3. /\ TxStands(t) /\ Base(t) \in Bases
        /\ \/ t.kind = "repay" /\ Base(t) = latest
           \/ t.kind = "deposit" /\ Base(t) = latest - 1
    BY <1>1, <1>3, FreshTypes
  <2>4. ASSUME NEW v \in pool', v.fresh
        PROVE  \E u \in pool :
                 /\ u.fresh /\ TxStands(u) /\ Base(u) = Base(t) /\ Base(v) = Base(t)
                 /\ u.nonce # latest /\ u.nonce > latest
                 /\ v.kind = u.kind /\ v.amount = u.amount /\ v.nonce = u.nonce
                 /\ \/ u.kind = "repay" /\ u.nonce = latest
                    \/ u.kind = "deposit" /\ Base(u) = u.nonce - 1
    <3>1. PICK u \in pool :
            /\ u # t /\ v.kind = u.kind /\ v.amount = u.amount /\ v.nonce = u.nonce
            /\ v.fresh <=> u.fresh /\ t.fresh
      BY <1>1
    <3>2. u.fresh /\ Base(v) = Base(u)
      BY <3>1, <2>4 DEF Base
    <3>3. /\ TxStands(u) /\ Base(u) \in Bases /\ u.nonce >= latest /\ u.nonce \in Nat
          /\ \/ u.kind = "repay" /\ u.nonce = latest
             \/ u.kind = "deposit" /\ Base(u) = u.nonce - 1
      BY <3>2, FreshTypes
    <3>4. Base(u) = Base(t)
      BY <3>3, <2>3 DEF LiqInv, OneBase
    <3>5. u.nonce # latest
      BY <3>1, <1>1 DEF LiqInv, LiqShape, LiqTypeOK
    <3> QED
      BY <3>1, <3>2, <3>3, <3>4, <3>5, <2>2
  <2>5. OneBase'
    <3>1. ASSUME NEW a \in Bases' PROVE a = Base(t)
      <4>1. \/ \E q \in Runs : Fresh(q)' /\ a = run'[q].nonce
            \/ \E v \in pool' : v.fresh /\ a = Base(v)
        BY <3>1 DEF Bases
      <4>2. ASSUME NEW q \in Runs, Fresh(q)', a = run'[q].nonce PROVE a = Base(t)
        BY <4>2, <2>1, <2>3, BasesAre DEF LiqInv, OneBase
      <4> QED
        BY <4>1, <4>2, <2>4
    <3>2. Base(t) <= latest'
      BY <1>1, <2>2, <2>3
    <3> QED
      BY <3>1, <3>2 DEF OneBase
  <2>6. ASSUME NEW r \in Runs, Fresh(r)
        PROVE  /\ run[r] \in RunType /\ Planned(run[r]) /\ RunStands(run[r])
               /\ run[r].nonce = Base(t) /\ run[r].nonce \in Nat
               /\ run[r].nonce < latest => age = 0
    <3>1. /\ run[r] \in RunType /\ Planned(run[r]) /\ RunStands(run[r])
          /\ run[r].nonce \in Bases /\ run[r].nonce \in Nat
          /\ run[r].nonce < latest => age = 0
      BY <2>6, FreshTypes
    <3> QED
      BY <3>1, <2>3 DEF LiqInv, OneBase
  <2>7. CASE t.kind = "repay"
    <3>1. Base(t) = latest /\ t.amount = Repay(Read) /\ Endangered(Read)
      BY <2>3, <2>7 DEF TxStands
    <3>2. age' = 0 /\ (Short' <=> ShortAfter)
      BY <2>7, <3>1, RepayExecutes DEF LiqInv
    <3>3. ASSUME NEW r \in Runs, Fresh(r)' PROVE RunStands(run[r])'
      <4>1. /\ run[r] \in RunType /\ Planned(run[r]) /\ RunStands(run[r])
            /\ run[r].nonce = latest
        BY <3>1, <3>3, <2>1, <2>6
      <4>2. PICK x : x = run[r]
        OBVIOUS
      <4>3. SameRead(x.read)
        BY <4>1, <4>2 DEF RunStands
      <4>4. /\ x.read.collateral = Read.collateral /\ x.read.debt = Read.debt /\ x.read.vusd = Read.vusd
            /\ x.read.veth = Read.veth /\ x.read.price = Read.price
        BY <4>3, ReadIsRead DEF SameRead, LiqInv, LiqShape
      <4>5. /\ Repay(x.read) = Repay(Read)
            /\ \A n, m : Met(x.read, n, m) <=> Met(Read, n, m)
        BY <4>4, SameReads
      <4>6. x.plan.deposit > 0 => ~Met(x.read, Repay(x.read), 0)
        <5>1. x.read \in ReadType /\ ~Throws(x.read) /\ ~Spared(x.read) /\ x.plan = DecideLiq(x.read)
          BY <4>1, <4>2 DEF RunType, Planned
        <5> QED
          BY <5>1, PlanFacts
      <4>7. x.plan.deposit > 0 => Short'
        BY <4>5, <4>6, <3>2 DEF ShortAfter
      <4>8. latest' # x.nonce
        BY <4>1, <4>2, <1>1, <2>2
      <4>9. RunStands(x)'
        BY <4>7, <4>8 DEF RunStands
      <4> QED
        BY <4>2, <4>9, <2>1
    <3>4. ASSUME NEW v \in pool', v.fresh PROVE TxStands(v)'
      <4>1. PICK u \in pool :
              /\ TxStands(u) /\ Base(u) = latest /\ u.nonce # latest
              /\ v.kind = u.kind /\ v.nonce = u.nonce
              /\ \/ u.kind = "repay" /\ u.nonce = latest
                 \/ u.kind = "deposit" /\ Base(u) = u.nonce - 1
        BY <3>1, <3>4, <2>4
      <4>2. v.kind = "deposit" /\ ShortAfter
        BY <4>1 DEF TxStands
      <4>3. u.nonce \in Nat
        BY DEF LiqInv, LiqShape, TxType
      <4>4. v.nonce = latest'
        BY <4>1, <4>3, <1>1, <2>2
      <4> QED
        BY <4>2, <4>4, <3>2 DEF TxStands
    <3>5. Stands'
      BY <3>3, <3>4 DEF Stands
    <3>6. Ages'
      BY <3>2 DEF Ages
    <3> QED
      BY <1>1, <2>5, <3>5, <3>6 DEF LiqInv
  <2>8. CASE t.kind = "deposit"
    <3>1. Base(t) = latest - 1
      BY <2>3, <2>8
    <3>2. \A v \in pool' : ~v.fresh
      <4> SUFFICES ASSUME NEW v \in pool', v.fresh PROVE FALSE
        OBVIOUS
      <4>1. PICK u \in pool :
              /\ Base(u) = latest - 1 /\ u.nonce > latest /\ u.nonce # latest
              /\ \/ u.kind = "repay" /\ u.nonce = latest
                 \/ u.kind = "deposit" /\ Base(u) = u.nonce - 1
        BY <3>1, <2>4
      <4>2. u.nonce \in Nat
        BY DEF LiqInv, LiqShape, TxType
      <4> QED
        BY <4>1, <4>2, <2>2
    <3>3. ASSUME NEW r \in Runs, Fresh(r)' PROVE RunStands(run[r])' /\ age' = 0
      <4>1. run[r].nonce = latest - 1 /\ run[r].nonce \in Nat /\ age = 0
        BY <3>1, <3>3, <2>1, <2>2, <2>6
      <4>2. latest' # run[r].nonce /\ latest' # run[r].nonce + 1
        BY <4>1, <1>1, <2>2
      <4>3. age' = 0
        BY <4>1 DEF Mine
      <4> QED
        BY <4>2, <4>3, <2>1 DEF RunStands
    <3>4. Stands' /\ Ages'
      BY <3>2, <3>3 DEF Stands, Ages
    <3> QED
      BY <1>1, <2>5, <3>4 DEF LiqInv
  <2> QED
    BY <2>3, <2>7, <2>8
<1> QED
  BY <1>1, <1>2, <1>3 DEF TxType

LEMMA NextLiq ==
  ASSUME Cooldown > 0
  PROVE  LiqInv /\ [LiqNext]_liqVars => LiqInv'
<1> SUFFICES ASSUME LiqInv, [LiqNext]_liqVars PROVE LiqInv'
  OBVIOUS
<1>1. CASE PriceMoves
  BY <1>1, PriceLiq
<1>2. CASE Tick
  BY <1>2, TickLiq
<1>3. ASSUME NEW r \in Runs, Decide(r) \/ SendBoth(r) PROVE LiqInv'
  BY <1>3, DecideLiqInv, SendLiq
<1>4. ASSUME NEW t \in pool, Mine(t) PROVE LiqInv'
  BY <1>4, MineLiq
<1>5. CASE UNCHANGED liqVars
  <2>1. LiqShape'
    BY <1>5, NextShape DEF LiqInv
  <2>2. /\ Short' <=> Short
        /\ ShortAfter' <=> ShortAfter
        /\ Repay(Read)' = Repay(Read) /\ (Endangered(Read)' <=> Endangered(Read))
        /\ \A s : SameRead(s)' <=> SameRead(s)
    BY <1>5, TimeKeepsStands DEF liqVars
  <2>3. OneBase' /\ Ages'
    BY <1>5 DEF liqVars, LiqInv, OneBase, Bases, Fresh, Ages
  <2>4. Stands'
    BY <1>5, <2>2 DEF liqVars, LiqInv, Stands, Fresh, RunStands, TxStands
  <2> QED
    BY <2>1, <2>3, <2>4 DEF LiqInv
<1> QED
  BY <1>1, <1>2, <1>3, <1>4, <1>5 DEF LiqNext

\* With a cooldown at all, and however runs overlap and the node refuses, replaces or
\* holds back what it is sent, a transaction that is mined at the price it was planned
\* for finds the position below its target - for any policy, loans, prices and number
\* of runs.
THEOREM NoWaste ==
  ASSUME Cooldown > 0
  PROVE  LiqSpec => NothingWasted
<1>1. LiqInv /\ [LiqNext]_liqVars
        => [\A t \in pool : latest' = latest + 1 /\ t.nonce = latest /\ t.fresh => Hf < TargetHf]_liqVars
  <2> SUFFICES ASSUME LiqInv, [LiqNext]_liqVars,
                      NEW t \in pool, latest' = latest + 1, t.nonce = latest, t.fresh
               PROVE  Hf < TargetHf
    OBVIOUS
  <2>1. Read \in ReadType /\ Read.debt = loan.debt /\ Read.collateral = loan.collateral /\ Read.price = price
    BY ReadIsRead DEF LiqInv, LiqShape
  <2>2. TxStands(t) /\ (t.kind = "repay" \/ t.kind = "deposit")
    BY FreshTypes
  <2>3. ~Met(Read, 0, 0)
    BY <2>1, <2>2, EndangeredRepays DEF TxStands, Short
  <2>4. Read.debt > 0
    <3>1. Met(Read, Read.debt, 0) /\ Read.debt \in Nat
      <4>1. PICK n \in Nat : n = Read.debt /\ Read.debt = n + 0
        BY <2>1 DEF ReadType
      <4>2. 0 * Goal <= Worth(Read)
        BY <2>1, GoalNat, WorthNat
      <4> QED
        BY <4>1, <4>2, <2>1, MetIs
    <3> QED
      BY <3>1, <2>3
  <2>5. HfX100(Read.collateral, Read.debt, Read.price) < TargetHf
    BY <2>1, <2>3, <2>4, HfIs
  <2> QED
    BY <2>1, <2>5 DEF Hf
<1> QED
  BY <1>1, InitLiq, NextLiq, PTL DEF LiqSpec, NothingWasted
=============================================================================

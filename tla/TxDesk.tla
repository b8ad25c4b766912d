-------------------------------- MODULE TxDesk --------------------------------
(***************************************************************************)
(* Every write of the page goes through one pipeline: a toast, a           *)
(* simulation, an estimate, the wallet, the receipt.  Here several run at  *)
(* once: an approval and a fill from the form under an order, and a mint   *)
(* behind a confirmation, while others fill the order, the user closes the *)
(* form, opens it again and mistypes the size, toasts are pushed out, time *)
(* out or are dismissed, a wallet broadcasts and reports an error, the     *)
(* chain drops a transaction and a receipt may never be heard of.          *)
(*                                                                         *)
(* What a fill costs is module BookView's; one unit needs one of allowance *)
(* here.  The page's polls are module ReadApi's.                           *)
(***************************************************************************)
EXTENDS Integers, Sequences, FiniteSets, FiniteSetsExt, Functions

CONSTANTS
  Size,        \* of the order, at first
  Shown,       \* toasts on the screen: MAX in Toasts.tsx
  MaxClicks, MaxForms   \* bounds: clicks, and mountings of a button

ASSUME TxAssumption == {Size, Shown, MaxClicks, MaxForms} \subseteq Nat \ {0}

VARIABLES
  market,     \* the chain: what is left of the order, the wallet's allowance
  seen,       \* what the page last read of them
  form,       \* the fill form: open, which mounting of each button it has, the busy ones
  confirm,    \* the mint button: idle, armed or busy
  tx,         \* one record per click, by the id of its toast
  tray, timers,   \* the state of each toast on the screen; the toasts with a timer
  dismissed   \* history: the toasts the user dismissed

deskVars == <<market, seen, form, confirm, tx, tray, timers, dismissed>>

FormButtons == {"approve", "fill"}
Kinds == FormButtons \cup {"mint"}
Fates == {"none", "flying", "success", "reverted"}
Stages == {"simulating", "signing", "waiting", "refetching", "over"}

DeskInit ==
  /\ market \in [left : {Size}, allow : 0 .. Size] /\ seen = market
  /\ form = [open |-> FALSE, mount |-> [k \in FormButtons |-> 0], busy |-> {}]
  /\ confirm = "idle"
  /\ tx = <<>> /\ tray = [id \in {} |-> "signing"] /\ timers = {} /\ dismissed = {}

-----------------------------------------------------------------------------
(* The tray.  Ids grow, and the tray is drawn in their order. *)

Sliced(all) == IF Cardinality(all) > Shown THEN all \ {Min(all)} ELSE all
Push(id) ==
  tray' = [k \in Sliced(DOMAIN tray \cup {id}) |-> IF k = id THEN "signing" ELSE tray[k]]

\* A toast that has gone is not brought back.
Shows(id, state) == [k \in DOMAIN tray |-> IF k = id THEN state ELSE tray[k]]

OldestGoes(id) == Restrict(tray, {k \in DOMAIN tray : \E j \in DOMAIN tray : j < k})   \* slip: by place, not by id
Without(id) == Restrict(tray, DOMAIN tray \ {id})

Update(id, state) ==
  /\ tray' = Shows(id, state)
  /\ timers' = IF state = "confirmed" THEN timers \cup {id} ELSE timers

\* The timer of a confirmed toast.
Expire(id) ==
  /\ id \in timers /\ timers' = timers \ {id}
  /\ tray' = Without(id)
  /\ UNCHANGED <<market, seen, form, confirm, tx, dismissed>>

Dismiss(id) ==
  /\ id \in DOMAIN tray
  /\ tray' = Restrict(tray, DOMAIN tray \ {id})
  /\ dismissed' = dismissed \cup {id}
  /\ UNCHANGED <<market, seen, form, confirm, tx, timers>>

-----------------------------------------------------------------------------
(* Clicks. *)

\* A busy flag lives in the component that holds its button: FillForm for the fill,
\* ApproveThen for the approval.  of: the mounting the click was made in.
Mount(kind) == IF kind = "mint" THEN 0 ELSE form.mount[kind]

\* lost (history): the page's call failed, or its reading of the funds, though the
\* transaction had been sent.
Started(kind, n) ==
  /\ Len(tx) < MaxClicks
  /\ tx' = Append(tx, [kind |-> kind, amount |-> n, of |-> Mount(kind), at |-> "simulating",
                       fate |-> "none", lost |-> FALSE])
  /\ Push(Len(tx) + 1)
  /\ UNCHANGED <<market, seen, timers, dismissed>>

OpenForm ==
  /\ ~form.open /\ seen.left > 0 /\ \A k \in FormButtons : form.mount[k] < MaxForms
  /\ form' = [open |-> TRUE, mount |-> [k \in FormButtons |-> form.mount[k] + 1], busy |-> {}]
  /\ UNCHANGED <<market, seen, confirm, tx, tray, timers, dismissed>>

\* Escape, the row's Close; the row of an order that has gone takes its form along.
CloseForm ==
  /\ form.open /\ form' = [form EXCEPT !.open = FALSE, !.busy = {}]
  /\ UNCHANGED <<market, seen, confirm, tx, tray, timers, dismissed>>

\* The size is wrong for a while - mistyped, or a poll shrank the order below it:
\* ApproveThen is taken down and, when the size is right again, put up anew.
SizeError ==
  /\ form.open /\ form.mount["approve"] < MaxForms
  /\ form' = [form EXCEPT !.mount["approve"] = @ + 1, !.busy = @ \ {"approve"}]
  /\ UNCHANGED <<market, seen, confirm, tx, tray, timers, dismissed>>

Approve(n) ==
  /\ form.open /\ n \in 1 .. seen.left
  /\ seen.allow < n /\ "approve" \notin form.busy
  /\ form' = [form EXCEPT !.busy = @ \cup {"approve"}]
  /\ Started("approve", n) /\ UNCHANGED confirm

CanFillTwice(n) == n \in 1 .. seen.left /\ seen.allow >= n   \* slip: Enter is not held back
CanFill(n) == n \in 1 .. seen.left /\ seen.allow >= n /\ "fill" \notin form.busy

ClickFill(n) ==
  /\ form.open /\ CanFill(n)
  /\ form' = [form EXCEPT !.busy = @ \cup {"fill"}]
  /\ Started("fill", n) /\ UNCHANGED confirm

\* The first click arms the button, Escape, the second button or eight seconds
\* disarm it.
Arm ==
  /\ confirm = "idle" /\ confirm' = "armed"
  /\ UNCHANGED <<market, seen, form, tx, tray, timers, dismissed>>
Disarm ==
  /\ confirm = "armed" /\ confirm' = "idle"
  /\ UNCHANGED <<market, seen, form, tx, tray, timers, dismissed>>

Confirm ==
  /\ confirm = "armed" /\ confirm' = "busy"
  /\ Started("mint", 0) /\ UNCHANGED form

-----------------------------------------------------------------------------
(* The pipeline. *)

Runs(t) == t.kind = "fill" => t.amount <= market.left /\ t.amount <= market.allow

\* A call returns to its caller: an approval refetches the funds first, a fill that
\* succeeded closes whichever form is open by now (setFilling(null)), and the button
\* clicked, if it is still mounted, is not busy any more.
Own(t) == form.open /\ t.of = Mount(t.kind)

StaysBusy(id, success) ==   \* slip: only success resets the button
  IF success THEN [form EXCEPT !.busy = @ \ {tx[id].kind}] ELSE form
Freed(id, success) ==
  IF tx[id].kind = "fill" /\ success THEN [form EXCEPT !.open = FALSE, !.busy = {}]
  ELSE IF Own(tx[id]) THEN [form EXCEPT !.busy = @ \ {tx[id].kind}]
  ELSE form

AtOnce(kind) == "over"   \* slip: the button is free before the funds are read again
AfterCall(kind) == IF kind = "approve" THEN "refetching" ELSE "over"

Returns(id, t, success) ==
  LET then == AfterCall(t.kind) IN
  /\ tx' = [tx EXCEPT ![id] = [t EXCEPT !.at = then]]
  /\ form' = IF then = "over" /\ t.kind # "mint" THEN Freed(id, success) ELSE form
  /\ confirm' = IF t.kind = "mint" THEN "idle" ELSE confirm

\* The simulation refuses, the estimate does, the user does, or a call fails before
\* anything was sent ...
Fail(id) ==
  /\ tx[id].at \in {"simulating", "signing"}
  /\ Update(id, "failed") /\ Returns(id, tx[id], FALSE)
  /\ UNCHANGED <<market, seen, dismissed>>

\* ... or writeContract rejects though the wallet has broadcast: the page has no hash
\* and says failed of a transaction that is under way.
Unheard(id) ==
  /\ tx[id].at = "signing" /\ Runs(tx[id])
  /\ Update(id, "failed")
  /\ Returns(id, [tx[id] EXCEPT !.fate = "flying", !.lost = TRUE], FALSE)
  /\ UNCHANGED <<market, seen, dismissed>>

Simulate(id) ==
  /\ tx[id].at = "simulating" /\ Runs(tx[id])
  /\ tx' = [tx EXCEPT ![id].at = "signing"]
  /\ UNCHANGED <<market, seen, form, confirm, tray, timers, dismissed>>

\* The estimate still runs and the user signs.
Sign(id) ==
  /\ tx[id].at = "signing" /\ Runs(tx[id])
  /\ tx' = [tx EXCEPT ![id].at = "waiting", ![id].fate = "flying"]
  /\ Update(id, "pending")
  /\ UNCHANGED <<market, seen, form, confirm, dismissed>>

OnlySuccess(t) == t.at = "waiting" /\ t.fate = "success"   \* slip: a reverted receipt is waited on
Mined(t) == t.at = "waiting" /\ t.fate \in {"success", "reverted"}

Receipt(id) ==
  LET t == tx[id] IN
  /\ Mined(t)
  /\ Update(id, IF t.fate = "success" THEN "confirmed" ELSE "failed")
  /\ Returns(id, t, t.fate = "success")
  /\ UNCHANGED <<market, seen, dismissed>>

\* waitForTransactionReceipt rejects because a call of its polling fails.  It has no
\* timeout: a transaction the chain drops is waited for for ever.
GiveUp(id) ==
  /\ tx[id].at = "waiting"
  /\ Update(id, "failed") /\ Returns(id, [tx[id] EXCEPT !.lost = TRUE], FALSE)
  /\ UNCHANGED <<market, seen, dismissed>>

\* await funds.refetch(): it may fail, and then the form keeps what it has.
Refetched(id) ==
  /\ tx[id].at = "refetching"
  /\ \/ seen' = [seen EXCEPT !.allow = market.allow]
        /\ tx' = [tx EXCEPT ![id].at = "over"]
     \/ UNCHANGED seen
        /\ tx' = [tx EXCEPT ![id].at = "over", ![id].lost = TRUE]
  /\ form' = Freed(id, FALSE)
  /\ UNCHANGED <<market, confirm, tray, timers, dismissed>>

-----------------------------------------------------------------------------
(* The chain, the other traders and the polls. *)

Land(id) ==
  LET t == tx[id] IN
  /\ t.fate = "flying"
  /\ tx' = [tx EXCEPT ![id].fate = IF Runs(t) THEN "success" ELSE "reverted"]
  /\ market' = CASE ~Runs(t) \/ t.kind = "mint" -> market
                 [] t.kind = "approve" -> [market EXCEPT !.allow = t.amount]
                 [] OTHER -> [left |-> market.left - t.amount, allow |-> market.allow - t.amount]
  /\ UNCHANGED <<seen, form, confirm, tray, timers, dismissed>>

Rival ==
  /\ market.left > 0 /\ market' = [market EXCEPT !.left = @ - 1]
  /\ UNCHANGED <<seen, form, confirm, tx, tray, timers, dismissed>>

Poll ==
  /\ \/ seen' = [seen EXCEPT !.left = market.left]
     \/ seen' = [seen EXCEPT !.allow = market.allow]
  /\ UNCHANGED <<market, form, confirm, tx, tray, timers, dismissed>>

Ids == 1 .. MaxClicks
At(id) == IF id \in DOMAIN tx THEN tx[id].at ELSE "unclicked"

DeskNext ==
  \/ OpenForm \/ CloseForm \/ SizeError \/ Arm \/ Disarm \/ Confirm
  \/ \E n \in 1 .. Size : Approve(n) \/ ClickFill(n)
  \/ \E id \in DOMAIN tx :
       Simulate(id) \/ Fail(id) \/ Unheard(id) \/ Sign(id) \/ Receipt(id) \/ GiveUp(id)
         \/ Refetched(id) \/ Land(id) \/ Expire(id) \/ Dismiss(id)
  \/ Rival \/ Poll

DeskSpec == DeskInit /\ [][DeskNext]_deskVars

\* Calls to the network end, and the receipt of a transaction in a block is found.
\* Nothing makes the user sign, the chain take a transaction, or a wait fail.
Ends(id) ==
  /\ At(id) \in {"simulating", "waiting", "refetching"}
  /\ Simulate(id) \/ Fail(id) \/ Receipt(id) \/ Refetched(id)

FairDeskSpec == DeskSpec /\ \A id \in Ids : WF_deskVars(Ends(id))

-----------------------------------------------------------------------------
(* Properties. *)

Form == [open : BOOLEAN, mount : [FormButtons -> 0 .. MaxForms], busy : SUBSET FormButtons]

DeskTypeOK ==
  /\ market \in [left : 0 .. Size, allow : 0 .. Size]
  /\ seen \in [left : 0 .. Size, allow : 0 .. Size]
  /\ form \in Form
  /\ confirm \in {"idle", "armed", "busy"}
  /\ tx \in Seq([kind : Kinds, amount : 0 .. Size, of : 0 .. MaxForms, at : Stages,
                 fate : Fates, lost : BOOLEAN])
  /\ DOMAIN tray \cup timers \cup dismissed \subseteq DOMAIN tx

Running(id) == tx[id].at \in {"simulating", "signing", "waiting"}

\* What a toast says of its transaction is so - signing: nothing was sent; pending:
\* it was; confirmed: it succeeded; failed: it had no effect, unless the page's call
\* failed after the wallet had sent it - whatever was pushed, dropped and dismissed around it; and of what is
\* still running only what the user dismissed or newer clicks pushed out is missing.
TrayIsTrue ==
  /\ \A id \in DOMAIN tray :
       LET t == tx[id] IN
       CASE tray[id] = "signing"   -> t.fate = "none" /\ t.at \in {"simulating", "signing"}
         [] tray[id] = "pending"   -> t.fate # "none" /\ t.at = "waiting"
         [] tray[id] = "confirmed" -> t.fate = "success" /\ ~Running(id)
         [] tray[id] = "failed"    -> ~Running(id) /\ (t.fate \in {"none", "reverted"} \/ t.lost)
  /\ \A id \in DOMAIN tx : Running(id) =>
       id \in DOMAIN tray \/ id \in dismissed \/ id <= Len(tx) - Shown

\* A mounted button is busy exactly as long as the click made in it is under way,
\* which is one at most, whatever runs on from a form closed before or from under a
\* size error and whoever's success closes the form: a fill is one at most for each
\* opening of the form, while an approval can overlap one of an earlier mounting.
BusyIsRunning ==
  LET under(kind) == {id \in DOMAIN tx : tx[id].kind = kind /\ tx[id].at # "over"
                                          /\ tx[id].of = Mount(kind)}
      one(kind, busy) == Cardinality(under(kind)) = IF busy THEN 1 ELSE 0
  IN /\ form.open => \A kind \in FormButtons : one(kind, kind \in form.busy)
     /\ one("mint", confirm = "busy")

\* When no approval is under way, and the page heard of each how it ended, the form
\* does not ask for one that the wallet has given already.
NeverAsksAgain ==
  (\A id \in DOMAIN tx : tx[id].kind = "approve" => tx[id].at = "over" /\ ~tx[id].lost)
    => market.allow <= seen.allow

\* The page's part of every click ends: a simulation, the wait for a transaction that
\* is in a block, successful or not, and the caller's refetch behind it.  (One that
\* the chain drops is waited for for ever, its button busy.)
EveryClickEnds ==
  \A id \in Ids :
    /\ At(id) = "simulating" ~> At(id) # "simulating"
    /\ (At(id) = "waiting" /\ tx[id].fate \in {"success", "reverted"}) ~> At(id) = "over"
    /\ At(id) = "refetching" ~> At(id) = "over"

\* Buttons are honest: busy while their click is under way, and an approval that
\* was given is not asked for again.
ButtonsAreHonest == DeskTypeOK /\ BusyIsRunning /\ NeverAsksAgain
=============================================================================

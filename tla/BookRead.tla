------------------------------- MODULE BookRead -------------------------------
(***************************************************************************)
(* One answer to GET /bonds/:id/orderbook.  It is put together from reads  *)
(* that the network serves at different moments - the market's quote, the  *)
(* next order id, then the storage slot of every order ever placed - while *)
(* the market goes on trading.  The contract gives no order id twice.      *)
(*                                                                         *)
(* Status, settings, mark and KYC are not part of what is read and stay as *)
(* they are; caching and sharing answers is module ReadApi.                *)
(***************************************************************************)
EXTENDS BookView

CONSTANTS Unread

ASSUME UnreadAssumption == Unread \notin Nat \cup [bid : Nat, ask : Nat]

VARIABLES
  asOf,                \* the API's clock when it began
  quote, next, rows,   \* what has been read
  held, steady         \* history: the rows of the book at some moment, and at every moment, so far

hist    == <<held, steady>>
allVars == <<vars, asOf, quote, next, rows, hist>>

RowsOf(book) == {[id |-> id, order |-> book[id]] : id \in DOMAIN book}
LiveRows == {r \in RowsOf(orders) : Live(r.order)}

ReadInit ==
  /\ Init
  /\ asOf = Unread /\ quote = Unread /\ next = Unread /\ rows = <<>>
  /\ held = {} /\ steady = {}

Begin ==
  /\ asOf = Unread /\ asOf' = now
  /\ held' = LiveRows /\ steady' = LiveRows
  /\ UNCHANGED <<vars, quote, next, rows>>

\* The market moves, before the reading and during it.
Trade ==
  /\ \/ \E a \in Accounts, o \in Offers : Place(a, o)
     \/ \E id \in DOMAIN orders : Cancel(id)
     \/ \E a \in Accounts, id \in DOMAIN orders, n \in Amounts : Fill(a, id, n)
     \/ Tick
  /\ IF asOf = Unread THEN UNCHANGED hist
     ELSE held' = held \cup LiveRows' /\ steady' = steady \cap LiveRows'
  /\ UNCHANGED <<asOf, quote, next, rows>>

ReadQuote ==
  /\ asOf # Unread /\ quote = Unread /\ quote' = Quote
  /\ UNCHANGED <<vars, asOf, next, rows, hist>>

LastId == Len(orders) - 1   \* slip: nextOrderId is taken for the last id
NextId == Len(orders)

ReadNext ==
  /\ asOf # Unread /\ next = Unread /\ next' = NextId
  /\ UNCHANGED <<vars, asOf, quote, rows, hist>>

\* The slots are asked for in one batch and served each at a moment of its own.
ReadSlot ==
  /\ next # Unread
  /\ \E id \in 1 .. next \ DOMAIN rows :
       rows' = [i \in DOMAIN rows \cup {id} |-> IF i = id THEN orders[id] ELSE rows[i]]
  /\ UNCHANGED <<vars, asOf, quote, next, hist>>

AllRead == quote # Unread /\ next # Unread /\ DOMAIN rows = 1 .. next

ReadSome == Begin \/ ReadQuote \/ ReadNext \/ ReadSlot

\* An answer is sent as soon as everything is read.
ReadStep == ~AllRead /\ (Trade \/ ReadSome)

ReadSpec == ReadInit /\ [][ReadStep]_allVars

KeptExpired(o) == o # NoOrder   \* slip: expired orders stay on the page
Kept(o) == o # NoOrder /\ (o.expiry = 0 \/ o.expiry > asOf)

\* bids and asks of the body, as a set; their order is BookView's.
Body == {r \in RowsOf(rows) : Kept(r.order)}

-----------------------------------------------------------------------------
(* Properties. *)

ReadTypeOK ==
  /\ asOf \in {Unread} \cup 1 .. now
  /\ next \in {Unread} \cup 0 .. Len(orders)
  /\ DOMAIN rows \subseteq 1 .. Len(orders)
  /\ \A id \in DOMAIN rows : rows[id] \in Order \cup {NoOrder}
  /\ steady \subseteq held

\* However the reads and the market's steps interleave, the answer lists every
\* order that stood unchanged all the while, and none at a size it had at no
\* moment of it.
AnswerIsRegular ==
  AllRead => steady \subseteq Body /\ Body \subseteq held

\* If nothing moved meanwhile, the answer is the book, and the best prices quoted
\* are those of its first rows; if something did, the page may quote a price none
\* of its rows has.
QuietAnswerIsTheBook ==
  AllRead /\ held = steady =>
    LET side(sell) == {r.order.price : r \in {x \in Body : x.order.isSell = sell}} IN
    /\ quote.bid = IF side(FALSE) = {} THEN 0 ELSE Max(side(FALSE))
    /\ quote.ask = IF side(TRUE) = {} THEN 0 ELSE Min(side(TRUE))

\* What the page gets is a book: every row real, complete if nothing moved.
AnswerIsABook == ReadTypeOK /\ AnswerIsRegular /\ QuietAnswerIsTheBook
=============================================================================

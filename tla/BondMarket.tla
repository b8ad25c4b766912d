------------------------------ MODULE BondMarket ------------------------------
(***************************************************************************)
(* The limit-order book of one bond.  Nothing is locked when an order is   *)
(* placed: everything is judged and settled at the fill, perhaps much      *)
(* later, when the status, the parties' KYC, the mark, the band, the fee   *)
(* and both balances may have moved.  Any two of maker, taker and treasury *)
(* may be the same account.                                                *)
(*                                                                         *)
(* A fill that reverts is no step.  Allowances only make more of them      *)
(* revert and are left out.                                                *)
(***************************************************************************)
EXTENDS Integers, Sequences, SequencesExt, Sums

CONSTANTS
  Accounts,
  Cash, Bonds,     \* what each account starts with
  Unit,            \* 10^bondDecimals
  Bps,             \* the denominator of fee and band (10000 deployed)
  MaxFeeBps,
  Fees, Bands,     \* values the admin uses; band 0 = no band
  Treasuries,      \* accounts the admin names as treasury
  Marks,           \* what oracle.mark may answer
  Eligibles,       \* sets of accounts canTransferFrom may pass
  Amounts, Prices, Expiries,   \* of orders; expiry 0 = good till cancelled
  NoOrder,
  MaxOrders, MaxNow   \* bounds

ASSUME MarketAssumption ==
  /\ IsFiniteSet(Accounts)
  /\ Cash \in [Accounts -> Nat] /\ Bonds \in [Accounts -> Nat]
  /\ Unit \in Nat \ {0} /\ Bps \in Nat \ {0} /\ MaxFeeBps \in Nat
  /\ Fees \subseteq Nat /\ Bands \subseteq Nat /\ Marks \subseteq Nat
  /\ Treasuries \subseteq Accounts
  /\ Eligibles \subseteq SUBSET Accounts
  /\ Amounts \subseteq Nat \ {0} /\ Prices \subseteq Nat \ {0} /\ Expiries \subseteq Nat
  /\ MaxOrders \in Nat /\ MaxNow \in Nat

VARIABLES
  orders,            \* every order id ever given; NoOrder = deleted
  cash, tokens,
  status, eligible, mark,      \* of the bond
  bandBps, feeBps, treasury,   \* settings
  now,
  tally              \* history: what was placed and filled under each id

bookVars  == <<orders, tally>>
moneyVars == <<cash, tokens>>
rules     == <<status, eligible, mark, bandBps, feeBps, treasury>>
vars      == <<bookVars, moneyVars, rules, now>>

Status == {"Active", "Frozen", "Matured", "Defaulted"}
Order  == [maker : Accounts, isSell : BOOLEAN, amount : Nat \ {0}, price : Prices,
           expiry : Nat]
Tally  == [placed : Nat, price : Prices, filled : Nat, cost : Nat, fills : Nat]

ASSUME NoOrderAssumption == NoOrder \notin Order

FeeUncapped(fee) == TRUE   \* slip
FeeAllowed(fee) == fee <= MaxFeeBps

Init ==
  /\ orders = <<>> /\ tally = <<>>
  /\ cash = Cash /\ tokens = Bonds
  /\ status = "Active"
  /\ eligible \in Eligibles /\ mark \in Marks
  /\ bandBps = 0
  /\ feeBps \in {fee \in Fees : FeeAllowed(fee)} /\ treasury \in Treasuries
  /\ now = 1

-----------------------------------------------------------------------------
(* Orders. *)

Placeable(a, o) ==
  /\ status = "Active"
  /\ o.maker = a
  /\ o.expiry = 0 \/ o.expiry > now
  /\ Len(orders) < MaxOrders

Place(a, o) ==
  /\ Placeable(a, o)
  /\ orders' = Append(orders, o)
  /\ tally' = Append(tally, [placed |-> o.amount, price |-> o.price, filled |-> 0,
                             cost |-> 0, fills |-> 0])
  /\ UNCHANGED <<moneyVars, rules, now>>

Cancel(id) ==
  /\ orders[id] # NoOrder
  /\ orders' = [orders EXCEPT ![id] = NoOrder]
  /\ UNCHANGED <<tally, moneyVars, rules, now>>

Live(o) == o # NoOrder /\ (o.expiry = 0 \/ o.expiry > now)

-----------------------------------------------------------------------------
(* fill. *)

InBandOpen(price) == bandBps = 0 \/ price <= mark   \* slip: only one side is checked
InBand(price) ==
  LET diff == IF price > mark THEN price - mark ELSE mark - price
  IN  bandBps = 0 \/ diff * Bps <= mark * bandBps

CostOfOrder(o, n) == (o.amount * o.price) \div Unit   \* slip: of the order, not of the fill
CostOf(o, n) == (n * o.price) \div Unit

Fee(c) == (c * feeBps) \div Bps

\* ERC20 _update: the sender's balance is written before the receiver's is read.
MovedAtOnce(acc, from, to, n) ==   \* slip
  [acc EXCEPT ![from] = acc[from] - n, ![to] = acc[to] + n]
Moved(acc, from, to, n) ==
  LET debited == [acc EXCEPT ![from] = @ - n]
  IN  [debited EXCEPT ![to] = @ + n]

RestUntouched(o, n) == IF o.amount = n THEN NoOrder ELSE o   \* slip
RestOf(o, n) == IF o.amount = n THEN NoOrder ELSE [o EXCEPT !.amount = @ - n]

Seller(o, taker) == IF o.isSell THEN o.maker ELSE taker
Buyer(o, taker)  == IF o.isSell THEN taker ELSE o.maker

\* Settlement after the first of the two payments, the one to the seller.
Paid(o, taker, n) == Moved(cash, Buyer(o, taker), Seller(o, taker), CostOf(o, n))

Fillable(taker, id, n) ==
  LET o == orders[id]
      seller == Seller(o, taker)
      buyer  == Buyer(o, taker)
      c == CostOf(o, n)
  IN
  /\ Live(o)
  /\ n <= o.amount
  /\ status = "Active"
  /\ {seller, buyer} \subseteq eligible /\ tokens[seller] >= n
  /\ InBand(o.price)
  /\ c > 0
  /\ cash[buyer] >= c /\ Paid(o, taker, n)[buyer] >= Fee(c)

Fill(taker, id, n) ==
  LET o == orders[id]
      seller == Seller(o, taker)
      buyer  == Buyer(o, taker)
      c == CostOf(o, n)
  IN
  /\ Fillable(taker, id, n)
  /\ orders' = [orders EXCEPT ![id] = RestOf(o, n)]
  /\ cash' = Moved(Paid(o, taker, n), buyer, treasury, Fee(c))
  /\ tokens' = Moved(tokens, seller, buyer, n)
  /\ tally' = [tally EXCEPT ![id].filled = @ + n, ![id].cost = @ + c, ![id].fills = @ + 1]
  /\ UNCHANGED <<rules, now>>

-----------------------------------------------------------------------------
(* quote: one scan over every id, keeping the best of each side; 0 = none. *)

QuotedAnyTime(o) == o # NoOrder   \* slip: expired orders are quoted
Quoted(o) == Live(o)

Better(q, o) ==
  IF ~Quoted(o) THEN q
  ELSE IF o.isSell
       THEN [q EXCEPT !.ask = IF @ = 0 \/ o.price < @ THEN o.price ELSE @]
       ELSE [q EXCEPT !.bid = IF o.price > @ THEN o.price ELSE @]

Quote == FoldLeft(Better, [bid |-> 0, ask |-> 0], orders)

-----------------------------------------------------------------------------
(* Settings and the world. *)

SetBand ==
  /\ bandBps' \in Bands
  /\ UNCHANGED <<bookVars, moneyVars, status, eligible, mark, feeBps, treasury, now>>

SetFee ==
  /\ feeBps' \in Fees /\ FeeAllowed(feeBps') /\ treasury' \in Treasuries
  /\ UNCHANGED <<bookVars, moneyVars, status, eligible, mark, bandBps, now>>

\* The gate and the lifecycle move the status, the officer moves KYC, the freeze
\* list and the pause, coupons move the mark.
WorldMoves ==
  /\ \/ status = "Active" /\ status' \in Status
     \/ status = "Frozen" /\ status' \in Status
     \/ UNCHANGED status
  /\ eligible' \in Eligibles /\ mark' \in Marks
  /\ UNCHANGED <<bookVars, moneyVars, bandBps, feeBps, treasury, now>>

Tick ==
  /\ now < MaxNow /\ now' = now + 1
  /\ UNCHANGED <<bookVars, moneyVars, rules>>

Offers == [maker : Accounts, isSell : BOOLEAN, amount : Amounts, price : Prices,
           expiry : Expiries]

Next ==
  \/ \E a \in Accounts, o \in Offers : Place(a, o)
  \/ \E id \in DOMAIN orders : Cancel(id)
  \/ \E a \in Accounts, id \in DOMAIN orders, n \in Amounts : Fill(a, id, n)
  \/ SetBand \/ SetFee \/ WorldMoves \/ Tick

Spec == Init /\ [][Next]_vars

-----------------------------------------------------------------------------
(* Properties. *)

\* Every variable keeps its type: no balance below zero, no order left with
\* nothing in it.
TypeOK ==
  /\ orders \in Seq(Order \cup {NoOrder}) /\ tally \in Seq(Tally)
  /\ Len(tally) = Len(orders)
  /\ cash \in [Accounts -> Nat] /\ tokens \in [Accounts -> Nat]
  /\ status \in Status /\ eligible \in Eligibles /\ mark \in Marks
  /\ bandBps \in Bands \cup {0} /\ feeBps \in Fees /\ feeBps <= MaxFeeBps
  /\ treasury \in Treasuries /\ now \in Nat

Total(acc) == SumOver(acc, Accounts)

\* Settlement and bonds only change hands, also when maker, taker and treasury
\* are one account (MarketInvariant.t.sol: settlementConserved and
\* bondSupplyConserved).
Conserved == Total(cash) = Total(Cash) /\ Total(tokens) = Total(Bonds)

\* An order never trades more than it was placed for, over any partial fills.
NeverOverfilled ==
  \A id \in DOMAIN orders :
    tally[id].filled + (IF orders[id] = NoOrder THEN 0 ELSE orders[id].amount)
      <= tally[id].placed

\* An order trades at its own price: over all its fills the maker of an ask
\* gets, and the maker of a bid pays before fees, at most one settlement unit
\* less per fill than the price says, and never more.
AtItsPrice ==
  \A id \in DOMAIN orders : LET t == tally[id] IN
    /\ t.cost * Unit <= t.filled * t.price
    /\ t.fills > 0 => t.filled * t.price < (t.cost + t.fills) * Unit

\* Fills are fair: no order overfilled, none off its price.
FillsAreFair == NeverOverfilled /\ AtItsPrice

\* The best bid and ask quoted are the best prices among the orders a fill would
\* still find, and 0 exactly when there are none.
QuoteIsBest ==
  LET live(sell) == {orders[id].price : id \in {i \in DOMAIN orders :
                       /\ orders[i] # NoOrder /\ orders[i].isSell = sell
                       /\ orders[i].expiry = 0 \/ orders[i].expiry > now}}
  IN  /\ Quote.bid = IF live(FALSE) = {} THEN 0 ELSE Max(live(FALSE))
      /\ Quote.ask = IF live(TRUE) = {} THEN 0 ELSE Min(live(TRUE))

\* Whatever was true when an order was placed, bonds change hands only while the
\* bond is Active, between accounts that may hold it then, at a price in the band
\* around that moment's mark, and before the order's expiry.
TradesAreLegal ==
  [][\A id \in DOMAIN orders :
       tally'[id].fills > tally[id].fills =>
         /\ status = "Active" /\ orders[id].maker \in eligible
         /\ {a \in Accounts : tokens'[a] # tokens[a]} \subseteq eligible
         /\ bandBps = 0 \/
              (orders[id].price * Bps >= mark * (Bps - bandBps) /\
               orders[id].price * Bps <= mark * (Bps + bandBps))
         /\ orders[id].expiry = 0 \/ now < orders[id].expiry]_vars

=============================================================================

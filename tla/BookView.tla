------------------------------- MODULE BookView -------------------------------
(***************************************************************************)
(* What the API and the web app make of the market's storage: the open     *)
(* orders the API rebuilds, the ladder, depth and spread the pages show,   *)
(* the sums the fill form and the order form announce before anything is   *)
(* signed.  Everything here is a function of one state of the market; what *)
(* happens when the pieces are read at different moments is module BookRead.*)
(*                                                                         *)
(* The page computes in TypeScript what the contract computes in Solidity: *)
(* the properties relate the two.  It computes on clocks of its own: the   *)
(* API server's says which orders are open, the browser's when a new one   *)
(* ends.                                                                   *)
(***************************************************************************)
EXTENDS BondMarket

CONSTANTS
  PageSkew,   \* how far those clocks may be off the chain's, either way
  Delays      \* how long an order may be asked to stand; 0 = good till cancelled

\* The shortest choice but "good till cancelled" is an hour.
ASSUME PageAssumption ==
  /\ PageSkew \in Nat /\ Delays \subseteq Nat
  /\ \A d \in Delays : d = 0 \/ d > PageSkew

Clocks == (now - PageSkew) .. (now + PageSkew)

-----------------------------------------------------------------------------
(* GET /bonds/:id/orderbook. *)

OpenTooLong(o, clock) == o # NoOrder /\ (o.expiry = 0 \/ o.expiry >= clock)   \* slip: one second longer than the contract
\* A deleted order reads as zeros, and bond id 0 is nobody's.
Open(o, clock) == o # NoOrder /\ (o.expiry = 0 \/ o.expiry > clock)

Listed(isSell, clock) ==
  {id \in DOMAIN orders : Open(orders[id], clock) /\ orders[id].isSell = isSell}

-----------------------------------------------------------------------------
(* The ladder. *)

\* The comparator never answers 0, so equal prices come in any order.
BestFirst(isSell, s) ==
  \A j, k \in DOMAIN s : j < k =>
    IF isSell THEN orders[s[j]].price <= orders[s[k]].price
              ELSE orders[s[j]].price >= orders[s[k]].price

Ladders(isSell, clock) == {s \in SetToSeqs(Listed(isSell, clock)) : BestFirst(isSell, s)}

RowSizes(s) == [j \in DOMAIN s |-> orders[s[j]].amount]
CumulativeBefore(s, k) == SumOver(RowSizes(s), 1 .. k - 1)   \* slip: without the row itself
\* The size from the best price out to row k.
Cumulative(s, k) == SumOver(RowSizes(s), 1 .. k)

NoSpread == [spread |-> 0, mid |-> 0]
SpreadMid(bid, ask) ==
  IF bid = 0 \/ ask = 0 THEN NoSpread ELSE [spread |-> ask - bid, mid |-> (ask + bid) \div 2]

Sizes == [id \in DOMAIN orders |-> IF orders[id] = NoOrder THEN 0 ELSE orders[id].amount]
SizeAtBest(isSell, best, clock) ==
  SumOver(Sizes, {id \in Listed(isSell, clock) : orders[id].price = best})

-----------------------------------------------------------------------------
(* The forms. *)

\* What stands in a size field: whole bonds, and a part in the decimals the bond has.
Texts == [whole : {0} \cup Amounts, part : 0 .. Unit - 1]

ParsedAsIs(e) == e.whole   \* slip: the bond's decimals are forgotten
\* A text is read as so many bonds, not as base units.
Parsed(e) == e.whole * Unit + e.part

OrderCost(n, price) == (n * price) \div Unit
OrderFee(c) == (c * feeBps) \div Bps
TotalWithoutFee(n, price) == OrderCost(n, price)   \* slip: the fee is forgotten
BuyerTotal(n, price) == OrderCost(n, price) + OrderFee(OrderCost(n, price))

\* The button of a row, for the connected wallet.
Button(a, id) ==
  CASE orders[id].maker = a -> "Cancel"
    [] orders[id].maker # a /\ status = "Active" -> IF orders[id].isSell THEN "Buy" ELSE "Sell"
    [] OTHER -> "disabled"

\* What a fill needs of the taker, and what it has.
Need(id, n) == IF orders[id].isSell THEN BuyerTotal(n, orders[id].price) ELSE n
Balance(a, id) == IF orders[id].isSell THEN cash[a] ELSE tokens[a]

\* "Your balance is less than needed: the fill would revert."
Warns(a, id, n) == Balance(a, id) < Need(id, n)

\* The form lets the size through.
SizeAllowed(id, e) == Parsed(e) > 0 /\ Parsed(e) <= orders[id].amount

\* The max buttons write base units into the field, which is then read as bonds:
\* the amount meant where bonds have no decimals, Unit times it where they have.
BaseUnits(n) == [whole |-> n, part |-> 0]

MaxIgnoresFee(a, price) == BaseUnits((cash[a] * Unit) \div price)   \* slip
MaxBid(a, price) == BaseUnits((((cash[a] * Unit) \div price) \div (Bps + feeBps)) * Bps)
MaxAsk(a) == BaseUnits(tokens[a])
\* Of the fill form, and what it opens with.
MaxFill(id) == BaseUnits(orders[id].amount)

\* The order form: a size and a price typed in, and a choice of how long.
OrderReady(e, price) == Parsed(e) > 0 /\ price > 0
ExpiresAt(delay, clock) == IF delay = 0 THEN 0 ELSE clock + delay
PlaceCall(a, sell, e, price, delay, clock) ==
  [maker |-> a, isSell |-> sell, amount |-> Parsed(e), price |-> price,
   expiry |-> ExpiresAt(delay, clock)]

\* What the maker must have when the order fills, and has now.
PlaceNeed(o) == IF o.isSell THEN o.amount ELSE BuyerTotal(o.amount, o.price)
PlaceHave(o) == IF o.isSell THEN tokens[o.maker] ELSE cash[o.maker]

PlaceEnabled(e, price) == status = "Active" /\ OrderReady(e, price)

-----------------------------------------------------------------------------
(* Properties. *)

\* The order ends between the chain's moment and the clock's.
Between(o, clock) == o # NoOrder /\ o.expiry # 0 /\ (o.expiry > now) # (o.expiry > clock)

\* Read at one moment, the page's ladder is the market's book, but for orders that
\* end while the API's clock and the chain's differ.  With none of these each side
\* lists best first exactly the orders a fill would find, its first row is at the
\* price quote names, the size at the best price is not zero, and there is a spread
\* to show exactly when both sides have orders.
LadderIsTheBook ==
  \A clock \in Clocks :
    LET ending == {id \in DOMAIN orders : Between(orders[id], clock)}
        live(sell) == {id \in DOMAIN orders : Live(orders[id]) /\ orders[id].isSell = sell}
    IN
    /\ \A sell \in BOOLEAN : Listed(sell, clock) \ ending = live(sell) \ ending
    /\ ending = {} =>
         /\ \A sell \in BOOLEAN : \A s \in Ladders(sell, clock) :
              LET best == IF sell THEN Quote.ask ELSE Quote.bid IN
              /\ live(sell) = ToSet(s)
              /\ IF s = <<>> THEN best = 0
                 ELSE /\ orders[Head(s)].price = best
                      /\ SizeAtBest(sell, best, clock) \in 1 .. Cumulative(s, Len(s))
         /\ LET sm == SpreadMid(Quote.bid, Quote.ask) IN
              sm = NoSpread <=> Listed(TRUE, clock) = {} \/ Listed(FALSE, clock) = {}

\* The cumulative size of a row is never less than what the book listed offers at
\* better prices and never more than what it offers at that price or better, in
\* whatever order the browser leaves equal prices.
DepthIsHonest ==
  \A clock \in Clocks, sell \in BOOLEAN :
    \A s \in Ladders(sell, clock) : \A k \in DOMAIN s :
      LET price == orders[s[k]].price
          better == {id \in Listed(sell, clock) :
                       IF sell THEN orders[id].price < price ELSE orders[id].price > price}
          equal == {id \in Listed(sell, clock) : orders[id].price = price}
      IN  /\ Cumulative(s, k) > SumOver(Sizes, better)
          /\ Cumulative(s, k) <= SumOver(Sizes, better \cup equal)

\* The fill form announces what the contract will do, before the wallet signs: a
\* size it warns about would revert, and one it neither warns about nor refuses
\* goes through, unless the order has ended or the refusal is the other side's or
\* the compliance check's.
FormTellsTruth ==
  \A a \in Accounts, id \in DOMAIN orders, e \in Texts :
    orders[id] # NoOrder /\ Button(a, id) \in {"Buy", "Sell"} /\ SizeAllowed(id, e) =>
      LET o == orders[id]
          n == Parsed(e)
          c == OrderCost(n, o.price)
          otherSide == IF o.isSell THEN tokens[o.maker] >= n
                       ELSE cash[o.maker] >= BuyerTotal(n, o.price)
          compliant == {a, o.maker} \subseteq eligible /\ InBand(o.price)
      IN  /\ Warns(a, id, n) => ~Fillable(a, id, n)
          /\ ~Warns(a, id, n) /\ otherSide /\ compliant /\ c > 0 /\ Live(o) =>
               Fillable(a, id, n)

\* Where bonds have no decimals the max buttons mean what they say: a bid of the
\* max costs no more than the wallet has, fee and all roundings included, an ask of
\* it is all the wallet holds, and a fill of it is the whole order.  Where they
\* have, all three are Unit times too large: the form refuses the fill, and the bid
\* is only known to cost at most Unit times what the wallet has.
MaxMeansMax ==
  /\ \A a \in Accounts, p \in Prices :
       /\ BuyerTotal(Parsed(MaxBid(a, p)), p) <= cash[a] * Unit
       /\ Parsed(MaxAsk(a)) = tokens[a] <=> Unit = 1 \/ tokens[a] = 0
  /\ \A id \in DOMAIN orders :
       orders[id] # NoOrder => (SizeAllowed(id, MaxFill(id)) <=> Unit = 1)

\* The order form: an order it lets through is placed, whatever expiry was chosen
\* and however far the browser's clock is off; "the fill would revert" holds of a
\* resting order taken whole as long as its maker has less than it needs; and a bid
\* filled piece by piece, at the fee shown, never costs its maker more than the
\* total announced, nor does an ask ever bring more than "receive if filled".
OrderFormTellsTruth ==
  /\ \A a \in Accounts, sell \in BOOLEAN, e \in Texts, p \in Prices, d \in Delays, clock \in Clocks :
       PlaceEnabled(e, p) /\ Len(orders) < MaxOrders =>
         Placeable(a, PlaceCall(a, sell, e, p, d, clock))
  /\ \A id \in DOMAIN orders : orders[id] # NoOrder =>
       LET o == orders[id] IN
       PlaceHave(o) < PlaceNeed(o) =>
         \A a \in Accounts \ {o.maker} : ~Fillable(a, id, o.amount)
  /\ \A n, m \in Amounts, p \in Prices :
       /\ BuyerTotal(n, p) + BuyerTotal(m, p) <= BuyerTotal(n + m, p)
       /\ OrderCost(n, p) + OrderCost(m, p) <= OrderCost(n + m, p)

\* The tab as a whole: best prices, ladder and depth are the market's, both forms
\* announce what it will do, and the max buttons mean what they say for bonds
\* without decimals.
BookPageIsTrue ==
  /\ QuoteIsBest /\ LadderIsTheBook /\ DepthIsHonest
  /\ FormTellsTruth /\ OrderFormTellsTruth /\ MaxMeansMax
=============================================================================

--------------------------- MODULE BondMarketProofs ---------------------------
(***************************************************************************)
(* Theorems about the order book and the tab that shows it, for any        *)
(* accounts, balances, prices, fees and number of orders, and about the    *)
(* answer the API puts together from reads of the book at many moments.    *)
(* The invariant of the reading says of every piece read so far how it     *)
(* relates to what the book has been meanwhile.                            *)
(*                                                                         *)
(* And theorems about the page's desk that trades on the book, for any     *)
(* number of clicks, openings of the form and toasts on the screen:        *)
(* DeskInv says of every click under way which button is busy for it and   *)
(* what its toast may say.                                                 *)
(***************************************************************************)
EXTENDS BookRead, TxDesk, SumTheorems, SequenceTheorems, TLAPS

\* What is left of an order and what it traded never exceed what was placed, and
\* the history knows its price.
BookInv ==
  \A id \in DOMAIN orders :
    /\ tally[id].filled <= tally[id].placed
    /\ orders[id] # NoOrder =>
         /\ orders[id].amount + tally[id].filled <= tally[id].placed
         /\ orders[id].price = tally[id].price

PriceInv ==
  \A id \in DOMAIN orders : LET t == tally[id] IN
    /\ t.cost * Unit <= t.filled * t.price
    /\ t.filled * t.price <= (t.cost + t.fills) * Unit
    /\ t.fills > 0 => t.filled * t.price < (t.cost + t.fills) * Unit

IInv == TypeOK /\ BookInv /\ PriceInv

-----------------------------------------------------------------------------
(* Arithmetic. *)

\* One fill more: the bounds on the cost add up.
LEMMA OneMore ==
  ASSUME NEW u \in Nat, NEW p \in Nat, NEW n \in Nat, NEW c \in Nat,
         NEW filled \in Nat, NEW cost \in Nat, NEW fills \in Nat,
         c * u <= n * p, n * p < c * u + u,
         cost * u <= filled * p, filled * p <= (cost + fills) * u
  PROVE  /\ (cost + c) * u <= (filled + n) * p
         /\ (filled + n) * p < ((cost + c) + (fills + 1)) * u
<1>1. /\ (cost + c) * u = cost * u + c * u
      /\ (filled + n) * p = filled * p + n * p
      /\ ((cost + c) + (fills + 1)) * u = (cost + fills) * u + c * u + u
  OBVIOUS
<1>2. /\ cost * u \in Nat /\ c * u \in Nat /\ filled * p \in Nat /\ n * p \in Nat
      /\ (cost + fills) * u \in Nat
  OBVIOUS
<1> QED
  BY <1>1, <1>2

-----------------------------------------------------------------------------
(* Money. *)

LEMMA MovedNat ==
  ASSUME NEW acc \in [Accounts -> Nat], NEW from \in Accounts, NEW to \in Accounts,
         NEW n \in Nat, acc[from] >= n
  PROVE  Moved(acc, from, to, n) \in [Accounts -> Nat]
<1> DEFINE mid == [acc EXCEPT ![from] = acc[from] - n]
<1>1. mid \in [Accounts -> Nat]
  OBVIOUS
<1>2. Moved(acc, from, to, n) = [mid EXCEPT ![to] = mid[to] + n]
  BY DEF Moved
<1>3. mid[to] + n \in Nat
  BY <1>1
<1> HIDE DEF mid
<1> QED
  BY <1>1, <1>2, <1>3

LEMMA InitIInv == Init => IInv
BY MarketAssumption DEF Init, IInv, TypeOK, BookInv, PriceInv, Status, FeeAllowed

-----------------------------------------------------------------------------
(* The steps. *)

LEMMA PlaceIInv ==
  ASSUME IInv, NEW a \in Accounts, NEW o \in Offers, Place(a, o)
  PROVE  IInv'
<1> DEFINE t == [placed |-> o.amount, price |-> o.price, filled |-> 0,
                 cost |-> 0, fills |-> 0]
<1>1. /\ orders \in Seq(Order \cup {NoOrder}) /\ tally \in Seq(Tally)
      /\ Len(tally) = Len(orders)
  BY DEF IInv, TypeOK
<1>2. o \in Order /\ t \in Tally /\ o.amount \in Nat /\ o.price \in Nat
  BY MarketAssumption DEF Offers, Order, Tally
<1>3. orders' = Append(orders, o) /\ tally' = Append(tally, t)
  BY DEF Place, Placeable
<1>4. t.filled = 0 /\ t.cost = 0 /\ t.fills = 0 /\ t.placed = o.amount /\ t.price = o.price
  OBVIOUS
<1> HIDE DEF t
<1>5. /\ orders' \in Seq(Order \cup {NoOrder}) /\ tally' \in Seq(Tally)
      /\ Len(tally') = Len(orders')
      /\ DOMAIN orders' = 1 .. Len(orders) + 1
      /\ orders'[Len(orders) + 1] = o /\ tally'[Len(orders) + 1] = t
      /\ \A id \in DOMAIN orders : orders'[id] = orders[id] /\ tally'[id] = tally[id]
  BY <1>1, <1>2, <1>3
<1>6. TypeOK'
  BY <1>5 DEF Place, Placeable, moneyVars, rules, IInv, TypeOK
<1>7. \A id \in DOMAIN orders' : id \in DOMAIN orders \/ id = Len(orders) + 1
  BY <1>1, <1>5
<1>8. BookInv'
  BY <1>2, <1>4, <1>5, <1>7 DEF IInv, BookInv
<1>9. PriceInv'
  <2>1. Unit \in Nat
    BY MarketAssumption
  <2> QED
    BY <1>2, <1>4, <1>5, <1>7, <2>1 DEF IInv, PriceInv
<1> QED
  BY <1>6, <1>8, <1>9 DEF IInv

LEMMA CancelIInv ==
  ASSUME IInv, NEW id \in DOMAIN orders, Cancel(id)
  PROVE  IInv'
<1>1. orders \in Seq(Order \cup {NoOrder})
  BY DEF IInv, TypeOK
<1>2. /\ orders' \in Seq(Order \cup {NoOrder}) /\ Len(orders') = Len(orders)
      /\ DOMAIN orders' = DOMAIN orders /\ tally' = tally
      /\ \A i \in DOMAIN orders : orders'[i] = orders[i] \/ orders'[i] = NoOrder
  BY <1>1 DEF Cancel
<1>3. TypeOK'
  BY <1>2 DEF Cancel, moneyVars, rules, IInv, TypeOK
<1> QED
  BY <1>2, <1>3 DEF IInv, BookInv, PriceInv

\* What a fill computes with.
LEMMA FillOperands ==
  ASSUME IInv, NEW a \in Accounts, NEW id \in DOMAIN orders, NEW n \in Amounts,
         Fill(a, id, n)
  PROVE  LET o == orders[id]
             seller == IF o.isSell THEN o.maker ELSE a
             buyer == IF o.isSell THEN a ELSE o.maker
             c == CostOf(o, n)
         IN  /\ n \in Nat /\ c \in Nat /\ Fee(c) \in Nat
             /\ seller \in Accounts /\ buyer \in Accounts /\ treasury \in Accounts
             /\ Moved(cash, buyer, seller, c) \in [Accounts -> Nat]
             /\ cash \in [Accounts -> Nat] /\ tokens \in [Accounts -> Nat]
<1> DEFINE o == orders[id]
           seller == IF o.isSell THEN o.maker ELSE a
           buyer == IF o.isSell THEN a ELSE o.maker
           c == CostOf(o, n)
           paid == Moved(cash, buyer, seller, c)
<1>1. o \in Order
  BY DEF IInv, TypeOK, Fill, Fillable, Seller, Buyer, Paid, Live
<1>2. seller \in Accounts /\ buyer \in Accounts /\ treasury \in Accounts
  BY <1>1, MarketAssumption DEF Order, IInv, TypeOK
<1>3. n \in Nat /\ o.price \in Nat
  BY <1>1, MarketAssumption DEF Order
<1>4. c \in Nat
  <2>1. n * o.price \in Nat
    BY <1>3
  <2> QED
    BY <2>1, Floors, MarketAssumption DEF CostOf
<1>5. Fee(c) \in Nat
  <2>1. feeBps \in Nat
    BY MarketAssumption DEF IInv, TypeOK
  <2>2. c * feeBps \in Nat
    BY <1>4, <2>1
  <2> QED
    BY <2>2, Floors, MarketAssumption DEF Fee
<1>6. cash[buyer] >= c
  BY DEF Fill, Fillable, Seller, Buyer, Paid
<1>7. cash \in [Accounts -> Nat] /\ tokens \in [Accounts -> Nat]
  BY DEF IInv, TypeOK
<1> HIDE DEF seller, buyer, c, paid
<1>8. paid \in [Accounts -> Nat]
  BY <1>2, <1>4, <1>6, <1>7, MovedNat DEF paid
<1> QED
  BY <1>2, <1>3, <1>4, <1>5, <1>7, <1>8 DEF seller, buyer, c, paid

\* What a fill does to the money: nobody goes below zero, also when buyer, seller
\* and treasury coincide.
LEMMA FillMoney ==
  ASSUME IInv, NEW a \in Accounts, NEW id \in DOMAIN orders, NEW n \in Amounts,
         Fill(a, id, n)
  PROVE  cash' \in [Accounts -> Nat] /\ tokens' \in [Accounts -> Nat]
<1> DEFINE o == orders[id]
           seller == IF o.isSell THEN o.maker ELSE a
           buyer == IF o.isSell THEN a ELSE o.maker
           c == CostOf(o, n)
           paid == Moved(cash, buyer, seller, c)
<1>1. /\ n \in Nat /\ c \in Nat /\ Fee(c) \in Nat
      /\ seller \in Accounts /\ buyer \in Accounts /\ treasury \in Accounts
      /\ paid \in [Accounts -> Nat]
      /\ tokens \in [Accounts -> Nat]
  BY FillOperands
<1>2. /\ tokens[seller] >= n /\ paid[buyer] >= Fee(c)
      /\ cash' = Moved(paid, buyer, treasury, Fee(c))
      /\ tokens' = Moved(tokens, seller, buyer, n)
  BY DEF Fill, Fillable, Seller, Buyer, Paid
<1> HIDE DEF seller, buyer, c, paid
<1> QED
  BY <1>1, <1>2, MovedNat

LEMMA FillIInv ==
  ASSUME IInv, NEW a \in Accounts, NEW id \in DOMAIN orders, NEW n \in Amounts,
         Fill(a, id, n)
  PROVE  IInv'
<1> DEFINE o == orders[id]
           t == tally[id]
           c == CostOf(o, n)
           r == RestOf(o, n)
<1>1. /\ orders \in Seq(Order \cup {NoOrder}) /\ tally \in Seq(Tally)
      /\ Len(tally) = Len(orders) /\ id \in DOMAIN tally
  BY DEF IInv, TypeOK
<1>2. o \in Order /\ o # NoOrder /\ t \in Tally
  BY <1>1 DEF Fill, Fillable, Seller, Buyer, Paid, Live
<1>3. /\ n \in Nat \ {0} /\ n <= o.amount /\ o.amount \in Nat /\ o.price \in Nat
      /\ o.price = t.price
      /\ t.placed \in Nat /\ t.filled \in Nat /\ t.cost \in Nat /\ t.fills \in Nat
  BY <1>2, MarketAssumption DEF Fill, Fillable, Seller, Buyer, Paid, Order, Tally, IInv, BookInv
<1>4. Unit \in Nat \ {0} /\ n * o.price \in Nat
  BY <1>3, MarketAssumption
<1>5. c \in Nat /\ c * Unit <= n * o.price /\ n * o.price < c * Unit + Unit
  BY <1>4, Floors DEF CostOf
<1>6. /\ r \in Order \cup {NoOrder}
      /\ r # NoOrder => r.amount = o.amount - n /\ r.price = o.price
  BY <1>2, <1>3 DEF RestOf, Order
<1>7. tally' = [tally EXCEPT ![id] = [t EXCEPT !.filled = t.filled + n, !.cost = t.cost + c,
                                               !.fills = t.fills + 1]]
  BY DEF Fill, Fillable, Seller, Buyer, Paid
<1> DEFINE u == [t EXCEPT !.filled = t.filled + n, !.cost = t.cost + c,
                          !.fills = t.fills + 1]
<1>8. /\ u \in Tally /\ u.placed = t.placed /\ u.price = t.price
      /\ u.filled = t.filled + n /\ u.cost = t.cost + c /\ u.fills = t.fills + 1
  <2> HIDE DEF c, t
  <2>1. /\ t.filled + n \in Nat /\ t.cost + c \in Nat /\ t.fills + 1 \in Nat
    BY <1>3, <1>5
  <2> QED
    BY <1>2, <2>1 DEF Tally
<1> HIDE DEF u, r, c
<1>9. orders' = [orders EXCEPT ![id] = r] /\ tally' = [tally EXCEPT ![id] = u]
  BY <1>7 DEF Fill, Fillable, Seller, Buyer, Paid, u, r
<1>10. /\ orders' \in Seq(Order \cup {NoOrder}) /\ tally' \in Seq(Tally)
       /\ Len(tally') = Len(orders') /\ DOMAIN orders' = DOMAIN orders
       /\ orders'[id] = r /\ tally'[id] = u
       /\ \A i \in DOMAIN orders : i # id => orders'[i] = orders[i] /\ tally'[i] = tally[i]
  BY <1>1, <1>6, <1>8, <1>9
<1>11. TypeOK'
  BY <1>10, FillMoney DEF Fill, Fillable, Seller, Buyer, Paid, rules, IInv, TypeOK
<1>12. BookInv'
  <2>1. u.filled <= u.placed
        /\ (r # NoOrder => r.amount + u.filled <= u.placed /\ r.price = u.price)
    <3>1. o.amount + t.filled <= t.placed
      BY <1>2 DEF IInv, BookInv
    <3> QED
      BY <1>3, <1>6, <1>8, <3>1
  <2> QED
    BY <1>10, <2>1 DEF IInv, BookInv
<1>13. PriceInv'
  <2>1. t.cost * Unit <= t.filled * t.price /\ t.filled * t.price <= (t.cost + t.fills) * Unit
    BY DEF IInv, PriceInv
  <2>2. /\ u.cost * Unit <= u.filled * u.price
        /\ u.filled * u.price < (u.cost + u.fills) * Unit
    <3>1. c * Unit <= n * t.price /\ n * t.price < c * Unit + Unit
      BY <1>3, <1>5
    <3>2. /\ Unit \in Nat /\ t.price \in Nat /\ n \in Nat /\ c \in Nat
          /\ t.filled \in Nat /\ t.cost \in Nat /\ t.fills \in Nat
      BY <1>3, <1>4, <1>5
    <3> HIDE DEF t, o
    <3>3. /\ (t.cost + c) * Unit <= (t.filled + n) * t.price
          /\ (t.filled + n) * t.price < ((t.cost + c) + (t.fills + 1)) * Unit
      BY <2>1, <3>1, <3>2, OneMore
    <3> QED
      BY <1>8, <3>3
  <2>3. u.filled * u.price \in Nat /\ (u.cost + u.fills) * Unit \in Nat
    BY <1>3, <1>4, <1>5, <1>8
  <2>4. u.filled * u.price <= (u.cost + u.fills) * Unit
    BY <2>2, <2>3
  <2> QED
    BY <1>10, <2>2, <2>4 DEF IInv, PriceInv
<1> QED
  BY <1>11, <1>12, <1>13 DEF IInv

LEMMA RulesIInv ==
  ASSUME IInv, SetBand \/ SetFee \/ WorldMoves \/ Tick \/ UNCHANGED vars
  PROVE  IInv'
<1>1. UNCHANGED <<orders, tally, cash, tokens>>
  BY DEF SetBand, SetFee, WorldMoves, Tick, vars, bookVars, moneyVars
<1>2. /\ status' \in Status /\ eligible' \in Eligibles /\ mark' \in Marks
      /\ bandBps' \in Bands \cup {0} /\ feeBps' \in Fees /\ feeBps' <= MaxFeeBps
      /\ treasury' \in Treasuries /\ now' \in Nat
  BY DEF SetBand, SetFee, WorldMoves, Tick, vars, rules, FeeAllowed, IInv, TypeOK
<1>3. TypeOK'
  BY <1>1, <1>2 DEF IInv, TypeOK
<1> QED
  BY <1>1, <1>3 DEF IInv, BookInv, PriceInv

LEMMA NextIInv ==
  ASSUME IInv, [Next]_vars
  PROVE  IInv'
BY PlaceIInv, CancelIInv, FillIInv, RulesIInv DEF Next

\* The invariant holds in every state of the book.
THEOREM Invariance == Spec => []IInv
BY InitIInv, NextIInv, PTL DEF Spec

\* No account ever goes below zero and no empty order stays on the book, also when
\* maker, taker and treasury coincide.
THEOREM TypeCorrect == Spec => []TypeOK
<1>1. IInv => TypeOK
  BY DEF IInv
<1> QED
  BY <1>1, Invariance, PTL

\* Over any partial fills an order never trades more than was placed.
THEOREM Overfill == Spec => []NeverOverfilled
<1>1. IInv => NeverOverfilled
  <2>1. ASSUME IInv, NEW id \in DOMAIN orders
        PROVE  tally[id].filled + (IF orders[id] = NoOrder THEN 0 ELSE orders[id].amount)
                 <= tally[id].placed
    <3>1. tally[id] \in Tally /\ (orders[id] # NoOrder => orders[id] \in Order)
      BY <2>1 DEF IInv, TypeOK
    <3>2. /\ tally[id].filled \in Nat /\ tally[id].placed \in Nat
          /\ orders[id] # NoOrder => orders[id].amount \in Nat
      BY <3>1 DEF Tally, Order
    <3> QED
      BY <2>1, <3>2 DEF IInv, BookInv
  <2> QED
    BY <2>1 DEF NeverOverfilled
<1> QED
  BY <1>1, Invariance, PTL

\* An order trades at its own price, to less than one settlement unit per fill.
THEOREM FairPrice == Spec => []AtItsPrice
<1>1. IInv => AtItsPrice
  BY DEF IInv, PriceInv, AtItsPrice
<1> QED
  BY <1>1, Invariance, PTL

\* Fills are fair: over any partial fills an order trades no more than was placed,
\* and at its own price.
THEOREM Fair == Spec => []FillsAreFair
BY Overfill, FairPrice, PTL DEF FillsAreFair
-----------------------------------------------------------------------------
(* Trades are legal. *)

\* The band of InBand, without the distance: the price lies between both ends.
LEMMA Band ==
  ASSUME NEW p \in Nat, NEW m \in Nat, NEW w \in Nat, NEW u \in Nat,
         NEW d \in Nat, d = IF p > m THEN p - m ELSE m - p, d * u <= m * w
  PROVE  p * u >= m * (u - w) /\ p * u <= m * (u + w)
<1>1. /\ m * (u - w) = m * u - m * w /\ m * (u + w) = m * u + m * w
      /\ (p - m) * u = p * u - m * u /\ (m - p) * u = m * u - p * u
      /\ m * u \in Nat /\ m * w \in Nat /\ p * u \in Nat
  OBVIOUS
<1>2. CASE p > m
  <2>1. d * u = p * u - m * u /\ d * u >= 0
    BY <1>1, <1>2
  <2> QED
    BY <1>1, <2>1
<1>3. CASE ~(p > m)
  <2>1. d * u = m * u - p * u /\ d * u >= 0
    BY <1>1, <1>3
  <2> QED
    BY <1>1, <2>1
<1> QED
  BY <1>2, <1>3

LEMMA MovedElsewhere ==
  ASSUME NEW acc \in [Accounts -> Nat], NEW from, NEW to, NEW n,
         NEW a \in Accounts, a # from, a # to
  PROVE  Moved(acc, from, to, n)[a] = acc[a]
BY DEF Moved

\* What one step adds to the fills of an order, it adds legally.
LegalNow(id) ==
  /\ status = "Active" /\ orders[id].maker \in eligible
  /\ {a \in Accounts : tokens'[a] # tokens[a]} \subseteq eligible
  /\ bandBps = 0 \/
       (orders[id].price * Bps >= mark * (Bps - bandBps) /\
        orders[id].price * Bps <= mark * (Bps + bandBps))
  /\ orders[id].expiry = 0 \/ now < orders[id].expiry

LEMMA FillLegal ==
  ASSUME TypeOK, NEW a \in Accounts, NEW id \in DOMAIN orders, NEW n \in Amounts,
         Fill(a, id, n)
  PROVE  LegalNow(id)
<1> DEFINE o == orders[id]
           seller == IF o.isSell THEN o.maker ELSE a
           buyer == IF o.isSell THEN a ELSE o.maker
<1>1. /\ Live(o) /\ status = "Active" /\ {seller, buyer} \subseteq eligible
      /\ InBand(o.price) /\ tokens' = Moved(tokens, seller, buyer, n)
  BY DEF Fill, Fillable, Seller, Buyer, Paid
<1>2. o \in Order
  BY <1>1 DEF TypeOK, Live
<1>3. o.maker \in {seller, buyer}
  OBVIOUS
<1>4. /\ o.price \in Nat /\ o.expiry \in Nat
      /\ mark \in Nat /\ bandBps \in Nat /\ Bps \in Nat /\ now \in Nat
  <2> HIDE DEF o
  <2>1. o.price \in Nat /\ o.expiry \in Nat
    BY <1>2, MarketAssumption DEF Order
  <2>2. /\ mark \in Marks /\ bandBps \in Bands \cup {0} /\ now \in Nat
    BY DEF TypeOK
  <2> QED
    BY <2>1, <2>2, MarketAssumption
<1>5. {b \in Accounts : tokens'[b] # tokens[b]} \subseteq eligible
  <2>1. tokens \in [Accounts -> Nat]
    BY DEF TypeOK
  <2>2. ASSUME NEW b \in Accounts, tokens'[b] # tokens[b]
        PROVE  b \in {seller, buyer}
    <3> HIDE DEF seller, buyer
    <3> QED
      BY <1>1, <2>1, <2>2, MovedElsewhere
  <2> QED
    BY <1>1, <2>2
<1>6. bandBps = 0 \/ (o.price * Bps >= mark * (Bps - bandBps)
                       /\ o.price * Bps <= mark * (Bps + bandBps))
  <2> DEFINE diff == IF o.price > mark THEN o.price - mark ELSE mark - o.price
  <2>1. diff \in Nat
    BY <1>4
  <2>2. bandBps = 0 \/ diff * Bps <= mark * bandBps
    BY <1>1 DEF InBand
  <2> HIDE DEF o
  <2>3. ASSUME diff * Bps <= mark * bandBps
        PROVE  o.price * Bps >= mark * (Bps - bandBps)
               /\ o.price * Bps <= mark * (Bps + bandBps)
    BY <1>4, <2>1, <2>3, Band
  <2> QED
    BY <2>2, <2>3
<1>7. o.expiry = 0 \/ now < o.expiry
  BY <1>1, <1>4 DEF Live
<1> QED
  BY <1>1, <1>3, <1>5, <1>6, <1>7 DEF LegalNow

LEMMA NextLegal ==
  ASSUME TypeOK, [Next]_vars, NEW id \in DOMAIN orders,
         tally'[id].fills > tally[id].fills
  PROVE  LegalNow(id)
<1>1. /\ tally \in Seq(Tally) /\ DOMAIN tally = DOMAIN orders /\ tally[id].fills \in Nat
  <2>1. tally \in Seq(Tally) /\ Len(tally) = Len(orders)
        /\ orders \in Seq(Order \cup {NoOrder})
    BY DEF TypeOK
  <2>2. DOMAIN tally = DOMAIN orders
    BY <2>1
  <2>3. tally[id] \in Tally
    BY <2>1, <2>2
  <2> QED
    BY <2>1, <2>2, <2>3 DEF Tally
<1>2. tally'[id] # tally[id]
  BY <1>1
<1>3. CASE \E a \in Accounts, p \in Offers : Place(a, p)
  <2>1. PICK t : tally' = Append(tally, t)
    BY <1>3 DEF Place, Placeable
  <2> QED
    BY <1>1, <1>2, <2>1
<1>4. CASE \E i \in DOMAIN orders : Cancel(i)
  BY <1>2, <1>4 DEF Cancel
<1>5. CASE \E a \in Accounts, i \in DOMAIN orders, n \in Amounts : Fill(a, i, n)
  <2>1. PICK a \in Accounts, i \in DOMAIN orders, n \in Amounts : Fill(a, i, n)
    BY <1>5
  <2>2. PICK f, c, k : tally' = [tally EXCEPT ![i] = [[[tally[i] EXCEPT !.filled = f]
                                    EXCEPT !.cost = c] EXCEPT !.fills = k]]
    BY <1>1, <2>1 DEF Fill, Fillable, Seller, Buyer, Paid
  <2>3. i = id
    BY <1>1, <1>2, <2>2
  <2> QED
    BY <2>1, <2>3, FillLegal
<1>6. CASE SetBand \/ SetFee \/ WorldMoves \/ Tick \/ UNCHANGED vars
  BY <1>2, <1>6 DEF SetBand, SetFee, WorldMoves, Tick, vars, bookVars
<1> QED
  BY <1>3, <1>4, <1>5, <1>6 DEF Next

\* Whatever was true when the order was placed, bonds change hands only while the
\* bond is Active, between accounts that may hold it, in the band around the mark
\* of that moment, and before the order expires.
THEOREM Legal == Spec => TradesAreLegal
<1> DEFINE Step == \A id \in DOMAIN orders :
                     tally'[id].fills > tally[id].fills => LegalNow(id)
<1>1. TypeOK /\ [Next]_vars => [Step]_vars
  BY NextLegal
<1>2. [][Step]_vars => TradesAreLegal
  BY PTL DEF TradesAreLegal, LegalNow
<1> QED
  BY <1>1, <1>2, TypeCorrect, PTL DEF Spec

-----------------------------------------------------------------------------
(* Nothing is made or lost. *)

LEMMA MovedConserves ==
  ASSUME NEW acc \in [Accounts -> Nat], NEW from \in Accounts, NEW to \in Accounts,
         NEW n \in Nat
  PROVE  Total(Moved(acc, from, to, n)) = Total(acc)
<1> DEFINE mid == [acc EXCEPT ![from] = acc[from] - n]
           new == [mid EXCEPT ![to] = mid[to] + n]
<1>1. Moved(acc, from, to, n) = new
  BY DEF Moved
<1>2. mid \in [Accounts -> Int] /\ mid[from] = acc[from] - n
      /\ \A a \in Accounts \ {from} : mid[a] = acc[a]
  OBVIOUS
<1> HIDE DEF mid
<1>3. new \in [Accounts -> Int] /\ new[to] = mid[to] + n
      /\ \A a \in Accounts \ {to} : new[a] = mid[a]
  BY <1>2
<1> HIDE DEF new
<1>4. IsFiniteSet(Accounts) /\ \A a \in Accounts : acc[a] \in Int /\ mid[a] \in Int /\ new[a] \in Int
  BY <1>2, <1>3, MarketAssumption
<1>5. SumOver(mid, Accounts) = SumOver(acc, Accounts) - acc[from] + mid[from]
  BY <1>2, <1>4, SumChange
<1>6. SumOver(new, Accounts) = SumOver(mid, Accounts) - mid[to] + new[to]
  BY <1>3, <1>4, SumChange
<1>7. SumOver(acc, Accounts) \in Int /\ SumOver(mid, Accounts) \in Int
  BY <1>4, SumInt
<1> QED
  BY <1>1, <1>2, <1>3, <1>4, <1>5, <1>6, <1>7 DEF Total

LEMMA FillConserves ==
  ASSUME IInv, NEW a \in Accounts, NEW id \in DOMAIN orders, NEW n \in Amounts,
         Fill(a, id, n)
  PROVE  Total(cash') = Total(cash) /\ Total(tokens') = Total(tokens)
<1> DEFINE o == orders[id]
           seller == IF o.isSell THEN o.maker ELSE a
           buyer == IF o.isSell THEN a ELSE o.maker
           c == CostOf(o, n)
           paid == Moved(cash, buyer, seller, c)
<1>1. /\ n \in Nat /\ c \in Nat /\ Fee(c) \in Nat
      /\ seller \in Accounts /\ buyer \in Accounts /\ treasury \in Accounts
      /\ paid \in [Accounts -> Nat]
      /\ cash \in [Accounts -> Nat] /\ tokens \in [Accounts -> Nat]
  BY FillOperands
<1>2. cash' = Moved(paid, buyer, treasury, Fee(c)) /\ tokens' = Moved(tokens, seller, buyer, n)
  BY DEF Fill, Fillable, Seller, Buyer, Paid
<1> HIDE DEF seller, buyer, c
<1>3. Total(paid) = Total(cash)
  BY <1>1, MovedConserves
<1> HIDE DEF paid
<1> QED
  BY <1>1, <1>2, <1>3, MovedConserves

\* Settlement and bonds only change hands, whoever is maker, taker and treasury.
THEOREM NothingLost == Spec => []Conserved
<1>1. Init => Conserved
  BY DEF Init, Conserved
<1>2. ASSUME IInv, Conserved, [Next]_vars
      PROVE  Conserved'
  <2>1. ASSUME NEW a \in Accounts, NEW id \in DOMAIN orders, NEW n \in Amounts, Fill(a, id, n)
        PROVE  Conserved'
    <3>1. Total(cash)' = Total(cash) /\ Total(tokens)' = Total(tokens)
      BY <1>2, <2>1, FillConserves DEF Total
    <3> QED
      BY <1>2, <3>1 DEF Conserved, Total
  <2>2. CASE UNCHANGED moneyVars
    BY <1>2, <2>2 DEF Conserved, Total, moneyVars
  <2>3. \/ \E a \in Accounts, id \in DOMAIN orders, n \in Amounts : Fill(a, id, n)
        \/ UNCHANGED moneyVars
    BY <1>2 DEF Next, Place, Placeable, Cancel, SetBand, SetFee, WorldMoves, Tick, vars
  <2> QED
    BY <2>1, <2>2, <2>3
<1> QED
  BY <1>1, <1>2, Invariance, PTL DEF Spec

-----------------------------------------------------------------------------
(* The quote. *)

\* q names the best prices of the first i orders of s that a fill would find.
BestOf(q, s, i) ==
  /\ q \in [bid : Nat, ask : Nat]
  /\ \A n \in 1 .. i : Live(s[n]) =>
       IF s[n].isSell THEN q.ask # 0 /\ q.ask <= s[n].price
                      ELSE q.bid # 0 /\ s[n].price <= q.bid
  /\ q.bid # 0 => \E n \in 1 .. i : Live(s[n]) /\ ~s[n].isSell /\ s[n].price = q.bid
  /\ q.ask # 0 => \E n \in 1 .. i : Live(s[n]) /\ s[n].isSell /\ s[n].price = q.ask

NoQuote == [bid |-> 0, ask |-> 0]

\* The scan of quote, for every part of the orders.
IsScan(g, s) ==
  g = [u \in SUBSET DOMAIN s |->
         IF u = {} THEN NoQuote ELSE Better(g[u \ {Max(u)}], s[Max(u)])]
Scan(s) == CHOOSE g : IsScan(g, s)

LEMMA QuoteIsScan == Quote = Scan(orders)[DOMAIN orders]
BY DEF Quote, FoldLeft, MapThenFoldSet, Scan, IsScan, NoQuote

LEMMA BetterQuote ==
  ASSUME NEW q \in [bid : Nat, ask : Nat], NEW o \in Order \cup {NoOrder}
  PROVE  Better(q, o) \in [bid : Nat, ask : Nat]
<1>1. Quoted(o) => o \in Order
  BY DEF Quoted, Live
<1>2. o \in Order => o.price \in Nat
  BY MarketAssumption DEF Order
<1>3. CASE ~Quoted(o)
  BY <1>3 DEF Better
<1>4. CASE Quoted(o)
  <2>1. PICK p \in Nat : p = o.price
    BY <1>1, <1>2, <1>4
  <2>2. q.bid \in Nat /\ q.ask \in Nat
    OBVIOUS
  <2>3. Better(q, o) = IF o.isSell
                       THEN [q EXCEPT !.ask = IF q.ask = 0 \/ p < q.ask THEN p ELSE q.ask]
                       ELSE [q EXCEPT !.bid = IF p > q.bid THEN p ELSE q.bid]
    BY <1>4, <2>1 DEF Better
  <2> QED
    BY <2>1, <2>2, <2>3
<1> QED
  BY <1>3, <1>4

LEMMA ScanExists ==
  ASSUME NEW s \in Seq(Order \cup {NoOrder})
  PROVE  \E g : IsScan(g, s)
<1> DEFINE N == Len(s)
           V == [bid : Nat, ask : Nat]
           F == [p \in V \X (1 .. N) |-> Better(p[1], s[p[2]])]
<1>1. N \in Nat /\ DOMAIN s = 1 .. N /\ \A i \in 1 .. N : s[i] \in Order \cup {NoOrder}
  OBVIOUS
<1>2. \A q \in V, i \in 1 .. N : Better(q, s[i]) \in V
  BY <1>1, BetterQuote
<1>3. F \in [V \X (1 .. N) -> V]
  BY <1>2
<1>4. \A q \in V, i \in 1 .. N : F[<<q, i>>] = Better(q, s[i])
  OBVIOUS
<1>5. NoQuote \in V
  BY DEF NoQuote
<1> HIDE DEF F, N, V
<1>6. PICK g \in [SUBSET (1 .. N) -> V] :
        \A u \in SUBSET (1 .. N) : FoldsAt(g, NoQuote, F, u)
  BY <1>1, <1>3, <1>5, FoldExists, Zenon
<1>7. ASSUME NEW u \in SUBSET (1 .. N)
      PROVE  g[u] = IF u = {} THEN NoQuote ELSE Better(g[u \ {Max(u)}], s[Max(u)])
  <2>1. u # {} => Max(u) \in 1 .. N /\ u \ {Max(u)} \in SUBSET (1 .. N)
    BY <1>1, MaxRest
  <2>2. u # {} => F[<<g[u \ {Max(u)}], Max(u)>>] = Better(g[u \ {Max(u)}], s[Max(u)])
    BY <1>4, <1>6, <2>1
  <2>3. g[u] = IF u = {} THEN NoQuote ELSE F[<<g[u \ {Max(u)}], Max(u)>>]
    BY <1>6 DEF FoldsAt
  <2> QED
    BY <2>2, <2>3
<1>8. IsScan(g, s)
  BY <1>1, <1>6, <1>7 DEF IsScan
<1> QED
  BY <1>8

\* One order more: the scan keeps the best.
LEMMA BetterKeeps ==
  ASSUME NEW s \in Seq(Order \cup {NoOrder}), NEW i \in 1 .. Len(s), NEW q,
         BestOf(q, s, i - 1)
  PROVE  BestOf(Better(q, s[i]), s, i)
<1> DEFINE o == s[i]
           b == Better(q, o)
<1>1. PICK j \in Nat : j = i - 1 /\ i = j + 1
  OBVIOUS
<1>2. /\ \A n \in 1 .. j : n \in 1 .. i
      /\ \A n \in 1 .. i : n \in 1 .. j \/ n = i
      /\ i \in 1 .. i
  BY <1>1
<1>3. /\ q \in [bid : Nat, ask : Nat] /\ q.bid \in Nat /\ q.ask \in Nat
      /\ \A n \in 1 .. j : Live(s[n]) =>
           IF s[n].isSell THEN q.ask # 0 /\ q.ask <= s[n].price
                          ELSE q.bid # 0 /\ s[n].price <= q.bid
      /\ q.bid # 0 => \E n \in 1 .. j : Live(s[n]) /\ ~s[n].isSell /\ s[n].price = q.bid
      /\ q.ask # 0 => \E n \in 1 .. j : Live(s[n]) /\ s[n].isSell /\ s[n].price = q.ask
  BY <1>1 DEF BestOf
<1>4. b \in [bid : Nat, ask : Nat]
  BY <1>3, BetterQuote
<1>7. \A n \in 1 .. j : Live(s[n]) => s[n].price \in Nat
  <2>1. ASSUME NEW n \in 1 .. j, Live(s[n])
        PROVE  s[n] \in Order
    BY <1>1, <2>1 DEF Live
  <2> QED
    BY <2>1, MarketAssumption DEF Order
<1>5. CASE ~Live(o)
  <2>1. b = q
    BY <1>5 DEF Better, Quoted
  <2> HIDE DEF b, o
  <2> QED
    BY <1>2, <1>3, <1>5, <2>1 DEF BestOf, o, b
<1>6. CASE Live(o)
  <2>1. o \in Order
    BY <1>6 DEF Live
  <2>2. PICK p \in Nat \ {0} : p = o.price
    BY <2>1, MarketAssumption DEF Order
  <2>3. CASE o.isSell
    <3>1. b = [q EXCEPT !.ask = IF q.ask = 0 \/ p < q.ask THEN p ELSE q.ask]
      BY <1>6, <2>2, <2>3 DEF Better, Quoted
    <3>2. b.bid = q.bid /\ b.ask = IF q.ask = 0 \/ p < q.ask THEN p ELSE q.ask
      BY <1>3, <3>1
    <3> HIDE DEF b
    <3>3. \A n \in 1 .. j : Live(s[n]) =>
            IF s[n].isSell THEN b.ask # 0 /\ b.ask <= s[n].price
                           ELSE b.bid # 0 /\ s[n].price <= b.bid
      <4> SUFFICES ASSUME NEW n \in 1 .. j, Live(s[n])
                   PROVE  IF s[n].isSell THEN b.ask # 0 /\ b.ask <= s[n].price
                                         ELSE b.bid # 0 /\ s[n].price <= b.bid
        OBVIOUS
      <4>1. PICK x \in Nat : x = s[n].price
        BY <1>7
      <4>2. IF s[n].isSell THEN q.ask # 0 /\ q.ask <= x ELSE q.bid # 0 /\ x <= q.bid
        BY <1>3, <4>1
      <4> QED
        BY <1>3, <2>2, <3>2, <4>1, <4>2
    <3>4. b.ask # 0 /\ b.ask <= p
      BY <1>3, <2>2, <3>2
    <3>5. b.ask = p \/ b.ask = q.ask
      BY <3>2
    <3>6. \A n \in 1 .. i : Live(s[n]) =>
            IF s[n].isSell THEN b.ask # 0 /\ b.ask <= s[n].price
                           ELSE b.bid # 0 /\ s[n].price <= b.bid
      BY <1>2, <2>2, <2>3, <3>3, <3>4
    <3>7. \E n \in 1 .. i : Live(s[n]) /\ s[n].isSell /\ s[n].price = b.ask
      <4>1. CASE b.ask = p
        <5>1. Live(s[i]) /\ s[i].isSell /\ s[i].price = b.ask
          BY <1>6, <2>2, <2>3, <4>1
        <5> QED
          BY <1>2, <5>1
      <4>2. CASE b.ask = q.ask
        <5>1. PICK n \in 1 .. j : Live(s[n]) /\ s[n].isSell /\ s[n].price = q.ask
          BY <1>3, <3>4, <4>2
        <5> QED
          BY <1>2, <4>2, <5>1
      <4> QED
        BY <3>5, <4>1, <4>2
    <3>8. ASSUME b.bid # 0
          PROVE  \E n \in 1 .. i : Live(s[n]) /\ ~s[n].isSell /\ s[n].price = b.bid
      <4>1. PICK n \in 1 .. j : Live(s[n]) /\ ~s[n].isSell /\ s[n].price = q.bid
        BY <1>3, <3>2, <3>8
      <4> QED
        BY <1>2, <3>2, <4>1
    <3>9. BestOf(b, s, i)
      BY <1>4, <3>6, <3>7, <3>8 DEF BestOf
    <3> QED
      BY <3>9 DEF b
  <2>4. CASE ~o.isSell
    <3>1. b = [q EXCEPT !.bid = IF p > q.bid THEN p ELSE q.bid]
      BY <1>6, <2>2, <2>4 DEF Better, Quoted
    <3>2. b.ask = q.ask /\ b.bid = IF p > q.bid THEN p ELSE q.bid
      BY <1>3, <3>1
    <3> HIDE DEF b
    <3>3. \A n \in 1 .. j : Live(s[n]) =>
            IF s[n].isSell THEN b.ask # 0 /\ b.ask <= s[n].price
                           ELSE b.bid # 0 /\ s[n].price <= b.bid
      <4> SUFFICES ASSUME NEW n \in 1 .. j, Live(s[n])
                   PROVE  IF s[n].isSell THEN b.ask # 0 /\ b.ask <= s[n].price
                                         ELSE b.bid # 0 /\ s[n].price <= b.bid
        OBVIOUS
      <4>1. PICK x \in Nat : x = s[n].price
        BY <1>7
      <4>2. IF s[n].isSell THEN q.ask # 0 /\ q.ask <= x ELSE q.bid # 0 /\ x <= q.bid
        BY <1>3, <4>1
      <4> QED
        BY <1>3, <2>2, <3>2, <4>1, <4>2
    <3>4. b.bid # 0 /\ p <= b.bid
      BY <1>3, <2>2, <3>2
    <3>5. b.bid = p \/ b.bid = q.bid
      BY <3>2
    <3>6. \A n \in 1 .. i : Live(s[n]) =>
            IF s[n].isSell THEN b.ask # 0 /\ b.ask <= s[n].price
                           ELSE b.bid # 0 /\ s[n].price <= b.bid
      BY <1>2, <2>2, <2>4, <3>3, <3>4
    <3>7. \E n \in 1 .. i : Live(s[n]) /\ ~s[n].isSell /\ s[n].price = b.bid
      <4>1. CASE b.bid = p
        <5>1. Live(s[i]) /\ ~s[i].isSell /\ s[i].price = b.bid
          BY <1>6, <2>2, <2>4, <4>1
        <5> QED
          BY <1>2, <5>1
      <4>2. CASE b.bid = q.bid
        <5>1. PICK n \in 1 .. j : Live(s[n]) /\ ~s[n].isSell /\ s[n].price = q.bid
          BY <1>3, <3>4, <4>2
        <5> QED
          BY <1>2, <4>2, <5>1
      <4> QED
        BY <3>5, <4>1, <4>2
    <3>8. ASSUME b.ask # 0
          PROVE  \E n \in 1 .. i : Live(s[n]) /\ s[n].isSell /\ s[n].price = b.ask
      <4>1. PICK n \in 1 .. j : Live(s[n]) /\ s[n].isSell /\ s[n].price = q.ask
        BY <1>3, <3>2, <3>8
      <4> QED
        BY <1>2, <3>2, <4>1
    <3>9. BestOf(b, s, i)
      BY <1>4, <3>6, <3>7, <3>8 DEF BestOf
    <3> QED
      BY <3>9 DEF b
  <2> QED
    BY <2>3, <2>4
<1> QED
  BY <1>5, <1>6

LEMMA QuoteBest ==
  ASSUME NEW s \in Seq(Order \cup {NoOrder}), orders = s
  PROVE  BestOf(Quote, s, Len(s))
<1> DEFINE g == Scan(s)
           G == {i \in 0 .. Len(s) : BestOf(g[1 .. i], s, i)}
<1>1. PICK N \in Nat : N = Len(s) /\ DOMAIN s = 1 .. N
  OBVIOUS
<1>2. IsScan(g, s)
  BY ScanExists DEF Scan
<1> HIDE DEF g
<1>3. 0 \in G
  <2>1. 1 .. 0 = {} /\ {} \in SUBSET DOMAIN s
    OBVIOUS
  <2>2. g[1 .. 0] = NoQuote
    BY <1>2, <2>1 DEF IsScan
  <2>3. BestOf(NoQuote, s, 0)
    BY DEF BestOf, NoQuote
  <2> QED
    BY <1>1, <2>2, <2>3
<1>4. ASSUME NEW i \in 1 .. N, i - 1 \in G
      PROVE  i \in G
  <2>1. PICK q : q = g[1 .. (i - 1)]
    OBVIOUS
  <2>2. i \in Nat \ {0} /\ i \in 0 .. N /\ s[i] \in Order \cup {NoOrder} /\ BestOf(q, s, i - 1)
    BY <1>1, <1>4, <2>1
  <2>3. g[1 .. i] = Better(q, s[i])
    <3>1. 1 .. i \in SUBSET DOMAIN s
      BY <1>1
    <3>2. 1 .. i # {} /\ Max(1 .. i) = i /\ (1 .. i) \ {i} = 1 .. (i - 1)
      BY <2>2, MaxOfRange
    <3> QED
      BY <1>2, <2>1, <3>1, <3>2 DEF IsScan
  <2>4. BestOf(Better(q, s[i]), s, i)
    BY <1>1, <2>2, BetterKeeps
  <2> QED
    BY <1>1, <2>2, <2>3, <2>4
<1>5. N \in G
  <2>1. \A i \in 1 .. N : i - 1 \in G => i \in G
    BY <1>4
  <2> HIDE DEF G
  <2> QED
    BY <1>3, <2>1, RangeInduction
<1>6. Quote = g[1 .. N]
  BY <1>1, QuoteIsScan DEF g
<1> QED
  BY <1>1, <1>5, <1>6

LEMMA MaxIs ==
  ASSUME NEW S \in SUBSET Nat, NEW m \in S, \A y \in S : y <= m
  PROVE  Max(S) = m
<1>1. PICK k : k = Max(S)
  OBVIOUS
<1>2. \A y \in S : m >= y
  OBVIOUS
<1>3. k \in S /\ \A y \in S : k >= y
  BY <1>1, <1>2 DEF Max
<1>4. k >= m /\ m >= k /\ k \in Nat /\ m \in Nat
  BY <1>2, <1>3
<1> QED
  BY <1>1, <1>4

LEMMA MinIs ==
  ASSUME NEW S \in SUBSET Nat, NEW m \in S, \A y \in S : m <= y
  PROVE  Min(S) = m
<1>1. PICK k : k = Min(S)
  OBVIOUS
<1>2. \A y \in S : m <= y
  OBVIOUS
<1>3. k \in S /\ \A y \in S : k <= y
  BY <1>1, <1>2 DEF Min
<1>4. k <= m /\ m <= k /\ k \in Nat /\ m \in Nat
  BY <1>2, <1>3
<1> QED
  BY <1>1, <1>4

\* The same of a set of rows of the page.
BestRows(q, L) ==
  /\ q \in [bid : Nat, ask : Nat]
  /\ \A r \in L : IF r.order.isSell THEN q.ask # 0 /\ q.ask <= r.order.price
                                    ELSE q.bid # 0 /\ r.order.price <= q.bid
  /\ q.bid # 0 => \E r \in L : ~r.order.isSell /\ r.order.price = q.bid
  /\ q.ask # 0 => \E r \in L : r.order.isSell /\ r.order.price = q.ask

PricesOf(L, sell) == {r.order.price : r \in {x \in L : x.order.isSell = sell}}

LEMMA BestNamed ==
  ASSUME NEW q, NEW L, BestRows(q, L), \A r \in L : r.order \in Order
  PROVE  /\ q.bid = IF PricesOf(L, FALSE) = {} THEN 0 ELSE Max(PricesOf(L, FALSE))
         /\ q.ask = IF PricesOf(L, TRUE) = {} THEN 0 ELSE Min(PricesOf(L, TRUE))
<1>1. \A r \in L : r.order.isSell \in BOOLEAN /\ r.order.price \in Nat
  BY MarketAssumption DEF Order
<1>2. PICK B \in SUBSET Nat, A \in SUBSET Nat : B = PricesOf(L, FALSE) /\ A = PricesOf(L, TRUE)
  BY <1>1 DEF PricesOf
<1>3. PICK bid \in Nat, ask \in Nat : bid = q.bid /\ ask = q.ask
  BY DEF BestRows
<1>4. /\ \A y \in B : bid # 0 /\ y <= bid
      /\ \A y \in A : ask # 0 /\ ask <= y
  BY <1>1, <1>2, <1>3 DEF BestRows, PricesOf
<1>5. (bid # 0 => bid \in B) /\ (ask # 0 => ask \in A)
  BY <1>1, <1>2, <1>3 DEF BestRows, PricesOf
<1>6. bid = IF B = {} THEN 0 ELSE Max(B)
  <2>1. CASE bid = 0
    BY <1>4, <2>1
  <2>2. CASE bid # 0
    BY <1>4, <1>5, <2>2, MaxIs
  <2> QED
    BY <2>1, <2>2
<1>7. ask = IF A = {} THEN 0 ELSE Min(A)
  <2>1. CASE ask = 0
    BY <1>4, <2>1
  <2>2. CASE ask # 0
    BY <1>4, <1>5, <2>2, MinIs
  <2> QED
    BY <2>1, <2>2
<1> QED
  BY <1>2, <1>3, <1>6, <1>7

\* The rows of a book at a moment.
LiveAt(o, t) == o # NoOrder /\ (o.expiry = 0 \/ o.expiry > t)
RowsAt(book, t) == {r \in RowsOf(book) : LiveAt(r.order, t)}
Row(id, o) == [id |-> id, order |-> o]

LEMMA RowsAtFacts ==
  ASSUME NEW book \in Seq(Order \cup {NoOrder}), NEW t
  PROVE  /\ \A r \in RowsAt(book, t) :
              /\ r.id \in DOMAIN book /\ book[r.id] = r.order
              /\ r.order \in Order /\ LiveAt(r.order, t)
              /\ r = Row(r.id, r.order)
         /\ \A id \in DOMAIN book : LiveAt(book[id], t) => Row(id, book[id]) \in RowsAt(book, t)
<1>1. \A id \in DOMAIN book : book[id] \in Order \cup {NoOrder}
  OBVIOUS
<1> QED
  BY <1>1 DEF RowsAt, RowsOf, LiveAt, Row

LEMMA RowFacts ==
  ASSUME IInv
  PROVE  /\ \A r \in LiveRows : /\ r.id \in DOMAIN orders /\ orders[r.id] = r.order
                                /\ r.order \in Order /\ Live(r.order)
                                /\ r = Row(r.id, r.order)
         /\ \A id \in DOMAIN orders : Live(orders[id]) => Row(id, orders[id]) \in LiveRows
<1>1. PICK book \in Seq(Order \cup {NoOrder}), t \in Nat : book = orders /\ t = now
  BY DEF IInv, TypeOK
<1>2. LiveRows = RowsAt(book, t) /\ \A o : Live(o) <=> LiveAt(o, t)
  BY <1>1 DEF LiveRows, RowsAt, Live, LiveAt
<1> QED
  BY <1>1, <1>2, RowsAtFacts

LEMMA QuoteOfRows ==
  ASSUME IInv
  PROVE  BestRows(Quote, LiveRows)
<1>1. PICK s \in Seq(Order \cup {NoOrder}) : s = orders
  BY DEF IInv, TypeOK
<1>2. BestOf(Quote, s, Len(s)) /\ DOMAIN s = 1 .. Len(s)
  BY <1>1, QuoteBest
<1>3. PICK q : q = Quote
  OBVIOUS
<1>4. \A r \in LiveRows : r.id \in 1 .. Len(s) /\ s[r.id] = r.order /\ Live(s[r.id])
  BY <1>1, <1>2, RowFacts
<1>5. ASSUME NEW n \in 1 .. Len(s), Live(s[n])
      PROVE  \E r \in LiveRows : r.order = s[n]
  <2>1. Row(n, s[n]) \in LiveRows
    BY <1>1, <1>2, <1>5, RowFacts
  <2> QED
    BY <2>1 DEF Row
<1>6. BestRows(q, LiveRows)
  <2>1. q \in [bid : Nat, ask : Nat]
    BY <1>2, <1>3 DEF BestOf
  <2>2. \A r \in LiveRows : IF r.order.isSell THEN q.ask # 0 /\ q.ask <= r.order.price
                                              ELSE q.bid # 0 /\ r.order.price <= q.bid
    BY <1>2, <1>3, <1>4 DEF BestOf
  <2>3. ASSUME q.bid # 0
        PROVE  \E r \in LiveRows : ~r.order.isSell /\ r.order.price = q.bid
    <3>1. PICK n \in 1 .. Len(s) : Live(s[n]) /\ ~s[n].isSell /\ s[n].price = q.bid
      BY <1>2, <1>3, <2>3 DEF BestOf
    <3> QED
      BY <1>5, <3>1
  <2>4. ASSUME q.ask # 0
        PROVE  \E r \in LiveRows : r.order.isSell /\ r.order.price = q.ask
    <3>1. PICK n \in 1 .. Len(s) : Live(s[n]) /\ s[n].isSell /\ s[n].price = q.ask
      BY <1>2, <1>3, <2>4 DEF BestOf
    <3> QED
      BY <1>5, <3>1
  <2> QED
    BY <2>1, <2>2, <2>3, <2>4 DEF BestRows
<1> QED
  BY <1>3, <1>6

\* The scan of quote finds the best of what a fill would find, for any number of
\* orders, deleted and expired ones among them.
THEOREM QuotesBest == Spec => []QuoteIsBest
<1>1. IInv => QuoteIsBest
  <2> SUFFICES ASSUME IInv PROVE QuoteIsBest
    OBVIOUS
  <2>1. \A sell \in BOOLEAN :
          PricesOf(LiveRows, sell) =
            {orders[id].price : id \in {i \in DOMAIN orders :
               /\ orders[i] # NoOrder /\ orders[i].isSell = sell
               /\ orders[i].expiry = 0 \/ orders[i].expiry > now}}
    <3> SUFFICES ASSUME NEW sell \in BOOLEAN, NEW p
                 PROVE  p \in PricesOf(LiveRows, sell) <=>
                          \E i \in DOMAIN orders :
                            /\ Live(orders[i]) /\ orders[i].isSell = sell
                            /\ orders[i].price = p
      BY DEF Live
    <3>1. ASSUME p \in PricesOf(LiveRows, sell)
          PROVE  \E i \in DOMAIN orders : Live(orders[i]) /\ orders[i].isSell = sell /\ orders[i].price = p
      <4>1. PICK r \in LiveRows : r.order.isSell = sell /\ r.order.price = p
        BY <3>1 DEF PricesOf
      <4> QED
        BY <4>1, RowFacts
    <3>2. ASSUME NEW i \in DOMAIN orders, Live(orders[i]), orders[i].isSell = sell,
                 orders[i].price = p
          PROVE  p \in PricesOf(LiveRows, sell)
      <4>1. PICK r : r = Row(i, orders[i])
        OBVIOUS
      <4>2. r \in LiveRows /\ r.order = orders[i]
        BY <3>2, <4>1, RowFacts DEF Row
      <4> QED
        BY <3>2, <4>2 DEF PricesOf
    <3> QED
      BY <3>1, <3>2
  <2>2. \A r \in LiveRows : r.order \in Order
    BY RowFacts
  <2>3. PICK q, L : q = Quote /\ L = LiveRows
    OBVIOUS
  <2>4. /\ q.bid = IF PricesOf(L, FALSE) = {} THEN 0 ELSE Max(PricesOf(L, FALSE))
        /\ q.ask = IF PricesOf(L, TRUE) = {} THEN 0 ELSE Min(PricesOf(L, TRUE))
    BY <2>2, <2>3, BestNamed, QuoteOfRows
  <2> QED
    BY <2>1, <2>3, <2>4 DEF QuoteIsBest
<1> QED
  BY <1>1, Invariance, PTL

-----------------------------------------------------------------------------
(* The max button. *)

LEMMA TimesKeeps ==
  ASSUME NEW a \in Nat, NEW b \in Nat, NEW n \in Nat, a <= b
  PROVE  a * n <= b * n
<1>1. PICK k \in Nat : b = a + k
  <2>1. b - a \in Nat /\ b = a + (b - a)
    OBVIOUS
  <2> QED
    BY <2>1
<1>2. b * n = a * n + k * n /\ a * n \in Nat /\ k * n \in Nat
  BY <1>1
<1> QED
  BY <1>2

\* Three floors and a fee: x price steps are affordable, k times the denominator
\* of them with the fee, and cost and fee are rounded down.
LEMMA RoundedDown ==
  ASSUME NEW u \in Nat \ {0}, NEW d \in Nat \ {0}, NEW f \in Nat, NEW p \in Nat,
         NEW m \in Nat, NEW x \in Nat, NEW k \in Nat, NEW c \in Nat, NEW fee \in Nat,
         x * p <= m * u, k * (d + f) <= x, c * u <= (k * d) * p, fee * d <= c * f
  PROVE  c + fee <= m
<1>1. PICK w \in Nat, t \in Nat : w = d + f /\ t = c + fee
  OBVIOUS
<1>2. t * d <= c * w
  <2>1. t * d = c * d + fee * d /\ c * w = c * d + c * f
    BY <1>1
  <2>2. c * d \in Nat /\ fee * d \in Nat /\ c * f \in Nat
    OBVIOUS
  <2> QED
    BY <2>1, <2>2
<1>3. (t * d) * u <= (c * w) * u
  <2>1. t * d \in Nat /\ c * w \in Nat
    BY <1>1
  <2> QED
    BY <1>2, <2>1, TimesKeeps
<1>4. (c * u) * w <= ((k * d) * p) * w
  <2>1. c * u \in Nat /\ (k * d) * p \in Nat
    OBVIOUS
  <2> QED
    BY <2>1, TimesKeeps
<1>5. (k * w) * (p * d) <= x * (p * d)
  <2>1. k * w \in Nat /\ p * d \in Nat /\ k * w <= x
    BY <1>1
  <2> QED
    BY <2>1, TimesKeeps
<1>6. (x * p) * d <= (m * u) * d
  <2>1. x * p \in Nat /\ m * u \in Nat
    OBVIOUS
  <2> QED
    BY <2>1, TimesKeeps
<1>7. /\ (c * w) * u = (c * u) * w /\ ((k * d) * p) * w = (k * w) * (p * d)
      /\ x * (p * d) = (x * p) * d /\ (m * u) * d = m * (u * d)
      /\ (t * d) * u = (u * d) * t
  <2>1. (c * w) * u = (c * u) * w
    OBVIOUS
  <2>2. ((k * d) * p) * w = (k * w) * (p * d)
    OBVIOUS
  <2>3. x * (p * d) = (x * p) * d /\ (m * u) * d = m * (u * d)
    OBVIOUS
  <2>4. (t * d) * u = (u * d) * t
    OBVIOUS
  <2> QED
    BY <2>1, <2>2, <2>3, <2>4
<1>8. /\ (t * d) * u \in Nat /\ (c * w) * u \in Nat /\ ((k * d) * p) * w \in Nat
      /\ x * (p * d) \in Nat /\ (m * u) * d \in Nat
  OBVIOUS
<1>9. (u * d) * t <= m * (u * d)
  BY <1>3, <1>4, <1>5, <1>6, <1>7, <1>8
<1>10. PICK q \in Nat \ {0} : q = u * d
  OBVIOUS
<1>11. t <= m
  <2>1. q * t <= m * q
    BY <1>9, <1>10
  <2>2. 1 \in Nat \ {0}
    OBVIOUS
  <2> QED
    BY <2>1, <2>2, FactorOut
<1> QED
  BY <1>1, <1>11

\* Parsing a text gives a number, and one of whole bonds a multiple of the unit.
LEMMA ParsedIs ==
  /\ \A e \in Texts : Parsed(e) \in Nat
  /\ \A n \in Nat : Parsed(BaseUnits(n)) = n * Unit
<1>1. PICK u \in Nat \ {0} : u = Unit
  BY MarketAssumption
<1>2. ASSUME NEW e \in Texts
      PROVE  Parsed(e) \in Nat
  <2>1. PICK w \in Nat, k \in Nat : w = e.whole /\ k = e.part
    <3>1. {0} \cup Amounts \subseteq Nat
      BY MarketAssumption
    <3>2. 0 .. u - 1 \subseteq Nat
      OBVIOUS
    <3>3. e.whole \in {0} \cup Amounts /\ e.part \in 0 .. u - 1
      BY <1>1 DEF Texts
    <3> QED
      BY <3>1, <3>2, <3>3
  <2>2. w * u + k \in Nat
    OBVIOUS
  <2> QED
    BY <1>1, <2>1, <2>2 DEF Parsed
<1>3. ASSUME NEW n \in Nat
      PROVE  Parsed(BaseUnits(n)) = n * Unit
  <2>1. Parsed(BaseUnits(n)) = n * u + 0
    BY <1>1 DEF Parsed, BaseUnits
  <2> QED
    BY <1>1, <2>1
<1> QED
  BY <1>2, <1>3

\* n times a unit is n only of one, or of nothing.
LEMMA TimesIsSame ==
  ASSUME NEW n \in Nat, NEW u \in Nat \ {0}
  PROVE  /\ n * u = n <=> u = 1 \/ n = 0
         /\ n # 0 => (n * u <= n <=> u = 1)
<1>1. PICK k \in Nat : u = k + 1
  <2>1. u - 1 \in Nat /\ u = (u - 1) + 1
    OBVIOUS
  <2> QED
    BY <2>1
<1>2. n * u = n * k + n /\ n * k \in Nat
  BY <1>1
<1>3. CASE k = 0
  BY <1>1, <1>2, <1>3
<1>4. CASE k # 0
  <2>1. PICK j \in Nat : k = j + 1
    <3>1. k - 1 \in Nat /\ k = (k - 1) + 1
      BY <1>4
    <3> QED
      BY <3>1
  <2>2. n * k = n * j + n /\ n * j \in Nat
    BY <2>1
  <2> QED
    BY <1>1, <1>2, <1>4, <2>2
<1> QED
  BY <1>3, <1>4

\* The order form's max button fills in a bid that costs, fee and all three
\* roundings included, no more than the wallet has, and an ask of all the wallet
\* holds, and the fill form's is the whole order, wherever bonds have no decimals,
\* for any balance, price and fee.  Where they have, what the fill form offers it
\* refuses, the ask is Unit times what is held, and the bid costs at most Unit
\* times what the wallet has.
THEOREM MaxIsMeant == Spec => []MaxMeansMax
<1>1. ASSUME IInv, NEW a \in Accounts, NEW p \in Prices
      PROVE  /\ BuyerTotal(Parsed(MaxBid(a, p)), p) <= cash[a] * Unit
             /\ Parsed(MaxAsk(a)) = tokens[a] <=> Unit = 1 \/ tokens[a] = 0
  <2>1. PICK u \in Nat \ {0}, d \in Nat \ {0}, f \in Nat, h \in Nat, t \in Nat :
          u = Unit /\ d = Bps /\ f = feeBps /\ h = cash[a] /\ t = tokens[a]
    BY <1>1, MarketAssumption DEF IInv, TypeOK
  <2>2. PICK m \in Nat : m = h * u
    OBVIOUS
  <2>3. p \in Nat \ {0} /\ d + f \in Nat \ {0} /\ 1 \in Nat \ {0}
    BY MarketAssumption
  <2>4. PICK x \in Nat : x = m \div p /\ x * p <= m
    BY <2>3, Floors
  <2>5. PICK k \in Nat : k = x \div (d + f) /\ k * (d + f) <= x
    BY <2>3, Floors
  <2>6. PICK q \in Nat : q = k * d
    OBVIOUS
  <2>7. MaxBid(a, p) = BaseUnits(q)
    BY <2>1, <2>2, <2>4, <2>5, <2>6 DEF MaxBid
  <2>8. Parsed(MaxBid(a, p)) = q * u
    BY <2>1, <2>7, ParsedIs
  <2>9. PICK c \in Nat : c = q * p
    BY <2>3
  <2>10. OrderCost(q * u, p) = c
    <3>1. (q * u) * p = c * u /\ c * u \in Nat
      BY <2>3, <2>9
    <3>2. PICK y \in Nat : y = (c * u) \div u /\ y * u <= c * u /\ c * u < y * u + u
      BY <3>1, Floors
    <3>3. y <= c
      BY <3>2, FactorOut
    <3>4. c < y + 1
      <4>1. y * u + u = (y + 1) * u
        OBVIOUS
      <4>2. c * u < (y + 1) * u
        BY <3>2, <4>1
      <4> QED
        BY <4>2, Scaled
    <3> QED
      BY <2>1, <3>1, <3>2, <3>3, <3>4 DEF OrderCost
  <2>11. c * f \in Nat
    OBVIOUS
  <2>12. PICK fee \in Nat : fee = (c * f) \div d /\ fee * d <= c * f
    BY <2>11, Floors
  <2>13. c + fee <= m
    <3>1. x * p <= m * 1 /\ c * 1 <= (k * d) * p
      BY <2>4, <2>6, <2>9
    <3> QED
      BY <2>3, <2>5, <2>12, <3>1, RoundedDown
  <2>14. BuyerTotal(Parsed(MaxBid(a, p)), p) = c + fee
    BY <2>1, <2>8, <2>10, <2>12 DEF BuyerTotal, OrderFee
  <2>15. Parsed(MaxAsk(a)) = t * u
    BY <2>1, ParsedIs DEF MaxAsk
  <2>16. t * u = t <=> u = 1 \/ t = 0
    BY TimesIsSame
  <2> QED
    BY <2>1, <2>2, <2>13, <2>14, <2>15, <2>16
<1>2. ASSUME IInv, NEW id \in DOMAIN orders, orders[id] # NoOrder
      PROVE  SizeAllowed(id, MaxFill(id)) <=> Unit = 1
  <2>1. PICK n \in Nat \ {0}, u \in Nat \ {0} : n = orders[id].amount /\ u = Unit
    BY <1>2, MarketAssumption DEF IInv, TypeOK, Order
  <2>2. Parsed(MaxFill(id)) = n * u
    BY <2>1, ParsedIs DEF MaxFill
  <2>3. n * u <= n <=> u = 1
    BY TimesIsSame
  <2>4. n * u > 0
    <3>1. 1 * n <= u * n
      BY TimesKeeps
    <3> QED
      BY <3>1
  <2> QED
    BY <2>1, <2>2, <2>3, <2>4 DEF SizeAllowed
<1>3. IInv => MaxMeansMax
  BY <1>1, <1>2 DEF MaxMeansMax
<1> QED
  BY <1>3, Invariance, PTL

-----------------------------------------------------------------------------
(* The ladder. *)

LEMMA ClocksAre ==
  ASSUME IInv
  PROVE  now \in Nat /\ Clocks \subseteq Int /\ \A t \in Clocks : now <= t + PageSkew
BY PageAssumption DEF IInv, TypeOK, Clocks

\* The orders of the book, by id; what the page lists is what a fill would find, but
\* for the orders that end between the two clocks.
LEMMA ListedOrders ==
  ASSUME IInv, NEW sell \in BOOLEAN, NEW t \in Int
  PROVE  /\ IsFiniteSet(Listed(sell, t)) /\ Listed(sell, t) \subseteq DOMAIN orders
         /\ \A id \in Listed(sell, t) :
              /\ orders[id] \in Order /\ orders[id].isSell = sell
              /\ orders[id].price \in Nat \ {0} /\ orders[id].amount \in Nat \ {0}
              /\ Sizes[id] = orders[id].amount
         /\ \A id \in DOMAIN orders : ~Between(orders[id], t) =>
              (id \in Listed(sell, t) <=> Live(orders[id]) /\ orders[id].isSell = sell)
<1>1. orders \in Seq(Order \cup {NoOrder}) /\ Len(orders) \in Nat /\ DOMAIN orders = 1 .. Len(orders)
  BY DEF IInv, TypeOK
<1>2. Listed(sell, t) \subseteq DOMAIN orders
  BY DEF Listed
<1>3. IsFiniteSet(Listed(sell, t))
  <2>1. IsFiniteSet(1 .. Len(orders))
    BY <1>1, FS_Interval
  <2> QED
    BY <1>1, <1>2, <2>1, FS_Subset
<1>4. ASSUME NEW id \in Listed(sell, t)
      PROVE  /\ orders[id] \in Order /\ orders[id].isSell = sell
             /\ orders[id].price \in Nat \ {0} /\ orders[id].amount \in Nat \ {0}
             /\ Sizes[id] = orders[id].amount
  <2>1. orders[id] \in Order /\ orders[id] # NoOrder /\ orders[id].isSell = sell
    BY <1>1 DEF Listed, Open
  <2> QED
    BY <1>2, <2>1, MarketAssumption DEF Order, Sizes
<1>5. ASSUME NEW id \in DOMAIN orders, ~Between(orders[id], t)
      PROVE  id \in Listed(sell, t) <=> Live(orders[id]) /\ orders[id].isSell = sell
  BY <1>5 DEF Listed, Open, Live, Between
<1> QED
  BY <1>2, <1>3, <1>4, <1>5

\* A ladder has one row for each order listed, and each of its parts adds up.
LEMMA LadderRows ==
  ASSUME IInv, NEW sell \in BOOLEAN, NEW t \in Int, NEW s \in Ladders(sell, t)
  PROVE  /\ s \in Seq(Listed(sell, t)) /\ Len(s) \in Nat /\ DOMAIN s = 1 .. Len(s)
         /\ \A j \in DOMAIN s : s[j] \in Listed(sell, t)
         /\ \A j, k \in DOMAIN s : s[j] = s[k] => j = k
         /\ \A id \in Listed(sell, t) : \E j \in DOMAIN s : s[j] = id
<1>1. PICK L : L = Listed(sell, t) /\ IsFiniteSet(L)
  BY ListedOrders
<1>2. PICK n \in Nat : n = Cardinality(L)
  BY <1>1, FS_CardinalityType
<1>3. s \in [1 .. n -> L] /\ \A j, k \in 1 .. n : j # k => s[j] # s[k]
  BY <1>1, <1>2 DEF Ladders, SetToSeqs
<1>4. s \in Seq(L) /\ Len(s) = n /\ DOMAIN s = 1 .. n
  BY <1>3
<1>5. s \in Injection(1 .. n, L)
  BY <1>3 DEF Injection, IsInjective
<1>6. Cardinality(1 .. n) = n
  BY FS_Interval
<1>7. s \in Surjection(1 .. n, L)
  BY <1>1, <1>2, <1>5, <1>6, FS_Injection
<1>8. \A id \in L : \E j \in 1 .. n : s[j] = id
  BY <1>7 DEF Surjection
<1> QED
  BY <1>1, <1>3, <1>4, <1>8

\* The rows of the ladder down to k.
Down(s, k) == {s[j] : j \in 1 .. k}

LEMMA CumulativeIs ==
  ASSUME IInv, NEW sell \in BOOLEAN, NEW t \in Int, NEW s \in Ladders(sell, t),
         NEW k \in 1 .. Len(s)
  PROVE  Cumulative(s, k) = SumOver(Sizes, Down(s, k))
<1>1. 1 .. k \subseteq DOMAIN s /\ IsFiniteSet(1 .. k)
  BY LadderRows, FS_Interval
<1>2. \A j \in 1 .. k : RowSizes(s)[j] = Sizes[s[j]] /\ Sizes[s[j]] \in Int
  <2> TAKE j \in 1 .. k
  <2>1. j \in DOMAIN s /\ s[j] \in Listed(sell, t)
    BY <1>1, LadderRows
  <2> QED
    BY <2>1, ListedOrders DEF RowSizes
<1>3. \A i, j \in 1 .. k : s[i] = s[j] => i = j
  BY <1>1, LadderRows
<1>4. PICK f, g : f = Sizes /\ g = RowSizes(s)
  OBVIOUS
<1>5. SumOver(g, 1 .. k) = SumOver(f, {s[j] : j \in 1 .. k})
  BY <1>1, <1>2, <1>3, <1>4, SumImage
<1> QED
  BY <1>4, <1>5 DEF Cumulative, Down

\* What is summed over is a part of what is listed.
LEMMA ListedSum ==
  ASSUME IInv, NEW sell \in BOOLEAN, NEW t \in Int,
         NEW A, NEW B \in SUBSET Listed(sell, t), A \subseteq B
  PROVE  /\ SumOver(Sizes, A) \in Nat /\ SumOver(Sizes, B) \in Nat
         /\ SumOver(Sizes, A) <= SumOver(Sizes, B)
         /\ \A id \in B \ A : SumOver(Sizes, A) < SumOver(Sizes, B)
<1>1. PICK f : f = Sizes
  OBVIOUS
<1>2. IsFiniteSet(B) /\ IsFiniteSet(A) /\ \A id \in B : f[id] \in Nat \ {0}
  BY <1>1, ListedOrders, FS_Subset
<1>3. SumOver(f, A) \in Nat /\ SumOver(f, B) \in Nat
  BY <1>2, SumNat
<1>4. SumOver(f, A) <= SumOver(f, B)
  BY <1>2, SumSubset
<1>5. ASSUME NEW id \in B \ A
      PROVE  SumOver(f, A) < SumOver(f, B)
  <2>1. SumOver(f, A \cup {id}) = SumOver(f, A) + f[id]
    <3>1. IsFiniteSet(A) /\ id \notin A /\ \A y \in A \cup {id} : f[y] \in Int
      BY <1>2, <1>5
    <3> QED
      BY <3>1, SumWith
  <2>2. PICK C \in SUBSET B : C = A \cup {id}
    BY <1>5
  <2>3. SumOver(f, C) <= SumOver(f, B)
    BY <1>2, SumSubset
  <2>4. f[id] \in Nat \ {0}
    BY <1>2
  <2> QED
    BY <1>3, <2>1, <2>2, <2>3, <2>4
<1> QED
  BY <1>1, <1>3, <1>4, <1>5

\* A price is better than another on its side of the book.
Beats(sell, p, q) == IF sell THEN p < q ELSE p > q

LEMMA BestFirstIs ==
  ASSUME IInv, NEW sell \in BOOLEAN, NEW t \in Int, NEW s \in Ladders(sell, t),
         NEW j \in DOMAIN s, NEW k \in DOMAIN s
  PROVE  j <= k => ~Beats(sell, orders[s[k]].price, orders[s[j]].price)
<1>1. PICK p \in Nat, q \in Nat : p = orders[s[j]].price /\ q = orders[s[k]].price
  BY LadderRows, ListedOrders
<1>2. BestFirst(sell, s)
  BY DEF Ladders
<1>3. j \in Int /\ k \in Int
  BY LadderRows
<1>4. CASE j = k
  BY <1>1, <1>4 DEF Beats
<1>5. CASE j < k
  BY <1>1, <1>2, <1>5 DEF Beats, BestFirst
<1> QED
  BY <1>3, <1>4, <1>5

LEMMA DepthHolds ==
  ASSUME IInv
  PROVE  DepthIsHonest
<1> SUFFICES ASSUME NEW t \in Int, NEW sell \in BOOLEAN, NEW s \in Ladders(sell, t),
                    NEW k \in DOMAIN s
             PROVE  LET price == orders[s[k]].price
                        better == {id \in Listed(sell, t) :
                           IF sell THEN orders[id].price < price ELSE orders[id].price > price}
                        equal == {id \in Listed(sell, t) : orders[id].price = price}
                    IN  /\ Cumulative(s, k) > SumOver(Sizes, better)
                        /\ Cumulative(s, k) <= SumOver(Sizes, better \cup equal)
  BY ClocksAre DEF DepthIsHonest
<1>1. PICK L, p : L = Listed(sell, t) /\ p = orders[s[k]].price
  OBVIOUS
<1>2. PICK A \in SUBSET L, E \in SUBSET L, D \in SUBSET L :
        /\ A = {id \in L : Beats(sell, orders[id].price, p)}
        /\ E = {id \in L : orders[id].price = p}
        /\ D = Down(s, k)
  <2>1. Down(s, k) \subseteq L
    BY <1>1, LadderRows DEF Down
  <2> QED
    BY <2>1
<1>3. k \in 1 .. Len(s) /\ s[k] \in D /\ s[k] \in L
  BY <1>1, <1>2, LadderRows DEF Down
<1>4. A \subseteq D
  <2> SUFFICES ASSUME NEW id \in A PROVE id \in D
    OBVIOUS
  <2>1. PICK j \in DOMAIN s : s[j] = id
    BY <1>1, <1>2, LadderRows
  <2>2. Beats(sell, orders[s[j]].price, orders[s[k]].price)
    BY <1>1, <1>2, <2>1
  <2>3. ~(k <= j)
    BY <2>2, BestFirstIs
  <2>4. j \in 1 .. k
    BY <2>3, LadderRows
  <2> QED
    BY <1>2, <2>1, <2>4 DEF Down
<1>5. s[k] \notin A
  <2>1. p \in Nat
    BY <1>1, <1>3, ListedOrders
  <2> QED
    BY <1>1, <1>2, <2>1 DEF Beats
<1>6. D \subseteq A \cup E
  <2> SUFFICES ASSUME NEW j \in 1 .. k PROVE s[j] \in A \cup E
    BY <1>2 DEF Down
  <2>1. j \in DOMAIN s /\ j <= k /\ s[j] \in L
    BY <1>1, <1>3, LadderRows
  <2>2. PICK q \in Nat, r \in Nat : q = orders[s[j]].price /\ r = p
    BY <1>1, <1>3, <2>1, ListedOrders
  <2>3. ~Beats(sell, p, q)
    BY <1>1, <2>1, <2>2, BestFirstIs
  <2>4. Beats(sell, q, p) \/ q = p
    BY <2>2, <2>3 DEF Beats
  <2> QED
    BY <1>2, <2>1, <2>2, <2>4
<1>7. SumOver(Sizes, A) < SumOver(Sizes, D)
  BY <1>1, <1>3, <1>4, <1>5, ListedSum
<1>8. SumOver(Sizes, D) <= SumOver(Sizes, A \cup E)
  BY <1>1, <1>6, ListedSum
<1>9. Cumulative(s, k) = SumOver(Sizes, D)
  BY <1>2, <1>3, CumulativeIs
<1>10. SumOver(Sizes, A) \in Nat /\ SumOver(Sizes, D) \in Nat
  BY <1>1, <1>4, ListedSum
<1> QED
  BY <1>1, <1>2, <1>7, <1>8, <1>9, <1>10 DEF Beats

\* The price quoted for a side is the best listed there, and 0 when none is.
Best(sell) == IF sell THEN Quote.ask ELSE Quote.bid

LEMMA BestListed ==
  ASSUME IInv, NEW sell \in BOOLEAN, NEW t \in Int,
         \A id \in DOMAIN orders : ~Between(orders[id], t)
  PROVE  /\ Best(sell) \in Nat
         /\ \A id \in Listed(sell, t) : Best(sell) # 0 /\ ~Beats(sell, orders[id].price, Best(sell))
         /\ Best(sell) # 0 => \E id \in Listed(sell, t) : orders[id].price = Best(sell)
<1>1. PICK o \in Seq(Order \cup {NoOrder}) : o = orders
  BY DEF IInv, TypeOK
<1>2. PICK q : q = Quote
  OBVIOUS
<1>3. BestOf(q, o, Len(o)) /\ DOMAIN o = 1 .. Len(o)
  BY <1>1, <1>2, QuoteBest
<1>4. q.bid \in Nat /\ q.ask \in Nat
  BY <1>3 DEF BestOf
<1>5. PICK L : L = Listed(sell, t) /\ L = {id \in DOMAIN o : Live(o[id]) /\ o[id].isSell = sell}
  BY <1>1, ListedOrders DEF Listed
<1>6. \A id \in L : o[id].price \in Nat
  BY <1>1, <1>5, ListedOrders
<1>7. PICK b \in Nat : b = Best(sell) /\ b = IF sell THEN q.ask ELSE q.bid
  BY <1>2, <1>4 DEF Best
<1>8. ASSUME NEW id \in L
      PROVE  b # 0 /\ ~Beats(sell, o[id].price, b)
  <2>1. id \in 1 .. Len(o) /\ Live(o[id]) /\ o[id].isSell = sell
    BY <1>3, <1>5
  <2>2. IF sell THEN q.ask # 0 /\ q.ask <= o[id].price ELSE q.bid # 0 /\ o[id].price <= q.bid
    BY <1>3, <2>1 DEF BestOf
  <2> QED
    BY <1>4, <1>6, <1>7, <2>2 DEF Beats
<1>9. ASSUME b # 0
      PROVE  \E id \in L : o[id].price = b
  <2>1. PICK n \in 1 .. Len(o) : Live(o[n]) /\ o[n].price = b /\ (IF sell THEN o[n].isSell ELSE ~o[n].isSell)
    BY <1>3, <1>7, <1>9 DEF BestOf
  <2>2. o[n] \in Order
    BY <1>1, <2>1 DEF Live
  <2>3. o[n].isSell = sell
    BY <2>1, <2>2 DEF Order
  <2> QED
    BY <1>3, <1>5, <2>1, <2>3
<1> QED
  BY <1>1, <1>5, <1>7, <1>8, <1>9

LEMMA LadderIs ==
  ASSUME IInv, NEW t \in Int, \A id \in DOMAIN orders : ~Between(orders[id], t)
  PROVE  /\ \A sell \in BOOLEAN : \A s \in Ladders(sell, t) :
              /\ {id \in DOMAIN orders : Live(orders[id]) /\ orders[id].isSell = sell} = ToSet(s)
              /\ IF s = <<>> THEN Best(sell) = 0
                 ELSE /\ orders[Head(s)].price = Best(sell)
                      /\ SizeAtBest(sell, Best(sell), t) \in 1 .. Cumulative(s, Len(s))
         /\ SpreadMid(Quote.bid, Quote.ask) = NoSpread
              <=> Listed(TRUE, t) = {} \/ Listed(FALSE, t) = {}
<1>1. ASSUME NEW sell \in BOOLEAN, NEW s \in Ladders(sell, t)
      PROVE  /\ {id \in DOMAIN orders : Live(orders[id]) /\ orders[id].isSell = sell} = ToSet(s)
             /\ IF s = <<>> THEN Best(sell) = 0
                ELSE /\ orders[Head(s)].price = Best(sell)
                     /\ SizeAtBest(sell, Best(sell), t) \in 1 .. Cumulative(s, Len(s))
  <2>0. PICK L : L = Listed(sell, t)
    OBVIOUS
  <2>1. PICK b \in Nat : L = Listed(sell, t) /\ b = Best(sell)
    BY <2>0, BestListed
  <2>2. L = {id \in DOMAIN orders : Live(orders[id]) /\ orders[id].isSell = sell}
    BY <2>1, ListedOrders DEF Listed
  <2>3. L = ToSet(s)
    BY <2>1, LadderRows DEF ToSet
  <2>4. CASE s = <<>>
    <3>1. L = {}
      BY <2>3, <2>4 DEF ToSet
    <3>2. b = 0
      BY <2>1, <3>1, BestListed
    <3> QED
      BY <2>1, <2>2, <2>3, <2>4, <3>2
  <2>5. CASE s # <<>>
    <3>1. s \in Seq(L) /\ Len(s) \in Nat \ {0} /\ DOMAIN s = 1 .. Len(s)
      BY <2>1, <2>5, LadderRows
    <3>2. 1 \in DOMAIN s /\ Head(s) = s[1] /\ s[1] \in L
      BY <2>1, <3>1, LadderRows
    <3>3. b # 0 /\ ~Beats(sell, orders[s[1]].price, b)
      BY <2>1, <3>2, BestListed
    <3>4. PICK id \in L : orders[id].price = b
      BY <2>1, <3>3, BestListed
    <3>5. PICK j \in DOMAIN s : s[j] = id
      BY <2>1, <3>4, LadderRows
    <3>6. ~Beats(sell, b, orders[s[1]].price)
      <4>1. 1 <= j
        BY <3>1
      <4> QED
        BY <3>2, <3>4, <3>5, <4>1, BestFirstIs
    <3>7. orders[s[1]].price = b
      <4>1. orders[s[1]].price \in Nat
        BY <2>1, <3>2, ListedOrders
      <4> QED
        BY <3>3, <3>6, <4>1 DEF Beats
    <3>8. PICK E \in SUBSET L : E = {i \in L : orders[i].price = b}
      OBVIOUS
    <3>9. PICK n \in Nat, size \in Nat : n = SumOver(Sizes, L) /\ size = SumOver(Sizes, E) /\ size <= n
      BY <2>1, ListedSum
    <3>10. size > 0
      <4>1. {} \subseteq E /\ s[1] \in E \ {}
        BY <3>2, <3>7, <3>8
      <4>2. SumOver(Sizes, {}) < SumOver(Sizes, E)
        BY <2>1, <4>1, ListedSum
      <4> QED
        BY <3>9, <4>2, SumEmpty
    <3>11. Cumulative(s, Len(s)) = n
      <4>1. Len(s) \in 1 .. Len(s)
        BY <3>1
      <4>2. Down(s, Len(s)) = L
        BY <2>3, <3>1 DEF Down, ToSet
      <4> QED
        BY <3>9, <4>1, <4>2, CumulativeIs
    <3>12. SizeAtBest(sell, b, t) = size
      BY <2>1, <3>8, <3>9 DEF SizeAtBest
    <3> QED
      BY <2>1, <2>2, <2>3, <2>5, <3>2, <3>7, <3>9, <3>10, <3>11, <3>12
  <2> QED
    BY <2>4, <2>5
<1>2. SpreadMid(Quote.bid, Quote.ask) = NoSpread <=> Listed(TRUE, t) = {} \/ Listed(FALSE, t) = {}
  <2>1. PICK bid \in Nat, ask \in Nat : bid = Best(FALSE) /\ ask = Best(TRUE)
    BY BestListed
  <2>2. bid = Quote.bid /\ ask = Quote.ask
    BY <2>1 DEF Best
  <2>3. (bid = 0 <=> Listed(FALSE, t) = {}) /\ (ask = 0 <=> Listed(TRUE, t) = {})
    BY <2>1, BestListed
  <2>4. ASSUME bid # 0, ask # 0
        PROVE  SpreadMid(bid, ask) # NoSpread
    <3>1. PICK m \in Nat : m = (ask + bid) \div 2 /\ ask + bid < m * 2 + 2
      <4>1. ask + bid \in Nat
        OBVIOUS
      <4> QED
        BY <4>1, Floors
    <3>2. m # 0
      BY <2>4, <3>1
    <3>3. SpreadMid(bid, ask) = [spread |-> ask - bid, mid |-> m]
      BY <2>4, <3>1 DEF SpreadMid
    <3> QED
      BY <3>2, <3>3 DEF NoSpread
  <2>5. bid = 0 \/ ask = 0 => SpreadMid(bid, ask) = NoSpread
    BY DEF SpreadMid
  <2> QED
    BY <2>2, <2>3, <2>4, <2>5
<1> QED
  BY <1>1, <1>2

LEMMA LadderHolds ==
  ASSUME IInv
  PROVE  LadderIsTheBook
<1> SUFFICES ASSUME NEW t \in Clocks
             PROVE  LET ending == {id \in DOMAIN orders : Between(orders[id], t)}
                        live(sell) == {id \in DOMAIN orders :
                                         Live(orders[id]) /\ orders[id].isSell = sell}
                    IN
                    /\ \A sell \in BOOLEAN : Listed(sell, t) \ ending = live(sell) \ ending
                    /\ ending = {} =>
                         /\ \A sell \in BOOLEAN : \A s \in Ladders(sell, t) :
                              LET best == IF sell THEN Quote.ask ELSE Quote.bid IN
                              /\ live(sell) = ToSet(s)
                              /\ IF s = <<>> THEN best = 0
                                 ELSE /\ orders[Head(s)].price = best
                                      /\ SizeAtBest(sell, best, t) \in 1 .. Cumulative(s, Len(s))
                         /\ LET sm == SpreadMid(Quote.bid, Quote.ask) IN
                              sm = NoSpread <=> Listed(TRUE, t) = {} \/ Listed(FALSE, t) = {}
  BY DEF LadderIsTheBook
<1> DEFINE ending == {id \in DOMAIN orders : Between(orders[id], t)}
           live(sell) == {id \in DOMAIN orders : Live(orders[id]) /\ orders[id].isSell = sell}
<1>1. t \in Int
  BY ClocksAre
<1>2. \A sell \in BOOLEAN : Listed(sell, t) \ ending = live(sell) \ ending
  <2> SUFFICES ASSUME NEW sell \in BOOLEAN PROVE Listed(sell, t) \ ending = live(sell) \ ending
    OBVIOUS
  <2>1. \A id \in Listed(sell, t) : id \in DOMAIN orders
    BY DEF Listed
  <2> QED
    BY <1>1, <2>1, ListedOrders
<1>3. ASSUME ending = {}
      PROVE  \A id \in DOMAIN orders : ~Between(orders[id], t)
  BY <1>3
<1> QED
  BY <1>1, <1>2, <1>3, LadderIs DEF Best

-----------------------------------------------------------------------------
(* The forms. *)

\* What a size costs at a price, fee included.
LEMMA Totals ==
  ASSUME IInv, NEW n \in Nat, NEW p \in Nat
  PROVE  /\ OrderCost(n, p) \in Nat /\ OrderFee(OrderCost(n, p)) \in Nat
         /\ BuyerTotal(n, p) \in Nat
         /\ BuyerTotal(n, p) = OrderCost(n, p) + OrderFee(OrderCost(n, p))
<1>1. n * p \in Nat
  OBVIOUS
<1>2. PICK c \in Nat : c = OrderCost(n, p)
  BY <1>1, Floors, MarketAssumption DEF OrderCost
<1>3. feeBps \in Nat
  BY MarketAssumption DEF IInv, TypeOK
<1>4. c * feeBps \in Nat
  BY <1>3
<1>5. OrderFee(c) \in Nat
  BY <1>4, Floors, MarketAssumption DEF OrderFee
<1>6. BuyerTotal(n, p) = c + OrderFee(c)
  BY <1>2 DEF BuyerTotal
<1> QED
  BY <1>2, <1>5, <1>6

\* The form's arithmetic is the contract's: whoever is not the maker fills an order
\* exactly when it is open, the rules allow it, and each side has what the form says
\* it needs.
LEMMA FillableIs ==
  ASSUME IInv, NEW a \in Accounts, NEW id \in DOMAIN orders, NEW n \in Nat,
         orders[id] # NoOrder, orders[id].maker # a
  PROVE  LET o == orders[id] IN
         Fillable(a, id, n) <=>
           /\ Live(o) /\ n <= o.amount /\ status = "Active"
           /\ {a, o.maker} \subseteq eligible /\ InBand(o.price)
           /\ OrderCost(n, o.price) > 0
           /\ IF o.isSell
              THEN tokens[o.maker] >= n /\ cash[a] >= BuyerTotal(n, o.price)
              ELSE tokens[a] >= n /\ cash[o.maker] >= BuyerTotal(n, o.price)
<1>1. PICK o \in Order : o = orders[id]
  BY DEF IInv, TypeOK
<1>2. PICK p \in Nat : p = o.price
  BY MarketAssumption DEF Order
<1>3. PICK c \in Nat, f \in Nat : c = OrderCost(n, p) /\ f = OrderFee(c) /\ BuyerTotal(n, p) = c + f
  <2>1. PICK c \in Nat : c = OrderCost(n, p)
    BY Totals
  <2>2. PICK f \in Nat : f = OrderFee(OrderCost(n, p))
    BY Totals
  <2>3. BuyerTotal(n, p) = OrderCost(n, p) + OrderFee(OrderCost(n, p))
    BY DEF BuyerTotal
  <2> QED
    BY <2>1, <2>2, <2>3
<1>4. CostOf(o, n) = c /\ Fee(c) = f
  BY <1>2, <1>3 DEF CostOf, Fee, OrderCost, OrderFee
<1>5. PICK seller \in Accounts, buyer \in Accounts :
        /\ seller = Seller(o, a) /\ buyer = Buyer(o, a)
        /\ IF o.isSell THEN seller = o.maker /\ buyer = a ELSE seller = a /\ buyer = o.maker
  BY DEF Order, Seller, Buyer
<1>6. seller # buyer /\ {seller, buyer} = {a, o.maker}
  BY <1>1, <1>5
<1>7. cash \in [Accounts -> Nat] /\ cash[buyer] \in Nat
  BY DEF IInv, TypeOK
<1>8. Paid(o, a, n)[buyer] = cash[buyer] - c
  BY <1>4, <1>5, <1>6, <1>7 DEF Paid, Moved
<1>9. (cash[buyer] >= c /\ Paid(o, a, n)[buyer] >= Fee(c)) <=> cash[buyer] >= c + f
  BY <1>4, <1>7, <1>8
<1>10. Fillable(a, id, n) <=>
         /\ Live(o) /\ n <= o.amount /\ status = "Active"
         /\ {seller, buyer} \subseteq eligible /\ tokens[seller] >= n
         /\ InBand(o.price) /\ c > 0
         /\ cash[buyer] >= c /\ Paid(o, a, n)[buyer] >= Fee(c)
  BY <1>1, <1>4, <1>5 DEF Fillable
<1>11. Fillable(a, id, n) <=>
         /\ Live(o) /\ n <= o.amount /\ status = "Active"
         /\ {a, o.maker} \subseteq eligible /\ InBand(o.price)
         /\ c > 0 /\ tokens[seller] >= n /\ cash[buyer] >= c + f
  BY <1>6, <1>9, <1>10
<1>12. CASE o.isSell
  BY <1>1, <1>2, <1>3, <1>5, <1>11, <1>12
<1>13. CASE ~o.isSell
  BY <1>1, <1>2, <1>3, <1>5, <1>11, <1>13
<1> QED
  BY <1>12, <1>13

LEMMA FormHolds ==
  ASSUME IInv
  PROVE  FormTellsTruth
<1> SUFFICES ASSUME NEW a \in Accounts, NEW id \in DOMAIN orders, NEW e \in Texts,
                    orders[id] # NoOrder, Button(a, id) \in {"Buy", "Sell"},
                    SizeAllowed(id, e)
             PROVE  LET o == orders[id]
                        n == Parsed(e)
                        c == OrderCost(n, o.price)
                        otherSide == IF o.isSell THEN tokens[o.maker] >= n
                                     ELSE cash[o.maker] >= BuyerTotal(n, o.price)
                        compliant == {a, o.maker} \subseteq eligible /\ InBand(o.price)
                    IN  /\ Warns(a, id, n) => ~Fillable(a, id, n)
                        /\ ~Warns(a, id, n) /\ otherSide /\ compliant /\ c > 0 /\ Live(o) =>
                             Fillable(a, id, n)
  BY DEF FormTellsTruth
<1>1. PICK o \in Order : o = orders[id]
  BY DEF IInv, TypeOK
<1>2. PICK n \in Nat : n = Parsed(e) /\ n <= o.amount
  BY <1>1, ParsedIs DEF SizeAllowed
<1>3. o.maker # a /\ status = "Active"
  BY <1>1 DEF Button
<1>4. PICK p \in Nat : p = o.price
  BY MarketAssumption DEF Order
<1>5. PICK t \in Nat : t = BuyerTotal(n, p)
  BY <1>2, <1>4, Totals
<1>6. /\ a \in Accounts /\ o.maker \in Accounts
      /\ cash[a] \in Nat /\ tokens[a] \in Nat
  BY DEF IInv, TypeOK, Order
<1>7. Fillable(a, id, n) <=>
        /\ Live(o) /\ n <= o.amount /\ status = "Active"
        /\ {a, o.maker} \subseteq eligible /\ InBand(o.price)
        /\ OrderCost(n, o.price) > 0
        /\ IF o.isSell
           THEN tokens[o.maker] >= n /\ cash[a] >= t
           ELSE tokens[a] >= n /\ cash[o.maker] >= t
  BY <1>1, <1>2, <1>3, <1>4, <1>5, FillableIs
<1>8. CASE o.isSell
  <2>1. Warns(a, id, n) <=> ~(cash[a] >= t)
    BY <1>1, <1>4, <1>5, <1>6, <1>8 DEF Warns, Balance, Need
  <2> QED
    BY <1>1, <1>2, <1>3, <1>7, <1>8, <2>1
<1>9. CASE ~o.isSell
  <2>1. Warns(a, id, n) <=> ~(tokens[a] >= n)
    BY <1>1, <1>2, <1>6, <1>9 DEF Warns, Balance, Need
  <2> QED
    BY <1>1, <1>2, <1>3, <1>4, <1>5, <1>7, <1>9, <2>1
<1> QED
  BY <1>8, <1>9

\* Rounded down, two parts are never worth more than the whole.
LEMMA PartsOf ==
  ASSUME NEW x \in Nat, NEW y \in Nat, NEW u \in Nat \ {0}
  PROVE  x \div u + y \div u <= (x + y) \div u
<1>1. PICK a \in Nat, b \in Nat, c \in Nat :
        /\ a = x \div u /\ b = y \div u /\ c = (x + y) \div u
        /\ a * u <= x /\ b * u <= y /\ x + y < c * u + u
  <2>1. x + y \in Nat
    OBVIOUS
  <2> QED
    BY <2>1, Floors
<1>2. PICK w \in Nat : w = u
  OBVIOUS
<1>3. (a + b) * w = a * w + b * w /\ (c + 1) * w = c * w + w
  OBVIOUS
<1>4. a * w \in Nat /\ b * w \in Nat /\ c * w \in Nat
  OBVIOUS
<1>5. (a + b) * w < (c + 1) * w
  BY <1>1, <1>2, <1>3, <1>4
<1>6. a + b < c + 1
  BY <1>5, Scaled
<1> QED
  BY <1>1, <1>6

LEMMA CostParts ==
  ASSUME NEW n \in Nat, NEW m \in Nat, NEW p \in Nat
  PROVE  OrderCost(n, p) + OrderCost(m, p) <= OrderCost(n + m, p)
<1>1. n * p \in Nat /\ m * p \in Nat /\ (n + m) * p = n * p + m * p
  OBVIOUS
<1> QED
  BY <1>1, PartsOf, MarketAssumption DEF OrderCost

LEMMA TotalParts ==
  ASSUME IInv, NEW n \in Nat, NEW m \in Nat, NEW p \in Nat
  PROVE  BuyerTotal(n, p) + BuyerTotal(m, p) <= BuyerTotal(n + m, p)
<1>1. PICK f \in Nat, d \in Nat \ {0} : f = feeBps /\ d = Bps
  BY MarketAssumption DEF IInv, TypeOK
<1>2. PICK a \in Nat, b \in Nat, c \in Nat :
        /\ a = OrderCost(n, p) /\ b = OrderCost(m, p) /\ c = OrderCost(n + m, p)
        /\ a + b <= c
  <2>1. n + m \in Nat
    OBVIOUS
  <2>2. OrderCost(n, p) \in Nat /\ OrderCost(m, p) \in Nat
    BY Totals
  <2>3. OrderCost(n + m, p) \in Nat
    BY <2>1, Totals
  <2>4. OrderCost(n, p) + OrderCost(m, p) <= OrderCost(n + m, p)
    BY CostParts
  <2> QED
    BY <2>2, <2>3, <2>4
<1>3. a * f \in Nat /\ b * f \in Nat /\ c * f \in Nat /\ (a + b) * f = a * f + b * f
  OBVIOUS
<1>4. (a + b) * f <= c * f
  BY <1>2, Scaled
<1>5. PICK e \in Nat : c * f = (a * f + b * f) + e
  <2>1. c * f - (a * f + b * f) \in Nat
    BY <1>3, <1>4
  <2> QED
    BY <1>3, <2>1
<1>6. PICK x \in Nat, y \in Nat, z \in Nat :
        x = (a * f) \div d /\ y = (b * f) \div d /\ z = (c * f) \div d
  BY <1>3, Floors
<1>7. x + y <= z
  <2>1. PICK s \in Nat, v \in Nat :
          s = (a * f + b * f) \div d /\ v = e \div d
    BY <1>3, Floors
  <2>2. x + y <= s
    BY <1>3, <1>6, <2>1, PartsOf
  <2>3. s + v <= z
    <3>1. a * f + b * f \in Nat
      BY <1>3
    <3> QED
      BY <1>5, <1>6, <2>1, <3>1, PartsOf
  <2> QED
    BY <2>2, <2>3
<1>8. BuyerTotal(n, p) = a + x /\ BuyerTotal(m, p) = b + y /\ BuyerTotal(n + m, p) = c + z
  BY <1>1, <1>2, <1>6 DEF BuyerTotal, OrderFee
<1> QED
  BY <1>2, <1>7, <1>8

LEMMA OrderFormHolds ==
  ASSUME IInv
  PROVE  OrderFormTellsTruth
<1>1. ASSUME NEW a \in Accounts, NEW sell \in BOOLEAN, NEW e \in Texts, NEW p \in Prices,
             NEW d \in Delays, NEW clock \in Clocks, PlaceEnabled(e, p), Len(orders) < MaxOrders
      PROVE  Placeable(a, PlaceCall(a, sell, e, p, d, clock))
  <2>1. ExpiresAt(d, clock) = 0 \/ ExpiresAt(d, clock) > now
    BY ClocksAre, PageAssumption DEF ExpiresAt
  <2> QED
    BY <1>1, <2>1 DEF PlaceCall, PlaceEnabled, Placeable
<1>2. ASSUME NEW id \in DOMAIN orders, orders[id] # NoOrder,
             PlaceHave(orders[id]) < PlaceNeed(orders[id]),
             NEW a \in Accounts \ {orders[id].maker}
      PROVE  ~Fillable(a, id, orders[id].amount)
  <2>1. PICK o \in Order : o = orders[id]
    BY <1>2 DEF IInv, TypeOK
  <2>2. PICK n \in Nat, p \in Nat : n = o.amount /\ p = o.price
    BY MarketAssumption DEF Order
  <2>3. PICK t \in Nat : t = BuyerTotal(n, p)
    BY <2>2, Totals
  <2>4. o.maker \in Accounts /\ cash[o.maker] \in Nat /\ tokens[o.maker] \in Nat
    BY DEF IInv, TypeOK, Order
  <2>5. IF o.isSell THEN ~(tokens[o.maker] >= n) ELSE ~(cash[o.maker] >= t)
    BY <1>2, <2>1, <2>2, <2>3, <2>4 DEF PlaceHave, PlaceNeed
  <2>6. Fillable(a, id, n) =>
          IF o.isSell THEN tokens[o.maker] >= n ELSE cash[o.maker] >= t
    BY <1>2, <2>1, <2>2, <2>3, FillableIs
  <2> QED
    BY <2>1, <2>2, <2>5, <2>6
<1>3. ASSUME NEW n \in Amounts, NEW m \in Amounts, NEW p \in Prices
      PROVE  /\ BuyerTotal(n, p) + BuyerTotal(m, p) <= BuyerTotal(n + m, p)
             /\ OrderCost(n, p) + OrderCost(m, p) <= OrderCost(n + m, p)
  <2>1. n \in Nat /\ m \in Nat /\ p \in Nat
    BY MarketAssumption
  <2> QED
    BY <2>1, TotalParts, CostParts
<1> QED
  BY <1>1, <1>2, <1>3 DEF OrderFormTellsTruth

\* The orders tab is right whenever what it is made of is of one moment, for clocks
\* off by any skew below the shortest expiry: best prices and ladder are the book's
\* but for orders that end between the clocks, a row's depth counts every better
\* price and nothing worse, the forms announce what the contract will do with the
\* amount typed, parts of an order never cost more than the whole, and the max
\* buttons mean what they say for bonds without decimals.
THEOREM BookPage == Spec => []BookPageIsTrue
<1>1. IInv => LadderIsTheBook /\ DepthIsHonest /\ FormTellsTruth /\ OrderFormTellsTruth
  BY LadderHolds, DepthHolds, FormHolds, OrderFormHolds
<1>2. LadderIsTheBook /\ DepthIsHonest /\ FormTellsTruth /\ OrderFormTellsTruth
        /\ QuoteIsBest /\ MaxMeansMax => BookPageIsTrue
  BY DEF BookPageIsTrue
<1> QED
  BY <1>1, <1>2, Invariance, QuotesBest, MaxIsMeant, PTL

-----------------------------------------------------------------------------
(* One answer to GET /bonds/:id/orderbook.                                 *)

\* What has been read so far is of the book, though of many moments of it.
Watched ==
  /\ asOf \in 1 .. now /\ next \in {Unread} \cup 0 .. Len(orders)
  /\ next # Unread => DOMAIN rows \subseteq 1 .. next
  /\ \A id \in DOMAIN rows : rows[id] \in Order \cup {NoOrder}
  /\ steady \subseteq LiveRows /\ LiveRows \subseteq held
  /\ \A r \in held : r.order \in Order
  /\ \A id \in DOMAIN orders : Kept(orders[id]) => Row(id, orders[id]) \in held
  /\ \A id \in DOMAIN rows : Kept(rows[id]) => Row(id, rows[id]) \in held
  /\ \A r \in steady : r.id \in DOMAIN rows => rows[r.id] = r.order
  /\ next # Unread => \A r \in steady : r.id <= next
  /\ quote # Unread => \E L : steady \subseteq L /\ L \subseteq held /\ BestRows(quote, L)

AnswerInv ==
  /\ IInv /\ now >= 1
  /\ asOf = Unread => quote = Unread /\ next = Unread /\ steady \subseteq held
  /\ next = Unread => DOMAIN rows = {}
  /\ asOf # Unread => Watched

LEMMA Given ==
  /\ Unread \notin Nat /\ Unread \notin [bid : Nat, ask : Nat]
BY UnreadAssumption

LEMMA InitAnswerInv == ReadInit => AnswerInv
<1> SUFFICES ASSUME ReadInit PROVE AnswerInv
  OBVIOUS
<1>1. IInv
  BY InitIInv DEF ReadInit
<1>2. now = 1 /\ asOf = Unread /\ quote = Unread /\ next = Unread /\ DOMAIN rows = {}
      /\ steady \subseteq held
  BY DEF ReadInit, Init
<1> QED
  BY <1>1, <1>2 DEF AnswerInv

\* What the market does to an order while the API reads: it comes, goes, or is
\* left with less, and one that changed is one a fill could find.
LEMMA TradeMoves ==
  ASSUME IInv, Trade
  PROVE  /\ IInv' /\ now' >= now /\ Len(orders') >= Len(orders)
         /\ \A id \in DOMAIN orders' :
              \/ id \in DOMAIN orders /\ orders'[id] = orders[id]
              \/ orders'[id] = NoOrder
              \/ Live(orders[id])' /\ orders'[id] \in Order
<1>1. orders \in Seq(Order \cup {NoOrder}) /\ now \in Nat
  BY DEF IInv, TypeOK
<1>2. ASSUME NEW a \in Accounts, NEW o \in Offers, Place(a, o)
      PROVE  /\ IInv' /\ now' = now /\ Len(orders') >= Len(orders)
             /\ \A id \in DOMAIN orders' :
                  \/ id \in DOMAIN orders /\ orders'[id] = orders[id]
                  \/ Live(orders[id])' /\ orders'[id] \in Order
  <2>1. IInv'
    BY <1>2, PlaceIInv
  <2>2. o \in Order /\ o # NoOrder
    BY MarketAssumption, NoOrderAssumption DEF Offers, Order
  <2>3. orders' = Append(orders, o) /\ now' = now /\ (o.expiry = 0 \/ o.expiry > now)
    BY <1>2 DEF Place, Placeable
  <2>4. PICK n \in Nat : n = Len(orders) /\ DOMAIN orders = 1 .. n
    BY <1>1
  <2>5. /\ Len(orders') = n + 1 /\ DOMAIN orders' = 1 .. (n + 1)
        /\ orders'[n + 1] = o /\ \A id \in 1 .. n : orders'[id] = orders[id]
    BY <1>1, <2>2, <2>3, <2>4
  <2>6. \A id \in 1 .. (n + 1) : id \in 1 .. n \/ id = n + 1
    BY <2>4
  <2>7. Live(orders[n + 1])'
    BY <2>2, <2>3, <2>5 DEF Live
  <2> QED
    BY <2>1, <2>2, <2>3, <2>4, <2>5, <2>6, <2>7
<1>3. ASSUME NEW id \in DOMAIN orders, Cancel(id)
      PROVE  /\ IInv' /\ now' = now /\ Len(orders') = Len(orders)
             /\ \A i \in DOMAIN orders' :
                  \/ i \in DOMAIN orders /\ orders'[i] = orders[i]
                  \/ orders'[i] = NoOrder
  <2>1. IInv'
    BY <1>3, CancelIInv
  <2>2. orders' = [orders EXCEPT ![id] = NoOrder] /\ now' = now
    BY <1>3 DEF Cancel
  <2> QED
    BY <1>1, <2>1, <2>2
<1>4. ASSUME NEW a \in Accounts, NEW id \in DOMAIN orders, NEW n \in Amounts, Fill(a, id, n)
      PROVE  /\ IInv' /\ now' = now /\ Len(orders') = Len(orders)
             /\ \A i \in DOMAIN orders' :
                  \/ i \in DOMAIN orders /\ orders'[i] = orders[i]
                  \/ orders'[i] = NoOrder
                  \/ Live(orders[i])' /\ orders'[i] \in Order
  <2>1. IInv'
    BY <1>4, FillIInv
  <2>2. PICK r : r = RestOf(orders[id], n)
    OBVIOUS
  <2>3. /\ orders' = [orders EXCEPT ![id] = r] /\ now' = now /\ Live(orders[id])
    BY <1>4, <2>2 DEF Fill, Fillable, Seller, Buyer, Paid
  <2>4. /\ DOMAIN orders' = DOMAIN orders /\ Len(orders') = Len(orders) /\ orders'[id] = r
        /\ \A i \in DOMAIN orders : i # id => orders'[i] = orders[i]
    BY <1>1, <2>3
  <2>5. orders[id] \in Order
    BY <1>1, <2>3 DEF Live
  <2>6. r = NoOrder \/ r.expiry = orders[id].expiry
    BY <2>2, <2>5 DEF RestOf, Order
  <2>7. r \in Order \cup {NoOrder}
    BY <2>1, <2>4 DEF IInv, TypeOK
  <2>8. r = NoOrder \/ (Live(orders[id])' /\ r \in Order)
    BY <2>3, <2>4, <2>6, <2>7 DEF Live
  <2> QED
    BY <2>1, <2>3, <2>4, <2>8
<1>5. CASE Tick
  <2>1. IInv'
    BY <1>5, RulesIInv
  <2> QED
    BY <1>1, <1>5, <2>1 DEF Tick, bookVars
<1> QED
  BY <1>1, <1>2, <1>3, <1>4, <1>5 DEF Trade

LEMMA TradeAnswerInv ==
  ASSUME AnswerInv, Trade
  PROVE  AnswerInv'
<1>1. /\ IInv /\ now \in Nat /\ now >= 1
      /\ IInv' /\ now' >= now /\ Len(orders') >= Len(orders)
      /\ now' \in Nat /\ Len(orders) \in Nat /\ Len(orders') \in Nat
  <2>1. orders' \in Seq(Order \cup {NoOrder}) /\ now' \in Nat
    BY TradeMoves DEF AnswerInv, IInv, TypeOK
  <2> QED
    BY <2>1, TradeMoves DEF AnswerInv, IInv, TypeOK
<1>2. UNCHANGED <<asOf, quote, next, rows>>
  BY DEF Trade
<1>3. ASSUME asOf # Unread
      PROVE  Watched'
  <2>1. Watched
    BY <1>3 DEF AnswerInv
  <2>2. held' = held \cup LiveRows' /\ steady' = steady \cap LiveRows'
    BY <1>3 DEF Trade
  <2>3. \A id \in DOMAIN orders' :
          \/ id \in DOMAIN orders /\ orders'[id] = orders[id]
          \/ orders'[id] = NoOrder
          \/ Live(orders[id])' /\ orders'[id] \in Order
    BY <1>1, TradeMoves
  <2>4. /\ \A r \in LiveRows' : r.order \in Order
        /\ \A id \in DOMAIN orders' : Live(orders[id])' => Row(id, orders'[id]) \in LiveRows'
    <3>1. PICK book \in Seq(Order \cup {NoOrder}), t \in Nat : book = orders' /\ t = now'
      BY <1>1 DEF IInv, TypeOK
    <3>2. LiveRows' = RowsAt(book, t) /\ \A id : Live(orders[id])' <=> LiveAt(book[id], t)
      BY <3>1 DEF LiveRows, RowsAt, Live, LiveAt
    <3> QED
      BY <3>1, <3>2, RowsAtFacts
  <2>5. \A o : Kept(o)' <=> Kept(o)
    BY <1>2 DEF Kept
  <2>6. \A id \in DOMAIN orders' : Kept(orders[id])' => Row(id, orders'[id]) \in held'
    <3> SUFFICES ASSUME NEW id \in DOMAIN orders', Kept(orders[id])'
                 PROVE  Row(id, orders'[id]) \in held'
      OBVIOUS
    <3>1. orders'[id] # NoOrder
      BY DEF Kept
    <3>2. CASE id \in DOMAIN orders /\ orders'[id] = orders[id]
      BY <1>2, <2>1, <2>2, <3>2 DEF Watched, Kept
    <3>3. CASE Live(orders[id])'
      BY <2>2, <2>4, <3>3
    <3> QED
      BY <2>3, <3>1, <3>2, <3>3
  <2>7. \A id \in DOMAIN rows' : Kept(rows[id])' => Row(id, rows'[id]) \in held'
    BY <1>2, <2>1, <2>2 DEF Watched, Kept
  <2>8. asOf' \in 1 .. now' /\ next' \in {Unread} \cup 0 .. Len(orders')
    BY <1>1, <1>2, <2>1 DEF Watched
  <2>9. ASSUME quote' # Unread
        PROVE  \E L : steady' \subseteq L /\ L \subseteq held' /\ BestRows(quote', L)
    BY <1>2, <2>1, <2>2, <2>9 DEF Watched
  <2>10. /\ steady' \subseteq LiveRows' /\ LiveRows' \subseteq held'
         /\ \A r \in held' : r.order \in Order
    BY <2>1, <2>2, <2>4 DEF Watched
  <2>11. /\ next' # Unread => DOMAIN rows' \subseteq 1 .. next'
         /\ \A id \in DOMAIN rows' : rows'[id] \in Order \cup {NoOrder}
         /\ \A r \in steady' : r.id \in DOMAIN rows' => rows'[r.id] = r.order
         /\ next' # Unread => \A r \in steady' : r.id <= next'
    BY <1>2, <2>1, <2>2 DEF Watched
  <2> QED
    BY <2>6, <2>7, <2>8, <2>9, <2>10, <2>11 DEF Watched
<1>4. asOf = Unread => UNCHANGED <<held, steady>>
  BY DEF Trade, hist
<1> QED
  BY <1>1, <1>2, <1>3, <1>4 DEF AnswerInv

LEMMA SameMarket ==
  ASSUME IInv, UNCHANGED vars
  PROVE  IInv' /\ LiveRows' = LiveRows /\ now' = now /\ orders' = orders
<1>1. IInv'
  BY RulesIInv
<1> QED
  BY <1>1 DEF vars, bookVars, LiveRows, RowsOf, Live

LEMMA BeginAnswerInv ==
  ASSUME AnswerInv, Begin
  PROVE  AnswerInv'
<1>1. /\ IInv' /\ LiveRows' = LiveRows /\ now' = now /\ orders' = orders
      /\ now \in Nat /\ now >= 1
  <2>1. IInv /\ now \in Nat /\ now >= 1
    BY DEF AnswerInv, IInv, TypeOK
  <2> QED
    BY <2>1, SameMarket DEF Begin
<1>2. /\ asOf = Unread /\ quote = Unread /\ next = Unread /\ DOMAIN rows = {}
      /\ asOf' = now /\ UNCHANGED <<quote, next, rows>>
      /\ held' = LiveRows /\ steady' = LiveRows
  BY DEF Begin, AnswerInv
<1>3. /\ \A r \in LiveRows : r.order \in Order
      /\ \A id \in DOMAIN orders : Live(orders[id]) => Row(id, orders[id]) \in LiveRows
  BY RowFacts DEF AnswerInv
<1>4. \A id \in DOMAIN orders : Kept(orders[id])' <=> Live(orders[id])
  BY <1>1, <1>2 DEF Kept, Live
<1>5. Watched'
  BY <1>1, <1>2, <1>3, <1>4 DEF Watched
<1>6. asOf' # Unread
  BY <1>1, <1>2, Given
<1> QED
  BY <1>1, <1>2, <1>5, <1>6 DEF AnswerInv

LEMMA ReadQuoteAnswerInv ==
  ASSUME AnswerInv, ReadQuote
  PROVE  AnswerInv'
<1>1. IInv /\ IInv' /\ LiveRows' = LiveRows /\ now' = now /\ orders' = orders
  BY SameMarket DEF AnswerInv, ReadQuote
<1>2. /\ asOf # Unread /\ UNCHANGED <<asOf, next, rows, held, steady>>
      /\ quote' = Quote
  BY DEF ReadQuote, hist
<1>3. Watched
  BY <1>2 DEF AnswerInv
<1>4. BestRows(quote', LiveRows)
  <2>1. PICK q : q = Quote
    OBVIOUS
  <2> QED
    BY <1>1, <1>2, <2>1, QuoteOfRows
<1>5. \A o : Kept(o)' <=> Kept(o)
  BY <1>2 DEF Kept
<1>6. /\ \A id \in DOMAIN orders' : Kept(orders[id])' => Row(id, orders'[id]) \in held'
      /\ \A id \in DOMAIN rows' : Kept(rows[id])' => Row(id, rows'[id]) \in held'
  BY <1>1, <1>2, <1>3 DEF Watched, Kept
<1>7. \E L : steady' \subseteq L /\ L \subseteq held' /\ BestRows(quote', L)
  <2>1. steady' \subseteq LiveRows /\ LiveRows \subseteq held'
    BY <1>2, <1>3 DEF Watched
  <2> QED
    BY <1>4, <2>1
<1>8. Watched'
  BY <1>1, <1>2, <1>3, <1>6, <1>7 DEF Watched
<1> QED
  BY <1>1, <1>2, <1>8 DEF AnswerInv

LEMMA ReadNextAnswerInv ==
  ASSUME AnswerInv, ReadNext
  PROVE  AnswerInv'
<1>1. IInv /\ IInv' /\ LiveRows' = LiveRows /\ now' = now /\ orders' = orders
  BY SameMarket DEF AnswerInv, ReadNext
<1>2. /\ asOf # Unread /\ UNCHANGED <<asOf, quote, rows, held, steady>>
      /\ next = Unread /\ next' = Len(orders) /\ DOMAIN rows = {}
  BY DEF ReadNext, NextId, hist, AnswerInv
<1>3. Watched
  BY <1>2 DEF AnswerInv
<1>4. PICK n \in Nat : n = Len(orders) /\ DOMAIN orders = 1 .. n
  BY <1>1 DEF IInv, TypeOK
<1>5. n # Unread
  BY Given
<1>6. \A r \in steady : r.id <= n
  BY <1>1, <1>3, <1>4, RowFacts DEF Watched
<1>7. \A id \in DOMAIN orders' : Kept(orders[id])' => Row(id, orders'[id]) \in held'
  BY <1>1, <1>2, <1>3 DEF Watched, Kept
<1>8. Watched'
  BY <1>1, <1>2, <1>3, <1>4, <1>6, <1>7 DEF Watched
<1> QED
  BY <1>1, <1>2, <1>4, <1>5, <1>8 DEF AnswerInv

LEMMA ReadSlotAnswerInv ==
  ASSUME AnswerInv, ReadSlot
  PROVE  AnswerInv'
<1>1. IInv /\ IInv' /\ LiveRows' = LiveRows /\ now' = now /\ orders' = orders
  BY SameMarket DEF AnswerInv, ReadSlot
<1>2. next # Unread /\ UNCHANGED <<asOf, quote, next, held, steady>>
  BY DEF ReadSlot, hist
<1>3. asOf # Unread /\ Watched
  BY <1>2 DEF AnswerInv
<1>4. PICK id \in 1 .. next \ DOMAIN rows :
        rows' = [i \in DOMAIN rows \cup {id} |-> IF i = id THEN orders[id] ELSE rows[i]]
  BY DEF ReadSlot
<1>5. /\ DOMAIN rows' = DOMAIN rows \cup {id} /\ rows'[id] = orders[id]
      /\ \A i \in DOMAIN rows : rows'[i] = rows[i]
  BY <1>4
<1>6. id \in DOMAIN orders /\ orders[id] \in Order \cup {NoOrder}
  <2>1. orders \in Seq(Order \cup {NoOrder}) /\ Len(orders) \in Nat /\ DOMAIN orders = 1 .. Len(orders)
    BY <1>1 DEF IInv, TypeOK
  <2>2. next \in 0 .. Len(orders)
    BY <1>2, <1>3 DEF Watched
  <2>3. id \in DOMAIN orders
    BY <2>1, <2>2
  <2> QED
    BY <2>1, <2>3
<1>7. \A i \in DOMAIN orders' : Kept(orders[i])' => Row(i, orders'[i]) \in held'
  BY <1>1, <1>2, <1>3 DEF Watched, Kept
<1>8. \A i \in DOMAIN rows' : Kept(rows[i])' => Row(i, rows'[i]) \in held'
  <2> SUFFICES ASSUME NEW i \in DOMAIN rows', Kept(rows[i])'
               PROVE  Row(i, rows'[i]) \in held'
    OBVIOUS
  <2>1. CASE i = id
    BY <1>1, <1>2, <1>3, <1>5, <1>6, <2>1 DEF Watched, Kept
  <2>2. CASE i \in DOMAIN rows
    BY <1>2, <1>3, <1>5, <2>2 DEF Watched, Kept
  <2> QED
    BY <1>5, <2>1, <2>2
<1>9. \A r \in steady' : r.id \in DOMAIN rows' => rows'[r.id] = r.order
  BY <1>1, <1>2, <1>3, <1>5, RowFacts DEF Watched
<1>10. /\ DOMAIN rows' \subseteq 1 .. next'
       /\ \A i \in DOMAIN rows' : rows'[i] \in Order \cup {NoOrder}
  BY <1>2, <1>3, <1>5, <1>6 DEF Watched
<1>11. Watched'
  BY <1>1, <1>2, <1>3, <1>7, <1>8, <1>9, <1>10 DEF Watched
<1> QED
  BY <1>1, <1>2, <1>3, <1>11 DEF AnswerInv

LEMMA IdleAnswerInv ==
  ASSUME AnswerInv, UNCHANGED allVars
  PROVE  AnswerInv'
<1>1. IInv' /\ LiveRows' = LiveRows /\ now' = now /\ orders' = orders
  BY SameMarket DEF AnswerInv, allVars
<1>2. UNCHANGED <<asOf, quote, next, rows, held, steady>>
  BY DEF allVars, hist
<1>3. /\ \A id \in DOMAIN orders : Kept(orders[id])' <=> Kept(orders[id])
      /\ \A id \in DOMAIN rows : Kept(rows[id])' <=> Kept(rows[id])
  BY <1>1, <1>2 DEF Kept
<1>4. Watched => Watched'
  BY <1>1, <1>2, <1>3 DEF Watched
<1> QED
  BY <1>1, <1>2, <1>4 DEF AnswerInv

\* What the answer says in the end.
LEMMA AnswerInvImplies == AnswerInv => AnswerIsABook
<1> SUFFICES ASSUME AnswerInv PROVE AnswerIsABook
  OBVIOUS
<1>1. IInv /\ now \in Nat /\ Len(orders) \in Nat
  BY DEF AnswerInv, IInv, TypeOK
<1>2. ReadTypeOK
  <2>1. CASE asOf = Unread
    BY <2>1 DEF AnswerInv, ReadTypeOK
  <2>2. CASE asOf # Unread
    <3>1. Watched
      BY <2>2 DEF AnswerInv
    <3>2. DOMAIN rows \subseteq 1 .. Len(orders)
      BY <1>1, <3>1 DEF Watched, AnswerInv
    <3> QED
      BY <3>1, <3>2 DEF Watched, ReadTypeOK
  <2> QED
    BY <2>1, <2>2
<1>3. ASSUME AllRead
      PROVE  steady \subseteq Body /\ Body \subseteq held
  <2>1. Watched /\ next # Unread /\ quote # Unread /\ DOMAIN rows = 1 .. next
    BY <1>3 DEF AllRead, AnswerInv
  <2>2. next \in Nat /\ asOf \in Nat /\ asOf <= now
    BY <1>1, <2>1 DEF Watched
  <2>3. Body \subseteq held
    BY <2>1 DEF Watched, Body, RowsOf, Row
  <2>4. ASSUME NEW r \in steady
        PROVE  r \in Body
    <3>1. /\ r.id \in DOMAIN orders /\ r.order \in Order /\ Live(r.order)
          /\ r = Row(r.id, r.order)
      BY <1>1, <2>1, RowFacts DEF Watched
    <3>2. r.id \in DOMAIN rows /\ rows[r.id] = r.order
      <4>1. r.id \in Nat \ {0} /\ r.id <= next
        BY <1>1, <2>1, <3>1 DEF Watched, IInv, TypeOK
      <4> QED
        BY <2>1, <2>2, <4>1 DEF Watched
    <3>3. Kept(r.order)
      <4>1. r.order.expiry \in Nat
        BY <3>1 DEF Order
      <4> QED
        BY <1>1, <2>2, <3>1, <4>1 DEF Kept, Live
    <3>4. r \in RowsOf(rows)
      BY <3>1, <3>2 DEF RowsOf, Row
    <3> QED
      BY <3>3, <3>4 DEF Body
  <2> QED
    BY <2>3, <2>4
<1>4. ASSUME AllRead, held = steady
      PROVE  LET side(sell) == {r.order.price : r \in {x \in Body : x.order.isSell = sell}} IN
             /\ quote.bid = IF side(FALSE) = {} THEN 0 ELSE Max(side(FALSE))
             /\ quote.ask = IF side(TRUE) = {} THEN 0 ELSE Min(side(TRUE))
  <2>1. Watched /\ quote # Unread
    BY <1>4 DEF AllRead, AnswerInv
  <2>2. BestRows(quote, Body) /\ \A r \in Body : r.order \in Order
    <3>1. held = Body
      BY <1>3, <1>4
    <3>2. PICK L : steady \subseteq L /\ L \subseteq held /\ BestRows(quote, L)
      BY <2>1 DEF Watched
    <3>3. L = Body
      BY <1>4, <3>1, <3>2
    <3> QED
      BY <2>1, <3>1, <3>2, <3>3 DEF Watched
  <2>3. PICK L, q : L = Body /\ q = quote
    OBVIOUS
  <2>4. /\ q.bid = IF PricesOf(L, FALSE) = {} THEN 0 ELSE Max(PricesOf(L, FALSE))
        /\ q.ask = IF PricesOf(L, TRUE) = {} THEN 0 ELSE Min(PricesOf(L, TRUE))
    BY <2>2, <2>3, BestNamed
  <2> QED
    BY <2>3, <2>4 DEF PricesOf
<1> QED
  BY <1>2, <1>3, <1>4 DEF AnswerIsABook, AnswerIsRegular, QuietAnswerIsTheBook

\* An answer put together from reads at many moments is still a book, for any
\* market and any number of orders: it lists every order that stood unchanged
\* all the while and none that was not there, and if nothing moved, the prices
\* quoted are those of its rows.
THEOREM Answers == ReadSpec => []AnswerIsABook
<1>1. AnswerInv /\ [ReadStep]_allVars => AnswerInv'
  BY TradeAnswerInv, BeginAnswerInv, ReadQuoteAnswerInv, ReadNextAnswerInv, ReadSlotAnswerInv,
     IdleAnswerInv DEF ReadStep, ReadSome
<1> QED
  BY <1>1, InitAnswerInv, AnswerInvImplies, PTL DEF ReadSpec

-----------------------------------------------------------------------------
(* The desk: what is so of every click, its toast and its button. *)

Click == [kind : Kinds, amount : 0 .. Size, of : 0 .. MaxForms, at : Stages, fate : Fates, lost : BOOLEAN]

\* A toast of this state tells the truth about this click.
Tells(state, t) ==
  /\ state \in {"signing", "pending", "confirmed", "failed"}
  /\ state = "signing" => t.fate = "none" /\ t.at \in {"simulating", "signing"}
  /\ state = "pending" => t.fate # "none" /\ t.at = "waiting"
  /\ state = "confirmed" => t.fate = "success" /\ t.at \in {"refetching", "over"}
  /\ state = "failed" => t.at \in {"refetching", "over"} /\ (t.fate \in {"none", "reverted"} \/ t.lost)

Toasts ==
  /\ Cardinality(DOMAIN tray) <= Shown
  /\ \A id \in DOMAIN tray : Tells(tray[id], tx[id])
  /\ \A id \in timers : ~Running(id)
  /\ \A id \in DOMAIN tx : Running(id) =>
       id \in DOMAIN tray \/ id \in dismissed \/ id <= Len(tx) - Shown

ClickInv ==
  \A id \in DOMAIN tx :
    /\ tx[id].at \in {"simulating", "signing"} => tx[id].fate = "none"
    /\ tx[id].fate = "flying" => tx[id].at = "waiting" \/ tx[id].lost
    /\ tx[id].at = "refetching" => tx[id].kind = "approve"
    /\ tx[id].of <= Mount(tx[id].kind)

\* A click of this kind that is under way for this opening of the form.
Under(kind, id) ==
  tx[id].kind = kind /\ tx[id].at # "over" /\ tx[id].of = Mount(kind)

None(kind) == \A id \in DOMAIN tx : ~Under(kind, id)
One(kind) == \E id \in DOMAIN tx : \A k \in DOMAIN tx : Under(kind, k) <=> k = id
Matches(kind, busy) == (busy => One(kind)) /\ (~busy => None(kind))

Buttons ==
  /\ form.open => Matches("approve", "approve" \in form.busy) /\ Matches("fill", "fill" \in form.busy)
  /\ Matches("mint", confirm = "busy")

DeskInv == DeskTypeOK /\ ClickInv /\ Toasts /\ Buttons /\ NeverAsksAgain

-----------------------------------------------------------------------------
(* Steps of a click. *)

\* A step moves one click and no other.
Moves(id, at, fate, lost) ==
  /\ id \in DOMAIN tx
  /\ tx' \in Seq(Click) /\ Len(tx') = Len(tx) /\ DOMAIN tx' = DOMAIN tx
  /\ \A k \in DOMAIN tx : k # id => tx'[k] = tx[k]
  /\ tx'[id].kind = tx[id].kind /\ tx'[id].amount = tx[id].amount /\ tx'[id].of = tx[id].of
  /\ tx'[id].at = at /\ tx'[id].fate = fate /\ tx'[id].lost = lost

LEMMA MoveOne ==
  ASSUME tx \in Seq(Click), NEW id \in DOMAIN tx, NEW r \in Click, tx' = [tx EXCEPT ![id] = r],
         r.kind = tx[id].kind, r.amount = tx[id].amount, r.of = tx[id].of
  PROVE  Moves(id, r.at, r.fate, r.lost)
<1>1. PICK n \in Nat : n = Len(tx) /\ DOMAIN tx = 1 .. n
  OBVIOUS
<1>2. tx \in [1 .. n -> Click]
  BY <1>1
<1>3. tx' \in [1 .. n -> Click]
  BY <1>1, <1>2
<1>4. tx' \in Seq(Click) /\ Len(tx') = n /\ DOMAIN tx' = 1 .. n
  BY <1>3
<1>5. tx'[id] = r /\ \A k \in DOMAIN tx : k # id => tx'[k] = tx[k]
  BY <1>1, <1>2
<1> QED
  BY <1>1, <1>4, <1>5 DEF Moves

LEMMA ClickTyped ==
  ASSUME DeskTypeOK
  PROVE  /\ tx \in Seq(Click)
         /\ \A id \in DOMAIN tx : tx[id] \in Click
<1>1. tx \in Seq(Click)
  BY DEF DeskTypeOK, Click
<1> QED
  BY <1>1

LEMMA SimulateMoves ==
  ASSUME DeskTypeOK, NEW id \in DOMAIN tx, Simulate(id)
  PROVE  Moves(id, "signing", tx[id].fate, tx[id].lost) /\ tx[id].at = "simulating"
<1> DEFINE r == [tx[id] EXCEPT !.at = "signing"]
<1>1. tx \in Seq(Click) /\ tx[id] \in Click
  BY ClickTyped
<1>2. /\ r \in Click /\ r.at = "signing" /\ r.fate = tx[id].fate /\ r.lost = tx[id].lost
      /\ r.kind = tx[id].kind /\ r.amount = tx[id].amount /\ r.of = tx[id].of
  BY <1>1 DEF Click, Stages
<1>3. tx' = [tx EXCEPT ![id] = r] /\ tx[id].at = "simulating"
  BY DEF Simulate
<1> HIDE DEF r
<1>4. Moves(id, r.at, r.fate, r.lost)
  BY <1>1, <1>2, <1>3, MoveOne
<1> QED
  BY <1>2, <1>3, <1>4

LEMMA SignMoves ==
  ASSUME DeskTypeOK, NEW id \in DOMAIN tx, Sign(id)
  PROVE  Moves(id, "waiting", "flying", tx[id].lost) /\ tx[id].at = "signing"
<1> DEFINE r == [tx[id] EXCEPT !.at = "waiting", !.fate = "flying"]
<1>1. tx \in Seq(Click) /\ tx[id] \in Click
  BY ClickTyped
<1>2. /\ r \in Click /\ r.at = "waiting" /\ r.fate = "flying" /\ r.lost = tx[id].lost
      /\ r.kind = tx[id].kind /\ r.amount = tx[id].amount /\ r.of = tx[id].of
  BY <1>1 DEF Click, Stages, Fates
<1>3. tx' = [tx EXCEPT ![id] = r] /\ tx[id].at = "signing"
  BY DEF Sign
<1> HIDE DEF r
<1>4. Moves(id, r.at, r.fate, r.lost)
  BY <1>1, <1>2, <1>3, MoveOne
<1> QED
  BY <1>2, <1>3, <1>4

LEMMA LandMoves ==
  ASSUME DeskTypeOK, NEW id \in DOMAIN tx, Land(id)
  PROVE  /\ Moves(id, tx[id].at, IF Runs(tx[id]) THEN "success" ELSE "reverted", tx[id].lost)
         /\ tx[id].fate = "flying"
<1> DEFINE r == [tx[id] EXCEPT !.fate = IF Runs(tx[id]) THEN "success" ELSE "reverted"]
<1>1. tx \in Seq(Click) /\ tx[id] \in Click
  BY ClickTyped
<1>2. /\ r \in Click /\ r.at = tx[id].at /\ r.lost = tx[id].lost
      /\ r.fate = IF Runs(tx[id]) THEN "success" ELSE "reverted"
      /\ r.kind = tx[id].kind /\ r.amount = tx[id].amount /\ r.of = tx[id].of
  BY <1>1 DEF Click, Fates
<1>3. tx' = [tx EXCEPT ![id] = r] /\ tx[id].fate = "flying"
  BY DEF Land
<1> HIDE DEF r
<1>4. Moves(id, r.at, r.fate, r.lost)
  BY <1>1, <1>2, <1>3, MoveOne
<1> QED
  BY <1>2, <1>3, <1>4

\* Where a call that returns leaves its click.
LEMMA ReturnsMoves ==
  ASSUME DeskTypeOK, NEW id \in DOMAIN tx, NEW t \in Click, NEW success, Returns(id, t, success),
         t.kind = tx[id].kind, t.amount = tx[id].amount, t.of = tx[id].of
  PROVE  /\ Moves(id, AfterCall(tx[id].kind), t.fate, t.lost)
         /\ AfterCall(tx[id].kind) = IF tx[id].kind = "approve" THEN "refetching" ELSE "over"
         /\ form' = IF tx[id].kind = "fill" THEN Freed(id, success) ELSE form
         /\ confirm' = IF tx[id].kind = "mint" THEN "idle" ELSE confirm
<1> DEFINE r == [t EXCEPT !.at = AfterCall(t.kind)]
<1>1. tx \in Seq(Click) /\ tx[id] \in Click
  BY ClickTyped
<1>2. AfterCall(t.kind) = IF t.kind = "approve" THEN "refetching" ELSE "over"
  BY DEF AfterCall
<1>3. /\ r \in Click /\ r.at = AfterCall(t.kind) /\ r.fate = t.fate /\ r.lost = t.lost
      /\ r.kind = tx[id].kind /\ r.amount = tx[id].amount /\ r.of = tx[id].of
  BY <1>1, <1>2 DEF Click, Stages
<1>4. tx' = [tx EXCEPT ![id] = r]
  BY DEF Returns
<1> HIDE DEF r
<1>5. Moves(id, r.at, r.fate, r.lost)
  BY <1>1, <1>3, <1>4, MoveOne
<1>6. tx[id].kind \in {"approve", "fill", "mint"}
  BY <1>1 DEF Click, Kinds, FormButtons
<1>7. /\ form' = IF AfterCall(t.kind) = "over" /\ t.kind # "mint" THEN Freed(id, success) ELSE form
      /\ confirm' = IF t.kind = "mint" THEN "idle" ELSE confirm
  BY DEF Returns
<1> QED
  BY <1>2, <1>3, <1>5, <1>6, <1>7

LEMMA RefetchedMoves ==
  ASSUME DeskTypeOK, NEW id \in DOMAIN tx, Refetched(id)
  PROVE  /\ tx[id].at = "refetching"
         /\ \/ /\ seen' = [seen EXCEPT !.allow = market.allow]
               /\ Moves(id, "over", tx[id].fate, tx[id].lost)
            \/ seen' = seen /\ Moves(id, "over", tx[id].fate, TRUE)
<1>1. tx \in Seq(Click) /\ tx[id] \in Click /\ tx[id].at = "refetching"
  BY ClickTyped DEF Refetched
<1>2. CASE seen' = [seen EXCEPT !.allow = market.allow] /\ tx' = [tx EXCEPT ![id].at = "over"]
  <2> DEFINE r == [tx[id] EXCEPT !.at = "over"]
  <2>1. /\ r \in Click /\ r.at = "over" /\ r.fate = tx[id].fate /\ r.lost = tx[id].lost
        /\ r.kind = tx[id].kind /\ r.amount = tx[id].amount /\ r.of = tx[id].of
    BY <1>1 DEF Click, Stages
  <2>2. tx' = [tx EXCEPT ![id] = r]
    BY <1>2
  <2> HIDE DEF r
  <2>3. Moves(id, r.at, r.fate, r.lost)
    BY <1>1, <2>1, <2>2, MoveOne
  <2> QED
    BY <1>1, <1>2, <2>1, <2>3
<1>3. CASE seen' = seen /\ tx' = [tx EXCEPT ![id].at = "over", ![id].lost = TRUE]
  <2> DEFINE r == [tx[id] EXCEPT !.at = "over", !.lost = TRUE]
  <2>1. /\ r \in Click /\ r.at = "over" /\ r.fate = tx[id].fate /\ r.lost = TRUE
        /\ r.kind = tx[id].kind /\ r.amount = tx[id].amount /\ r.of = tx[id].of
    BY <1>1 DEF Click, Stages
  <2>2. tx' = [tx EXCEPT ![id] = r]
    BY <1>3
  <2> HIDE DEF r
  <2>3. Moves(id, r.at, r.fate, r.lost)
    BY <1>1, <2>1, <2>2, MoveOne
  <2> QED
    BY <1>1, <1>3, <2>1, <2>3
<1> QED
  BY <1>1, <1>2, <1>3 DEF Refetched

LEMMA MountTyped ==
  ASSUME DeskTypeOK, NEW kind \in Kinds
  PROVE  Mount(kind) \in 0 .. MaxForms /\ Mount(kind) \in Nat /\ MaxForms \in Nat
BY TxAssumption DEF DeskTypeOK, Form, Mount, Kinds

\* A new click is appended.
LEMMA StartedFacts ==
  ASSUME DeskTypeOK, NEW kind \in Kinds, NEW n \in 0 .. Size, Started(kind, n)
  PROVE  /\ tx' \in Seq(Click) /\ Len(tx') = Len(tx) + 1 /\ DOMAIN tx' = DOMAIN tx \cup {Len(tx) + 1}
         /\ Len(tx) \in Nat /\ DOMAIN tx = 1 .. Len(tx)
         /\ \A k \in DOMAIN tx : tx'[k] = tx[k]
         /\ tx'[Len(tx) + 1] = [kind |-> kind, amount |-> n, of |-> Mount(kind), at |-> "simulating",
                                fate |-> "none", lost |-> FALSE]
<1>1. PICK r : r = [kind |-> kind, amount |-> n, of |-> Mount(kind), at |-> "simulating",
                    fate |-> "none", lost |-> FALSE]
  OBVIOUS
<1>2. r \in Click
  BY <1>1, MountTyped DEF Click, Stages, Fates
<1>3. tx \in Seq(Click) /\ tx' = Append(tx, r)
  BY <1>1, ClickTyped DEF Started
<1>4. PICK m \in Nat : m = Len(tx) /\ DOMAIN tx = 1 .. m
  BY <1>3
<1>5. tx' \in Seq(Click) /\ Len(tx') = m + 1
  BY <1>2, <1>3, <1>4
<1>6. DOMAIN tx' = 1 .. (m + 1)
  BY <1>5
<1>7. tx'[m + 1] = r /\ \A k \in DOMAIN tx : tx'[k] = tx[k]
  BY <1>2, <1>3, <1>4
<1> QED
  BY <1>1, <1>4, <1>5, <1>6, <1>7

-----------------------------------------------------------------------------
(* Clicks and types. *)

LEMMA InitDesk == DeskInit => DeskInv
<1> SUFFICES ASSUME DeskInit PROVE DeskInv
  OBVIOUS
<1>1. tx = <<>> /\ DOMAIN tx = {} /\ DOMAIN tray = {} /\ timers = {} /\ dismissed = {}
  BY DEF DeskInit
<1>2. DeskTypeOK
  BY <1>1, TxAssumption DEF DeskInit, DeskTypeOK, Form
<1>3. Cardinality(DOMAIN tray) = 0
  BY <1>1, FS_EmptySet
<1>4. Toasts
  BY <1>1, <1>3, TxAssumption DEF Toasts
<1>5. Buttons
  BY <1>1 DEF DeskInit, Buttons, Matches, None
<1>6. NeverAsksAgain
  BY DEF DeskInit, NeverAsksAgain
<1> QED
  BY <1>1, <1>2, <1>4, <1>5, <1>6 DEF DeskInv, ClickInv

\* A step of one click keeps the others' invariant.
LEMMA MovesClicks ==
  ASSUME DeskTypeOK, ClickInv, NEW id, NEW at, NEW fate, NEW lost, Moves(id, at, fate, lost),
         form'.mount = form.mount,
         at \in {"simulating", "signing"} => fate = "none",
         fate = "flying" => at = "waiting" \/ lost,
         at = "refetching" => tx[id].kind = "approve"
  PROVE  ClickInv'
<1> SUFFICES ASSUME NEW k \in DOMAIN tx'
             PROVE  /\ tx'[k].at \in {"simulating", "signing"} => tx'[k].fate = "none"
                    /\ tx'[k].fate = "flying" => tx'[k].at = "waiting" \/ tx'[k].lost
                    /\ tx'[k].at = "refetching" => tx'[k].kind = "approve"
                    /\ (tx[k].of <= Mount(tx[k].kind))'
  BY DEF ClickInv
<1>1. CASE k = id
  BY <1>1 DEF ClickInv, Moves, Mount
<1>2. CASE k # id
  BY <1>2 DEF ClickInv, Moves, Mount
<1> QED
  BY <1>1, <1>2

LEMMA FreedTyped ==
  ASSUME DeskTypeOK, NEW id, NEW success
  PROVE  Freed(id, success) \in Form /\ Freed(id, success).mount = form.mount
BY DEF DeskTypeOK, Form, Freed

LEMMA MoveTyped ==
  ASSUME DeskTypeOK, NEW id, NEW at, NEW fate, NEW lost, Moves(id, at, fate, lost),
         market' = market, seen' = seen,
         form' \in Form,
         confirm' \in {"idle", "armed", "busy"},
         DOMAIN tray' \subseteq DOMAIN tray, timers' \subseteq timers \cup {id}, dismissed' = dismissed
  PROVE  DeskTypeOK'
<1>1. tx' \in Seq(Click) /\ DOMAIN tx' = DOMAIN tx /\ id \in DOMAIN tx
  BY DEF Moves
<1>2. DOMAIN tray' \cup timers' \cup dismissed' \subseteq DOMAIN tx'
  BY <1>1 DEF DeskTypeOK
<1> QED
  BY <1>1, <1>2 DEF DeskTypeOK, Click, Form

-----------------------------------------------------------------------------
(* Toasts. *)

\* A step that leaves the tray alone may move a click if its toast stays true.
LEMMA ToastsStay ==
  ASSUME DeskTypeOK, Toasts, NEW id, NEW at, NEW fate, NEW lost, Moves(id, at, fate, lost),
         \A state : Tells(state, tx[id]) => Tells(state, tx'[id]),
         Running(id)' <=> Running(id),
         UNCHANGED <<tray, timers, dismissed>>
  PROVE  Toasts'
<1>1. DOMAIN tx' = DOMAIN tx /\ Len(tx') = Len(tx) /\ \A k \in DOMAIN tx : k # id => tx'[k] = tx[k]
  BY DEF Moves
<1>2. \A k \in DOMAIN tx : Running(k)' <=> Running(k)
  BY <1>1 DEF Running
<1>3. \A k \in DOMAIN tray : Tells(tray[k], tx'[k])
  <2> SUFFICES ASSUME NEW k \in DOMAIN tray PROVE Tells(tray[k], tx'[k])
    OBVIOUS
  <2>1. k \in DOMAIN tx /\ Tells(tray[k], tx[k])
    BY DEF DeskTypeOK, Toasts
  <2> QED
    BY <1>1, <2>1
<1>4. timers \subseteq DOMAIN tx
  BY DEF DeskTypeOK
<1> QED
  BY <1>1, <1>2, <1>3, <1>4 DEF Toasts

\* A toast that is updated tells the truth, and no other changes.
LEMMA ToastsUpdate ==
  ASSUME DeskTypeOK, Toasts, NEW id, NEW at, NEW fate, NEW lost, Moves(id, at, fate, lost),
         NEW state, Update(id, state), Tells(state, tx'[id]), Running(id), dismissed' = dismissed
  PROVE  Toasts' /\ DOMAIN tray' = DOMAIN tray /\ timers' \subseteq timers \cup {id}
<1>1. /\ DOMAIN tx' = DOMAIN tx /\ Len(tx') = Len(tx) /\ id \in DOMAIN tx
      /\ \A k \in DOMAIN tx : k # id => tx'[k] = tx[k]
  BY DEF Moves
<1>2. \A k \in DOMAIN tx : k # id => (Running(k)' <=> Running(k))
  BY <1>1 DEF Running
<1>3. /\ DOMAIN tray' = DOMAIN tray
      /\ \A k \in DOMAIN tray : tray'[k] = IF k = id THEN state ELSE tray[k]
  BY DEF Update, Shows
<1>4. \A k \in DOMAIN tray' : Tells(tray'[k], tx'[k])
  <2> SUFFICES ASSUME NEW k \in DOMAIN tray PROVE Tells(tray'[k], tx'[k])
    BY <1>3
  <2>1. k \in DOMAIN tx /\ Tells(tray[k], tx[k])
    BY DEF DeskTypeOK, Toasts
  <2>2. CASE k = id
    BY <1>3, <2>2
  <2>3. CASE k # id
    BY <1>1, <1>3, <2>1, <2>3
  <2> QED
    BY <2>2, <2>3
<1>5. timers' \subseteq timers \cup {id} /\ (state # "confirmed" => timers' = timers)
  BY DEF Update
<1>6. \A k \in timers' : ~Running(k)'
  <2> SUFFICES ASSUME NEW k \in timers' PROVE ~Running(k)'
    OBVIOUS
  <2>1. CASE k = id
    <3>1. id \notin timers
      BY DEF Toasts
    <3>2. state = "confirmed"
      BY <1>5, <2>1, <3>1
    <3> QED
      BY <2>1, <3>2 DEF Tells, Running
  <2>2. CASE k # id
    <3>1. k \in timers /\ k \in DOMAIN tx
      BY <1>5, <2>2 DEF DeskTypeOK
    <3> QED
      BY <1>2, <2>2, <3>1 DEF Toasts
  <2> QED
    BY <2>1, <2>2
<1>7. ASSUME NEW k \in DOMAIN tx, Running(k)'
      PROVE  k \in DOMAIN tray \/ k \in dismissed \/ k <= Len(tx) - Shown
  BY <1>2, <1>7 DEF Toasts
<1> QED
  BY <1>1, <1>3, <1>4, <1>5, <1>6, <1>7 DEF Toasts

\* What a new toast pushes out is older than the newest Shown.
LEMMA SlicedIs ==
  ASSUME NEW n \in Nat, NEW S \in SUBSET (1 .. n), Cardinality(S) <= Shown
  PROVE  /\ Sliced(S \cup {n + 1}) \subseteq S \cup {n + 1}
         /\ Cardinality(Sliced(S \cup {n + 1})) <= Shown
         /\ \A k \in S \cup {n + 1} : k \in Sliced(S \cup {n + 1}) \/ k <= n + 1 - Shown
<1>0. PICK D : D = S \cup {n + 1}
  OBVIOUS
<1>1. D \subseteq 1 .. (n + 1) /\ D # {}
  BY <1>0
<1>2. IsFiniteSet(S) /\ Cardinality(S) \in Nat
  <2>1. IsFiniteSet(1 .. n)
    BY FS_Interval
  <2> QED
    BY <2>1, FS_Subset, FS_CardinalityType
<1>3. IsFiniteSet(D) /\ Cardinality(D) \in Nat /\ Cardinality(D) = Cardinality(S) + 1
  <2>1. n + 1 \notin S
    OBVIOUS
  <2> QED
    BY <1>0, <1>2, <2>1, FS_AddElement, FS_CardinalityType
<1>4. Shown \in Nat \ {0}
  BY TxAssumption
<1>5. CASE Cardinality(D) > Shown
  <2>1. PICK m \in Nat : m \in D /\ \A k \in D : m <= k
    <3>1. D \subseteq Nat
      BY <1>1
    <3>2. PICK m \in D : \A k \in D : m <= k
      BY <1>1, <3>1, LeastNumber
    <3> QED
      BY <3>1, <3>2
  <2>2. Min(D) = m
    <3>1. D \subseteq Int
      BY <1>1
    <3> QED
      BY <2>1, <3>1, LeastIs
  <2>3. Sliced(D) = D \ {m}
    BY <1>5, <2>2 DEF Sliced
  <2>4. Cardinality(D \ {m}) = Cardinality(D) - 1
    BY <1>3, <2>1, FS_RemoveElement
  <2>5. D \subseteq m .. (n + 1)
    BY <1>1, <2>1
  <2>6. IsFiniteSet(m .. (n + 1)) /\ Cardinality(m .. (n + 1)) = n + 1 - m + 1
    <3>1. m <= n + 1 /\ m \in Int /\ n + 1 \in Int
      BY <1>1, <2>1
    <3> QED
      BY <3>1, FS_Interval
  <2>7. Cardinality(D) <= n + 1 - m + 1
    BY <2>5, <2>6, FS_Subset
  <2>8. m <= n + 1 - Shown
    BY <1>3, <1>4, <1>5, <2>7
  <2>9. Cardinality(D) - 1 <= Shown
    <3>1. PICK c \in Int : c = Cardinality(S) /\ Cardinality(D) = c + 1
      BY <1>2, <1>3
    <3> QED
      BY <3>1
  <2>10. \A k \in D : k \in D \ {m} \/ k <= n + 1 - Shown
    BY <2>8
  <2> QED
    BY <1>0, <2>3, <2>4, <2>9, <2>10
<1>6. CASE ~(Cardinality(D) > Shown)
  <2>1. Sliced(D) = D
    BY <1>6 DEF Sliced
  <2>2. Cardinality(D) <= Shown
    BY <1>3, <1>4, <1>6
  <2> QED
    BY <1>0, <2>1, <2>2
<1> QED
  BY <1>5, <1>6

\* A new click shows its toast.
LEMMA ToastsPush ==
  ASSUME DeskTypeOK, Toasts, NEW kind \in Kinds, NEW n \in 0 .. Size, Started(kind, n)
  PROVE  Toasts' /\ DOMAIN tray' \subseteq DOMAIN tx'
<1>1. PICK m \in Nat : /\ m = Len(tx) /\ DOMAIN tx = 1 .. m /\ Len(tx') = m + 1
                       /\ DOMAIN tx' = DOMAIN tx \cup {m + 1}
                       /\ \A k \in DOMAIN tx : tx'[k] = tx[k]
                       /\ tx'[m + 1].at = "simulating" /\ tx'[m + 1].fate = "none"
  <2>1. /\ Len(tx') = Len(tx) + 1 /\ DOMAIN tx' = DOMAIN tx \cup {Len(tx) + 1}
        /\ Len(tx) \in Nat /\ DOMAIN tx = 1 .. Len(tx)
        /\ \A k \in DOMAIN tx : tx'[k] = tx[k]
        /\ tx'[Len(tx) + 1] = [kind |-> kind, amount |-> n, of |-> Mount(kind), at |-> "simulating",
                               fate |-> "none", lost |-> FALSE]
    BY StartedFacts
  <2>2. tx'[Len(tx) + 1].at = "simulating" /\ tx'[Len(tx) + 1].fate = "none"
    BY <2>1
  <2>3. PICK m \in Nat : m = Len(tx)
    BY <2>1
  <2>4. /\ DOMAIN tx = 1 .. m /\ Len(tx') = m + 1 /\ DOMAIN tx' = DOMAIN tx \cup {m + 1}
        /\ tx'[m + 1].at = "simulating" /\ tx'[m + 1].fate = "none"
    BY <2>1, <2>2, <2>3
  <2> QED
    BY <2>1, <2>3, <2>4
<1>2. PICK S : S = DOMAIN tray /\ S \subseteq 1 .. m /\ Cardinality(S) <= Shown
  BY <1>1 DEF DeskTypeOK, Toasts
<1>3. PICK R : R = Sliced(S \cup {m + 1})
  OBVIOUS
<1>4. /\ R \subseteq S \cup {m + 1} /\ Cardinality(R) <= Shown
      /\ \A k \in S \cup {m + 1} : k \in R \/ k <= m + 1 - Shown
  BY <1>2, <1>3, SlicedIs
<1>5. /\ tray' = [k \in R |-> IF k = m + 1 THEN "signing" ELSE tray[k]]
      /\ timers' = timers /\ dismissed' = dismissed
  BY <1>1, <1>2, <1>3 DEF Started, Push
<1>6. DOMAIN tray' = R /\ \A k \in R : tray'[k] = IF k = m + 1 THEN "signing" ELSE tray[k]
  BY <1>5
<1>7. \A k \in R : Tells(tray'[k], tx'[k])
  <2> SUFFICES ASSUME NEW k \in R PROVE Tells(tray'[k], tx'[k])
    OBVIOUS
  <2>1. CASE k = m + 1
    BY <1>1, <1>6, <2>1 DEF Tells
  <2>2. CASE k # m + 1
    <3>1. k \in DOMAIN tray /\ k \in DOMAIN tx
      BY <1>1, <1>2, <1>4, <2>2
    <3>2. Tells(tray[k], tx[k])
      BY <3>1 DEF Toasts
    <3> QED
      BY <1>1, <1>6, <2>2, <3>1, <3>2
  <2> QED
    BY <2>1, <2>2
<1>8. \A k \in DOMAIN tx : Running(k)' <=> Running(k)
  BY <1>1 DEF Running
<1>9. \A k \in timers : ~Running(k)'
  BY <1>8 DEF DeskTypeOK, Toasts
<1>10. Shown \in Nat \ {0}
  BY TxAssumption
<1>11. ASSUME NEW k \in DOMAIN tx', Running(k)'
       PROVE  k \in R \/ k \in dismissed \/ k <= m + 1 - Shown
  <2>1. CASE k = m + 1
    BY <1>4, <2>1
  <2>2. CASE k \in DOMAIN tx
    <3>1. k \in S \/ k \in dismissed \/ k <= m - Shown
      BY <1>1, <1>2, <1>8, <1>11, <2>2 DEF Toasts
    <3>2. k \in Nat
      BY <1>1, <2>2
    <3> QED
      BY <1>4, <1>10, <3>1, <3>2
  <2> QED
    BY <1>1, <2>1, <2>2
<1>12. R \subseteq DOMAIN tx'
  BY <1>1, <1>2, <1>4
<1>13. Cardinality(DOMAIN tray') <= Shown /\ \A k \in DOMAIN tray' : Tells(tray'[k], tx'[k])
  BY <1>4, <1>6, <1>7
<1>14. \A k \in timers' : ~Running(k)'
  BY <1>5, <1>9
<1>15. \A k \in DOMAIN tx' : Running(k)' =>
         k \in DOMAIN tray' \/ k \in dismissed' \/ k <= Len(tx') - Shown
  <2> SUFFICES ASSUME NEW k \in DOMAIN tx', Running(k)'
               PROVE  k \in DOMAIN tray' \/ k \in dismissed' \/ k <= Len(tx') - Shown
    OBVIOUS
  <2>1. k \in R \/ k \in dismissed \/ k <= m + 1 - Shown
    BY <1>11
  <2>2. Len(tx') = m + 1
    BY <1>1
  <2>3. dismissed' = dismissed
    BY <1>5
  <2>4. DOMAIN tray' = R
    BY <1>6
  <2>5. k <= m + 1 - Shown => k <= Len(tx') - Shown
    BY <1>10, <2>2
  <2>6. k \in R => k \in DOMAIN tray'
    BY <2>4
  <2>7. k \in dismissed => k \in dismissed'
    BY <2>3
  <2> QED
    BY <2>1, <2>5, <2>6, <2>7
<1>16. DOMAIN tray' \subseteq DOMAIN tx'
  BY <1>6, <1>12
<1> QED
  BY <1>13, <1>14, <1>15, <1>16 DEF Toasts

\* A toast that goes is dismissed, or was confirmed.
LEMMA ToastsGo ==
  ASSUME DeskInv, NEW id, Expire(id) \/ Dismiss(id)
  PROVE  DeskInv'
<1>1. /\ tray' = Restrict(tray, DOMAIN tray \ {id})
      /\ UNCHANGED <<market, seen, form, confirm, tx>>
      /\ timers' \subseteq timers
      /\ \/ dismissed' = dismissed /\ id \in timers
         \/ dismissed' = dismissed \cup {id} /\ id \in DOMAIN tray
  BY DEF Expire, Dismiss, Without
<1>2. /\ DOMAIN tray' = DOMAIN tray \ {id}
      /\ \A k \in DOMAIN tray' : tray'[k] = tray[k]
  BY <1>1 DEF Restrict
<1>3. Cardinality(DOMAIN tray') <= Shown
  <2>1. IsFiniteSet(DOMAIN tray)
    <3>1. PICK n \in Nat : DOMAIN tx = 1 .. n
      BY ClickTyped DEF DeskInv
    <3>2. IsFiniteSet(1 .. n)
      BY FS_Interval
    <3> QED
      BY <3>1, <3>2, FS_Subset DEF DeskInv, DeskTypeOK
  <2>2. /\ Cardinality(DOMAIN tray') <= Cardinality(DOMAIN tray)
        /\ Cardinality(DOMAIN tray') \in Nat /\ Cardinality(DOMAIN tray) \in Nat
    <3>1. DOMAIN tray' \subseteq DOMAIN tray
      BY <1>2
    <3> QED
      BY <2>1, <3>1, FS_Subset, FS_CardinalityType
  <2> QED
    BY <2>2, TxAssumption DEF DeskInv, Toasts
<1>4. \A k : Running(k)' <=> Running(k)
  BY <1>1 DEF Running
<1>5. Toasts'
  <2>1. \A k \in DOMAIN tray' : Tells(tray'[k], tx'[k])
    BY <1>1, <1>2 DEF DeskInv, Toasts
  <2>2. \A k \in timers' : ~Running(k)'
    BY <1>1, <1>4 DEF DeskInv, Toasts
  <2>3. ASSUME NEW k \in DOMAIN tx, Running(k)
        PROVE  k \in DOMAIN tray' \/ k \in dismissed' \/ k <= Len(tx) - Shown
    BY <1>1, <1>2, <2>3 DEF DeskInv, Toasts
  <2> QED
    BY <1>1, <1>3, <1>4, <2>1, <2>2, <2>3 DEF Toasts
<1>6. DeskTypeOK'
  BY <1>1, <1>2 DEF DeskInv, DeskTypeOK
<1>7. ClickInv' /\ NeverAsksAgain'
  BY <1>1 DEF DeskInv, ClickInv, NeverAsksAgain, Mount
<1>8. Buttons'
  BY <1>1 DEF DeskInv, Buttons, Matches, None, One, Under, Mount
<1> QED
  BY <1>5, <1>6, <1>7, <1>8 DEF DeskInv

-----------------------------------------------------------------------------
(* Buttons. *)

\* A click that moves on, and is not over, stays under way.
LEMMA ButtonsStay ==
  ASSUME DeskTypeOK, Buttons, NEW id, NEW at, NEW fate, NEW lost, Moves(id, at, fate, lost),
         at = "over" <=> tx[id].at = "over", form' = form, confirm' = confirm
  PROVE  Buttons'
<1>1. DOMAIN tx' = DOMAIN tx
  BY DEF Moves
<1>2. ASSUME NEW kind, NEW k \in DOMAIN tx
      PROVE  Under(kind, k)' <=> Under(kind, k)
  <2>1. CASE k = id
    BY <2>1 DEF Moves, Under, Mount
  <2>2. CASE k # id
    BY <2>2 DEF Moves, Under, Mount
  <2> QED
    BY <2>1, <2>2
<1>3. ASSUME NEW kind, NEW busy, Matches(kind, busy)
      PROVE  Matches(kind, busy)'
  BY <1>1, <1>2, <1>3 DEF Matches, None, One
<1> QED
  BY <1>3 DEF Buttons

\* A click that ends frees the button of its kind, and no other.
LEMMA EndsOne ==
  ASSUME NEW id, NEW at, NEW fate, NEW lost, Moves(id, at, fate, lost), at = "over",
         form'.mount = form.mount, NEW own, own = tx[id].kind
  PROVE  /\ \A kind, busy : kind # own /\ Matches(kind, busy) => Matches(kind, busy)'
         /\ \A busy : Under(own, id) /\ Matches(own, busy) => Matches(own, FALSE)'
         /\ \A kind, busy : ~Under(kind, id) /\ Matches(kind, busy) => Matches(kind, busy)'
<1>1. DOMAIN tx' = DOMAIN tx /\ id \in DOMAIN tx
  BY DEF Moves
<1>2. ASSUME NEW kind, NEW k \in DOMAIN tx, k # id
      PROVE  Under(kind, k)' <=> Under(kind, k)
  BY <1>2 DEF Moves, Under, Mount
<1>3. ASSUME NEW kind
      PROVE  ~Under(kind, id)'
  BY DEF Moves, Under
<1>4. ASSUME NEW kind, NEW busy, ~Under(kind, id), Matches(kind, busy)
      PROVE  Matches(kind, busy)'
  <2>1. \A k \in DOMAIN tx : Under(kind, k)' <=> Under(kind, k)
    BY <1>2, <1>3, <1>4
  <2> QED
    BY <1>1, <1>4, <2>1 DEF Matches, None, One
<1>5. ASSUME NEW kind, kind # own
      PROVE  ~Under(kind, id)
  BY <1>5 DEF Under
<1>6. ASSUME NEW busy, Under(own, id), Matches(own, busy)
      PROVE  Matches(own, FALSE)'
  <2>1. One(own)
    BY <1>1, <1>6 DEF Matches, None
  <2>2. \A k \in DOMAIN tx : k # id => ~Under(own, k)
    BY <1>1, <1>6, <2>1 DEF One
  <2>3. \A k \in DOMAIN tx : ~Under(own, k)'
    BY <1>2, <1>3, <2>2
  <2> QED
    BY <1>1, <2>3 DEF Matches, None
<1> QED
  BY <1>4, <1>5, <1>6

\* The caller closes the form, or frees its button if the one clicked is still mounted.
LEMMA FreesButtons ==
  ASSUME DeskTypeOK, Buttons, NEW id, NEW at, NEW fate, NEW lost, Moves(id, at, fate, lost), at = "over",
         tx[id].at # "over", tx[id].kind \in {"approve", "fill"},
         NEW success, form' = Freed(id, success), form'.mount = form.mount, confirm' = confirm
  PROVE  Buttons'
<1>1. PICK own : own = tx[id].kind
  OBVIOUS
<1>2. own \in {"approve", "fill"}
  BY <1>1
<1>3. /\ \A kind, busy : kind # own /\ Matches(kind, busy) => Matches(kind, busy)'
      /\ \A busy : Under(own, id) /\ Matches(own, busy) => Matches(own, FALSE)'
      /\ \A kind, busy : ~Under(kind, id) /\ Matches(kind, busy) => Matches(kind, busy)'
  BY <1>1, EndsOne
<1>4. Matches("mint", confirm = "busy")'
  BY <1>2, <1>3 DEF Buttons
<1>7. CASE own = "fill" /\ success
  <2>1. form' = [form EXCEPT !.open = FALSE, !.busy = {}]
    BY <1>1, <1>7 DEF Freed
  <2>2. ~form'.open
    BY <2>1 DEF DeskTypeOK
  <2> QED
    BY <1>4, <2>2 DEF Buttons
<1>5. CASE ~(own = "fill" /\ success) /\ ~Own(tx[id])
  <2>1. form' = form
    BY <1>1, <1>5 DEF Freed
  <2>2. form.open => ~Under("approve", id) /\ ~Under("fill", id)
    BY <1>5 DEF Own, Under
  <2> QED
    BY <1>3, <1>4, <2>1, <2>2 DEF Buttons
<1>6. CASE ~(own = "fill" /\ success) /\ Own(tx[id])
  <2>1. form.open /\ Under(own, id)
    BY <1>1, <1>6 DEF Own, Under
  <2>2. Matches(own, own \in form.busy)
    BY <1>2, <2>1 DEF Buttons
  <2>3. Matches(own, FALSE)'
    BY <1>3, <2>1, <2>2
  <2>4. form'.busy = form.busy \ {own}
    BY <1>1, <1>6 DEF Freed, DeskTypeOK
  <2>5. ASSUME NEW kind \in {"approve", "fill"}, form'.open
        PROVE  Matches(kind, kind \in form.busy)'
    <3>1. PICK b \in BOOLEAN : b <=> kind \in form'.busy
      OBVIOUS
    <3>2. Matches(kind, b)'
      <4>1. CASE kind = own
        <5>1. own \notin form'.busy
          BY <2>4, <2>5
        <5>2. b = FALSE
          BY <3>1, <4>1, <5>1
        <5> QED
          BY <2>3, <4>1, <5>2
      <4>2. CASE kind # own
        <5>1. PICK c \in BOOLEAN : c <=> kind \in form.busy
          OBVIOUS
        <5>2. Matches(kind, c)
          BY <2>1, <5>1 DEF Buttons
        <5>3. b = c
          BY <2>4, <2>5, <3>1, <4>2, <5>1
        <5> QED
          BY <1>3, <4>2, <5>2, <5>3
      <4> QED
        BY <4>1, <4>2
    <3> QED
      BY <3>1, <3>2 DEF Matches, One, None, Under, Mount
  <2> QED
    BY <1>4, <2>4, <2>5 DEF Buttons
<1> QED
  BY <1>7, <1>5, <1>6

\* A new click is the one under way for its button.
LEMMA StartsOne ==
  ASSUME DeskTypeOK, NEW kind \in Kinds, NEW n \in 0 .. Size, Started(kind, n), form'.mount = form.mount
  PROVE  /\ \A other, busy : other # kind /\ Matches(other, busy) => Matches(other, busy)'
         /\ Matches(kind, FALSE) => Matches(kind, TRUE)'
<1>1. PICK m \in Nat : /\ DOMAIN tx' = DOMAIN tx \cup {m} /\ m \notin DOMAIN tx
                       /\ \A k \in DOMAIN tx : tx'[k] = tx[k]
                       /\ tx'[m] = [kind |-> kind, amount |-> n, of |-> Mount(kind), at |-> "simulating",
                                    fate |-> "none", lost |-> FALSE]
  <2>1. /\ DOMAIN tx' = DOMAIN tx \cup {Len(tx) + 1}
        /\ Len(tx) \in Nat /\ DOMAIN tx = 1 .. Len(tx)
        /\ \A k \in DOMAIN tx : tx'[k] = tx[k]
        /\ tx'[Len(tx) + 1] = [kind |-> kind, amount |-> n, of |-> Mount(kind), at |-> "simulating",
                               fate |-> "none", lost |-> FALSE]
    BY StartedFacts
  <2>2. Len(tx) + 1 \notin DOMAIN tx /\ Len(tx) + 1 \in Nat
    BY <2>1
  <2> QED
    BY <2>1, <2>2
<1>2. ASSUME NEW other, NEW k \in DOMAIN tx
      PROVE  Under(other, k)' <=> Under(other, k)
  BY <1>1 DEF Under, Mount
<1>3. ASSUME NEW other
      PROVE  Under(other, m)' <=> other = kind
  BY <1>1 DEF Under, Mount
<1>4. ASSUME NEW other, NEW busy, other # kind, Matches(other, busy)
      PROVE  Matches(other, busy)'
  <2>1. ~Under(other, m)'
    BY <1>3, <1>4
  <2>2. None(other) => None(other)'
    BY <1>1, <1>2, <2>1 DEF None
  <2>3. One(other) => One(other)'
    BY <1>1, <1>2, <2>1 DEF One
  <2> QED
    BY <1>4, <2>2, <2>3 DEF Matches
<1>5. ASSUME Matches(kind, FALSE)
      PROVE  Matches(kind, TRUE)'
  <2>1. None(kind)
    BY <1>5 DEF Matches
  <2>2. \A k \in DOMAIN tx' : Under(kind, k)' <=> k = m
    BY <1>1, <1>2, <1>3, <2>1 DEF None
  <2>3. One(kind)'
    BY <1>1, <2>2 DEF One
  <2> QED
    BY <2>3 DEF Matches
<1> QED
  BY <1>4, <1>5

-----------------------------------------------------------------------------
(* The allowance. *)

\* No approval is under way, and none was given up.
Settled == \A id \in DOMAIN tx : tx[id].kind = "approve" => tx[id].at = "over" /\ ~tx[id].lost

LEMMA SettledMoves ==
  ASSUME NEW id, NEW at, NEW fate, NEW lost, Moves(id, at, fate, lost)
  PROVE  /\ tx[id].kind = "approve" /\ (at # "over" \/ lost) => ~Settled'
         /\ tx[id].kind # "approve" \/ (at = tx[id].at /\ lost = tx[id].lost) => (Settled' => Settled)
<1>1. DOMAIN tx' = DOMAIN tx /\ id \in DOMAIN tx
  BY DEF Moves
<1>2. ASSUME tx[id].kind = "approve", at # "over" \/ lost
      PROVE  ~Settled'
  BY <1>1, <1>2 DEF Settled, Moves
<1>3. ASSUME tx[id].kind # "approve" \/ (at = tx[id].at /\ lost = tx[id].lost), Settled'
      PROVE  Settled
  <2> SUFFICES ASSUME NEW k \in DOMAIN tx, tx[k].kind = "approve"
               PROVE  tx[k].at = "over" /\ ~tx[k].lost
    BY DEF Settled
  <2>1. CASE k = id
    BY <1>1, <1>3, <2>1 DEF Settled, Moves
  <2>2. CASE k # id
    BY <1>1, <1>3, <2>2 DEF Settled, Moves
  <2> QED
    BY <2>1, <2>2
<1> QED
  BY <1>2, <1>3

LEMMA AsksIs == NeverAsksAgain <=> (Settled => market.allow <= seen.allow)
BY DEF NeverAsksAgain, Settled

-----------------------------------------------------------------------------
(* Steps. *)

\* A call returns to its caller with a receipt, an error or after its wait.
LEMMA CallReturns ==
  ASSUME DeskInv, NEW id \in DOMAIN tx, Running(id), NEW t \in Click, NEW success \in BOOLEAN, NEW state,
         t.kind = tx[id].kind, t.amount = tx[id].amount, t.of = tx[id].of,
         Update(id, state), Returns(id, t, success), UNCHANGED <<market, seen, dismissed>>,
         \/ state = "failed" /\ (t.fate \in {"none", "reverted"} \/ t.lost)
         \/ state = "confirmed" /\ t.fate = "success"
  PROVE  DeskInv'
<1> USE DEF DeskInv
<1> DEFINE at == AfterCall(tx[id].kind)
<1>1. /\ Moves(id, at, t.fate, t.lost)
      /\ at = IF tx[id].kind = "approve" THEN "refetching" ELSE "over"
      /\ form' = IF tx[id].kind = "fill" THEN Freed(id, success) ELSE form
      /\ confirm' = IF tx[id].kind = "mint" THEN "idle" ELSE confirm
  BY ReturnsMoves
<1> HIDE DEF at
<1>2. tx[id] \in Click /\ tx[id].kind \in {"approve", "fill", "mint"}
  BY ClickTyped DEF Click, Kinds, FormButtons
<1>3. /\ form' \in Form
      /\ form'.mount = form.mount
  BY <1>1, FreedTyped DEF DeskTypeOK
<1>4. at \in {"refetching", "over"} /\ (at = "refetching" => tx[id].kind = "approve")
  BY <1>1
<1>5. Tells(state, tx'[id])
  BY <1>1, <1>4 DEF Tells, Moves
<1>6. Toasts' /\ DOMAIN tray' = DOMAIN tray /\ timers' \subseteq timers \cup {id}
  BY <1>1, <1>5, ToastsUpdate
<1>7. confirm' \in {"idle", "armed", "busy"}
  BY <1>1 DEF DeskTypeOK
<1>8. DeskTypeOK'
  BY <1>1, <1>3, <1>6, <1>7, MoveTyped
<1>9. ClickInv'
  <2>1. t.fate = "flying" => t.lost
    OBVIOUS
  <2>2. /\ at \in {"simulating", "signing"} => t.fate = "none"
        /\ t.fate = "flying" => at = "waiting" \/ t.lost
    BY <1>4, <2>1
  <2> QED
    BY <1>1, <1>3, <1>4, <2>2, MovesClicks
<1>10. NeverAsksAgain'
  <2>1. Settled' => Settled /\ market' = market /\ seen' = seen
    BY <1>1, SettledMoves
  <2>2. NeverAsksAgain' <=> (Settled' => market'.allow <= seen'.allow)
    BY DEF NeverAsksAgain, Settled
  <2> QED
    BY <2>1, <2>2, AsksIs
<1>11. tx[id].at # "over"
  BY DEF Running
<1>12. Buttons'
  <2>1. CASE tx[id].kind = "approve"
    BY <1>1, <1>11, <2>1, ButtonsStay
  <2>2. CASE tx[id].kind = "mint"
    <3>1. at = "over" /\ form' = form /\ confirm' = "idle"
      BY <1>1, <2>2
    <3>2. \A kind, busy : kind # "mint" /\ Matches(kind, busy) => Matches(kind, busy)'
      BY <1>1, <1>3, <2>2, <3>1, EndsOne
    <3>3. Under("mint", id)
      BY <1>2, <1>11, <2>2 DEF Under, Mount, Click, ClickInv
    <3>4. Matches("mint", FALSE)'
      BY <1>1, <1>3, <2>2, <3>1, <3>3, EndsOne DEF Buttons
    <3> QED
      BY <3>1, <3>2, <3>4 DEF Buttons
  <2>3. CASE tx[id].kind = "fill"
    <3>1. at = "over" /\ form' = Freed(id, success) /\ confirm' = confirm
      BY <1>1, <2>3
    <3> QED
      BY <1>1, <1>3, <1>11, <2>3, <3>1, FreesButtons
  <2> QED
    BY <1>2, <2>1, <2>2, <2>3
<1> QED
  BY <1>6, <1>8, <1>9, <1>10, <1>12

LEMMA FailDesk ==
  ASSUME DeskInv, NEW id \in DOMAIN tx, Fail(id)
  PROVE  DeskInv'
<1>1. tx[id] \in Click /\ Running(id) /\ tx[id].fate = "none"
  BY ClickTyped DEF Fail, Running, DeskInv, ClickInv
<1>2. /\ Update(id, "failed") /\ Returns(id, tx[id], FALSE) /\ UNCHANGED <<market, seen, dismissed>>
  BY DEF Fail
<1> QED
  BY <1>1, <1>2, CallReturns

LEMMA UnheardDesk ==
  ASSUME DeskInv, NEW id \in DOMAIN tx, Unheard(id)
  PROVE  DeskInv'
<1>1. PICK t : t = [tx[id] EXCEPT !.fate = "flying", !.lost = TRUE]
  OBVIOUS
<1>2. tx[id] \in Click /\ Running(id)
  BY ClickTyped DEF Unheard, Running, DeskInv
<1>3. /\ t \in Click /\ t.lost
      /\ t.kind = tx[id].kind /\ t.amount = tx[id].amount /\ t.of = tx[id].of
  BY <1>1, <1>2 DEF Click, Fates
<1>4. /\ Update(id, "failed") /\ Returns(id, t, FALSE) /\ UNCHANGED <<market, seen, dismissed>>
  BY <1>1 DEF Unheard
<1> QED
  BY <1>2, <1>3, <1>4, CallReturns

LEMMA ReceiptDesk ==
  ASSUME DeskInv, NEW id \in DOMAIN tx, Receipt(id)
  PROVE  DeskInv'
<1>1. tx[id] \in Click /\ Running(id) /\ tx[id].fate \in {"success", "reverted"}
  BY ClickTyped DEF Receipt, Mined, Running, DeskInv
<1>2. PICK ok \in BOOLEAN : ok <=> tx[id].fate = "success"
  OBVIOUS
<1>3. PICK state : state = IF tx[id].fate = "success" THEN "confirmed" ELSE "failed"
  OBVIOUS
<1>4. /\ Update(id, state) /\ Returns(id, tx[id], ok) /\ UNCHANGED <<market, seen, dismissed>>
  <2>1. ok = (tx[id].fate = "success")
    BY <1>2
  <2> QED
    BY <1>3, <2>1 DEF Receipt
<1>5. \/ state = "failed" /\ tx[id].fate = "reverted"
      \/ state = "confirmed" /\ tx[id].fate = "success"
  BY <1>1, <1>3
<1> QED
  BY <1>1, <1>4, <1>5, CallReturns

LEMMA GiveUpDesk ==
  ASSUME DeskInv, NEW id \in DOMAIN tx, GiveUp(id)
  PROVE  DeskInv'
<1>1. PICK t : t = [tx[id] EXCEPT !.lost = TRUE]
  OBVIOUS
<1>2. tx[id] \in Click /\ Running(id)
  BY ClickTyped DEF GiveUp, Running, DeskInv
<1>3. /\ t \in Click /\ t.lost
      /\ t.kind = tx[id].kind /\ t.amount = tx[id].amount /\ t.of = tx[id].of
  BY <1>1, <1>2 DEF Click
<1>4. /\ Update(id, "failed") /\ Returns(id, t, FALSE) /\ UNCHANGED <<market, seen, dismissed>>
  BY <1>1 DEF GiveUp
<1> QED
  BY <1>2, <1>3, <1>4, CallReturns

\* A step between two calls of the pipeline that frees no button.
LEMMA ClickGoesOn ==
  ASSUME DeskInv, NEW id, NEW at, NEW fate, NEW lost, Moves(id, at, fate, lost),
         at = "over" <=> tx[id].at = "over", at # "over" \/ lost = tx[id].lost \/ tx[id].kind # "approve",
         at = tx[id].at \/ at \in {"signing", "waiting"},
         at = "signing" => fate = "none", at = "simulating" => fate = "none",
         fate = "flying" => at = "waiting" \/ lost,
         Toasts', DOMAIN tray' = DOMAIN tray, timers' \subseteq timers \cup {id},
         UNCHANGED <<market, seen, form, confirm, dismissed>>
  PROVE  DeskInv'
<1>1. DeskTypeOK'
  BY MoveTyped DEF DeskInv, DeskTypeOK
<1>2. ClickInv'
  <2>1. at = "refetching" => tx[id].kind = "approve"
    <3>1. id \in DOMAIN tx
      BY DEF Moves
    <3> QED
      BY <3>1 DEF DeskInv, ClickInv
  <2> QED
    BY <2>1, MovesClicks DEF DeskInv
<1>3. Buttons'
  BY ButtonsStay DEF DeskInv
<1>4. NeverAsksAgain'
  <2>1. Settled' => Settled
    BY SettledMoves
  <2> QED
    BY <2>1 DEF DeskInv, NeverAsksAgain, Settled
<1> QED
  BY <1>1, <1>2, <1>3, <1>4 DEF DeskInv

LEMMA SimulateDesk ==
  ASSUME DeskInv, NEW id \in DOMAIN tx, Simulate(id)
  PROVE  DeskInv'
<1>1. Moves(id, "signing", tx[id].fate, tx[id].lost) /\ tx[id].at = "simulating"
  BY SimulateMoves DEF DeskInv
<1>2. UNCHANGED <<market, seen, form, confirm, tray, timers, dismissed>>
  BY DEF Simulate
<1>3. tx[id].fate = "none"
  BY <1>1 DEF DeskInv, ClickInv
<1>4. Toasts'
  <2>1. \A state : Tells(state, tx[id]) => Tells(state, tx'[id])
    BY <1>1, <1>3 DEF Tells, Moves
  <2>2. Running(id)' <=> Running(id)
    BY <1>1 DEF Running, Moves
  <2> QED
    BY <1>1, <1>2, <2>1, <2>2, ToastsStay DEF DeskInv
<1> QED
  BY <1>1, <1>2, <1>3, <1>4, ClickGoesOn

LEMMA SignDesk ==
  ASSUME DeskInv, NEW id \in DOMAIN tx, Sign(id)
  PROVE  DeskInv'
<1>1. Moves(id, "waiting", "flying", tx[id].lost) /\ tx[id].at = "signing"
  BY SignMoves DEF DeskInv
<1>2. Update(id, "pending") /\ UNCHANGED <<market, seen, form, confirm, dismissed>>
  BY DEF Sign
<1>3. Tells("pending", tx'[id]) /\ Running(id)
  BY <1>1 DEF Tells, Moves, Running
<1>4. Toasts' /\ DOMAIN tray' = DOMAIN tray /\ timers' \subseteq timers \cup {id}
  BY <1>1, <1>2, <1>3, ToastsUpdate DEF DeskInv
<1> QED
  BY <1>1, <1>2, <1>4, ClickGoesOn

\* The refetch after an approval, and the allowance is read or the click is lost.
LEMMA RefetchedDesk ==
  ASSUME DeskInv, NEW id \in DOMAIN tx, Refetched(id)
  PROVE  DeskInv'
<1>1. PICK lost : /\ Moves(id, "over", tx[id].fate, lost) /\ tx[id].at = "refetching"
                  /\ \/ seen' = [seen EXCEPT !.allow = market.allow] /\ lost = tx[id].lost
                     \/ seen' = seen /\ lost
  BY RefetchedMoves DEF DeskInv
<1>2. /\ form' = Freed(id, FALSE)
      /\ UNCHANGED <<market, confirm, tray, timers, dismissed>>
  BY DEF Refetched
<1>3. tx[id].kind = "approve"
  BY <1>1 DEF DeskInv, ClickInv
<1>4. /\ form' \in Form
      /\ form'.mount = form.mount
  BY <1>2, FreedTyped DEF DeskInv
<1>5. DeskTypeOK'
  <2>1. tx' \in Seq(Click) /\ DOMAIN tx' = DOMAIN tx
    BY <1>1 DEF Moves
  <2>2. seen' \in [left : 0 .. Size, allow : 0 .. Size]
    BY <1>1 DEF DeskInv, DeskTypeOK
  <2> QED
    BY <1>2, <1>4, <2>1, <2>2 DEF DeskInv, DeskTypeOK, Click
<1>6. ClickInv'
  <2>1. tx[id].fate = "flying" => lost
    BY <1>1 DEF DeskInv, ClickInv
  <2> QED
    BY <1>1, <1>3, <1>4, <2>1, MovesClicks DEF DeskInv
<1>7. Toasts'
  <2>1. \A state : Tells(state, tx[id]) => Tells(state, tx'[id])
    BY <1>1 DEF Tells, Moves
  <2>2. Running(id)' <=> Running(id)
    BY <1>1 DEF Running, Moves
  <2> QED
    BY <1>1, <1>2, <2>1, <2>2, ToastsStay DEF DeskInv
<1>8. Buttons'
  BY <1>1, <1>2, <1>3, <1>4, FreesButtons DEF DeskInv
<1>9. NeverAsksAgain'
  <2>1. CASE seen' = [seen EXCEPT !.allow = market.allow]
    <3>1. market'.allow <= seen'.allow
      BY <1>2, <2>1 DEF DeskInv, DeskTypeOK
    <3> QED
      BY <3>1 DEF NeverAsksAgain
  <2>2. CASE lost
    <3>1. ~Settled'
      BY <1>1, <1>3, <2>2, SettledMoves
    <3> QED
      BY <3>1 DEF NeverAsksAgain, Settled
  <2> QED
    BY <1>1, <2>1, <2>2
<1> QED
  BY <1>5, <1>6, <1>7, <1>8, <1>9 DEF DeskInv

\* A transaction is taken by the chain; what it does there no toast and no button tells.
LEMMA LandDesk ==
  ASSUME DeskInv, NEW id \in DOMAIN tx, Land(id)
  PROVE  DeskInv'
<1>1. PICK fate \in {"success", "reverted"} :
        Moves(id, tx[id].at, fate, tx[id].lost) /\ tx[id].fate = "flying"
  <2>1. /\ Moves(id, tx[id].at, IF Runs(tx[id]) THEN "success" ELSE "reverted", tx[id].lost)
        /\ tx[id].fate = "flying"
    BY LandMoves DEF DeskInv
  <2>2. (IF Runs(tx[id]) THEN "success" ELSE "reverted") \in {"success", "reverted"}
    OBVIOUS
  <2> QED
    BY <2>1, <2>2
<1>2. UNCHANGED <<seen, form, confirm, tray, timers, dismissed>>
  BY DEF Land
<1>3. tx[id] \in Click /\ (tx[id].at = "waiting" \/ tx[id].lost)
  BY <1>1, ClickTyped DEF DeskInv, ClickInv
<1>4. /\ market' \in [left : 0 .. Size, allow : 0 .. Size]
      /\ tx[id].kind # "approve" => market'.allow <= market.allow
  <2>1. /\ tx[id].kind \in {"approve", "fill", "mint"} /\ tx[id].amount \in 0 .. Size
        /\ market \in [left : 0 .. Size, allow : 0 .. Size] /\ Size \in Nat
    BY <1>3, TxAssumption DEF Click, Kinds, FormButtons, DeskInv, DeskTypeOK
  <2>2. CASE ~Runs(tx[id]) \/ tx[id].kind = "mint"
    <3>1. market' = market
      BY <2>2 DEF Land, Runs
    <3> QED
      BY <2>1, <3>1
  <2>3. CASE Runs(tx[id]) /\ tx[id].kind = "approve"
    <3>1. market' = [market EXCEPT !.allow = tx[id].amount]
      BY <2>3 DEF Land
    <3> QED
      BY <2>1, <2>3, <3>1
  <2>4. CASE Runs(tx[id]) /\ tx[id].kind = "fill"
    <3>1. market' = [left |-> market.left - tx[id].amount, allow |-> market.allow - tx[id].amount]
      BY <2>4 DEF Land
    <3>2. tx[id].amount <= market.left /\ tx[id].amount <= market.allow
      BY <2>4 DEF Runs
    <3> QED
      BY <2>1, <2>4, <3>1, <3>2
  <2> QED
    BY <2>1, <2>2, <2>3, <2>4
<1>5. DeskTypeOK'
  <2>1. tx' \in Seq(Click) /\ DOMAIN tx' = DOMAIN tx
    BY <1>1 DEF Moves
  <2> QED
    BY <1>2, <1>4, <2>1 DEF DeskInv, DeskTypeOK, Click
<1>6. ClickInv'
  <2>1. tx[id].at \notin {"simulating", "signing"} /\ (tx[id].at = "refetching" => tx[id].kind = "approve")
    BY <1>1 DEF DeskInv, ClickInv
  <2> QED
    BY <1>1, <1>2, <2>1, MovesClicks DEF DeskInv
<1>7. Toasts'
  <2>1. \A state : Tells(state, tx[id]) => Tells(state, tx'[id])
    BY <1>1 DEF Tells, Moves
  <2>2. Running(id)' <=> Running(id)
    BY <1>1 DEF Running, Moves
  <2> QED
    BY <1>1, <1>2, <2>1, <2>2, ToastsStay DEF DeskInv
<1>8. Buttons'
  BY <1>1, <1>2, ButtonsStay DEF DeskInv
<1>9. NeverAsksAgain'
  <2>1. CASE tx[id].kind = "approve"
    <3>1. ~Settled'
      BY <1>1, <1>3, <2>1, SettledMoves
    <3> QED
      BY <3>1 DEF NeverAsksAgain, Settled
  <2>2. CASE tx[id].kind # "approve"
    <3>1. Settled' => Settled
      BY <1>1, SettledMoves
    <3>2. market.allow <= seen.allow => market'.allow <= seen'.allow
      BY <1>2, <1>4, <2>2 DEF DeskInv, DeskTypeOK
    <3> QED
      BY <3>1, <3>2 DEF DeskInv, NeverAsksAgain, Settled
  <2> QED
    BY <2>1, <2>2
<1> QED
  BY <1>5, <1>6, <1>7, <1>8, <1>9 DEF DeskInv

\* A click keeps everything but, so far, its button.
LEMMA StartedDesk ==
  ASSUME DeskInv, NEW kind \in Kinds, NEW n \in 0 .. Size, Started(kind, n),
         form' \in Form,
         form'.mount = form.mount, confirm' \in {"idle", "armed", "busy"}
  PROVE  DeskTypeOK' /\ ClickInv' /\ Toasts' /\ NeverAsksAgain'
<1>1. PICK m \in Nat : /\ tx' \in Seq(Click) /\ DOMAIN tx' = DOMAIN tx \cup {m}
                       /\ \A k \in DOMAIN tx : tx'[k] = tx[k]
                       /\ tx'[m] = [kind |-> kind, amount |-> n, of |-> Mount(kind), at |-> "simulating",
                                    fate |-> "none", lost |-> FALSE]
  <2>1. /\ tx' \in Seq(Click) /\ DOMAIN tx' = DOMAIN tx \cup {Len(tx) + 1}
        /\ Len(tx) \in Nat
        /\ \A k \in DOMAIN tx : tx'[k] = tx[k]
        /\ tx'[Len(tx) + 1] = [kind |-> kind, amount |-> n, of |-> Mount(kind), at |-> "simulating",
                               fate |-> "none", lost |-> FALSE]
    BY StartedFacts DEF DeskInv
  <2>2. Len(tx) + 1 \in Nat
    BY <2>1
  <2> QED
    BY <2>1, <2>2
<1>2. UNCHANGED <<market, seen, timers, dismissed>>
  BY DEF Started
<1>3. Toasts' /\ DOMAIN tray' \subseteq DOMAIN tx'
  BY ToastsPush DEF DeskInv
<1>4. DeskTypeOK'
  <2>1. timers' \cup dismissed' \subseteq DOMAIN tx'
    BY <1>1, <1>2 DEF DeskInv, DeskTypeOK
  <2> QED
    BY <1>1, <1>2, <1>3, <2>1 DEF DeskInv, DeskTypeOK, Click
<1>5. ClickInv'
  <2>1. /\ tx'[m].at = "simulating" /\ tx'[m].fate = "none" /\ tx'[m].kind = kind
        /\ tx'[m].of = Mount(kind)
    BY <1>1
  <2>2. Mount(kind)' = Mount(kind) /\ Mount(kind) \in Nat
    BY MountTyped DEF DeskInv, Mount
  <2> SUFFICES ASSUME NEW k \in DOMAIN tx'
               PROVE  /\ tx'[k].at \in {"simulating", "signing"} => tx'[k].fate = "none"
                      /\ tx'[k].fate = "flying" => tx'[k].at = "waiting" \/ tx'[k].lost
                      /\ tx'[k].at = "refetching" => tx'[k].kind = "approve"
                      /\ (tx[k].of <= Mount(tx[k].kind))'
    BY DEF ClickInv
  <2>3. CASE k = m
    BY <2>1, <2>2, <2>3 DEF Mount
  <2>4. CASE k \in DOMAIN tx
    BY <1>1, <2>4 DEF DeskInv, ClickInv, Mount
  <2> QED
    BY <1>1, <2>3, <2>4
<1>6. NeverAsksAgain'
  <2>1. Settled' => Settled
    BY <1>1 DEF Settled
  <2> QED
    BY <1>2, <2>1 DEF DeskInv, NeverAsksAgain, Settled
<1> QED
  BY <1>3, <1>4, <1>5, <1>6

LEMMA FormClicks ==
  ASSUME DeskInv, NEW n \in 1 .. Size, Approve(n) \/ ClickFill(n)
  PROVE  DeskInv'
<1>1. PICK kind \in {"approve", "fill"} :
        /\ Started(kind, n) /\ form.open /\ kind \notin form.busy
        /\ form' = [form EXCEPT !.busy = @ \cup {kind}] /\ confirm' = confirm
  BY DEF Approve, ClickFill, CanFill
<1>2. kind \in Kinds /\ n \in 0 .. Size
  BY TxAssumption DEF Kinds, FormButtons
<1>3. /\ form' \in Form
      /\ form'.mount = form.mount /\ form'.open /\ form'.busy = form.busy \cup {kind}
  BY <1>1 DEF DeskInv, DeskTypeOK, Form, FormButtons
<1>4. DeskTypeOK' /\ ClickInv' /\ Toasts' /\ NeverAsksAgain'
  <2>1. confirm' \in {"idle", "armed", "busy"}
    BY <1>1 DEF DeskInv, DeskTypeOK
  <2> QED
    BY <1>1, <1>2, <1>3, <2>1, StartedDesk
<1>5. /\ \A other, busy : other # kind /\ Matches(other, busy) => Matches(other, busy)'
      /\ Matches(kind, FALSE) => Matches(kind, TRUE)'
  BY <1>1, <1>2, <1>3, StartsOne DEF DeskInv
<1>6. Matches("mint", confirm = "busy")'
  BY <1>1, <1>5 DEF DeskInv, Buttons
<1>7. ASSUME NEW other \in {"approve", "fill"}
      PROVE  Matches(other, other \in form.busy)'
  <2>1. PICK b \in BOOLEAN : b <=> other \in form.busy
    OBVIOUS
  <2>2. Matches(other, b)
    BY <1>1, <2>1 DEF DeskInv, Buttons, Matches, One, None
  <2>3. CASE other = kind
    <3>1. b = FALSE
      BY <1>1, <2>1, <2>3
    <3>2. Matches(other, TRUE)'
      BY <1>5, <2>2, <2>3, <3>1
    <3> QED
      BY <1>3, <2>3, <3>2 DEF Matches, One, None, Under
  <2>4. CASE other # kind
    <3>1. Matches(other, b)'
      BY <1>5, <2>2, <2>4
    <3>2. b <=> other \in form'.busy
      BY <1>3, <2>1, <2>4
    <3> QED
      BY <3>1, <3>2 DEF Matches, One, None, Under
  <2> QED
    BY <2>3, <2>4
<1> QED
  BY <1>4, <1>6, <1>7 DEF DeskInv, Buttons

LEMMA ConfirmDesk ==
  ASSUME DeskInv, Confirm
  PROVE  DeskInv'
<1>1. /\ Started("mint", 0) /\ form' = form /\ confirm = "armed" /\ confirm' = "busy"
  BY DEF Confirm
<1>2. "mint" \in Kinds /\ 0 \in 0 .. Size
  BY TxAssumption DEF Kinds, FormButtons
<1>3. DeskTypeOK' /\ ClickInv' /\ Toasts' /\ NeverAsksAgain'
  <2>1. form' \in Form
    BY <1>1 DEF DeskInv, DeskTypeOK
  <2> QED
    BY <1>1, <1>2, <2>1, StartedDesk
<1>4. /\ \A other, busy : other # "mint" /\ Matches(other, busy) => Matches(other, busy)'
      /\ Matches("mint", FALSE) => Matches("mint", TRUE)'
  BY <1>1, <1>2, StartsOne DEF DeskInv
<1>5. Matches("mint", TRUE)'
  <2>1. Matches("mint", FALSE)
    BY <1>1 DEF DeskInv, Buttons, Matches
  <2> QED
    BY <1>4, <2>1
<1>6. Buttons'
  BY <1>1, <1>4, <1>5 DEF DeskInv, Buttons, Matches
<1> QED
  BY <1>3, <1>6 DEF DeskInv

\* A button that is mounted anew has no click under way, whatever ran in its place.
LEMMA Remounted ==
  ASSUME DeskInv, tx' = tx, NEW kind \in FormButtons, form'.mount[kind] = form.mount[kind] + 1
  PROVE  Matches(kind, FALSE)'
<1>1. kind \in Kinds /\ kind # "mint"
  BY DEF Kinds, FormButtons
<1>2. PICK n \in Nat : n = form.mount[kind] /\ form'.mount[kind] = n + 1
  BY <1>1, MountTyped DEF DeskInv, Mount
<1>3. ASSUME NEW k \in DOMAIN tx, tx[k].kind = kind
      PROVE  tx[k].of # n + 1
  <2>1. tx[k].of \in Nat /\ tx[k].of <= n
    BY <1>1, <1>2, <1>3, ClickTyped DEF DeskInv, ClickInv, Click, Mount
  <2> QED
    BY <1>2, <2>1
<1>4. None(kind)'
  BY <1>1, <1>2, <1>3 DEF None, Under, Mount
<1> QED
  BY <1>4 DEF Matches

\* The form opens and closes, its size is wrong and right again; the mint button is
\* armed and disarmed.
LEMMA PageDesk ==
  ASSUME DeskInv, OpenForm \/ CloseForm \/ SizeError \/ Arm \/ Disarm
  PROVE  DeskInv'
<1>1. UNCHANGED <<market, seen, tx, tray, timers, dismissed>>
  BY DEF OpenForm, CloseForm, SizeError, Arm, Disarm
<1>2. Toasts' /\ NeverAsksAgain'
  BY <1>1 DEF DeskInv, Toasts, Running, NeverAsksAgain
<1>3. form \in Form /\ MaxForms \in Nat /\ form.mount \in [FormButtons -> 0 .. MaxForms]
  BY TxAssumption DEF DeskInv, DeskTypeOK, Form
<1>4. /\ form' \in Form
      /\ \A kind \in FormButtons : form.mount[kind] <= form'.mount[kind]
  <2>1. \A kind \in FormButtons : form.mount[kind] \in 0 .. MaxForms /\ form.mount[kind] <= form.mount[kind]
    BY <1>3
  <2>2. CASE OpenForm
    <3> DEFINE up == [k \in FormButtons |-> form.mount[k] + 1]
    <3>1. \A k \in FormButtons : form.mount[k] + 1 \in 0 .. MaxForms /\ form.mount[k] <= form.mount[k] + 1
      BY <1>3, <2>1, <2>2 DEF OpenForm
    <3>2. up \in [FormButtons -> 0 .. MaxForms] /\ \A k \in FormButtons : form.mount[k] <= up[k]
      BY <3>1
    <3>3. form' = [open |-> TRUE, mount |-> up, busy |-> {}]
      BY <2>2 DEF OpenForm
    <3> HIDE DEF up
    <3> QED
      BY <3>2, <3>3 DEF Form
  <2>3. CASE CloseForm
    BY <1>3, <2>1, <2>3 DEF CloseForm, Form
  <2>4. CASE SizeError
    <3> DEFINE up == [form.mount EXCEPT !["approve"] = @ + 1]
    <3>1. form.mount["approve"] + 1 \in 0 .. MaxForms /\ form.mount["approve"] <= form.mount["approve"] + 1
      BY <1>3, <2>1, <2>4 DEF SizeError, FormButtons
    <3>2. up \in [FormButtons -> 0 .. MaxForms] /\ \A k \in FormButtons : form.mount[k] <= up[k]
      BY <1>3, <2>1, <3>1
    <3>3. form' = [form EXCEPT !.mount = up, !.busy = @ \ {"approve"}]
      BY <1>3, <2>4 DEF SizeError, Form
    <3> HIDE DEF up
    <3> QED
      BY <1>3, <3>2, <3>3 DEF Form
  <2>5. CASE Arm \/ Disarm
    BY <1>3, <2>1, <2>5 DEF Arm, Disarm
  <2> QED
    BY <2>2, <2>3, <2>4, <2>5
<1>5. confirm' \in {"idle", "armed", "busy"} /\ (confirm' = "busy" <=> confirm = "busy")
  BY DEF OpenForm, CloseForm, SizeError, Arm, Disarm, DeskInv, DeskTypeOK
<1>6. DeskTypeOK'
  BY <1>1, <1>4, <1>5 DEF DeskInv, DeskTypeOK, Form
<1>7. ClickInv'
  <2>1. ASSUME NEW k \in DOMAIN tx
        PROVE  tx[k].of <= Mount(tx[k].kind)'
    <3>1. PICK kind \in Kinds, of \in Nat : kind = tx[k].kind /\ of = tx[k].of
      <4>1. tx[k].kind \in Kinds /\ tx[k].of \in Nat
        BY ClickTyped DEF DeskInv, Click
      <4> QED
        BY <4>1
    <3>2. of <= Mount(kind)
      BY <3>1 DEF DeskInv, ClickInv
    <3>3. CASE kind = "mint"
      <4>1. Mount(kind) = 0 /\ Mount(tx[k].kind)' = 0
        BY <1>1, <3>1, <3>3 DEF Mount
      <4> QED
        BY <3>1, <3>2, <4>1
    <3>4. CASE kind # "mint"
      <4>1. kind \in FormButtons
        BY <3>4 DEF Kinds
      <4>2. PICK a \in Nat, b \in Nat : a = form.mount[kind] /\ b = form'.mount[kind] /\ a <= b
        BY <1>3, <1>4, <4>1 DEF Form
      <4>3. Mount(kind) = a /\ Mount(tx[k].kind)' = b
        BY <1>1, <3>1, <3>4, <4>2 DEF Mount
      <4> QED
        BY <3>1, <3>2, <4>2, <4>3
    <3> QED
      BY <3>3, <3>4
  <2> QED
    BY <1>1, <2>1 DEF DeskInv, ClickInv
<1>8. Matches("mint", confirm = "busy")'
  <2>1. \A k \in DOMAIN tx : Under("mint", k)' <=> Under("mint", k)
    BY <1>1 DEF Under, Mount
  <2> QED
    BY <1>1, <1>5, <2>1 DEF DeskInv, Buttons, Matches, One, None
<1>9. ASSUME NEW kind \in FormButtons, form'.open
      PROVE  Matches(kind, kind \in form.busy)'
  <2>1. CASE form'.mount[kind] = form.mount[kind] /\ form.open /\ (kind \in form'.busy <=> kind \in form.busy)
    <3>1. \A k \in DOMAIN tx : Under(kind, k)' <=> Under(kind, k)
      BY <1>1, <2>1 DEF Under, Mount
    <3>2. Matches(kind, kind \in form.busy)
      BY <2>1 DEF DeskInv, Buttons, FormButtons
    <3> QED
      BY <1>1, <2>1, <3>1, <3>2 DEF Matches, One, None
  <2>2. CASE form'.mount[kind] = form.mount[kind] + 1 /\ kind \notin form'.busy
    <3>1. Matches(kind, FALSE)'
      BY <1>1, <2>2, Remounted
    <3> QED
      BY <2>2, <3>1 DEF Matches, One, None, Under, Mount
  <2>3. CASE OpenForm
    <3>1. form'.mount = [k \in FormButtons |-> form.mount[k] + 1] /\ form'.busy = {}
      BY <2>3 DEF OpenForm
    <3>2. form'.mount[kind] = form.mount[kind] + 1
      BY <3>1
    <3> QED
      BY <2>2, <3>1, <3>2
  <2>4. CASE CloseForm
    BY <1>3, <1>9, <2>4 DEF CloseForm, Form
  <2>5. CASE SizeError
    <3>1. /\ form.open /\ form'.busy = form.busy \ {"approve"}
          /\ form'.mount["approve"] = form.mount["approve"] + 1
          /\ kind # "approve" => form'.mount[kind] = form.mount[kind]
      BY <1>3, <2>5 DEF SizeError, Form, FormButtons
    <3>2. CASE kind = "approve"
      BY <2>2, <3>1, <3>2
    <3>3. CASE kind # "approve"
      BY <2>1, <3>1, <3>3
    <3> QED
      BY <3>2, <3>3
  <2>6. CASE Arm \/ Disarm
    <3>1. form' = form
      BY <2>6 DEF Arm, Disarm
    <3> QED
      BY <1>9, <2>1, <3>1
  <2> QED
    BY <2>3, <2>4, <2>5, <2>6
<1>10. Buttons'
  BY <1>8, <1>9 DEF Buttons, FormButtons
<1> QED
  BY <1>2, <1>6, <1>7, <1>10 DEF DeskInv

\* Other traders and the polls.
LEMMA OthersDesk ==
  ASSUME DeskInv, Rival \/ Poll
  PROVE  DeskInv'
<1>1. UNCHANGED <<form, confirm, tx, tray, timers, dismissed>>
  BY DEF Rival, Poll
<1>2. ClickInv' /\ Toasts' /\ Buttons'
  BY <1>1 DEF DeskInv, ClickInv, Toasts, Running, Buttons, Matches, One, None, Under, Mount
<1>3. /\ market' \in [left : 0 .. Size, allow : 0 .. Size]
      /\ seen' \in [left : 0 .. Size, allow : 0 .. Size]
      /\ market.allow <= seen.allow => market'.allow <= seen'.allow
  <2>1. /\ market \in [left : 0 .. Size, allow : 0 .. Size]
        /\ seen \in [left : 0 .. Size, allow : 0 .. Size] /\ Size \in Nat
    BY TxAssumption DEF DeskInv, DeskTypeOK
  <2>2. CASE Rival
    <3>1. seen' = seen /\ market' = [market EXCEPT !.left = @ - 1] /\ market.left > 0
      BY <2>2 DEF Rival
    <3> QED
      BY <2>1, <3>1
  <2>3. CASE Poll
    <3>1. market' = market
      BY <2>3 DEF Poll
    <3>2. CASE seen' = [seen EXCEPT !.left = market.left]
      BY <2>1, <3>1, <3>2
    <3>3. CASE seen' = [seen EXCEPT !.allow = market.allow]
      BY <2>1, <3>1, <3>3
    <3> QED
      BY <2>3, <3>2, <3>3 DEF Poll
  <2> QED
    BY <2>2, <2>3
<1>4. DeskTypeOK'
  BY <1>1, <1>3 DEF DeskInv, DeskTypeOK
<1>5. NeverAsksAgain'
  BY <1>1, <1>3 DEF DeskInv, NeverAsksAgain
<1> QED
  BY <1>2, <1>4, <1>5 DEF DeskInv

LEMMA NextDesk ==
  ASSUME DeskInv, [DeskNext]_deskVars
  PROVE  DeskInv'
<1>1. CASE OpenForm \/ CloseForm \/ SizeError \/ Arm \/ Disarm
  BY <1>1, PageDesk
<1>2. CASE Confirm
  BY <1>2, ConfirmDesk
<1>3. ASSUME NEW n \in 1 .. Size, Approve(n) \/ ClickFill(n) PROVE DeskInv'
  BY <1>3, FormClicks
<1>4. ASSUME NEW id \in DOMAIN tx, Simulate(id) \/ Fail(id) \/ Unheard(id) \/ Sign(id) PROVE DeskInv'
  BY <1>4, SimulateDesk, FailDesk, UnheardDesk, SignDesk
<1>5. ASSUME NEW id \in DOMAIN tx, Receipt(id) \/ GiveUp(id) \/ Refetched(id) PROVE DeskInv'
  BY <1>5, ReceiptDesk, GiveUpDesk, RefetchedDesk
<1>6. ASSUME NEW id \in DOMAIN tx, Land(id) PROVE DeskInv'
  BY <1>6, LandDesk
<1>7. ASSUME NEW id \in DOMAIN tx, Expire(id) \/ Dismiss(id) PROVE DeskInv'
  BY <1>7, ToastsGo
<1>8. CASE Rival \/ Poll
  BY <1>8, OthersDesk
<1>9. CASE UNCHANGED deskVars
  BY <1>9 DEF deskVars, DeskInv, DeskTypeOK, ClickInv, Toasts, Running, Buttons, Matches, One, None, Under,
              Mount, NeverAsksAgain
<1> QED
  BY <1>1, <1>2, <1>3, <1>4, <1>5, <1>6, <1>7, <1>8, <1>9 DEF DeskNext

LEMMA DeskInvariance == DeskSpec => []DeskInv
<1>1. DeskInv /\ [DeskNext]_deskVars => DeskInv'
  BY NextDesk
<1> QED
  BY <1>1, InitDesk, PTL DEF DeskSpec

\* What a toast says of its transaction is so - a failed one had no effect unless the
\* page's call failed after the wallet had sent it - and of what is still running only
\* what was dismissed or pushed out is missing, for any number of clicks, mountings of
\* the form and toasts on the screen.
THEOREM ToastsAreTrue == DeskSpec => []TrayIsTrue
<1>1. DeskInv => TrayIsTrue
  <2> SUFFICES ASSUME DeskInv PROVE TrayIsTrue
    OBVIOUS
  <2>1. ASSUME NEW id \in DOMAIN tray
        PROVE  CASE tray[id] = "signing"   -> tx[id].fate = "none" /\ tx[id].at \in {"simulating", "signing"}
                 [] tray[id] = "pending"   -> tx[id].fate # "none" /\ tx[id].at = "waiting"
                 [] tray[id] = "confirmed" -> tx[id].fate = "success" /\ ~Running(id)
                 [] tray[id] = "failed"    -> ~Running(id) /\ (tx[id].fate \in {"none", "reverted"} \/ tx[id].lost)
    <3>1. Tells(tray[id], tx[id])
      BY DEF DeskInv, Toasts
    <3>2. tx[id].at \in {"refetching", "over"} => ~Running(id)
      BY DEF Running
    <3> QED
      BY <3>1, <3>2 DEF Tells
  <2> QED
    BY <2>1 DEF TrayIsTrue, DeskInv, Toasts
<1> QED
  BY <1>1, DeskInvariance, PTL

\* A mounted button is busy exactly while the click made in it is under way, one at
\* most, and an approval that was given is not asked for again, whoever's success closes
\* the form and whatever runs on from a button that was taken down.
THEOREM ButtonsHonest == DeskSpec => []ButtonsAreHonest
<1>1. DeskInv => BusyIsRunning
  <2> SUFFICES ASSUME DeskInv PROVE BusyIsRunning
    OBVIOUS
  <2> DEFINE under(kind) == {id \in DOMAIN tx : tx[id].kind = kind /\ tx[id].at # "over"
                                                /\ tx[id].of = Mount(kind)}
  <2>1. ASSUME NEW kind, NEW busy, Matches(kind, busy)
        PROVE  Cardinality(under(kind)) = IF busy THEN 1 ELSE 0
    <3>1. \A id \in DOMAIN tx : id \in under(kind) <=> Under(kind, id)
      BY DEF Under
    <3>2. under(kind) \subseteq DOMAIN tx
      OBVIOUS
    <3> HIDE DEF under
    <3>3. CASE busy
      <4>1. PICK id \in DOMAIN tx : \A k \in DOMAIN tx : Under(kind, k) <=> k = id
        BY <2>1, <3>3 DEF Matches, One
      <4>2. under(kind) = {id}
        BY <3>1, <3>2, <4>1
      <4> QED
        BY <3>3, <4>2, FS_Singleton
    <3>4. CASE ~busy
      <4>1. under(kind) = {}
        BY <2>1, <3>1, <3>2, <3>4 DEF Matches, None
      <4> QED
        BY <3>4, <4>1, FS_EmptySet
    <3> QED
      BY <3>3, <3>4
  <2>2. form.open => \A kind \in FormButtons : Cardinality(under(kind)) = IF kind \in form.busy THEN 1 ELSE 0
    <3>1. form.open => /\ Cardinality(under("approve")) = IF "approve" \in form.busy THEN 1 ELSE 0
                       /\ Cardinality(under("fill")) = IF "fill" \in form.busy THEN 1 ELSE 0
      BY <2>1 DEF DeskInv, Buttons
    <3> HIDE DEF under
    <3> QED
      BY <3>1 DEF FormButtons
  <2>3. Cardinality(under("mint")) = IF confirm = "busy" THEN 1 ELSE 0
    BY <2>1 DEF DeskInv, Buttons
  <2> QED
    BY <2>2, <2>3 DEF BusyIsRunning
<1>2. DeskInv => ButtonsAreHonest
  BY <1>1 DEF ButtonsAreHonest, DeskInv
<1> QED
  BY <1>2, DeskInvariance, PTL
=============================================================================

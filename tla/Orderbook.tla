------------------------------ MODULE Orderbook ------------------------------
(***************************************************************************)
(* Orderbook (include/quick/structs/Orderbook.hh): two std::vectors of     *)
(* orders, each sorted so that the order to match next is at the back.     *)
(* AddOrder is a loop; each of its iterations is a step, so that what the  *)
(* loop relies on can be stated in between.  An order carries, besides the *)
(* code's fields, when it was accepted (at) and whether by a direct call   *)
(* of insert_order (direct), which only the properties use.                *)
(***************************************************************************)
EXTENDS Integers, Sequences, SequencesExt

CONSTANTS
  Id, Price,
  Quantity,       \* the quantities callers use (int in the code)
  NoOrder,
  MaxOrders       \* bound: how many orders are accepted

ASSUME ConstantsAssumption ==
  /\ Price \subseteq Int
  /\ Quantity \subseteq Int
  /\ NoOrder \notin [id : Id, level : Price, buy : BOOLEAN, qty : Int, at : Nat, direct : BOOLEAN]
  /\ MaxOrders \in Nat

VARIABLES
  bids_, asks_,
  incoming,    \* the argument of AddOrder with qty = remaining, or NoOrder
  trades,      \* what AddOrder has built
  arrivals,    \* how many orders were accepted
  asked,       \* asked[i]: what order i was to trade, less what was cancelled
  traded       \* traded[i]: what it has traded

ledger == <<asked, traded>>
vars == <<bids_, asks_, incoming, trades, arrivals, ledger>>

Order == [id : Id, level : Price, buy : BOOLEAN, qty : Int, at : Nat, direct : BOOLEAN]

Init ==
  /\ bids_ = <<>> /\ asks_ = <<>>
  /\ incoming = NoOrder /\ trades = <<>> /\ arrivals = 0
  /\ asked = [i \in Id |-> 0] /\ traded = [i \in Id |-> 0]

-----------------------------------------------------------------------------
can_match(buy, sell) == buy.level >= sell.level

Resting == Range(bids_) \cup Range(asks_)

is_dupe_mut(order) == \E o \in Range(bids_) : o.id = order.id
is_dupe(order) == \E o \in Resting : o.id = order.id

\* std::ranges::lower_bound in a vector partitioned by `front`, the levels that
\* compare as in front of the new order's: the first position that is not.
LowerBound(side, front) ==
  CHOOSE i \in 1..(Len(side) + 1) :
    /\ \A k \in 1..(i - 1) : side[k].level \in front
    /\ i <= Len(side) => side[i].level \notin front

\* With upper_bound instead the newest order at a price would be matched first.
InsertBid_mut(side, order) ==
  InsertAt(side, LowerBound(side, {l \in Price : l <= order.level}), order)
InsertBid(side, order) ==
  InsertAt(side, LowerBound(side, {l \in Price : l < order.level}), order)

InsertAsk(side, order) ==
  InsertAt(side, LowerBound(side, {l \in Price : l > order.level}), order)

insert_order(order) ==
  IF is_dupe(order) THEN UNCHANGED <<bids_, asks_>>
  ELSE IF order.buy THEN bids_' = InsertBid(bids_, order) /\ UNCHANGED asks_
  ELSE asks_' = InsertAsk(asks_, order) /\ UNCHANGED bids_

-----------------------------------------------------------------------------
(* AddOrder                                                                *)

AddOrder(order) ==
  /\ incoming = NoOrder
  /\ trades' = <<>>
  /\ IF is_dupe(order)
     THEN UNCHANGED <<incoming, arrivals, ledger>>
     ELSE /\ arrivals < MaxOrders
          /\ incoming' = order
          /\ arrivals' = arrivals + 1
          /\ asked' = [asked EXCEPT ![order.id] = IF order.qty > 0 THEN order.qty ELSE 0]
          /\ traded' = [traded EXCEPT ![order.id] = 0]
  /\ UNCHANGED <<bids_, asks_>>

OppositeSide == IF incoming.buy THEN asks_ ELSE bids_

Matches_mut ==
  /\ OppositeSide # <<>> /\ incoming.qty > 0
  /\ IF incoming.buy THEN incoming.level > Last(OppositeSide).level
     ELSE Last(OppositeSide).level > incoming.level
Matches ==
  /\ OppositeSide # <<>> /\ incoming.qty > 0
  /\ IF incoming.buy THEN can_match(incoming, Last(OppositeSide))
     ELSE can_match(Last(OppositeSide), incoming)

\* The opposite side after a trade of `size` with its last order.
AfterTrade_mut(side, size) ==
  IF Last(side).qty = size THEN Front(side)
  ELSE side
AfterTrade(side, size) ==
  IF Last(side).qty = size THEN Front(side)
  ELSE ReplaceAt(side, Len(side), [Last(side) EXCEPT !.qty = @ - size])

TradeOf_mut(best, size) ==
  [OrderIdA         |-> IF incoming.buy THEN incoming.id ELSE best.id,
   OrderIdB         |-> IF incoming.buy THEN best.id ELSE incoming.id,
   AggressorOrderId |-> incoming.id,
   AggressorIsBuy   |-> incoming.buy,
   Level            |-> best.level,
   Size             |-> size]
TradeOf(best, size) ==
  [OrderIdA         |-> IF incoming.buy THEN incoming.id ELSE best.id,
   OrderIdB         |-> IF incoming.buy THEN best.id ELSE incoming.id,
   AggressorOrderId |-> incoming.id,
   AggressorIsBuy   |-> incoming.buy,
   Level            |-> IF incoming.buy THEN best.level ELSE incoming.level,
   Size             |-> size]

\* One iteration of the loop.
Match ==
  /\ incoming # NoOrder
  /\ Matches
  /\ LET best == Last(OppositeSide)
         size == IF best.qty < incoming.qty THEN best.qty ELSE incoming.qty
     IN  /\ trades' = Append(trades, TradeOf(best, size))
         /\ IF incoming.buy
            THEN asks_' = AfterTrade(asks_, size) /\ UNCHANGED bids_
            ELSE bids_' = AfterTrade(bids_, size) /\ UNCHANGED asks_
         /\ incoming' = [incoming EXCEPT !.qty = @ - size]
         /\ traded' = [traded EXCEPT ![best.id] = @ + size, ![incoming.id] = @ + size]
  /\ UNCHANGED <<arrivals, asked>>

\* After the loop: what remains of the order rests.
Finish ==
  /\ incoming # NoOrder
  /\ ~Matches
  /\ IF incoming.qty > 0 THEN insert_order(incoming) ELSE UNCHANGED <<bids_, asks_>>
  /\ incoming' = NoOrder
  /\ UNCHANGED <<trades, arrivals, ledger>>

\* std::bad_alloc, from trades.emplace_back or from the insertion of what remains:
\* the trades are gone with the call, and so is the rest of the order, but what
\* was traded is traded.
AddOrderThrow ==
  /\ incoming # NoOrder /\ incoming.qty > 0
  /\ incoming' = NoOrder
  /\ trades' = <<>>
  /\ asked' = [asked EXCEPT ![incoming.id] = traded[incoming.id]]
  /\ UNCHANGED <<bids_, asks_, arrivals, traded>>

-----------------------------------------------------------------------------
\* The first order with that id, among the bids and then among the asks.
CancelOrder(id) ==
  /\ incoming = NoOrder
  /\ bids_' = RemoveFirstMatch(bids_, LAMBDA o : o.id = id)
  /\ asks_' = IF \E o \in Range(bids_) : o.id = id THEN asks_
              ELSE RemoveFirstMatch(asks_, LAMBDA o : o.id = id)
  /\ asked' = [asked EXCEPT ![id] = traded[id]]
  /\ UNCHANGED <<incoming, trades, arrivals, traded>>

\* insert_order is public: a caller may use it instead of AddOrder.
InsertDirectly(order) ==
  /\ incoming = NoOrder /\ arrivals < MaxOrders
  /\ insert_order(order)
  /\ arrivals' = arrivals + 1
  /\ asked' = [asked EXCEPT ![order.id] = IF is_dupe(order) THEN @ ELSE order.qty]
  /\ traded' = [traded EXCEPT ![order.id] = IF is_dupe(order) THEN @ ELSE 0]
  /\ UNCHANGED <<incoming, trades>>

\* The orders callers submit: every one is new, whatever its id.
Submissions(direct) ==
  {[id |-> i, level |-> l, buy |-> b, qty |-> q, at |-> arrivals, direct |-> direct] :
     i \in Id, l \in Price, b \in BOOLEAN, q \in Quantity}

Next ==
  \/ \E o \in Submissions(FALSE) : AddOrder(o)
  \/ Match
  \/ Finish
  \/ AddOrderThrow
  \/ \E i \in Id : CancelOrder(i)
  \/ \E o \in Submissions(TRUE) : InsertDirectly(o)

Spec == Init /\ [][Next]_vars

-----------------------------------------------------------------------------
(* Properties.                                                             *)

\* Price-time priority in each vector (the comment at 130-132): the best price
\* is at the back and, at one price, the order that came first.
BookSorted ==
  /\ \A i, j \in 1..Len(bids_) : i < j =>
       \/ bids_[i].level < bids_[j].level
       \/ bids_[i].level = bids_[j].level /\ bids_[i].at > bids_[j].at
  /\ \A i, j \in 1..Len(asks_) : i < j =>
       \/ asks_[i].level > asks_[j].level
       \/ asks_[i].level = asks_[j].level /\ asks_[i].at > asks_[j].at

\* Between calls the book is not crossed, unless by an order that a caller put
\* there with insert_order: no bid meets an ask.
BookUncrossed ==
  incoming = NoOrder =>
    \A b \in Range(bids_), a \in Range(asks_) : can_match(b, a) => b.direct \/ a.direct

\* An id is in the book once, so CancelOrder removes the order it means, and
\* the order being added is not in the book yet.
IdsUnique ==
  /\ \A i, j \in 1..Len(bids_) : bids_[i].id = bids_[j].id => i = j
  /\ \A i, j \in 1..Len(asks_) : asks_[i].id = asks_[j].id => i = j
  /\ \A b \in Range(bids_), a \in Range(asks_) : b.id # a.id
  /\ incoming # NoOrder => ~is_dupe(incoming)

\* Nothing is traded twice or forgotten: what an order was to trade is what it
\* has traded plus what is still open of it, in the book or in AddOrder's
\* `remaining`, also after a call that threw in the middle of the loop.
QuantitiesConserved ==
  LET live == Resting \cup
              (IF incoming # NoOrder /\ incoming.qty > 0 THEN {incoming} ELSE {})
  IN  /\ \A o \in live : traded[o.id] + o.qty = asked[o.id]
      /\ \A i \in Id : (\A o \in live : o.id # i) => traded[i] = asked[i]

\* The sorted vectors implement matching by price and time on a set of orders.
Matching == INSTANCE PriceTimeMatching WITH
  resting <- Resting,
  trades <- [k \in 1..Len(trades) |->
               [bid |-> trades[k].OrderIdA, ask |-> trades[k].OrderIdB,
                aggressor |-> trades[k].AggressorOrderId,
                level |-> trades[k].Level, size |-> trades[k].Size]]

\* Every trade is with the order that has priority, at the ask's price, for
\* the smaller of the two quantities, and the loop stops exactly when nothing
\* crosses, or throws.  OrderIdA is the bid and OrderIdB the ask, as the comment
\* at 173 has it; the one at 89 has it otherwise, see OrderIdBIsAggressor.
ImplementsMatching == Matching!Spec

\* What the comment on Trade::OrderIdB (89) says: it is the aggressor's OrderId.
OrderIdBIsAggressor ==
  \A k \in 1..Len(trades) : trades[k].OrderIdB = trades[k].AggressorOrderId

=============================================================================

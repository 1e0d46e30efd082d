-------------------------- MODULE PriceTimeMatching --------------------------
(***************************************************************************)
(* What a limit order book promises, with the resting orders as a plain    *)
(* set: an incoming order trades, as long as prices cross, with the        *)
(* resting order of the other side that has the best price and, at that    *)
(* price, came first; what is left of it rests, unless the call fails.     *)
(* Orderbook is shown to implement it with two sorted vectors.             *)
(***************************************************************************)
EXTENDS Integers, Sequences

CONSTANTS Id, Price, Quantity, NoOrder

VARIABLES
  resting,   \* the orders in the book
  incoming,  \* the order being added, or NoOrder
  trades,    \* the trades of the current, or last, AddOrder
  arrivals   \* how many orders were accepted

vars == <<resting, incoming, trades, arrivals>>

Init == resting = {} /\ incoming = NoOrder /\ trades = <<>> /\ arrivals = 0

Opposite(o) == {r \in resting : r.buy # o.buy}

Crosses(o, r) == IF o.buy THEN o.level >= r.level ELSE r.level >= o.level

\* r goes before s, an order of the same side.
Before(r, s) ==
  \/ r.buy /\ r.level > s.level
  \/ ~r.buy /\ r.level < s.level
  \/ r.level = s.level /\ r.at < s.at

Known(id) == \E r \in resting : r.id = id

Accept(o) ==
  /\ incoming = NoOrder /\ ~Known(o.id) /\ o.at = arrivals
  /\ incoming' = o
  /\ trades' = <<>>
  /\ arrivals' = arrivals + 1
  /\ UNCHANGED resting

Refuse(o) ==
  /\ incoming = NoOrder /\ Known(o.id)
  /\ trades' = <<>>
  /\ UNCHANGED <<resting, incoming, arrivals>>

\* An order that is put into the book as it is.
Place(o) ==
  /\ incoming = NoOrder /\ ~Known(o.id) /\ o.at = arrivals
  /\ resting' = resting \cup {o}
  /\ arrivals' = arrivals + 1
  /\ UNCHANGED <<incoming, trades>>

PlaceRefused(o) ==
  /\ incoming = NoOrder /\ Known(o.id)
  /\ arrivals' = arrivals + 1
  /\ UNCHANGED <<resting, incoming, trades>>

Execute(r) ==
  LET size == IF r.qty < incoming.qty THEN r.qty ELSE incoming.qty
  IN  /\ incoming # NoOrder /\ incoming.qty > 0
      /\ r \in Opposite(incoming) /\ Crosses(incoming, r)
      /\ \A s \in Opposite(incoming) : s = r \/ Before(r, s)
      /\ resting' = (resting \ {r}) \cup
                    (IF r.qty = size THEN {} ELSE {[r EXCEPT !.qty = @ - size]})
      /\ incoming' = [incoming EXCEPT !.qty = @ - size]
      /\ trades' = Append(trades,
           [bid |-> IF incoming.buy THEN incoming.id ELSE r.id,
            ask |-> IF incoming.buy THEN r.id ELSE incoming.id,
            aggressor |-> incoming.id,
            level |-> IF incoming.buy THEN r.level ELSE incoming.level,
            size |-> size])
      /\ UNCHANGED arrivals

Finish ==
  /\ incoming # NoOrder
  /\ incoming.qty <= 0 \/ \A r \in Opposite(incoming) : ~Crosses(incoming, r)
  /\ resting' = resting \cup (IF incoming.qty > 0 THEN {incoming} ELSE {})
  /\ incoming' = NoOrder
  /\ UNCHANGED <<trades, arrivals>>

\* A failure ends the call: nobody learns of its trades, and nothing rests.
Abandon ==
  /\ incoming # NoOrder
  /\ incoming' = NoOrder /\ trades' = <<>>
  /\ UNCHANGED <<resting, arrivals>>

Cancel(id) ==
  /\ incoming = NoOrder
  /\ resting' = {r \in resting : r.id # id}
  /\ UNCHANGED <<incoming, trades, arrivals>>

Next ==
  \/ \E id \in Id, level \in Price, buy \in BOOLEAN, qty \in Quantity, direct \in BOOLEAN :
       LET o == [id |-> id, level |-> level, buy |-> buy, qty |-> qty,
                 at |-> arrivals, direct |-> direct]
       IN  IF direct THEN Place(o) \/ PlaceRefused(o) ELSE Accept(o) \/ Refuse(o)
  \/ \E r \in resting : Execute(r)
  \/ Finish
  \/ Abandon
  \/ \E id \in Id : Cancel(id)

Spec == Init /\ [][Next]_vars

=============================================================================

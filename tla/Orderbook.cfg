\* Three orders of none to two units at two prices, with ids that are used again
\* after a fill or a cancellation.
SPECIFICATION Spec
CONSTANTS
  Id = {i1, i2, i3}
  Price = {1, 2}
  Quantity = {0, 1, 2}
  NoOrder = NoOrder
  MaxOrders = 3
INVARIANTS
  BookSorted
  BookUncrossed
  IdsUnique
  QuantitiesConserved
PROPERTY ImplementsMatching
\* The run ends when all orders are in and all are cancelled.
CHECK_DEADLOCK FALSE

\* A bid that meets an ask.
SPECIFICATION Spec
CONSTANTS
  Id = {i1, i2}
  Price = {1, 2}
  Quantity = {1, 2}
  NoOrder = NoOrder
  MaxOrders = 2
INVARIANT OrderIdBIsAggressor
CHECK_DEADLOCK FALSE

\* Up to six elements: arrays of 1, 3 and 9 slots, and those that shrink_to_fit
\* and resize make.
SPECIFICATION Spec
CONSTANTS
  Value = {v}
  Default = Default
  Raw = Raw
  MaxSize = 6
  MaxCap = 10
INVARIANTS
  InBounds
  NoLeak
PROPERTY ImplementsStack
\* A behaviour ends with a call that is undefined.
CHECK_DEADLOCK FALSE

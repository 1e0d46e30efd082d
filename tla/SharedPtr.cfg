\* Two threads, four handles, three control blocks: one block may be shared by
\* three handles while the fourth is reset, renewed or fails to be renewed.
SPECIFICATION Spec
CONSTANTS
  Thread = {t1, t2}
  Handle = {h1, h2, h3, h4}
  Block = {b1, b2, b3}
  Null = Null
SYMMETRY Symmetry
INVARIANTS
  CountExact
  NoUseAfterFree
  NoLeak
CHECK_DEADLOCK FALSE

\* Tcp: two threads, a server that can be moved to another object, a client and an
\* accepted socket; three descriptors, so that numbers run out and are reused.
\* Config: files of up to three lines, one change to the file, two loads.
SPECIFICATION NetworkSpec
CONSTANTS
  Thread = {t1, t2}
  Server = {s1, s2}
  Client = {c}
  Socket = {a}
  NoHandle = NoHandle
  MaxFd = 2
  Lines <- MCLines
  Meaning <- MCMeaning
  Numeral <- MCNumeral
  NoFile = NoFile
  MaxLines = 3
  MaxEdits = 1
  MaxLoads = 2
INVARIANTS
  OneOwner
  LoadMerges
  AddressIsMeant
PROPERTIES
  NobodyElseCloses
  LoadVerdict
SYMMETRY Symmetry
CHECK_DEADLOCK FALSE

\* A load that cannot read the file to its end.
SPECIFICATION TomlSpec
CONSTANTS
  Lines <- MCLines
  Meaning <- MCMeaning
  Numeral <- MCNumeral
  NoFile = NoFile
  MaxLines = 2
  MaxEdits = 0
  MaxLoads = 1
INVARIANT TrueIsSuccess
CHECK_DEADLOCK FALSE

SPECIFICATION Spec
CONSTANTS
  MaxContent = 4
  MaxWords = 2
  MaxU32 = 2
  MaxStray = 0
  Junk = Junk
CHECK_DEADLOCK FALSE
INVARIANTS TypeOK InStep TruncationIsSeen MessageArrivesWhole TopIsAStart WireInv

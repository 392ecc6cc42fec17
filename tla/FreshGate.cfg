SPECIFICATION Spec
CONSTANTS
  l1 = l1
  Lines = {l1, l2}
  Direct = direct
  Addresses = {a, b}
  Rank <- MCRank
  Group <- MCGroup
  Batch = 1
  HintLimit = 1
  MaxMoves = 2
PROPERTY TakingKeepsTheGate
CHECK_DEADLOCK FALSE

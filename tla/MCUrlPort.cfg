SPECIFICATION Spec
CONSTANTS
  Combine <- CombineUrl
  NoUrl <- NoResult
  Inputs <- WebInputs
  LowerCase <- MCLowerCase
  Words <- MCWords
  Ports <- MCPorts
  Digits <- MCDigits
  LongWords <- MCLongWords
  MaxPieces = 4
  MaxStack = 3
  MaxLinks = 2
CHECK_DEADLOCK FALSE
INVARIANT
  BuildIsInverse

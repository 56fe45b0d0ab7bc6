SPECIFICATION Spec
CONSTANTS
  RxSize = 5
  TxSize = 3
  ClaimSize = 4
  Lengths = {0, 1, 2}
  MaxMessages = 3
  WriteLengths = {2}
  MaxBytes = 4
INVARIANTS
  DeliveredInOrder
  NothingForgotten
  TxNeverStalls
  SentWhole
CHECK_DEADLOCK FALSE

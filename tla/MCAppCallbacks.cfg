SPECIFICATION Spec
CONSTANTS
  MaxCount = 3
  Blocks = {b1, b2, b3, b4}
  Topics <- MCTopics
  FullLength <- MCFullLength
  Prefix <- MCPrefix
  Callbacks = {f, g}
  None = None
  Junk = Junk
INVARIANTS
  TypeOK
  RightCallback
  SubscriberIsFound
SYMMETRY Symmetry

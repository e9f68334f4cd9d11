SPECIFICATION FairSpec
CONSTANTS
  Blocks = {b1}
  MaxRetries = 2
INVARIANTS
  TypeOK
  NoPingOutlivesBlock
  LeavesNoSession
PROPERTIES
  BlockIsLeft
  ImplementsLifecycle

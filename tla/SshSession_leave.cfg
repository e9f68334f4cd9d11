SPECIFICATION MainFairSpec
CONSTANTS
  Blocks = {b1}
  MaxRetries = 2
  InterruptAt = {"connecting", "starting", "disconnecting"}
INVARIANTS
  TypeOK
  AtMostOnePingAfterStop
  LeavesNoSession
PROPERTIES
  BlockIsLeft
  ImplementsLifecycle

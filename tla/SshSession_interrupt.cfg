SPECIFICATION Spec
CONSTANTS
  Blocks = {b1}
  MaxRetries = 1
  InterruptAt = {"joining"}
INVARIANTS
  DisconnectedEvenOnError

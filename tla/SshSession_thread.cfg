SPECIFICATION FairSpec
CONSTANTS
  Blocks = {b1}
  MaxRetries = 1
  InterruptAt = {"joining", "leaving", "disconnecting"}
PROPERTIES
  
  SessionKeptAlive

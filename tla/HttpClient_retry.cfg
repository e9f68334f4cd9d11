SPECIFICATION FairSpec
CONSTANTS
  Calls = {c1}
  CallMethods = {"GET", "POST"}
  MaxRetries = 2
  PoolSize = 1
  Answers <- MCAnswers
INVARIANTS
  TypeOK
  RepeatsOnlyLostAttempts
  SuccessMeansExecuted
  GivesUpOnlyWhenExhausted
  StreamNeverReplayed
PROPERTIES
  ImplementsDelivery

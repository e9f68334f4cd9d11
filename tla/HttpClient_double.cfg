SPECIFICATION Spec
CONSTANTS
  Calls = {c1}
  CallMethods = {"POST"}
  MaxRetries = 1
  PoolSize = 1
  Answers <- MCAnswers
INVARIANTS
  UnsafeAtMostOnce

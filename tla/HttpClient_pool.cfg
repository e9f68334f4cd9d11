SPECIFICATION FairSpec
CONSTANTS
  Calls = {c1, c2}
  CallMethods = {"POST"}
  MaxRetries = 1
  PoolSize = 1
  Answers <- MCTwoAnswers
INVARIANTS
  ConnectionsGivenBack
PROPERTIES
  EveryCallEnds

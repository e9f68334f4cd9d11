SPECIFICATION Spec
CONSTANTS
  Callers = {c1, c2}
  MaxExchanges = 2
  MaxRetries = 1
  DefaultHeaders <- MCDefaultHeaders
INVARIANTS
  TypeOK
  
  TokenReachesClient
  LoginSpeaksAnonymously
PROPERTIES
  CredentialFollowsExchange
  ExchangeEnds

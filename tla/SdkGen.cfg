SPECIFICATION Spec
CONSTANTS
  operations <- MCOperations
  snake_case <- MCSnakeCase
  Keywords = {"import", "from"}
  Committed <- MCCommitted
  Maps <- MCMaps
  LiveCalls <- MCLiveCalls
  MaxRuns = 2
  MaxFailures = 1
INVARIANTS
  TypeOK
  
  Converges
  TestedMeansFaithful
  ReadmeListsWhatExists
PROPERTIES
  ClientsWiredLast

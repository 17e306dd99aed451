SPECIFICATION FairSpec
CONSTANTS
  Calls = {"first", "second", "third"}
  Kinds <- MCKinds
  Needs <- MCNeeds
  Work <- MCWork
  PoolSize = 2
  MaxFailures = 1
INVARIANTS
  TablesExist
PROPERTIES
  EveryCallAnswered
  ImplementsTransactionalCalls

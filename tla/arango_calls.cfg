SPECIFICATION FairSpec
CONSTANTS
  Calls = {"first", "second"}
  Kinds <- MCKinds
  Needs <- MCNeeds
  Work <- MCWork
  Refresh = "onAuthError"
  Environment = {"expiresInside", "loses"}
  MaxLogins = 2
  MaxFailures = 1
INVARIANTS
  AppliedOnce
  RefreshHelps
  CollectionsExist
  LeaksOnlyWhenCut
PROPERTIES
  EveryCallAnswered
  ImplementsTransactionalCalls

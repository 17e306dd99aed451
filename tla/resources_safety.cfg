SPECIFICATION Spec
CONSTANTS
  r1 = r1
  r2 = r2
  Resources = {r1, r2}
  Backend = "postgres"
  Environment = {"foreign", "ambiguous", "undecodable"}
  MaxClock = 4
  MaxVersion = 4
  MaxFailures = 2
SYMMETRY Symmetry
PROPERTY ImplementsVersionedDocuments
INVARIANTS
  NothingMadeIsLost
  ConflictOnlyFromOutside
  EmptyCommitSavesAll

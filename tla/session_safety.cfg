SPECIFICATION Spec
CONSTANTS
  e1 = e1
  e2 = e2
  k1 = k1
  k2 = k2
  Entities = {e1, e2}
  Keys = {k1, k2}
  NoEntity = NoEntity
  NoKey = NoKey
  Environment = {"foreign", "ambiguous"}
  MaxClock = 3
  MaxVersion = 3
  MaxFailures = 1
SYMMETRY Symmetry
PROPERTY ImplementsVersionedDocuments
INVARIANTS
  NoEditLost
  NoDespawnLost
  ConflictOnlyFromOutside
  OneEntityPerKey
  CommitsNeverPoisoned
  RecordedIsStored

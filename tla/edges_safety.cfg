SPECIFICATION Spec
CONSTANTS
  e1 = e1
  e2 = e2
  e3 = e3
  Entities = {e1, e2, e3}
  NoTarget = NoTarget
  Environment = {}
  MaxLinks = 2
  MaxRemovals = 1
  MaxFailures = 1
SYMMETRY Symmetry
INVARIANTS
  EdgesFollowRelationships
  SnapshotIsStored
  OneEdgePerSource
  EdgeEndsStored

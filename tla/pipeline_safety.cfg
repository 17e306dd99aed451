SPECIFICATION Spec
CONSTANTS
  c1 = c1
  c2 = c2
  l1 = l1
  w1 = w1
  w2 = w2
  s1 = s1
  Units = {c1, l1}
  Links = {l1}
  Waiters = {w1}
  Stores = {s1}
  EmptyStore = EmptyStore
  NoCid = NoCid
  MaxChanges = 2
  MaxQueue = 2
  MaxFailures = 1
INVARIANTS
  TypeOK
  SingleFlight
  NoMarkLost
  OkMeansDurable
PROPERTY ImplementsWriteBehind

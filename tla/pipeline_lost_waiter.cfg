SPECIFICATION Spec
CONSTANTS
  c1 = c1
  c2 = c2
  l1 = l1
  w1 = w1
  w2 = w2
  s1 = s1
  Units = {c1}
  Links = {}
  Waiters = {w1}
  Stores = {s1}
  EmptyStore = EmptyStore
  NoCid = NoCid
  MaxChanges = 2
  MaxQueue = 1
  MaxFailures = 0
INVARIANT FirstTriggerKeepsItsWaiter

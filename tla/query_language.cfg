SPECIFICATION Spec
CONSTANTS
  Components = {"Health", "Position", "Name"}
  Keys = {"k1", "k2"}
  FieldsOf <- MCFieldsOf
  Filters <- MCFilters
  Alternatives <- MCAlternatives
  MaxCalls = 3
  Environment = {}
INVARIANTS
  FindsWhatIsMeant
  LoadedStillMatches
  AskedIsLoaded

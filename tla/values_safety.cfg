SPECIFICATION Spec
CONSTANTS
  Items = {"first", "second"}
  Names = {"id", "x", "y"}
  Optional = {"y"}
  KeyField = "id"
  Atoms = {"small", "large", "null"}
  Null = "null"
  Large = "large"
  TypesOf <- MCTypesOf
  Kinds = {"component", "resource"}
  Backends = {"postgres", "arango"}
  Environment = {}
PROPERTY LoadedIsCommitted

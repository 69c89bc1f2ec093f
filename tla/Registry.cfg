CONSTANTS
  Paths = {"exact", "pattern"}
  Interfaces = {"f1", "f2"}
  Methods = {"m1", "m2"}
  Handlers = {"h1", "h2"}
  Arities = {1}
  CalledPaths = {"here", "there", "nowhere"}
  Matches <- MCMatches
  Messages <- MCMessages
  None = None
  MaxMethods = 2
SPECIFICATION Spec
INVARIANTS
  NamesUnique
  NoEmptyLevels
PROPERTIES
  ImplementsTable

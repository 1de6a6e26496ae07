CONSTANTS
  NumBreakpoints = 3
  Addresses <- MCAddresses
SPECIFICATION Spec
INVARIANTS
  TypeOK
  UsedIsEnabled
  NoDuplicates
PROPERTY
  ImplementsSet

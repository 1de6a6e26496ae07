CONSTANTS
  SECTION_SIZE = 2
  NumSections = 4
  Boundaries = {0, 1}
  Attributes = {0, 1}
  Bases <- MCBases
  Mappings <- MCMappings
  Contents <- MCContents
  Lengths = {0, 1, 2, 3, 5}
  Data <- MCData
SPECIFICATION Spec
INVARIANTS
  ReadsAllItCan
  WritesAllOrNothing
CHECK_DEADLOCK FALSE

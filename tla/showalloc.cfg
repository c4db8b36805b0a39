SPECIFICATION Spec
CONSTANTS
  Low = 16
  Networks <- SomeNetworks
  Endpoints <- SomeEndpoints
  Requests <- SomeRequests
  None = None
CHECK_DEADLOCK FALSE
INVARIANTS
  TypeOK
  ExactMap
PROPERTIES
  HolderNamed

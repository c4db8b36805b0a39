SPECIFICATION Spec
CONSTANTS
  p = p
  q = q
  stranger = stranger
  Peers = {p, q, stranger}
  RuleSets <- SomeLists
  Successors <- SameChains
  MaxRuns = 2
  MaxErrors = 1
CHECK_DEADLOCK FALSE
INVARIANTS
  TypeOK
  DefaultIsolation
  CutOffToReturn
  ClosedToUnlisted
PROPERTIES
  IsolationSpec
  NothingClosedInVain

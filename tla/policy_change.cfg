SPECIFICATION Spec
CONSTANTS
  p = p
  q = q
  stranger = stranger
  Peers = {p, q, stranger}
  RuleSets <- SomeLists
  Successors <- AnyChange
  MaxRuns = 2
  MaxErrors = 0
CHECK_DEADLOCK FALSE
INVARIANTS
  DefaultIsolation

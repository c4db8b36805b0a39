SPECIFICATION FairSpec
CONSTANTS
  Labels = {"web", "db"}
  BucketOf <- OwnBuckets
  Networks = {"storage", "mgmt"}
  Names = {n1}
  LabelSets = {{"web"}, {}}
  AllPolicies <- PlainPolicies
  Standing <- Databases
  Passing <- OnlyPods
  Open = Open
  MaxRetryCount = 2
  MaxUid = 2
  MaxErrors = 1
  MaxRestarts = 1
CHECK_DEADLOCK FALSE
INVARIANTS
  TypeOK
PROPERTIES
  ExactSelection
  NeverForgotten
  WorkRunsOut
  IsolatedInTheEnd
  NobodyWaits

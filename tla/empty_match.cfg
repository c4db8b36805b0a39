SPECIFICATION Spec
CONSTANTS
  Labels = {"web", "db"}
  BucketOf <- OwnBuckets
  Networks = {"storage", "mgmt"}
  Names = {n1}
  LabelSets = {{"web"}, {}}
  AllPolicies <- PlainPolicies
  Standing <- NoDatabase
  Passing <- OnlyPods
  Open = Open
  MaxRetryCount = 2
  MaxUid = 1
  MaxErrors = 0
  MaxRestarts = 0
CHECK_DEADLOCK FALSE
PROPERTIES
  ExactSelection

SPECIFICATION Spec
CONSTANTS
  p = p
  q = q
  w1 = w1
  w2 = w2
  d4 = d4
  d6 = d6
  c4 = c4
  c6 = c6
  Names = {p, q}
  Workers = {w1, w2}
  Ticker = Ticker
  Ifaces = {eth0}
  V4 = {d4}
  V6 = {d6}
  NoIP = NoIP
  Cidr = {d4, d6}
  NetTypes = {"danm"}
  Stacks <- Mixed
  NoEp = NoEp
  NoKey = NoKey
  Faults = {"late_del"}
  MaxUid = 2
  MaxErrors = 1
  MaxCrashes = 1
SYMMETRY Interchangeable
INVARIANTS
  TypeOK
  NoLiveTarget
  NoLeakedAddress
  OneWorkerPerPod
PROPERTIES
  LedgerSpec

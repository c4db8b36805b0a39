SPECIFICATION Spec
CONSTANTS
  p = p
  q = q
  w1 = w1
  w2 = w2
  d4 = d4
  d6 = d6
  c4 = c4
  c6 = c6
  Names = {p}
  Workers = {w1}
  Ticker = Ticker
  Ifaces = {eth0}
  V4 = {d4, c4}
  V6 = {d6, c6}
  NoIP = NoIP
  Cidr = {d4, d6}
  NetTypes = {"danm", "calico"}
  Stacks <- DualStack
  NoEp = NoEp
  NoKey = NoKey
  Faults = {"name_reuse"}
  MaxUid = 2
  MaxErrors = 0
  MaxCrashes = 0
INVARIANTS
  NoLiveTarget

SPECIFICATION FairSpec
CONSTANTS
  Worker = {w1, w2}
  Port = {p1, p2}
  NodePort = {n1, n2}
  Instance = {i1, i2}
  Node = {i1, i2, gone}
  Address = {a1}
  HealthCheck = {h0}
  DefaultHealth = h0
  Unset = unset
  MaxPorts = 2
  Requests <- OtherRequests
  Leftovers <- Nothing
INVARIANTS Converged NothingLeft CallersInv
PROPERTIES NoDisruption StaysMatched ImplementsContract CallReturns


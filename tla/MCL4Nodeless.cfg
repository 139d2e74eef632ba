SPECIFICATION Spec
CONSTANTS
  Worker = {w1}
  Port = {p1}
  NodePort = {n1}
  Instance = {i1, i2}
  Node = {i1, i2, gone}
  Address = {a1}
  HealthCheck = {h0}
  DefaultHealth = h0
  Unset = unset
  MaxPorts = 3
  Requests <- NodelessRequests
  Leftovers <- Nothing
INVARIANTS TargetsAreNodes

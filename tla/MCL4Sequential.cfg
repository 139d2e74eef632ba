SPECIFICATION Spec
CONSTANTS
  Worker = {w1}
  Port = {p1, p2, p3}
  NodePort = {n1, n2}
  Instance = {i1, i2}
  Node = {i1, i2, gone}
  Address = {a1}
  HealthCheck = {h0}
  DefaultHealth = h0
  Unset = unset
  MaxPorts = 2
  Requests <- SequentialRequests
  Leftovers <- AnyLoadBalancer
INVARIANTS TypeOK Converged
PROPERTIES NeverVanishes TargetsNeverEmptied RefusedOnConflictOnly
SYMMETRY Interchangeable

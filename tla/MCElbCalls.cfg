SPECIFICATION Spec
CONSTANTS
  Port = {p1, p2}
  NodePort = {n1, n2, zero}
  Unallocated = zero
  Instance = {i1, i2}
  Node = {i1, i2, gone}
  Group = {g1}
  GroupsOf <- SharedGroups
  TwoArm = TRUE
  MaxPorts = 2
  Requests <- CallRequests
  Leftovers <- AnyLoadBalancer
INVARIANTS TypeOK ListenersConverged OnePortConverged NothingLeft ListenersInv
PROPERTIES NeverVanishes TargetsNeverEmptied ImplementsContract RefusedForCause
SYMMETRY Interchangeable

SPECIFICATION ReliableSpec
CONSTANTS
  Port = {p1}
  NodePort = {n1, zero}
  Unallocated = zero
  Instance = {i1, i2}
  Node = {i1, i2}
  Group = {g1}
  GroupsOf <- SharedGroups
  TwoArm = FALSE
  MaxPorts = 2
  Requests <- NodeRequests
  Leftovers <- Nothing
INVARIANTS Reachable

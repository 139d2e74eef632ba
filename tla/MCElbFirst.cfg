SPECIFICATION ReliableSpec
CONSTANTS
  Port = {p1, p2}
  NodePort = {n1, n2, zero}
  Unallocated = zero
  Instance = {i1, i2}
  Node = {i1, i2}
  Group = {i1, i2}
  GroupsOf <- OwnGroups
  TwoArm = FALSE
  MaxPorts = 2
  Requests <- StableRequests
  Leftovers <- Nothing
INVARIANTS TargetsConverged

SPECIFICATION SteadySpec
CONSTANTS
  Port = {p1, p2, p3}
  NodePort = {n1, n2, n3, zero}
  Unallocated = zero
  Instance = {i1, i2}
  Node = {i1, i2}
  Group = {i1, i2}
  GroupsOf <- OwnGroups
  TwoArm = FALSE
  MaxPorts = 3
  Requests <- RulesRequests
  Leftovers <- Nothing
INVARIANTS Reachable NoStrayRules
PROPERTIES RulesStay NeverRefused

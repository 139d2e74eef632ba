SPECIFICATION FairSpec
CONSTANTS
  Port = {p1, p2}
  NodePort = {n1, n2, zero}
  Unallocated = zero
  Instance = {i1}
  Node = {i1}
  Group = {g1}
  GroupsOf <- NoGroups
  TwoArm = FALSE
  MaxPorts = 2
  Requests <- Versions
  Leftovers <- NoLeftovers
PROPERTIES ImplementsContract CallReturns

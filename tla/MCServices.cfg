SPECIFICATION SmallSpec
CONSTANTS
  Port = {p}
  NodePort = {n1, n2, zero}
  Unallocated = zero
  PortLists <- OnePort
  MaxPorts = 1
  Node = {m, n}
  Lasting = {m}
  Itself = itself
  MaxChanges = 2
INVARIANTS TypeOK Guarded
PROPERTIES EventuallySettled
CHECK_DEADLOCK FALSE

SPECIFICATION FairSpec
CONSTANTS
  Machine = {m1, m2}
  Name = {a, b}
  Zone = {z}
  ZoneOf <- OneZone
  Alien = {alien}
INVARIANTS TypeOK InitialisedBound TargetsAreHosts InterfacesAgree
PROPERTIES NodesSurvive GoneNodesGo StoppedNodesTainted
CHECK_DEADLOCK FALSE

SPECIFICATION Spec
CONSTANTS
  None = none
  Says <- Texts
  Examples <- Services
  IPAddress <- IP
  Atoi <- NumberOf
  Split <- Pieces
  MaxChanges = 4
INVARIANTS TypeOK ValidatedConstructs InterfacesComplete

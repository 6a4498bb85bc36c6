SPECIFICATION Spec
CONSTANTS
  Sessions = {s1}
  PageIds = {p1}
  Codes = {c1, c2}
  MaxViewer = 2
  MaxGrant = 2
  MaxClock = 3
  TokenTTL = 2
  Grace = 1
INVARIANTS
  OneUnlock
PROPERTIES
  IdleLocks
  KeepsRight

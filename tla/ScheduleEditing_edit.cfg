SPECIFICATION Spec
CONSTANTS
  Owners = {o1}
  Managers = {o1}
  Tasks = {t1}
  Blocks = {b1, b2}
  Viewers = {v1, v2}
  Days = {1, 2, 3}
  Shifts = {1}
  Today = 1
  Bounds <- MCBounds
INVARIANTS RemindedOnce PageFresh
PROPERTIES ReplacedExactly
CHECK_DEADLOCK FALSE

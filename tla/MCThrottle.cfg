SPECIFICATION Spec
CONSTANTS
  Accounts = {alice, bob}
  Lens = {1, 2, 7}
  MaxBytes = 3
  WindowSize = 3
  U64Max = 7
  MaxBlock = 7
INVARIANTS
  TypeOK
  TwiceTheLimitAtMost
  RefusalsJustified
CHECK_DEADLOCK FALSE
SYMMETRY Symmetry

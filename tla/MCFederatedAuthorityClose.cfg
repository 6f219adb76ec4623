SPECIFICATION Spec
CONSTANTS
  Calls = {remark, upgrade}
  Fragile = {upgrade}
  Bodies = {council, committee, third}
  MaxBodies = 2
  MotionDuration = 2
  ProportionN = 1
  ProportionD = 1
  NoMotion = NoMotion
INVARIANT
  RemovedWhateverTheOutcome

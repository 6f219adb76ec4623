SPECIFICATION FairSpec
CONSTANTS
  Calls = {remark, upgrade}
  Fragile = {upgrade}
  Bodies = {council, committee, third}
  MaxBodies = 2
  MotionDuration = 2
  ProportionN = 1
  ProportionD = 1
  NoMotion = NoMotion
INVARIANTS
  TypeOK
  ApprovalsStand
PROPERTIES
  EnactedWithConsent
  EndedMotionsFrozen
  MotionsResolve

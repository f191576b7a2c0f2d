SPECIFICATION MCSpec
CONSTANTS
  ann = ann
  bob = bob
  cyd = cyd
  k1 = k1
  k2 = k2
  k3 = k3
  k4 = k4
  k5 = k5
  spring = spring
  autumn = autumn
  w1 = w1
  w2 = w2
  Sales <- MCSales
  Keys = {k1, k2, k3, k4, k5}
  Owner <- MCOwner
  Days = {4, 5, 11, 12}
  Scopes <- MCScopes
  Clv <- MCClv
  VipMinimum = 2
  NoRow = NoRow
  NoState = NoState
  NoFile = NoFile
  None = None
  MinCell = 1
  ShrinkageK = 2
  MinArm = 1
  Target = 50
  Holdout = 20
  UnknownState = UnknownState
  Campaigns = {spring, autumn}
  Workers = {w1}
  Split <- MCSplit
  Kinds = {"rescue", "cycle"}
  Offering <- MCOffering
  Discount <- MCDiscount
  Window = 3
  Never = Never
INVARIANTS LearningTypeOK ChangesRecorded TableSound CountingSound
PROPERTIES SameFileSilent ClosedIsMeasured
CHECK_DEADLOCK FALSE

CONSTANTS
  p1 = p1
  p2 = p2
  foreign = foreign
  open = open
  close = close
  tilt = tilt
  Families = {p1, p2, foreign}
  Panels = {p1}
  Actions = {open, close, tilt}
  LearnedActions = {open, close}
  Endpoints <- ForeignEndpoint
  HeardFrames <- OnePanelOnAir
  IndexSpace = 4
  BatchCapacity = 2
  Copies = 2
  RelayCopies = 1
  TargetGapTicks = 1
  TickTime = 1
  BurstGuard = 1
  GuardSlack = 0
  CooldownTime = 1
  RepeatBudget = 2
  RepeatWindow = 4
  RepeatDelay = 1
  MaxCommands = 2
SPECIFICATION Spec
INVARIANTS TypeOK LearningIsSilent RelayFailsClosed RelayOnlyWithConsent ResultOfLastCommand SuccessIsCurrent BudgetIsBounded
PROPERTIES RepeatsAreAuthorised FaultNeedsRearming

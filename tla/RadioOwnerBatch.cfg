CONSTANTS
  p1 = p1
  p2 = p2
  foreign = foreign
  open = open
  close = close
  tilt = tilt
  Families = {p1, p2, foreign}
  Panels = {p1, p2}
  Actions = {open, close, tilt}
  LearnedActions = {open}
  Endpoints <- ForeignEndpoint
  HeardFrames <- OneRemoteOnAir
  IndexSpace = 4
  BatchCapacity = 2
  Copies = 1
  RelayCopies = 1
  TargetGapTicks = 1
  TickTime = 0
  BurstGuard = 0
  GuardSlack = 0
  CooldownTime = 1
  RepeatBudget = 2
  RepeatWindow = 2
  RepeatDelay = 1
  MaxCommands = 1
SPECIFICATION Spec
INVARIANT DurableBeforeAir
PROPERTY RepeatsAreAuthorised

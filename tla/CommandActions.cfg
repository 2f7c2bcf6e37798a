CONSTANTS
  p1 = p1
  p2 = p2
  open = open
  a = a
  b = b
  Families = {p1, p2}
  Panels = {p1, p2}
  Actions = {open}
  LearnedActions = {open}
  Endpoints = {}
  HeardFrames = {}
  IndexSpace = 4
  BatchCapacity = 2
  Copies = 1
  RelayCopies = 1
  TargetGapTicks = 1
  TickTime = 1
  BurstGuard = 2
  GuardSlack = 1
  CooldownTime = 1
  RepeatBudget = 2
  RepeatWindow = 3
  RepeatDelay = 1
  MaxCommands = 2
  Callers = {a, b}
  ActionWait = 4
SYMMETRY Symmetries
SPECIFICATION ActionSpec
PROPERTY AnswersAreTrue
VIEW Relevant
ACTION_CONSTRAINT CapturedAtZero

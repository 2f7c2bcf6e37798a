CONSTANTS
  f1 = f1
  f2 = f2
  f3 = f3
  Frames = {f1, f2, f3}
  CacheCapacity = 2
  SuppressTime = 2
  ClockSpan = 4
  FifoDepth = 2
  PollReads = 2
SYMMETRY Symmetries
SPECIFICATION Spec
PROPERTY KeepsAttribution

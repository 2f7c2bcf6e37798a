CONSTANTS
  p1 = p1
  p2 = p2
  open = open
  close = close
  t1 = t1
  Families = {p1, p2}
  Actions = {open, close}
  IndexSpace = 4
  Tokens = {t1}
  HeardFrames <- TwoRemotes
  CandidateCapacity = 2
  SampleCapacity = 2
  PressGap = 1
  CaptureTime = 2
  SessionTime = 3
SPECIFICATION FairSessionSpec
INVARIANTS SessionTypeOK OneTarget
PROPERTIES NeverAGuess IndexOfTarget SessionEnds KeepsPromise

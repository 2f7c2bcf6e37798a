CONSTANTS
  p = p
  q = q
  MaxItems = 3
  LineBytes = {1, 2}
  MaxBytes = 3
  Samples = 2
  Payloads = {p, q}
  FileSamples = 20
  SymbolSamples = 2
  FrameSamples = 5
  Block = 8
  Overlap = 6
  Lookback = 2
  Window = 3
  MaxHeard = 2
SPECIFICATION Spec
INVARIANT FramesOnce
PROPERTIES KeepsRecordings ReportedIsComplete

CONSTANTS
  p1 = p1
  p2 = p2
  open = open
  close = close
  tilt = tilt
  t1 = t1
  Families = {p1, p2}
  Actions = {open, close, tilt}
  IndexSpace = 4
  Tokens = {t1}
  PanelCount = 2
  RelayCount = 1
SYMMETRY Symmetries
VIEW Relevant
SPECIFICATION Spec
INVARIANTS TypeOK EverySlotIsDurable NoAmbiguityWithoutFault OneRecordPerSession
PROPERTIES NothingOverwritesAFault

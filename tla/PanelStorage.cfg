CONSTANTS
  LegacyIndex = 1
  MaxIndex = 4
SPECIFICATION Spec
INVARIANTS NeverFallsBack HeldIsNotEmpty

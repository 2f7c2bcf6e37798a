SPECIFICATION FairSpec
INVARIANTS PauseIsReleased ImageIsPinned
PROPERTIES ScannerNotStranded ContractPasses

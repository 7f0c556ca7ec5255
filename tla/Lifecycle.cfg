SPECIFICATION LifeSpec
INVARIANTS LifeTypeOK WorkersMatchStart DanglingOnlyWhileStopping
PROPERTY StopReturns
CHECK_DEADLOCK FALSE
CONSTANT MaxStarts = 2

SPECIFICATION StationSpec
INVARIANTS StationTypeOK HandlesAccounted FlagsAgree PortsAccounted CheckedOutputPossible
    ListLearned ArgumentsIntact
PROPERTIES Reconnects EditKeptUntilStored StopHandled ImageQueueIsLossyFifo
CHECK_DEADLOCK FALSE
CONSTANTS
    Handles = {h1, h2}
    RawFrame <- Raw
    BgrFrame <- Bgr
    PortNames = {n1, n2}
    PortHandles = {p1, p2}
    CardNames = {c1}
    CardIds = {1}
    MaxTime = 2
    WordSize = 8
    Times <- SmallTimes
    MaxCards = 1
    FieldValues = {0, 1}
    MaxRows = 2
    PlcBytes = {0, 6}
    MaxStartups = 1
    MAX_VEC_IMAGE_NUM = 2
    MaxImages = 5
    FunctionSet <- SmallFunctions
    CountMod = 16
    ValueCounts = {0, 2, 16}
    ImageCounts = {0, 2, 16}

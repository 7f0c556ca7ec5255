CONSTANTS
  Callers = {c1, c2}
  MaxCalls <- OneBusy
  MaxPolls = 1
  MAX_PACKETDATA_NUM = 2
  MAX_RETURN = 2
SPECIFICATION FairSpec
INVARIANTS TypeOK SkewBounded ReplyTakenOnce
PROPERTIES RefinesLossyFifo CallEnds
CHECK_DEADLOCK FALSE

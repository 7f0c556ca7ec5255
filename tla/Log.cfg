CONSTANTS
  t1 = t1
  t2 = t2
  NumLogs = 3
  Threads = {t1, t2}
  Owner = t1
  MAX_LOG_INSTANCE_NUM = 2
  MAX_VEC_LENGTH = 2
  MAX_IDL_DATA = 0
  HeapBlocks = 3
  MaxLines <- FewLines
SPECIFICATION FairSpec
INVARIANTS TypeOK BuffersConserved InOrderOfThread
PROPERTIES LogIsLossyFifo QueueDrains DeleteEnds
CHECK_DEADLOCK FALSE

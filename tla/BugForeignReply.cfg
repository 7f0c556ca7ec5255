CONSTANTS
  Callers = {c1, c2}
  MaxCalls <- OneBusy
  MaxPolls = 1
  MAX_PACKETDATA_NUM = 2
  MAX_RETURN = 2
SPECIFICATION Spec
INVARIANT ReplyIsOwn
CHECK_DEADLOCK FALSE

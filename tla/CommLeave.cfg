CONSTANTS
  Sockets = {s1, s2}
  NoSocket = NoSocket
  LocalAddr <- OneAddr
  Kinds <- StayersAsk
  Leaving = {s1}
  MAX_PACKETDATA_NUM = 1
  MaxRequests = 1
SPECIFICATION Spec
INVARIANTS LengthsAgree ReplyOnce
CHECK_DEADLOCK FALSE

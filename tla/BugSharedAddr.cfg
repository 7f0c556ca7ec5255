CONSTANTS
  Sockets = {s1, s2}
  NoSocket = NoSocket
  LocalAddr <- OneAddr
  Kinds <- ReqKinds
  Leaving = {}
  MAX_PACKETDATA_NUM = 2
  MaxRequests = 1
SPECIFICATION Spec
INVARIANT RoutedToClient
CHECK_DEADLOCK FALSE

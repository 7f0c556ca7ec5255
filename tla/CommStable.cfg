CONSTANTS
  Sockets = {s1, s2}
  NoSocket = NoSocket
  LocalAddr <- OwnAddr
  Kinds <- OneAsks
  Leaving = {}
  MAX_PACKETDATA_NUM = 2
  MaxRequests = 1
SPECIFICATION FairSpec
INVARIANT RoutedToClient
PROPERTIES NoListDuringWait FunListLearned
CHECK_DEADLOCK FALSE

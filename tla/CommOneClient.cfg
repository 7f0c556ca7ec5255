CONSTANTS
  Sockets = {s1}
  NoSocket = NoSocket
  LocalAddr <- OwnAddr
  Kinds <- AllKinds
  Leaving = {}
  MAX_PACKETDATA_NUM = 2
  MaxRequests = 3
SPECIFICATION FairSpec
INVARIANTS TypeOK RepliesInOrder ReplyReturnsOwnOutputs
PROPERTIES ServesInOrder LastRequestAnswered
CHECK_DEADLOCK FALSE

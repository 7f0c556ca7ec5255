CONSTANTS
  Sockets = {s1, s2}
  NoSocket = NoSocket
  Bodies <- SomeBodies
  Strange <- SomeNumbers
  MaxPackets = 2
  MaxChunk = 8
SPECIFICATION Spec
INVARIANTS TypeOK Framed NothingStuck NoByteTwice
SYMMETRY SocketSymmetry
CHECK_DEADLOCK FALSE

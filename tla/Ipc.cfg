SPECIFICATION Spec
CONSTANTS
  Messages = {m1, m2}
  RingRoom = 1
  MaxAttached = 2
  MaxFailures = 1
INVARIANTS PeersAreThere MessagesAccounted
PROPERTIES HandshakesComplete
CHECK_DEADLOCK FALSE

SPECIFICATION Spec
CONSTANTS
  Readers = {"buffered", "chopped"}
  EndOf <- MCEndOf
  AuthReply = 3
  Replies = {1, 3, 6, 8}
  Throwing = {8}
  MaxRead = 8
  Limit = 3
INVARIANTS TypeOK HandledInOrder MainLoopLosesNone ChoppedPacketsMended
CHECK_DEADLOCK FALSE

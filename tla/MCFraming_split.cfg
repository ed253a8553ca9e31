SPECIFICATION Spec
CONSTANTS
  Readers = {"buffered"}
  EndOf <- MCEndOf
  AuthReply = 3
  Replies = {1, 3, 6, 8}
  Throwing = {8}
  MaxRead = 8
  Limit = 3
INVARIANT SplitPacketsHandled
CHECK_DEADLOCK FALSE

SPECIFICATION Spec
CONSTANTS
  U64Bytes = 2
  WordBytes = 3
  MaxStack = 8
  MaxMemory = 1024
  MaxInitcode = 48
  Messages <- MCMsizeMessages
  Words <- MCWords
  NestedCalls <- MCNestedCalls
CHECK_DEADLOCK FALSE
INVARIANTS
  EnginesAgree

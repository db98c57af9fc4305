SPECIFICATION Spec
CONSTANTS
  Input <- Peers
  Counter = 1
  InitSize = 2
  ReadSize = 4
CHECK_DEADLOCK FALSE
INVARIANTS TypeOK ReadFits UnparsedInOrder ReferencesIntact CountExact MessagesWhole BufferBounded

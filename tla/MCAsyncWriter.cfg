SPECIFICATION FairSpec
CONSTANTS
  Item = {m1, m2}
  Garbage = garbage
  Segments = 2
  MaxPosts = 4
  MaxCloses = 2
CHECK_DEADLOCK FALSE
INVARIANTS TypeOK OneWriteChain
PROPERTIES StreamSpec AllWritten CloseCompletes

SPECIFICATION Spec
CONSTANTS
  Thread = {t1, t2}
  NoMessage = noMessage
  Half = 4
  FirstIdx = 0
  Endpoints = 2
  MaxCalls = 2
  MaxSends = 1
  MaxSettings = 1
CHECK_DEADLOCK FALSE
SYMMETRY Threads
INVARIANTS TypeOK IoThreadServes PromiseHeldOnce AnsweredIsErased CallsNeedConnection
PROPERTY RemoteSpec

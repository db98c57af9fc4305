SPECIFICATION FairSpec
CONSTANTS
  Thread = {t1}
  NoMessage = noMessage
  Half = 1
  FirstIdx <- BeforeZero
  Endpoints = 2
  MaxCalls = 3
  MaxSends = 1
  MaxSettings = 0
CHECK_DEADLOCK FALSE
INVARIANTS ResponseMatchesCall IdsDiffer
PROPERTIES AnswersArrive SendsAreWritten WaitersWake

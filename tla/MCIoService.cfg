SPECIFICATION FairSpec
CONSTANTS
  Worker = {w1, w2}
  Strand = {s1}
  NoStrand = none
  MaxHandlers = 3
CHECK_DEADLOCK FALSE
INVARIANTS TypeOK ScheduledOnce NoLostWakeup WorkExact
PROPERTIES StrandFifo HandlersRun StopEnds

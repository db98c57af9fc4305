SPECIFICATION Spec
CONSTANTS
  Session = {s1}
  Worker = {w1, w2}
  Replies = {"special"}
  Losses = {"eof"}
  MaxMsgs = 2
  MaxCloses = 0
CHECK_DEADLOCK FALSE
INVARIANT SpecialObjectIntact

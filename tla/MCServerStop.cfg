SPECIFICATION FairSpec
CONSTANTS
  Session = {s1}
  Worker = {w1, w2}
  Replies = {"plain"}
  Losses = {"eof"}
  MaxMsgs = 1
  MaxCloses = 0
CHECK_DEADLOCK FALSE
PROPERTY StopStops

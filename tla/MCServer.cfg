SPECIFICATION FairSpec
CONSTANTS
  Session = {s1}
  Worker = {w1, w2}
  Replies = {"plain", "empty"}
  Losses = {"eof"}
  MaxMsgs = 1
  MaxCloses = 1
CHECK_DEADLOCK FALSE
INVARIANTS TypeOK ReplyBeforeExit OpenIsRegistered
PROPERTIES MessagesRead DisconnectedReleased ClosedComesToRest

SPECIFICATION Spec
CONSTANTS
  Name = {f}
  Responds = {"no", "special"}
  Ends = {"return", "std"}
CHECK_DEADLOCK FALSE
INVARIANT ReplyAsDocumented

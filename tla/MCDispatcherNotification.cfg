SPECIFICATION Spec
CONSTANTS
  Name = {f}
  Responds = {"no"}
  Ends = {"return", "error_custom"}
CHECK_DEADLOCK FALSE
INVARIANTS NotificationErrorIgnored

SPECIFICATION Spec
CONSTANTS
  Name = {f}
  Responds = {"no", "special"}
  Ends = {"return", "std", "other", "error_nil", "error_custom", "caught"}
CHECK_DEADLOCK FALSE
INVARIANTS TypeOK OutcomeIsOwn SuppressedNeverThrows ExitOnlyWhenAsked

CONSTANTS
  full = full
  public = public
  open = open
  restricted = restricted
  Profile = {full, public}
  Prompt = {m, n}
  None = None
  Class = {open, restricted}
  Guarded = {restricted}
  Allowed <- MCAllowed
  Valid = {good}
  Invalid = {bad}
  MaxRetries = 2
  MaxCalls = 3
SPECIFICATION Spec
INVARIANTS PolicyHeld EveryAttemptTraced AnswerJustified
CHECK_DEADLOCK FALSE

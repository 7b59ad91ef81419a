SPECIFICATION Spec
CONSTANTS
  Handlers = {h1}
  Tokens = {t1}
  NoToken = NoToken
  Failed = Failed
INVARIANTS SuccessIsTrue
CHECK_DEADLOCK FALSE

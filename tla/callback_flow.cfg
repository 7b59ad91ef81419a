SPECIFICATION FairSpec
CONSTANTS
  Handlers = {h1, h2, h3}
  Tokens = {t1, t2}
  NoToken = NoToken
  Failed = Failed
INVARIANTS TypeOK ReturnsValidToken
PROPERTIES FlowReturns
CHECK_DEADLOCK FALSE

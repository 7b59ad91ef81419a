SPECIFICATION FairSpec
CONSTANTS
  p1 = p1
  p2 = p2
  e = e
  t1 = t1
  t2 = t2
  Procs <- MCProcs
  Tokens <- MCTokens
  BearerToken <- MCBearerToken
  None = None
  Missing = Missing
  Partial = Partial
INVARIANTS TypeOK SentIsVouched
PROPERTIES StoredIsVouched KeptUnlessDoubted CommandEnds

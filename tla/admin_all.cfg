SPECIFICATION Spec
CONSTANTS
  Reqs = {r1, r2}
  Names = {a, b}
  DbMayFail = TRUE
  MaxRows = 2
  PageSize = 1
  Called <- Ops
  NoName = NoName
SYMMETRY MCSymmetry
INVARIANTS TypeOK AnswersStayInProject SuccessMeansWritten CreatedUserIsOwn NothingSkipped
PROPERTIES WritesStayInProject
CONSTRAINT OneTable

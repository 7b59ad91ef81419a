SPECIFICATION Spec
CONSTANTS
  Reqs = {r1}
  Names = {a, b}
  DbMayFail = FALSE
  MaxRows = 2
  PageSize = 1
  Called <- ItemCalls
  NoName = NoName
SYMMETRY MCSymmetry

PROPERTIES ListsTheProject

SPECIFICATION HandlersSpec
CONSTANTS
  RowCount = 5
  BatchSize = 2
  ErrorCap = 1
  Shape = {"ab", "a", "none"}
  Arity <- MCArity
  NoQuery = NoQuery
  Pod = {p1}
  Admin = {a1, a2}
  LastSecond = 3
INVARIANTS ImportTypeOK SuccessIsExact NothingLost TypeOK
PROPERTIES ImportEnds ApprovalSparesUnfinished ApprovedIsUnderWay
\* A finished import takes no more steps.
CHECK_DEADLOCK FALSE

SPECIFICATION Spec
CONSTANTS
  Calls = {c1}
  Databases = {north, south}
  HeldElsewhere = {north}
  Clients = {"silent", "elicited", "stateless"}
  HardRowCap = 2
  MaxRows = 3
  MaxConnects = 3
  MaxOntologies = 2
INVARIANTS
  RunsAsJudged
  RowsAreBounded
CONSTRAINT
  UntilAnAnswer
CHECK_DEADLOCK FALSE

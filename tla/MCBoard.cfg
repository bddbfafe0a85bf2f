SPECIFICATION Spec
CONSTANTS
  Issues = {i1, i2, i3}
  Columns = {todo, done}
  FirstColumn = todo
  Creators = {r1}
  Editors = {r2}
  None = None
  Faults = {"disconnect", "delete"}
  MaxOrder = 2
  MaxCrashes = 1
INVARIANTS TypeOK DistinctOrders
PROPERTIES FollowsBoard AnswerShowsOrder RequestsEnd

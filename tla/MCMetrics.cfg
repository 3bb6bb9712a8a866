SPECIFICATION MetricsSpec
CONSTANTS
  Text = Text
  Huge = Huge
  Rows <- MCRows
  MaxRows = 2
  Word = 4
  Columns = 3
  Used = 2
INVARIANTS
  SumsAgree
  NeverPanics
PROPERTIES
  NothingFromFailedRead

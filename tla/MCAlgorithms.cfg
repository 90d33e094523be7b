CONSTANTS
  Day = 24
  Hour = 1
  Days = 2
  MaxLabels = 3
  MaxAnswers = 2
  MaxLines = 4
  Paths = {p1, p2, p3}
  Digests = {d1, d2}
  MaxHistory = 3
  Decimal <- ToString
  Base = 2
  Texts <- SomeTexts
  MaxText = 5
  MaxStrings = 2
SPECIFICATION AlgorithmSpec
INVARIANTS
  FirstNearMidnight
  QuestionIsForHost
  AddressesFound
  HeadersKept
  ReportsOldFiles
  RequestHeaders
  MessageParses
  ListsComplete
CHECK_DEADLOCK FALSE

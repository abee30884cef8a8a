CONSTANTS
  Clerks = {c1, c2}
  Supplies = {s1, s2}
  Services = {v1}
  Quantities = {1, 2}
  FirstStock = 2
  Threshold = 1
  MaxTasks = 2
  MaxEntries = 2
  MaxItems = 2
  Owners = {t1}
  DayLength = 2
  LastMinute = 5
  MaxMishaps = 1
  MaxSettings = 1
  Orders = {k1}
  SaleIds = {i1, i2}
  ExpenseIds = {e1}
  Outlets = {o1, o2}
  Amounts = {6}
  Span <- MCSpan
  MonthLength = 6
  MaxPostings = 3
SYMMETRY Interchangeable
INIT Init
NEXT Next
INVARIANTS
  OperationsTypeOK
  StockAccounted
  AlertedWasLow
  MessagesRemembered
  SummaryUnlessDisturbed
  FiguresAgree
CHECK_DEADLOCK FALSE

SPECIFICATION FairSpec
ACTION_CONSTRAINT CreatedInOrder
CONSTANTS
  c1 = c1
  c2 = c2
  TableCount = 4
  RowCount = 4
  Schema <- Types
  CreateOrder <- Order
  TooLong <- LongTexts
  Client = {c1, c2}
  Statements <- AllStatements
  SchemaLines <- File
  Requests <- SomeRequests
  Nobody = Nobody
INVARIANTS SelectIsFilter
PROPERTIES ImplementsRelations ServesReadOnly StopReturns ClientsAnswered

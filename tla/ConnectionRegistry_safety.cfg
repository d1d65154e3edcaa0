CONSTANTS
  Addresses = {a1, a2}
  MaxConnections = 2
  MaxStatements = 2
  MaxModels = 1
  MaxJobs = 2
SPECIFICATION Spec
INVARIANTS TypeOK BorrowedStatementAlive StatementOwnedOnce RepliesInOrder
PROPERTIES EveryJobDispatched ClosedByItsWorker

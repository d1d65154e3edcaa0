CONSTANTS
  Addresses = {a1}
  MaxConnections = 2
  MaxStatements = 1
  MaxModels = 2
  MaxJobs = 1
SPECIFICATION SafeSpec
INVARIANT StatementStaysOnItsConnection

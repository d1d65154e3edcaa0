CONSTANTS
  Values = {v1}
  Null = Null
  ClientCounts = {0, 3}
  ServerParams = 2
  MaxIndex = 3
  MaxExecutions = 2
SPECIFICATION Spec
INVARIANTS TypeOK CalmExecutionsSendTheirBinds CalmStagingInBounds

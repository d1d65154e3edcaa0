CONSTANT MaxJobs = 4
SPECIFICATION Spec
INVARIANTS TypeOK PendingAccounting FifoExecution RepliesOnceInOrder
PROPERTIES ServiceSpec EveryJobExecuted StopReturnsWhenWorkerAwake

CONSTANT MaxJobs = 2
SPECIFICATION Spec
PROPERTY StopReturns

CONSTANTS
  NWorkers = 2
  StartJobs = 1
  MaxJobs = 2
SPECIFICATION Spec
INVARIANT NoJobDroppedBeforeStop
INVARIANT BusyAreRunning
PROPERTY EveryJobRuns
PROPERTY TimedWaitReturns

CONSTANTS
  NWorkers = 2
  StartJobs = 0
  MaxJobs = 2
SPECIFICATION Spec
PROPERTY WaitMeansAllDone

\* One scheduler process and two workers, a transfer with a deadline,
\* every fault but a lost wallet answer.
SPECIFICATION PSpec
CONSTANTS
  p1 = p1  p2 = p2  w1 = w1  w2 = w2  i1 = i1  i2 = i2
  Process <- OneProcess
  Worker <- TwoWorkers
  Intent <- OneIntent
  Transfers <- OneIntent
  Deadlined <- OneIntent
  Faults = {"schedulerCrash", "workerCrash", "schedulerDB", "engineDB", "publishTask",
            "republishTask", "publishResult", "slow", "timeout", "duplicate"}
  MaxFaults = 3
SYMMETRY WorkerSymmetry
CHECK_DEADLOCK FALSE
INVARIANTS PTypeOK OneExecutor
PROPERTIES KeepsContract OverdueOnlyFails

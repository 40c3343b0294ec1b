\* The faults the retries are there for: those of the scheduler, lost answers of
\* the wallet, duplicated and slow messages.
SPECIFICATION FairPSpec
CONSTANTS
  p1 = p1  p2 = p2  w1 = w1  w2 = w2  i1 = i1  i2 = i2
  Process <- OneProcess
  Worker <- OneWorker
  Intent <- TwoIntents
  Transfers <- OneIntent
  Deadlined <- SecondIntent
  Faults = {"schedulerCrash", "schedulerDB", "publishTask", "rpc", "slow", "duplicate"}
  MaxFaults = 2
CHECK_DEADLOCK FALSE
INVARIANTS AckedMeansPublished ScheduledIsRemembered
PROPERTIES EveryIntentSettles

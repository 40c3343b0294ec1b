\* A worker killed while it executes.
SPECIFICATION FairPSpec
CONSTANTS
  p1 = p1  p2 = p2  w1 = w1  w2 = w2  i1 = i1  i2 = i2
  Process <- OneProcess
  Worker <- TwoWorkers
  Intent <- OneIntent
  Transfers <- OneIntent
  Deadlined = {}
  Faults = {"workerCrash"}
  MaxFaults = 1
CHECK_DEADLOCK FALSE
PROPERTIES EveryIntentSettles

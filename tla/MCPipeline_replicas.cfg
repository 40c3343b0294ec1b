\* The two scheduler replicas of the Kubernetes deployment, and one message
\* redelivered while its first holder is slow.
SPECIFICATION PSpec
CONSTANTS
  p1 = p1  p2 = p2  w1 = w1  w2 = w2  i1 = i1  i2 = i2
  Process <- TwoProcesses
  Worker <- OneWorker
  Intent <- OneIntent
  Transfers <- OneIntent
  Deadlined = {}
  Faults = {"slow"}
  MaxFaults = 1
CHECK_DEADLOCK FALSE
PROPERTIES StatusForward

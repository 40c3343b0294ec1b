\* Two workers with batches of two: failed publishes and statements, crashes,
\* and workers that are still busy when their claim is taken over.
SPECIFICATION FairOSpec
CONSTANTS
  w1 = w1  w2 = w2
  Worker <- TwoWorkers
  NumEvents = 2
  BatchSize = 2
  MaxRetries = 1
  Faults = {"nats", "db", "crash", "slow"}
  MaxFaults = 6
CHECK_DEADLOCK FALSE
INVARIANTS NoEventLost FailedMeansExhausted ExclusiveClaim
PROPERTIES EveryEventSettles

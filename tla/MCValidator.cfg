\* Everything around the write may fail, and so may the write.
SPECIFICATION FairVSpec
CONSTANTS
  i1 = i1  i2 = i2
  Intent <- TwoIntents
  Faults = {"crash", "torn", "short", "sync", "db", "slow", "publish", "reschedule"}
  MaxFaults = 2
CHECK_DEADLOCK FALSE
INVARIANTS LedgerVerifies PageIsComplete LedgerAgrees
PROPERTIES EveryResultRecorded

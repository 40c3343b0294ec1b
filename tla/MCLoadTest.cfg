\* Two runs of the program with two goroutines and three transfers, two of them
\* equal, against a gateway that lets four of them through.
SPECIFICATION LTSpec
CONSTANTS
  h1 = h1  h2 = h2  c1 = c1
  None = None
  Handler <- TwoHandlers
  Client <- OneClient
  Tester = c1
  Signature <- Signatures
  Type = {"TRANSFER"}
  TypeOf <- Types
  Rows <- File
  RowLimit = 3
  MaxRuns = 2
  Limit = 4
  MaxMinute = 0
  MaxRequests = 6
  MaxDays = 1
  Faults = {"redis", "grpc", "cancel"}
  MaxFaults = 1
CHECK_DEADLOCK FALSE
INVARIANTS ReportIsTrue AnswersAreLive
PROPERTIES EveryTestEnds

\* Two requests at a time of one client, with two signatures, over a change
\* of the minute.
SPECIFICATION GSpec
CONSTANTS
  h1 = h1  h2 = h2  s1 = s1  s2 = s2  c1 = c1
  None = None
  Handler <- TwoHandlers
  Client <- OneClient
  Signature <- TwoSignatures
  Type <- TwoTypes
  TypeOf <- Types
  Limit = 2
  MaxMinute = 1
  MaxRequests = 4
  MaxDays = 1
  Faults = {"redis", "grpc", "cancel"}
  MaxFaults = 1
CHECK_DEADLOCK FALSE
SYMMETRY HandlerAndSignatureSymmetry
INVARIANTS RateLimited NoLeakedKeys DuplicatesBounded AnswersAreStored

\* Transfers of one and a half units of the last decimal in all directions
\* between three accounts, one of them new, under fair lock queues; the second
\* transfer to an account takes it beyond float64's precision.
SPECIFICATION FairWSpec
CONSTANTS
  None = None
  s1 = s1  s2 = s2
  r1 = r1  r2 = r2
  Session <- TwoSessions
  Ref <- TwoRefs
  NumAccounts = 3
  Seed <- SeedLarge
  Ops = {"Transfer"}
  Amount = {24}
  Scale = 16
  Capacity = 200
  Exact = 128
  Fine = 5
  Coarse = 64
INVARIANTS NoDeadlock
PROPERTIES EveryCallAnswered ConservesUpToRounding

\* Credit, Debit and Transfer in two concurrent sessions, with an account that
\* does not exist yet, a reference reused by different calls, a credit that
\* leaves float64's precision and a second one that overflows the column.
SPECIFICATION WSpec
CONSTANTS
  None = None
  s1 = s1  s2 = s2
  r1 = r1  r2 = r2
  Session <- TwoSessions
  Ref <- TwoRefs
  NumAccounts = 3
  Seed <- SeedTwo
  Ops = {"Credit", "Debit", "Transfer"}
  Amount = {0, 10}
  Scale = 10
  Capacity = 50
  Exact = 30
  Fine = 3
  Coarse = 15
SYMMETRY SessionAndRefSymmetry
INVARIANTS TypeOK NoOverdraft AppliedOnce NoLostUpdate AuditTrail
PROPERTY ImplementsAtomicWallet

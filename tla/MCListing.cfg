\* Five intents, two of them with the same created_at, in pages of two.
SPECIFICATION FairLSpec
CONSTANTS
  i1 = i1  i2 = i2  i3 = i3  i4 = i4  i5 = i5
  Intent <- FiveIntents
  At <- Times
  PageSize = 0
  DefaultPageSize = 2
  MaxChanges = 2
CHECK_DEADLOCK FALSE
INVARIANTS ListedOnce NothingSkipped
PROPERTIES NewestFirst WalkEnds

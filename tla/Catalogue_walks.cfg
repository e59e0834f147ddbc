SPECIFICATION FairSpec
CONSTANTS
  n1 = n1
  n2 = n2
  Events = {1, 2}
  Times = {1, 2}
  Cursors = {n1, n2}
  PageSize = 1
INVARIANTS Inv EveryItemSaved EndsAtLastPage NoSkip NoRepeat
PROPERTY WalkEnds

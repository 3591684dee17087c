SPECIFICATION Spec
CONSTANTS
  Handler = {h1, h2}
  Server = {s1, s2}
  Alias = alias
  Tool = {t1}
  Db = {d1, d2}
  Sizes = {1, 2}
  Limits <- MCLimits
  Every = Every
  DefaultLimit = 1
  MaxLimit = 2
  MaxCalls = 3
SYMMETRY Symmetry
INVARIANT IInv
INVARIANT ListsTheEnd
PROPERTY DropsOnlyWhenFull
PROPERTY AnsweredIsRecorded
